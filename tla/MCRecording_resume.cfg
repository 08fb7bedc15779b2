\* The application retries later, never inside a listener.
SPECIFICATION Spec
CONSTANTS
    Sizes <- ThreeChunks
    MaxBufferedBytes = 4
    MaxQueuedBytes = 2
    MaxStops = 1
    Eager = {FALSE}
INVARIANT
    OnlyRecoveryResumes
