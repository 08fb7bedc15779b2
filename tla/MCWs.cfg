SPECIFICATION FairSpec
CONSTANTS
    MaxSockets = 2
    MaxMsgs = 3
    Options <- EveryUse
INVARIANTS
    OneAttempt
    EachMessageOnce
    NoRetryAfterDisconnect
PROPERTIES
    Recovers
CHECK_DEADLOCK FALSE
