\* One viewer.
SPECIFICATION FairSpec
CONSTANTS
    Pub = pub
    Viewers = {ann}
    MaxAttempts = 2
    Options <- Each
    MaxDrops = 2
    MaxFailures = 1
INVARIANTS
    PeersAreTheViewers
    EndsMatch
    StoppedLeaves
PROPERTIES
    ViewerRecovers
CHECK_DEADLOCK FALSE
