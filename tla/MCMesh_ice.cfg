\* No connection drops; one peer connection fails.
SPECIFICATION FairSpec
CONSTANTS
    Pub = pub
    Viewers = {ann}
    MaxAttempts = 1
    Options <- Ice
    MaxDrops = 0
    MaxFailures = 1
PROPERTY
    ReconnectingEnds
CHECK_DEADLOCK FALSE
