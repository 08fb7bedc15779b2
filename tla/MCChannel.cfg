\* One other member; one attribute value; two chats; three sockets.
SPECIFICATION FairSpec
CONSTANTS
    Me = me
    Others = {bob}
    HistoryLimit = 2
    MaxAttempts = 2
    Options <- Either
    MaxValue = 1
    MaxChats = 2
    MaxSets = 1
    MaxDrops = 2
    MaxIncoming = 1
INVARIANTS
    JoinedUnlessAuto
    PresenceConverges
    EchoedPresenceSurvives
    ConfirmedMeansAccepted
    NoDoubles
PROPERTIES
    ReconnectEnds
CHECK_DEADLOCK FALSE
