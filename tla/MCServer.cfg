SPECIFICATION ServerSpec
CONSTANTS
    s1 = s1
    s2 = s2
    alice = alice
    bob = bob
    r1 = r1
    Sockets = {s1, s2}
    Peers = {alice, bob}
    Rooms = {r1}
    NoSocket = NoSocket
    NoBinding = NoBinding
    Everyone = Everyone
    Attrs = {}
    MuteKeys = {}
    Capacity = 2
    Authenticate = FALSE
    Enforce = TRUE
    ChatLimit = 2
    Rate <- ChatLimited
    Claims <- OwnClaims
    MaxPending = 1
    MaxChats = 3
INVARIANTS
    TypeOK
    HistoryIsRecent
    MembersAreReached
CHECK_DEADLOCK FALSE
