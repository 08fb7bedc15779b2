SPECIFICATION Spec
CONSTANTS
    s1 = s1
    s2 = s2
    s3 = s3
    alice = alice
    bob = bob
    carol = carol
    r1 = r1
    r2 = r2
    audio = audio
    Sockets = {s1, s2, s3}
    Peers = {alice, bob, carol}
    Rooms = {r1}
    NoSocket = NoSocket
    NoBinding = NoBinding
    Everyone = Everyone
    Attrs = {audio}
    MuteKeys = {audio}
    Capacity = 2
    Authenticate = FALSE
    Enforce = TRUE
    ChatLimit = 0
    Rate <- PresenceLimited
    Claims <- SharedClaims
    MaxPending = 1
    MaxChats = 0
INVARIANTS
    ViewsAgree
    MembersRoutable
PROPERTIES
    ImplementsModeratedRooms
CHECK_DEADLOCK FALSE
