\* Each part alone; the bounds that parts share are those the larger needs.
SPECIFICATION Spec
CONSTANTS
    Parts = {"host", "media", "sfu", "record", "views", "lists", "out", "events", "broadcasts"}
    None = None
    MaxMounts = 2
    MaxRequests = 3
    MaxCalls = 2
    MaxTracks = 2
    MaxStream = 2
    MaxRecorders = 2
    MaxChunks = 1
    MaxGiven = 2
    MaxMessages = 2
    MaxWrites = 2
    Cameras = {1, 2}
    Speakers = {3}
    MaxAsks = 2
    MaxConnections = 3
    MaxListeners = 3
    MaxEmits = 2
    Clients = {"a", "b"}
    MaxPosts = 3
    MaxConnects = 2
INVARIANTS
    RenderedIsTrue
    NothingLeftBehind
    TracksAreCurrent
    DeliveredOnce
PROPERTIES
    MountedConnects
    DiffsPatch
CHECK_DEADLOCK FALSE
