SPECIFICATION FetchSpec
CONSTANTS
    Chunks = {0, 1}
    Sources = {1, 2}
    Priority <- MCPriority
    Faulty = {1}
    WINDOW_SIZE = 2
    NAK_THRESHOLD = 2
    MAX_CHUNK_RETRIES = 3
    STUCK_REQUEST_DEMOTE_AFTER = 1
    MaxTrouble = 1
    Sizes = {3}
    Size = 3
    CHUNK_SIZE = 2
    READ_BUFFER = 3
    WINDOW = 2
    MAX_RETRIES = 3
    MaxLost = 1
    MaxBad = 1
    MaxHalts = 1
    MaxSessions = 2
    Host = 1
    Viewer = 2
    EARLY_SIGNALS_PER_PEER = 3
    ICE_RESTART_LIMIT = 1
    MaxPcs = 4
    MaxLosses = 1
INVARIANTS
    VerifiedOnDisk
    OneFaultSurvived
CHECK_DEADLOCK FALSE
PROPERTIES
    RunEnds
    ViewerServed
    ImplementsFetch
    SessionFetches
