SPECIFICATION SentSpec
CONSTANTS
    Users = {1, 2}
    Host = 2
    NoOne = 0
    Strokes = {1, 2, 3}
    LongColour = {3}
    UndoOwn = {1}
    UndoAny = {}
    ClearAllowed = {}
    MaxCommitted = 2
    MaxRetained = 2
    MaxPerStroke = 1
    MaxOpenPerUser = 2
    MaxOpenPerRoom = 2
    Ticks = {0}
    MaxUses = 1
    MaxPoints = 2
    Rate <- SmallRate
    Burst <- SmallBurst
    RATE_THROTTLE_MS = 2
    BAD_MSG_THRESHOLD = 2
    BAD_MSG_WINDOW_MS = 2
    PRE_AUTH_MAX_FRAME_BYTES = 1
    Sizes = {1, 2}
    ClockSteps <- SmallSteps
    MaxClock = 4
    MaxFrames = 4
    Window = 2
    MaxPresses = 3
    MaxDrops = 1
INVARIANTS
    ContentMatches
    CanvasAgrees
    OneAnswerRepairs
    BucketExact
PROPERTY OrderKept
CHECK_DEADLOCK FALSE
