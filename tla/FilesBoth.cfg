SPECIFICATION ChannelSpec
CONSTANTS
    p1 = p1
    p2 = p2
    Ends = {p1, p2}
    Scenarios <- MCScenarios
    SEGMENTS = 2
    QUEUE_FRAMES = 2
    WINDOW = 2
    SLOTS = 2
    BUCKET = 1
    MaxGiveUps = 0
INVARIANT HonestNeverRefused
CHECK_DEADLOCK FALSE
