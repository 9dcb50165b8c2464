SPECIFICATION PartsSpec
CONSTANTS
    p1 = p1
    p2 = p2
    Ends = {p1, p2}
    Scenarios <- MCScenarios
    SEGMENTS = 2
    QUEUE_FRAMES = 2
    SLOTS = 2
    BUCKET = 1
    MaxGiveUps = 1
    Opens = {o1, o2}
    MaxTrouble = 2
INVARIANTS RefusedOnlyMixed CompleteHasFile
PROPERTIES ChannelDelivers ClaimReleased
CHECK_DEADLOCK FALSE
