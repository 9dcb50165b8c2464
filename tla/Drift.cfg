SPECIFICATION DriftSpec
CONSTANTS
    Aheads = {3}
    Positions = {2}
    MAX_RTT = 2
    REQUEST_TIMEOUT = 3
    SAMPLE_COUNT = 2
    MaxNow = 5
    MaxBursts = 1
    MaxCommands = 2
    MaxExcursions = 1
INVARIANT RepliesPaired
CHECK_DEADLOCK FALSE
