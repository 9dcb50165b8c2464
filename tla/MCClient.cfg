SPECIFICATION ClientSpec
CONSTANTS
    Joinable = {r1, r2}
    Own = {o1}
    MaxOps = 3
    MaxTrouble = 2
    Users = {1, 2}
    FirstHost = 1
    Sizes = {1, 2}
    Keep = 1
    MaxAttempts = 2
    MaxPublishes = 2
    MaxConns = 2
    MaxSetbacks = 1
    Aheads = {3}
    Positions = {2}
    MAX_RTT = 2
    REQUEST_TIMEOUT = 3
    SAMPLE_COUNT = 2
    MaxNow = 5
    MaxBursts = 1
    MaxCommands = 2
    MaxExcursions = 1
SYMMETRY RoomSymmetry
INVARIANTS
    Heals
    LeaveHeard
    ConfirmedIsStored
    Delivered
    PlayerOnTime
PROPERTIES
    NoDowngrade
CHECK_DEADLOCK FALSE
