SPECIFICATION OverlaySpec
CONSTANTS
    MAX_QUEUED_POINTS = 1
    MaxSketches = 2
    MaxSamples = 2
    MaxExtras = 2
    MIN_LASER_SEND_INTERVAL = 1
    LASER_KEEPALIVE = 3
    LASER_SEND_TIMEOUT = 6
    REMOTE_LASER_IDLE = 9
    SlowSend = 1
    WireDelay = 1
    SettledBy = 10
INVARIANTS
    SketchAgrees
    LaserStays
PROPERTIES
    OverlaySettles
CHECK_DEADLOCK FALSE
