\* One press more than the window holds, one lost connection.
SPECIFICATION PlaybackSpec
CONSTANTS
    Window = 2
    MaxPresses = 3
    MaxDrops = 1
INVARIANT TakesBackOwn
CHECK_DEADLOCK FALSE
