SPECIFICATION PartsSpec
CONSTANTS
    MaxConns = 5
    MaxTrouble = 2
    MaxSends = 1
    Base = 2
    Capacity = 2
    MaxItems = 4
    MaxAway = 1
    Senders = {h, k}
    MaxCmds = 3
    MaxMishaps = 1
INVARIANTS QueueIsThisSession LiveUserSeated NothingLost StoreFollows
PROPERTIES LinkComesBack FeedCatchesUp ViewerCatchesUp
CHECK_DEADLOCK FALSE
