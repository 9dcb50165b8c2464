SPECIFICATION RosterSpec
CONSTANTS
    People = {me, a, b}
    Me = me
    Ring = 2
    MaxChanges = 3
    MaxAsks = 2
    MaxDrops = 1
INVARIANT RosterFollows
SYMMETRY OthersAlike
CHECK_DEADLOCK FALSE
