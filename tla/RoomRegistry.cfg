SPECIFICATION Spec
CONSTANTS
    c1 = c1
    c3 = c3
    NoConn = NoConn
    Users = {1, 2}
    Conns = {c1, c3}
    Owner <- OwnerTwo
    Creators = {c1}
    Migrations = {TRUE, FALSE}
    MaxParticipants = 2
    Grace = 1
    DisconnectAfter = 1
    StaleAfter = 1
    MaxTime = 1
    MaxRestarts = 1
INVARIANTS
    RoomHasItsHost
    RestartKeepsHost
    RowFollowsRoom
PROPERTIES
    GraceResolves
