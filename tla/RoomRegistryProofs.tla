------------------------- MODULE RoomRegistryProofs -------------------------
(***************************************************************************)
(* Theorems about RoomRegistry for any number of users and connections,    *)
(* any assignment of connections to users (several at once for the same    *)
(* user included) and any number of crashes.                               *)
(***************************************************************************)
EXTENDS RoomRegistry, WellFoundedInduction, TLAPS

-----------------------------------------------------------------------------
(* The election order.                                                     *)

\* A non-empty set of naturals has a least element.
LEMMA LeastNatural ==
    ASSUME NEW T, T \subseteq Nat, T # {}
    PROVE  \E x \in T : \A y \in T : x <= y
<1>1. \E x \in T : \A y \in T : ~(<<y, x>> \in OpToRel(<, Nat))
  BY NatLessThanWellFounded, WFMin
<1>2. PICK x \in T : \A y \in T : ~(<<y, x>> \in OpToRel(<, Nat))
  BY <1>1
<1>3. ASSUME NEW y \in T PROVE x <= y
  <2>1. x \in Nat /\ y \in Nat
    OBVIOUS
  <2>2. ~(y < x)
    BY <1>2, <2>1 DEF OpToRel
  <2> QED
    BY <2>1, <2>2
<1> QED
  BY <1>3

\* The join order has a first element in every non-empty set of users: the
\* CHOOSE of an election or of RoomState::host() picks a member of its set.
LEMMA FirstIsMember ==
    ASSUME NEW p \in [Users -> Record], NEW S \in SUBSET Users, S # {}
    PROVE  First(p, S) \in S
<1> DEFINE J == {p[u].joined : u \in S}
<1>1. J \subseteq Nat /\ J # {}
  BY DEF Record
<1>2. PICK j \in J : \A i \in J : j <= i
  BY <1>1, LeastNatural
<1> DEFINE T == {u \in S : p[u].joined = j}
<1>3. T \subseteq Nat /\ T # {}
  BY <1>2, ConstantsAssumption
<1>4. PICK u \in T : \A v \in T : u <= v
  BY <1>3, LeastNatural
<1>5. ASSUME NEW v \in S PROVE Before(p, u, v)
  <2>1. p[v].joined \in Nat /\ j \in Nat /\ j <= p[v].joined
    BY <1>1, <1>2
  <2>2. p[u].joined = j
    BY <1>4
  <2>3. CASE p[v].joined = j
    BY <1>4, <2>2, <2>3 DEF Before
  <2>4. CASE p[v].joined # j
    <3>1. j < p[v].joined
      BY <2>1, <2>4
    <3> QED
      BY <2>2, <3>1 DEF Before
  <2> QED
    BY <2>3, <2>4
<1>6. \E w \in S : \A v \in S : Before(p, w, v)
  BY <1>4, <1>5
<1> QED
  BY <1>6 DEF First

-----------------------------------------------------------------------------
(* Types.                                                                  *)

LEMMA RecordTypes ==
    ASSUME TypeOK
    PROVE  /\ NoRecord \in Record
           /\ \A joined \in Nat, isHost \in BOOLEAN : Seat(joined, isHost) \in Record
           /\ \A p \in Record, status \in Statuses : Stamped(p, status) \in Record
BY DEF TypeOK, Record, NoRecord, Statuses, Seat, Stamped

LEMMA ConnTypes ==
    ASSUME TypeOK, NEW c \in Conns
    PROVE  /\ Closed \in ConnState /\ Up \in ConnState
           /\ \A pc \in ConnPcs : Goto(c, pc) => conn' \in [Conns -> ConnState]
           /\ \A pc \in ConnPcs, lost \in BOOLEAN :
                 Save(c, pc, lost) => conn' \in [Conns -> ConnState]
           /\ Resume(c) => conn' \in [Conns -> ConnState]
<1>1. Closed \in ConnState /\ Up \in ConnState
  BY DEF Closed, Up, ConnState, ConnPcs
<1>2. ASSUME NEW pc \in ConnPcs, Goto(c, pc) PROVE conn' \in [Conns -> ConnState]
  BY <1>2 DEF Goto, TypeOK, ConnState
<1>3. ASSUME NEW pc \in ConnPcs, NEW lost \in BOOLEAN, Save(c, pc, lost)
      PROVE  conn' \in [Conns -> ConnState]
  BY <1>3 DEF Save, TypeOK, ConnState
<1>4. ASSUME Resume(c) PROVE conn' \in [Conns -> ConnState]
  BY <1>1, <1>4 DEF Resume, TypeOK
<1> QED
  BY <1>1, <1>2, <1>3, <1>4

LEMMA RowTypes ==
    ASSUME TypeOK
    PROVE  /\ \A u, joined : \A isHost \in BOOLEAN :
                 (u \in Users => joined \in Nat) /\ AddParticipant(u, isHost, joined)
                    => rows' \in [Users -> Record]
           /\ \A u \in Users, status \in Statuses :
                 UpdateStatus(u, status) => rows' \in [Users -> Record]
<1>1. ASSUME NEW u, NEW joined, NEW isHost \in BOOLEAN, u \in Users => joined \in Nat,
             AddParticipant(u, isHost, joined)
      PROVE  rows' \in [Users -> Record]
  <2>1. u \in Users => Seat(joined, isHost) \in Record
    BY <1>1, RecordTypes
  <2> QED
    BY <1>1, <2>1 DEF AddParticipant, TypeOK
<1>2. ASSUME NEW u \in Users, NEW status \in Statuses, UpdateStatus(u, status)
      PROVE  rows' \in [Users -> Record]
  <2>1. Stamped(rows[u], status) \in Record
    BY RecordTypes DEF TypeOK
  <2> QED
    BY <1>2, <2>1 DEF UpdateStatus, TypeOK
<1> QED
  BY <1>1, <1>2

\* An election keeps the records well typed and names a user.
LEMMA ElectedType ==
    ASSUME TypeOK, NEW p \in [Users -> Record]
    PROVE  Elected(p) \in [Users -> Record] /\ ElectedId(p) \in Users \cup {None}
<1>1. Candidates(p) \in SUBSET Users
  BY DEF Candidates
<1>2. CASE Candidates(p) = {}
  BY <1>2 DEF Elected, ElectedId, TypeOK
<1>3. CASE Candidates(p) # {}
  <2>1. First(p, Candidates(p)) \in Users
    BY <1>1, <1>3, FirstIsMember
  <2>2. \A u \in Users : [p[u] EXCEPT !.isHost = (u = First(p, Candidates(p)))] \in Record
    BY DEF Record
  <2> QED
    BY <1>3, <2>1, <2>2 DEF Elected, ElectedId
<1> QED
  BY <1>2, <1>3

\* leave_room keeps the types, whoever calls it.
LEMMA LeaveType ==
    ASSUME TypeOK, NEW c \in Conns, NEW u \in Users, NEW lost \in BOOLEAN,
           LeaveRoom(c, u, lost)
    PROVE  /\ life' \in {"Absent", "Open", "Ended"}
           /\ hostUserId' \in Users \cup {None}
           /\ deadline' \in Nat \cup {None}
           /\ parts' \in [Users -> Record]
           /\ conn' \in [Conns -> ConnState]
<1> DEFINE left == [parts EXCEPT ![u] = Stamped(@, "Left")]
           away == [parts EXCEPT ![u] = Stamped(@, "Reconnecting")]
<1>0. {"saveLeft", "saveEnd", "saveNewHost", "saveDeadline"} \subseteq ConnPcs
  BY DEF ConnPcs, SavePcs
<1>1. left \in [Users -> Record] /\ away \in [Users -> Record]
  <2>1. Stamped(parts[u], "Left") \in Record /\ Stamped(parts[u], "Reconnecting") \in Record
    BY RecordTypes DEF TypeOK, Statuses
  <2> QED
    BY <2>1 DEF TypeOK
<1>2. CASE LeaveAsViewer(c, u, lost)
  BY <1>0, <1>1, <1>2, ConnTypes DEF LeaveAsViewer, TypeOK
<1>3. CASE LeaveEndsRoom(c, u, lost)
  BY <1>0, <1>1, <1>3, ConnTypes DEF LeaveEndsRoom, TypeOK
<1>4. CASE LeaveMigrates(c, u, lost)
  <2>1. parts' \in [Users -> Record] /\ hostUserId' \in Users \cup {None}
    <3> HIDE DEF left
    <3>1. Elected(left) \in [Users -> Record] /\ ElectedId(left) \in Users \cup {None}
      BY <1>1, ElectedType
    <3> QED
      BY <1>4, <3>1 DEF LeaveMigrates, left
  <2>2. conn' \in [Conns -> ConnState]
    BY <1>0, <1>4, ConnTypes DEF LeaveMigrates
  <2> QED
    BY <1>4, <2>1, <2>2 DEF LeaveMigrates, TypeOK
<1>5. CASE LeaveStartsGrace(c, u, lost)
  <2>1. deadline' \in Nat
    BY <1>5, ConstantsAssumption DEF LeaveStartsGrace, TypeOK
  <2>2. parts' \in [Users -> Record] /\ hostUserId' \in Users \cup {None}
    <3> HIDE DEF away
    <3>1. Elected(away) \in [Users -> Record] /\ ElectedId(away) \in Users \cup {None}
      BY <1>1, ElectedType
    <3> QED
      BY <1>1, <1>5, <3>1 DEF LeaveStartsGrace, TypeOK, away
  <2>3. conn' \in [Conns -> ConnState]
    BY <1>0, <1>5, ConnTypes DEF LeaveStartsGrace
  <2> QED
    BY <1>5, <2>1, <2>2, <2>3 DEF LeaveStartsGrace, TypeOK
<1> QED
  BY <1>2, <1>3, <1>4, <1>5 DEF LeaveRoom

\* Every step of a connection task keeps the types.
LEMMA ConnTypeStep ==
    ASSUME TypeOK, HostPresent, NEW c \in Conns, ConnStep(c) \/ ClientStep(c)
    PROVE  TypeOK'
<1> USE ConnTypes, RowTypes, RecordTypes, ConstantsAssumption
<1>0. Owner[c] \in Users
  OBVIOUS
<1>1. CASE CreateHostRow(c)
  <2>1. conn' \in [Conns -> ConnState]
    BY <1>0, <1>1 DEF CreateHostRow, ConnPcs, SavePcs, RejoinPcs, LostPcs
  <2>2. rows' \in [Users -> Record]
    BY <1>0, <1>1 DEF CreateHostRow, TypeOK
  <2> QED
    BY <1>0, <1>1, <2>1, <2>2 DEF CreateHostRow, TypeOK, memVars, dbVars, taskVars
<1>2. CASE CreateMem(c)
  <2>1. conn' \in [Conns -> ConnState]
    BY <1>0, <1>2 DEF CreateMem, TypeOK
  <2>2. parts' \in [Users -> Record]
    BY <1>0, <1>2 DEF CreateMem, TypeOK
  <2> QED
    BY <1>0, <1>2, <2>1, <2>2 DEF CreateMem, TypeOK, memVars, dbVars, taskVars
<1>3. CASE SaveEnd(c)
  <2>1. conn' \in [Conns -> ConnState]
    BY <1>0, <1>3 DEF SaveEnd, ConnPcs, SavePcs, RejoinPcs, LostPcs
  <2> QED
    BY <1>0, <1>3, <2>1 DEF SaveEnd, TypeOK, EndRoomRow, memVars, dbVars, taskVars
<1>4. CASE SaveDeadline(c)
  <2>1. conn' \in [Conns -> ConnState]
    BY <1>0, <1>4 DEF SaveDeadline
  <2> QED
    BY <1>0, <1>4, <2>1 DEF SaveDeadline, TypeOK, memVars, dbVars, taskVars
<1>5. CASE SaveLeft(c)
  <2>1. conn' \in [Conns -> ConnState]
    BY <1>0, <1>5 DEF SaveLeft
  <2>2. rows' \in [Users -> Record]
    BY <1>0, <1>5 DEF SaveLeft, Statuses
  <2> QED
    BY <1>0, <1>5, <2>1, <2>2 DEF SaveLeft, TypeOK, memVars, dbVars, taskVars
<1>6. CASE SaveNewHost(c)
  <2>1. conn' \in [Conns -> ConnState]
    BY <1>0, <1>6 DEF SaveNewHost, ConnPcs, SavePcs, RejoinPcs, LostPcs
  <2>2. rows' \in [Users -> Record]
    BY <1>0, <1>6 DEF SaveNewHost, TypeOK, Record
  <2> QED
    BY <1>0, <1>6, <2>1, <2>2 DEF SaveNewHost, TypeOK, memVars, dbVars, taskVars
<1>7. CASE SaveOldHost(c)
  <2>1. conn' \in [Conns -> ConnState]
    BY <1>0, <1>7 DEF SaveOldHost, ConnPcs, SavePcs, RejoinPcs, LostPcs
  <2>2. rows' \in [Users -> Record]
    BY <1>0, <1>7 DEF SaveOldHost, TypeOK, Record
  <2> QED
    BY <1>0, <1>7, <2>1, <2>2 DEF SaveOldHost, TypeOK, memVars, dbVars, taskVars
<1>8. CASE SaveOldLeft(c)
  <2>1. conn' \in [Conns -> ConnState]
    BY <1>0, <1>8 DEF SaveOldLeft
  <2>2. rows' \in [Users -> Record]
    BY <1>0, <1>8 DEF SaveOldLeft, Statuses
  <2> QED
    BY <1>0, <1>8, <2>1, <2>2 DEF SaveOldLeft, TypeOK, memVars, dbVars, taskVars
<1>9. CASE DropRoom(c)
  <2>1. conn' \in [Conns -> ConnState]
    BY <1>0, <1>9 DEF DropRoom
  <2> QED
    BY <1>0, <1>9, <2>1 DEF DropRoom, TypeOK, memVars, dbVars, taskVars
<1>10. CASE RejoinDeadline(c)
  <2>1. conn' \in [Conns -> ConnState]
    BY <1>0, <1>10 DEF RejoinDeadline, ConnPcs, SavePcs, RejoinPcs, LostPcs
  <2> QED
    BY <1>0, <1>10, <2>1 DEF RejoinDeadline, TypeOK, memVars, dbVars, taskVars
<1>11. CASE RejoinHostRow(c)
  <2>1. conn' \in [Conns -> ConnState]
    BY <1>0, <1>11 DEF RejoinHostRow, ConnPcs, SavePcs, RejoinPcs, LostPcs
  <2>2. rows' \in [Users -> Record]
    <3> DEFINE h == First(parts, HostsIn(parts))
    <3>1. HostsIn(parts) \in SUBSET Users /\ HostsIn(parts) # {}
      BY <1>11 DEF RejoinHostRow, HostPresent, HostsIn
    <3>2. h \in Users
      BY <3>1, FirstIsMember DEF TypeOK
    <3>3. parts[h].joined \in Nat
      BY <3>2 DEF TypeOK, Record
    <3> QED
      BY <1>0, <1>11, <3>3 DEF RejoinHostRow
  <2> QED
    BY <1>0, <1>11, <2>1, <2>2 DEF RejoinHostRow, TypeOK, memVars, dbVars, taskVars
<1>12. CASE RejoinHost(c)
  <2>1. conn' \in [Conns -> ConnState]
    BY <1>0, <1>12 DEF RejoinHost, ConnPcs, SavePcs, RejoinPcs, LostPcs
  <2>2. parts' \in [Users -> Record]
    BY <1>0, <1>12 DEF RejoinHost, TypeOK, Statuses
  <2> QED
    BY <1>0, <1>12, <2>1, <2>2 DEF RejoinHost, TypeOK, memVars, dbVars, taskVars
<1>13. CASE RejoinRow(c)
  <2>1. conn' \in [Conns -> ConnState]
    BY <1>0, <1>13 DEF RejoinRow, ConnPcs, SavePcs, RejoinPcs, LostPcs
  <2>2. rows' \in [Users -> Record]
    BY <1>0, <1>13 DEF RejoinRow, Statuses
  <2> QED
    BY <1>0, <1>13, <2>1, <2>2 DEF RejoinRow, TypeOK, memVars, dbVars, taskVars
<1>14. CASE RejoinSeat(c)
  <2>1. conn' \in [Conns -> ConnState]
    BY <1>0, <1>14 DEF RejoinSeat, ConnPcs, SavePcs, RejoinPcs, LostPcs
  <2>2. parts' \in [Users -> Record]
    BY <1>0, <1>14 DEF RejoinSeat, TypeOK, Statuses
  <2> QED
    BY <1>0, <1>14, <2>1, <2>2 DEF RejoinSeat, TypeOK, memVars, dbVars, taskVars
<1>15. CASE Upgrade(c)
  <2>1. conn' \in [Conns -> ConnState]
    BY <1>0, <1>15 DEF Upgrade, TypeOK
  <2> QED
    BY <1>0, <1>15, <2>1 DEF Upgrade, TypeOK, memVars, dbVars, taskVars
<1>16. CASE ConnectionLost(c)
  <2>1. conn' \in [Conns -> ConnState]
    <3>1. \A pc \in LostPcs : [conn[c] EXCEPT !.pc = pc] \in ConnState
      BY DEF TypeOK, ConnState, ConnPcs
    <3>2. [conn[c] EXCEPT !.pc = "lostHost"] \in ConnState
          /\ [conn[c] EXCEPT !.pc = "lostRow"] \in ConnState
      BY <3>1 DEF LostPcs
    <3> QED
      BY <1>16, <3>2 DEF ConnectionLost, TypeOK
  <2> QED
    BY <1>0, <1>16, <2>1 DEF ConnectionLost, TypeOK, memVars, dbVars, taskVars
<1>17. CASE LostRow(c)
  <2>1. conn' \in [Conns -> ConnState]
    BY <1>0, <1>17 DEF LostRow, ConnPcs, SavePcs, RejoinPcs, LostPcs
  <2>2. rows' \in [Users -> Record]
    BY <1>0, <1>17 DEF LostRow, Statuses
  <2> QED
    BY <1>0, <1>17, <2>1, <2>2 DEF LostRow, TypeOK, memVars, dbVars, taskVars
<1>18. CASE LostSeat(c)
  <2>1. conn' \in [Conns -> ConnState]
    BY <1>0, <1>18 DEF LostSeat, TypeOK
  <2>2. parts' \in [Users -> Record]
    BY <1>0, <1>18 DEF LostSeat, TypeOK, Statuses
  <2> QED
    BY <1>0, <1>18, <2>1, <2>2 DEF LostSeat, TypeOK, memVars, dbVars, taskVars
<1>19. CASE LostHost(c)
  <2>1. conn' \in [Conns -> ConnState]
    BY <1>0, <1>19, LeaveType DEF LostHost, TypeOK
  <2> QED
    BY <1>0, <1>19, <2>1, LeaveType DEF LostHost, TypeOK, memVars, dbVars, taskVars
<1>20. CASE Create(c)
  <2>1. conn' \in [Conns -> ConnState]
    BY <1>0, <1>20 DEF Create, ConnPcs, SavePcs, RejoinPcs, LostPcs
  <2> QED
    BY <1>0, <1>20, <2>1 DEF Create, TypeOK, memVars, dbVars, taskVars
<1>21. CASE Join(c)
  <2>1. rows' \in [Users -> Record]
    BY <1>0, <1>21 DEF Join, TypeOK
  <2>2. parts' \in [Users -> Record]
    BY <1>0, <1>21 DEF Join, TypeOK
  <2> QED
    BY <1>0, <1>21, <2>1, <2>2 DEF Join, TypeOK, memVars, dbVars, taskVars
<1>22. CASE Presence(c)
  <2>1. parts' \in [Users -> Record]
    <3>1. Revived(parts[Owner[c]]) \in Statuses
      BY <1>0 DEF TypeOK, Revived, Record, Statuses
    <3>2. Stamped(parts[Owner[c]], Revived(parts[Owner[c]])) \in Record
      BY <1>0, <3>1 DEF TypeOK
    <3> QED
      BY <1>0, <1>22, <3>2 DEF Presence, TypeOK
  <2> QED
    BY <1>0, <1>22, <2>1 DEF Presence, TypeOK, memVars, dbVars, taskVars
<1>23. CASE Leave(c)
  <2> QED
    BY <1>0, <1>23, LeaveType DEF Leave, TypeOK, memVars, dbVars, taskVars
<1>24. CASE Connect(c)
  <2>1. conn' \in [Conns -> ConnState]
    BY <1>0, <1>24 DEF Connect, ConnPcs, SavePcs, RejoinPcs, LostPcs
  <2> QED
    BY <1>0, <1>24, <2>1 DEF Connect, TypeOK, memVars, dbVars, taskVars
<1>25. CASE Close(c)
  <2>1. conn' \in [Conns -> ConnState]
    <3>1. [pc |-> "lost", lost |-> TRUE] \in ConnState
      BY DEF ConnState, ConnPcs, LostPcs
    <3> QED
      BY <1>25, <3>1 DEF Close, TypeOK
  <2> QED
    BY <1>0, <1>25, <2>1 DEF Close, TypeOK, memVars, dbVars, taskVars
<1> QED
  BY <1>1, <1>2, <1>3, <1>4, <1>5, <1>6, <1>7, <1>8, <1>9, <1>10, <1>11, <1>12, <1>13, <1>14, <1>15, <1>16, <1>17, <1>18, <1>19, <1>20, <1>21, <1>22, <1>23, <1>24, <1>25 DEF ConnStep, ClientStep

\* Every step keeps every variable of the room, the rows and the tasks in
\* its type.
LEMMA TypeStep ==
    ASSUME TypeOK, HostPresent, [Next]_vars
    PROVE  TypeOK'
<1> USE ConstantsAssumption
<1>1. ASSUME NEW c \in Conns, ConnStep(c) \/ ClientStep(c)
      PROVE  TypeOK'
  BY <1>1, ConnTypeStep
<1>2. CASE TickGrace
  BY <1>2 DEF TickGrace, TypeOK, memVars, dbVars
<1>3. CASE TickEnd
  BY <1>3 DEF TickEnd, TypeOK, memVars, dbVars, EndRoomRow
<1>4. CASE TickDrop
  BY <1>4 DEF TickDrop, TypeOK, memVars, dbVars
<1>5. CASE TickPresence
  <2>1. \A p \in Record : [p EXCEPT !.status = "Disconnected"] \in Record
    BY DEF Record, Statuses
  <2>2. parts' \in [Users -> Record]
    BY <1>5, <2>1 DEF TickPresence, TypeOK
  <2> QED
    BY <1>5, <2>2 DEF TickPresence, TypeOK, memVars, dbVars
<1>6. CASE TickStale
  <2>1. parts' \in [Users -> Record]
    BY <1>6, RecordTypes DEF TickStale, TypeOK
  <2> QED
    BY <1>6, <2>1 DEF TickStale, TypeOK, TickerIdle, memVars, dbVars
<1>7. CASE TickPurge
  <2>1. rows' \in [Users -> Record]
    BY <1>7, RecordTypes DEF TickPurge, TypeOK
  <2> QED
    BY <1>7, <2>1 DEF TickPurge, TypeOK, TickerIdle, memVars, dbVars
<1>8. CASE Restart
  <2>1. HostStatus \in Statuses
    BY DEF HostStatus, Statuses
  <2>2. SyntheticHost \in Record
    BY <2>1 DEF SyntheticHost, TypeOK, Record
  <2>3. \A u \in Users : Rehydrated(u) \in Record
    BY <2>1, RecordTypes DEF Rehydrated, TypeOK, Record, Statuses
  <2>4. parts' \in [Users -> Record]
    BY <1>8, <2>2, <2>3, RecordTypes DEF Restart, RehydrateOpen, RehydrateNothing
  <2>5. conn' \in [Conns -> ConnState]
    BY <1>8 DEF Restart, Closed, ConnState, ConnPcs
  <2>6. /\ life' \in {"Absent", "Open", "Ended"}
        /\ hostUserId' \in Users \cup {None}
        /\ deadline' \in Nat \cup {None}
    BY <1>8 DEF Restart, RehydrateOpen, RehydrateNothing, TypeOK
  <2> QED
    BY <1>8, <2>4, <2>5, <2>6 DEF Restart, TickerIdle, TypeOK, dbVars
<1>9. CASE Tick
  BY <1>9 DEF Tick, TypeOK, memVars, dbVars, taskVars
<1>10. CASE UNCHANGED vars
  BY <1>10 DEF vars, memVars, dbVars, taskVars, TypeOK
<1> QED
  BY <1>1, <1>2, <1>3, <1>4, <1>5, <1>6, <1>7, <1>8, <1>9, <1>10 DEF Next, TickerStep

-----------------------------------------------------------------------------
(* The host.                                                               *)

\* The database half of a host's rejoin, after the reads that chose it.
HostRejoinPcs == {"rejoinDeadline", "rejoinHostRow", "rejoinHost"}

\* Why a room always has a host.  The flag moves only in an election, whose
\* winner is seated; a record is dropped or reseated only when it is not the
\* host's; the flag outlives the room's end, so a rejoin that is still on its
\* way finds it; and an open rooms row names a user to rebuild the host from.
HostInv ==
    /\ life # "Absent" => HostsIn(parts) # {}
    /\ life = "Open" => \A u \in HostsIn(parts) : Seated(parts[u])
    /\ \A c \in Conns : conn[c].pc \in HostRejoinPcs => HostsIn(parts) # {}
    /\ room.state = "open" => room.host \in Users
    /\ OneHost

\* The only connection that moves is c, to one of pcs.
Moves(c, pcs) ==
    /\ conn'[c].pc \in pcs
    /\ \A d \in Conns \ {c} : conn'[d].pc = conn[d].pc

\* What the three ways of moving a connection do to the program counters.
LEMMA MovesTo ==
    ASSUME TypeOK, NEW c \in Conns
    PROVE  /\ \A pc : Goto(c, pc) => Moves(c, {pc})
           /\ \A pc, lost : Save(c, pc, lost) => Moves(c, {pc})
           /\ Resume(c) => Moves(c, {"closed", "up"})
           /\ conn' = [conn EXCEPT ![c] = Up] => Moves(c, {"up"})
           /\ conn' = [conn EXCEPT ![c] = Closed] => Moves(c, {"closed"})
<1>1. conn \in [Conns -> ConnState] /\ \A d \in Conns : conn[d] \in ConnState
  BY DEF TypeOK
<1>2. ASSUME NEW pc, Goto(c, pc) PROVE Moves(c, {pc})
  BY <1>1, <1>2 DEF Goto, Moves, ConnState
<1>3. ASSUME NEW pc, NEW lost, Save(c, pc, lost) PROVE Moves(c, {pc})
  BY <1>1, <1>3 DEF Save, Moves
<1>4. ASSUME Resume(c) PROVE Moves(c, {"closed", "up"})
  BY <1>1, <1>4 DEF Resume, Moves, Closed, Up
<1>5. ASSUME conn' = [conn EXCEPT ![c] = Up] PROVE Moves(c, {"up"})
  BY <1>1, <1>5 DEF Moves, Up
<1>6. ASSUME conn' = [conn EXCEPT ![c] = Closed] PROVE Moves(c, {"closed"})
  BY <1>1, <1>6 DEF Moves, Closed
<1> QED
  BY <1>2, <1>3, <1>4, <1>5, <1>6

\* A step that leaves every host flag where it is, unseats no host of an
\* open room, opens nothing and starts no host rejoin without a host.
HostsKept ==
    /\ \A u \in Users : parts'[u].isHost = parts[u].isHost
    /\ life' = "Open" =>
          \A u \in Users : parts[u].isHost /\ Seated(parts[u]) => Seated(parts'[u])
    /\ life' # "Absent" => life # "Absent"
    /\ life' = "Open" => life = "Open"
    /\ hostUserId' = hostUserId
    /\ restarts' = restarts
    /\ \A c \in Conns : conn'[c].pc \in HostRejoinPcs =>
          life # "Absent" \/ conn[c].pc \in HostRejoinPcs
    /\ room'.state = "open" =>
          room'.host \in Users \/ (room.state = "open" /\ room'.host = room.host)

LEMMA HostFrame ==
    ASSUME HostInv, HostsKept
    PROVE  HostInv'
<1>1. HostsIn(parts)' = HostsIn(parts)
  BY DEF HostsKept, HostsIn
<1>2. life' # "Absent" => HostsIn(parts)' # {}
  BY <1>1 DEF HostInv, HostsKept
<1>3. life' = "Open" => \A u \in HostsIn(parts)' : Seated(parts'[u])
  BY <1>1 DEF HostInv, HostsKept, HostsIn
<1>4. \A c \in Conns : conn'[c].pc \in HostRejoinPcs => HostsIn(parts)' # {}
  BY <1>1 DEF HostInv, HostsKept
<1>5. room'.state = "open" => room'.host \in Users
  BY DEF HostInv, HostsKept
<1>6. OneHost'
  BY <1>1 DEF HostInv, HostsKept, OneHost
<1> QED
  BY <1>2, <1>3, <1>4, <1>5, <1>6 DEF HostInv

\* An election with a candidate leaves exactly one host, seated, and names it.
LEMMA ElectedHost ==
    ASSUME TypeOK, NEW p \in [Users -> Record], Candidates(p) # {}
    PROVE  /\ HostsIn(Elected(p)) = {ElectedId(p)}
           /\ ElectedId(p) \in Users
           /\ Seated(Elected(p)[ElectedId(p)])
<1> DEFINE winner == First(p, Candidates(p))
<1>1. Candidates(p) \in SUBSET Users
  BY DEF Candidates
<1>2. winner \in Candidates(p)
  BY <1>1, FirstIsMember
<1>3. ElectedId(p) = winner
  BY DEF ElectedId
<1>4. Elected(p) = [u \in Users |-> [p[u] EXCEPT !.isHost = (u = winner)]]
  BY DEF Elected
<1>5. \A u \in Users : /\ Elected(p)[u].isHost = (u = winner)
                       /\ Elected(p)[u].status = p[u].status
  <2> HIDE DEF winner
  <2> QED
    BY <1>4 DEF Record
<1>6. p[winner].status \in {"Connected", "Reconnecting"}
  BY <1>2 DEF Candidates
<1> HIDE DEF winner
<1>7. HostsIn(Elected(p)) = {winner}
  BY <1>1, <1>2, <1>5 DEF HostsIn
<1>8. Seated(Elected(p)[winner])
  BY <1>1, <1>2, <1>5, <1>6 DEF Seated
<1> QED
  BY <1>1, <1>2, <1>3, <1>7, <1>8

\* leave_room keeps the host invariant: a viewer's leave moves no flag, an
\* ended room keeps it, an election moves it, a grace period keeps it.
LEMMA LeaveHost ==
    ASSUME TypeOK, HostInv, NEW c \in Conns, NEW u \in Users, NEW lost \in BOOLEAN,
           LeaveRoom(c, u, lost), UNCHANGED <<dbVars, restarts>>
    PROVE  HostInv'
<1> DEFINE left == [parts EXCEPT ![u] = Stamped(@, "Left")]
           away == [parts EXCEPT ![u] = Stamped(@, "Reconnecting")]
<1>1. /\ left \in [Users -> Record] /\ away \in [Users -> Record]
      /\ \A v \in Users : left[v].isHost = parts[v].isHost
      /\ \A v \in Users : away[v].isHost = parts[v].isHost
      /\ \A v \in Users : v # u => left[v] = parts[v]
      /\ \A v \in Users : Seated(parts[v]) => Seated(away[v])
  <2>1. /\ Stamped(parts[u], "Left") \in Record
        /\ Stamped(parts[u], "Reconnecting") \in Record
    BY RecordTypes DEF TypeOK, Statuses
  <2>2. /\ Stamped(parts[u], "Left").isHost = parts[u].isHost
        /\ Stamped(parts[u], "Reconnecting").isHost = parts[u].isHost
        /\ Seated(Stamped(parts[u], "Reconnecting"))
    BY DEF TypeOK, Record, Stamped, Seated
  <2> QED
    BY <2>1, <2>2 DEF TypeOK
<1>2. life = "Open"
  BY DEF LeaveRoom
<1> HIDE DEF left, away
<1>3. CASE LeaveAsViewer(c, u, lost)
  <2>1. Moves(c, {"saveLeft"})
    BY <1>3, MovesTo DEF LeaveAsViewer
  <2> QED
    BY <1>1, <1>2, <1>3, <2>1, HostFrame
    DEF LeaveAsViewer, HostsKept, Moves, HostRejoinPcs, dbVars, left
<1>4. CASE LeaveEndsRoom(c, u, lost)
  <2>1. Moves(c, {"saveEnd"})
    BY <1>4, MovesTo DEF LeaveEndsRoom
  <2> QED
    BY <1>1, <1>2, <1>4, <2>1, HostFrame
    DEF LeaveEndsRoom, HostsKept, Moves, HostRejoinPcs, dbVars, left
<1>5. CASE LeaveMigrates(c, u, lost)
  <2>1. parts' = Elected(left) /\ hostUserId' = ElectedId(left) /\ Candidates(left) # {}
    BY <1>5 DEF LeaveMigrates, left
  <2>2. HostsIn(parts') = {hostUserId'} /\ Seated(parts'[hostUserId'])
    BY <1>1, <2>1, ElectedHost
  <2>3. UNCHANGED <<life, room, restarts>>
    BY <1>5 DEF LeaveMigrates, dbVars
  <2> QED
    BY <2>2, <2>3 DEF HostInv, OneHost, HostsIn
<1>6. CASE LeaveStartsGrace(c, u, lost)
  <2>1. Moves(c, {"saveDeadline"}) /\ UNCHANGED <<life, room, restarts>>
    BY <1>6, MovesTo DEF LeaveStartsGrace, dbVars
  <2>2. CASE Grace = 0 /\ Candidates(away) # {}
    <3>1. parts' = Elected(away) /\ hostUserId' = ElectedId(away)
      BY <1>6, <2>2 DEF LeaveStartsGrace, away
    <3>2. HostsIn(parts') = {hostUserId'} /\ Seated(parts'[hostUserId'])
      BY <1>1, <2>2, <3>1, ElectedHost
    <3> QED
      BY <2>1, <3>2 DEF HostInv, OneHost, HostsIn
  <2>3. CASE ~(Grace = 0 /\ Candidates(away) # {})
    <3>1. parts' = away /\ hostUserId' = hostUserId
      BY <1>6, <2>3 DEF LeaveStartsGrace, Elected, ElectedId, away
    <3> QED
      BY <1>1, <1>2, <2>1, <3>1, HostFrame DEF HostsKept, Moves, HostRejoinPcs
  <2> QED
    BY <2>2, <2>3
<1> QED
  BY <1>3, <1>4, <1>5, <1>6 DEF LeaveRoom

\* Every step of a connection task keeps the host invariant.
LEMMA ConnHostStep ==
    ASSUME TypeOK, HostInv, NEW c \in Conns, ConnStep(c) \/ ClientStep(c)
    PROVE  HostInv'
<1> USE ConstantsAssumption
<1>0. Owner[c] \in Users
  OBVIOUS
<1>1. CASE CreateHostRow(c)
  <2>1. Moves(c, {"createMem"})
    BY <1>1, MovesTo DEF CreateHostRow
  <2>2. HostsKept
    BY <1>1, <2>1 DEF CreateHostRow, HostsKept, HostRejoinPcs, Moves, TypeOK, memVars, dbVars
  <2> QED
    BY <2>2, HostFrame
<1>2. CASE SaveEnd(c)
  <2>1. Moves(c, {"drop"})
    BY <1>2, MovesTo DEF SaveEnd
  <2>2. HostsKept
    BY <1>2, <2>1 DEF SaveEnd, HostsKept, HostRejoinPcs, Moves, TypeOK, memVars, dbVars, EndRoomRow
  <2> QED
    BY <2>2, HostFrame
<1>3. CASE SaveDeadline(c)
  <2>1. Moves(c, {"closed", "up"})
    BY <1>3, MovesTo DEF SaveDeadline
  <2>2. HostsKept
    BY <1>3, <2>1 DEF SaveDeadline, HostsKept, HostRejoinPcs, Moves, TypeOK, memVars, dbVars
  <2> QED
    BY <2>2, HostFrame
<1>4. CASE SaveLeft(c)
  <2>1. Moves(c, {"closed", "up"})
    BY <1>4, MovesTo DEF SaveLeft
  <2>2. HostsKept
    BY <1>4, <2>1 DEF SaveLeft, HostsKept, HostRejoinPcs, Moves, TypeOK, memVars, dbVars
  <2> QED
    BY <2>2, HostFrame
<1>5. CASE SaveNewHost(c)
  <2>1. Moves(c, {"saveOldHost"})
    BY <1>5, MovesTo DEF SaveNewHost
  <2>2. HostsKept
    BY <1>5, <2>1 DEF SaveNewHost, HostsKept, HostRejoinPcs, Moves, TypeOK, memVars, dbVars
  <2> QED
    BY <2>2, HostFrame
<1>6. CASE SaveOldHost(c)
  <2>1. Moves(c, {"saveOldLeft"})
    BY <1>6, MovesTo DEF SaveOldHost
  <2>2. HostsKept
    BY <1>6, <2>1 DEF SaveOldHost, HostsKept, HostRejoinPcs, Moves, TypeOK, memVars, dbVars
  <2> QED
    BY <2>2, HostFrame
<1>7. CASE SaveOldLeft(c)
  <2>1. Moves(c, {"closed", "up"})
    BY <1>7, MovesTo DEF SaveOldLeft
  <2>2. HostsKept
    BY <1>7, <2>1 DEF SaveOldLeft, HostsKept, HostRejoinPcs, Moves, TypeOK, memVars, dbVars
  <2> QED
    BY <2>2, HostFrame
<1>8. CASE DropRoom(c)
  <2>1. Moves(c, {"closed", "up"})
    BY <1>8, MovesTo DEF DropRoom
  <2>2. HostsKept
    BY <1>8, <2>1 DEF DropRoom, HostsKept, HostRejoinPcs, Moves, TypeOK, memVars, dbVars
  <2> QED
    BY <2>2, HostFrame
<1>9. CASE RejoinDeadline(c)
  <2>1. Moves(c, {"rejoinHostRow"})
    BY <1>9, MovesTo DEF RejoinDeadline
  <2>2. HostsKept
    BY <1>9, <2>1 DEF RejoinDeadline, HostsKept, HostRejoinPcs, Moves, TypeOK, memVars, dbVars
  <2> QED
    BY <2>2, HostFrame
<1>10. CASE RejoinHostRow(c)
  <2>1. Moves(c, {"rejoinHost"})
    BY <1>10, MovesTo DEF RejoinHostRow
  <2>2. HostsKept
    BY <1>10, <2>1 DEF RejoinHostRow, HostsKept, HostRejoinPcs, Moves, TypeOK, memVars, dbVars
  <2> QED
    BY <2>2, HostFrame
<1>11. CASE RejoinRow(c)
  <2>1. Moves(c, {"rejoinSeat"})
    BY <1>11, MovesTo DEF RejoinRow
  <2>2. HostsKept
    BY <1>11, <2>1 DEF RejoinRow, HostsKept, HostRejoinPcs, Moves, TypeOK, memVars, dbVars
  <2> QED
    BY <2>2, HostFrame
<1>12. CASE Upgrade(c)
  <2>1. Moves(c, {"up"})
    BY <1>12, MovesTo DEF Upgrade
  <2>2. HostsKept
    BY <1>12, <2>1 DEF Upgrade, HostsKept, HostRejoinPcs, Moves, TypeOK, memVars, dbVars
  <2> QED
    BY <2>2, HostFrame
<1>13. CASE LostRow(c)
  <2>1. Moves(c, {"lostSeat"})
    BY <1>13, MovesTo DEF LostRow
  <2>2. HostsKept
    BY <1>13, <2>1 DEF LostRow, HostsKept, HostRejoinPcs, Moves, TypeOK, memVars, dbVars
  <2> QED
    BY <2>2, HostFrame
<1>14. CASE Create(c)
  <2>1. Moves(c, {"createHost"})
    BY <1>14, MovesTo DEF Create
  <2>2. HostsKept
    BY <1>0, <1>14, <2>1 DEF Create, HostsKept, HostRejoinPcs, Moves, TypeOK, memVars, dbVars
  <2> QED
    BY <2>2, HostFrame
<1>15. CASE CreateMem(c)
  <2>1. Moves(c, {"up"})
    BY <1>15, MovesTo DEF CreateMem
  <2>2. \A u \in Users : parts'[u].isHost = (u = Owner[c])
    BY <1>0, <1>15 DEF CreateMem, Seat, NoRecord
  <2>3. Seated(parts'[Owner[c]])
    BY <1>0, <1>15 DEF CreateMem, Seat, Seated
  <2>4. HostsIn(parts') = {Owner[c]}
    BY <1>0, <2>2 DEF HostsIn
  <2> QED
    BY <1>15, <1>0, <2>3, <2>4 DEF CreateMem, HostInv, OneHost, HostsIn, dbVars
<1>16. CASE Join(c)
  <2>1. ~parts[Owner[c]].isHost
    BY <1>0, <1>16 DEF Join, HostInv, HostsIn
  <2>2. parts' = [parts EXCEPT ![Owner[c]] = Seat(now, FALSE)]
    BY <1>16 DEF Join
  <2>3. Seat(now, FALSE).isHost = FALSE /\ Seated(Seat(now, FALSE))
    BY DEF Seat, Seated
  <2>4. \A u \in Users : parts'[u].isHost = parts[u].isHost
    BY <1>0, <2>1, <2>2, <2>3 DEF TypeOK, Record
  <2>5. \A u \in Users : Seated(parts[u]) => Seated(parts'[u])
    BY <1>0, <2>2, <2>3 DEF TypeOK
  <2>6. HostsKept
    BY <1>16, <2>4, <2>5 DEF Join, HostsKept, taskVars
  <2> QED
    BY <2>6, HostFrame
<1>17. CASE Presence(c)
  <2>1. \A u \in Users : parts'[u].isHost = parts[u].isHost
    BY <1>0, <1>17 DEF Presence, TypeOK, Record, Stamped
  <2>2. \A u \in Users : Seated(parts[u]) => Seated(parts'[u])
    BY <1>0, <1>17 DEF Presence, TypeOK, Record, Stamped, Seated, Revived
  <2>3. UNCHANGED conn
    BY <1>17, MovesTo DEF Presence, taskVars
  <2>4. HostsKept
    BY <1>17, <2>1, <2>2, <2>3 DEF Presence, HostsKept, HostRejoinPcs, Moves, dbVars
  <2> QED
    BY <2>4, HostFrame
<1>18. CASE RejoinHost(c)
  <2> DEFINE h == First(parts, HostsIn(parts))
  <2>1. parts' = [parts EXCEPT ![h] = Stamped(@, "Connected")]
    BY <1>18 DEF RejoinHost
  <2> HIDE DEF h
  <2>2. \A u \in Users : parts'[u].isHost = parts[u].isHost
    BY <2>1 DEF TypeOK, Record, Stamped
  <2>3. \A u \in Users : Seated(parts[u]) => Seated(parts'[u])
    BY <2>1 DEF TypeOK, Record, Stamped, Seated
  <2>4. Moves(c, {"upgrade"})
    BY <1>18, MovesTo DEF RejoinHost
  <2>5. HostsKept
    BY <1>18, <2>2, <2>3, <2>4 DEF RejoinHost, HostsKept, HostRejoinPcs, Moves, dbVars
  <2> QED
    BY <2>5, HostFrame
<1>19. CASE RejoinSeat(c)
  <2>1. \A u \in Users : parts'[u].isHost = parts[u].isHost
    BY <1>0, <1>19 DEF RejoinSeat, TypeOK, Record, Stamped
  <2>2. \A u \in Users : Seated(parts[u]) => Seated(parts'[u])
    BY <1>0, <1>19 DEF RejoinSeat, TypeOK, Record, Stamped, Seated
  <2>3. Moves(c, {"upgrade"})
    BY <1>19, MovesTo DEF RejoinSeat, taskVars
  <2>4. HostsKept
    BY <1>19, <2>1, <2>2, <2>3 DEF RejoinSeat, HostsKept, HostRejoinPcs, Moves, dbVars
  <2> QED
    BY <2>4, HostFrame
<1>20. CASE LostSeat(c)
  <2>1. \A u \in Users : parts'[u].isHost = parts[u].isHost
    BY <1>0, <1>20 DEF LostSeat, TypeOK, Record, Stamped
  <2>2. \A u \in Users : Seated(parts[u]) => Seated(parts'[u])
    BY <1>0, <1>20 DEF LostSeat, TypeOK, Record, Stamped, Seated
  <2>3. Moves(c, {"closed"})
    BY <1>20, MovesTo DEF LostSeat, taskVars
  <2>4. HostsKept
    BY <1>20, <2>1, <2>2, <2>3 DEF LostSeat, HostsKept, HostRejoinPcs, Moves, dbVars
  <2> QED
    BY <2>4, HostFrame
<1>21. CASE ConnectionLost(c)
  <2>1. Moves(c, {"closed", "lostHost", "lostRow"})
    BY <1>21 DEF ConnectionLost, Moves, TypeOK, ConnState, Closed
  <2>2. HostsKept
    BY <1>21, <2>1 DEF ConnectionLost, HostsKept, HostRejoinPcs, Moves, memVars, dbVars
  <2> QED
    BY <2>2, HostFrame
<1>22. CASE Close(c)
  <2>1. Moves(c, {"closed", "lost"})
    BY <1>22 DEF Close, Moves, TypeOK, ConnState, Closed
  <2>2. HostsKept
    BY <1>22, <2>1 DEF Close, HostsKept, HostRejoinPcs, Moves, memVars, dbVars
  <2> QED
    BY <2>2, HostFrame
<1>23. CASE Connect(c)
  <2>1. \/ Moves(c, {"upgrade", "rejoinRow"})
        \/ Moves(c, {"rejoinDeadline"}) /\ life # "Absent"
    <3>1. CASE HasSeat(Owner[c]) /\ IsHost(Owner[c]) /\ deadline # None
      BY <1>23, <3>1, MovesTo DEF Connect, HasSeat
    <3>2. CASE ~HasSeat(Owner[c])
      BY <1>23, <3>2, MovesTo DEF Connect, Moves
    <3>3. CASE HasSeat(Owner[c]) /\ ~(IsHost(Owner[c]) /\ deadline # None)
      BY <1>23, <3>3, MovesTo DEF Connect, Moves
    <3> QED
      BY <3>1, <3>2, <3>3
  <2>2. HostsKept
    BY <1>23, <2>1 DEF Connect, HostsKept, HostRejoinPcs, Moves, memVars, dbVars
  <2> QED
    BY <2>2, HostFrame
<1>24. CASE Leave(c)
  BY <1>0, <1>24, LeaveHost DEF Leave
<1>25. CASE LostHost(c)
  <2>1. CASE life = "Open" /\ Seated(parts[Owner[c]])
    BY <1>0, <1>25, <2>1, LeaveHost DEF LostHost
  <2>2. CASE ~(life = "Open" /\ Seated(parts[Owner[c]]))
    <3>1. Moves(c, {"closed"})
      BY <1>25, <2>2, MovesTo DEF LostHost
    <3>2. HostsKept
      BY <1>25, <2>2, <3>1 DEF LostHost, HostsKept, HostRejoinPcs, Moves, memVars, dbVars
    <3> QED
      BY <3>2, HostFrame
  <2> QED
    BY <2>1, <2>2
<1> QED
  BY <1>1, <1>2, <1>3, <1>4, <1>5, <1>6, <1>7, <1>8, <1>9,
     <1>10, <1>11, <1>12, <1>13, <1>14, <1>15, <1>16, <1>17, <1>18,
     <1>19, <1>20, <1>21, <1>22, <1>23, <1>24, <1>25
  DEF ConnStep, ClientStep

\* So does every step of the room's life.
LEMMA HostStep ==
    ASSUME TypeOK, HostInv, [Next]_vars
    PROVE  HostInv'
<1>1. ASSUME NEW c \in Conns, ConnStep(c) \/ ClientStep(c)
      PROVE  HostInv'
  BY <1>1, ConnHostStep
<1>2. CASE TickGrace
  BY <1>2, HostFrame DEF TickGrace, HostsKept, TypeOK, dbVars
<1>3. CASE TickEnd
  BY <1>3, HostFrame DEF TickEnd, EndRoomRow, HostsKept, TypeOK, memVars
<1>4. CASE TickDrop
  BY <1>4, HostFrame DEF TickDrop, HostsKept, TypeOK, dbVars
<1>5. CASE TickPresence
  <2>1. \A u \in Users : parts'[u].isHost = parts[u].isHost
    BY <1>5 DEF TickPresence, TypeOK, Record
  <2>2. \A u \in Users : Seated(parts[u]) => Seated(parts'[u])
    BY <1>5 DEF TickPresence, TypeOK, Record, Seated
  <2> QED
    BY <1>5, <2>1, <2>2, HostFrame DEF TickPresence, HostsKept, TypeOK, dbVars
<1>6. CASE TickStale
  <2>1. \A u \in Users : /\ parts'[u].isHost = parts[u].isHost
                         /\ parts[u].isHost => parts'[u] = parts[u]
    BY <1>6 DEF TickStale, TypeOK, Record, Stale, NoRecord
  <2> QED
    BY <1>6, <2>1, HostFrame DEF TickStale, HostsKept, TypeOK, dbVars
<1>7. CASE TickPurge
  BY <1>7, HostFrame DEF TickPurge, HostsKept, TypeOK, memVars
<1>8. CASE Restart
  <2>1. \A c \in Conns : conn'[c].pc \notin HostRejoinPcs
    BY <1>8 DEF Restart, Closed, HostRejoinPcs
  <2>2. CASE RehydrateOpen
    <3>1. room.host \in Users
      BY <2>2 DEF RehydrateOpen, HostInv
    <3>2. Seated(SyntheticHost) /\ SyntheticHost.isHost
      BY DEF SyntheticHost, HostStatus, Seated
    <3>3. \A u \in Users : /\ u \in HostRows => Rehydrated(u).isHost
                           /\ Rehydrated(u).isHost => Seated(Rehydrated(u))
      BY DEF HostRows, LiveRows, Rehydrated, HostStatus, Seated, NoRecord
    <3>4. \A u \in Users : parts'[u].isHost => Seated(parts'[u])
      BY <2>2, <3>2, <3>3 DEF RehydrateOpen
    <3>5. \E u \in Users : parts'[u].isHost
      <4>1. CASE HostRows = {}
        BY <2>2, <3>1, <3>2, <4>1 DEF RehydrateOpen
      <4>2. CASE HostRows # {}
        <5>1. PICK u \in HostRows : TRUE
          BY <4>2
        <5>2. u \in Users
          BY <5>1 DEF HostRows, LiveRows
        <5> QED
          BY <2>2, <3>3, <4>2, <5>1, <5>2 DEF RehydrateOpen
      <4> QED
        BY <4>1, <4>2
    <3>6. restarts' # 0
      BY <1>8 DEF Restart, TypeOK
    <3> QED
      BY <1>8, <2>1, <3>1, <3>4, <3>5, <3>6 DEF Restart, HostInv, OneHost, HostsIn, dbVars
  <2>3. CASE RehydrateNothing
    BY <1>8, <2>1, <2>3 DEF Restart, RehydrateNothing, HostInv, OneHost, dbVars
  <2> QED
    BY <1>8, <2>2, <2>3 DEF Restart
<1>9. CASE Tick
  BY <1>9, HostFrame DEF Tick, HostsKept, TypeOK, memVars, dbVars, taskVars
<1>10. CASE UNCHANGED vars
  BY <1>10, HostFrame DEF vars, HostsKept, TypeOK, memVars, dbVars, taskVars
<1> QED
  BY <1>1, <1>2, <1>3, <1>4, <1>5, <1>6, <1>7, <1>8, <1>9, <1>10 DEF Next, TickerStep

-----------------------------------------------------------------------------
(* The rooms row.                                                          *)

Creating(c) == conn[c].pc \in {"createHost", "createMem"}

\* The places between the first and the last write of create and of an end.
RowPcs == {"createHost", "createMem", "saveEnd", "drop"}

\* Why memory and the rooms row agree on whether the room exists.  One task
\* creates it, before anything can find it.  A connection that ends it holds
\* the lock until the row is ended, so the ticker cannot end it as well; only
\* an ended row lets a task drop the room.
RowInv ==
    /\ RowFollowsRoom
    /\ life = "Ended" => room.state # "none"
    /\ \A c \in Conns : Creating(c) =>
         /\ life = "Absent" /\ room.state = "open"
         /\ \A d \in Conns : Creating(d) => d = c
    /\ \A c \in Conns : conn[c].pc = "saveEnd" =>
         /\ life = "Ended" /\ room.state = "open" /\ ticker.pc # "end"
         /\ \A d \in Conns : conn[d].pc = "saveEnd" => d = c
    /\ \A c \in Conns : conn[c].pc = "drop" => room.state = "ended"
    /\ ticker.pc = "end" => room.state = "ended" \/ life = "Ended"
    /\ ticker.pc = "drop" => room.state = "ended"

\* A step that neither creates, ends nor drops the room.
RowKept ==
    /\ life' = life
    /\ room'.state = room.state
    /\ ticker'.pc = ticker.pc \/ ticker'.pc \notin {"end", "drop"}
    /\ \A c \in Conns :
          \/ conn'[c].pc = conn[c].pc
          \/ conn[c].pc = "createHost" /\ conn'[c].pc = "createMem"
          \/ conn[c].pc \notin RowPcs /\ conn'[c].pc \notin RowPcs

LEMMA RowFrame ==
    ASSUME RowInv, RowKept
    PROVE  RowInv'
<1>1. \A c \in Conns : /\ Creating(c)' <=> Creating(c)
                       /\ conn'[c].pc = "saveEnd" <=> conn[c].pc = "saveEnd"
                       /\ conn'[c].pc = "drop" <=> conn[c].pc = "drop"
  BY DEF RowKept, RowPcs, Creating
<1>2. RowFollowsRoom <=> /\ life = "Open" => room.state = "open"
                         /\ life = "Absent" /\ room.state = "open" =>
                               \E c \in Conns : Creating(c)
  BY DEF RowFollowsRoom, Creating
<1>3. RowFollowsRoom' <=> /\ life' = "Open" => room'.state = "open"
                          /\ life' = "Absent" /\ room'.state = "open" =>
                                \E c \in Conns : Creating(c)'
  BY DEF RowFollowsRoom, Creating
<1>4. RowFollowsRoom'
  BY <1>1, <1>2, <1>3 DEF RowInv, RowKept
<1>5. life' = "Ended" => room'.state # "none"
  BY DEF RowInv, RowKept
<1>6. \A c \in Conns : Creating(c)' =>
         /\ life' = "Absent" /\ room'.state = "open"
         /\ \A d \in Conns : Creating(d)' => d = c
  BY <1>1 DEF RowInv, RowKept
<1>7. \A c \in Conns : conn'[c].pc = "saveEnd" =>
         /\ life' = "Ended" /\ room'.state = "open" /\ ticker'.pc # "end"
         /\ \A d \in Conns : conn'[d].pc = "saveEnd" => d = c
  BY <1>1 DEF RowInv, RowKept
<1>8. \A c \in Conns : conn'[c].pc = "drop" => room'.state = "ended"
  BY <1>1 DEF RowInv, RowKept
<1>9. /\ ticker'.pc = "end" => room'.state = "ended" \/ life' = "Ended"
      /\ ticker'.pc = "drop" => room'.state = "ended"
  BY DEF RowInv, RowKept
<1> QED
  BY <1>4, <1>5, <1>6, <1>7, <1>8, <1>9 DEF RowInv

\* leave_room: only LeaveEndsRoom touches what the row follows.
LEMMA LeaveRow ==
    ASSUME TypeOK, RowInv, NEW c \in Conns, NEW u \in Users, NEW lost \in BOOLEAN,
           conn[c].pc \notin RowPcs,
           LeaveRoom(c, u, lost), UNCHANGED <<dbVars, ticker>>
    PROVE  RowInv'
<1>1. /\ life = "Open" /\ room.state = "open"
      /\ \A d \in Conns : conn[d].pc \notin RowPcs
      /\ ticker.pc \notin {"end", "drop"}
  <2>1. life = "Open" /\ room.state = "open"
    BY DEF LeaveRoom, RowInv, RowFollowsRoom
  <2> QED
    BY <2>1 DEF RowInv, RowPcs, Creating
<1>2. CASE LeaveEndsRoom(c, u, lost)
  <2>1. Moves(c, {"saveEnd"})
    BY <1>2, MovesTo DEF LeaveEndsRoom
  <2>2. life' = "Ended" /\ room' = room /\ ticker' = ticker
    BY <1>2 DEF LeaveEndsRoom, dbVars
  <2> QED
    BY <1>1, <2>1, <2>2 DEF RowInv, RowFollowsRoom, Creating, Moves, RowPcs
<1>3. CASE LeaveAsViewer(c, u, lost)
  <2>1. Moves(c, {"saveLeft"})
    BY <1>3, MovesTo DEF LeaveAsViewer
  <2> QED
    BY <1>1, <1>3, <2>1, RowFrame DEF LeaveAsViewer, RowKept, RowPcs, Moves, dbVars
<1>4. CASE LeaveMigrates(c, u, lost)
  <2>1. Moves(c, {"saveNewHost"})
    BY <1>4, MovesTo DEF LeaveMigrates
  <2> QED
    BY <1>1, <1>4, <2>1, RowFrame DEF LeaveMigrates, RowKept, RowPcs, Moves, dbVars
<1>5. CASE LeaveStartsGrace(c, u, lost)
  <2>1. Moves(c, {"saveDeadline"})
    BY <1>5, MovesTo DEF LeaveStartsGrace
  <2> QED
    BY <1>1, <1>5, <2>1, RowFrame DEF LeaveStartsGrace, RowKept, RowPcs, Moves, dbVars
<1> QED
  BY <1>2, <1>3, <1>4, <1>5 DEF LeaveRoom

\* Every step of a connection task keeps the row invariant.
LEMMA ConnRowStep ==
    ASSUME TypeOK, RowInv, NEW c \in Conns, ConnStep(c) \/ ClientStep(c)
    PROVE  RowInv'
<1> USE ConstantsAssumption
<1>0. Owner[c] \in Users
  OBVIOUS
<1>1. CASE Create(c)
  <2>1. Moves(c, {"createHost"})
    BY <1>1, MovesTo DEF Create
  <2>2. room.state = "none" /\ room'.state = "open" /\ life' = life /\ ticker' = ticker
    BY <1>1 DEF Create, memVars
  <2>3. /\ life = "Absent"
        /\ ticker.pc \notin {"end", "drop"}
        /\ \A d \in Conns : conn[d].pc \notin RowPcs
    BY <2>2 DEF RowInv, RowFollowsRoom, RowPcs, Creating, TypeOK
  <2> QED
    BY <2>1, <2>2, <2>3 DEF RowInv, RowFollowsRoom, Creating, Moves, RowPcs
<1>2. CASE CreateMem(c)
  <2>1. Moves(c, {"up"})
    BY <1>2, MovesTo DEF CreateMem
  <2>2. life' = "Open" /\ room' = room /\ ticker' = ticker /\ Creating(c)
    BY <1>2 DEF CreateMem, dbVars, Creating
  <2>3. /\ life = "Absent" /\ room.state = "open"
        /\ ticker.pc \notin {"end", "drop"}
        /\ \A d \in Conns \ {c} : conn[d].pc \notin RowPcs
    BY <2>2 DEF RowInv, RowPcs, Creating
  <2> QED
    BY <2>1, <2>2, <2>3 DEF RowInv, RowFollowsRoom, Creating, Moves, RowPcs
<1>3. CASE SaveEnd(c)
  <2>1. Moves(c, {"drop"})
    BY <1>3, MovesTo DEF SaveEnd
  <2>2. /\ conn[c].pc = "saveEnd" /\ life' = life /\ ticker' = ticker
        /\ room'.state = "ended"
    BY <1>3 DEF SaveEnd, EndRoomRow, memVars, TypeOK
  <2>3. /\ life = "Ended" /\ room.state = "open"
        /\ \A d \in Conns \ {c} : conn[d].pc \notin RowPcs
    BY <2>2 DEF RowInv, RowPcs, Creating
  <2> QED
    BY <2>1, <2>2, <2>3 DEF RowInv, RowFollowsRoom, Creating, Moves, RowPcs
<1>4. CASE DropRoom(c)
  <2>1. Moves(c, {"closed", "up"})
    BY <1>4, MovesTo DEF DropRoom
  <2>2. conn[c].pc = "drop" /\ life' = "Absent" /\ room' = room /\ ticker' = ticker
    BY <1>4 DEF DropRoom, dbVars
  <2>3. /\ room.state = "ended"
        /\ \A d \in Conns : conn[d].pc # "saveEnd" /\ ~Creating(d)
    BY <2>2 DEF RowInv
  <2> QED
    BY <2>1, <2>2, <2>3 DEF RowInv, RowFollowsRoom, Creating, Moves
<1>5. CASE CreateHostRow(c)
  <2>1. Moves(c, {"createMem"})
    BY <1>5, MovesTo DEF CreateHostRow
  <2>2. RowKept
    BY <1>5, <2>1 DEF CreateHostRow, RowKept, Moves, memVars
  <2> QED
    BY <2>2, RowFrame
<1>6. CASE SaveDeadline(c)
  <2>1. Moves(c, {"closed", "up"})
    BY <1>6, MovesTo DEF SaveDeadline
  <2>2. RowKept
    BY <1>6, <2>1 DEF SaveDeadline, RowKept, RowPcs, Moves, TypeOK, memVars, dbVars
  <2> QED
    BY <2>2, RowFrame
<1>7. CASE SaveLeft(c)
  <2>1. Moves(c, {"closed", "up"})
    BY <1>7, MovesTo DEF SaveLeft
  <2>2. RowKept
    BY <1>7, <2>1 DEF SaveLeft, RowKept, RowPcs, Moves, TypeOK, memVars, dbVars
  <2> QED
    BY <2>2, RowFrame
<1>8. CASE SaveNewHost(c)
  <2>1. Moves(c, {"saveOldHost"})
    BY <1>8, MovesTo DEF SaveNewHost
  <2>2. RowKept
    BY <1>8, <2>1 DEF SaveNewHost, RowKept, RowPcs, Moves, TypeOK, memVars, dbVars
  <2> QED
    BY <2>2, RowFrame
<1>9. CASE SaveOldHost(c)
  <2>1. Moves(c, {"saveOldLeft"})
    BY <1>9, MovesTo DEF SaveOldHost
  <2>2. RowKept
    BY <1>9, <2>1 DEF SaveOldHost, RowKept, RowPcs, Moves, TypeOK, memVars, dbVars
  <2> QED
    BY <2>2, RowFrame
<1>10. CASE SaveOldLeft(c)
  <2>1. Moves(c, {"closed", "up"})
    BY <1>10, MovesTo DEF SaveOldLeft
  <2>2. RowKept
    BY <1>10, <2>1 DEF SaveOldLeft, RowKept, RowPcs, Moves, TypeOK, memVars, dbVars
  <2> QED
    BY <2>2, RowFrame
<1>11. CASE RejoinDeadline(c)
  <2>1. Moves(c, {"rejoinHostRow"})
    BY <1>11, MovesTo DEF RejoinDeadline
  <2>2. RowKept
    BY <1>11, <2>1 DEF RejoinDeadline, RowKept, RowPcs, Moves, TypeOK, memVars, dbVars
  <2> QED
    BY <2>2, RowFrame
<1>12. CASE RejoinHostRow(c)
  <2>1. Moves(c, {"rejoinHost"})
    BY <1>12, MovesTo DEF RejoinHostRow
  <2>2. RowKept
    BY <1>12, <2>1 DEF RejoinHostRow, RowKept, RowPcs, Moves, TypeOK, memVars, dbVars
  <2> QED
    BY <2>2, RowFrame
<1>13. CASE RejoinHost(c)
  <2>1. Moves(c, {"upgrade"})
    BY <1>13, MovesTo DEF RejoinHost
  <2>2. RowKept
    BY <1>13, <2>1 DEF RejoinHost, RowKept, RowPcs, Moves, TypeOK, memVars, dbVars
  <2> QED
    BY <2>2, RowFrame
<1>14. CASE RejoinRow(c)
  <2>1. Moves(c, {"rejoinSeat"})
    BY <1>14, MovesTo DEF RejoinRow
  <2>2. RowKept
    BY <1>14, <2>1 DEF RejoinRow, RowKept, RowPcs, Moves, TypeOK, memVars, dbVars
  <2> QED
    BY <2>2, RowFrame
<1>15. CASE RejoinSeat(c)
  <2>1. Moves(c, {"upgrade"})
    BY <1>15, MovesTo DEF RejoinSeat
  <2>2. RowKept
    BY <1>15, <2>1 DEF RejoinSeat, RowKept, RowPcs, Moves, TypeOK, memVars, dbVars
  <2> QED
    BY <2>2, RowFrame
<1>16. CASE Upgrade(c)
  <2>1. Moves(c, {"up"})
    BY <1>16, MovesTo DEF Upgrade
  <2>2. RowKept
    BY <1>16, <2>1 DEF Upgrade, RowKept, RowPcs, Moves, TypeOK, memVars, dbVars
  <2> QED
    BY <2>2, RowFrame
<1>17. CASE LostRow(c)
  <2>1. Moves(c, {"lostSeat"})
    BY <1>17, MovesTo DEF LostRow
  <2>2. RowKept
    BY <1>17, <2>1 DEF LostRow, RowKept, RowPcs, Moves, TypeOK, memVars, dbVars
  <2> QED
    BY <2>2, RowFrame
<1>18. CASE LostSeat(c)
  <2>1. Moves(c, {"closed"})
    BY <1>18, MovesTo DEF LostSeat
  <2>2. RowKept
    BY <1>18, <2>1 DEF LostSeat, RowKept, RowPcs, Moves, TypeOK, memVars, dbVars
  <2> QED
    BY <2>2, RowFrame
<1>19. CASE Join(c)
  BY <1>19, RowFrame DEF Join, RowKept, dbVars, taskVars
<1>20. CASE Presence(c)
  BY <1>20, RowFrame DEF Presence, RowKept, dbVars, taskVars
<1>21. CASE ConnectionLost(c)
  <2>1. Moves(c, {"closed", "lostHost", "lostRow"})
    BY <1>21 DEF ConnectionLost, Moves, TypeOK, ConnState, Closed
  <2>2. RowKept
    BY <1>21, <2>1 DEF ConnectionLost, RowKept, RowPcs, Moves, memVars, dbVars
  <2> QED
    BY <2>2, RowFrame
<1>22. CASE Close(c)
  <2>1. Moves(c, {"closed", "lost"})
    BY <1>22 DEF Close, Moves, TypeOK, ConnState, Closed
  <2>2. RowKept
    BY <1>22, <2>1 DEF Close, RowKept, RowPcs, Moves, memVars, dbVars
  <2> QED
    BY <2>2, RowFrame
<1>23. CASE Connect(c)
  <2>1. Moves(c, {"upgrade", "rejoinDeadline", "rejoinRow"})
    BY <1>23 DEF Connect, Goto, Moves, TypeOK, ConnState
  <2>2. RowKept
    BY <1>23, <2>1 DEF Connect, RowKept, RowPcs, Moves, memVars, dbVars
  <2> QED
    BY <2>2, RowFrame
<1>24. CASE Leave(c)
  BY <1>0, <1>24, LeaveRow DEF Leave, RowPcs
<1>25. CASE LostHost(c)
  <2>1. CASE life = "Open" /\ Seated(parts[Owner[c]])
    BY <1>0, <1>25, <2>1, LeaveRow DEF LostHost, RowPcs
  <2>2. CASE ~(life = "Open" /\ Seated(parts[Owner[c]]))
    <3>1. Moves(c, {"closed"})
      BY <1>25, <2>2, MovesTo DEF LostHost
    <3>2. RowKept
      BY <1>25, <2>2, <3>1 DEF LostHost, RowKept, RowPcs, Moves, memVars, dbVars
    <3> QED
      BY <3>2, RowFrame
  <2> QED
    BY <2>1, <2>2
<1> QED
  BY <1>1, <1>2, <1>3, <1>4, <1>5, <1>6, <1>7, <1>8, <1>9,
     <1>10, <1>11, <1>12, <1>13, <1>14, <1>15, <1>16, <1>17, <1>18,
     <1>19, <1>20, <1>21, <1>22, <1>23, <1>24, <1>25
  DEF ConnStep, ClientStep

\* So does every step of the ticker and every restart.
LEMMA RowStep ==
    ASSUME TypeOK, RowInv, [Next]_vars
    PROVE  RowInv'
<1>1. ASSUME NEW c \in Conns, ConnStep(c) \/ ClientStep(c)
      PROVE  RowInv'
  BY <1>1, ConnRowStep
<1>2. CASE TickGrace
  <2>1. ASSUME life' # life PROVE RowInv'
    <3>1. /\ life = "Open" \/ life = "Ended"
          /\ life' = "Ended" /\ ticker'.pc = "end" /\ room' = room /\ conn' = conn
      BY <1>2, <2>1 DEF TickGrace, TypeOK, dbVars
    <3>2. room.state # "none"
      BY <3>1 DEF RowInv, RowFollowsRoom
    <3>3. \A c \in Conns : conn[c].pc # "saveEnd" /\ ~Creating(c)
      BY <1>2, <3>1 DEF TickGrace, Locked, SavePcs, RowInv
    <3> QED
      BY <3>1, <3>2, <3>3 DEF RowInv, RowFollowsRoom, Creating
  <2>2. ASSUME life' = life PROVE RowInv'
    <3>1. /\ ticker'.pc = "presence" \/ (ticker'.pc = "end" /\ life = "Ended")
          /\ room' = room /\ conn' = conn
      BY <1>2, <2>2 DEF TickGrace, TypeOK, dbVars
    <3>2. \A c \in Conns : conn[c].pc # "saveEnd"
      BY <1>2 DEF TickGrace, Locked, SavePcs
    <3> QED
      BY <2>2, <3>1, <3>2 DEF RowInv, RowFollowsRoom, Creating
  <2> QED
    BY <2>1, <2>2
<1>3. CASE TickEnd
  <2>1. /\ ticker.pc = "end" /\ ticker'.pc = "drop" /\ life' = life /\ conn' = conn
        /\ room'.state = "ended"
    BY <1>3 DEF TickEnd, EndRoomRow, TypeOK, memVars
  <2>2. life # "Open" /\ \A c \in Conns : conn[c].pc # "saveEnd" /\ ~Creating(c)
    BY <2>1 DEF RowInv, RowFollowsRoom
  <2> QED
    BY <2>1, <2>2 DEF RowInv, RowFollowsRoom, Creating
<1>4. CASE TickDrop
  <2>1. /\ ticker.pc = "drop" /\ ticker'.pc = "presence" /\ life' = "Absent"
        /\ conn' = conn /\ room' = room
    BY <1>4 DEF TickDrop, TypeOK, dbVars
  <2>2. room.state = "ended" /\ \A c \in Conns : conn[c].pc # "saveEnd" /\ ~Creating(c)
    BY <2>1 DEF RowInv
  <2> QED
    BY <2>1, <2>2 DEF RowInv, RowFollowsRoom, Creating
<1>5. CASE TickPresence
  BY <1>5, RowFrame DEF TickPresence, RowKept, TypeOK, dbVars
<1>6. CASE TickStale
  BY <1>6, RowFrame DEF TickStale, TickerIdle, RowKept, TypeOK, dbVars
<1>7. CASE TickPurge
  BY <1>7, RowFrame DEF TickPurge, TickerIdle, RowKept, TypeOK, memVars
<1>8. CASE Restart
  <2>1. /\ \A c \in Conns : conn'[c].pc = "closed"
        /\ ticker'.pc = "grace" /\ room' = room
        /\ life' = (IF room.state = "open" THEN "Open" ELSE "Absent")
    BY <1>8 DEF Restart, Closed, TickerIdle, RehydrateOpen, RehydrateNothing, dbVars
  <2> QED
    BY <2>1 DEF RowInv, RowFollowsRoom, Creating
<1>9. CASE Tick
  BY <1>9, RowFrame DEF Tick, RowKept, memVars, dbVars, taskVars
<1>10. CASE UNCHANGED vars
  BY <1>10, RowFrame DEF vars, RowKept, memVars, dbVars, taskVars
<1> QED
  BY <1>1, <1>2, <1>3, <1>4, <1>5, <1>6, <1>7, <1>8, <1>9, <1>10 DEF Next, TickerStep

-----------------------------------------------------------------------------
(* What a restart would find.                                              *)

\* Where a connection can be before the room exists.
FirstPcs == {"closed", "up", "upgrade", "lost", "createHost", "createMem"}

\* The hosts in memory are among those a restart would rebuild.
Covered == HostsIn(parts) \subseteq (IF HostRows = {} THEN {room.host} ELSE HostRows)

\* Why the rows keep up with the host.  One task at a time is between the
\* change of memory and its last write, and it has the room open; a handover
\* writes the new host's row before it takes the flag off the old one's, and
\* until then the old one is who a restart would seat; and only the user the
\* rooms row names is ever host without a host row.
RestartInv ==
    /\ \A c, d \in Conns : conn[c].pc \in SavePcs /\ conn[d].pc \in SavePcs => c = d
    /\ \A c \in Conns : conn[c].pc \in SavePcs \ {"saveEnd"} => life = "Open"
    /\ life # "Absent" /\ (\A c \in Conns : conn[c].pc # "saveNewHost") => Covered
    /\ \A c \in Conns : conn[c].pc = "saveNewHost" =>
          \E h \in Users \ {Owner[c]} : HostsIn(parts) = {h}
    /\ \A c \in Conns : conn[c].pc = "saveNewHost" => Owner[c] \in RestartHosts
    /\ \A c \in Conns : conn[c].pc \in {"saveOldHost", "saveOldLeft", "saveLeft"} =>
          ~parts[Owner[c]].isHost
    /\ \A c \in Conns : conn[c].pc = "saveOldHost" => HostRows # {}
    /\ HostRows = {} => \A u \in Users : ~rows[u].isHost
    /\ HostRows = {} => \A c \in Conns :
          conn[c].pc \in {"rejoinDeadline", "rejoinHostRow"} => Owner[c] = room.host
    /\ room.state = "none" \/ (\E c \in Conns : Creating(c)) =>
          \A d \in Conns : conn[d].pc \in FirstPcs
    /\ \A c \in Conns : conn[c].pc = "createMem" => Owner[c] \in HostRows

\* A connection that moves neither into a save, a creation or a host's rejoin
\* nor out of a handover's first write, or goes on to the next of their steps.
Onward(c) ==
    \/ conn'[c].pc = conn[c].pc
    \/ /\ conn[c].pc # "saveNewHost"
       /\ conn'[c].pc \notin SavePcs \cup {"createHost", "createMem", "rejoinDeadline", "rejoinHostRow"}
       /\ conn'[c].pc \in FirstPcs \/ conn[c].pc \notin FirstPcs \/ life # "Absent"
    \/ conn[c].pc = "rejoinDeadline" /\ conn'[c].pc = "rejoinHostRow"
    \/ conn[c].pc = "saveOldHost" /\ conn'[c].pc = "saveOldLeft"

\* A step that moves no host flag in memory, takes no host's row away, and
\* neither creates the room nor closes it under a task that is saving.
Steady ==
    /\ \A u \in Users : parts'[u].isHost = parts[u].isHost
    /\ \A u \in Users : rows'[u].isHost => rows[u].isHost
    /\ HostRows' = {} <=> HostRows = {}
    /\ HostsIn(parts) \cap HostRows \subseteq HostRows'
    /\ \A c \in Conns : conn[c].pc = "saveNewHost" => HostRows \subseteq HostRows'
    /\ \A c \in Conns : conn[c].pc = "createMem" => HostRows \subseteq HostRows'
    /\ room'.host = room.host /\ (room'.state = "none" => room.state = "none")
    /\ life' # "Absent" => life # "Absent"
    /\ \A c \in Conns : conn[c].pc \in SavePcs \ {"saveEnd"} => life' = life
    /\ \A c \in Conns : Onward(c)

LEMMA SteadyFrame ==
    ASSUME TypeOK, RestartInv, RowInv, Steady
    PROVE  RestartInv'
<1>1. HostsIn(parts)' = HostsIn(parts)
  BY DEF Steady, HostsIn
<1>2. \A c \in Conns :
        /\ conn'[c].pc \in SavePcs => conn[c].pc \in SavePcs
        /\ conn'[c].pc \in SavePcs \ {"saveEnd"} => conn[c].pc \in SavePcs \ {"saveEnd"}
        /\ conn'[c].pc = "saveNewHost" <=> conn[c].pc = "saveNewHost"
        /\ conn'[c].pc = "saveOldHost" => conn[c].pc = "saveOldHost"
        /\ conn'[c].pc = "createMem" => conn[c].pc = "createMem"
        /\ Creating(c)' => Creating(c)
        /\ conn'[c].pc \in {"rejoinDeadline", "rejoinHostRow"} =>
              conn[c].pc \in {"rejoinDeadline", "rejoinHostRow"}
        /\ conn'[c].pc \in {"saveOldHost", "saveOldLeft", "saveLeft"} =>
              conn[c].pc \in {"saveOldHost", "saveOldLeft", "saveLeft"}
  BY DEF Steady, Onward, SavePcs, Creating
<1>3. \A c, d \in Conns : conn'[c].pc \in SavePcs /\ conn'[d].pc \in SavePcs => c = d
  BY <1>2 DEF RestartInv
<1>4. \A c \in Conns : conn'[c].pc \in SavePcs \ {"saveEnd"} => life' = "Open"
  BY <1>2 DEF RestartInv, Steady
<1>5. life' # "Absent" /\ (\A c \in Conns : conn'[c].pc # "saveNewHost") => Covered'
  BY <1>1, <1>2 DEF RestartInv, Steady, Covered
<1>6. \A c \in Conns : conn'[c].pc = "saveNewHost" =>
          \E h \in Users \ {Owner[c]} : HostsIn(parts)' = {h}
  BY <1>1, <1>2 DEF RestartInv
<1>7. \A c \in Conns : conn'[c].pc \in {"saveOldHost", "saveOldLeft", "saveLeft"} =>
          ~parts'[Owner[c]].isHost
  BY <1>2, ConstantsAssumption DEF RestartInv, Steady, ConstantsAssumption
<1>8. \A c \in Conns : conn'[c].pc = "saveOldHost" => HostRows' # {}
  BY <1>2 DEF RestartInv, Steady
<1>9. HostRows' = {} => \A u \in Users : ~rows'[u].isHost
  BY DEF RestartInv, Steady
<1>10. HostRows' = {} => \A c \in Conns :
          conn'[c].pc \in {"rejoinDeadline", "rejoinHostRow"} => Owner[c] = room'.host
  BY <1>2 DEF RestartInv, Steady
<1>11. room'.state = "none" \/ (\E c \in Conns : Creating(c)') =>
          \A d \in Conns : conn'[d].pc \in FirstPcs
  <2>1. SUFFICES ASSUME room'.state = "none" \/ (\E c \in Conns : Creating(c)'), NEW d \in Conns
                 PROVE  conn'[d].pc \in FirstPcs
    OBVIOUS
  <2>2. room.state = "none" \/ \E c \in Conns : Creating(c)
    BY <1>2, <2>1 DEF Steady
  <2>3. conn[d].pc \in FirstPcs
    BY <2>2 DEF RestartInv
  <2>4. life = "Absent"
    BY <2>2 DEF RowInv, RowFollowsRoom, TypeOK
  <2>5. conn[d].pc \notin {"rejoinDeadline", "saveOldHost"}
    BY <2>3 DEF FirstPcs
  <2> QED
    BY <2>3, <2>4, <2>5 DEF Steady, Onward
<1>12. \A c \in Conns : conn'[c].pc = "createMem" => Owner[c] \in HostRows'
  BY <1>2 DEF RestartInv, Steady
<1>13. \A c \in Conns : conn'[c].pc = "saveNewHost" => Owner[c] \in RestartHosts'
  BY <1>2 DEF RestartInv, Steady, RestartHosts
<1> QED
  BY <1>3, <1>4, <1>5, <1>6, <1>7, <1>8, <1>9, <1>10, <1>11, <1>12, <1>13 DEF RestartInv

\* A status written to a row moves no flag, and takes no other row away.
LEMMA StatusRows ==
    ASSUME TypeOK, NEW u \in Users, NEW st, UpdateStatus(u, st)
    PROVE  /\ \A v \in Users : rows'[v].isHost = rows[v].isHost
           /\ HostRows \ {u} \subseteq HostRows'
           /\ st \notin {"Absent", "Left"} => HostRows \subseteq HostRows'
<1>1. rows \in [Users -> Record]
  BY DEF TypeOK
<1>2. \A v \in Users : rows'[v].isHost = rows[v].isHost
  BY <1>1 DEF UpdateStatus, Record, Stamped
<1>3. \A v \in Users \ {u} : rows'[v] = rows[v]
  BY <1>1 DEF UpdateStatus
<1>4. HostRows \ {u} \subseteq HostRows'
  BY <1>2, <1>3 DEF HostRows, LiveRows
<1>5. ASSUME st \notin {"Absent", "Left"}, u \in HostRows PROVE u \in HostRows'
  <2>1. rows[u].status # "Absent" /\ rows[u].isHost
    BY <1>5 DEF HostRows, LiveRows
  <2>2. rows'[u].status = st
    BY <1>1, <2>1 DEF UpdateStatus, Record, Stamped
  <2> QED
    BY <1>2, <1>5, <2>1, <2>2 DEF HostRows, LiveRows
<1> QED
  BY <1>2, <1>4, <1>5

\* A row written afresh is a host's row or it is not.
LEMMA FreshRow ==
    ASSUME TypeOK, NEW u \in Users, NEW h \in BOOLEAN, NEW joined, AddParticipant(u, h, joined)
    PROVE  /\ h => HostRows' = HostRows \cup {u}
           /\ ~h => HostRows' = HostRows \ {u}
           /\ ~h => \A v \in Users : rows'[v].isHost => rows[v].isHost
<1>1. rows \in [Users -> Record]
  BY DEF TypeOK
<1>2. rows'[u] = Seat(joined, h) /\ \A v \in Users \ {u} : rows'[v] = rows[v]
  BY <1>1 DEF AddParticipant
<1>3. Seat(joined, h).isHost = h /\ Seat(joined, h).status = "Connected"
  BY DEF Seat
<1> QED
  BY <1>2, <1>3 DEF HostRows, LiveRows

\* What taking away the row of a user who is not the host leaves: while the
\* room is open and no handover is on its first write, the hosts' rows.
LEMMA OthersRow ==
    ASSUME TypeOK, HostInv, RestartInv, life # "Absent", \A c \in Conns : conn[c].pc # "saveNewHost",
           NEW u \in Users, ~parts[u].isHost,
           HostRows \ {u} \subseteq HostRows', \A v \in Users : rows'[v].isHost => rows[v].isHost
    PROVE  /\ HostRows' = {} <=> HostRows = {}
           /\ HostsIn(parts) \cap HostRows \subseteq HostRows'
<1>1. u \notin HostsIn(parts) /\ HostsIn(parts) # {} /\ Covered
  BY DEF HostsIn, HostInv, RestartInv
<1>2. HostRows = {} => HostRows' = {}
  BY DEF RestartInv, HostRows, LiveRows
<1>3. HostRows # {} => HostRows' # {}
  BY <1>1 DEF Covered
<1> QED
  BY <1>1, <1>2, <1>3

\* leave_room changes memory, under the lock, and has its writes to come.
LEMMA LeaveRestart ==
    ASSUME Grace # 0, TypeOK, HostInv, RowInv, RestartInv, NEW c \in Conns, NEW lost \in BOOLEAN,
           LeaveRoom(c, Owner[c], lost), UNCHANGED <<dbVars, ticker>>
    PROVE  RestartInv'
<1> DEFINE u == Owner[c]
<1>1. u \in Users
  BY ConstantsAssumption DEF ConstantsAssumption
<1>2. /\ life = "Open" /\ (\A d \in Conns : conn[d].pc \notin SavePcs)
      /\ UNCHANGED <<room, rows>>
  BY DEF LeaveRoom, Locked, dbVars
<1>3. HostRows' = HostRows
  BY <1>2 DEF HostRows, LiveRows
<1>4. room.state # "none" /\ \A d \in Conns : ~Creating(d)
  BY <1>2 DEF RowInv, RowFollowsRoom
<1>5. Covered
  BY <1>2 DEF RestartInv, SavePcs
<1>6. ASSUME NEW pc \in SavePcs \ {"saveNewHost", "saveOldHost", "saveOldLeft"}, Moves(c, {pc}),
             \A v \in Users : parts'[v].isHost = parts[v].isHost,
             pc = "saveLeft" => ~parts[u].isHost,
             life' = "Open" \/ (pc = "saveEnd" /\ life' = "Ended")
      PROVE  RestartInv'
  <2>1. HostsIn(parts)' = HostsIn(parts)
    BY <1>6 DEF HostsIn
  <2>2. /\ conn'[c].pc = pc
        /\ \A d \in Conns : d # c => conn'[d].pc = conn[d].pc /\ conn'[d].pc \notin SavePcs
    BY <1>2, <1>6 DEF Moves
  <2>3. \A d \in Conns : ~Creating(d)'
    BY <1>4, <1>6, <2>2 DEF Creating, SavePcs
  <2>4. Covered'
    BY <1>2, <1>3, <1>5, <2>1 DEF Covered
  <2>5. \A d \in Conns : conn'[d].pc \in {"rejoinDeadline", "rejoinHostRow"} =>
            conn[d].pc \in {"rejoinDeadline", "rejoinHostRow"}
    BY <1>6, <2>2 DEF SavePcs
  <2>6. \A d \in Conns : conn'[d].pc \in {"saveNewHost", "saveOldHost", "saveOldLeft", "saveLeft"} =>
            d = c /\ pc = "saveLeft"
    BY <1>6, <2>2 DEF SavePcs
  <2>7. \A d \in Conns : conn'[d].pc # "createMem" /\ conn'[d].pc # "saveOldHost"
    BY <1>6, <2>2, <2>3, <2>6 DEF Creating
  <2>8. \A d \in Conns : conn'[d].pc \in SavePcs => d = c
    BY <2>2
  <2>9. \A d \in Conns : conn'[d].pc \in SavePcs \ {"saveEnd"} => life' = "Open"
    BY <1>6, <2>2, <2>8
  <2>10. \A d \in Conns : conn'[d].pc \in {"saveOldHost", "saveOldLeft", "saveLeft"} =>
            ~parts'[Owner[d]].isHost
    BY <1>1, <1>6, <2>6
  <2>11. \A d, e \in Conns : conn'[d].pc \in SavePcs /\ conn'[e].pc \in SavePcs => d = e
    BY <2>8
  <2>12. room'.state # "none" /\ \A d \in Conns : conn'[d].pc \notin {"saveNewHost", "saveOldHost", "createMem"}
    BY <1>2, <1>4, <1>6, <2>2, <2>6, <2>7
  <2>13. HostRows' = {} => (\A v \in Users : ~rows'[v].isHost) /\ \A d \in Conns :
            conn'[d].pc \in {"rejoinDeadline", "rejoinHostRow"} => Owner[d] = room'.host
    BY <1>2, <1>3, <2>5 DEF RestartInv
  <2> QED
    BY <2>3, <2>4, <2>9, <2>10, <2>11, <2>12, <2>13 DEF RestartInv
<1>7. ASSUME NEW st PROVE \A v \in Users : [parts EXCEPT ![u] = Stamped(@, st)][v].isHost = parts[v].isHost
  BY <1>1 DEF TypeOK, Record, Stamped
<1>8. CASE LeaveAsViewer(c, u, lost)
  <2>1. Moves(c, {"saveLeft"})
    BY <1>8, MovesTo DEF LeaveAsViewer
  <2> QED
    BY <1>2, <1>6, <1>7, <1>8, <2>1 DEF LeaveAsViewer, SavePcs
<1>9. CASE LeaveEndsRoom(c, u, lost)
  <2>1. Moves(c, {"saveEnd"})
    BY <1>9, MovesTo DEF LeaveEndsRoom
  <2> QED
    BY <1>2, <1>6, <1>7, <1>9, <2>1 DEF LeaveEndsRoom, SavePcs
<1>10. CASE LeaveStartsGrace(c, u, lost)
  <2>1. Moves(c, {"saveDeadline"})
    BY <1>10, MovesTo DEF LeaveStartsGrace
  <2> QED
    BY <1>2, <1>6, <1>7, <1>10, <2>1 DEF LeaveStartsGrace, SavePcs
<1>11. CASE LeaveMigrates(c, u, lost)
  <2> DEFINE left == [parts EXCEPT ![u] = Stamped(@, "Left")]
  <2>1. /\ Moves(c, {"saveNewHost"}) /\ parts' = Elected(left) /\ Candidates(left) # {} /\ life' = life
        /\ parts[u].isHost
    BY <1>11, MovesTo DEF LeaveMigrates
  <2>2. left \in [Users -> Record]
    BY <1>1, RecordTypes DEF TypeOK, Statuses
  <2>3. left[u].isHost
    BY <1>7, <1>1, <2>1
  <2> HIDE DEF left
  <2>4. HostsIn(parts') = {ElectedId(left)} /\ ElectedId(left) \in Candidates(left)
    <3>1. Candidates(left) \in SUBSET Users
      BY DEF Candidates
    <3> QED
      BY <2>1, <2>2, <3>1, ElectedHost, FirstIsMember DEF ElectedId
  <2>5. ElectedId(left) \in Users \ {u}
    BY <2>3, <2>4 DEF Candidates
  <2>6. HostsIn(parts)' = {ElectedId(left)}
    BY <2>4 DEF HostsIn
  <2>7. /\ conn'[c].pc = "saveNewHost"
        /\ \A d \in Conns : d # c => conn'[d].pc = conn[d].pc /\ conn'[d].pc \notin SavePcs
    BY <1>2, <2>1 DEF Moves
  <2>8. \A d \in Conns : ~Creating(d)'
    BY <1>4, <2>7 DEF Creating
  <2>9. \A d \in Conns : conn'[d].pc \in {"rejoinDeadline", "rejoinHostRow"} =>
            conn[d].pc \in {"rejoinDeadline", "rejoinHostRow"}
    BY <2>7
  <2>10. \A d \in Conns :
            /\ conn'[d].pc \notin {"saveOldHost", "saveOldLeft", "saveLeft", "createMem"}
            /\ conn'[d].pc \in SavePcs => d = c
    BY <2>7, <2>8 DEF SavePcs, Creating
  <2>11. \A d, e \in Conns : conn'[d].pc \in SavePcs /\ conn'[e].pc \in SavePcs => d = e
    BY <2>10
  <2>12. /\ life' = "Open" /\ room'.state # "none"
         /\ \E d \in Conns : conn'[d].pc = "saveNewHost"
    BY <1>2, <1>4, <2>1, <2>7
  <2>13. HostRows' = {} => (\A v \in Users : ~rows'[v].isHost) /\ \A d \in Conns :
            conn'[d].pc \in {"rejoinDeadline", "rejoinHostRow"} => Owner[d] = room'.host
    BY <1>2, <1>3, <2>9 DEF RestartInv
  <2>14. \A d \in Conns : conn'[d].pc = "saveNewHost" =>
            \E h \in Users \ {Owner[d]} : HostsIn(parts)' = {h}
    BY <2>5, <2>6, <2>10 DEF SavePcs
  <2>15. u \in RestartHosts /\ RestartHosts' = RestartHosts
    BY <1>1, <1>2, <1>3, <1>5, <2>1 DEF Covered, RestartHosts, HostsIn
  <2>16. \A d \in Conns : conn'[d].pc = "saveNewHost" => Owner[d] \in RestartHosts'
    BY <2>10, <2>15 DEF SavePcs
  <2> QED
    BY <2>8, <2>10, <2>11, <2>12, <2>13, <2>14, <2>16 DEF RestartInv
<1> QED
  BY <1>8, <1>9, <1>10, <1>11 DEF LeaveRoom

\* Every step of a connection task keeps the rows up with the host.
LEMMA ConnRestartStep ==
    ASSUME Grace # 0, TypeOK, HostInv, RowInv, RestartInv, NEW c \in Conns, ConnStep(c) \/ ClientStep(c)
    PROVE  RestartInv'
<1> USE ConstantsAssumption
<1>0. Owner[c] \in Users
  OBVIOUS
<1>a. ASSUME rows' = rows
      PROVE  /\ HostRows' = HostRows /\ \A u \in Users : rows'[u].isHost => rows[u].isHost
  BY <1>a DEF HostRows, LiveRows
<1>b. UNCHANGED dbVars => rows' = rows /\ room' = room
  BY DEF dbVars
<1>c. UNCHANGED memVars => parts' = parts /\ life' = life
  BY DEF memVars
<1>d. ~Locked => \A d \in Conns : conn[d].pc \notin SavePcs
  BY DEF Locked
<1>e. life = "Absent" \/ \A d \in Conns : ~Creating(d)
  BY DEF RowInv
\* Moves that are onward.
<1>f. ASSUME NEW pcs, Moves(c, pcs), conn[c].pc # "saveNewHost",
             \A pc \in pcs :
                /\ pc \notin SavePcs \cup {"createHost", "createMem", "rejoinDeadline", "rejoinHostRow"}
                /\ pc \in FirstPcs \/ conn[c].pc \notin FirstPcs \/ life # "Absent"
      PROVE  \A d \in Conns : Onward(d)
  BY <1>f DEF Moves, Onward
<1>1. CASE SaveEnd(c)
  <2>1. Moves(c, {"drop"}) /\ conn[c].pc = "saveEnd"
    BY <1>1, MovesTo DEF SaveEnd
  <2>2. \A d \in Conns : Onward(d)
    BY <1>f, <2>1 DEF SavePcs, FirstPcs
  <2>3. room'.host = room.host /\ room'.state = "ended"
    BY <1>1 DEF SaveEnd, EndRoomRow, TypeOK
  <2>4. Steady
    BY <1>1, <1>a, <1>c, <2>2, <2>3 DEF SaveEnd, Steady
  <2> QED
    BY <2>4, SteadyFrame
<1>2. CASE SaveDeadline(c)
  <2>1. Moves(c, {"closed", "up"}) /\ conn[c].pc = "saveDeadline"
    BY <1>2, MovesTo DEF SaveDeadline
  <2>2. \A d \in Conns : Onward(d)
    BY <1>f, <2>1 DEF SavePcs, FirstPcs
  <2>3. room'.host = room.host /\ room'.state = room.state
    BY <1>2 DEF SaveDeadline, TypeOK
  <2>4. Steady
    BY <1>2, <1>a, <1>c, <2>2, <2>3 DEF SaveDeadline, Steady
  <2> QED
    BY <2>4, SteadyFrame
<1>3. CASE SaveLeft(c) \/ SaveOldLeft(c)
  <2>1. Moves(c, {"closed", "up"}) /\ conn[c].pc \in {"saveLeft", "saveOldLeft"}
    BY <1>3, MovesTo DEF SaveLeft, SaveOldLeft
  <2>2. \A d \in Conns : Onward(d)
    BY <1>f, <2>1 DEF SavePcs, FirstPcs
  <2>3. /\ ~parts[Owner[c]].isHost /\ life = "Open"
        /\ (\A d \in Conns : conn[d].pc # "saveNewHost") /\ \A d \in Conns : ~Creating(d)
    BY <1>e, <2>1 DEF RestartInv, SavePcs
  <2>4. /\ \A v \in Users : rows'[v].isHost = rows[v].isHost
        /\ HostRows \ {Owner[c]} \subseteq HostRows'
    BY <1>0, <1>3, StatusRows DEF SaveLeft, SaveOldLeft
  <2>5. /\ HostRows' = {} <=> HostRows = {}
        /\ HostsIn(parts) \cap HostRows \subseteq HostRows'
    BY <1>0, <2>3, <2>4, OthersRow
  <2>6. Steady
    BY <1>3, <1>c, <2>2, <2>3, <2>4, <2>5 DEF SaveLeft, SaveOldLeft, Steady, Creating
  <2> QED
    BY <2>6, SteadyFrame
<1>4. CASE SaveOldHost(c)
  <2>1. Moves(c, {"saveOldLeft"}) /\ conn[c].pc = "saveOldHost"
    BY <1>4, MovesTo DEF SaveOldHost
  <2>2. \A d \in Conns : Onward(d)
    BY <2>1 DEF Moves, Onward
  <2>3. /\ ~parts[Owner[c]].isHost /\ life = "Open"
        /\ (\A d \in Conns : conn[d].pc # "saveNewHost") /\ \A d \in Conns : ~Creating(d)
    BY <1>e, <2>1 DEF RestartInv, SavePcs
  <2>4. /\ \A v \in Users : rows'[v].isHost => rows[v].isHost
        /\ HostRows \ {Owner[c]} \subseteq HostRows'
    BY <1>0, <1>4, FreshRow DEF SaveOldHost
  <2>5. /\ HostRows' = {} <=> HostRows = {}
        /\ HostsIn(parts) \cap HostRows \subseteq HostRows'
    BY <1>0, <2>3, <2>4, OthersRow
  <2>6. Steady
    BY <1>4, <1>c, <2>2, <2>3, <2>4, <2>5 DEF SaveOldHost, Steady, Creating
  <2> QED
    BY <2>6, SteadyFrame
<1>5. CASE SaveNewHost(c)
  <2> DEFINE h == First(parts, HostsIn(parts))
  <2>1. /\ Moves(c, {"saveOldHost"}) /\ conn[c].pc = "saveNewHost" /\ life = "Open"
        /\ UNCHANGED <<parts, life, room>> /\ AddParticipant(h, TRUE, parts[h].joined)
    BY <1>5, <1>c, MovesTo DEF SaveNewHost, RestartInv, SavePcs
  <2>2. PICK i \in Users \ {Owner[c]} : HostsIn(parts) = {i}
    BY <2>1 DEF RestartInv
  <2>3. h = i
    BY <2>2, FirstIsMember DEF TypeOK
  <2>4. HostRows' = HostRows \cup {i}
    BY <2>1, <2>2, <2>3, FreshRow
  <2>5. HostsIn(parts)' = {i} /\ ~parts'[Owner[c]].isHost
    BY <1>0, <2>1, <2>2 DEF HostsIn
  <2>6. /\ conn'[c].pc = "saveOldHost"
        /\ \A d \in Conns : d # c => conn'[d].pc = conn[d].pc /\ conn'[d].pc \notin SavePcs
    BY <2>1 DEF Moves, RestartInv, SavePcs
  <2>7. \A d, e \in Conns : conn'[d].pc \in SavePcs /\ conn'[e].pc \in SavePcs => d = e
    BY <2>6
  <2>8. \A d \in Conns : conn'[d].pc # "createMem" /\ ~Creating(d)'
    BY <1>e, <2>1, <2>6 DEF Creating
  <2>9. room'.state # "none" /\ life' = "Open"
    BY <2>1 DEF RowInv, RowFollowsRoom
  <2>10. HostRows' # {} /\ Covered'
    BY <2>4, <2>5 DEF Covered
  <2>11. \A d \in Conns : /\ conn'[d].pc # "saveNewHost"
                          /\ conn'[d].pc \in {"saveOldHost", "saveOldLeft", "saveLeft"} =>
                                ~parts'[Owner[d]].isHost
    BY <2>5, <2>6 DEF SavePcs
  <2> QED
    BY <2>7, <2>8, <2>9, <2>10, <2>11 DEF RestartInv
<1>6. CASE RejoinHostRow(c)
  <2> DEFINE h == First(parts, HostsIn(parts))
  <2>1. /\ Moves(c, {"rejoinHost"}) /\ conn[c].pc = "rejoinHostRow" /\ ~Locked
        /\ UNCHANGED <<parts, life, room>> /\ AddParticipant(Owner[c], TRUE, parts[h].joined)
    BY <1>6, <1>c, MovesTo DEF RejoinHostRow
  <2>2. HostRows' = HostRows \cup {Owner[c]}
    BY <1>0, <2>1, FreshRow
  <2>3. HostsIn(parts)' = HostsIn(parts)
    BY <2>1 DEF HostsIn
  <2>4. life # "Absent" => Covered
    BY <1>d, <2>1 DEF RestartInv, SavePcs
  <2>5. HostRows = {} => Owner[c] = room.host
    BY <2>1 DEF RestartInv
  <2>6. life' # "Absent" => Covered'
    BY <2>1, <2>2, <2>3, <2>4, <2>5 DEF Covered
  <2>7. HostRows' # {}
    BY <2>2
  <2>8. \A d \in Conns : conn'[d].pc \notin SavePcs
    BY <1>d, <2>1 DEF Moves, SavePcs
  <2>9. room'.state # "none" /\ \A d \in Conns : ~Creating(d)
    BY <2>1 DEF RestartInv, FirstPcs
  <2>10. \A d \in Conns : ~Creating(d)'
    BY <2>1, <2>9 DEF Moves, Creating
  <2> QED
    BY <2>6, <2>7, <2>8, <2>9, <2>10 DEF RestartInv, SavePcs, Creating
<1>7. CASE DropRoom(c)
  <2>1. Moves(c, {"closed", "up"}) /\ conn[c].pc = "drop" /\ life # "Open"
    BY <1>7, MovesTo DEF DropRoom, RowInv, RowFollowsRoom
  <2>2. \A d \in Conns : Onward(d)
    BY <1>f, <2>1 DEF SavePcs, FirstPcs
  <2>3. \A d \in Conns : conn[d].pc \notin SavePcs \ {"saveEnd"}
    BY <2>1 DEF RestartInv
  <2>4. Steady
    BY <1>7, <1>a, <1>b, <2>2, <2>3 DEF DropRoom, Steady
  <2> QED
    BY <2>4, SteadyFrame
<1>8. CASE RejoinDeadline(c)
  <2>1. Moves(c, {"rejoinHostRow"}) /\ conn[c].pc = "rejoinDeadline"
    BY <1>8, MovesTo DEF RejoinDeadline
  <2>2. \A d \in Conns : Onward(d)
    BY <2>1 DEF Moves, Onward
  <2>3. room'.host = room.host /\ room'.state = room.state
    BY <1>8 DEF RejoinDeadline, TypeOK
  <2>4. Steady
    BY <1>8, <1>a, <1>c, <2>2, <2>3 DEF RejoinDeadline, Steady
  <2> QED
    BY <2>4, SteadyFrame
<1>9. CASE RejoinRow(c) \/ LostRow(c)
  <2>1. Moves(c, {"rejoinSeat", "lostSeat"}) /\ conn[c].pc \in {"rejoinRow", "lostRow"}
    BY <1>9, MovesTo DEF RejoinRow, LostRow, Moves
  <2>2. \A d \in Conns : Onward(d)
    BY <1>f, <2>1 DEF SavePcs, FirstPcs
  <2>3. (\A v \in Users : rows'[v].isHost = rows[v].isHost) /\ HostRows \subseteq HostRows'
    <3>1. "Connected" \notin {"Absent", "Left"} /\ "Disconnected" \notin {"Absent", "Left"}
      OBVIOUS
    <3>2. CASE UpdateStatus(Owner[c], "Connected")
      BY <1>0, <3>1, <3>2, StatusRows
    <3>3. CASE UpdateStatus(Owner[c], "Disconnected")
      BY <1>0, <3>1, <3>3, StatusRows
    <3> QED
      BY <1>9, <3>2, <3>3 DEF RejoinRow, LostRow
  <2>4. HostRows = {} => HostRows' = {}
    BY <2>3 DEF RestartInv, HostRows, LiveRows
  <2>5. UNCHANGED <<parts, life, room>>
    BY <1>9, <1>c DEF RejoinRow, LostRow
  <2>6. Steady
    BY <2>2, <2>3, <2>4, <2>5 DEF Steady
  <2> QED
    BY <2>6, SteadyFrame
<1>10. CASE Upgrade(c) \/ Close(c) \/ ConnectionLost(c)
  <2>1. \A d \in Conns : Onward(d)
    <3>1. CASE Upgrade(c)
      <4>1. Moves(c, {"up"}) /\ conn[c].pc = "upgrade"
        BY <3>1, MovesTo DEF Upgrade
      <4> QED
        BY <1>f, <4>1 DEF SavePcs, FirstPcs
    <3>2. CASE Close(c)
      <4>1. Moves(c, {"closed", "lost"}) /\ conn[c].pc = "up"
        BY <3>2 DEF Close, Moves, TypeOK, ConnState, Closed
      <4> QED
        BY <1>f, <4>1 DEF SavePcs, FirstPcs
    <3>3. CASE ConnectionLost(c)
      <4>1. /\ Moves(c, {"closed"}) \/ (Moves(c, {"lostHost", "lostRow"}) /\ life # "Absent")
            /\ conn[c].pc = "lost"
        BY <3>3 DEF ConnectionLost, Moves, TypeOK, ConnState, Closed, HasSeat
      <4> QED
        BY <1>f, <4>1 DEF SavePcs, FirstPcs
    <3> QED
      BY <1>10, <3>1, <3>2, <3>3
  <2>2. UNCHANGED <<parts, life, room, rows>>
    BY <1>10, <1>b, <1>c DEF Upgrade, Close, ConnectionLost
  <2>3. Steady
    BY <1>a, <2>1, <2>2 DEF Steady
  <2> QED
    BY <2>3, SteadyFrame
<1>11. CASE RejoinHost(c) \/ RejoinSeat(c) \/ LostSeat(c)
  <2>1. Moves(c, {"upgrade", "closed"}) /\ conn[c].pc \in {"rejoinHost", "rejoinSeat", "lostSeat"}
    BY <1>11, MovesTo DEF RejoinHost, RejoinSeat, LostSeat, Moves
  <2>2. \A d \in Conns : Onward(d)
    BY <1>f, <2>1 DEF SavePcs, FirstPcs
  <2>3. \A u \in Users : parts'[u].isHost = parts[u].isHost
    <3>1. CASE RejoinHost(c)
      <4> DEFINE h == First(parts, HostsIn(parts))
      <4>1. parts' = [parts EXCEPT ![h] = Stamped(@, "Connected")]
        BY <3>1 DEF RejoinHost
      <4> HIDE DEF h
      <4> QED
        BY <4>1 DEF TypeOK, Record, Stamped
    <3>2. CASE RejoinSeat(c)
      BY <1>0, <3>2 DEF RejoinSeat, TypeOK, Record, Stamped
    <3>3. CASE LostSeat(c)
      BY <1>0, <3>3 DEF LostSeat, TypeOK, Record, Stamped
    <3> QED
      BY <1>11, <3>1, <3>2, <3>3
  <2>4. UNCHANGED <<life, room, rows>>
    BY <1>11, <1>b DEF RejoinHost, RejoinSeat, LostSeat
  <2>5. Steady
    BY <1>a, <2>2, <2>3, <2>4 DEF Steady
  <2> QED
    BY <2>5, SteadyFrame
<1>12. CASE Presence(c)
  <2>1. \A u \in Users : parts'[u].isHost = parts[u].isHost
    BY <1>0, <1>12 DEF Presence, TypeOK, Record, Stamped
  <2>2. UNCHANGED <<life, room, rows, conn>>
    BY <1>12, <1>b DEF Presence, taskVars
  <2>3. Steady
    BY <1>a, <2>1, <2>2 DEF Steady, Onward
  <2> QED
    BY <2>3, SteadyFrame
<1>13. CASE Join(c)
  <2>1. /\ ~Locked /\ life = "Open" /\ UNCHANGED <<life, room, conn>> /\ ~Seated(parts[Owner[c]])
        /\ AddParticipant(Owner[c], FALSE, now) /\ parts' = [parts EXCEPT ![Owner[c]] = Seat(now, FALSE)]
    BY <1>13 DEF Join, taskVars
  <2>2. ~parts[Owner[c]].isHost
    BY <1>0, <2>1 DEF HostInv, HostsIn
  <2>3. \A u \in Users : parts'[u].isHost = parts[u].isHost
    BY <1>0, <2>1, <2>2 DEF TypeOK, Record, Seat
  <2>4. /\ \A v \in Users : rows'[v].isHost => rows[v].isHost
        /\ HostRows \ {Owner[c]} \subseteq HostRows'
    BY <1>0, <2>1, FreshRow
  <2>5. \A d \in Conns : conn[d].pc # "saveNewHost" /\ ~Creating(d)
    BY <1>d, <1>e, <2>1 DEF SavePcs
  <2>6. /\ HostRows' = {} <=> HostRows = {}
        /\ HostsIn(parts) \cap HostRows \subseteq HostRows'
    BY <1>0, <2>1, <2>2, <2>4, <2>5, OthersRow
  <2>7. Steady
    BY <2>1, <2>3, <2>4, <2>5, <2>6 DEF Steady, Onward, Creating
  <2> QED
    BY <2>7, SteadyFrame
<1>14. CASE Leave(c)
  BY <1>14, LeaveRestart DEF Leave
<1>15. CASE LostHost(c)
  <2>1. CASE life = "Open" /\ Seated(parts[Owner[c]])
    BY <1>15, <2>1, LeaveRestart DEF LostHost
  <2>2. CASE ~(life = "Open" /\ Seated(parts[Owner[c]]))
    <3>1. Moves(c, {"closed"}) /\ conn[c].pc = "lostHost" /\ UNCHANGED <<parts, life, room, rows>>
      BY <1>15, <1>b, <1>c, <2>2, MovesTo DEF LostHost
    <3>2. \A d \in Conns : Onward(d)
      BY <1>f, <3>1 DEF SavePcs, FirstPcs
    <3>3. Steady
      BY <1>a, <3>1, <3>2 DEF Steady
    <3> QED
      BY <3>3, SteadyFrame
  <2> QED
    BY <2>1, <2>2
<1>16. CASE Create(c)
  <2>1. Moves(c, {"createHost"}) /\ conn[c].pc = "up" /\ room.state = "none" /\ room'.state = "open"
        /\ UNCHANGED <<parts, life, rows>>
    BY <1>16, <1>c, MovesTo DEF Create
  <2>2. life = "Absent" /\ \A d \in Conns : conn[d].pc \in FirstPcs
    BY <2>1 DEF RowInv, RowFollowsRoom, RestartInv, TypeOK
  <2>3. \A d \in Conns : ~Creating(d)
    BY <2>1 DEF RowInv
  <2>4. /\ conn'[c].pc = "createHost"
        /\ \A d \in Conns : d # c => conn'[d].pc = conn[d].pc
    BY <2>1 DEF Moves
  <2>5. \A d \in Conns : conn'[d].pc \in FirstPcs /\ conn'[d].pc # "createMem"
    BY <2>2, <2>3, <2>4 DEF FirstPcs, Creating
  <2>6. \A d \in Conns : conn'[d].pc \notin SavePcs \cup {"rejoinDeadline", "rejoinHostRow"}
    BY <2>5 DEF FirstPcs, SavePcs
  <2>7. HostRows' = {} => \A u \in Users : ~rows'[u].isHost
    BY <1>a, <2>1 DEF RestartInv
  <2> QED
    BY <2>1, <2>2, <2>5, <2>6, <2>7 DEF RestartInv, SavePcs
<1>17. CASE CreateHostRow(c)
  <2>1. Moves(c, {"createMem"}) /\ conn[c].pc = "createHost" /\ UNCHANGED <<parts, life, room>>
        /\ AddParticipant(Owner[c], TRUE, now)
    BY <1>17, <1>c, MovesTo DEF CreateHostRow
  <2>2. HostRows' = HostRows \cup {Owner[c]}
    BY <1>0, <2>1, FreshRow
  <2>3. life = "Absent" /\ (\A d \in Conns : conn[d].pc \in FirstPcs) /\ \A d \in Conns : Creating(d) => d = c
    BY <2>1 DEF RowInv, RestartInv, Creating
  <2>4. /\ conn'[c].pc = "createMem"
        /\ \A d \in Conns : d # c => conn'[d].pc = conn[d].pc /\ conn'[d].pc # "createMem"
    BY <2>1, <2>3 DEF Moves, Creating
  <2>5. \A d \in Conns : conn'[d].pc \in FirstPcs
    BY <2>3, <2>4 DEF FirstPcs
  <2>6. \A d \in Conns : conn'[d].pc \notin SavePcs \cup {"rejoinDeadline", "rejoinHostRow"}
    BY <2>5 DEF FirstPcs, SavePcs
  <2> QED
    BY <2>1, <2>2, <2>3, <2>4, <2>5, <2>6 DEF RestartInv, SavePcs
<1>18. CASE CreateMem(c)
  <2>1. Moves(c, {"up"}) /\ conn[c].pc = "createMem" /\ UNCHANGED <<room, rows>> /\ life' = "Open"
    BY <1>18, <1>b, MovesTo DEF CreateMem
  <2>2. \A u \in Users : parts'[u].isHost = (u = Owner[c])
    BY <1>0, <1>18 DEF CreateMem, Seat, NoRecord
  <2>3. HostsIn(parts)' = {Owner[c]}
    BY <1>0, <2>2 DEF HostsIn
  <2>4. Owner[c] \in HostRows' /\ HostRows' = HostRows
    BY <1>a, <2>1 DEF RestartInv
  <2>5. (\A d \in Conns : conn[d].pc \in FirstPcs) /\ (\A d \in Conns : Creating(d) => d = c)
        /\ room.state = "open"
    BY <2>1 DEF RowInv, RestartInv, Creating
  <2>6. \A d \in Conns : conn'[d].pc \in FirstPcs /\ ~Creating(d)'
    BY <2>1, <2>5 DEF Moves, Creating, FirstPcs
  <2>7. \A d \in Conns : conn'[d].pc \notin SavePcs \cup {"createMem", "rejoinDeadline", "rejoinHostRow"}
    BY <2>6 DEF FirstPcs, SavePcs, Creating
  <2>8. HostRows' # {} /\ Covered'
    BY <2>3, <2>4 DEF Covered
  <2> QED
    BY <2>1, <2>5, <2>6, <2>7, <2>8 DEF RestartInv, SavePcs
<1>19. CASE Connect(c)
  <2>1. UNCHANGED <<parts, life, room, rows>> /\ ~Locked /\ conn[c].pc = "closed"
    BY <1>19, <1>b, <1>c DEF Connect
  <2>2. CASE HasSeat(Owner[c]) /\ IsHost(Owner[c]) /\ deadline # None
    <3>1. Moves(c, {"rejoinDeadline"}) /\ life # "Absent"
      BY <1>19, <2>2, MovesTo DEF Connect, HasSeat
    <3>2. HostsIn(parts) # {} /\ Owner[c] \in HostsIn(parts)
      BY <2>2, FirstIsMember DEF IsHost, TypeOK, HostsIn
    <3>3. Covered
      BY <1>d, <2>1, <3>1 DEF RestartInv, SavePcs
    <3>4. HostRows = {} => Owner[c] = room.host
      BY <3>2, <3>3 DEF Covered
    <3>5. HostsIn(parts)' = HostsIn(parts) /\ HostRows' = HostRows /\ Covered'
      BY <1>a, <2>1, <3>3 DEF HostsIn, Covered
    <3>6. room'.state # "none" /\ \A d \in Conns : ~Creating(d)
      BY <1>e, <2>1, <3>1 DEF RowInv, RowFollowsRoom, TypeOK
    <3>7. /\ conn'[c].pc = "rejoinDeadline"
          /\ \A d \in Conns : d # c => conn'[d].pc = conn[d].pc
      BY <3>1 DEF Moves
    <3>8. \A d \in Conns : conn'[d].pc \notin SavePcs \cup {"createMem"} /\ ~Creating(d)'
      BY <1>d, <2>1, <3>6, <3>7 DEF SavePcs, Creating
    <3>9. HostRows' = {} => (\A v \in Users : ~rows'[v].isHost) /\ \A d \in Conns :
              conn'[d].pc \in {"rejoinDeadline", "rejoinHostRow"} => Owner[d] = room'.host
      BY <2>1, <3>4, <3>5, <3>7 DEF RestartInv
    <3> QED
      BY <3>5, <3>6, <3>8, <3>9 DEF RestartInv, SavePcs
  <2>3. CASE ~(HasSeat(Owner[c]) /\ IsHost(Owner[c]) /\ deadline # None)
    <3>1. Moves(c, {"upgrade"}) \/ (Moves(c, {"rejoinRow"}) /\ life # "Absent")
      BY <1>19, <2>3, MovesTo DEF Connect, HasSeat
    <3>2. \A d \in Conns : Onward(d)
      BY <1>f, <2>1, <3>1 DEF SavePcs, FirstPcs
    <3>3. Steady
      BY <1>a, <2>1, <3>2 DEF Steady
    <3> QED
      BY <3>3, SteadyFrame
  <2> QED
    BY <2>2, <2>3
<1> QED
  BY <1>1, <1>2, <1>3, <1>4, <1>5, <1>6, <1>7, <1>8, <1>9, <1>10, <1>11, <1>12, <1>13, <1>14, <1>15,
     <1>16, <1>17, <1>18, <1>19
  DEF ConnStep, ClientStep

\* So does every step of the ticker, and a restart finds what was covered.
LEMMA RestartStep ==
    ASSUME Grace # 0, TypeOK, HostInv, RowInv, RestartInv, [Next]_vars
    PROVE  RestartInv'
<1>a. ASSUME rows' = rows
      PROVE  /\ HostRows' = HostRows /\ \A u \in Users : rows'[u].isHost => rows[u].isHost
  BY <1>a DEF HostRows, LiveRows
<1>b. UNCHANGED dbVars => rows' = rows /\ room' = room
  BY DEF dbVars
<1>c. UNCHANGED memVars => parts' = parts /\ life' = life
  BY DEF memVars
<1>1. ASSUME NEW c \in Conns, ConnStep(c) \/ ClientStep(c)
      PROVE  RestartInv'
  BY <1>1, ConnRestartStep
<1>2. CASE TickGrace
  <2>1. \A c \in Conns : conn[c].pc \notin SavePcs
    BY <1>2 DEF TickGrace, Locked
  <2>2. UNCHANGED <<parts, rows, room, conn>> /\ (life' # "Absent" => life # "Absent")
    BY <1>2, <1>b DEF TickGrace
  <2>3. Steady
    BY <1>a, <2>1, <2>2 DEF Steady, Onward
  <2> QED
    BY <2>3, SteadyFrame
<1>3. CASE TickEnd
  <2>1. UNCHANGED <<parts, life, rows, conn>> /\ room'.host = room.host /\ room'.state = "ended"
    BY <1>3, <1>c DEF TickEnd, EndRoomRow, TypeOK
  <2>2. Steady
    BY <1>a, <2>1 DEF Steady, Onward
  <2> QED
    BY <2>2, SteadyFrame
<1>4. CASE TickDrop
  <2>1. UNCHANGED <<parts, rows, room, conn>> /\ life' = "Absent" /\ life # "Open"
    BY <1>4, <1>b DEF TickDrop, RowInv, RowFollowsRoom
  <2>2. \A c \in Conns : conn[c].pc \notin SavePcs \ {"saveEnd"}
    BY <2>1 DEF RestartInv
  <2>3. Steady
    BY <1>a, <2>1, <2>2 DEF Steady, Onward
  <2> QED
    BY <2>3, SteadyFrame
<1>5. CASE TickPresence
  <2>1. \A u \in Users : parts'[u].isHost = parts[u].isHost
    BY <1>5 DEF TickPresence, TypeOK, Record
  <2>2. UNCHANGED <<life, rows, room, conn>>
    BY <1>5, <1>b DEF TickPresence
  <2>3. Steady
    BY <1>a, <2>1, <2>2 DEF Steady, Onward
  <2> QED
    BY <2>3, SteadyFrame
<1>6. CASE TickStale
  <2>1. \A u \in Users : parts'[u].isHost = parts[u].isHost
    BY <1>6 DEF TickStale, TypeOK, Record, Stale, NoRecord
  <2>2. UNCHANGED <<life, rows, room, conn>>
    BY <1>6, <1>b DEF TickStale
  <2>3. Steady
    BY <1>a, <2>1, <2>2 DEF Steady, Onward
  <2> QED
    BY <2>3, SteadyFrame
<1>7. CASE TickPurge
  <2>1. /\ \A u \in Users : rows'[u].isHost = rows[u].isHost /\ (rows[u].isHost => rows'[u] = rows[u])
        /\ UNCHANGED <<parts, life, room, conn>>
    BY <1>7, <1>c DEF TickPurge, TypeOK, Record, NoRecord
  <2>2. HostRows' = HostRows
    BY <2>1 DEF HostRows, LiveRows
  <2>3. Steady
    BY <2>1, <2>2 DEF Steady, Onward
  <2> QED
    BY <2>3, SteadyFrame
<1>8. CASE Restart
  <2>1. \A c \in Conns : conn'[c].pc = "closed"
    BY <1>8 DEF Restart, Closed
  <2>2. UNCHANGED <<room, rows>> /\ HostRows' = HostRows
    BY <1>8, <1>a, <1>b DEF Restart
  <2>3. life' # "Absent" => Covered'
    <3>1. SUFFICES ASSUME RehydrateOpen, NEW u \in Users, parts'[u].isHost
                   PROVE  u \in (IF HostRows = {} THEN {room.host} ELSE HostRows)
      BY <1>8, <2>2 DEF Restart, RehydrateNothing, Covered, HostsIn
    <3>2. Rehydrated(u).isHost => u \in HostRows
      BY DEF Rehydrated, HostRows, NoRecord
    <3> QED
      BY <3>1, <3>2 DEF RehydrateOpen
  <2>4. HostRows' = {} => \A u \in Users : ~rows'[u].isHost
    BY <2>2 DEF RestartInv
  <2> QED
    BY <2>1, <2>3, <2>4 DEF RestartInv, SavePcs, FirstPcs
<1>9. CASE Tick
  <2>1. UNCHANGED <<parts, life, rows, room, conn>>
    BY <1>9, <1>b, <1>c DEF Tick, taskVars
  <2>2. Steady
    BY <1>a, <2>1 DEF Steady, Onward
  <2> QED
    BY <2>2, SteadyFrame
<1>10. CASE UNCHANGED vars
  <2>1. UNCHANGED <<parts, life, rows, room, conn>>
    BY <1>10, <1>b, <1>c DEF vars, taskVars
  <2>2. Steady
    BY <1>a, <2>1 DEF Steady, Onward
  <2> QED
    BY <2>2, SteadyFrame
<1> QED
  BY <1>1, <1>2, <1>3, <1>4, <1>5, <1>6, <1>7, <1>8, <1>9, <1>10 DEF Next, TickerStep

-----------------------------------------------------------------------------
(* The theorems.                                                           *)

\* Types and hosts need each other: a host's rejoin writes the host's
\* joined_ms, and an election compares naturals.
LEMMA RoomInvariant == Spec => [](TypeOK /\ HostInv)
<1>1. Init => TypeOK /\ HostInv
  <2>1. Init => TypeOK
    BY ConstantsAssumption DEF Init, TypeOK, Record, Statuses, NoRecord, Closed,
       TickerIdle, ConnState, ConnPcs, None
  <2>2. Init => HostInv
    BY DEF Init, HostInv, OneHost, Closed, HostRejoinPcs
  <2> QED
    BY <2>1, <2>2
<1>2. TypeOK /\ HostInv => HostPresent
  BY DEF HostInv, HostPresent, HostRejoinPcs
<1>3. TypeOK /\ HostInv /\ [Next]_vars => TypeOK' /\ HostInv'
  BY <1>2, TypeStep, HostStep
<1> QED
  BY <1>1, <1>3, PTL DEF Spec

\* The room, its rows and its tasks always have the types of the code's
\* fields (registry.rs, state.rs, db.rs).
THEOREM TypeCorrect == Spec => []TypeOK
BY RoomInvariant, PTL

\* An open room has a seated host in every state, for any number of users,
\* connections per user and crashes (registry.rs, host.rs).
THEOREM HostAlwaysSeated == Spec => []OpenRoomHasHost
<1>1. TypeOK /\ HostInv => OpenRoomHasHost
  BY DEF HostInv, OpenRoomHasHost, HostsIn
<1> QED
  BY <1>1, RoomInvariant, PTL

\* Before the first restart the host is unique and host_user_id names it,
\* whatever rejoins, teardowns and elections overlap (host.rs).
THEOREM HostUnique == Spec => []OneHost
<1>1. TypeOK /\ HostInv => OneHost
  BY DEF HostInv
<1> QED
  BY <1>1, RoomInvariant, PTL

\* An open room has its host (host.rs elect_new_host, registry.rs leave_room).
THEOREM HostKept == Spec => []RoomHasItsHost
BY HostAlwaysSeated, HostUnique, PTL DEF RoomHasItsHost

\* The expect("host present") of rejoin_in_room never fires.
THEOREM HostPresentAtRejoin == Spec => []HostPresent
<1>1. TypeOK /\ HostInv => HostPresent
  BY DEF HostInv, HostPresent, HostRejoinPcs
<1> QED
  BY <1>1, RoomInvariant, PTL

LEMMA RowInvariant == Spec => []RowInv
<1>1. Init => RowInv
  BY DEF Init, RowInv, RowFollowsRoom, Creating, Closed, TickerIdle
<1>2. TypeOK /\ RowInv /\ [Next]_vars => RowInv'
  BY RowStep
<1> QED
  BY <1>1, <1>2, TypeCorrect, PTL DEF Spec

\* The rooms row is open while the room is, and a room that can no longer be
\* found is ended in the database or still being created: no order of the
\* two ways to end a room, and no crash between their steps, leaves a row a
\* restart would resurrect (registry.rs leave_room, tick_grace, rehydrate).
THEOREM RowAgreesWithRoom == Spec => []RowFollowsRoom
<1>1. RowInv => RowFollowsRoom
  BY DEF RowInv
<1> QED
  BY <1>1, RowInvariant, PTL

\* A crash at any step of any handler, between the writes of a handover too,
\* leaves rows from which the restart seats the present host, or the host who
\* is leaving when no write of the handover was made yet: for any number of
\* connections of a user, any crashes before, and any rejoin that overlaps a
\* handover (registry.rs leave_room, rejoin_in_room, rehydrate).  A grace of 0,
\* which config.rs:302 accepts, is excluded by hypothesis: there leave_room
\* elects at once and saves the deadline alone, and the claim is false.
THEOREM HostSurvivesRestart == ASSUME Grace # 0 PROVE Spec => []RestartKeepsHost
<1>1. Init => RestartInv
  BY DEF Init, RestartInv, Closed, SavePcs, FirstPcs, NoRecord, Creating
<1>2. TypeOK /\ HostInv /\ RowInv /\ RestartInv /\ [Next]_vars => RestartInv'
  BY RestartStep
<1>3. RestartInv => RestartKeepsHost
  BY DEF RestartInv, RestartKeepsHost, Covered, RestartHosts
<1> QED
  BY <1>1, <1>2, <1>3, RoomInvariant, RowInvariant, PTL DEF Spec
=============================================================================
