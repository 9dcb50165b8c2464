---------------------------- MODULE RoomRegistry ----------------------------
(***************************************************************************)
(* One room of the Locast server: its in-memory state behind the room's    *)
(* write lock (apps/server/src/rooms/registry.rs, state.rs, host.rs), the  *)
(* SQLite rows that mirror it (db.rs), the connection tasks that call it   *)
(* (ws/mod.rs) and the single ticker task (rooms/mod.rs).                  *)
(*                                                                         *)
(* A handler is one action when it holds the room lock from its first read *)
(* to its last write.  Where it releases the lock, or writes the database  *)
(* after changing memory, it is cut at that point: the connection's pc is  *)
(* the place it has reached, so other tasks and a crash can come between.  *)
(* A connection's handler reads the clock once, when it starts; here each  *)
(* of its steps does: one unit of `now' is longer than a handler runs.     *)
(***************************************************************************)
EXTENDS Integers, FiniteSets

CONSTANTS
    Users,            \* user ids; UUIDs are compared bytewise, so numbers
    Conns,            \* WebSocket connection slots
    Owner,            \* the identity each slot authenticates as
    Creators,         \* bound: the slots that may create the room
    NoConn,           \* an empty relay slot
    Migrations,       \* the host_migration_enabled values a creator may ask for
    MaxParticipants,  \* RoomRegistryConfig::max_participants
    Grace,            \* host_disconnect_grace_ms
    DisconnectAfter,  \* participant_disconnect_after_ms
    StaleAfter,       \* participant_stale_after_ms
    MaxTime,          \* bound: the clock stops here
    MaxRestarts       \* bound: server crashes in one behaviour

ASSUME ConstantsAssumption ==
    /\ Users \subseteq Nat
    /\ Owner \in [Conns -> Users]
    /\ Creators \subseteq Conns
    /\ NoConn \notin Conns
    /\ Migrations \subseteq BOOLEAN
    /\ MaxParticipants \in Nat \ {0}
    /\ {Grace, DisconnectAfter, StaleAfter, MaxTime, MaxRestarts} \subseteq Nat

VARIABLES
    now,         \* the AppState clock
    life,        \* "Absent": not in by_id; Open/Playing/Paused are "Open"
    hostUserId,  \* RoomState::host_user_id
    deadline,    \* RoomState::host_disconnect_deadline_ms
    parts,       \* RoomState::participants, by user
    room,        \* the rooms row (migration never changes: also RoomState's)
    rows,        \* the room_participants rows, by user
    conn,        \* the connection tasks
    relay,       \* SignalRelay: the connection registered for each user
    ticker,      \* the room ticker task
    restarts     \* crashes so far

memVars  == <<life, hostUserId, deadline, parts>>
dbVars   == <<room, rows>>
taskVars == <<conn, relay, ticker>>
vars     == <<now, memVars, dbVars, taskVars, restarts>>

None == -1

Statuses == {"Absent", "Connected", "Reconnecting", "Disconnected", "Left"}

\* A participant record, and a row: "Absent" stands for no record, no row.
Record == [status : Statuses, joined : Nat, seen : Nat, isHost : BOOLEAN]
NoRecord == [status |-> "Absent", joined |-> 0, seen |-> 0, isHost |-> FALSE]

\* A fresh seat, and a record whose status changes now.
Seat(joined, isHost) == [status |-> "Connected", joined |-> joined,
                         seen |-> joined, isHost |-> isHost]
Stamped(p, status) == [p EXCEPT !.status = status, !.seen = now]

\* Where a connection task can be.  The pcs of SavePcs are the database
\* writes that leave_room makes while it still holds the room write lock.
SavePcs == {"saveEnd", "saveDeadline", "saveLeft",
            "saveNewHost", "saveOldHost", "saveOldLeft"}
RejoinPcs == {"rejoinDeadline", "rejoinHostRow", "rejoinHost",
              "rejoinRow", "rejoinSeat", "upgrade"}
LostPcs == {"lost", "lostRow", "lostSeat", "lostHost"}
ConnPcs == {"closed", "up", "createHost", "createMem", "drop"}
             \cup SavePcs \cup RejoinPcs \cup LostPcs
ConnState == [pc : ConnPcs, lost : BOOLEAN]

Closed == [pc |-> "closed", lost |-> FALSE]
TickerIdle == [pc |-> "grace", at |-> 0]
Up == [pc |-> "up", lost |-> FALSE]

TypeOK ==
    /\ now \in Nat
    /\ life \in {"Absent", "Open", "Ended"}
    /\ hostUserId \in Users \cup {None}
    /\ deadline \in Nat \cup {None}
    /\ parts \in [Users -> Record]
    /\ room \in [state : {"none", "open", "ended"}, host : Users \cup {None},
                 deadline : Nat \cup {None}, created : Nat,
                 migration : BOOLEAN]
    /\ rows \in [Users -> Record]
    /\ conn \in [Conns -> ConnState]
    /\ relay \in [Users -> Conns \cup {NoConn}]
    /\ ticker \in [pc : {"grace", "end", "drop", "presence", "stale", "purge"},
                   at : Nat]
    /\ restarts \in Nat

-----------------------------------------------------------------------------
(* The room as the handlers read it.                                       *)

\* Some task holds the room's write lock across an await.
Locked == \E c \in Conns : conn[c].pc \in SavePcs

Seated(p) == p.status \notin {"Absent", "Left"}

\* rooms_of_user finds the room: it is in by_id with a live record of u.
HasSeat(u) == life # "Absent" /\ Seated(parts[u])

\* joined_ms, then user id: the election order and the row order.
Before(p, u, v) ==
    \/ p[u].joined < p[v].joined
    \/ p[u].joined = p[v].joined /\ u <= v

First(p, S) == CHOOSE u \in S : \A v \in S : Before(p, u, v)

\* RoomState::host(): the first record with is_host set.
HostsIn(p) == {u \in Users : p[u].isHost}
IsHost(u) == HostsIn(parts) # {} /\ First(parts, HostsIn(parts)) = u

\* host::elect_new_host: candidates, and the records after the election.
Candidates(p) ==
    {u \in Users : ~p[u].isHost /\ p[u].status \in {"Connected", "Reconnecting"}}

\* Mutant: the winner is promoted and the old host is not demoted.
ElectedWithoutDemotion(p) ==
    IF Candidates(p) = {} THEN p
    ELSE [p EXCEPT ![First(p, Candidates(p))].isHost = TRUE]

Elected(p) ==
    LET winner == First(p, Candidates(p))
    IN  IF Candidates(p) = {} THEN p
        ELSE [u \in Users |-> [p[u] EXCEPT !.isHost = (u = winner)]]

ElectedId(p) == IF Candidates(p) = {} THEN hostUserId
                ELSE First(p, Candidates(p))

-----------------------------------------------------------------------------
(* The database statements (db.rs).                                        *)

\* Mutant: the upsert keeps is_host of a row that exists.
AddParticipantKeepingFlag(u, isHost, joined) ==
    rows' = [rows EXCEPT ![u] =
               Seat(joined, IF @.status = "Absent" THEN isHost ELSE @.isHost)]

AddParticipant(u, isHost, joined) ==
    rows' = [rows EXCEPT ![u] = Seat(joined, isHost)]

UpdateStatus(u, status) ==
    rows' = [rows EXCEPT ![u] = IF @.status = "Absent" THEN @
                                ELSE Stamped(@, status)]

\* Mutant: end_room is not called.
EndRoomRowForgotten == UNCHANGED room

EndRoomRow == room' = [room EXCEPT !.state = "ended"]

\* A task's next place.
Goto(c, pc) == conn' = [conn EXCEPT ![c] = [@ EXCEPT !.pc = pc]]

\* leave_room has changed memory and goes on to its database writes.
Save(c, pc, lost) == conn' = [conn EXCEPT ![c] = [pc |-> pc, lost |-> lost]]

\* The end of leave_room: back to the read loop, or out of the teardown.
Resume(c) == conn' = [conn EXCEPT ![c] = IF @.lost THEN Closed ELSE Up]

-----------------------------------------------------------------------------
(* ROOM_CREATE: the rooms row, the host's row, then memory.                *)

Create(c) ==
    /\ c \in Creators
    /\ conn[c].pc = "up"
    /\ room.state = "none"
    /\ \E m \in Migrations :
         room' = [state |-> "open", host |-> Owner[c], deadline |-> None,
                  created |-> now, migration |-> m]
    /\ Goto(c, "createHost")
    /\ UNCHANGED <<now, memVars, rows, relay, ticker, restarts>>

CreateHostRow(c) ==
    /\ conn[c].pc = "createHost"
    /\ AddParticipant(Owner[c], TRUE, now)
    /\ Goto(c, "createMem")
    /\ UNCHANGED <<now, memVars, room, relay, ticker, restarts>>

CreateMem(c) ==
    /\ conn[c].pc = "createMem"
    /\ life' = "Open"
    /\ hostUserId' = Owner[c]
    /\ deadline' = None
    /\ parts' = [u \in Users |-> IF u = Owner[c] THEN Seat(now, TRUE) ELSE NoRecord]
    /\ conn' = [conn EXCEPT ![c] = Up]
    /\ UNCHANGED <<now, dbVars, relay, ticker, restarts>>

\* ROOM_JOIN_REQUEST: row and record under one hold of the lock.
Join(c) ==
    LET u == Owner[c] IN
    /\ conn[c].pc = "up"
    /\ ~Locked
    /\ life = "Open"
    /\ ~Seated(parts[u])
    /\ Cardinality({v \in Users : Seated(parts[v])}) < MaxParticipants
    /\ AddParticipant(u, FALSE, now)
    /\ parts' = [parts EXCEPT ![u] = Seat(now, FALSE)]
    /\ UNCHANGED <<now, life, hostUserId, deadline, room, taskVars, restarts>>

\* The host is not revived by a message: it must go through rejoin.
Revived(p) == IF ~p.isHost /\ p.status = "Disconnected" THEN "Connected"
              ELSE p.status

\* PRESENCE: caps::check_capability, then RoomRegistry::touch.
Presence(c) ==
    LET u == Owner[c] IN
    /\ conn[c].pc = "up"
    /\ ~Locked
    /\ life = "Open"
    /\ Seated(parts[u])
    /\ parts' = [parts EXCEPT ![u] = Stamped(@, Revived(@))]
    /\ UNCHANGED <<now, life, hostUserId, deadline, dbVars, taskVars, restarts>>

-----------------------------------------------------------------------------
(* leave_room: memory first, then the database, under one hold of the      *)
(* lock.  `lost' is ~intentional.                                           *)

LeaveAsViewer(c, u, lost) ==
    /\ ~parts[u].isHost
    /\ parts' = [parts EXCEPT ![u] = Stamped(@, "Left")]
    /\ Save(c, "saveLeft", lost)
    /\ UNCHANGED <<life, hostUserId, deadline>>

LeaveEndsRoom(c, u, lost) ==
    LET left == [parts EXCEPT ![u] = Stamped(@, "Left")] IN
    /\ parts[u].isHost
    /\ ~room.migration \/ (~lost /\ Candidates(left) = {})
    /\ parts' = left
    /\ life' = "Ended"
    /\ Save(c, "saveEnd", lost)
    /\ UNCHANGED <<hostUserId, deadline>>

LeaveMigrates(c, u, lost) ==
    LET left == [parts EXCEPT ![u] = Stamped(@, "Left")] IN
    /\ parts[u].isHost
    /\ room.migration
    /\ ~lost
    /\ Candidates(left) # {}
    /\ parts' = Elected(left)
    /\ hostUserId' = ElectedId(left)
    /\ Save(c, "saveNewHost", lost)
    /\ UNCHANGED <<life, deadline>>

LeaveStartsGrace(c, u, lost) ==
    LET away == [parts EXCEPT ![u] = Stamped(@, "Reconnecting")] IN
    /\ parts[u].isHost
    /\ room.migration
    /\ lost
    /\ deadline' = now + Grace
    /\ parts' = IF Grace = 0 THEN Elected(away) ELSE away
    /\ hostUserId' = IF Grace = 0 THEN ElectedId(away) ELSE hostUserId
    /\ Save(c, "saveDeadline", lost)
    /\ UNCHANGED life

LeaveRoom(c, u, lost) ==
    /\ ~Locked
    /\ life = "Open"
    /\ Seated(parts[u])
    /\ \/ LeaveAsViewer(c, u, lost)
       \/ LeaveEndsRoom(c, u, lost)
       \/ LeaveMigrates(c, u, lost)
       \/ LeaveStartsGrace(c, u, lost)

\* ROOM_LEAVE from a connected client.
Leave(c) ==
    /\ conn[c].pc = "up"
    /\ LeaveRoom(c, Owner[c], FALSE)
    /\ UNCHANGED <<now, dbVars, relay, ticker, restarts>>

SaveEnd(c) ==
    /\ conn[c].pc = "saveEnd"
    /\ EndRoomRow
    /\ Goto(c, "drop")
    /\ UNCHANGED <<now, memVars, rows, relay, ticker, restarts>>

SaveDeadline(c) ==
    /\ conn[c].pc = "saveDeadline"
    /\ room' = [room EXCEPT !.deadline = deadline]
    /\ Resume(c)
    /\ UNCHANGED <<now, memVars, rows, relay, ticker, restarts>>

SaveLeft(c) ==
    /\ conn[c].pc = "saveLeft"
    /\ UpdateStatus(Owner[c], "Left")
    /\ Resume(c)
    /\ UNCHANGED <<now, memVars, room, relay, ticker, restarts>>

\* The handover: the new host's row, the old host's row demoted (the upsert
\* marks it connected), then the old host's row closed.
SaveNewHost(c) ==
    LET h == First(parts, HostsIn(parts)) IN
    /\ conn[c].pc = "saveNewHost"
    /\ AddParticipant(h, TRUE, parts[h].joined)
    /\ Goto(c, "saveOldHost")
    /\ UNCHANGED <<now, memVars, room, relay, ticker, restarts>>

SaveOldHost(c) ==
    /\ conn[c].pc = "saveOldHost"
    /\ AddParticipant(Owner[c], FALSE, parts[Owner[c]].joined)
    /\ Goto(c, "saveOldLeft")
    /\ UNCHANGED <<now, memVars, room, relay, ticker, restarts>>

SaveOldLeft(c) ==
    /\ conn[c].pc = "saveOldLeft"
    /\ UpdateStatus(Owner[c], "Left")
    /\ Resume(c)
    /\ UNCHANGED <<now, memVars, room, relay, ticker, restarts>>

\* remove_room, after ROOM_CLOSED was published and the lock released.
DropRoom(c) ==
    /\ conn[c].pc = "drop"
    /\ life' = "Absent"
    /\ Resume(c)
    /\ UNCHANGED <<now, hostUserId, deadline, parts, dbVars, relay, ticker, restarts>>

-----------------------------------------------------------------------------
(* A new transport: handle_auth calls rejoin, then Upgrade registers it.   *)

Connect(c) ==
    LET u == Owner[c] IN
    /\ conn[c].pc = "closed"
    /\ ~Locked
    /\ life # "Absent" \/ room.state # "ended"   \* bound: the room is over
    /\ Goto(c, IF ~HasSeat(u) THEN "upgrade"
               ELSE IF IsHost(u) /\ deadline # None THEN "rejoinDeadline"
               ELSE "rejoinRow")
    /\ UNCHANGED <<now, memVars, dbVars, relay, ticker, restarts>>

RejoinDeadline(c) ==
    /\ conn[c].pc = "rejoinDeadline"
    /\ room' = [room EXCEPT !.deadline = None]
    /\ Goto(c, "rejoinHostRow")
    /\ UNCHANGED <<now, memVars, rows, relay, ticker, restarts>>

\* The row is written for the caller with the current host's joined_ms.
RejoinHostRow(c) ==
    LET h == First(parts, HostsIn(parts)) IN
    /\ conn[c].pc = "rejoinHostRow"
    /\ ~Locked
    /\ AddParticipant(Owner[c], TRUE, parts[h].joined)
    /\ Goto(c, "rejoinHost")
    /\ UNCHANGED <<now, memVars, room, relay, ticker, restarts>>

RejoinHost(c) ==
    LET h == First(parts, HostsIn(parts)) IN
    /\ conn[c].pc = "rejoinHost"
    /\ ~Locked
    /\ deadline' = None
    /\ parts' = [parts EXCEPT ![h] = Stamped(@, "Connected")]
    /\ Goto(c, "upgrade")
    /\ UNCHANGED <<now, life, hostUserId, dbVars, relay, ticker, restarts>>

RejoinRow(c) ==
    /\ conn[c].pc = "rejoinRow"
    /\ UpdateStatus(Owner[c], "Connected")
    /\ Goto(c, "rejoinSeat")
    /\ UNCHANGED <<now, memVars, room, relay, ticker, restarts>>

\* The record is found by user id alone: a Left record matches too.
RejoinSeat(c) ==
    LET u == Owner[c] IN
    /\ conn[c].pc = "rejoinSeat"
    /\ ~Locked
    /\ parts' = [parts EXCEPT ![u] =
                   IF @.status = "Absent" THEN @ ELSE Stamped(@, "Connected")]
    /\ Goto(c, "upgrade")
    /\ UNCHANGED <<now, life, hostUserId, deadline, dbVars, relay, ticker, restarts>>

Upgrade(c) ==
    /\ conn[c].pc = "upgrade"
    /\ relay' = [relay EXCEPT ![Owner[c]] = c]
    /\ conn' = [conn EXCEPT ![c] = Up]
    /\ UNCHANGED <<now, memVars, dbVars, ticker, restarts>>

-----------------------------------------------------------------------------
(* The transport closes: teardown, then on_connection_lost.                *)

\* Only the connection that owns the relay slot reports the user as gone.
Close(c) ==
    LET u == Owner[c] IN
    /\ conn[c].pc = "up"
    /\ IF relay[u] = c
       THEN /\ relay' = [relay EXCEPT ![u] = NoConn]
            /\ conn' = [conn EXCEPT ![c] = [pc |-> "lost", lost |-> TRUE]]
       ELSE /\ conn' = [conn EXCEPT ![c] = Closed]
            /\ UNCHANGED relay
    /\ UNCHANGED <<now, memVars, dbVars, ticker, restarts>>

ConnectionLost(c) ==
    LET u == Owner[c] IN
    /\ conn[c].pc = "lost"
    /\ ~Locked
    /\ conn' = [conn EXCEPT ![c] = IF ~HasSeat(u) THEN Closed
                                   ELSE [@ EXCEPT !.pc = IF IsHost(u) THEN "lostHost"
                                                         ELSE "lostRow"]]
    /\ UNCHANGED <<now, memVars, dbVars, relay, ticker, restarts>>

LostRow(c) ==
    /\ conn[c].pc = "lostRow"
    /\ UpdateStatus(Owner[c], "Disconnected")
    /\ Goto(c, "lostSeat")
    /\ UNCHANGED <<now, memVars, room, relay, ticker, restarts>>

LostSeat(c) ==
    LET u == Owner[c] IN
    /\ conn[c].pc = "lostSeat"
    /\ ~Locked
    /\ parts' = [parts EXCEPT ![u] =
                   IF @.status = "Absent" \/ life # "Open" THEN @
                   ELSE Stamped(@, "Disconnected")]
    /\ conn' = [conn EXCEPT ![c] = Closed]
    /\ UNCHANGED <<now, life, hostUserId, deadline, dbVars, relay, ticker, restarts>>

\* leave_room(intentional = false); NotJoined when the seat is gone by now.
LostHost(c) ==
    LET u == Owner[c] IN
    /\ conn[c].pc = "lostHost"
    /\ ~Locked
    /\ IF life = "Open" /\ Seated(parts[u])
       THEN LeaveRoom(c, u, TRUE)
       ELSE /\ conn' = [conn EXCEPT ![c] = Closed]
            /\ UNCHANGED memVars
    /\ UNCHANGED <<now, dbVars, relay, ticker, restarts>>

-----------------------------------------------------------------------------
(* run_tick: tick_grace, tick_presence_timeout, tick_stale_participants,   *)
(* one after the other, all with the now_ms read at the start.             *)

\* Mutant: a room with someone to elect is left to wait.
TickGraceWaits ==
    LET due == /\ life # "Absent" /\ deadline # None /\ now >= deadline
               /\ Candidates(parts) = {}
    IN
    /\ ticker.pc = "grace"
    /\ ~Locked
    /\ life' = IF due THEN "Ended" ELSE life
    /\ ticker' = [pc |-> IF due THEN "end" ELSE "presence", at |-> now]
    /\ UNCHANGED <<now, hostUserId, deadline, parts, dbVars, conn, relay, restarts>>

\* process_room_grace: v1 never migrates here; an elapsed deadline ends it.
TickGrace ==
    LET due == life # "Absent" /\ deadline # None /\ now >= deadline IN
    /\ ticker.pc = "grace"
    /\ ~Locked
    /\ life' = IF due THEN "Ended" ELSE life
    /\ ticker' = [pc |-> IF due THEN "end" ELSE "presence", at |-> now]
    /\ UNCHANGED <<now, hostUserId, deadline, parts, dbVars, conn, relay, restarts>>

TickEnd ==
    /\ ticker.pc = "end"
    /\ EndRoomRow
    /\ ticker' = [ticker EXCEPT !.pc = "drop"]
    /\ UNCHANGED <<now, memVars, rows, conn, relay, restarts>>

TickDrop ==
    /\ ticker.pc = "drop"
    /\ life' = "Absent"
    /\ ticker' = [ticker EXCEPT !.pc = "presence"]
    /\ UNCHANGED <<now, hostUserId, deadline, parts, dbVars, conn, relay, restarts>>

TimedOut(p) ==
    /\ ~p.isHost
    /\ p.status = "Connected"
    /\ ticker.at - p.seen >= DisconnectAfter

TickPresence ==
    /\ ticker.pc = "presence"
    /\ ~Locked
    /\ parts' = IF life # "Open" THEN parts
                ELSE [u \in Users |-> IF TimedOut(parts[u])
                                      THEN [parts[u] EXCEPT !.status = "Disconnected"]
                                      ELSE parts[u]]
    /\ ticker' = [ticker EXCEPT !.pc = "stale"]
    /\ UNCHANGED <<now, life, hostUserId, deadline, dbVars, conn, relay, restarts>>

\* Mutant: the sweep does not spare the host.
StaleEvenHost(p) ==
    /\ p.status # "Absent"
    /\ ticker.at - p.seen >= StaleAfter

Stale(p) ==
    /\ ~p.isHost
    /\ p.status # "Absent"
    /\ ticker.at - p.seen >= StaleAfter

\* Left records are forgotten silently; a seated one removed means a purge.
TickStale ==
    LET sweep == life = "Open" /\ deadline = None
        gone  == {u \in Users : sweep /\ Stale(parts[u])}
    IN
    /\ ticker.pc = "stale"
    /\ ~Locked
    /\ parts' = [u \in Users |-> IF u \in gone THEN NoRecord ELSE parts[u]]
    /\ ticker' = IF \E u \in gone : Seated(parts[u])
                 THEN [ticker EXCEPT !.pc = "purge"] ELSE TickerIdle
    /\ UNCHANGED <<now, life, hostUserId, deadline, dbVars, conn, relay, restarts>>

\* purge_stale_participants: by the rows' last_seen_ms, for the whole room.
TickPurge ==
    /\ ticker.pc = "purge"
    /\ rows' = [u \in Users |->
                  IF /\ ~rows[u].isHost
                     /\ rows[u].status # "Left"
                     /\ rows[u].seen < ticker.at - StaleAfter
                  THEN NoRecord ELSE rows[u]]
    /\ ticker' = TickerIdle
    /\ UNCHANGED <<now, memVars, room, conn, relay, restarts>>

-----------------------------------------------------------------------------
(* The server process dies and comes back: rehydrate_rooms.                *)

LiveRows == {u \in Users : rows[u].status \notin {"Absent", "Left"}}
HostRows == {u \in LiveRows : rows[u].isHost}

HostStatus == IF room.deadline # None THEN "Reconnecting" ELSE "Connected"

\* last_seen_ms is not reloaded: it restarts at joined_ms.
Rehydrated(u) ==
    IF u \in LiveRows
    THEN [status |-> IF rows[u].isHost THEN HostStatus ELSE "Disconnected",
          joined |-> rows[u].joined, seen |-> rows[u].joined,
          isHost |-> rows[u].isHost]
    ELSE NoRecord

\* No host row (a crash inside create): one is made up from the rooms row.
SyntheticHost == [status |-> HostStatus, joined |-> room.created,
                  seen |-> room.created, isHost |-> TRUE]

RehydrateOpen ==
    /\ room.state = "open"
    /\ life' = "Open"
    /\ hostUserId' = room.host
    /\ deadline' = room.deadline
    /\ parts' = [u \in Users |->
                   IF HostRows = {} /\ u = room.host THEN SyntheticHost
                   ELSE Rehydrated(u)]

\* Ended rooms are not read back.
RehydrateNothing ==
    /\ room.state # "open"
    /\ life' = "Absent"
    /\ hostUserId' = None
    /\ deadline' = None
    /\ parts' = [u \in Users |-> NoRecord]

Restart ==
    /\ restarts < MaxRestarts
    /\ restarts' = restarts + 1
    /\ RehydrateOpen \/ RehydrateNothing
    /\ conn' = [c \in Conns |-> Closed]
    /\ relay' = [u \in Users |-> NoConn]
    /\ ticker' = TickerIdle
    /\ UNCHANGED <<now, dbVars>>

Tick ==
    /\ now < MaxTime
    /\ now' = now + 1
    /\ UNCHANGED <<memVars, dbVars, taskVars, restarts>>

-----------------------------------------------------------------------------

\* No room anywhere, no connection, nothing in the database.
Init ==
    /\ now = 0
    /\ life = "Absent"
    /\ hostUserId = None
    /\ deadline = None
    /\ room = [state |-> "none", host |-> None, deadline |-> None,
               created |-> 0, migration |-> FALSE]
    /\ parts = [u \in Users |-> NoRecord]
    /\ rows = [u \in Users |-> NoRecord]
    /\ conn = [c \in Conns |-> Closed]
    /\ relay = [u \in Users |-> NoConn]
    /\ ticker = TickerIdle
    /\ restarts = 0

ConnStep(c) ==
    \/ CreateHostRow(c) \/ CreateMem(c)
    \/ SaveEnd(c) \/ SaveDeadline(c) \/ SaveLeft(c)
    \/ SaveNewHost(c) \/ SaveOldHost(c) \/ SaveOldLeft(c) \/ DropRoom(c)
    \/ RejoinDeadline(c) \/ RejoinHostRow(c) \/ RejoinHost(c)
    \/ RejoinRow(c) \/ RejoinSeat(c) \/ Upgrade(c)
    \/ ConnectionLost(c) \/ LostRow(c) \/ LostSeat(c) \/ LostHost(c)

ClientStep(c) ==
    Create(c) \/ Join(c) \/ Presence(c) \/ Leave(c) \/ Connect(c) \/ Close(c)

TickerStep ==
    \/ TickGrace \/ TickEnd \/ TickDrop
    \/ TickPresence \/ TickStale \/ TickPurge

Next ==
    \/ \E c \in Conns : ConnStep(c) \/ ClientStep(c)
    \/ TickerStep
    \/ Restart
    \/ Tick

\* Server tasks run, the ticker loops forever, and the room lock is handed
\* on in the order it was asked for (tokio::sync::RwLock is fair), so a task
\* that waits for it gets it.  Time passes.  Clients and crashes owe nothing.
Fairness ==
    /\ \A c \in Conns : SF_vars(ConnStep(c))
    /\ SF_vars(TickerStep)
    /\ WF_vars(Tick)

Spec == Init /\ [][Next]_vars /\ Fairness

-----------------------------------------------------------------------------
(* Properties.                                                             *)

\* An open room always has a host who has not left: through joins, leaves,
\* elections, sweeps, a crash inside any handler and a restart
\* (registry.rs create, leave_room, tick_stale_participants, rehydrate).
OpenRoomHasHost ==
    life = "Open" => \E u \in Users : parts[u].isHost /\ Seated(parts[u])

\* Until the server restarts, exactly one record of an open room is the
\* host's and host_user_id names it: an election never leaves two hosts and
\* no late rejoin or teardown hands the flag back (host.rs elect_new_host).
OneHost ==
    restarts = 0 /\ life = "Open" => HostsIn(parts) = {hostUserId}

\* Both together: a room has its host, one until a restart and seated always.
RoomHasItsHost == OneHost /\ OpenRoomHasHost

\* rejoin_in_room reads the host a second time, after a database write, and
\* expects one ("host present"): the room cannot lose its host record while
\* a host's rejoin is on its way, not even by being closed and dropped.
HostPresent ==
    \A c \in Conns : conn[c].pc = "rejoinHostRow" => HostsIn(parts) # {}

\* Whom a restart now would make host.
RestartHosts == IF HostRows = {} THEN {room.host} ELSE HostRows

\* A crash at any step of any handler, a half persisted leave included, would
\* bring the room back with its current host among the hosts; or, before the
\* first write of a handover has reached the rows, with the host who is just
\* leaving: no order of the writes loses both (registry.rs leave_room,
\* rejoin_in_room, rehydrate).
RestartKeepsHost ==
    life = "Open" =>
        \/ HostsIn(parts) \subseteq RestartHosts
        \/ \E c \in Conns : conn[c].pc = "saveNewHost" /\ Owner[c] \in RestartHosts

\* The rooms row is open exactly while the room can be found: a room that
\* was dropped from memory is ended in the database, so a restart cannot
\* resurrect it, and an ended row is never served (registry.rs leave_room,
\* tick_grace, remove_room).
RowFollowsRoom ==
    /\ life = "Open" => room.state = "open"
    /\ life = "Absent" /\ room.state = "open" =>
           \E c \in Conns : conn[c].pc \in {"createHost", "createMem"}

\* Once the host is gone for good the room is not kept waiting: a grace
\* period ends in a reconnect or in the room's end (mod.rs run_tick).  The
\* bound on the clock limits the claim to deadlines the clock reaches.
GraceResolves ==
    (life = "Open" /\ deadline # None /\ deadline <= MaxTime)
        ~> (life # "Open" \/ deadline = None \/ deadline > MaxTime)

=============================================================================
