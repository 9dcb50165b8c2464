----------------------------- MODULE ClientRoom -----------------------------
(***************************************************************************)
(* One client's membership: RoomClient (net/room.rs) with its cached room,  *)
(* rejoin credentials, waiters and the envelopes it keeps while the link is *)
(* down, against the seats the server holds for the user and the room its   *)
(* connection follows (rooms/dispatch.rs, rooms/registry.rs, ws/mod.rs).    *)
(*                                                                         *)
(* Commands and the reconnect hook are tasks that wait for a reply while    *)
(* the inbound loop goes on. A reply resolves the first waiter of its kind; *)
(* a ROOM_ERROR any waiter. The user's commands come one at a time; hooks   *)
(* overlap them.                                                            *)
(***************************************************************************)
EXTENDS Integers, Sequences, FiniteSets, SequencesExt

CONSTANTS
    Joinable,    \* rooms of other people
    Own,         \* rooms this user may create
    MaxOps,      \* bound on user commands
    MaxTrouble   \* bound on drops, failed dials, ended rooms, timeouts

None == "none"

ASSUME ClientRoomAssumption ==
    /\ Joinable \cap Own = {} /\ None \notin Joinable \cup Own
    /\ MaxOps \in Nat /\ MaxTrouble \in Nat

Rooms == Joinable \cup Own

VARIABLES
    link,        \* "on"; "lost": down, bearer held; "out": down, no bearer
    up, down,    \* envelopes under way
    life,        \* per room: "unborn", "open" or "ended"
    seat,        \* per room, the user's record: "none", "on", "off" or "left"
    order,       \* the order in which the registry's map yields the rooms
    sub,         \* the room the connection's forwarder is subscribed to
    room,        \* RoomClient.state: the cached room
    creds,       \* active_room_code
    presence,    \* the presence loop runs
    buf,         \* pending_outbound
    pendLeave,   \* pending_leave: a set with at most one envelope
    tasks,       \* commands and hooks waiting for, or holding, a reply
    hooks,       \* reconnect hooks spawned and not yet run
    ops, trouble,
    left,        \* history: the room given up by the last command, unless hasty
    torn,        \* history: a fault met a command under way
    hasty,       \* history: a command came before the last fault was over
    starved      \* history: a record was removed that the client cannot win back

server == <<life, seat, sub, order>>
wires  == <<link, up, down>>
mine   == <<room, creds, presence, buf, pendLeave, tasks, hooks>>
hist   == <<ops, trouble, left, torn, hasty, starved>>
vars   == <<server, wires, mine, hist>>

Msg(k, r) == [k |-> k, r |-> r]

Init ==
    /\ link = "on" /\ up = <<>> /\ down = <<>>
    /\ life = [r \in Rooms |-> IF r \in Own THEN "unborn" ELSE "open"]
    /\ order \in {f \in [Rooms -> 1..Cardinality(Rooms)] : IsInjective(f)}
    /\ seat = [r \in Rooms |-> "none"] /\ sub = None
    /\ room = None /\ creds = None /\ presence = FALSE
    /\ buf = <<>> /\ pendLeave = {} /\ tasks = <<>> /\ hooks = 0
    /\ ops = 0 /\ trouble = 0 /\ left = {} /\ torn = FALSE /\ hasty = FALSE /\ starved = FALSE

\* A command of the user waits for its answer, or its ROOM_LEAVE is under way.
Commanding ==
    \/ \E i \in DOMAIN tasks : tasks[i].kind \in {"join", "create"}
    \/ \E i \in DOMAIN up : up[i].k = "leave"
    \/ pendLeave # {}

Fault(meets) ==
    /\ trouble < MaxTrouble /\ trouble' = trouble + 1
    /\ torn' = (torn \/ meets)

-----------------------------------------------------------------------------
(* The server                                                              *)

\* sync_room_subscription: sticky while seated, else any room of the user.
Follows(s, alive) ==
    LET live == {r \in Rooms : s[r] = "on" /\ alive[r] = "open"}
    IN  IF sub \in live \/ live = {} THEN {IF sub \in live THEN sub ELSE None} ELSE live

\* The room ROOM_LEAVE means: the one it names, or any the user holds.
Leaving(m) == {r \in Rooms : seat[r] \in {"on", "off"} /\ life[r] = "open" /\ m.r \in {r, None}}

Reply(m) == down' = Append(down, m) /\ UNCHANGED server

\* handle_room_join_request
SrvJoin(m) ==
    IF life[m.r] # "open" THEN Reply(Msg("error", "RoomNotFound"))
    ELSE IF seat[m.r] \in {"on", "off"} THEN Reply(Msg("error", "AlreadyJoined"))
    ELSE /\ seat' = [seat EXCEPT ![m.r] = "on"]
         /\ sub' \in Follows(seat', life)
         /\ down' = Append(down, Msg("joined", m.r))
         /\ UNCHANGED <<life, order>>

\* handle_room_create: a new room each time.
SrvCreate ==
    IF \A r \in Own : life[r] # "unborn" THEN Reply(Msg("error", "Internal"))
    ELSE LET r == CHOOSE q \in Own : life[q] = "unborn"
         IN  /\ life' = [life EXCEPT ![r] = "open"]
             /\ seat' = [seat EXCEPT ![r] = "on"]
             /\ sub' \in Follows(seat', life')
             /\ down' = Append(down, Msg("created", r))
             /\ UNCHANGED order

\* handle_room_leave: no reply to the leaver; the host's leave ends the room.
SrvLeave(m) ==
    IF Leaving(m) = {} THEN Reply(Msg("error", "NotJoined"))
    ELSE \E r \in Leaving(m) :
           /\ seat' = [seat EXCEPT ![r] = IF r \in Own THEN "none" ELSE "left"]
           /\ life' = IF r \in Own THEN [life EXCEPT ![r] = "ended"] ELSE life
           /\ sub' \in Follows(seat', life')
           /\ down' \in {down} \cup
                IF r \in Own /\ sub = r THEN {Append(down, Msg("closed", r))} ELSE {}
           /\ UNCHANGED order

Serve ==
    /\ link = "on" /\ up # <<>>
    /\ up' = Tail(up)
    /\ LET m == Head(up)
       IN  CASE m.k = "join"   -> SrvJoin(m)
             [] m.k = "create" -> SrvCreate
             [] m.k = "leave"  -> SrvLeave(m)
    /\ UNCHANGED <<link, mine, hist>>

\* The host leaves or its grace runs out.
RoomEnds(r) ==
    /\ Fault(Commanding \/ tasks # <<>>) /\ r \in Joinable /\ life[r] = "open"
    /\ life' = [life EXCEPT ![r] = "ended"]
    /\ seat' = [seat EXCEPT ![r] = "none"]
    /\ down' = IF sub = r /\ link = "on" THEN Append(down, Msg("closed", r)) ELSE down
    /\ sub' \in IF link = "on" THEN Follows(seat', life') ELSE {None}
    /\ UNCHANGED <<order, link, up, mine, ops, left, hasty, starved>>

\* touch: PRESENCE refreshes the first record of the user it comes across.
Touched(r) ==
    LET held == {q \in Rooms : seat[q] # "none" /\ life[q] = "open"}
    IN  /\ presence /\ link = "on"
        /\ r = CHOOSE q \in held : \A p \in held : order[q] <= order[p]

\* tick_stale_participants, once what is under way is long over: a record
\* nobody refreshes is removed. A host's is not; its grace runs out.
Reap(r) ==
    /\ seat[r] # "none" /\ ~Touched(r)
    /\ r \in Own => seat[r] = "off"
    /\ up = <<>> /\ down = <<>> /\ tasks = <<>>
    /\ seat' = [seat EXCEPT ![r] = "none"]
    /\ life' = IF r \in Own THEN [life EXCEPT ![r] = "ended"] ELSE life
    /\ sub' \in Follows(seat', life')
    /\ starved' = (starved \/ (room = r /\ (link = "on" \/ creds # r)))
    /\ UNCHANGED <<order, wires, mine, ops, trouble, left, torn, hasty>>

-----------------------------------------------------------------------------
(* The link                                                                *)

Drop ==
    /\ link = "on" /\ Fault(Commanding \/ hooks > 0)
    /\ link' = "lost" /\ up' = <<>> /\ down' = <<>> /\ sub' = None
    /\ seat' = [r \in Rooms |-> IF seat[r] = "on" THEN "off" ELSE seat[r]]
    /\ UNCHANGED <<life, order, mine, ops, left, hasty, starved>>

\* record_failure forgets the bearer.
DialFails ==
    /\ link = "lost" /\ Fault(FALSE) /\ link' = "out"
    /\ UNCHANGED <<up, down, server, mine, ops, left, hasty, starved>>

\* AUTH_OK: the server takes the user's records back and sends the room as
\* it is now; the client spawns its hook.
Reconnect ==
    /\ link # "on" /\ link' = "on"
    /\ seat' = [r \in Rooms |-> IF seat[r] = "off" /\ life[r] = "open" THEN "on" ELSE seat[r]]
    /\ \E r \in Follows(seat', life) :
         /\ sub' = r
         /\ down' = IF r = None THEN <<>> ELSE <<Msg("state", r)>>
    /\ hooks' = hooks + 1
    /\ UNCHANGED <<life, order, up, room, creds, presence, buf, pendLeave, tasks, hist>>

-----------------------------------------------------------------------------
(* RoomClient                                                              *)

Task(kind, r, held) == [kind |-> kind, r |-> r, held |-> held, reply |-> Msg("wait", None)]
Waiting(t) == t.reply.k = "wait"
Expects(t) == CASE t.kind \in {"join", "rejoin"} -> "joined"
                [] t.kind = "create" -> "created"

\* send_or_buffer, for a link that is not out.
SendOrBuffer(m) ==
    IF link = "on" THEN up' = Append(up, m) /\ UNCHANGED buf
                   ELSE buf' = Append(buf, m) /\ UNCHANGED up

UserIdle == \A i \in DOMAIN tasks : tasks[i].kind \notin {"join", "create"}

Settled == link = "on" /\ up = <<>> /\ down = <<>> /\ tasks = <<>> /\ hooks = 0

Command ==
    /\ UserIdle /\ link # "out" /\ ops < MaxOps /\ ops' = ops + 1
    /\ hasty' = (hasty \/ (trouble > 0 /\ ~Settled))

\* room_join: the request. (With the link out it fails at once.)
Join(r) ==
    /\ Command
    /\ tasks' = Append(tasks, Task("join", r, room))
    /\ SendOrBuffer(Msg("join", r))
    /\ left' = {}
    /\ UNCHANGED <<link, down, server, room, creds, presence, pendLeave, hooks,
                   trouble, torn, starved>>

\* Mutant: the session's buffer takes the ROOM_LEAVE with it.
KeptNothing(q) == pendLeave

\* leave_room_inner once the envelope was sent or buffered: a buffered
\* ROOM_LEAVE outlives the session, nothing else of it does.
Kept(q) == LET leaves == {i \in DOMAIN q : q[i].k = "leave"}
           IN  IF leaves = {} THEN pendLeave
               ELSE {q[CHOOSE i \in leaves : \A j \in leaves : j <= i]}

Buffered(m) == IF link = "on" THEN buf ELSE Append(buf, m)

\* room_leave
Leave ==
    /\ Command /\ room # None
    /\ LET m == Msg("leave", None)
       IN  /\ up' = IF link = "on" THEN Append(up, m) ELSE up
           /\ pendLeave' = Kept(Buffered(m))
    /\ room' = None /\ creds' = None /\ presence' = FALSE /\ buf' = <<>>
    /\ left' = IF hasty THEN {} ELSE {room}
    /\ UNCHANGED <<link, down, server, tasks, hooks, trouble, torn, starved>>

\* room_create: the held room is left first, by id.
Create ==
    /\ Command
    /\ LET m == Msg("leave", room)
           c == Msg("create", None)
           held == room # None
       IN  /\ up' = IF link = "on" THEN up \o (IF held THEN <<m>> ELSE <<>>) \o <<c>> ELSE up
           /\ pendLeave' = IF held THEN Kept(Buffered(m)) ELSE pendLeave
           /\ buf' = (IF held THEN <<>> ELSE buf) \o (IF link = "on" THEN <<>> ELSE <<c>>)
           /\ creds' = IF held THEN None ELSE creds
           /\ presence' = (presence /\ ~held)
           /\ left' = IF held /\ ~hasty THEN {room} ELSE {}
    /\ room' = None
    /\ tasks' = Append(tasks, Task("create", None, None))
    /\ UNCHANGED <<link, down, server, hooks, trouble, torn, starved>>

\* The post-AUTH_OK hook, rejoin_active_room up to its request.
Hook ==
    /\ hooks > 0 /\ hooks' = hooks - 1
    /\ pendLeave' = {}
    /\ IF creds = None
       THEN /\ up' = IF link = "on" THEN up \o SetToSeq(pendLeave) ELSE up
            /\ UNCHANGED <<buf, tasks>>
       ELSE IF link = "out" THEN UNCHANGED <<up, buf, tasks>>
       ELSE /\ tasks' = Append(tasks, Task("rejoin", creds, None))
            /\ SendOrBuffer(Msg("join", creds))
    /\ UNCHANGED <<link, down, server, room, creds, presence, hist>>

\* REQUEST_TIMEOUT, with nothing under way that could still answer, or
\* before an answer that is.
Hopeless(i) == Waiting(tasks[i]) /\ up = <<>> /\ down = <<>>

GivesUp(i) ==
    /\ tasks' = RemoveAt(tasks, i)
    /\ UNCHANGED <<wires, server, room, creds, presence, buf, pendLeave, hooks,
                   ops, left, starved>>

Timeout(i) ==
    /\ Hopeless(i) /\ GivesUp(i)
    /\ torn' = (torn \/ tasks[i].kind # "rejoin")
    /\ UNCHANGED <<trouble, hasty>>

TimeoutRaces(i) ==
    /\ Waiting(tasks[i]) /\ ~Hopeless(i) /\ Fault(TRUE) /\ GivesUp(i) /\ UNCHANGED hasty

\* deliver_to_pending: the waiters an envelope may resolve (a set of indices).
Resolves(m) ==
    LET waiting == {i \in DOMAIN tasks : Waiting(tasks[i])}
        first(S) == {i \in S : \A j \in S : Expects(tasks[i]) = Expects(tasks[j]) => i <= j}
    IN  IF m.k = "error" THEN first(waiting)
        ELSE first({i \in waiting : Expects(tasks[i]) = m.k})

\* is_room_scoped_event for another room than the one cached.
Foreign(m) == m.k \in {"state", "closed"} /\ room \notin {None, m.r}

\* Mutant: a rejoin refused for good leaves the dead room in place.
EndsOnlyUnseated(m) == m.r = "NotJoined"

\* room_error_ends_membership
EndsMembership(m) == m.r \in {"RoomNotFound", "NotJoined"}

\* drop_room_session
DropSession ==
    /\ room' = None /\ creds' = None /\ presence' = FALSE /\ buf' = <<>>

SameSession == UNCHANGED <<room, creds, presence, buf>>

\* handle_inbound once the waiter, if any, has the reply.
Handle(m, resolved) ==
    CASE m.k \in {"state", "joined", "created"} ->
           /\ room' = m.r /\ UNCHANGED <<creds, presence, buf>>
      [] m.k = "closed" -> DropSession
      [] m.k = "error" /\ ~resolved /\ EndsMembership(m) -> DropSession
      [] OTHER -> SameSession

Deliver ==
    /\ link = "on" /\ down # <<>>
    /\ down' = Tail(down)
    /\ LET m == Head(down)
       IN  IF Foreign(m) THEN SameSession /\ UNCHANGED <<tasks>>
           ELSE IF Resolves(m) = {} THEN Handle(m, FALSE) /\ UNCHANGED tasks
           ELSE \E i \in Resolves(m) :
                  /\ tasks' = [tasks EXCEPT ![i].reply = m]
                  /\ Handle(m, TRUE)
    /\ UNCHANGED <<link, up, server, pendLeave, hooks, hist>>

\* room_join has its reply: the summary, the loop, the room replaced, the
\* credentials of the code asked for.
JoinResumes(i) ==
    LET t == tasks[i]
        q == t.reply.r
        leave == Msg("leave", t.held)
        replaced == t.held \notin {None, q}
    IN  /\ t.kind = "join" /\ ~Waiting(t)
        /\ tasks' = RemoveAt(tasks, i)
        /\ IF t.reply.k = "error" THEN SameSession /\ UNCHANGED <<up, left>>
           ELSE /\ room' = q /\ presence' = TRUE /\ creds' = t.r
                /\ IF replaced /\ link # "out" THEN SendOrBuffer(leave) ELSE UNCHANGED <<up, buf>>
                /\ left' = IF replaced /\ ~hasty THEN {t.held} ELSE {}
        /\ UNCHANGED <<link, down, server, pendLeave, hooks,
                       ops, trouble, torn, hasty, starved>>

CreateResumes(i) ==
    LET t == tasks[i]
    IN  /\ t.kind = "create" /\ ~Waiting(t)
        /\ tasks' = RemoveAt(tasks, i)
        /\ IF t.reply.k = "error" THEN UNCHANGED <<room, presence>>
           ELSE room' = t.reply.r /\ presence' = TRUE
        /\ UNCHANGED <<wires, server, creds, buf, pendLeave, hooks, hist>>

\* The rest of rejoin_active_room: refresh, drop the session, and drain.
RejoinResumes(i) ==
    LET t == tasks[i]
        over == t.reply.k = "error" /\ EndsMembership(t.reply)
        drains == t.reply.k = "joined" \/ t.reply.r = "AlreadyJoined"
    IN  /\ t.kind = "rejoin" /\ ~Waiting(t)
        /\ tasks' = RemoveAt(tasks, i)
        /\ IF over THEN DropSession /\ UNCHANGED up
           ELSE /\ room' = IF t.reply.k = "joined" THEN t.reply.r ELSE room
                /\ up' = IF drains /\ link = "on" THEN up \o buf ELSE up
                /\ buf' = IF drains THEN <<>> ELSE buf
                /\ UNCHANGED <<creds, presence>>
        /\ UNCHANGED <<link, down, server, pendLeave, hooks, hist>>

Resume(i) == JoinResumes(i) \/ CreateResumes(i) \/ RejoinResumes(i)

-----------------------------------------------------------------------------
Next ==
    \/ Serve \/ Drop \/ DialFails \/ Reconnect
    \/ \E r \in Rooms : RoomEnds(r) \/ Reap(r)
    \/ \E r \in Joinable : Join(r)
    \/ Leave \/ Create \/ Hook \/ Deliver
    \/ \E i \in DOMAIN tasks : Timeout(i) \/ TimeoutRaces(i) \/ Resume(i)

Spec ==
    /\ Init /\ [][Next]_vars
    /\ WF_vars(Serve) /\ WF_vars(Deliver) /\ WF_vars(Reconnect) /\ WF_vars(Hook)
    /\ WF_vars(\E i \in DOMAIN tasks : Resume(i)) /\ WF_vars(\E i \in DOMAIN tasks : Timeout(i))
    /\ \A r \in Rooms : WF_vars(Reap(r))

-----------------------------------------------------------------------------
(* Properties                                                              *)

\* A fault that meets no command under way is healed: once the link is back
\* and every request is answered, the client shows exactly the room in which
\* the server seats the user, and the connection follows that room. Link
\* losses, a second loss during the rejoin, a record removed while away and a
\* room that ended while away all take several steps of both sides to undo.
Heals ==
    Settled /\ ~torn /\ ~hasty /\ ~starved =>
        /\ \A r \in Rooms : seat[r] \in {"on", "off"} <=> room = r
        /\ sub = room

\* A room left, or replaced by another, is given up on the server too, even
\* when the user leaves while the link is down: the ROOM_LEAVE outlives the
\* session it ends and goes out with the next connection. Not so once a record
\* was starved (touch refreshes another room's): the server then refuses the
\* ROOM_LEAVE that follows a join, the refusal resolves the waiter of the next
\* join, and a nameless ROOM_LEAVE may give up the other of two rooms.
LeaveHeard ==
    Settled /\ ~torn /\ ~starved => \A r \in left : seat[r] \notin {"on", "off"}

=============================================================================
