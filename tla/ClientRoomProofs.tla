--------------------------- MODULE ClientRoomProofs ---------------------------
(* Theorems about ClientRoom, for any rooms a user may join, create or own,   *)
(* and any number of commands, retries, link losses and other faults: what    *)
(* the client shows heals, and a room that was given up is left.              *)
EXTENDS ClientRoom, FiniteSetTheorems, SequenceTheorems, WellFoundedInduction, TLAPS

-----------------------------------------------------------------------------
(* ClientRoom: the inductive invariant.                                       *)

\* What the server, the client and the wire between them hold.
RoomNames == Rooms \cup {None}
Refusals == {"RoomNotFound", "AlreadyJoined", "NotJoined", "Internal"}
Requests == [k : {"join"}, r : Joinable] \cup [k : {"leave"}, r : RoomNames] \cup [k : {"create"}, r : {None}]
Envelopes == [k : {"state", "joined", "created", "closed"}, r : Rooms] \cup [k : {"error"}, r : Refusals]
Outcomes == [k : {"wait"}, r : {None}] \cup Envelopes
Calls == [kind : {"join", "rejoin"}, r : Joinable, held : RoomNames, reply : Outcomes]
         \cup [kind : {"create"}, r : {None}, held : {None}, reply : Outcomes]
Slot == {{}} \cup {{m} : m \in Requests}

ServerTypes ==
    /\ life \in [Rooms -> {"unborn", "open", "ended"}]
    /\ seat \in [Rooms -> {"none", "on", "off", "left"}]
    /\ sub \in RoomNames /\ link \in {"on", "lost", "out"}
PipeTypes == up \in Seq(Requests) /\ down \in Seq(Envelopes)
MineTypes ==
    /\ room \in RoomNames /\ creds \in Joinable \cup {None}
    /\ buf \in Seq(Requests) /\ pendLeave \in Slot
    /\ tasks \in Seq(Calls) /\ hooks \in Nat
PastTypes ==
    /\ trouble \in Nat /\ left \in SUBSET Rooms
    /\ torn \in BOOLEAN /\ hasty \in BOOLEAN /\ starved \in BOOLEAN
MemberTypes == ServerTypes /\ PipeTypes /\ MineTypes /\ PastTypes

\* The rooms that count the user as a participant, and the one room a client shows.
Seated == {r \in Rooms : seat[r] \in {"on", "off"}}
Only(x) == {x} \ {None}

\* Seats are held in open rooms; the connection follows one of them while it is
\* up; a link that is down carries nothing.
SeatInv ==
    /\ \A r \in Seated : life[r] = "open"
    /\ \A r \in Joinable : life[r] # "unborn"
    /\ \A r \in Own : life[r] = "unborn" => seat[r] = "none"
    /\ link = "on" => (\A r \in Rooms : seat[r] # "off") /\ (Seated = {} => sub = None) /\ (Seated # {} => sub \in Seated)
    /\ link # "on" => (\A r \in Rooms : seat[r] # "on") /\ sub = None /\ up = <<>> /\ down = <<>>

\* Every fault was met by a client that no command kept busy.
Good == ~torn /\ ~hasty /\ ~starved

\* What a rejoin brings in, and what the credentials of a cached room are.
RNF == Msg("error", "RoomNotFound")
Cred(x) == IF x \in Joinable THEN x ELSE None
OverFor(x) == x = None \/ life[x] = "ended"
SomeWait == \E i \in DOMAIN tasks : Waiting(tasks[i])
IsAnswer(m) == m.k \in {"joined", "created", "error"}

\* Nothing is buffered, no ROOM_LEAVE is kept, one hook at most is to run, every
\* closing under way is of a room that ended; without a fault there is nothing to
\* mend.
Common ==
    /\ buf = <<>> /\ pendLeave = {} /\ hooks \in {0, 1} /\ (hooks = 1 => link = "on")
    /\ \A i \in DOMAIN down : down[i].k = "closed" => life[down[i].r] = "ended"
    /\ \A r \in left : life[r] # "unborn"
    /\ trouble = 0 =>
         /\ link = "on" /\ hooks = 0 /\ \A r \in Joinable : life[r] = "open"
         /\ \A i \in DOMAIN tasks : tasks[i].kind # "rejoin"
         /\ \A i \in DOMAIN down : down[i].k # "state"

\* Something will make the client forget, or win back, the room it shows.
Repaired ==
    \/ link # "on" \/ hooks = 1
    \/ \E i \in DOMAIN down : down[i] \in {Msg("closed", room), RNF}
    \/ \E i \in DOMAIN up : up[i] = Msg("join", room)
    \/ \E i \in DOMAIN tasks : tasks[i].reply = RNF

\* What may be under way to a client that is rejoining: the room as it is at
\* AUTH_OK, first, closings, and one answer to the rejoin, last.
RDown(i) ==
    LET m == down[i]
    IN  /\ m.k # "created"
        /\ m.k = "state" => i = 1 /\ m.r = room /\ \A j \in DOMAIN tasks : tasks[j].reply # RNF
        /\ m.k = "joined" => m.r = room /\ life[m.r] = "open"
        /\ m.k = "error" => m.r \in {"AlreadyJoined", "RoomNotFound"}
        /\ m = RNF => OverFor(room)
        /\ IsAnswer(m) => i = Len(down) /\ hooks = 0 /\ up = <<>> /\ SomeWait
\* A rejoin, and the answer it may hold.
RTask(t) ==
    /\ t.kind = "rejoin"
    /\ t.reply.k \in {"wait", "joined", "error"}
    /\ t.reply.k = "joined" => t.reply.r = room /\ life[room] = "open"
    /\ t.reply.k = "error" => t.reply.r \in {"AlreadyJoined", "RoomNotFound"}
    /\ t.reply = RNF => OverFor(room)
\* Its request.
RUp ==
    \/ up = <<>>
    \/ \E c \in Joinable : /\ up = <<Msg("join", c)>> /\ hooks = 0 /\ SomeWait
                           /\ c = room \/ (room = None /\ life[c] = "ended")

\* No command is under way: the seats are in the room shown, or none is left and
\* what mends that is on its way.
Recovering ==
    /\ \A i \in DOMAIN tasks : RTask(tasks[i])
    /\ Seated \subseteq {room} /\ creds = Cred(room) /\ room \notin left
    /\ room # None /\ Seated = {} => room \in Joinable /\ Repaired
    /\ RUp /\ \A i \in DOMAIN down : RDown(i)

\* The leaves under way, a, leave the user with exactly the room cached.
Farewell(a) ==
    \/ a = <<>> /\ Seated = Only(room)
    \/ \E z \in Rooms \ {room}, x \in RoomNames :
         /\ a = <<Msg("leave", x)>> /\ Seated = {z} \cup Only(room)
         /\ x = z \/ (x = None /\ room = None)
    \/ \E x, z \in Rooms, y \in RoomNames :
         /\ a = <<Msg("leave", x), Msg("leave", y)>> /\ room = None
         /\ x # z /\ y \in {z, None} /\ Seated = {x, z}

\* Closings only, and requests to leave up to two rooms.
Closing(n) == \A i \in 1..n : down[i].k = "closed"
Partings == {<<>>} \cup {<<Msg("leave", x)>> : x \in RoomNames}
             \cup {<<Msg("leave", x), Msg("leave", y)>> : x \in RoomNames, y \in RoomNames}

\* ROOM_LEAVEs under way and no call.
Leaves == /\ tasks = <<>> /\ Closing(Len(down)) /\ creds = Cred(room) /\ room \notin left
          /\ up # <<>> /\ Farewell(up)

\* A join: asked for, answered, and the answer in hand.
JoinAsked(t) ==
    \E a \in Partings : /\ Waiting(t) /\ t.held = room /\ creds = Cred(room)
                        /\ up = a \o <<Msg("join", t.r)>> /\ Farewell(a) /\ Closing(Len(down))
JoinReplied(t) ==
    /\ Waiting(t) /\ t.held = room /\ creds = Cred(room) /\ up = <<>>
    /\ down # <<>> /\ Closing(Len(down) - 1)
    /\ \/ down[Len(down)] = Msg("joined", t.r) /\ Seated = {t.r} \cup Only(room) /\ t.r # room
       \/ down[Len(down)].k = "error" /\ Seated = Only(room)
JoinHeard(t) ==
    /\ up = <<>> /\ down = <<>>
    /\ \/ t.reply = Msg("joined", t.r) /\ room = t.r /\ Seated = {t.r} \cup Only(t.held) /\ t.held # t.r
       \/ t.reply.k = "error" /\ Seated = Only(room) /\ creds = Cred(room)
Joins(t) ==
    /\ t.kind = "join" /\ left = {}
    /\ JoinAsked(t) \/ JoinReplied(t) \/ JoinHeard(t)

\* A create: asked for, answered, and the answer in hand.
CreateAsked(t) ==
    \E a \in Partings : /\ Waiting(t) /\ room = None
                        /\ up = a \o <<Msg("create", None)>> /\ Farewell(a) /\ Closing(Len(down))
CreateReplied(t) ==
    /\ Waiting(t) /\ room = None /\ up = <<>>
    /\ down # <<>> /\ Closing(Len(down) - 1)
    /\ \/ \E o \in Own \ left : down[Len(down)] = Msg("created", o) /\ Seated = {o}
       \/ down[Len(down)].k = "error" /\ Seated = {}
CreateHeard(t) ==
    /\ up = <<>> /\ down = <<>>
    /\ \/ \E o \in Own \ left : t.reply = Msg("created", o) /\ Seated = {o} /\ room = o
       \/ t.reply.k = "error" /\ Seated = {} /\ room = None
Creates(t) ==
    /\ t.kind = "create" /\ creds = None
    /\ CreateAsked(t) \/ CreateReplied(t) \/ CreateHeard(t)

\* A command is under way over a link that was never lost meanwhile.
Linked == link = "on" /\ hooks = 0
Busy == Linked /\ (Leaves \/ \E t \in Calls : tasks = <<t>> /\ (Joins(t) \/ Creates(t)))

\* A request to leave that names r, or names no room but meets r alone: requests
\* before it take every other seat away and add none.
NoJoin(q) == \A i \in DOMAIN q : q[i].k # "join"
ReachesNone(i, r) ==
    /\ up[i].r = None /\ buf = <<>>
    /\ \A j \in 1..(i-1) : \/ up[j].k = "leave" /\ up[j].r # None
                           \/ up[j].k = "join" /\ (up[j].r = r \/ life[up[j].r] = "ended")
    /\ Seated \subseteq {r} \cup {up[j].r : j \in {k \in 1..(i-1) : up[k].k = "leave"}}
Reaches(i, r) ==
    /\ up[i].k = "leave" /\ \A j \in DOMAIN up : j > i => up[j].k # "join"
    /\ up[i].r = r \/ ReachesNone(i, r)
\* The room given up in haste is given up, its ROOM_LEAVE is kept for the next
\* connection, or it is under way.
Parted(r) == pendLeave = {} /\ r \notin Seated /\ NoJoin(up)
Pending(r) ==
    /\ link # "on" \/ hooks = 1
    /\ NoJoin(up)
    /\ \/ pendLeave = {Msg("leave", r)}
       \/ pendLeave = {Msg("leave", None)} /\ up = <<>> /\ buf = <<>> /\ Seated \subseteq {r}
Sent(r) == pendLeave = {} /\ \E i \in DOMAIN up : Reaches(i, r)
Parting(r) == Parted(r) \/ Pending(r) \/ Sent(r)
\* After a command that came before a fault was mended.
Hurried(r) ==
      /\ left = {r} /\ life[r] # "unborn" /\ creds = None /\ NoJoin(buf) /\ hooks \in {0, 1}
      /\ hooks = 1 => link = "on"
      /\ \A i \in DOMAIN tasks : tasks[i].kind # "join"
      /\ Parting(r)

HastyInv == ~torn /\ ~starved /\ hasty /\ left # {} => \E r \in Rooms : Hurried(r)
GoodInv == Good => Common /\ (Recovering \/ Busy)
\* The inductive invariant.
MemberInv == MemberTypes /\ SeatInv /\ GoodInv /\ HastyInv


-----------------------------------------------------------------------------
(* What the types keep.                                                       *)

\* What RemoveAt leaves.
LEMMA RemoveAtFacts ==
    ASSUME NEW S, NEW q \in Seq(S), NEW i \in DOMAIN q
    PROVE  /\ RemoveAt(q, i) \in Seq(S) /\ Len(RemoveAt(q, i)) = Len(q) - 1
           /\ \A j \in DOMAIN RemoveAt(q, i) : \E l \in DOMAIN q : l # i /\ RemoveAt(q, i)[j] = q[l]
           /\ \A l \in DOMAIN q : l # i => \E j \in DOMAIN RemoveAt(q, i) : RemoveAt(q, i)[j] = q[l]
<1> DEFINE b == SubSeq(q, 1, i - 1)
           c == SubSeq(q, i + 1, Len(q))
<1>1. Len(q) \in Nat /\ DOMAIN q = 1 .. Len(q) /\ i \in 1 .. Len(q)  OBVIOUS
<1>2. b \in Seq(S) /\ Len(b) = i - 1 /\ \A j \in 1 .. i - 1 : b[j] = q[j]  BY <1>1
<1>3. c \in Seq(S) /\ Len(c) = Len(q) - i /\ \A j \in 1 .. Len(q) - i : c[j] = q[i + j]  BY <1>1
<1>4. RemoveAt(q, i) = b \o c  BY DEF RemoveAt
<1> HIDE DEF b, c
<1>5. b \o c \in Seq(S) /\ Len(b \o c) = Len(q) - 1 /\ DOMAIN (b \o c) = 1 .. Len(q) - 1
  <2>1. b \in Seq(S) /\ c \in Seq(S)  BY <1>2, <1>3
  <2>2. b \o c \in Seq(S) /\ Len(b \o c) = Len(b) + Len(c)  BY <2>1
  <2>3. Len(b \o c) = Len(q) - 1  BY <1>1, <1>2, <1>3, <2>2
  <2> QED  BY <2>2, <2>3
<1>6. \A j \in 1 .. Len(q) - 1 : (b \o c)[j] = IF j < i THEN q[j] ELSE q[j + 1]
  <2> TAKE j \in 1 .. Len(q) - 1
  <2>1. CASE j < i  BY <1>1, <1>2, <1>3, <2>1
  <2>2. CASE ~ (j < i)
    <3>1. (b \o c)[j] = c[j - (i - 1)]  BY <1>1, <1>2, <1>3, <2>2
    <3>2. j - (i - 1) \in 1 .. Len(q) - i /\ i + (j - (i - 1)) = j + 1  BY <1>1, <2>2
    <3> QED  BY <1>3, <2>2, <3>1, <3>2
  <2> QED  BY <2>1, <2>2
<1>7. \A j \in DOMAIN (b \o c) : \E l \in DOMAIN q : l # i /\ (b \o c)[j] = q[l]
  <2> TAKE j \in DOMAIN (b \o c)
  <2>1. j \in 1 .. Len(q) - 1  BY <1>5
  <2>2. CASE j < i  BY <1>1, <1>6, <2>1, <2>2
  <2>3. CASE ~ (j < i)
    <3>1. j + 1 \in DOMAIN q /\ j + 1 # i  BY <1>1, <2>1, <2>3
    <3> QED  BY <1>6, <2>1, <2>3, <3>1
  <2> QED  BY <2>2, <2>3
<1>8. \A l \in DOMAIN q : l # i => \E j \in DOMAIN (b \o c) : (b \o c)[j] = q[l]
  <2> SUFFICES ASSUME NEW l \in DOMAIN q, l # i  PROVE \E j \in DOMAIN (b \o c) : (b \o c)[j] = q[l]
      OBVIOUS
  <2>1. CASE l < i
    <3>1. l \in 1 .. Len(q) - 1  BY <1>1, <2>1
    <3> QED  BY <1>5, <1>6, <2>1, <3>1
  <2>2. CASE ~ (l < i)
    <3>1. l - 1 \in 1 .. Len(q) - 1 /\ ~ (l - 1 < i) /\ (l - 1) + 1 = l  BY <1>1, <2>2
    <3> QED  BY <1>5, <1>6, <3>1
  <2> QED  BY <2>1, <2>2
<1> QED  BY <1>4, <1>5, <1>7, <1>8

\* The envelope kept while the link is down, if any, as a sequence.
LEMMA NoneKept == SetToSeq({}) = << >>
<1>1. Cardinality({}) = 0  BY FS_EmptySet
<1>2. << >> \in [1 .. 0 -> {}]  OBVIOUS
<1>4. \A f \in [1 .. 0 -> {}] : f = << >>
  <2> TAKE f \in [1 .. 0 -> {}]
  <2>1. 1 .. 0 = {}  OBVIOUS
  <2>2. f \in Seq({}) /\ Len(f) = 0  BY SeqDef
  <2> QED  BY <2>2, EmptySeq
<1>3. IsInjective(<< >>)  BY DEF IsInjective
<1> QED  BY <1>1, <1>2, <1>3, <1>4 DEF SetToSeq

LEMMA OneKept == ASSUME NEW m  PROVE SetToSeq({m}) = <<m>>
<1>1. Cardinality({m}) = 1  BY FS_Singleton
<1>2. \A f \in [1 .. 1 -> {m}] : f = <<m>>
  <2> TAKE f \in [1 .. 1 -> {m}]
  <2>1. f = [i \in 1 .. 1 |-> m]  OBVIOUS
  <2>2. <<m>> = [i \in 1 .. 1 |-> m]  OBVIOUS
  <2> QED  BY <2>1, <2>2
<1>3. <<m>> \in [1 .. 1 -> {m}] /\ IsInjective(<<m>>)  BY DEF IsInjective
<1> QED  BY <1>1, <1>2, <1>3 DEF SetToSeq

\* The room a connection follows is one of the live ones, if there is one.
LEMMA FollowsTyped ==
    ASSUME NEW s, NEW alive, sub \in RoomNames, NEW x \in Follows(s, alive)
    PROVE  /\ x \in RoomNames
           /\ LET live == {r \in Rooms : s[r] = "on" /\ alive[r] = "open"}
              IN  (live = {} => x = None) /\ (live # {} => x \in live)
BY DEF Follows, RoomNames

\* A call that is over.
LEMMA RemovedTyped ==
    ASSUME MemberTypes, NEW i \in DOMAIN tasks
    PROVE  RemoveAt(tasks, i) \in Seq(Calls) /\ tasks[i] \in Calls
<1>1. tasks \in Seq(Calls)  BY DEF MemberTypes, MineTypes
<1> QED  BY <1>1, RemoveAtFacts

\* A set of naturals that is not empty has a least member.
LEMMA LeastOf ==
    ASSUME NEW T, T \subseteq Nat, T # {}
    PROVE  \E x \in T : \A y \in T : x <= y
<1>1. \E x \in T : \A y \in T : ~(<<y, x>> \in OpToRel(<, Nat))
  BY NatLessThanWellFounded, WFMin
<1>2. PICK x \in T : \A y \in T : ~(<<y, x>> \in OpToRel(<, Nat))
  BY <1>1
<1>3. ASSUME NEW y \in T PROVE x <= y
  <2>1. x \in Nat /\ y \in Nat
    OBVIOUS
  <2>2. ~(y < x)
    BY <1>2, <2>1 DEF OpToRel
  <2> QED
    BY <2>1, <2>2
<1> QED
  BY <1>3

\* What leave_room_inner keeps of the buffer is one envelope at most.
LEMMA KeptTyped ==
    ASSUME MemberTypes, NEW q \in Seq(Requests)
    PROVE  Kept(q) \in Slot
<1> DEFINE leaves == {i \in DOMAIN q : q[i].k = "leave"}
<1>1. CASE leaves = {}  BY <1>1 DEF Kept, MemberTypes, MineTypes
<1>2. CASE leaves # {}
  <2> DEFINE c == CHOOSE i \in leaves : \A j \in leaves : j <= i
  <2>1. c \in leaves
    <3> DEFINE T == {Len(q) - i : i \in leaves}
    <3>1. \A i \in leaves : i \in Nat /\ Len(q) \in Nat /\ Len(q) - i \in Nat  OBVIOUS
    <3>2. T \subseteq Nat /\ T # {}  BY <1>2, <3>1
    <3> HIDE DEF T
    <3>3. PICK n \in T : \A y \in T : n <= y  BY <3>2, LeastOf
    <3> USE DEF T
    <3>4. PICK i \in leaves : n = Len(q) - i  BY <3>3
    <3>5. \A j \in leaves : j <= i  BY <3>1, <3>3, <3>4
    <3> HIDE DEF T, leaves
    <3> QED  BY <3>4, <3>5
  <2>2. q[c] \in Requests  BY <2>1
  <2> QED  BY <1>2, <2>2 DEF Kept, Slot
<1> QED  BY <1>1, <1>2

\* Short sequences.
LEMMA TwoOf ==
    ASSUME NEW e, NEW f
    PROVE  <<e>> \o <<f>> = <<e, f>> /\ Append(<<e>>, f) = <<e, f>>
<1> DEFINE S == {e, f}
<1>1. <<e>> \in Seq(S) /\ <<f>> \in Seq(S) /\ <<e, f>> \in Seq(S) /\ e \in S /\ f \in S  OBVIOUS
<1>2. Len(<<e>>) = 1 /\ Len(<<f>>) = 1 /\ Len(<<e, f>>) = 2  OBVIOUS
<1>3. <<e, f>>[1] = e /\ <<e, f>>[2] = f /\ <<e>>[1] = e /\ <<f>>[1] = f  OBVIOUS
<1> HIDE DEF S
<1> DEFINE q == <<e>> \o <<f>>
<1>4. /\ q \in Seq(S) /\ Len(q) = Len(<<e>>) + Len(<<f>>)
      /\ \A i \in 1 .. Len(<<e>>) + Len(<<f>>) : q[i] = IF i <= Len(<<e>>) THEN <<e>>[i] ELSE <<f>>[i - Len(<<e>>)]
  BY <1>1, ConcatProperties
<1> HIDE DEF q
<1>5. Len(q) = 2 /\ q[1] = e /\ q[2] = f  BY <1>2, <1>3, <1>4
<1>6. q = <<e, f>>  BY <1>1, <1>2, <1>3, <1>4, <1>5, SeqEqual
<1>7. Append(<<e>>, f) = q  BY <1>1, AppendIsConcat DEF q
<1> QED  BY <1>6, <1>7 DEF q

\* The pieces of the state stay well typed: the subscription,
LEMMA SubTyped ==
    ASSUME MemberTypes, NEW s, NEW alive, NEW x \in Follows(s, alive)
    PROVE  x \in RoomNames
BY FollowsTyped DEF MemberTypes, ServerTypes

\* the envelopes,
LEMMA EnvelopesTyped ==
    /\ \A k \in {"state", "joined", "created", "closed"}, r \in Rooms : Msg(k, r) \in Envelopes
    /\ \A r \in Refusals : Msg("error", r) \in Envelopes
    /\ \A r \in Joinable : Msg("join", r) \in Requests
    /\ \A r \in RoomNames : Msg("leave", r) \in Requests
    /\ Msg("create", None) \in Requests
BY DEF Envelopes, Requests, Msg

\* what goes down,
LEMMA DownTyped ==
    ASSUME MemberTypes, NEW m \in Envelopes
    PROVE  Append(down, m) \in Seq(Envelopes)
BY DEF MemberTypes, PipeTypes

\* what goes up,
LEMMA UpTyped ==
    ASSUME MemberTypes, NEW m \in Requests
    PROVE  Append(up, m) \in Seq(Requests) /\ Append(buf, m) \in Seq(Requests)
BY DEF MemberTypes, PipeTypes, MineTypes

\* and the calls.
LEMMA TasksTyped ==
    ASSUME MemberTypes, NEW t \in Calls
    PROVE  Append(tasks, t) \in Seq(Calls)
BY DEF MemberTypes, MineTypes

\* Types under the server's answers,
LEMMA ServeTypes ==
    ASSUME MemberTypes, Serve  PROVE MemberTypes'
<1> DEFINE m == Head(up)
<1>1. up' \in Seq(Requests) /\ m \in Requests  BY DEF MemberTypes, PipeTypes, Serve
<1> USE DEF MemberTypes, ServerTypes, PipeTypes, MineTypes, PastTypes
<1>2. UNCHANGED <<link, mine, hist>>  BY DEF Serve
<1>3. (ServerTypes /\ down \in Seq(Envelopes))'
  <2>1. CASE m.k = "join"
    <3>1. SrvJoin(m)  BY <2>1 DEF Serve
    <3>2. m.r \in Joinable /\ m.r \in Rooms  BY <1>1, <2>1 DEF Requests, Rooms
    <3>3. CASE UNCHANGED server /\ \E r \in Refusals : down' = Append(down, Msg("error", r))
      <4> QED  BY <1>2, <3>3, EnvelopesTyped, DownTyped DEF server
    <3>4. CASE /\ seat' = [seat EXCEPT ![m.r] = "on"] /\ sub' \in Follows(seat', life)
               /\ down' = Append(down, Msg("joined", m.r)) /\ UNCHANGED <<life, order>>
      <4>1. sub' \in RoomNames  BY <3>4, SubTyped
      <4>2. down' \in Seq(Envelopes)  BY <3>2, <3>4, EnvelopesTyped, DownTyped
      <4> QED  BY <1>2, <3>2, <3>4, <4>1, <4>2
    <3> HIDE DEF m
    <3> QED  BY <3>1, <3>3, <3>4 DEF SrvJoin, Reply, Refusals
  <2>2. CASE m.k = "create"
    <3>1. SrvCreate  BY <2>2 DEF Serve
    <3>2. CASE \A r \in Own : life[r] # "unborn"
      <4>1. UNCHANGED server /\ down' = Append(down, Msg("error", "Internal"))  BY <3>1, <3>2 DEF SrvCreate, Reply
      <4>2. "Internal" \in Refusals  BY DEF Refusals
      <4> QED  BY <1>2, <4>1, <4>2, EnvelopesTyped, DownTyped DEF server
    <3>3. CASE ~ \A r \in Own : life[r] # "unborn"
      <4> DEFINE r == CHOOSE q \in Own : life[q] = "unborn"
      <4>1. r \in Own /\ r \in Rooms  BY <3>3 DEF Rooms
      <4>2. /\ life' = [life EXCEPT ![r] = "open"] /\ seat' = [seat EXCEPT ![r] = "on"]
            /\ sub' \in Follows(seat', life') /\ down' = Append(down, Msg("created", r))
        BY <3>1, <3>3 DEF SrvCreate
      <4> HIDE DEF r
      <4>3. sub' \in RoomNames  BY <4>2, SubTyped
      <4>4. down' \in Seq(Envelopes)  BY <4>1, <4>2, EnvelopesTyped, DownTyped
      <4> QED  BY <1>2, <4>1, <4>2, <4>3, <4>4
    <3> QED  BY <3>2, <3>3
  <2>3. CASE m.k = "leave"
    <3>1. SrvLeave(m)  BY <2>3 DEF Serve
    <3>2. CASE Leaving(m) = {}
      <4>1. UNCHANGED server /\ down' = Append(down, Msg("error", "NotJoined"))  BY <3>1, <3>2 DEF SrvLeave, Reply
      <4>2. "NotJoined" \in Refusals  BY DEF Refusals
      <4> QED  BY <1>2, <4>1, <4>2, EnvelopesTyped, DownTyped DEF server
    <3>3. CASE Leaving(m) # {}
      <4>1. PICK r \in Leaving(m) :
               /\ seat' = [seat EXCEPT ![r] = IF r \in Own THEN "none" ELSE "left"]
               /\ life' = IF r \in Own THEN [life EXCEPT ![r] = "ended"] ELSE life
               /\ sub' \in Follows(seat', life')
               /\ down' \in {down} \cup IF r \in Own /\ sub = r THEN {Append(down, Msg("closed", r))} ELSE {}
        BY <3>1, <3>3 DEF SrvLeave
      <4>2. r \in Rooms  BY DEF Leaving
      <4>3. sub' \in RoomNames  BY <4>1, SubTyped
      <4>4. down' = down \/ down' = Append(down, Msg("closed", r))  BY <4>1
      <4>5. down' \in Seq(Envelopes)  BY <4>2, <4>4, EnvelopesTyped, DownTyped
      <4>6. life' \in [Rooms -> {"unborn", "open", "ended"}]  BY <4>1, <4>2
      <4>7. seat' \in [Rooms -> {"none", "on", "off", "left"}]  BY <4>1, <4>2
      <4> QED  BY <1>2, <4>3, <4>5, <4>6, <4>7
    <3> QED  BY <3>2, <3>3
  <2> QED  BY <1>1, <2>1, <2>2, <2>3 DEF Requests
<1> QED  BY <1>1, <1>2, <1>3 DEF mine, hist

\* under faults
LEMMA FaultTypes ==
    ASSUME MemberTypes, NEW meets \in BOOLEAN, Fault(meets)
    PROVE  trouble' \in Nat /\ torn' \in BOOLEAN
BY DEF Fault, MemberTypes, PastTypes

\* and the rest of what comes from outside the client,
LEMMA WorldTypes ==
    ASSUME MemberTypes, Drop \/ DialFails \/ Reconnect \/ \E r \in Rooms : RoomEnds(r) \/ Reap(r)
    PROVE  MemberTypes'
<1> USE DEF MemberTypes, ServerTypes, PipeTypes, MineTypes, PastTypes
<1>1. CASE Drop
  <2>1. (Commanding \/ hooks > 0) \in BOOLEAN  BY DEF Commanding
  <2>2. trouble' \in Nat /\ torn' \in BOOLEAN  BY <1>1, <2>1, FaultTypes DEF Drop
  <2>3. seat' \in [Rooms -> {"none", "on", "off", "left"}]  BY <1>1 DEF Drop
  <2> QED  BY <1>1, <2>2, <2>3 DEF Drop, mine, RoomNames
<1>2. CASE DialFails
  <2>2. trouble' \in Nat /\ torn' \in BOOLEAN  BY <1>2, FaultTypes DEF DialFails
  <2> QED  BY <1>2, <2>2 DEF DialFails, mine, server
<1>3. CASE Reconnect
  <2>1. PICK r \in Follows(seat', life) :
           sub' = r /\ down' = IF r = None THEN <<>> ELSE <<Msg("state", r)>>
    BY <1>3 DEF Reconnect
  <2>2. r \in RoomNames  BY SubTyped
  <2>3. down' \in Seq(Envelopes)
    <3>1. CASE r = None  BY <2>1, <3>1
    <3>2. CASE r # None
      <4>1. Msg("state", r) \in Envelopes  BY <2>2, <3>2, EnvelopesTyped DEF RoomNames
      <4> QED  BY <2>1, <3>2, <4>1
    <3> QED  BY <3>1, <3>2
  <2>4. seat' \in [Rooms -> {"none", "on", "off", "left"}]  BY <1>3 DEF Reconnect
  <2> QED  BY <1>3, <2>1, <2>2, <2>3, <2>4 DEF Reconnect, hist
<1>4. ASSUME NEW r \in Rooms, RoomEnds(r)  PROVE MemberTypes'
  <2>1. (Commanding \/ tasks # <<>>) \in BOOLEAN  BY DEF Commanding
  <2>2. trouble' \in Nat /\ torn' \in BOOLEAN  BY <1>4, <2>1, FaultTypes DEF RoomEnds
  <2>3. sub' \in RoomNames
    <3>1. sub' \in Follows(seat', life') \/ sub' = None  BY <1>4 DEF RoomEnds
    <3> QED  BY <3>1, SubTyped DEF RoomNames
  <2>4. down' \in Seq(Envelopes)  BY <1>4, EnvelopesTyped, DownTyped DEF RoomEnds
  <2> QED  BY <1>4, <2>2, <2>3, <2>4 DEF RoomEnds, mine
<1>5. ASSUME NEW r \in Rooms, Reap(r)  PROVE MemberTypes'
  <2>1. sub' \in RoomNames  BY <1>5, SubTyped DEF Reap
  <2>2. life' \in [Rooms -> {"unborn", "open", "ended"}]  BY <1>5 DEF Reap
  <2>3. starved' \in BOOLEAN  BY <1>5 DEF Reap
  <2> QED  BY <1>5, <2>1, <2>2, <2>3 DEF Reap, mine, wires
<1> QED  BY <1>1, <1>2, <1>3, <1>4, <1>5

\* A request sent or buffered,
LEMMA SendTypes ==
    ASSUME MemberTypes, NEW m \in Requests, SendOrBuffer(m)
    PROVE  up' \in Seq(Requests) /\ buf' \in Seq(Requests)
BY UpTyped DEF SendOrBuffer, MemberTypes, PipeTypes, MineTypes

\* and a ROOM_LEAVE kept.
LEMMA KeepTypes ==
    ASSUME MemberTypes, NEW m \in Requests
    PROVE  Kept(Buffered(m)) \in Slot
<1>1. Buffered(m) \in Seq(Requests)  BY UpTyped DEF Buffered, MemberTypes, MineTypes
<1> QED  BY <1>1, KeptTyped

\* Types under the commands
LEMMA CommandTypes ==
    ASSUME MemberTypes, Leave \/ Create \/ \E r \in Joinable : Join(r)
    PROVE  MemberTypes'
<1> USE DEF MemberTypes, ServerTypes, PipeTypes, MineTypes, PastTypes
<1>0. hasty' \in BOOLEAN  BY DEF Leave, Create, Join, Command
<1>1. ASSUME NEW r \in Joinable, Join(r)  PROVE MemberTypes'
  <2>1. Task("join", r, room) \in Calls  BY DEF Task, Calls, Outcomes, Msg
  <2>2. tasks' \in Seq(Calls)  BY <1>1, <2>1, TasksTyped DEF Join
  <2>3. up' \in Seq(Requests) /\ buf' \in Seq(Requests)  BY <1>1, SendTypes, EnvelopesTyped DEF Join
  <2> QED  BY <1>0, <1>1, <2>2, <2>3 DEF Join, server
<1>2. CASE Leave
  <2> DEFINE m == Msg("leave", None)
  <2>1. m \in Requests  BY EnvelopesTyped DEF RoomNames
  <2>2. /\ up' = IF link = "on" THEN Append(up, m) ELSE up
        /\ pendLeave' = Kept(Buffered(m))
    BY <1>2 DEF Leave
  <2>3. left' \in SUBSET Rooms /\ creds' = None /\ room' = None /\ buf' = <<>>  BY <1>2 DEF Leave, RoomNames
  <2> HIDE DEF m
  <2>4. pendLeave' \in Slot  BY <2>1, <2>2, KeepTypes
  <2>5. up' \in Seq(Requests)  BY <2>1, <2>2, UpTyped
  <2>6. UNCHANGED <<link, down, server, tasks, hooks, trouble, torn, starved>>  BY <1>2 DEF Leave
  <2> QED  BY <1>0, <2>3, <2>4, <2>5, <2>6 DEF server, RoomNames
<1>3. CASE Create
  <2> DEFINE m == Msg("leave", room)
             c == Msg("create", None)
             held == room # None
  <2>1. m \in Requests /\ c \in Requests  BY EnvelopesTyped
  <2>2. /\ up' = IF link = "on" THEN up \o (IF held THEN <<m>> ELSE <<>>) \o <<c>> ELSE up
        /\ pendLeave' = IF held THEN Kept(Buffered(m)) ELSE pendLeave
        /\ buf' = (IF held THEN <<>> ELSE buf) \o (IF link = "on" THEN <<>> ELSE <<c>>)
    BY <1>3 DEF Create
  <2>3. left' \in SUBSET Rooms /\ creds' \in {creds, None} /\ room' = None  BY <1>3 DEF Create, RoomNames
  <2>4. tasks' \in Seq(Calls)
    <3>1. Task("create", None, None) \in Calls  BY DEF Task, Calls, Outcomes, Msg
    <3> QED  BY <1>3, <3>1, TasksTyped DEF Create
  <2>6. UNCHANGED <<link, down, server, hooks, trouble, torn, starved>>  BY <1>3 DEF Create
  <2> HIDE DEF m, c
  <2>7. pendLeave' \in Slot  BY <2>1, <2>2, KeepTypes
  <2>8. up' \in Seq(Requests)
    <3>1. (IF held THEN <<m>> ELSE <<>>) \in Seq(Requests) /\ <<c>> \in Seq(Requests)  BY <2>1
    <3> DEFINE a == IF held THEN <<m>> ELSE <<>>
    <3> HIDE DEF a
    <3>2. a \in Seq(Requests)  BY <3>1 DEF a
    <3>3. up \o a \o <<c>> \in Seq(Requests)  BY <3>1, <3>2
    <3> QED  BY <2>2, <3>3 DEF a
  <2>9. buf' \in Seq(Requests)
    <3>1. (IF held THEN <<>> ELSE buf) \in Seq(Requests)  OBVIOUS
    <3>2. (IF link = "on" THEN <<>> ELSE <<c>>) \in Seq(Requests)  BY <2>1
    <3> QED  BY <2>2, <3>1, <3>2
  <2> QED  BY <1>0, <2>3, <2>4, <2>6, <2>7, <2>8, <2>9 DEF server, RoomNames
<1> QED  BY <1>1, <1>2, <1>3

\* and the reconnect hook,
LEMMA HookTypes == ASSUME MemberTypes, Hook  PROVE MemberTypes'
<1> USE DEF MemberTypes, ServerTypes, PipeTypes, MineTypes, PastTypes
<1>1. hooks' \in Nat /\ pendLeave' \in Slot  BY DEF Hook, Slot
<1>2. UNCHANGED <<link, down, server, room, creds, presence, hist>>  BY DEF Hook
<1>3. CASE creds = None
  <2>1. UNCHANGED <<buf, tasks>> /\ up' = IF link = "on" THEN up \o SetToSeq(pendLeave) ELSE up
    BY <1>3 DEF Hook
  <2>2. up' \in Seq(Requests)
    <3>1. CASE UNCHANGED up  BY <3>1
    <3>2. CASE up' = up \o SetToSeq(pendLeave)
      <4>1. SetToSeq(pendLeave) \in Seq(Requests)
        <5>1. CASE pendLeave = {}
          <6>1. SetToSeq(pendLeave) = << >>  BY <5>1, NoneKept, Zenon
          <6> QED  BY <6>1
        <5>2. ASSUME NEW m \in Requests, pendLeave = {m}  PROVE SetToSeq(pendLeave) \in Seq(Requests)
          <6>1. SetToSeq(pendLeave) = <<m>>  BY <5>2, OneKept, Zenon
          <6> QED  BY <6>1
        <5> QED  BY <5>1, <5>2 DEF Slot
      <4> QED  BY <3>2, <4>1
    <3> QED  BY <2>1, <3>1, <3>2
  <2> QED  BY <1>1, <1>2, <2>1, <2>2 DEF server, hist
<1>4. CASE creds # None
  <2>1. CASE UNCHANGED <<up, buf, tasks>>  BY <1>1, <1>2, <2>1 DEF server, hist
  <2>2. CASE tasks' = Append(tasks, Task("rejoin", creds, None)) /\ SendOrBuffer(Msg("join", creds))
    <3>1. creds \in Joinable  BY <1>4
    <3>2. Task("rejoin", creds, None) \in Calls  BY <3>1 DEF Task, Calls, Outcomes, Msg, RoomNames
    <3>3. tasks' \in Seq(Calls)  BY <2>2, <3>2, TasksTyped
    <3>4. up' \in Seq(Requests) /\ buf' \in Seq(Requests)  BY <2>2, <3>1, SendTypes, EnvelopesTyped
    <3> QED  BY <1>1, <1>2, <3>3, <3>4 DEF server, hist
  <2> QED  BY <1>4, <2>1, <2>2 DEF Hook
<1> QED  BY <1>3, <1>4

\* The kinds of request a call waits for an answer to.
LEMMA CallKinds ==
    ASSUME NEW t \in Calls
    PROVE  /\ t.kind \in {"join", "rejoin"} => t.r \in Joinable /\ Expects(t) = "joined"
           /\ t.kind = "create" => t.r = None /\ Expects(t) = "created"
           /\ t.kind \in {"join", "rejoin", "create"} /\ t.held \in RoomNames /\ t.reply \in Outcomes
BY DEF Calls, Expects, RoomNames

\* A reply in hand is an envelope,
LEMMA ReplyTyped ==
    ASSUME NEW m \in Outcomes, m.k # "wait"
    PROVE  m \in Envelopes /\ m.k \in {"state", "joined", "created", "closed", "error"}
           /\ (m.k # "error" => m.r \in Rooms) /\ (m.k = "error" => m.r \in Refusals)
BY DEF Outcomes, Envelopes

\* and an envelope can be a reply.
LEMMA EnvelopeTyped ==
    ASSUME NEW m \in Envelopes
    PROVE  /\ m.k \in {"state", "joined", "created", "closed", "error"} /\ m \in Outcomes
           /\ m.k # "error" => m.r \in Rooms
           /\ m.k = "error" => m.r \in Refusals
BY DEF Outcomes, Envelopes

\* A reply in the hands of a call leaves the rest of it alone.
LEMMA Replied ==
    ASSUME MemberTypes, NEW i \in DOMAIN tasks, NEW m \in Envelopes,
           tasks' = [tasks EXCEPT ![i].reply = m]
    PROVE  /\ tasks' \in Seq(Calls) /\ DOMAIN tasks' = DOMAIN tasks /\ Len(tasks') = Len(tasks)
           /\ \A j \in DOMAIN tasks : j # i => tasks'[j] = tasks[j]
           /\ tasks'[i] = [tasks[i] EXCEPT !.reply = m]
           /\ tasks'[i].kind = tasks[i].kind /\ tasks'[i].r = tasks[i].r
           /\ tasks'[i].held = tasks[i].held /\ tasks'[i].reply = m
<1>1. tasks \in Seq(Calls) /\ tasks[i] \in Calls  BY DEF MemberTypes, MineTypes
<1> DEFINE u == [tasks[i] EXCEPT !.reply = m]
<1>2. u \in Calls  BY <1>1 DEF Calls, Outcomes
<1>3. u.kind = tasks[i].kind /\ u.r = tasks[i].r /\ u.held = tasks[i].held /\ u.reply = m  BY <1>1 DEF Calls
<1>4. tasks' = [tasks EXCEPT ![i] = u]  OBVIOUS
<1> HIDE DEF u
<1>5. tasks' \in Seq(Calls) /\ DOMAIN tasks' = DOMAIN tasks /\ Len(tasks') = Len(tasks)
      /\ (\A j \in DOMAIN tasks : j # i => tasks'[j] = tasks[j]) /\ tasks'[i] = u
  BY <1>1, <1>2, <1>4
<1> QED  BY <1>3, <1>5 DEF u

\* What an envelope does to the session.
SessionEnds == room' = None /\ creds' = None /\ buf' = << >>
\* What handle_inbound does with it, a resolved waiter or not.
Handles(m) ==
    /\ m.k \in {"state", "joined", "created"} => room' = m.r /\ UNCHANGED <<creds, buf>>
    /\ m.k = "closed" => SessionEnds
\* One that resolved a waiter,
LEMMA HandledReply ==
    ASSUME NEW m \in Envelopes, Handle(m, TRUE)
    PROVE  Handles(m) /\ (m.k = "error" => UNCHANGED <<room, creds, buf>>)
<1> USE DEF Handle, DropSession, SameSession, SessionEnds, Handles
<1>0. m.k \in {"state", "joined", "created", "closed", "error"}  BY EnvelopeTyped
<1>1. CASE m.k \in {"state", "joined", "created"}  BY <1>1
<1>2. CASE m.k = "closed"  BY <1>2
<1>3. CASE m.k = "error"  BY <1>3
<1> QED  BY <1>0, <1>1, <1>2, <1>3

\* and one nobody waited for.
LEMMA HandledAlone ==
    ASSUME NEW m \in Envelopes, Handle(m, FALSE)
    PROVE  /\ Handles(m)
           /\ m.k = "error" /\ m.r \in {"RoomNotFound", "NotJoined"} => SessionEnds
           /\ m.k = "error" /\ m.r \notin {"RoomNotFound", "NotJoined"} => UNCHANGED <<room, creds, buf>>
<1> USE DEF Handle, DropSession, SameSession, SessionEnds, EndsMembership, Handles
<1>0. m.k \in {"state", "joined", "created", "closed", "error"}  BY EnvelopeTyped
<1>1. CASE m.k \in {"state", "joined", "created"}  BY <1>1
<1>2. CASE m.k = "closed"  BY <1>2
<1>3. CASE m.k = "error"  BY <1>3
<1> QED  BY <1>0, <1>1, <1>2, <1>3

\* under the inbound loop,
LEMMA DeliverTypes == ASSUME MemberTypes, Deliver  PROVE MemberTypes'
<1> USE DEF MemberTypes, ServerTypes, PipeTypes, MineTypes, PastTypes
<1> DEFINE m == Head(down)
<1>1. down' \in Seq(Envelopes) /\ m \in Envelopes  BY DEF Deliver
<1>2. UNCHANGED <<link, up, server, pendLeave, hooks, hist>>  BY DEF Deliver
<1>3. tasks' \in Seq(Calls)
  <2>1. CASE UNCHANGED tasks  BY <2>1
  <2>2. CASE \E i \in Resolves(m) : tasks' = [tasks EXCEPT ![i].reply = m]
    <3>1. PICK i \in Resolves(m) : tasks' = [tasks EXCEPT ![i].reply = m]  BY <2>2
    <3>2. i \in DOMAIN tasks  BY DEF Resolves
    <3> HIDE DEF m
    <3> QED  BY <1>1, <3>1, <3>2, Replied
  <2> QED  BY <2>1, <2>2 DEF Deliver
<1>4. room' \in RoomNames /\ creds' \in Joinable \cup {None} /\ buf' \in Seq(Requests)
  <2>1. CASE SameSession  BY <2>1 DEF SameSession
  <2>2. CASE Handle(m, TRUE) \/ Handle(m, FALSE)
    <3> HIDE DEF m
    <3>1. Handles(m) /\ (m.k = "error" => SessionEnds \/ UNCHANGED <<room, creds, buf>>)
      BY <1>1, <2>2, HandledReply, HandledAlone
    <3>2. CASE SessionEnds  BY <3>2 DEF SessionEnds, RoomNames
    <3>3. CASE UNCHANGED <<room, creds, buf>>  BY <3>3
    <3>4. CASE room' = m.r /\ m.r \in Rooms /\ UNCHANGED <<creds, buf>>  BY <3>4 DEF RoomNames
    <3>5. m.k \in {"state", "joined", "created", "closed", "error"} /\ (m.k # "error" => m.r \in Rooms)
      BY <1>1, EnvelopeTyped
    <3> HIDE DEF MemberTypes
    <3> QED  BY <3>1, <3>2, <3>3, <3>4, <3>5 DEF Handles
  <2> QED  BY <2>1, <2>2 DEF Deliver
<1> QED  BY <1>1, <1>2, <1>3, <1>4 DEF server, hist

\* and under calls that resume or give up.
LEMMA ResumeTypes ==
    ASSUME MemberTypes, \E i \in DOMAIN tasks : Timeout(i) \/ TimeoutRaces(i) \/ Resume(i)
    PROVE  MemberTypes'
<1> PICK i \in DOMAIN tasks : Timeout(i) \/ TimeoutRaces(i) \/ Resume(i)  OBVIOUS
<1> USE DEF MemberTypes, ServerTypes, PipeTypes, MineTypes, PastTypes
<1>1. RemoveAt(tasks, i) \in Seq(Calls) /\ tasks[i] \in Calls  BY RemovedTyped
<1>2. CASE Timeout(i)
  <2>1. torn' \in BOOLEAN  BY <1>2 DEF Timeout
  <2> QED  BY <1>1, <1>2, <2>1 DEF Timeout, GivesUp, wires, server
<1>3. CASE TimeoutRaces(i)
  <2>1. trouble' \in Nat /\ torn' \in BOOLEAN  BY <1>3, FaultTypes DEF TimeoutRaces
  <2> QED  BY <1>1, <1>3, <2>1 DEF TimeoutRaces, GivesUp, wires, server
<1> DEFINE t == tasks[i]
<1>4. CASE JoinResumes(i)
  <2>1. UNCHANGED <<link, down, server, pendLeave, hooks, ops, trouble, torn, hasty, starved>>
        /\ tasks' = RemoveAt(tasks, i) /\ t.kind = "join" /\ ~Waiting(t)
    BY <1>4 DEF JoinResumes
  <2>2. CASE t.reply.k = "error"
    <3>1. SameSession /\ UNCHANGED <<up, left>>  BY <1>4, <2>2 DEF JoinResumes
    <3> QED  BY <1>1, <2>1, <3>1 DEF server, SameSession
  <2>3. CASE t.reply.k # "error"
    <3>1. t.r \in Joinable /\ t.held \in RoomNames /\ t.reply.r \in Rooms
      BY <1>1, <2>1, <2>3, CallKinds, ReplyTyped DEF Waiting
    <3>2. room' = t.reply.r /\ creds' = t.r  BY <1>4, <2>3 DEF JoinResumes
    <3>3. Msg("leave", t.held) \in Requests  BY <3>1, EnvelopesTyped
    <3>4. SendOrBuffer(Msg("leave", t.held)) \/ UNCHANGED <<up, buf>>  BY <1>4, <2>3 DEF JoinResumes
    <3>5. up' \in Seq(Requests) /\ buf' \in Seq(Requests)
      <4> HIDE DEF t
      <4> QED  BY <3>3, <3>4, SendTypes
    <3>6. left' \in SUBSET Rooms
      <4>1. left' = IF t.held \notin {None, t.reply.r} /\ ~hasty THEN {t.held} ELSE {}  BY <1>4, <2>3 DEF JoinResumes
      <4> QED  BY <3>1, <4>1 DEF RoomNames
    <3> QED  BY <1>1, <2>1, <3>1, <3>2, <3>5, <3>6 DEF server, RoomNames
  <2> QED  BY <2>2, <2>3
<1>5. CASE CreateResumes(i)
  <2>1. room' \in RoomNames
    <3>1. CASE t.reply.k = "error"  BY <1>5, <3>1 DEF CreateResumes
    <3>2. CASE t.reply.k # "error"
      <4>1. t.reply.r \in Rooms  BY <1>1, <1>5, <3>2, CallKinds, ReplyTyped DEF Waiting, CreateResumes
      <4> QED  BY <1>5, <3>2, <4>1 DEF CreateResumes, RoomNames
    <3> QED  BY <3>1, <3>2
  <2> QED  BY <1>1, <1>5, <2>1 DEF CreateResumes, wires, server, hist
<1>6. CASE RejoinResumes(i)
  <2>1. t.reply.k = "joined" => t.reply.r \in Rooms
    BY <1>1, <1>6, CallKinds, ReplyTyped DEF Waiting, RejoinResumes
  <2>2. room' \in RoomNames  BY <1>6, <2>1 DEF RejoinResumes, DropSession, RoomNames
  <2>3. creds' \in Joinable \cup {None}  BY <1>6 DEF RejoinResumes, DropSession
  <2>4. up' \in {up, up \o buf} /\ buf' \in {buf, <<>>}
    <3> HIDE DEF MemberTypes
    <3>1. CASE DropSession /\ UNCHANGED up  BY <3>1 DEF DropSession
    <3>2. CASE ~ (DropSession /\ UNCHANGED up)  BY <1>6, <3>2 DEF RejoinResumes
    <3> QED  BY <3>1, <3>2
  <2>5. up' \in Seq(Requests) /\ buf' \in Seq(Requests)
    <3>1. up \o buf \in Seq(Requests) /\ <<>> \in Seq(Requests)  OBVIOUS
    <3> QED  BY <2>4, <3>1
  <2> QED  BY <1>1, <1>6, <2>2, <2>3, <2>5 DEF RejoinResumes, server, hist
<1> QED  BY <1>2, <1>3, <1>4, <1>5, <1>6 DEF Resume

\* Types, under every step.
LEMMA MemberTypesKept ==
    ASSUME MemberTypes, Next \/ UNCHANGED vars  PROVE MemberTypes'
<1>1. CASE UNCHANGED vars
  BY <1>1 DEF vars, server, wires, mine, hist, MemberTypes, ServerTypes, PipeTypes, MineTypes, PastTypes
<1> QED  BY <1>1, ServeTypes, WorldTypes, CommandTypes, HookTypes, DeliverTypes, ResumeTypes DEF Next

-----------------------------------------------------------------------------
(* The seats and the subscription.                                            *)

\* Where the connection follows the user's seat.
Seats ==
    /\ \A r \in Seated : life[r] = "open"
    /\ \A r \in Joinable : life[r] # "unborn"
    /\ \A r \in Own : life[r] = "unborn" => seat[r] = "none"
    /\ link = "on" => \A r \in Rooms : seat[r] # "off"
    /\ link # "on" => \A r \in Rooms : seat[r] # "on"

\* A subscription just synchronised.
LEMMA FollowsSeat ==
    ASSUME MemberTypes, Seats', sub' \in Follows(seat', life')
    PROVE  /\ (link = "on")' => (Seated' = {} => sub' = None) /\ (Seated' # {} => sub' \in Seated')
           /\ (link # "on")' => sub' = None
<1> DEFINE live == {r \in Rooms : seat'[r] = "on" /\ life'[r] = "open"}
<1>0. sub \in RoomNames  BY DEF MemberTypes, ServerTypes
<1>1. (live = {} => sub' = None) /\ (live # {} => sub' \in live)  BY <1>0, FollowsTyped
<1>2. (link = "on")' => live = Seated'  BY DEF Seats, Seated
<1>3. (link # "on")' => live = {}  BY DEF Seats
<1> HIDE DEF live
<1> QED  BY <1>1, <1>2, <1>3

\* The seats under the server's answers,
LEMMA SeatInvServe ==
    ASSUME MemberTypes, SeatInv, Serve  PROVE SeatInv'
<1> DEFINE m == Head(up)
<1>1. m \in Requests  BY DEF MemberTypes, PipeTypes, Serve
<1>2. link = "on" /\ link' = "on"  BY DEF Serve
<1>3. Seats  BY DEF SeatInv, Seats
<1>4. CASE UNCHANGED server  BY <1>2, <1>4 DEF SeatInv, Seated, server
<1>5. CASE Seats' /\ sub' \in Follows(seat', life')
  <2>1. (Seated' = {} => sub' = None) /\ (Seated' # {} => sub' \in Seated')  BY <1>2, <1>5, FollowsSeat
  <2> QED  BY <1>2, <1>5, <2>1 DEF SeatInv, Seats
<1> USE <1>3 DEF Seats, Seated, MemberTypes, ServerTypes
<1>6. CASE m.k = "join"
  <2>1. SrvJoin(m) /\ m.r \in Rooms  BY <1>1, <1>6 DEF Serve, Requests, Rooms
  <2>2. CASE UNCHANGED server  BY <1>4, <2>2
  <2>3. CASE /\ life[m.r] = "open" /\ seat' = [seat EXCEPT ![m.r] = "on"] /\ life' = life
             /\ sub' \in Follows(seat', life')
    <3> HIDE DEF m
    <3>1. Seats'  BY <1>2, <2>1, <2>3
    <3> QED  BY <1>5, <2>3, <3>1
  <2> HIDE DEF m, Seats
  <2> QED  BY <2>1, <2>2, <2>3 DEF SrvJoin, Reply
<1>7. CASE m.k = "create"
  <2>1. SrvCreate  BY <1>7 DEF Serve
  <2>2. CASE UNCHANGED server  BY <1>4, <2>2
  <2>3. CASE ~ \A r \in Own : life[r] # "unborn"
    <3> DEFINE r == CHOOSE q \in Own : life[q] = "unborn"
    <3>1. r \in Own /\ r \in Rooms /\ r \notin Joinable  BY <2>3, ClientRoomAssumption DEF Rooms, ClientRoomAssumption
    <3>2. /\ life' = [life EXCEPT ![r] = "open"] /\ seat' = [seat EXCEPT ![r] = "on"]
          /\ sub' \in Follows(seat', life')
      BY <2>1, <2>3 DEF SrvCreate
    <3> HIDE DEF r
    <3>3. Seats'  BY <1>2, <3>1, <3>2 DEF Rooms
    <3> QED  BY <1>5, <3>2, <3>3
  <2> QED  BY <2>1, <2>2, <2>3 DEF SrvCreate, Reply
<1>8. CASE m.k = "leave"
  <2>1. SrvLeave(m)  BY <1>8 DEF Serve
  <2>2. CASE Leaving(m) = {}  BY <1>4, <2>1, <2>2 DEF SrvLeave, Reply
  <2>3. CASE Leaving(m) # {}
    <3>1. PICK r \in Leaving(m) :
             /\ seat' = [seat EXCEPT ![r] = IF r \in Own THEN "none" ELSE "left"]
             /\ life' = IF r \in Own THEN [life EXCEPT ![r] = "ended"] ELSE life
             /\ sub' \in Follows(seat', life')
      BY <2>1, <2>3 DEF SrvLeave
    <3>2. r \in Rooms /\ (r \in Own => r \notin Joinable)  BY ClientRoomAssumption DEF Leaving, ClientRoomAssumption
    <3>3. Seats'  BY <1>2, <3>1, <3>2 DEF Rooms
    <3> QED  BY <1>5, <3>1, <3>3
  <2> QED  BY <2>2, <2>3
<1> QED  BY <1>1, <1>6, <1>7, <1>8 DEF Requests

\* under faults, reconnects and the sweep,
LEMMA SeatInvWorld ==
    ASSUME MemberTypes, SeatInv, Drop \/ Reconnect \/ DialFails \/ \E r \in Rooms : RoomEnds(r) \/ Reap(r)
    PROVE  SeatInv'
<1>3. Seats /\ (link # "on" => sub = None /\ up = <<>> /\ down = <<>>)  BY DEF SeatInv, Seats
<1> DEFINE Wired == link # "on" => up = <<>> /\ down = <<>>
<1>5. CASE Seats' /\ sub' \in Follows(seat', life') /\ Wired'
  <2>1. /\ (link = "on")' => (Seated' = {} => sub' = None) /\ (Seated' # {} => sub' \in Seated')
        /\ (link # "on")' => sub' = None
    BY <1>5, FollowsSeat
  <2> QED  BY <1>5, <2>1 DEF SeatInv, Seats
<1>4. CASE Seats' /\ sub' = None /\ link' # "on" /\ Wired'  BY <1>4 DEF SeatInv, Seats
<1> USE DEF MemberTypes, ServerTypes, Seats, Seated
<1>6. CASE Drop
  <2>2. \A r \in Rooms : seat'[r] = IF seat[r] = "on" THEN "off" ELSE seat[r]  BY <1>6 DEF Drop
  <2>1. Seats' /\ link' # "on" /\ Wired' /\ sub' = None  BY <1>3, <1>6, <2>2 DEF Drop, Rooms
  <2> QED  BY <1>4, <2>1
<1>7. CASE Reconnect
  <2>3. \A r \in Rooms : seat'[r] = IF seat[r] = "off" /\ life[r] = "open" THEN "on" ELSE seat[r]
    BY <1>7 DEF Reconnect
  <2>4. link' = "on" /\ life' = life /\ link # "on"  BY <1>7 DEF Reconnect
  <2>1. Seats' /\ Wired'  BY <1>3, <2>3, <2>4 DEF Rooms
  <2>2. sub' \in Follows(seat', life') /\ life' = life  BY <1>7 DEF Reconnect
  <2> QED  BY <1>5, <2>1, <2>2
<1>8. CASE DialFails
  <2>1. Seats' /\ Wired' /\ link' # "on" /\ sub' = None  BY <1>3, <1>8 DEF DialFails, server
  <2> QED  BY <1>4, <2>1
<1>9. ASSUME NEW r \in Rooms, RoomEnds(r)  PROVE SeatInv'
  <2>1. r \in Joinable /\ r \notin Own  BY <1>9, ClientRoomAssumption DEF RoomEnds, ClientRoomAssumption
  <2>2. Seats'  BY <1>3, <1>9, <2>1 DEF RoomEnds
  <2>3. Wired' /\ link' = link  BY <1>3, <1>9 DEF RoomEnds
  <2>4. sub' \in IF link = "on" THEN Follows(seat', life') ELSE {None}  BY <1>9 DEF RoomEnds
  <2> QED  BY <1>4, <1>5, <2>2, <2>3, <2>4
<1>10. ASSUME NEW r \in Rooms, Reap(r)  PROVE SeatInv'
  <2>1. r \in Own => r \notin Joinable  BY ClientRoomAssumption DEF ClientRoomAssumption
  <2>2. UNCHANGED <<link, up, down>> /\ sub' \in Follows(seat', life')  BY <1>10 DEF Reap, wires
  <2>3. Seats'  BY <1>3, <1>10, <2>1, <2>2 DEF Reap, Rooms
  <2> QED  BY <1>3, <1>5, <2>2, <2>3
<1> QED  BY <1>6, <1>7, <1>8, <1>9, <1>10

\* under the client's own steps,
LEMMA SeatInvMine ==
    ASSUME MemberTypes, SeatInv,
           Leave \/ Create \/ Hook \/ Deliver \/ (\E r \in Joinable : Join(r))
              \/ \E i \in DOMAIN tasks : Timeout(i) \/ TimeoutRaces(i) \/ Resume(i)
    PROVE  SeatInv'
<1>1. UNCHANGED <<server, link>>
  BY DEF Leave, Create, Hook, Deliver, Join, Timeout, TimeoutRaces, GivesUp, Resume, JoinResumes,
         CreateResumes, RejoinResumes, wires, server
<1>2. link # "on" => UNCHANGED <<up, down>>
  BY DEF Leave, Create, Hook, Deliver, Join, Timeout, TimeoutRaces, GivesUp, Resume, JoinResumes,
         CreateResumes, RejoinResumes, wires, server, SendOrBuffer
<1> QED  BY <1>1, <1>2 DEF SeatInv, Seated, server

\* and under every step.
LEMMA SeatInvKept ==
    ASSUME MemberTypes, SeatInv, Next \/ UNCHANGED vars  PROVE SeatInv'
<1>1. CASE UNCHANGED vars  BY <1>1 DEF vars, server, wires, mine, hist, SeatInv, Seated
<1> QED  BY <1>1, SeatInvServe, SeatInvWorld, SeatInvMine DEF Next

-----------------------------------------------------------------------------
(* While a fault is mended, or nothing is under way.                          *)

\* Before and after a step of a client that recovers.
Fit == MemberTypes /\ SeatInv /\ Common /\ Recovering
Fits == Common /\ (Recovering \/ Busy)

\* Only rejoins of the hook wait for answers while nothing else is under way.
LEMMA Quiet ==
    ASSUME Fit, tasks = << >>
    PROVE  up = << >> /\ \A i \in DOMAIN down : /\ down[i].k \in {"state", "closed"}
                                                /\ down[i].k = "state" => i = 1 /\ down[i].r = room
<1>1. ~SomeWait  BY DEF SomeWait
<1>2. up = << >>  BY <1>1 DEF Fit, Recovering, RUp
<1>3. \A i \in DOMAIN down : down[i] \in Envelopes  BY DEF Fit, MemberTypes, PipeTypes
<1>4. \A i \in DOMAIN down : down[i].k \in {"state", "closed"}
  BY <1>1, <1>3, EnvelopeTyped DEF Fit, Recovering, RDown, IsAnswer
<1>5. \A i \in DOMAIN down : down[i].k = "state" => i = 1 /\ down[i].r = room  BY DEF Fit, Recovering, RDown
<1> QED  BY <1>2, <1>4, <1>5

\* The room ends while no command is under way: its closing is on the way down,
\* or the rejoin will be refused.
LEMMA EndsRecovering ==
    ASSUME Fit, SeatInv', Good', NEW r \in Rooms, RoomEnds(r)  PROVE Fits'
<1>1. tasks = << >> /\ tasks' = << >>  BY DEF RoomEnds, Fault, Good, mine
<1>2. /\ up = << >> /\ up' = << >> /\ r \in Joinable /\ life' = [life EXCEPT ![r] = "ended"]
      /\ seat' = [seat EXCEPT ![r] = "none"] /\ trouble' = trouble + 1
      /\ down' = IF sub = r /\ link = "on" THEN Append(down, Msg("closed", r)) ELSE down
      /\ UNCHANGED <<link, room, creds, buf, pendLeave, hooks, left>>
  BY <1>1, Quiet DEF RoomEnds, Fault, mine
<1>3. /\ down \in Seq(Envelopes) /\ life \in [Rooms -> {"unborn", "open", "ended"}]
      /\ seat \in [Rooms -> {"none", "on", "off", "left"}] /\ trouble \in Nat /\ left \subseteq Rooms
  BY DEF Fit, MemberTypes, PipeTypes, ServerTypes, PastTypes
<1>4. \A x \in Rooms : x # r => life'[x] = life[x] /\ seat'[x] = seat[x]  BY <1>2, <1>3
<1>5. life'[r] = "ended" /\ seat'[r] = "none"  BY <1>2, <1>3
<1>6. /\ DOMAIN down \subseteq DOMAIN down' /\ \A i \in DOMAIN down : down'[i] = down[i]
      /\ \A i \in DOMAIN down' : i \in DOMAIN down \/ down'[i] = Msg("closed", r)
      /\ sub = r /\ link = "on" => \E i \in DOMAIN down' : down'[i] = Msg("closed", r)
  <2>1. CASE sub = r /\ link = "on"
    <3>1. down' = Append(down, Msg("closed", r))  BY <1>2, <2>1
    <3>2. Len(down') = Len(down) + 1 /\ down'[Len(down) + 1] = Msg("closed", r) /\ DOMAIN down' = 1 .. Len(down) + 1
      BY <1>3, <3>1
    <3> QED  BY <1>3, <3>1, <3>2
  <2>2. CASE ~ (sub = r /\ link = "on")  BY <1>2, <2>2
  <2> QED  BY <2>1, <2>2
<1>7. Common'
  <2>1. ASSUME NEW i \in DOMAIN down', down'[i].k = "closed"  PROVE life'[down'[i].r] = "ended"
    <3>1. CASE i \in DOMAIN down
      <4>1. down[i].k = "closed" /\ life[down[i].r] = "ended" /\ down[i].r \in Rooms
        BY <1>3, <1>6, <2>1, <3>1, EnvelopeTyped DEF Fit, Common
      <4> QED  BY <1>4, <1>5, <1>6, <3>1, <4>1
    <3>2. CASE down'[i] = Msg("closed", r)  BY <1>5, <3>2 DEF Msg
    <3> QED  BY <1>6, <3>1, <3>2
  <2>2. \A x \in left' : life'[x] # "unborn"  BY <1>2, <1>3, <1>4, <1>5 DEF Fit, Common
  <2>3. trouble' # 0  BY <1>2, <1>3
  <2> QED  BY <1>2, <2>1, <2>2, <2>3 DEF Fit, Common
<1>8. Seated' = Seated \ {r}  BY <1>4, <1>5 DEF Seated
<1>9. room' # None /\ Seated' = {} => room' \in Joinable /\ Repaired'
  <2> SUFFICES ASSUME room # None, Seated' = {}  PROVE room \in Joinable /\ Repaired'
      BY <1>2
  <2>1. CASE Seated = {}
    <3>1. room \in Joinable /\ Repaired  BY <2>1 DEF Fit, Recovering
    <3>2. Repaired'  BY <1>1, <1>2, <1>6, <3>1 DEF Repaired
    <3> QED  BY <3>1, <3>2
  <2>2. CASE Seated # {}
    <3>1. room = r /\ Seated = {r}  BY <1>8, <2>2 DEF Fit, Recovering
    <3>2. link = "on" => sub = r  BY <3>1 DEF Fit, SeatInv
    <3>3. Repaired'  BY <1>2, <1>6, <3>1, <3>2 DEF Repaired
    <3> QED  BY <1>2, <3>1, <3>3
  <2> QED  BY <2>1, <2>2
<1>10. ASSUME NEW i \in DOMAIN down'  PROVE RDown(i)'
  <2>1. \A j \in DOMAIN down' : /\ down'[j].k \in {"state", "closed"}
                                /\ down'[j].k = "state" => j = 1 /\ down'[j].r = room'
    BY <1>1, <1>2, <1>6, Quiet DEF Msg
  <2>2. ~IsAnswer(down'[i]) /\ down'[i] # RNF /\ down'[i].k \notin {"created", "joined", "error"}
    BY <2>1 DEF IsAnswer, RNF, Msg
  <2>3. \A j \in DOMAIN tasks' : tasks'[j].reply # RNF  BY <1>1
  <2> QED  BY <2>1, <2>2, <2>3 DEF RDown, RNF, Msg
<1>11. Recovering'
  <2>1. Seated' \subseteq {room'} /\ (creds = Cred(room))' /\ room' \notin left'
    BY <1>2, <1>8 DEF Fit, Recovering, Cred
  <2> QED  BY <1>1, <1>2, <1>9, <1>10, <2>1 DEF Recovering, RUp
<1> QED  BY <1>7, <1>11 DEF Fits

\* The link is lost, for good or not: everything under way goes with it.
LEMMA DropRecovering ==
    ASSUME Fit, Good', Drop \/ DialFails  PROVE Fits'
<1>1. /\ link' # "on" /\ hooks = 0 /\ trouble' = trouble + 1
      /\ UNCHANGED <<life, room, creds, buf, pendLeave, tasks, hooks, left>>
  <2>1. CASE Drop
    <3>1. ~(hooks > 0)  BY <2>1 DEF Drop, Fault, Good
    <3> QED  BY <2>1, <3>1 DEF Drop, Fault, mine, Fit, Common
  <2>2. CASE DialFails
    <3>1. link = "lost" /\ link' = "out"  BY <2>2 DEF DialFails
    <3>2. hooks = 0  BY <3>1 DEF Fit, Common
    <3> QED  BY <2>2, <3>1, <3>2 DEF DialFails, Fault, mine, server
  <2> QED  BY <2>1, <2>2
<1>2. up' = << >> /\ down' = << >>  BY DEF Drop, DialFails, Fit, SeatInv
<1>3. Seated' = Seated
  <2>1. CASE Drop
    <3>1. \A r \in Rooms : seat'[r] = IF seat[r] = "on" THEN "off" ELSE seat[r]  BY <2>1 DEF Drop
    <3> QED  BY <3>1 DEF Seated
  <2>2. CASE DialFails  BY <2>2 DEF DialFails, server, Seated
  <2> QED  BY <2>1, <2>2
<1>4. trouble' # 0  BY <1>1 DEF Fit, MemberTypes, PastTypes
<1>5. Common'  BY <1>1, <1>2, <1>4 DEF Fit, Common
<1>6. Recovering'
  <2>1. \A i \in DOMAIN tasks' : RTask(tasks[i])'  BY <1>1 DEF Fit, Recovering, RTask, OverFor
  <2>2. Repaired'  BY <1>1 DEF Repaired
  <2> QED  BY <1>1, <1>2, <1>3, <2>1, <2>2 DEF Fit, Recovering, RUp, Cred
<1> QED  BY <1>5, <1>6 DEF Fits

\* AUTH_OK: the hook is to run.
LEMMA ReconnectRecovering ==
    ASSUME Fit, SeatInv', Good', Reconnect  PROVE Fits'
<1>1. /\ link # "on" /\ link' = "on" /\ hooks' = hooks + 1
      /\ UNCHANGED <<life, up, room, creds, buf, pendLeave, tasks, left, trouble>>
  BY DEF Reconnect, hist
<1>2. hooks = 0 /\ hooks' = 1 /\ up' = << >> /\ trouble # 0  BY <1>1 DEF Fit, Common, SeatInv
<1>3. Seated' = Seated
  <2>1. \A r \in Rooms : seat'[r] = IF seat[r] = "off" /\ life[r] = "open" THEN "on" ELSE seat[r]  BY DEF Reconnect
  <2> QED  BY <2>1 DEF Seated
<1>4. sub' \in Follows(seat', life') /\ down' = IF sub' = None THEN << >> ELSE <<Msg("state", sub')>>
  BY DEF Reconnect
<1>5. sub' # None => sub' \in Seated
  <2>1. sub' \in Seated' \/ sub' = None  BY <1>1 DEF SeatInv
  <2> QED  BY <1>3, <2>1
<1>6. \A i \in DOMAIN down' : i = 1 /\ down'[i] = Msg("state", sub') /\ sub' \in Seated  BY <1>4, <1>5
<1>7. Common'
  <2>1. \A i \in DOMAIN down' : down'[i].k # "closed"  BY <1>6 DEF Msg
  <2> QED  BY <1>1, <1>2, <2>1 DEF Fit, Common
<1>8. ASSUME NEW i \in DOMAIN down'  PROVE RDown(i)'
  <2>1. sub' = room /\ life[room] = "open" /\ room # None  BY <1>6, <1>8, ClientRoomAssumption DEF Fit, Recovering, SeatInv, Seated, Rooms, ClientRoomAssumption
  <2>2. \A j \in DOMAIN tasks : tasks[j].reply # RNF
    BY <2>1 DEF Fit, Recovering, RTask, OverFor
  <2>3. i = 1 /\ down'[i].k = "state" /\ down'[i].r = room'  BY <1>1, <1>6, <2>1 DEF Msg
  <2>4. \A j \in DOMAIN tasks' : tasks'[j].reply # RNF'  BY <1>1, <2>2 DEF RNF, Msg
  <2>5. ~IsAnswer(down'[i]) /\ down'[i] # RNF  BY <2>3 DEF IsAnswer, RNF, Msg
  <2> QED  BY <2>3, <2>4, <2>5 DEF RDown
<1>9. Recovering'
  <2>1. \A i \in DOMAIN tasks' : RTask(tasks[i])'  BY <1>1 DEF Fit, Recovering, RTask, OverFor
  <2>2. Repaired'  BY <1>2 DEF Repaired
  <2> QED  BY <1>1, <1>2, <1>3, <1>8, <2>1, <2>2 DEF Fit, Recovering, RUp, Cred
<1> QED  BY <1>7, <1>9 DEF Fits

\* A record that nobody refreshed while the user was away.
LEMMA ReapRecovering ==
    ASSUME Fit, Good', NEW r \in Rooms, Reap(r)  PROVE Fits'
<1>1. /\ up = << >> /\ down = << >> /\ tasks = << >> /\ seat' = [seat EXCEPT ![r] = "none"]
      /\ life' = IF r \in Own THEN [life EXCEPT ![r] = "ended"] ELSE life
      /\ UNCHANGED <<link, up, down, tasks, room, creds, buf, pendLeave, hooks, left, trouble>>
  BY DEF Reap, wires, mine
<1>2. room = r => link # "on" /\ creds = r  BY DEF Reap, Good
<1>3. Seated' = Seated \ {r}  BY <1>1 DEF Seated, Fit, MemberTypes, ServerTypes
<1>4. \A x \in left' : life'[x] # "unborn"  BY <1>1 DEF Fit, Common, MemberTypes, PastTypes, ServerTypes
<1>5. Common'
  <2>1. \A x \in Joinable : life'[x] = life[x]
    BY <1>1, ClientRoomAssumption DEF ClientRoomAssumption, Fit, MemberTypes, ServerTypes, Rooms
  <2> QED  BY <1>1, <1>4, <2>1 DEF Fit, Common
<1>6. room' # None /\ Seated' = {} => room' \in Joinable /\ Repaired'
  <2>1. CASE room = r
    <3>1. Repaired'  BY <1>1, <1>2, <2>1 DEF Repaired
    <3>2. room # None => room \in Joinable
      BY <1>2, <2>1 DEF Fit, Recovering, Cred
    <3> QED  BY <1>1, <3>1, <3>2
  <2>2. CASE room # r
    <3>1. Seated' = Seated  BY <1>3, <2>2 DEF Fit, Recovering
    <3>2. Repaired => Repaired'  BY <1>1 DEF Repaired
    <3> QED  BY <1>1, <3>1, <3>2 DEF Fit, Recovering
  <2> QED  BY <2>1, <2>2
<1>7. Recovering'  BY <1>1, <1>3, <1>6 DEF Fit, Recovering, RUp, Cred
<1> QED  BY <1>5, <1>7 DEF Fits

\* The rejoin is answered.
LEMMA ServeRecovering ==
    ASSUME Fit, Serve  PROVE Fits'
<1>1. PICK c \in Joinable : /\ up = <<Msg("join", c)>> /\ hooks = 0 /\ SomeWait
                            /\ c = room \/ (room = None /\ life[c] = "ended")
  BY DEF Serve, Fit, Recovering, RUp
<1>2. up' = << >> /\ UNCHANGED <<link, mine, hist>> /\ Head(up) = Msg("join", c)  BY <1>1 DEF Serve
<1>3. UNCHANGED <<link, room, creds, buf, pendLeave, tasks, hooks, left, trouble>>  BY <1>2 DEF mine, hist
<1>4. SrvJoin(Msg("join", c))
  <2>1. Head(up).k = "join"  BY <1>2 DEF Msg
  <2>2. SrvJoin(Head(up))  BY <2>1 DEF Serve
  <2> QED  BY <1>2, <2>2
<1>5. Msg("join", c).r = c /\ c \in Rooms /\ c # None  BY ClientRoomAssumption DEF Msg, Rooms, ClientRoomAssumption
<1>6. down \in Seq(Envelopes) /\ life \in [Rooms -> {"unborn", "open", "ended"}]
      /\ seat \in [Rooms -> {"none", "on", "off", "left"}]
  BY DEF Fit, MemberTypes, PipeTypes, ServerTypes
<1> DEFINE n == Len(down) + 1
<1>7. ASSUME NEW e, down' = Append(down, e)
      PROVE  /\ n = Len(down') /\ n \in DOMAIN down' /\ down'[n] = e
             /\ \A i \in DOMAIN down' : i = n \/ (i \in DOMAIN down /\ down'[i] = down[i])
  BY <1>6, <1>7
<1>8. \A i \in DOMAIN down : ~IsAnswer(down[i])  BY <1>1 DEF Fit, Recovering, RDown
<1> DEFINE Heard(e) ==  /\ e.k \in {"joined", "error"}
                        /\ e.k = "joined" => e.r = room /\ life[room] = "open"
                        /\ e.k = "error" => e.r \in {"AlreadyJoined", "RoomNotFound"}
                        /\ e = RNF => OverFor(room)
<1>9. ASSUME NEW e, down' = Append(down, e), Heard(e), life' = life,
             Seated' \subseteq {room},
             Seated' = {} => e = RNF /\ (room # None => room \in Joinable)
      PROVE  Fits'
  <2>1. \A i \in DOMAIN down' : i = n \/ (i \in DOMAIN down /\ down'[i] = down[i])  BY <1>7, <1>9
  <2>2. n = Len(down') /\ n \in DOMAIN down' /\ down'[n] = e  BY <1>7, <1>9
  <2> HIDE DEF n
  <2>3. Common'  BY <1>3, <1>9, <2>1, <2>2 DEF Fit, Common
  <2>4. SomeWait'  BY <1>1, <1>3 DEF SomeWait, Waiting
  <2>5. ASSUME NEW i \in DOMAIN down'  PROVE RDown(i)'
    <3>1. CASE i \in DOMAIN down /\ down'[i] = down[i]
      <4>1. RDown(i) /\ ~IsAnswer(down[i])  BY <1>8, <3>1 DEF Fit, Recovering
      <4> QED  BY <1>3, <1>9, <3>1, <4>1 DEF RDown, IsAnswer, RNF, Msg, OverFor
    <3>2. CASE i = n
      <4>1. down'[i] = e /\ i = Len(down')  BY <2>2, <3>2
      <4> QED  BY <1>1, <1>2, <1>3, <1>9, <2>4, <4>1 DEF RDown, IsAnswer, RNF, Msg, OverFor
    <3> QED  BY <2>1, <3>1, <3>2
  <2>6. \A i \in DOMAIN tasks' : RTask(tasks[i])'  BY <1>3, <1>9 DEF Fit, Recovering, RTask, OverFor, RNF, Msg
  <2>7. Seated' = {} => Repaired'  BY <1>9, <2>2 DEF Repaired, RNF, Msg
  <2>8. Recovering'
    BY <1>2, <1>3, <1>9, <2>5, <2>6, <2>7 DEF Fit, Recovering, RUp, Cred
  <2> QED  BY <2>3, <2>8 DEF Fits
<1> HIDE DEF Heard, n
<1>10. Seated \subseteq {room} /\ (room # None /\ Seated = {} => room \in Joinable)  BY DEF Fit, Recovering
<1>11. CASE life[c] # "open"
  <2>1. down' = Append(down, RNF) /\ UNCHANGED server  BY <1>4, <1>5, <1>11 DEF SrvJoin, Reply, RNF
  <2>2. life[c] = "ended"  BY <1>5, <1>6, <1>11 DEF Fit, SeatInv
  <2>3. Heard(RNF)  BY <1>1, <2>2 DEF Heard, RNF, Msg, OverFor
  <2>4. Seated' = Seated /\ life' = life  BY <2>1 DEF Seated, server
  <2> QED  BY <1>9, <1>10, <2>1, <2>3, <2>4
<1>12. CASE life[c] = "open" /\ seat[c] \in {"on", "off"}
  <2> DEFINE e == Msg("error", "AlreadyJoined")
  <2>1. down' = Append(down, e) /\ UNCHANGED server  BY <1>4, <1>5, <1>12 DEF SrvJoin, Reply
  <2>2. Heard(e)  BY DEF Heard, RNF, Msg
  <2>3. Seated' = Seated /\ life' = life /\ c \in Seated  BY <1>5, <1>12, <2>1 DEF Seated, server
  <2> HIDE DEF e
  <2> QED  BY <1>9, <1>10, <2>1, <2>2, <2>3
<1>13. CASE life[c] = "open" /\ seat[c] \notin {"on", "off"}
  <2> DEFINE e == Msg("joined", c)
  <2>1. down' = Append(down, e) /\ seat' = [seat EXCEPT ![c] = "on"] /\ life' = life
    BY <1>4, <1>5, <1>13 DEF SrvJoin
  <2>2. c = room  BY <1>1, <1>13
  <2>3. Heard(e)  BY <1>13, <2>2 DEF Heard, RNF, Msg
  <2>4. Seated' = Seated \cup {c}  BY <1>5, <1>6, <2>1 DEF Seated
  <2> HIDE DEF e
  <2> QED  BY <1>9, <1>10, <2>1, <2>2, <2>3, <2>4
<1> QED  BY <1>11, <1>12, <1>13

\* The hook runs and asks to rejoin the room of the credentials.
LEMMA HookRecovering ==
    ASSUME Fit, Hook  PROVE Fits'
<1>1. hooks = 1 /\ hooks' = 0 /\ link = "on" /\ pendLeave = {} /\ pendLeave' = {} /\ buf = << >>
  BY DEF Hook, Fit, Common
<1>2. UNCHANGED <<link, down, life, seat, room, creds, left, trouble>>  BY DEF Hook, hist, server
<1>3. up = << >>  BY <1>1 DEF Fit, Recovering, RUp
<1>4. \A i \in DOMAIN down : ~IsAnswer(down[i])  BY <1>1 DEF Fit, Recovering, RDown
<1>5. trouble # 0  BY <1>1 DEF Fit, Common
<1>6. Seated' = Seated  BY <1>2 DEF Seated
<1>7. CASE creds = None
  <2>1. UNCHANGED <<buf, tasks>> /\ up' = up \o SetToSeq(pendLeave)  BY <1>1, <1>7 DEF Hook
  <2>2. SetToSeq(pendLeave) = << >>  BY <1>1, NoneKept, Zenon
  <2>3. up' = << >>  BY <1>3, <2>1, <2>2
  <2>4. Common'  BY <1>1, <1>2, <1>5, <2>1 DEF Fit, Common
  <2>5. room' # None /\ Seated' = {} => room' \in Joinable /\ Repaired'
    BY <1>2, <1>6, <1>7, ClientRoomAssumption DEF Fit, Recovering, Cred, ClientRoomAssumption
  <2>6. ASSUME NEW i \in DOMAIN down'  PROVE RDown(i)'
    <3>1. RDown(i) /\ ~IsAnswer(down[i])  BY <1>2, <1>4, <2>6 DEF Fit, Recovering
    <3> QED  BY <1>2, <2>1, <3>1 DEF RDown, IsAnswer, RNF, Msg, OverFor
  <2>7. \A i \in DOMAIN tasks' : RTask(tasks[i])'  BY <1>2, <2>1 DEF Fit, Recovering, RTask, OverFor, RNF, Msg
  <2>8. Recovering'  BY <1>2, <1>6, <2>3, <2>5, <2>6, <2>7 DEF Fit, Recovering, RUp, Cred
  <2> QED  BY <2>4, <2>8 DEF Fits
<1>8. CASE creds # None
  <2> DEFINE t == Task("rejoin", creds, None)
  <2>1. creds = room /\ room \in Joinable  BY <1>8 DEF Fit, Recovering, Cred
  <2>2. tasks' = Append(tasks, t) /\ SendOrBuffer(Msg("join", creds))  BY <1>1, <1>8 DEF Hook
  <2>3. up' = <<Msg("join", room)>> /\ buf' = buf  BY <1>1, <1>3, <2>1, <2>2 DEF SendOrBuffer
  <2>4. t.kind = "rejoin" /\ t.reply = Msg("wait", None) /\ t.reply.k = "wait"  BY DEF Task, Msg
  <2> HIDE DEF t
  <2>5. /\ DOMAIN tasks \subseteq DOMAIN tasks' /\ \A j \in DOMAIN tasks : tasks'[j] = tasks[j]
        /\ \A j \in DOMAIN tasks' : j \in DOMAIN tasks \/ tasks'[j] = t
        /\ \E j \in DOMAIN tasks' : tasks'[j] = t
    <3>1. tasks \in Seq(Calls)  BY DEF Fit, MemberTypes, MineTypes
    <3>2. tasks'[Len(tasks) + 1] = t /\ Len(tasks) + 1 \in DOMAIN tasks'  BY <2>2, <3>1
    <3> QED  BY <2>2, <3>1, <3>2
  <2>6. Common'  BY <1>1, <1>2, <1>5, <2>3 DEF Fit, Common
  <2>7. \A j \in DOMAIN tasks : tasks[j].reply # RNF => \A l \in DOMAIN tasks' : tasks'[l] = tasks[j] => tasks'[l].reply # RNF
    OBVIOUS
  <2>8. ASSUME NEW i \in DOMAIN down'  PROVE RDown(i)'
    <3>1. RDown(i) /\ ~IsAnswer(down[i])  BY <1>2, <1>4, <2>8 DEF Fit, Recovering
    <3>2. (\A j \in DOMAIN tasks : tasks[j].reply # RNF) => (\A j \in DOMAIN tasks' : tasks'[j].reply # RNF)
      <4>1. t.reply # RNF  BY <2>4 DEF RNF, Msg
      <4> QED  BY <2>5, <4>1
    <3> QED  BY <1>2, <3>1, <3>2 DEF RDown, IsAnswer, RNF, Msg, OverFor
  <2>9. \A i \in DOMAIN tasks' : RTask(tasks[i])'
    <3> SUFFICES ASSUME NEW i \in DOMAIN tasks'  PROVE RTask(tasks[i])'  OBVIOUS
    <3>1. CASE i \in DOMAIN tasks /\ tasks'[i] = tasks[i]
      <4>1. RTask(tasks[i])  BY <3>1 DEF Fit, Recovering
      <4> QED  BY <1>2, <3>1, <4>1 DEF RTask, OverFor, RNF, Msg
    <3>2. CASE tasks'[i] = t  BY <2>4, <3>2 DEF RTask, RNF, Msg
    <3> QED  BY <2>5, <3>1, <3>2
  <2>10. RUp'
    <3>1. SomeWait'  BY <2>4, <2>5 DEF SomeWait, Waiting
    <3> QED  BY <1>1, <1>2, <2>1, <2>3, <3>1 DEF RUp, Msg
  <2>11. Repaired'
    <3>1. 1 \in DOMAIN up' /\ up'[1] = Msg("join", room)'  BY <1>2, <2>3 DEF Msg
    <3> QED  BY <3>1 DEF Repaired
  <2>12. Recovering'  BY <1>2, <1>6, <2>1, <2>8, <2>9, <2>10, <2>11 DEF Fit, Recovering, Cred
  <2> QED  BY <2>6, <2>12 DEF Fits
<1> QED  BY <1>7, <1>8

\* Who waits for an envelope: a call of its kind, or any for an error.
LEMMA WaiterFits ==
    ASSUME NEW m, NEW i \in Resolves(m)
    PROVE  i \in DOMAIN tasks /\ Waiting(tasks[i]) /\ (m.k # "error" => Expects(tasks[i]) = m.k)
BY DEF Resolves

\* The head of what comes down is taken off it.
LEMMA Taken ==
    ASSUME MemberTypes, Deliver
    PROVE  /\ link = "on" /\ down # << >> /\ down' = Tail(down) /\ 1 \in DOMAIN down /\ Head(down) = down[1]
           /\ down[1] \in Envelopes /\ Len(down') = Len(down) - 1
           /\ \A i \in DOMAIN down' : i + 1 \in DOMAIN down /\ down'[i] = down[i + 1] /\ i # 0 /\ i \in Nat
           /\ \A i \in DOMAIN down : i # 1 => i - 1 \in DOMAIN down' /\ down'[i - 1] = down[i]
           /\ UNCHANGED <<link, up, server, pendLeave, hooks, hist>>
<1>1. down \in Seq(Envelopes)  BY DEF MemberTypes, PipeTypes
<1>2. link = "on" /\ down # << >> /\ down' = Tail(down) /\ UNCHANGED <<link, up, server, pendLeave, hooks, hist>>
  BY DEF Deliver
<1> QED  BY <1>1, <1>2

\* An envelope that is no answer to a call changes none.
LEMMA Unawaited ==
    ASSUME MemberTypes, Deliver, down[1].k \in {"state", "closed"}
    PROVE  tasks' = tasks /\ (Foreign(down[1]) => SameSession) /\ (~Foreign(down[1]) => Handles(down[1]))
<1>1. Resolves(down[1]) = {}
  <2> SUFFICES ASSUME NEW i \in Resolves(down[1])  PROVE FALSE  OBVIOUS
  <2>1. i \in DOMAIN tasks /\ Expects(tasks[i]) = down[1].k  BY WaiterFits
  <2>2. tasks[i] \in Calls  BY <2>1 DEF MemberTypes, MineTypes
  <2>3. Expects(tasks[i]) \in {"joined", "created"}  BY <2>2, CallKinds
  <2> QED  BY <2>1, <2>3
<1>2. Head(down) = down[1] /\ down[1] \in Envelopes  BY Taken
<1>3. Foreign(down[1]) => SameSession /\ UNCHANGED <<tasks>>  BY <1>2 DEF Deliver
<1>4. ~Foreign(down[1]) => Handle(down[1], FALSE) /\ UNCHANGED tasks  BY <1>1, <1>2 DEF Deliver
<1> QED  BY <1>2, <1>3, <1>4, HandledAlone

\* An answer finds its call.
LEMMA Awaited ==
    ASSUME MemberTypes, Deliver, IsAnswer(down[1])
    PROVE  \/ Resolves(down[1]) = {}
           \/ /\ \E i \in Resolves(down[1]) : tasks' = [tasks EXCEPT ![i].reply = down[1]]
              /\ Handles(down[1]) /\ (down[1].k = "error" => UNCHANGED <<room, creds, buf>>)
<1>2. Head(down) = down[1] /\ down[1] \in Envelopes  BY Taken
<1>3. ~Foreign(down[1])  BY DEF Foreign, IsAnswer
<1>4. Resolves(down[1]) = {} \/ \E i \in Resolves(down[1]) :
          tasks' = [tasks EXCEPT ![i].reply = down[1]] /\ Handle(down[1], TRUE)
  BY <1>2, <1>3 DEF Deliver
<1> QED  BY <1>2, <1>4, HandledReply

\* An answer to a rejoin finds a waiter.
LEMMA FirstWaiter ==
    ASSUME MemberTypes, NEW m, NEW i \in DOMAIN tasks, Waiting(tasks[i]), tasks[i].kind = "rejoin",
           m.k \in {"joined", "error"}
    PROVE  Resolves(m) # {}
<1> DEFINE W == {j \in DOMAIN tasks : Waiting(tasks[j]) /\ Expects(tasks[j]) = "joined"}
<1>0. tasks \in Seq(Calls)  BY DEF MemberTypes, MineTypes
<1>1. Expects(tasks[i]) = "joined"  BY <1>0, CallKinds
<1>2. W # {} /\ W \subseteq Nat  BY <1>0, <1>1
<1> HIDE DEF W
<1>3. PICK w \in W : \A j \in W : w <= j  BY <1>2, LeastOf
<1> USE DEF W
<1>4. w \in Resolves(m)  BY <1>3 DEF Resolves
<1> QED  BY <1>4

\* An envelope comes in while the client recovers.
LEMMA DeliverRecovering ==
    ASSUME Fit, Deliver  PROVE Fits'
<1> DEFINE m == down[1]
<1>0. MemberTypes /\ SeatInv /\ Common /\ Recovering  BY DEF Fit
<1>1. /\ UNCHANGED <<link, up, life, seat, pendLeave, hooks, left, trouble>> /\ link = "on"
      /\ 1 \in DOMAIN down /\ m \in Envelopes /\ RDown(1)
  BY <1>0, Taken DEF server, hist, Recovering
<1>2. Seated' = Seated  BY <1>1 DEF Seated
<1>3. \A i \in DOMAIN down' : i + 1 \in DOMAIN down /\ down'[i] = down[i + 1] /\ i # 0 /\ i \in Nat
  BY <1>0, Taken
<1>4. \A i \in DOMAIN down : i # 1 => i - 1 \in DOMAIN down' /\ down'[i - 1] = down[i]  BY <1>0, Taken
<1>5. m.k \in {"state", "joined", "created", "closed", "error"}  BY <1>1, EnvelopeTyped
<1>6. room \in RoomNames /\ None \notin Rooms /\ None \notin Joinable /\ left \subseteq Rooms /\ tasks \in Seq(Calls)
  BY <1>0, ClientRoomAssumption DEF MemberTypes, MineTypes, PastTypes, ClientRoomAssumption, Rooms
<1>7. \A i \in DOMAIN down' : (down[i + 1].k = "closed" => life[down[i + 1].r] = "ended") /\ RDown(i + 1)
  BY <1>0, <1>3 DEF Common, Recovering
<1>8. Len(down') = Len(down) - 1 /\ Len(down) \in Nat  BY <1>0, Taken DEF MemberTypes, PipeTypes
<1>9. CASE m.k = "state"
  <2>1. m.r = room /\ room # None /\ \A j \in DOMAIN tasks : tasks[j].reply # RNF
    <3>1. m.r \in Rooms  BY <1>1, <1>9, EnvelopeTyped
    <3> QED  BY <1>1, <1>6, <1>9, <3>1 DEF RDown
  <2>2. tasks' = tasks /\ UNCHANGED <<room, creds, buf>>
    <3>1. ~Foreign(m)  BY <2>1 DEF Foreign
    <3>2. tasks' = tasks /\ Handles(m)  BY <1>0, <1>9, <3>1, Unawaited
    <3> QED  BY <1>9, <2>1, <3>2 DEF Handles
  <2>3. Common'
    <3>1. trouble # 0  BY <1>0, <1>1, <1>9 DEF Common
    <3> QED  BY <1>0, <1>1, <1>3, <1>7, <2>2, <3>1 DEF Common
  <2>4. Repaired => Repaired'
    <3>1. m \notin {Msg("closed", room), RNF}  BY <1>9 DEF RNF, Msg
    <3> QED  BY <1>1, <1>4, <2>2, <3>1 DEF Repaired, RNF, Msg
  <2>5. ASSUME NEW i \in DOMAIN down'  PROVE RDown(i)'
    <3>1. RDown(i + 1) /\ down'[i] = down[i + 1] /\ i + 1 # 1 /\ (i + 1 = Len(down) => i = Len(down'))
      BY <1>3, <1>7, <1>8
    <3>2. SomeWait => SomeWait'  BY <2>2 DEF SomeWait, Waiting
    <3> QED  BY <1>1, <2>2, <3>1, <3>2 DEF RDown, IsAnswer, RNF, Msg, OverFor
  <2>6. \A i \in DOMAIN tasks' : RTask(tasks[i])'  BY <1>0, <1>1, <2>2 DEF Recovering, RTask, OverFor, RNF, Msg
  <2>7. RUp'  BY <1>0, <1>1, <2>2 DEF Recovering, RUp, Msg, SomeWait, Waiting
  <2>8. Recovering'  BY <1>0, <1>1, <1>2, <2>2, <2>4, <2>5, <2>6, <2>7 DEF Recovering, Cred
  <2> QED  BY <2>3, <2>8 DEF Fits
<1>10. CASE m.k = "closed" /\ Foreign(m)
  <2>1. tasks' = tasks /\ UNCHANGED <<room, creds, buf>>  BY <1>0, <1>10, Unawaited DEF SameSession
  <2>2. m.r # room  BY <1>10 DEF Foreign
  <2>3. Common'  BY <1>0, <1>1, <1>3, <1>7, <2>1 DEF Common
  <2>4. Repaired => Repaired'
    <3>1. m \notin {Msg("closed", room), RNF}  BY <1>10, <2>2 DEF RNF, Msg
    <3> QED  BY <1>1, <1>4, <2>1, <3>1 DEF Repaired, RNF, Msg
  <2>5. ASSUME NEW i \in DOMAIN down'  PROVE RDown(i)'
    <3>1. RDown(i + 1) /\ down'[i] = down[i + 1] /\ i + 1 # 1 /\ (i + 1 = Len(down) => i = Len(down'))
      BY <1>3, <1>7, <1>8
    <3>2. SomeWait => SomeWait'  BY <2>1 DEF SomeWait, Waiting
    <3> QED  BY <1>1, <2>1, <3>1, <3>2 DEF RDown, IsAnswer, RNF, Msg, OverFor
  <2>6. \A i \in DOMAIN tasks' : RTask(tasks[i])'  BY <1>0, <1>1, <2>1 DEF Recovering, RTask, OverFor, RNF, Msg
  <2>7. RUp'  BY <1>0, <1>1, <2>1 DEF Recovering, RUp, Msg, SomeWait, Waiting
  <2>8. Recovering'  BY <1>0, <1>1, <1>2, <2>1, <2>4, <2>5, <2>6, <2>7 DEF Recovering, Cred
  <2> QED  BY <2>3, <2>8 DEF Fits
<1>11. CASE m.k = "closed" /\ ~Foreign(m)
  <2>1. tasks' = tasks /\ room' = None /\ creds' = None /\ buf' = << >>
    BY <1>0, <1>11, Unawaited DEF Handles, SessionEnds
  <2>2. (room = None \/ m.r = room) /\ life[m.r] = "ended"
    BY <1>0, <1>1, <1>11 DEF Foreign, Common
  <2>3. OverFor(room)  BY <2>2 DEF OverFor
  <2>4. Seated = {}
    <3>1. Seated \subseteq {room} /\ \A r \in Seated : life[r] = "open" /\ r \in Rooms
      BY <1>0 DEF Recovering, SeatInv, Seated
    <3> QED  BY <1>6, <2>2, <3>1
  <2>5. Common'  BY <1>0, <1>1, <1>3, <1>7, <2>1 DEF Common
  <2>6. ~ (life[room] = "open" /\ room \in Rooms)  BY <1>6, <2>3 DEF OverFor
  <2>7. ASSUME NEW i \in DOMAIN down'  PROVE RDown(i)'
    <3>1. RDown(i + 1) /\ down'[i] = down[i + 1] /\ i + 1 # 1 /\ (i + 1 = Len(down) => i = Len(down'))
      BY <1>3, <1>7, <1>8
    <3>2. down[i + 1] \in Envelopes  BY <1>0, <1>3 DEF MemberTypes, PipeTypes
    <3>3. down[i + 1].k # "joined"  BY <2>6, <3>1, <3>2, EnvelopeTyped DEF RDown
    <3>4. SomeWait => SomeWait'  BY <2>1 DEF SomeWait, Waiting
    <3> QED  BY <1>1, <2>1, <3>1, <3>3, <3>4 DEF RDown, IsAnswer, RNF, Msg, OverFor
  <2>8. ASSUME NEW i \in DOMAIN tasks'  PROVE RTask(tasks[i])'
    <3>1. RTask(tasks[i]) /\ tasks[i] \in Calls  BY <1>0, <1>6, <2>1 DEF Recovering
    <3>2. tasks[i].reply.k = "joined" => tasks[i].reply.r \in Rooms  BY <3>1, CallKinds, ReplyTyped
    <3>3. tasks[i].reply.k # "joined"  BY <2>6, <3>1, <3>2 DEF RTask
    <3> QED  BY <2>1, <3>1, <3>3 DEF RTask, RNF, Msg, OverFor
  <2>9. RUp'
    <3>1. SomeWait => SomeWait'  BY <2>1 DEF SomeWait, Waiting
    <3> QED  BY <1>0, <1>1, <1>6, <2>1, <2>3, <3>1 DEF Recovering, RUp, Msg, OverFor
  <2>10. Recovering'  BY <1>1, <1>2, <1>6, <2>1, <2>4, <2>7, <2>8, <2>9 DEF Recovering, Cred
  <2> QED  BY <2>5, <2>10 DEF Fits
<1>12. CASE IsAnswer(m)
  <2>1. /\ Len(down) = 1 /\ hooks = 0 /\ up = << >> /\ SomeWait /\ m.k \in {"joined", "error"}
        /\ m.k = "joined" => m.r = room /\ life[room] = "open"
        /\ m.k = "error" => m.r \in {"AlreadyJoined", "RoomNotFound"}
        /\ m = RNF => OverFor(room)
    BY <1>1, <1>5, <1>12 DEF RDown, IsAnswer
  <2>2. Resolves(m) # {}
    <3>1. PICK w \in DOMAIN tasks : Waiting(tasks[w])  BY <2>1 DEF SomeWait
    <3>2. tasks[w].kind = "rejoin"  BY <1>0 DEF Recovering, RTask
    <3> HIDE DEF m
    <3> QED  BY <1>0, <2>1, <3>1, <3>2, FirstWaiter
  <2>3. (\E i \in Resolves(m) : tasks' = [tasks EXCEPT ![i].reply = m])
        /\ Handles(m) /\ (m.k = "error" => UNCHANGED <<room, creds, buf>>)
    BY <1>0, <1>12, <2>2, Awaited
  <2>4. UNCHANGED <<room, creds, buf>>  BY <2>1, <2>3 DEF Handles
  <2>5. PICK i \in Resolves(m) : tasks' = [tasks EXCEPT ![i].reply = m]  BY <2>3
  <2>6. i \in DOMAIN tasks /\ Waiting(tasks[i])  BY WaiterFits
  <2> HIDE DEF m
  <2>7. /\ DOMAIN tasks' = DOMAIN tasks /\ \A j \in DOMAIN tasks : j # i => tasks'[j] = tasks[j]
        /\ tasks'[i].kind = tasks[i].kind /\ tasks'[i].reply = m
    BY <1>0, <1>1, <2>5, <2>6, Replied
  <2>8. down' = << >>  BY <1>0, <1>8, <2>1, Taken DEF MemberTypes, PipeTypes
  <2>9. Common'
    <3>1. \A j \in DOMAIN tasks' : tasks'[j].kind = tasks[j].kind  BY <2>7
    <3> QED  BY <1>0, <1>1, <2>4, <2>7, <2>8, <3>1 DEF Common
  <2>10. Repaired => Repaired'
    <3>1. \A j \in DOMAIN down : j = 1 /\ down[j] = m  BY <1>0, <2>1 DEF m, MemberTypes, PipeTypes
    <3>2. m # Msg("closed", room)  BY <2>1 DEF Msg
    <3>3. tasks[i].reply # RNF  BY <2>6 DEF Waiting, RNF, Msg
    <3>4. CASE \E j \in DOMAIN tasks : tasks[j].reply = RNF
      <4>1. \E j \in DOMAIN tasks' : tasks'[j].reply = RNF  BY <2>7, <3>3, <3>4
      <4> QED  BY <4>1 DEF Repaired, RNF, Msg
    <3>5. CASE m = RNF
      <4>1. \E j \in DOMAIN tasks' : tasks'[j].reply = RNF  BY <2>6, <2>7, <3>5
      <4> QED  BY <4>1 DEF Repaired, RNF, Msg
    <3>6. Repaired => m = RNF \/ \E j \in DOMAIN tasks : tasks[j].reply = RNF
      BY <1>1, <2>1, <3>1, <3>2 DEF Repaired
    <3> QED  BY <3>4, <3>5, <3>6
  <2>11. ASSUME NEW j \in DOMAIN tasks'  PROVE RTask(tasks[j])'
    <3>1. RTask(tasks[j])  BY <1>0, <2>7 DEF Recovering
    <3>2. CASE j # i
      <4>1. tasks'[j] = tasks[j]  BY <2>7, <3>2
      <4> QED  BY <1>1, <2>4, <3>1, <4>1 DEF RTask, OverFor, RNF, Msg
    <3>3. CASE j = i
      <4>1. tasks'[j].kind = "rejoin" /\ tasks'[j].reply = m  BY <2>7, <3>1, <3>3 DEF RTask
      <4> QED  BY <1>1, <2>1, <2>4, <4>1 DEF RTask, OverFor, RNF, Msg
    <3> QED  BY <3>2, <3>3
  <2>12. Recovering'  BY <1>0, <1>1, <1>2, <2>1, <2>4, <2>8, <2>10, <2>11 DEF Recovering, RUp, Cred
  <2> QED  BY <2>9, <2>12 DEF Fits
<1> QED  BY <1>5, <1>9, <1>10, <1>11, <1>12 DEF IsAnswer

\* A rejoin that gives up, or ends, is taken off the list.
LEMMA Removed ==
    ASSUME MemberTypes, NEW i \in DOMAIN tasks, tasks' = RemoveAt(tasks, i)
    PROVE  /\ \A j \in DOMAIN tasks' : \E l \in DOMAIN tasks : l # i /\ tasks'[j] = tasks[l]
           /\ \A l \in DOMAIN tasks : l # i => \E j \in DOMAIN tasks' : tasks'[j] = tasks[l]
<1>1. tasks \in Seq(Calls)  BY DEF MemberTypes, MineTypes
<1> QED  BY <1>1, RemoveAtFacts

\* A rejoin gives up; only one that nothing can answer any more does.
LEMMA TimeoutRecovering ==
    ASSUME Fit, Good', NEW i \in DOMAIN tasks, Timeout(i) \/ TimeoutRaces(i)  PROVE Fits'
<1>0. MemberTypes /\ SeatInv /\ Common /\ Recovering  BY DEF Fit
<1>1. Timeout(i)  BY DEF TimeoutRaces, Fault, Good
<1>2. /\ Waiting(tasks[i]) /\ up = << >> /\ down = << >> /\ tasks' = RemoveAt(tasks, i)
      /\ UNCHANGED <<link, up, down, life, seat, room, creds, buf, pendLeave, hooks, left, trouble>>
  BY <1>1 DEF Timeout, Hopeless, GivesUp, wires, server
<1>3. /\ \A j \in DOMAIN tasks' : \E l \in DOMAIN tasks : l # i /\ tasks'[j] = tasks[l]
      /\ \A l \in DOMAIN tasks : l # i => \E j \in DOMAIN tasks' : tasks'[j] = tasks[l]
  BY <1>0, <1>2, Removed
<1>4. Seated' = Seated  BY <1>2 DEF Seated
<1>5. Common'  BY <1>0, <1>2, <1>3 DEF Common
<1>6. ASSUME NEW j \in DOMAIN tasks'  PROVE RTask(tasks[j])'
  <2>1. PICK l \in DOMAIN tasks : tasks'[j] = tasks[l]  BY <1>3
  <2>2. RTask(tasks[l])  BY <1>0 DEF Recovering
  <2> QED  BY <1>2, <2>1, <2>2 DEF RTask, OverFor, RNF, Msg
<1>7. Repaired => Repaired'
  <2>1. tasks[i].reply # RNF  BY <1>2 DEF Waiting, RNF, Msg
  <2>2. (\E l \in DOMAIN tasks : tasks[l].reply = RNF) => \E j \in DOMAIN tasks' : tasks'[j].reply = RNF
    BY <1>3, <2>1
  <2> QED  BY <1>2, <2>2 DEF Repaired, RNF, Msg
<1>8. Recovering'  BY <1>0, <1>2, <1>4, <1>6, <1>7 DEF Recovering, RUp, Cred
<1> QED  BY <1>5, <1>8 DEF Fits

\* A rejoin has its answer.
LEMMA RejoinRecovering ==
    ASSUME Fit, NEW i \in DOMAIN tasks, RejoinResumes(i)  PROVE Fits'
<1>0. MemberTypes /\ SeatInv /\ Common /\ Recovering  BY DEF Fit
<1> DEFINE t == tasks[i]
<1>1. /\ ~Waiting(t) /\ tasks' = RemoveAt(tasks, i) /\ buf = << >>
      /\ UNCHANGED <<link, down, life, seat, pendLeave, hooks, left, trouble>>
  BY <1>0 DEF RejoinResumes, server, hist, Common
<1>2. /\ \A j \in DOMAIN tasks' : \E l \in DOMAIN tasks : l # i /\ tasks'[j] = tasks[l]
      /\ \A l \in DOMAIN tasks : l # i => \E j \in DOMAIN tasks' : tasks'[j] = tasks[l]
  BY <1>0, <1>1, Removed
<1>3. Seated' = Seated  BY <1>1 DEF Seated
<1>4. RTask(t) /\ t \in Calls /\ t.reply.k \in {"joined", "error"}
  BY <1>0, <1>1 DEF Recovering, MemberTypes, MineTypes, RTask, Waiting
<1>5. room \in RoomNames /\ None \notin Rooms /\ None \notin Joinable /\ left \subseteq Rooms /\ tasks \in Seq(Calls)
  BY <1>0, ClientRoomAssumption DEF MemberTypes, MineTypes, PastTypes, ClientRoomAssumption, Rooms
<1>6. SomeWait => SomeWait'  BY <1>1, <1>2 DEF SomeWait
<1>7. up \in Seq(Requests)  BY <1>0 DEF MemberTypes, PipeTypes
<1> DEFINE over == t.reply.k = "error" /\ EndsMembership(t.reply)
<1>8. CASE over
  <2>1. room' = None /\ creds' = None /\ buf' = << >> /\ up' = up
    BY <1>8 DEF RejoinResumes, DropSession
  <2>2. t.reply = RNF
    <3>1. t.reply.k = "error" /\ t.reply.r = "RoomNotFound"  BY <1>4, <1>8 DEF RTask, EndsMembership
    <3>2. t.reply \in Envelopes  BY <1>4, CallKinds, ReplyTyped
    <3> QED  BY <3>1, <3>2 DEF RNF, Msg, Envelopes
  <2>3. OverFor(room)  BY <1>4, <2>2 DEF RTask
  <2>4. Seated = {}
    <3>1. Seated \subseteq {room} /\ \A r \in Seated : life[r] = "open" /\ r \in Rooms
      BY <1>0 DEF Recovering, SeatInv, Seated
    <3> QED  BY <1>5, <2>3, <3>1 DEF OverFor
  <2>5. ~ (life[room] = "open" /\ room \in Rooms)  BY <1>5, <2>3 DEF OverFor
  <2>6. Common'  BY <1>0, <1>1, <1>2, <2>1 DEF Common
  <2>7. ASSUME NEW j \in DOMAIN down'  PROVE RDown(j)'
    <3>1. RDown(j) /\ down'[j] = down[j] /\ down[j] \in Envelopes
      BY <1>0, <1>1 DEF Recovering, MemberTypes, PipeTypes
    <3>2. down[j].k # "joined"  BY <2>5, <3>1, EnvelopeTyped DEF RDown
    <3>3. down[j].k # "state"  BY <2>2, <3>1 DEF RDown
    <3> QED  BY <1>1, <1>6, <2>1, <3>1, <3>2, <3>3 DEF RDown, IsAnswer, RNF, Msg, OverFor
  <2>8. ASSUME NEW j \in DOMAIN tasks'  PROVE RTask(tasks[j])'
    <3>1. PICK l \in DOMAIN tasks : tasks'[j] = tasks[l]  BY <1>2
    <3>2. RTask(tasks[l]) /\ tasks[l] \in Calls  BY <1>0, <1>5 DEF Recovering
    <3>3. tasks[l].reply.k = "joined" => tasks[l].reply.r \in Rooms  BY <3>2, CallKinds, ReplyTyped
    <3>4. tasks[l].reply.k # "joined"  BY <2>5, <3>2, <3>3 DEF RTask
    <3> QED  BY <2>1, <3>1, <3>2, <3>4 DEF RTask, RNF, Msg, OverFor
  <2>9. RUp'  BY <1>0, <1>1, <1>5, <1>6, <2>1, <2>3 DEF Recovering, RUp, Msg, OverFor
  <2>10. Recovering'  BY <1>1, <1>3, <1>5, <2>1, <2>4, <2>7, <2>8, <2>9 DEF Recovering, Cred
  <2> QED  BY <2>6, <2>10 DEF Fits
<1>9. CASE ~over
  <2>1. /\ room' = IF t.reply.k = "joined" THEN t.reply.r ELSE room
        /\ up' = up \/ up' = up \o buf
        /\ buf' = buf \/ buf' = << >>
        /\ creds' = creds
    BY <1>9 DEF RejoinResumes
  <2>2. t.reply.k = "joined" => t.reply.r = room  BY <1>4 DEF RTask
  <2>3. room' = room /\ creds' = creds /\ buf' = buf  BY <1>1, <2>1, <2>2
  <2>4. up' = up  BY <1>1, <1>7, <2>1
  <2>5. t.reply # RNF
    <3> SUFFICES ASSUME t.reply = RNF  PROVE FALSE  OBVIOUS
    <3>1. t.reply.k = "error" /\ t.reply.r = "RoomNotFound"  BY DEF RNF, Msg
    <3> QED  BY <1>9, <3>1 DEF EndsMembership
  <2>6. Common'  BY <1>0, <1>1, <1>2, <2>3 DEF Common
  <2>7. ASSUME NEW j \in DOMAIN down'  PROVE RDown(j)'
    <3>1. RDown(j) /\ down'[j] = down[j]  BY <1>0, <1>1 DEF Recovering
    <3>2. (\A l \in DOMAIN tasks : tasks[l].reply # RNF) => \A l \in DOMAIN tasks' : tasks'[l].reply # RNF
      BY <1>2
    <3> QED  BY <1>1, <1>6, <2>3, <2>4, <3>1, <3>2 DEF RDown, IsAnswer, RNF, Msg, OverFor
  <2>8. ASSUME NEW j \in DOMAIN tasks'  PROVE RTask(tasks[j])'
    <3>1. PICK l \in DOMAIN tasks : tasks'[j] = tasks[l]  BY <1>2
    <3>2. RTask(tasks[l])  BY <1>0 DEF Recovering
    <3> QED  BY <1>1, <2>3, <3>1, <3>2 DEF RTask, RNF, Msg, OverFor
  <2>9. RUp'  BY <1>0, <1>1, <1>6, <2>3, <2>4 DEF Recovering, RUp, Msg
  <2>10. Repaired => Repaired'
    <3>1. (\E l \in DOMAIN tasks : tasks[l].reply = RNF) => \E j \in DOMAIN tasks' : tasks'[j].reply = RNF
      BY <1>2, <2>5
    <3> QED  BY <1>1, <2>3, <2>4, <3>1 DEF Repaired, RNF, Msg
  <2>11. Recovering'  BY <1>0, <1>1, <1>3, <2>3, <2>7, <2>8, <2>9, <2>10 DEF Recovering, Cred
  <2> QED  BY <2>6, <2>11 DEF Fits
<1> QED  BY <1>8, <1>9

-----------------------------------------------------------------------------
(* The commands of a calm client.                                             *)

\* With no fault to mend, or all of it mended: the user is seated in the room
\* cached and, until the server has read them, in the rooms being left.
Calm ==
    /\ Linked /\ tasks = << >> /\ Closing(Len(down)) /\ creds = Cred(room) /\ room \notin left
    /\ \E a \in Partings : up = a /\ Farewell(a)

\* Two requests to leave at most.
LEMMA FarewellParts ==
    ASSUME NEW a, Farewell(a)  PROVE a \in Partings
BY DEF Farewell, Partings, RoomNames

\* With nothing left to mend, the client is calm.
LEMMA SettledRecovering ==
    ASSUME Fit, trouble = 0 \/ Settled  PROVE Calm /\ up = << >>
<1>0. MemberTypes /\ SeatInv /\ Common /\ Recovering  BY DEF Fit
<1>1. link = "on" /\ hooks = 0  BY <1>0 DEF Common, Settled
<1>2. tasks = << >>
  <2>1. CASE trouble = 0
    <3>1. \A i \in DOMAIN tasks : FALSE  BY <1>0, <2>1 DEF Common, Recovering, RTask
    <3>2. tasks \in Seq(Calls) /\ DOMAIN tasks = 1 .. Len(tasks) /\ Len(tasks) \in Nat
      BY <1>0 DEF MemberTypes, MineTypes
    <3>3. Len(tasks) = 0
      <4>1. Len(tasks) \notin DOMAIN tasks  BY <3>1
      <4> QED  BY <3>2, <4>1
    <3> QED  BY <3>2, <3>3, EmptySeq
  <2> QED  BY <2>1 DEF Settled
<1>3. up = << >> /\ \A i \in DOMAIN down : down[i].k \in {"state", "closed"}  BY <1>2, Quiet
<1>4. \A i \in DOMAIN down : down[i].k = "closed"
  <2>1. trouble = 0 => \A i \in DOMAIN down : down[i].k # "state"  BY <1>0 DEF Common
  <2>2. Settled => down = << >>  BY DEF Settled
  <2> QED  BY <1>3, <2>1, <2>2
<1>5. Closing(Len(down))  BY <1>0, <1>4 DEF Closing, MemberTypes, PipeTypes
<1>6. room \in RoomNames /\ None \notin Rooms  BY <1>0, ClientRoomAssumption DEF MemberTypes, MineTypes, ClientRoomAssumption, Rooms
<1>7. room # None => Seated # {}
  <2> SUFFICES ASSUME room # None, Seated = {}  PROVE FALSE  OBVIOUS
  <2>1. room \in Joinable /\ Repaired  BY <1>0 DEF Recovering
  <2>2. PICK i \in DOMAIN down : down[i] \in {Msg("closed", room), RNF}
    BY <1>1, <1>2, <1>3, <2>1 DEF Repaired
  <2>3. down[i] = Msg("closed", room)  BY <1>4, <2>2 DEF RNF, Msg
  <2>4. life[room] = "ended"  BY <1>0, <2>3 DEF Common, Msg
  <2>5. trouble = 0 => life[room] = "open"  BY <1>0, <2>1 DEF Common
  <2>6. Settled => DOMAIN down = {}  BY DEF Settled
  <2> QED  BY <2>2, <2>4, <2>5, <2>6
<1>8. Seated = Only(room)
  <2>1. Seated \subseteq {room} /\ Seated \subseteq Rooms  BY <1>0 DEF Recovering, Seated
  <2> QED  BY <1>6, <1>7, <2>1 DEF Only
<1>9. Farewell(<< >>)  BY <1>8 DEF Farewell
<1>10. << >> \in Partings  BY DEF Partings
<1> QED  BY <1>0, <1>1, <1>2, <1>3, <1>5, <1>9, <1>10 DEF Calm, Linked, Recovering

\* So it is before any command that is not hasty.
LEMMA CalmBefore ==
    ASSUME MemberTypes, SeatInv, Common, Recovering \/ Busy, UserIdle, trouble = 0 \/ Settled
    PROVE  Calm
<1>1. CASE Recovering  BY <1>1, SettledRecovering DEF Fit
<1>2. CASE Busy
  <2>1. CASE Leaves
    <3>1. Farewell(up)  BY <2>1 DEF Leaves
    <3>2. up \in Partings  BY <3>1, FarewellParts
    <3> QED  BY <1>2, <2>1, <3>1, <3>2 DEF Busy, Leaves, Calm
  <2>2. CASE \E t \in Calls : tasks = <<t>> /\ (Joins(t) \/ Creates(t))
    <3>1. PICK t \in Calls : tasks = <<t>> /\ (Joins(t) \/ Creates(t))  BY <2>2
    <3>2. 1 \in DOMAIN tasks /\ tasks[1] = t  BY <3>1
    <3>3. t.kind \in {"join", "create"}  BY <3>1 DEF Joins, Creates
    <3> QED  BY <3>2, <3>3 DEF UserIdle
  <2> QED  BY <1>2, <2>1, <2>2 DEF Busy
<1> QED  BY <1>1, <1>2

\* An empty buffer keeps nothing.
LEMMA KeptOfNone == Kept(<< >>) = pendLeave
BY DEF Kept

\* Such a command is under way: a join,
LEMMA JoinCalm ==
    ASSUME MemberTypes, Common, Calm, NEW r \in Joinable, Join(r)  PROVE Fits'
<1>1. PICK a \in Partings : up = a /\ Farewell(a)  BY DEF Calm
<1>2. /\ link = "on" /\ hooks = 0 /\ tasks = << >> /\ Closing(Len(down)) /\ creds = Cred(room)
      /\ up \in Seq(Requests)
  BY DEF Calm, Linked, MemberTypes, PipeTypes
<1>0. PICK t : t = Task("join", r, room)  OBVIOUS
<1>3. /\ tasks' = Append(tasks, t) /\ left' = {} /\ SendOrBuffer(Msg("join", r))
      /\ UNCHANGED <<link, down, life, seat, room, creds, pendLeave, hooks, trouble>>
  BY <1>0 DEF Join, server
<1>4. /\ t \in Calls /\ t.kind = "join" /\ t.r = r /\ t.held = room /\ t.reply.k = "wait"
  BY <1>0 DEF Task, Calls, Outcomes, Msg, MemberTypes, MineTypes
<1>5. tasks' = <<t>> /\ up' = a \o <<Msg("join", r)>> /\ buf' = buf
  BY <1>1, <1>2, <1>3 DEF SendOrBuffer
<1>6. Seated' = Seated  BY <1>3 DEF Seated
<1>7. Farewell(a)'  BY <1>1, <1>3, <1>6 DEF Farewell, Only, Msg
<1>8. JoinAsked(t)'  BY <1>2, <1>3, <1>4, <1>5, <1>7 DEF JoinAsked, Waiting, Cred, Closing, Msg
<1>9. Busy'
  <2>1. Joins(t)'  BY <1>3, <1>4, <1>8 DEF Joins
  <2> QED  BY <1>2, <1>3, <1>4, <1>5, <2>1 DEF Busy, Linked
<1>10. Common'
  <2>1. \A i \in DOMAIN tasks' : tasks'[i].kind # "rejoin"  BY <1>4, <1>5
  <2> QED  BY <1>3, <1>5, <2>1 DEF Common
<1> QED  BY <1>9, <1>10 DEF Fits

\* Leaving one room more.
LEMMA OneMore ==
    ASSUME MemberTypes, NEW a \in Partings, Farewell(a), room # None, NEW x \in {room, None},
           Seated' = Seated, room' = None
    PROVE  /\ Append(a, Msg("leave", x)) \in Partings /\ Farewell(Append(a, Msg("leave", x)))'
           /\ Append(a, Msg("leave", x)) = a \o <<Msg("leave", x)>>
<1>0. room \in Rooms /\ None \notin Rooms
  BY ClientRoomAssumption DEF MemberTypes, MineTypes, RoomNames, ClientRoomAssumption, Rooms
<1>1. CASE a = << >> /\ Seated = Only(room)
  <2>1. Append(a, Msg("leave", x)) = <<Msg("leave", x)>>  BY <1>1
  <2>2. Seated' = {room} \cup Only(None)  BY <1>0, <1>1 DEF Only
  <2>3. x \in RoomNames  BY <1>0 DEF RoomNames
  <2> QED  BY <1>0, <1>1, <2>1, <2>2, <2>3 DEF Farewell, Partings, Msg, Only
<1>2. ASSUME NEW z \in Rooms \ {room}, a = <<Msg("leave", z)>>, Seated = {z} \cup Only(room)
      PROVE  /\ Append(a, Msg("leave", x)) \in Partings /\ Farewell(Append(a, Msg("leave", x)))'
             /\ Append(a, Msg("leave", x)) = a \o <<Msg("leave", x)>>
  <2>0. PICK e, f : e = Msg("leave", x) /\ f = Msg("leave", z)  OBVIOUS
  <2>1. Append(a, Msg("leave", x)) = <<Msg("leave", z), Msg("leave", x)>>
    <3>1. Append(<<f>>, e) = <<f, e>>  BY TwoOf
    <3> QED  BY <1>2, <2>0, <3>1
  <2>2. Seated' = {z, room}  BY <1>0, <1>2 DEF Only
  <2>3. x \in RoomNames /\ z \in RoomNames  BY <1>0 DEF RoomNames
  <2>4. a \o <<Msg("leave", x)>> = <<Msg("leave", z), Msg("leave", x)>>
    <3>1. <<f>> \o <<e>> = <<f, e>>  BY TwoOf
    <3> QED  BY <1>2, <2>0, <3>1
  <2>5. <<Msg("leave", z), Msg("leave", x)>> \in Partings  BY <2>3 DEF Partings
  <2>6. Farewell(<<Msg("leave", z), Msg("leave", x)>>)'  BY <1>0, <2>2, <2>3 DEF Farewell, Msg
  <2> QED  BY <2>1, <2>4, <2>5, <2>6
<1> QED  BY <1>0, <1>1, <1>2 DEF Farewell

\* a leave,
LEMMA LeaveCalm ==
    ASSUME MemberTypes, SeatInv, Common, Calm, Good', Leave  PROVE Fits'
<1>1. PICK a \in Partings : up = a /\ Farewell(a)  BY DEF Calm
<1>2. /\ link = "on" /\ hooks = 0 /\ tasks = << >> /\ Closing(Len(down)) /\ buf = << >> /\ pendLeave = {}
  BY DEF Calm, Linked, Common
<1>3. /\ room # None /\ room' = None /\ creds' = None /\ buf' = << >> /\ left' \in {{}, {room}}
      /\ up' = Append(up, Msg("leave", None)) /\ pendLeave' = Kept(buf)
      /\ UNCHANGED <<link, down, life, seat, tasks, hooks, trouble>>
  BY <1>2 DEF Leave, server, Buffered
<1>4. room \in Rooms /\ None \notin Rooms
  BY <1>3, ClientRoomAssumption DEF MemberTypes, MineTypes, RoomNames, ClientRoomAssumption, Rooms
<1>5. pendLeave' = {}  BY <1>2, <1>3, KeptOfNone
<1>6. Seated' = Seated  BY <1>3 DEF Seated
<1>7. Farewell(up)'  BY <1>1, <1>3, <1>6, OneMore
<1>8. up' # << >>  BY <1>3 DEF MemberTypes, PipeTypes
<1>9. room \in Seated  BY <1>1, <1>3 DEF Farewell, Only
<1>10. Leaves'  BY <1>2, <1>3, <1>4, <1>7, <1>8, ClientRoomAssumption DEF Leaves, Closing, Cred, ClientRoomAssumption
<1>11. Common'  BY <1>2, <1>3, <1>5, <1>9 DEF Common, SeatInv
<1> QED  BY <1>2, <1>3, <1>10, <1>11 DEF Fits, Busy, Linked

\* a create,
LEMMA CreateCalm ==
    ASSUME MemberTypes, SeatInv, Common, Calm, Good', Create  PROVE Fits'
<1>1. PICK a \in Partings : up = a /\ Farewell(a)  BY DEF Calm
<1>2. /\ link = "on" /\ hooks = 0 /\ tasks = << >> /\ Closing(Len(down)) /\ buf = << >> /\ pendLeave = {}
      /\ creds = Cred(room) /\ up \in Seq(Requests) /\ None \notin Rooms /\ None \notin Joinable
  BY ClientRoomAssumption DEF Calm, Linked, Common, MemberTypes, PipeTypes, ClientRoomAssumption, Rooms
<1>0. PICK t : t = Task("create", None, None)  OBVIOUS
<1>10. PICK x \in {room, None} : x = room  OBVIOUS
<1> DEFINE c == Msg("create", None)
           m == Msg("leave", x)
           held == room # None
<1>3. /\ room' = None /\ tasks' = Append(tasks, t)
      /\ up' = up \o (IF held THEN <<m>> ELSE <<>>) \o <<c>>
      /\ pendLeave' = IF held THEN Kept(buf) ELSE pendLeave
      /\ buf' = (IF held THEN <<>> ELSE buf) \o <<>>
      /\ creds' = IF held THEN None ELSE creds
      /\ left' \in {{}, {room}} /\ (~held => left' = {})
      /\ UNCHANGED <<link, down, life, seat, hooks, trouble>>
  BY <1>0, <1>2, <1>10 DEF Create, server, Buffered
<1>4. t \in Calls /\ t.kind = "create" /\ t.reply.k = "wait"  BY <1>0 DEF Task, Calls, Outcomes, Msg
<1>5. pendLeave' = {} /\ buf' = << >> /\ tasks' = <<t>> /\ creds' = None
  BY <1>2, <1>3, KeptOfNone DEF Cred
<1>6. Seated' = Seated  BY <1>3 DEF Seated
<1>7. \E b \in Partings : up' = b \o <<c>> /\ Farewell(b)'
  <2>1. CASE held
    <3>1. /\ Append(a, m) \in Partings /\ Farewell(Append(a, m))' /\ Append(a, m) = a \o <<m>>
      BY <1>1, <1>3, <1>6, <2>1, OneMore
    <3>2. up' = (a \o <<m>>) \o <<c>>  BY <1>1, <1>3, <2>1
    <3>3. PICK b : b = Append(a, m)  OBVIOUS
    <3>4. b \in Partings /\ up' = b \o <<c>>  BY <3>1, <3>2, <3>3
    <3>5. Farewell(b)'  BY <3>1, <3>3
    <3> QED  BY <3>4, <3>5
  <2>2. CASE ~held
    <3>1. up' = a \o <<c>>  BY <1>1, <1>2, <1>3, <2>2
    <3>2. Farewell(a)'  BY <1>1, <1>3, <1>6, <2>2 DEF Farewell, Only, Msg
    <3> QED  BY <3>1, <3>2
  <2> QED  BY <2>1, <2>2
<1>8. Creates(t)'
  <2>1. CreateAsked(t)'  BY <1>2, <1>3, <1>4, <1>7 DEF CreateAsked, Waiting, Closing, Msg
  <2> QED  BY <1>4, <1>5, <2>1 DEF Creates
<1>9. Common'
  <2>1. held => room \in Seated  BY <1>1 DEF Farewell, Only
  <2>2. \A y \in left' : life'[y] # "unborn"  BY <1>3, <2>1 DEF SeatInv
  <2>3. \A i \in DOMAIN tasks' : tasks'[i].kind # "rejoin"  BY <1>4, <1>5
  <2> QED  BY <1>2, <1>3, <1>5, <2>2, <2>3 DEF Common
<1> QED  BY <1>2, <1>3, <1>4, <1>5, <1>8, <1>9 DEF Fits, Busy, Linked

\* or any of them.
LEMMA CommandGood ==
    ASSUME MemberTypes, SeatInv, Common, Recovering \/ Busy, Good', Leave \/ Create \/ \E r \in Joinable : Join(r)
    PROVE  Fits'
<1>1. Command  BY DEF Leave, Create, Join
<1>2. UserIdle /\ (trouble = 0 \/ Settled)
  <2>1. UserIdle /\ hasty' = (hasty \/ (trouble > 0 /\ ~Settled))  BY <1>1 DEF Command
  <2>2. ~ (trouble > 0 /\ ~Settled)  BY <2>1 DEF Good
  <2> QED  BY <2>1, <2>2 DEF MemberTypes, PastTypes
<1>3. Calm  BY <1>2, CalmBefore
<1> QED  BY <1>3, JoinCalm, LeaveCalm, CreateCalm

-----------------------------------------------------------------------------
(* A command under way.                                                       *)

\* While a command is under way no fault strikes and nothing gives up.
LEMMA BusyOnly ==
    ASSUME MemberTypes, Common, Busy, Good'
    PROVE  /\ ~Drop /\ ~DialFails /\ ~Reconnect /\ ~Hook
           /\ \A r \in Rooms : ~RoomEnds(r) /\ ~Reap(r)
           /\ \A i \in DOMAIN tasks : ~Timeout(i) /\ ~TimeoutRaces(i) /\ ~RejoinResumes(i)
<1>1. link = "on" /\ hooks = 0  BY DEF Busy, Linked
<1>2. ~DialFails /\ ~Reconnect /\ ~Hook  BY <1>1 DEF DialFails, Reconnect, Hook
<1>3. CASE Leaves
  <2>1. tasks = << >> /\ up # << >> /\ Farewell(up)  BY <1>3 DEF Leaves
  <2>2. 1 \in DOMAIN up /\ up[1].k = "leave"
    <3>1. up # << >> /\ up \in Seq(Requests)  BY <2>1 DEF MemberTypes, PipeTypes
    <3>2. 1 \in DOMAIN up  BY <3>1
    <3>3. up[1].k = "leave"  BY <2>1, <3>1 DEF Farewell, Msg
    <3> QED  BY <3>2, <3>3
  <2>3. Commanding  BY <2>2 DEF Commanding
  <2>4. ~Drop /\ \A r \in Rooms : ~RoomEnds(r) /\ ~Reap(r)  BY <2>1, <2>3 DEF Drop, RoomEnds, Reap, Fault, Good
  <2> QED  BY <1>2, <2>1, <2>4
<1>4. ASSUME NEW t \in Calls, tasks = <<t>>, t.kind \in {"join", "create"}
      PROVE  /\ ~Drop
             /\ \A r \in Rooms : ~RoomEnds(r) /\ ~Reap(r)
             /\ \A i \in DOMAIN tasks : ~Timeout(i) /\ ~TimeoutRaces(i) /\ ~RejoinResumes(i)
  <2>1. tasks # << >> /\ \A i \in DOMAIN tasks : tasks[i] = t  BY <1>4
  <2>2. 1 \in DOMAIN tasks  BY <1>4
  <2>3. Commanding  BY <1>4, <2>1, <2>2 DEF Commanding
  <2>4. ~Drop /\ \A r \in Rooms : ~RoomEnds(r) /\ ~Reap(r)  BY <2>1, <2>3 DEF Drop, RoomEnds, Reap, Fault, Good
  <2>5. ASSUME NEW i \in DOMAIN tasks  PROVE ~Timeout(i) /\ ~TimeoutRaces(i) /\ ~RejoinResumes(i)
    <3>1. tasks[i].kind \notin {"rejoin"}  BY <1>4, <2>1
    <3> QED  BY <3>1 DEF Timeout, TimeoutRaces, RejoinResumes, Fault, Good
  <2> QED  BY <2>4, <2>5
<1> QED  BY <1>2, <1>3, <1>4 DEF Busy, Joins, Creates

\* What a ROOM_LEAVE makes of the lives of rooms and of what is under way.
Ending ==
    /\ \A x \in Rooms : life'[x] = life[x] \/ (life'[x] = "ended" /\ x \in Own)
    /\ down' = down \/ \E r \in Rooms : down' = Append(down, Msg("closed", r)) /\ life'[r] = "ended"

\* A ROOM_LEAVE that can mean one room only.
LEMMA OneLeft ==
    ASSUME MemberTypes, SeatInv, NEW m, NEW z \in Rooms, Leaving(m) = {z}, SrvLeave(m)
    PROVE  Seated' = Seated \ {z} /\ Ending
<1>1. PICK r \in Leaving(m) :
         /\ seat' = [seat EXCEPT ![r] = IF r \in Own THEN "none" ELSE "left"]
         /\ life' = IF r \in Own THEN [life EXCEPT ![r] = "ended"] ELSE life
         /\ down' \in {down} \cup IF r \in Own /\ sub = r THEN {Append(down, Msg("closed", r))} ELSE {}
  BY DEF SrvLeave
<1>2. r = z  OBVIOUS
<1>3. life \in [Rooms -> {"unborn", "open", "ended"}] /\ seat \in [Rooms -> {"none", "on", "off", "left"}]
  BY DEF MemberTypes, ServerTypes
<1>4. Seated' = Seated \ {z}  BY <1>1, <1>2, <1>3 DEF Seated
<1>5. \A x \in Rooms : life'[x] = life[x] \/ (life'[x] = "ended" /\ x \in Own)  BY <1>1, <1>3
<1>6. r \in Own => life'[r] = "ended"  BY <1>1, <1>2, <1>3
<1> QED  BY <1>1, <1>2, <1>4, <1>5, <1>6 DEF Ending

\* The first of the requests to leave takes away its seat.
LEMMA FarewellServe ==
    ASSUME MemberTypes, SeatInv, NEW a \in Partings, a # << >>, Farewell(a), SrvLeave(Head(a)), room' = room
    PROVE  /\ Tail(a) \in Partings /\ Farewell(Tail(a))' /\ Ending
<1>0. None \notin Rooms /\ room \in RoomNames
  BY ClientRoomAssumption DEF MemberTypes, MineTypes, ClientRoomAssumption, Rooms
<1>1. ASSUME NEW z \in Rooms \ {room}, NEW x \in RoomNames, a = <<Msg("leave", x)>>, Seated = {z} \cup Only(room),
             x = z \/ (x = None /\ room = None)
      PROVE  Tail(a) \in Partings /\ Farewell(Tail(a))' /\ Ending
  <2>1. Head(a) = Msg("leave", x) /\ Tail(a) = << >>  BY <1>1
  <2>2. Leaving(Head(a)) = {z}
    <3>1. Leaving(Head(a)) = {r \in Seated : life[r] = "open" /\ x \in {r, None}}
      BY <2>1 DEF Leaving, Seated, Msg
    <3> QED  BY <1>0, <1>1, <3>1 DEF SeatInv, Only
  <2>3. Seated' = Seated \ {z} /\ Ending  BY <2>2, OneLeft
  <2>4. Seated' = Only(room)  BY <1>1, <2>3 DEF Only
  <2> QED  BY <2>1, <2>3, <2>4 DEF Farewell, Partings, Only
<1>2. ASSUME NEW x \in Rooms, NEW z \in Rooms, NEW y \in RoomNames, a = <<Msg("leave", x), Msg("leave", y)>>,
             room = None, x # z, y \in {z, None}, Seated = {x, z}
      PROVE  Tail(a) \in Partings /\ Farewell(Tail(a))' /\ Ending
  <2>1. Head(a) = Msg("leave", x) /\ Tail(a) = <<Msg("leave", y)>>  BY <1>2
  <2>2. Leaving(Head(a)) = {x}
    <3>1. Leaving(Head(a)) = {r \in Seated : life[r] = "open" /\ x \in {r, None}}
      BY <2>1 DEF Leaving, Seated, Msg
    <3> QED  BY <1>0, <1>2, <3>1 DEF SeatInv
  <2>3. Seated' = Seated \ {x} /\ Ending  BY <2>2, OneLeft
  <2>4. Seated' = {z} \cup Only(room)'  BY <1>2, <2>3 DEF Only
  <2>5. Farewell(<<Msg("leave", y)>>)'  BY <1>0, <1>2, <2>4 DEF Farewell, Only, Msg
  <2>6. <<Msg("leave", y)>> \in Partings  BY DEF Partings
  <2> QED  BY <2>1, <2>3, <2>5, <2>6
<1> QED  BY <1>1, <1>2 DEF Farewell

\* Nothing else is touched.
LEMMA EndingKeeps ==
    ASSUME MemberTypes, Common, Closing(Len(down)), Ending,
           UNCHANGED <<link, buf, pendLeave, hooks, left, trouble, tasks>>
    PROVE  Common' /\ (Closing(Len(down)))'
<1>1. down \in Seq(Envelopes) /\ left \subseteq Rooms  BY DEF MemberTypes, PipeTypes, PastTypes
<1>2. \A i \in DOMAIN down' :
         \/ i \in DOMAIN down /\ down'[i] = down[i]
         \/ \E r \in Rooms : down'[i] = Msg("closed", r) /\ life'[r] = "ended"
  <2>1. CASE down' = down  BY <2>1
  <2>2. ASSUME NEW r \in Rooms, down' = Append(down, Msg("closed", r)), life'[r] = "ended"
        PROVE  \A i \in DOMAIN down' : \/ i \in DOMAIN down /\ down'[i] = down[i]
                                       \/ down'[i] = Msg("closed", r) /\ life'[r] = "ended"
    BY <1>1, <2>2
  <2> QED  BY <2>1, <2>2 DEF Ending
<1>3. \A i \in DOMAIN down : down[i].k = "closed" /\ life[down[i].r] = "ended" /\ down[i].r \in Rooms
  BY <1>1, EnvelopeTyped DEF Common, Closing
<1>4. \A i \in DOMAIN down' : down'[i].k = "closed" /\ life'[down'[i].r] = "ended"
  BY <1>2, <1>3 DEF Ending, Msg
<1>5. Closing(Len(down))'
  <2>1. down' \in Seq(Envelopes)  BY <1>1, EnvelopesTyped DEF Ending
  <2> QED  BY <1>4, <2>1 DEF Closing
<1>6. \A x \in Joinable : life'[x] = life[x]  BY ClientRoomAssumption DEF Ending, Rooms, ClientRoomAssumption
<1>7. \A x \in left : life'[x] # "unborn"  BY <1>1 DEF Ending, Common
<1>8. Common'  BY <1>4, <1>6, <1>7 DEF Common
<1> QED  BY <1>5, <1>8

\* The first of two sequences, not empty, gives the first element.
LEMMA HeadOfConcat ==
    ASSUME NEW S, NEW a \in Seq(S), a # << >>, NEW b \in Seq(S)
    PROVE  Head(a \o b) = Head(a) /\ Tail(a \o b) = Tail(a) \o b
<1>1. a \o b \in Seq(S) /\ Len(a \o b) = Len(a) + Len(b) /\ Len(a) \in Nat /\ Len(a) > 0 /\ Len(b) \in Nat
      /\ \A i \in 1 .. Len(a) + Len(b) : (a \o b)[i] = IF i <= Len(a) THEN a[i] ELSE b[i - Len(a)]
  BY ConcatProperties, EmptySeq
<1>2. Head(a \o b) = Head(a)  BY <1>1
<1> DEFINE c == Tail(a)
           d == Tail(a \o b)
<1>3. c \in Seq(S) /\ Len(c) = Len(a) - 1 /\ \A i \in 1 .. Len(a) - 1 : c[i] = a[i + 1]  OBVIOUS
<1>4. d \in Seq(S) /\ Len(d) = Len(a) + Len(b) - 1 /\ \A i \in 1 .. Len(a) + Len(b) - 1 : d[i] = (a \o b)[i + 1]
  <2> DEFINE q == a \o b
  <2>1. q \in Seq(S) /\ q # << >> /\ Len(q) = Len(a) + Len(b)  BY <1>1, EmptySeq
  <2> HIDE DEF q
  <2>2. Tail(q) \in Seq(S) /\ Len(Tail(q)) = Len(q) - 1 /\ \A i \in 1 .. Len(q) - 1 : Tail(q)[i] = q[i + 1]  BY <2>1
  <2> QED  BY <2>1, <2>2 DEF q
<1> HIDE DEF c, d
<1>5. c \o b \in Seq(S) /\ Len(c \o b) = Len(c) + Len(b)
      /\ \A i \in 1 .. Len(c) + Len(b) : (c \o b)[i] = IF i <= Len(c) THEN c[i] ELSE b[i - Len(c)]
  BY <1>3, ConcatProperties
<1>6. Len(d) = Len(c \o b)  BY <1>1, <1>3, <1>4, <1>5
<1>7. ASSUME NEW i \in 1 .. Len(d)  PROVE d[i] = (c \o b)[i]
  <2>1. i + 1 \in 1 .. Len(a) + Len(b) /\ i \in 1 .. Len(c) + Len(b) /\ (i + 1) - Len(a) = i - Len(c)
    BY <1>1, <1>3, <1>4, <1>7
  <2>2. i <= Len(c) <=> i + 1 <= Len(a)  BY <1>1, <1>3, <1>7
  <2>3. d[i] = IF i + 1 <= Len(a) THEN a[i + 1] ELSE b[(i + 1) - Len(a)]  BY <1>1, <1>4, <2>1
  <2>4. (c \o b)[i] = IF i <= Len(c) THEN c[i] ELSE b[i - Len(c)]  BY <1>5, <2>1
  <2>5. i <= Len(c) => c[i] = a[i + 1]  BY <1>1, <1>3, <1>7
  <2> QED  BY <2>1, <2>2, <2>3, <2>4, <2>5
<1>8. d = c \o b  BY <1>4, <1>5, <1>6, <1>7, SeqEqual
<1> QED  BY <1>2, <1>8 DEF c, d

\* A request of the head of what goes up.
LEMMA Served ==
    ASSUME MemberTypes, Serve
    PROVE  /\ link = "on" /\ up # << >> /\ up' = Tail(up) /\ UNCHANGED <<link, mine, hist>>
           /\ Head(up).k = "join" => SrvJoin(Head(up))
           /\ Head(up).k = "create" => SrvCreate
           /\ Head(up).k = "leave" => SrvLeave(Head(up))
BY DEF Serve

\* Requests to leave are requests.
LEMMA PartingsTyped ==
    ASSUME NEW a \in Partings
    PROVE  /\ a \in Seq(Requests) /\ (a # << >> => Head(a).k = "leave" /\ Head(a) \in Requests)
<1>1. \A x \in RoomNames : Msg("leave", x) \in Requests /\ Msg("leave", x).k = "leave"
  BY EnvelopesTyped DEF Msg
<1>2. CASE a = << >>  BY <1>2
<1>3. ASSUME NEW e \in Requests, e.k = "leave", a = <<e>>
      PROVE  a \in Seq(Requests) /\ Head(a).k = "leave" /\ Head(a) \in Requests
  BY <1>3
<1>4. ASSUME NEW e \in Requests, NEW f \in Requests, e.k = "leave", a = <<e, f>>
      PROVE  a \in Seq(Requests) /\ Head(a).k = "leave" /\ Head(a) \in Requests
  BY <1>4
<1>5. \/ a = << >> \/ (\E x \in RoomNames : a = <<Msg("leave", x)>>)
      \/ \E x, y \in RoomNames : a = <<Msg("leave", x), Msg("leave", y)>>
  BY DEF Partings
<1> QED  BY <1>1, <1>2, <1>3, <1>4, <1>5

\* The next of the leaves under way, before what follows them.
LEMMA ServePartings ==
    ASSUME MemberTypes, SeatInv, Common, Serve, NEW a \in Partings, a # << >>, Farewell(a),
           NEW b \in Seq(Requests), up = a \o b, Closing(Len(down))
    PROVE  /\ \E c \in Partings : up' = c \o b /\ Farewell(c)'
           /\ Common' /\ Closing(Len(down))'
           /\ UNCHANGED <<link, room, creds, tasks, hooks, left>>
<1>1. up' = Tail(up) /\ UNCHANGED <<link, mine, hist>> /\ (Head(up).k = "leave" => SrvLeave(Head(up)))  BY Served
<1>2. UNCHANGED <<link, room, creds, buf, pendLeave, tasks, hooks, left, trouble>>  BY <1>1 DEF mine, hist
<1>3. a \in Seq(Requests) /\ Head(a).k = "leave"  BY PartingsTyped
<1>4. Head(up) = Head(a) /\ Tail(up) = Tail(a) \o b  BY <1>3, HeadOfConcat
<1>5. SrvLeave(Head(a))  BY <1>1, <1>3, <1>4
<1>6. Tail(a) \in Partings /\ Farewell(Tail(a))' /\ Ending  BY <1>2, <1>5, FarewellServe
<1>7. Common' /\ Closing(Len(down))'  BY <1>2, <1>6, EndingKeeps
<1>8. PICK c : c = Tail(a)  OBVIOUS
<1>9. c \in Partings /\ up' = c \o b  BY <1>1, <1>4, <1>6, <1>8
<1>10. Farewell(c)'  BY <1>6, <1>8
<1> QED  BY <1>2, <1>7, <1>9, <1>10

\* A command is over.
LEMMA CalmAfter ==
    ASSUME MemberTypes', Common', tasks' = << >>, Linked', (Closing(Len(down)))', creds' = Cred(room)',
           room' \notin left', up' = << >>, Seated' = Only(room)'
    PROVE  Fits'
<1>1. down' \in Seq(Envelopes)  BY DEF MemberTypes, PipeTypes
<1>2. \A i \in DOMAIN down' : down'[i].k = "closed"  BY <1>1 DEF Closing
<1>3. \A i \in DOMAIN down' : RDown(i)'  BY <1>2 DEF RDown, IsAnswer, RNF, Msg
<1>4. Recovering'  BY <1>3 DEF Recovering, RUp, Only
<1> QED  BY <1>4 DEF Fits

\* The server reads a request to leave, with no call under way,
LEMMA ServeLeaves ==
    ASSUME MemberTypes, SeatInv, Common, Linked, Leaves, Serve, MemberTypes'  PROVE Fits'
<1>1. /\ tasks = << >> /\ Closing(Len(down)) /\ creds = Cred(room) /\ room \notin left
      /\ up # << >> /\ Farewell(up) /\ up \in Seq(Requests)
  BY DEF Leaves, MemberTypes, PipeTypes
<1>2. PICK a \in Partings : a = up /\ Farewell(a)  BY <1>1, FarewellParts
<1>3. up = a \o << >> /\ << >> \in Seq(Requests)  BY <1>1, <1>2
<1>4. PICK c \in Partings : up' = c \o << >> /\ Farewell(c)'
  BY <1>1, <1>2, <1>3, ServePartings
<1>5. Common' /\ Closing(Len(down))' /\ UNCHANGED <<link, room, creds, tasks, hooks, left>>
  BY <1>1, <1>2, <1>3, ServePartings
<1>6. up' = c  BY <1>4, PartingsTyped
<1>7. (creds = Cred(room))' /\ Linked'  BY <1>1, <1>5 DEF Cred, Linked
<1>8. CASE c = << >>
  <2>1. Seated' = Only(room)'  BY <1>4, <1>8 DEF Farewell
  <2> QED  BY <1>1, <1>5, <1>6, <1>7, <1>8, <2>1, CalmAfter
<1>9. CASE c # << >>
  <2>1. Farewell(up)'  BY <1>4, <1>6
  <2>2. Leaves'  BY <1>1, <1>5, <1>6, <1>7, <1>9, <2>1 DEF Leaves
  <2> QED  BY <1>5, <1>7, <2>2 DEF Fits, Busy
<1> QED  BY <1>8, <1>9

\* A reply comes last.
LEMMA RepliedLast ==
    ASSUME MemberTypes, Common, Closing(Len(down)), NEW e, e.k # "closed", down' = Append(down, e),
           tasks' = tasks, trouble = 0 => e.k # "state" /\ \A r \in Joinable : life'[r] = "open",
           \A r \in Rooms : life[r] \in {"open", "ended"} => life'[r] = life[r],
           UNCHANGED <<link, buf, pendLeave, hooks, left, trouble>>
    PROVE  /\ down' # << >> /\ down'[Len(down')] = e /\ (Closing(Len(down) - 1))' /\ Common'
<1>1. down \in Seq(Envelopes) /\ left \subseteq Rooms /\ life \in [Rooms -> {"unborn", "open", "ended"}]
  BY DEF MemberTypes, PipeTypes, PastTypes, ServerTypes
<1>2. /\ Len(down') = Len(down) + 1 /\ down'[Len(down) + 1] = e /\ DOMAIN down' = 1 .. Len(down) + 1
      /\ \A i \in 1 .. Len(down) : down'[i] = down[i]
  BY <1>1
<1>3. down' # << >> /\ down'[Len(down')] = e  BY <1>1, <1>2
<1>4. Len(down') - 1 = Len(down)  BY <1>1, <1>2
<1>5. Closing(Len(down) - 1)'  BY <1>2, <1>4 DEF Closing
<1>6. ASSUME NEW i \in DOMAIN down', down'[i].k = "closed"  PROVE life'[down'[i].r] = "ended"
  <2>1. i \in 1 .. Len(down)
    <3>1. i \in 1 .. Len(down) + 1 /\ i # Len(down) + 1  BY <1>2, <1>6
    <3> QED  BY <1>1, <3>1
  <2>2. i \in DOMAIN down /\ down'[i] = down[i] /\ down[i] \in Envelopes  BY <1>1, <1>2, <2>1
  <2>3. life[down[i].r] = "ended" /\ down[i].r \in Rooms  BY <1>6, <2>2, EnvelopeTyped DEF Common
  <2> QED  BY <2>2, <2>3
<1>7. trouble = 0 => \A i \in DOMAIN down' : down'[i].k # "state"
  <2> SUFFICES ASSUME trouble = 0, NEW i \in DOMAIN down'  PROVE down'[i].k # "state"  OBVIOUS
  <2>1. CASE i = Len(down) + 1  BY <1>2, <2>1
  <2>2. CASE i # Len(down) + 1
    <3>1. i \in 1 .. Len(down)  BY <1>1, <1>2, <2>2
    <3> QED  BY <1>2, <3>1 DEF Closing
  <2> QED  BY <2>1, <2>2
<1>8. \A r \in left : life'[r] # "unborn"  BY <1>1 DEF Common
<1>9. Common'  BY <1>6, <1>7, <1>8 DEF Common
<1> QED  BY <1>3, <1>5, <1>9

\* with a join under way, or the join itself,
LEMMA ServeJoins ==
    ASSUME MemberTypes, SeatInv, Common, Linked, NEW t \in Calls, tasks = <<t>>, Joins(t), Serve
    PROVE  Fits'
<1>1. up # << >> /\ up' = Tail(up) /\ UNCHANGED <<link, mine, hist>>
      /\ (Head(up).k = "join" => SrvJoin(Head(up)))
  BY Served
<1>2. UNCHANGED <<link, room, creds, buf, pendLeave, tasks, hooks, left, trouble>>  BY <1>1 DEF mine, hist
<1>3. t.kind = "join" /\ left = {} /\ JoinAsked(t)  BY <1>1 DEF Joins, JoinReplied, JoinHeard
<1>4. t.r \in Joinable /\ t.r \in Rooms /\ t.r # None
  BY <1>3, CallKinds, ClientRoomAssumption DEF Rooms, ClientRoomAssumption
<1> DEFINE b == <<Msg("join", t.r)>>
<1>5. PICK a \in Partings : /\ Waiting(t) /\ t.held = room /\ creds = Cred(room)
                            /\ up = a \o b /\ Farewell(a) /\ Closing(Len(down))
  BY <1>3 DEF JoinAsked
<1>6. ASSUME Common', JoinAsked(t)' \/ JoinReplied(t)'  PROVE Fits'
  <2>1. Joins(t)'  BY <1>2, <1>3, <1>6 DEF Joins
  <2>2. tasks' = <<t>> /\ Linked'  BY <1>2 DEF Linked
  <2> QED  BY <1>6, <2>1, <2>2 DEF Fits, Busy
<1>7. b \in Seq(Requests) /\ Head(b) = Msg("join", t.r) /\ Tail(b) = << >>
  <2>1. Msg("join", t.r) \in Requests  BY <1>4, EnvelopesTyped
  <2> QED  BY <2>1
<1> HIDE DEF b
<1>8. CASE a # << >>
  <2>1. (\E c \in Partings : up' = c \o b /\ Farewell(c)') /\ Common' /\ Closing(Len(down))'
    BY <1>5, <1>7, <1>8, ServePartings
  <2>2. JoinAsked(t)'  BY <1>2, <1>5, <2>1 DEF JoinAsked, Waiting, Cred, b, Msg
  <2> QED  BY <1>6, <2>1, <2>2
<1>9. CASE a = << >>
  <2>1. up = b  BY <1>5, <1>7, <1>9
  <2>2. up' = << >> /\ Head(up).k = "join" /\ Head(up).r = t.r  BY <1>1, <1>7, <2>1 DEF Msg
  <2>3. SrvJoin(Head(up)) /\ Seated = Only(room)  BY <1>1, <1>5, <1>9, <2>2 DEF Farewell
  <2> DEFINE n == Len(down')
  <2>4. ASSUME NEW e, e.k \in {"joined", "error"}, down' = Append(down, e), life' = life,
               \/ e = Msg("joined", t.r) /\ Seated' = {t.r} \cup Only(room) /\ t.r # room
               \/ e.k = "error" /\ Seated' = Seated
        PROVE  Fits'
    <3>1. /\ down' # << >> /\ down'[Len(down')] = e /\ (Closing(Len(down) - 1))' /\ Common'
      <4>1. trouble = 0 => e.k # "state" /\ \A r \in Joinable : life'[r] = "open"  BY <2>4 DEF Common
      <4>2. e.k # "closed"  BY <2>4
      <4>3. \A r \in Rooms : life[r] \in {"open", "ended"} => life'[r] = life[r]  BY <2>4
      <4> QED  BY <1>2, <1>5, <2>4, <4>1, <4>2, <4>3, RepliedLast
    <3>2. Waiting(t)' /\ (t.held = room)' /\ (creds = Cred(room))'  BY <1>2, <1>5 DEF Waiting, Cred
    <3>3. \/ down'[Len(down')] = Msg("joined", t.r) /\ Seated' = {t.r} \cup Only(room)' /\ t.r # room'
          \/ down'[Len(down')].k = "error" /\ Seated' = Only(room)'
      <4>1. room' = room /\ Only(room)' = Only(room)  BY <1>2 DEF Only
      <4> QED  BY <2>3, <2>4, <3>1, <4>1
    <3>4. JoinReplied(t)'  BY <2>2, <3>1, <3>2, <3>3 DEF JoinReplied, Msg
    <3> QED  BY <1>6, <3>1, <3>4
  <2>5. CASE life[t.r] # "open"
    <3>1. down' = Append(down, Msg("error", "RoomNotFound")) /\ UNCHANGED server
      BY <2>2, <2>3, <2>5 DEF SrvJoin, Reply
    <3>2. Seated' = Seated /\ life' = life  BY <3>1 DEF Seated, server
    <3>3. Msg("error", "RoomNotFound").k = "error"  BY DEF Msg
    <3> QED  BY <2>4, <3>1, <3>2, <3>3
  <2>6. CASE life[t.r] = "open" /\ seat[t.r] \in {"on", "off"}
    <3>1. down' = Append(down, Msg("error", "AlreadyJoined")) /\ UNCHANGED server
      BY <2>2, <2>3, <2>6 DEF SrvJoin, Reply
    <3>2. Seated' = Seated /\ life' = life  BY <3>1 DEF Seated, server
    <3>3. Msg("error", "AlreadyJoined").k = "error"  BY DEF Msg
    <3> QED  BY <2>4, <3>1, <3>2, <3>3
  <2>7. CASE life[t.r] = "open" /\ seat[t.r] \notin {"on", "off"}
    <3>1. /\ seat' = [seat EXCEPT ![t.r] = "on"] /\ life' = life /\ down' = Append(down, Msg("joined", t.r))
      BY <2>2, <2>3, <2>7 DEF SrvJoin
    <3>2. Seated' = Seated \cup {t.r} /\ t.r \notin Seated
      BY <1>4, <2>7, <3>1 DEF Seated, MemberTypes, ServerTypes
    <3>3. t.r # room
      <4>1. room # None => room \in Seated  BY <2>3 DEF Only
      <4> QED  BY <1>4, <3>2, <4>1
    <3>4. Msg("joined", t.r).k = "joined"  BY DEF Msg
    <3>5. Seated' = {t.r} \cup Only(room)  BY <2>3, <3>2
    <3> QED  BY <2>4, <3>1, <3>3, <3>4, <3>5
  <2> QED  BY <2>5, <2>6, <2>7
<1> QED  BY <1>8, <1>9

\* and with a create.
LEMMA ServeCreates ==
    ASSUME MemberTypes, SeatInv, Common, Linked, NEW t \in Calls, tasks = <<t>>, Creates(t), Serve
    PROVE  Fits'
<1>1. up # << >> /\ up' = Tail(up) /\ UNCHANGED <<link, mine, hist>>
      /\ (Head(up).k = "create" => SrvCreate)
  BY Served
<1>2. UNCHANGED <<link, room, creds, buf, pendLeave, tasks, hooks, left, trouble>>  BY <1>1 DEF mine, hist
<1>3. t.kind = "create" /\ creds = None /\ CreateAsked(t)  BY <1>1 DEF Creates, CreateReplied, CreateHeard
<1> DEFINE b == <<Msg("create", None)>>
<1>5. PICK a \in Partings : /\ Waiting(t) /\ room = None
                            /\ up = a \o b /\ Farewell(a) /\ Closing(Len(down))
  BY <1>3 DEF CreateAsked
<1>6. ASSUME Common', CreateAsked(t)' \/ CreateReplied(t)'  PROVE Fits'
  <2>1. Creates(t)'  BY <1>2, <1>3, <1>6 DEF Creates
  <2>2. tasks' = <<t>> /\ Linked'  BY <1>2 DEF Linked
  <2> QED  BY <1>6, <2>1, <2>2 DEF Fits, Busy
<1>7. b \in Seq(Requests) /\ Head(b) = Msg("create", None) /\ Tail(b) = << >>
  <2>1. Msg("create", None) \in Requests  BY EnvelopesTyped
  <2> QED  BY <2>1
<1> HIDE DEF b
<1>8. CASE a # << >>
  <2>1. (\E c \in Partings : up' = c \o b /\ Farewell(c)') /\ Common' /\ Closing(Len(down))'
    BY <1>5, <1>7, <1>8, ServePartings
  <2>2. CreateAsked(t)'  BY <1>2, <1>5, <2>1 DEF CreateAsked, Waiting, b, Msg
  <2> QED  BY <1>6, <2>1, <2>2
<1>9. CASE a = << >>
  <2>1. up = b  BY <1>5, <1>7, <1>9
  <2>2. up' = << >> /\ Head(up).k = "create"  BY <1>1, <1>7, <2>1 DEF Msg
  <2>3. SrvCreate /\ Seated = {}  BY <1>1, <1>5, <1>9, <2>2 DEF Farewell, Only
  <2>8. Waiting(t)' /\ room' = None  BY <1>2, <1>5 DEF Waiting
  <2>4. CASE \A r \in Own : life[r] # "unborn"
    <3>1. down' = Append(down, Msg("error", "Internal")) /\ UNCHANGED server
      BY <2>3, <2>4 DEF SrvCreate, Reply
    <3>2. Seated' = {} /\ life' = life  BY <2>3, <3>1 DEF Seated, server
    <3>3. PICK e : e = Msg("error", "Internal") /\ e.k = "error"
      <4>1. Msg("error", "Internal").k = "error"  BY DEF Msg
      <4> QED  BY <4>1
    <3>4. /\ down' # << >> /\ down'[Len(down')] = e /\ (Closing(Len(down) - 1))' /\ Common'
      <4>1. trouble = 0 => e.k # "state" /\ \A r \in Joinable : life'[r] = "open"  BY <3>2, <3>3 DEF Common
      <4>2. e.k # "closed" /\ down' = Append(down, e)  BY <3>1, <3>3
      <4>3. \A r \in Rooms : life[r] \in {"open", "ended"} => life'[r] = life[r]  BY <3>2
      <4> QED  BY <1>2, <1>5, <4>1, <4>2, <4>3, RepliedLast
    <3>5. CreateReplied(t)'  BY <2>2, <2>8, <3>2, <3>3, <3>4 DEF CreateReplied
    <3> QED  BY <1>6, <3>4, <3>5
  <2>5. CASE ~ \A r \in Own : life[r] # "unborn"
    <3> DEFINE r == CHOOSE q \in Own : life[q] = "unborn"
    <3>1. r \in Own /\ r \in Rooms /\ r \notin Joinable /\ life[r] = "unborn"
      BY <2>5, ClientRoomAssumption DEF Rooms, ClientRoomAssumption
    <3>2. /\ life' = [life EXCEPT ![r] = "open"] /\ seat' = [seat EXCEPT ![r] = "on"]
          /\ down' = Append(down, Msg("created", r))
      BY <2>3, <2>5 DEF SrvCreate
    <3> HIDE DEF r
    <3>3. PICK o \in Own : o = r  BY <3>1
    <3>4. life \in [Rooms -> {"unborn", "open", "ended"}] /\ seat \in [Rooms -> {"none", "on", "off", "left"}]
      BY DEF MemberTypes, ServerTypes
    <3>5. Seated' = {o}  BY <2>3, <3>1, <3>2, <3>3, <3>4 DEF Seated
    <3>6. o \notin left  BY <3>1, <3>3 DEF Common
    <3>7. PICK e : e = Msg("created", o) /\ e.k = "created"
      <4>1. Msg("created", o).k = "created"  BY DEF Msg
      <4> QED  BY <4>1
    <3>8. /\ down' # << >> /\ down'[Len(down')] = e /\ (Closing(Len(down) - 1))' /\ Common'
      <4>1. trouble = 0 => e.k # "state" /\ \A x \in Joinable : life'[x] = "open"
        <5>1. \A x \in Joinable : life'[x] = life[x]  BY <3>1, <3>2, <3>4 DEF Rooms
        <5> QED  BY <3>7, <5>1 DEF Common
      <4>2. e.k # "closed" /\ down' = Append(down, e)  BY <3>2, <3>3, <3>7
      <4>3. \A x \in Rooms : life[x] \in {"open", "ended"} => life'[x] = life[x]  BY <3>1, <3>2, <3>4
      <4> QED  BY <1>2, <1>5, <4>1, <4>2, <4>3, RepliedLast
    <3>9. CreateReplied(t)'  BY <1>2, <2>2, <2>8, <3>5, <3>6, <3>7, <3>8 DEF CreateReplied, Msg
    <3> QED  BY <1>6, <3>8, <3>9
  <2> QED  BY <2>4, <2>5
<1> QED  BY <1>8, <1>9

\* A room that ends while a command is under way is none of the user's.
LEMMA ClosedElsewhere ==
    ASSUME MemberTypes, SeatInv, Common, Deliver, down[1].k = "closed", room = None \/ room \in Seated,
           creds = Cred(room)
    PROVE  /\ UNCHANGED <<tasks, room, creds>> /\ Common'
           /\ UNCHANGED <<link, up, life, seat, pendLeave, hooks, left, trouble>>
           /\ Seated' = Seated
<1> DEFINE m == down[1]
<1>0. None \notin Joinable  BY ClientRoomAssumption DEF ClientRoomAssumption
<1>1. /\ UNCHANGED <<link, up, life, seat, pendLeave, hooks, left, trouble>>
      /\ 1 \in DOMAIN down /\ down' = Tail(down)
      /\ \A i \in DOMAIN down' : i + 1 \in DOMAIN down /\ down'[i] = down[i + 1]
  BY Taken DEF server, hist
<1>2. life[m.r] = "ended" /\ buf = << >>  BY <1>1 DEF Common
<1>3. tasks' = tasks /\ (Foreign(m) => SameSession) /\ (~Foreign(m) => Handles(m))  BY Unawaited
<1>4. UNCHANGED <<room, creds, buf>>
  <2>1. CASE Foreign(m)  BY <1>3, <2>1 DEF SameSession
  <2>2. CASE ~Foreign(m)
    <3>1. room = None \/ m.r = room  BY <2>2 DEF Foreign
    <3>2. room = None  BY <1>2, <3>1 DEF SeatInv
    <3>3. creds = None  BY <1>0, <3>2 DEF Cred
    <3>4. room' = None /\ creds' = None /\ buf' = << >>  BY <1>3, <2>2 DEF Handles, SessionEnds
    <3> QED  BY <1>2, <3>2, <3>3, <3>4
  <2> QED  BY <2>1, <2>2
<1>5. Common'  BY <1>1, <1>3, <1>4 DEF Common
<1>6. Seated' = Seated  BY <1>1 DEF Seated
<1> QED  BY <1>1, <1>3, <1>4, <1>5, <1>6

\* Closings stay closings,
LEMMA ClosingTail ==
    ASSUME MemberTypes, Deliver, NEW n \in {0, 1}, Closing(Len(down) - n)
    PROVE  (Closing(Len(down) - n))'
<1>1. down \in Seq(Envelopes) /\ down' \in Seq(Envelopes) /\ Len(down') = Len(down) - 1
      /\ \A i \in DOMAIN down' : down'[i] = down[i + 1]
  BY Taken DEF MemberTypes, PipeTypes, Deliver
<1>2. ASSUME NEW i \in 1 .. Len(down') - n  PROVE down'[i].k = "closed"
  <2>1. i \in DOMAIN down' /\ i + 1 \in 1 .. Len(down) - n  BY <1>1, <1>2
  <2>2. down'[i] = down[i + 1]  BY <1>1, <2>1
  <2>3. down[i + 1].k = "closed"  BY <2>1 DEF Closing
  <2> QED  BY <2>2, <2>3
<1> QED  BY <1>2 DEF Closing

\* and the answer stays last.
LEMMA LastTail ==
    ASSUME MemberTypes, Deliver, Len(down) # 1
    PROVE  down' # << >> /\ down'[Len(down')] = down[Len(down)]
<1>1. down \in Seq(Envelopes) /\ down # << >> /\ down' = Tail(down)  BY DEF MemberTypes, PipeTypes, Deliver
<1>5. Len(down) \in Nat \ {0}  BY <1>1, EmptySeq
<1>6. Len(down') = Len(down) - 1 /\ down' \in Seq(Envelopes)  BY <1>1, HeadTailProperties
<1>2. Len(down) \in Nat /\ Len(down) > 1 /\ Len(down') = Len(down) - 1 /\ down' \in Seq(Envelopes)
  BY <1>5, <1>6
<1>3. \A i \in 1 .. Len(down) - 1 : down'[i] = down[i + 1]  BY <1>1
<1>4. down'[Len(down) - 1] = down[Len(down)]  BY <1>2, <1>3
<1> QED  BY <1>2, <1>4

\* An envelope comes in, with no call under way,
LEMMA DeliverLeaves ==
    ASSUME MemberTypes, SeatInv, Common, Linked, Leaves, Deliver  PROVE Fits'
<1>1. /\ tasks = << >> /\ Closing(Len(down)) /\ creds = Cred(room) /\ room \notin left
      /\ up # << >> /\ Farewell(up)
  BY DEF Leaves
<1>2. 1 \in DOMAIN down  BY Taken
<1>3. down[1].k = "closed"  BY <1>1, <1>2 DEF Closing, MemberTypes, PipeTypes
<1>4. room = None \/ room \in Seated  BY <1>1 DEF Farewell, Only
<1>5. /\ UNCHANGED <<tasks, room, creds, link, up, hooks, left>> /\ Common' /\ Seated' = Seated
  BY <1>1, <1>3, <1>4, ClosedElsewhere
<1>6. (Closing(Len(down)))'
  <2>1. Closing(Len(down) - 0)  BY <1>1 DEF MemberTypes, PipeTypes
  <2>2. (Closing(Len(down) - 0))'  BY <2>1, ClosingTail
  <2>3. Len(down') - 0 = Len(down')  BY DEF MemberTypes, PipeTypes, Deliver
  <2> QED  BY <2>2, <2>3
<1>7. PICK a : a = up /\ Farewell(a)  BY <1>1
<1>8. Farewell(a)'  BY <1>5, <1>7 DEF Farewell, Only, Msg
<1>9. Farewell(up)'  BY <1>5, <1>7, <1>8
<1>10. Leaves'  BY <1>1, <1>5, <1>6, <1>9 DEF Leaves, Cred
<1> QED  BY <1>5, <1>10 DEF Fits, Busy, Linked

\* The one call under way gets its reply.
LEMMA OneReplied ==
    ASSUME MemberTypes, Deliver, NEW t \in Calls, tasks = <<t>>, Waiting(t), IsAnswer(down[1]),
           down[1].k # "error" => Expects(t) = down[1].k
    PROVE  /\ \E u \in Calls : tasks' = <<u>> /\ u.kind = t.kind /\ u.r = t.r /\ u.held = t.held /\ u.reply = down[1]
           /\ down[1].k # "error" => room' = down[1].r
           /\ down[1].k = "error" => room' = room
           /\ UNCHANGED <<creds, buf>>
<1> DEFINE m == down[1]
<1>1. m \in Envelopes /\ m.k \in {"joined", "created", "error"}  BY Taken DEF IsAnswer
<1>2. DOMAIN tasks = {1} /\ tasks[1] = t  OBVIOUS
<1>3. 1 \in Resolves(m)
  <2> HIDE DEF m
  <2>1. 1 \in {i \in DOMAIN tasks : Waiting(tasks[i])}  BY <1>2
  <2>2. m.k # "error" => Expects(tasks[1]) = m.k  BY <1>2 DEF m
  <2> QED  BY <1>2, <2>1, <2>2 DEF Resolves
<1>4. (\E i \in Resolves(m) : tasks' = [tasks EXCEPT ![i].reply = m])
      /\ Handles(m) /\ (m.k = "error" => UNCHANGED <<room, creds, buf>>)
  BY <1>3, Awaited
<1>5. PICK i \in Resolves(m) : tasks' = [tasks EXCEPT ![i].reply = m]  BY <1>4
<1>6. i = 1  BY <1>2 DEF Resolves
<1> HIDE DEF m
<1>7. /\ tasks' \in Seq(Calls) /\ Len(tasks') = 1
      /\ tasks'[1].kind = t.kind /\ tasks'[1].r = t.r /\ tasks'[1].held = t.held /\ tasks'[1].reply = m
  <2>1. Len(tasks) = 1 /\ 1 \in DOMAIN tasks /\ tasks' = [tasks EXCEPT ![1].reply = m]  BY <1>2, <1>5, <1>6
  <2>2. /\ tasks' \in Seq(Calls) /\ Len(tasks') = Len(tasks)
        /\ tasks'[1].kind = tasks[1].kind /\ tasks'[1].r = tasks[1].r
        /\ tasks'[1].held = tasks[1].held /\ tasks'[1].reply = m
    BY <1>1, <2>1, Replied
  <2> QED  BY <1>2, <2>1, <2>2
<1>8. PICK u : u = tasks'[1]  OBVIOUS
<1>9. u \in Calls /\ tasks' = <<u>>
  <2>1. 1 \in 1 .. Len(tasks') /\ u \in Calls  BY <1>7, <1>8, ElementOfSeq
  <2>2. <<u>> \in Seq(Calls) /\ Len(<<u>>) = 1 /\ <<u>>[1] = u  BY <2>1
  <2>3. \A j \in 1 .. Len(tasks') : tasks'[j] = <<u>>[j]  BY <1>7, <1>8, <2>2
  <2> QED  BY <1>7, <2>1, <2>2, <2>3, SeqEqual
<1>10. m.k # "error" => room' = m.r  BY <1>1, <1>4 DEF Handles
<1>11. UNCHANGED <<creds, buf>>  BY <1>1, <1>4 DEF Handles
<1>12. u.kind = t.kind /\ u.r = t.r /\ u.held = t.held /\ u.reply = m  BY <1>7, <1>8
<1> QED  BY <1>4, <1>9, <1>10, <1>11, <1>12 DEF m

\* After the only envelope.
LEMMA NoneAfter ==
    ASSUME MemberTypes, Common, Deliver, Len(down) = 1, UNCHANGED <<buf>>,
           \A i \in DOMAIN tasks' : tasks'[i].kind # "rejoin"
    PROVE  down' = << >> /\ Common' /\ UNCHANGED <<link, up, life, seat, hooks, left>> /\ Seated' = Seated
<1>1. UNCHANGED <<link, up, life, seat, pendLeave, hooks, left, trouble>>  BY Taken DEF server, hist
<1>2. down \in Seq(Envelopes) /\ down # << >> /\ down' = Tail(down)  BY DEF MemberTypes, PipeTypes, Deliver
<1>3. down' \in Seq(Envelopes) /\ Len(down') = 0  BY <1>2, HeadTailProperties
<1>4. down' = << >>  BY <1>3, EmptySeq
<1>5. Common'  BY <1>1, <1>4 DEF Common
<1> QED  BY <1>1, <1>4, <1>5 DEF Seated

\* with a join under way,
LEMMA DeliverJoins ==
    ASSUME MemberTypes, SeatInv, Common, Linked, NEW t \in Calls, tasks = <<t>>, Joins(t), Deliver
    PROVE  Fits'
<1>0. /\ t.kind = "join" /\ left = {} /\ t.r \in Joinable /\ t.held \in RoomNames /\ Expects(t) = "joined"
      /\ None \notin Rooms
  BY CallKinds, ClientRoomAssumption DEF Joins, ClientRoomAssumption, Rooms
<1>1. 1 \in DOMAIN down /\ down # << >> /\ down \in Seq(Envelopes) /\ Len(down) \in Nat /\ Len(down) >= 1
  <2>1. down \in Seq(Envelopes) /\ down # << >> /\ 1 \in DOMAIN down  BY Taken DEF MemberTypes, PipeTypes
  <2>2. Len(down) \in Nat \ {0}  BY <2>1, EmptySeq
  <2> QED  BY <2>1, <2>2
<1>2. ASSUME Common', tasks' = <<t>>, UNCHANGED <<link, hooks, left>>, JoinAsked(t)' \/ JoinReplied(t)'  PROVE Fits'
  <2>1. Joins(t)'  BY <1>0, <1>2 DEF Joins
  <2> QED  BY <1>2, <2>1 DEF Fits, Busy, Linked
<1>3. CASE JoinAsked(t)
  <2>1. PICK a \in Partings : /\ Waiting(t) /\ t.held = room /\ creds = Cred(room)
                              /\ up = a \o <<Msg("join", t.r)>> /\ Farewell(a) /\ Closing(Len(down))
    BY <1>3 DEF JoinAsked
  <2>2. down[1].k = "closed"  BY <1>1, <2>1 DEF Closing
  <2>3. room = None \/ room \in Seated  BY <2>1 DEF Farewell, Only
  <2>4. /\ UNCHANGED <<tasks, room, creds, link, up, hooks, left>> /\ Common' /\ Seated' = Seated
    BY <2>1, <2>2, <2>3, ClosedElsewhere
  <2>5. (Closing(Len(down)))'
    <3>1. Closing(Len(down) - 0)  BY <1>1, <2>1
    <3>2. (Closing(Len(down) - 0))'  BY <3>1, ClosingTail
    <3>3. Len(down') - 0 = Len(down')  BY DEF MemberTypes, PipeTypes, Deliver
    <3> QED  BY <3>2, <3>3
  <2>6. Farewell(a)'  BY <2>1, <2>4 DEF Farewell, Only, Msg
  <2>7. JoinAsked(t)'  BY <2>1, <2>4, <2>5, <2>6 DEF JoinAsked, Waiting, Cred, Msg
  <2> QED  BY <1>2, <2>4, <2>7
<1>4. CASE JoinReplied(t)
  <2>1. /\ Waiting(t) /\ t.held = room /\ creds = Cred(room) /\ up = <<>> /\ Closing(Len(down) - 1)
        /\ \/ down[Len(down)] = Msg("joined", t.r) /\ Seated = {t.r} \cup Only(room) /\ t.r # room
           \/ down[Len(down)].k = "error" /\ Seated = Only(room)
    BY <1>4 DEF JoinReplied
  <2>2. CASE Len(down) # 1
    <3>1. down[1].k = "closed"
      <4>1. 1 \in 1 .. Len(down) - 1  BY <1>1, <2>2
      <4> QED  BY <2>1, <4>1 DEF Closing
    <3>2. room = None \/ room \in Seated  BY <2>1 DEF Only
    <3>3. /\ UNCHANGED <<tasks, room, creds, link, up, hooks, left>> /\ Common' /\ Seated' = Seated
      BY <2>1, <3>1, <3>2, ClosedElsewhere
    <3>4. (Closing(Len(down) - 1))'  BY <2>1, ClosingTail
    <3>5. down' # << >> /\ down'[Len(down')] = down[Len(down)]  BY <2>2, LastTail
    <3>6. JoinReplied(t)'  BY <2>1, <3>3, <3>4, <3>5 DEF JoinReplied, Waiting, Cred, Only, Msg
    <3> QED  BY <1>2, <3>3, <3>6
  <2>3. CASE Len(down) = 1
    <3>1. \/ down[1] = Msg("joined", t.r) /\ Seated = {t.r} \cup Only(room) /\ t.r # room
          \/ down[1].k = "error" /\ Seated = Only(room)
      BY <2>1, <2>3
    <3>2. down[1].k \in {"joined", "error"}  BY <3>1 DEF Msg
    <3>3. /\ \E u \in Calls : tasks' = <<u>> /\ u.kind = t.kind /\ u.r = t.r /\ u.held = t.held /\ u.reply = down[1]
          /\ down[1].k # "error" => room' = down[1].r
          /\ down[1].k = "error" => room' = room
          /\ UNCHANGED <<creds, buf>>
      BY <1>0, <2>1, <3>2, OneReplied DEF IsAnswer
    <3>4. PICK u \in Calls : tasks' = <<u>> /\ u.kind = t.kind /\ u.r = t.r /\ u.held = t.held /\ u.reply = down[1]
      BY <3>3
    <3>5. \A i \in DOMAIN tasks' : tasks'[i].kind # "rejoin"  BY <1>0, <3>4
    <3>6. down' = << >> /\ Common' /\ UNCHANGED <<link, up, life, seat, hooks, left>> /\ Seated' = Seated
      BY <2>3, <3>3, <3>5, NoneAfter
    <3>7. JoinHeard(u)'
      <4>1. CASE down[1] = Msg("joined", t.r) /\ Seated = {t.r} \cup Only(room) /\ t.r # room
        <5>1. down[1].k = "joined" /\ down[1].r = t.r  BY <4>1 DEF Msg
        <5>2. room' = u.r /\ Seated' = {u.r} \cup Only(u.held) /\ u.held # u.r /\ u.reply = Msg("joined", u.r)
          BY <2>1, <3>3, <3>4, <3>6, <4>1, <5>1
        <5> QED  BY <2>1, <3>6, <5>2 DEF JoinHeard, Only, Msg
      <4>2. CASE down[1].k = "error" /\ Seated = Only(room)
        BY <2>1, <3>3, <3>4, <3>6, <4>2 DEF JoinHeard, Only, Cred
      <4> QED  BY <3>1, <4>1, <4>2
    <3>8. Joins(u)'  BY <1>0, <3>4, <3>6, <3>7 DEF Joins
    <3> QED  BY <3>4, <3>6, <3>8 DEF Fits, Busy, Linked
  <2> QED  BY <2>2, <2>3
<1>5. CASE JoinHeard(t)  BY <1>1, <1>5 DEF JoinHeard
<1> QED  BY <1>3, <1>4, <1>5 DEF Joins

\* and with a create.
LEMMA DeliverCreates ==
    ASSUME MemberTypes, SeatInv, Common, Linked, NEW t \in Calls, tasks = <<t>>, Creates(t), Deliver
    PROVE  Fits'
<1>0. /\ t.kind = "create" /\ creds = None /\ Expects(t) = "created" /\ None \notin Rooms /\ None \notin Joinable
  BY CallKinds, ClientRoomAssumption DEF Creates, ClientRoomAssumption, Rooms
<1>1. 1 \in DOMAIN down /\ down # << >> /\ down \in Seq(Envelopes) /\ Len(down) \in Nat /\ Len(down) >= 1
  <2>1. down \in Seq(Envelopes) /\ down # << >> /\ 1 \in DOMAIN down  BY Taken DEF MemberTypes, PipeTypes
  <2>2. Len(down) \in Nat \ {0}  BY <2>1, EmptySeq
  <2> QED  BY <2>1, <2>2
<1>2. ASSUME Common', tasks' = <<t>>, UNCHANGED <<link, hooks, creds>>, CreateAsked(t)' \/ CreateReplied(t)'  PROVE Fits'
  <2>1. Creates(t)'  BY <1>0, <1>2 DEF Creates
  <2> QED  BY <1>2, <2>1 DEF Fits, Busy, Linked
<1>3. CASE CreateAsked(t)
  <2>1. PICK a \in Partings : /\ Waiting(t) /\ room = None
                              /\ up = a \o <<Msg("create", None)>> /\ Farewell(a) /\ Closing(Len(down))
    BY <1>3 DEF CreateAsked
  <2>2. down[1].k = "closed"  BY <1>1, <2>1 DEF Closing
  <2>3. creds = Cred(room)  BY <1>0, <2>1 DEF Cred
  <2>4. /\ UNCHANGED <<tasks, room, creds, link, up, hooks, left>> /\ Common' /\ Seated' = Seated
    BY <2>1, <2>2, <2>3, ClosedElsewhere
  <2>5. (Closing(Len(down)))'
    <3>1. Closing(Len(down) - 0)  BY <1>1, <2>1
    <3>2. (Closing(Len(down) - 0))'  BY <3>1, ClosingTail
    <3>3. Len(down') - 0 = Len(down')  BY DEF MemberTypes, PipeTypes, Deliver
    <3> QED  BY <3>2, <3>3
  <2>6. Farewell(a)'  BY <2>1, <2>4 DEF Farewell, Only, Msg
  <2>7. CreateAsked(t)'  BY <2>1, <2>4, <2>5, <2>6 DEF CreateAsked, Waiting, Msg
  <2> QED  BY <1>2, <2>4, <2>7
<1>4. CASE CreateReplied(t)
  <2>1. /\ Waiting(t) /\ room = None /\ up = <<>> /\ Closing(Len(down) - 1)
        /\ \/ \E o \in Own \ left : down[Len(down)] = Msg("created", o) /\ Seated = {o}
           \/ down[Len(down)].k = "error" /\ Seated = {}
    BY <1>4 DEF CreateReplied
  <2>2. CASE Len(down) # 1
    <3>1. down[1].k = "closed"
      <4>1. 1 \in 1 .. Len(down) - 1  BY <1>1, <2>2
      <4> QED  BY <2>1, <4>1 DEF Closing
    <3>2. creds = Cred(room)  BY <1>0, <2>1 DEF Cred
    <3>3. /\ UNCHANGED <<tasks, room, creds, link, up, hooks, left>> /\ Common' /\ Seated' = Seated
      BY <2>1, <3>1, <3>2, ClosedElsewhere
    <3>4. (Closing(Len(down) - 1))'  BY <2>1, ClosingTail
    <3>5. down' # << >> /\ down'[Len(down')] = down[Len(down)]  BY <2>2, LastTail
    <3>6. CreateReplied(t)'  BY <2>1, <3>3, <3>4, <3>5 DEF CreateReplied, Waiting, Msg
    <3> QED  BY <1>2, <3>3, <3>6
  <2>3. CASE Len(down) = 1
    <3>1. \/ \E o \in Own \ left : down[1] = Msg("created", o) /\ Seated = {o}
          \/ down[1].k = "error" /\ Seated = {}
      BY <2>1, <2>3
    <3>2. down[1].k \in {"created", "error"}
      <4>1. \A o \in Own : Msg("created", o).k = "created"  BY DEF Msg
      <4> QED  BY <3>1, <4>1
    <3>3. /\ \E u \in Calls : tasks' = <<u>> /\ u.kind = t.kind /\ u.r = t.r /\ u.held = t.held /\ u.reply = down[1]
          /\ down[1].k # "error" => room' = down[1].r
          /\ down[1].k = "error" => room' = room
          /\ UNCHANGED <<creds, buf>>
      BY <1>0, <2>1, <3>2, OneReplied DEF IsAnswer
    <3>4. PICK u \in Calls : tasks' = <<u>> /\ u.kind = t.kind /\ u.r = t.r /\ u.held = t.held /\ u.reply = down[1]
      BY <3>3
    <3>5. \A i \in DOMAIN tasks' : tasks'[i].kind # "rejoin"  BY <1>0, <3>4
    <3>6. down' = << >> /\ Common' /\ UNCHANGED <<link, up, life, seat, hooks, left>> /\ Seated' = Seated
      BY <2>3, <3>3, <3>5, NoneAfter
    <3>7. CreateHeard(u)'
      <4>1. ASSUME NEW o \in Own \ left, down[1] = Msg("created", o), Seated = {o}
            PROVE  CreateHeard(u)'
        <5>1. down[1].k = "created" /\ down[1].r = o  BY <4>1 DEF Msg
        <5>2. room' = o /\ Seated' = {o} /\ u.reply = Msg("created", o) /\ o \in Own \ left'
          BY <3>3, <3>4, <3>6, <4>1, <5>1
        <5> QED  BY <2>1, <3>6, <5>2 DEF CreateHeard, Msg
      <4>2. CASE down[1].k = "error" /\ Seated = {}
        BY <2>1, <3>3, <3>4, <3>6, <4>2 DEF CreateHeard
      <4> QED  BY <3>1, <4>1, <4>2
    <3>8. Creates(u)'  BY <1>0, <3>3, <3>4, <3>7 DEF Creates
    <3> QED  BY <3>4, <3>6, <3>8 DEF Fits, Busy, Linked
  <2> QED  BY <2>2, <2>3
<1>5. CASE CreateHeard(t)  BY <1>1, <1>5 DEF CreateHeard
<1> QED  BY <1>3, <1>4, <1>5 DEF Creates

\* The only call is over.
LEMMA OnlyOne ==
    ASSUME NEW t  PROVE RemoveAt(<<t>>, 1) = << >>
<1>1. <<t>> \in Seq({t}) /\ 1 \in DOMAIN <<t>> /\ Len(<<t>>) = 1  OBVIOUS
<1>2. RemoveAt(<<t>>, 1) \in Seq({t}) /\ Len(RemoveAt(<<t>>, 1)) = Len(<<t>>) - 1  BY <1>1, RemoveAtFacts
<1> DEFINE q == RemoveAt(<<t>>, 1)
<1> HIDE DEF q
<1>3. q \in Seq({t}) /\ Len(q) = 0  BY <1>1, <1>2 DEF q
<1>4. q = << >>  BY <1>3, EmptySeq
<1> QED  BY <1>4 DEF q

\* room_join has its reply; a room it replaced is left.
LEMMA JoinResumesBusy ==
    ASSUME MemberTypes, MemberTypes', SeatInv, Common, Linked, NEW t \in Calls, tasks = <<t>>, Joins(t), JoinResumes(1)
    PROVE  Fits'
<1>0. /\ t.kind = "join" /\ left = {} /\ t.r \in Joinable /\ t.r \in Rooms /\ t.held \in RoomNames
      /\ None \notin Rooms /\ link = "on" /\ hooks = 0
  BY CallKinds, ClientRoomAssumption DEF Joins, ClientRoomAssumption, Rooms, Linked
<1>1. tasks[1] = t /\ ~Waiting(t)  BY DEF JoinResumes
<1>2. /\ up = << >> /\ down = << >>
      /\ \/ t.reply = Msg("joined", t.r) /\ room = t.r /\ Seated = {t.r} \cup Only(t.held) /\ t.held # t.r
         \/ t.reply.k = "error" /\ Seated = Only(room) /\ creds = Cred(room)
  BY <1>1 DEF Joins, JoinAsked, JoinReplied, JoinHeard
<1>3. tasks' = << >> /\ UNCHANGED <<link, down, life, seat, pendLeave, hooks, trouble>>
  BY <1>1, OnlyOne DEF JoinResumes, server
<1>4. Seated' = Seated /\ down' = << >> /\ Linked' /\ (Closing(Len(down)))'
  BY <1>0, <1>2, <1>3 DEF Seated, Linked, Closing
<1>5. CASE t.reply.k = "error"
  <2>1. t.reply # Msg("joined", t.r)  BY <1>5 DEF Msg
  <2>2. UNCHANGED <<room, creds, buf, up, left>>  BY <1>1, <1>5 DEF JoinResumes, SameSession
  <2>3. Common'  BY <1>3, <1>4, <2>2 DEF Common
  <2>4. creds' = Cred(room)' /\ room' \notin left' /\ up' = << >> /\ Seated' = Only(room)'
    BY <1>0, <1>2, <1>4, <2>1, <2>2 DEF Cred, Only
  <2> QED  BY <1>3, <1>4, <2>3, <2>4, CalmAfter
<1>6. CASE t.reply.k # "error"
  <2>1. /\ t.reply = Msg("joined", t.r) /\ t.reply.r = t.r /\ Seated = {t.r} \cup Only(t.held) /\ t.held # t.r
    BY <1>2, <1>6 DEF Msg
  <2>2. room' = t.r /\ creds' = t.r  BY <1>1, <1>6, <2>1 DEF JoinResumes
  <2>3. creds' = Cred(room)'  BY <1>0, <2>2 DEF Cred
  <2>4. CASE t.held = None
    <3>1. up' = << >> /\ buf' = buf /\ left' = {}  BY <1>1, <1>2, <1>6, <2>4 DEF JoinResumes
    <3>2. Seated' = Only(room)'  BY <1>0, <1>4, <2>1, <2>2, <2>4 DEF Only
    <3>3. Common'  BY <1>3, <1>4, <3>1 DEF Common
    <3> QED  BY <1>3, <1>4, <2>3, <3>1, <3>2, <3>3, CalmAfter
  <2>5. CASE t.held # None
    <3>0. t.held \notin {None, t.reply.r}  BY <2>1, <2>5
    <3>1. SendOrBuffer(Msg("leave", t.held)) /\ left' \in {{}, {t.held}}
      BY <1>0, <1>1, <1>6, <3>0 DEF JoinResumes
    <3>2. PICK e : e = Msg("leave", t.held)  OBVIOUS
    <3>3. up' = <<Msg("leave", t.held)>> /\ buf' = buf  BY <1>0, <1>2, <3>1, <3>2 DEF SendOrBuffer
    <3>4. t.held \in Rooms \ {t.r} /\ Seated = {t.held} \cup Only(t.r)
      BY <1>0, <2>1, <2>5 DEF Only, RoomNames
    <3>5. Farewell(<<Msg("leave", t.held)>>)'
      BY <1>0, <1>4, <2>2, <3>4 DEF Farewell, Only, Msg, RoomNames
    <3>6. (Farewell(up))'  BY <3>3, <3>5
    <3>7. Leaves'
      <4>1. up' # << >>  BY <3>3
      <4>2. room' \notin left'  BY <2>2, <3>1, <3>4
      <4> QED  BY <1>3, <1>4, <2>3, <3>6, <4>1, <4>2 DEF Leaves
    <3>8. Common'
      <4>1. life'[t.held] # "unborn"  BY <1>3, <3>4 DEF SeatInv
      <4> QED  BY <1>3, <1>4, <3>1, <3>3, <4>1 DEF Common
    <3> QED  BY <1>4, <3>7, <3>8 DEF Fits, Busy
  <2> QED  BY <2>4, <2>5
<1> QED  BY <1>5, <1>6

\* room_create has its reply.
LEMMA CreateResumesBusy ==
    ASSUME MemberTypes, MemberTypes', SeatInv, Common, Linked, NEW t \in Calls, tasks = <<t>>, Creates(t), CreateResumes(1)
    PROVE  Fits'
<1>0. /\ t.kind = "create" /\ creds = None /\ None \notin Rooms /\ None \notin Joinable /\ link = "on" /\ hooks = 0
      /\ left \subseteq Rooms
  BY ClientRoomAssumption DEF Creates, ClientRoomAssumption, Rooms, Linked, MemberTypes, PastTypes
<1>1. tasks[1] = t /\ ~Waiting(t)  BY DEF CreateResumes
<1>2. /\ up = << >> /\ down = << >>
      /\ \/ \E o \in Own \ left : t.reply = Msg("created", o) /\ Seated = {o} /\ room = o
         \/ t.reply.k = "error" /\ Seated = {} /\ room = None
  BY <1>1 DEF Creates, CreateAsked, CreateReplied, CreateHeard
<1>3. tasks' = << >> /\ UNCHANGED <<link, up, down, life, seat, creds, buf, pendLeave, hooks, left, trouble>>
  BY <1>1, OnlyOne DEF CreateResumes, server, wires, hist
<1>4. Seated' = Seated /\ down' = << >> /\ Linked' /\ (Closing(Len(down)))' /\ up' = << >>
  BY <1>0, <1>2, <1>3 DEF Seated, Linked, Closing
<1>5. Common'  BY <1>3, <1>4 DEF Common
<1>6. creds' = Cred(room)' /\ room' \notin left' /\ Seated' = Only(room)'
  <2>1. CASE t.reply.k = "error" /\ Seated = {} /\ room = None
    <3>1. room' = room  BY <1>1, <2>1 DEF CreateResumes
    <3> QED  BY <1>0, <1>3, <1>4, <2>1, <3>1 DEF Cred, Only
  <2>2. ASSUME NEW o \in Own \ left, t.reply = Msg("created", o), Seated = {o}, room = o
        PROVE  creds' = Cred(room)' /\ room' \notin left' /\ Seated' = Only(room)'
    <3>1. t.reply.k = "created" /\ t.reply.r = o  BY <2>2 DEF Msg
    <3>2. room' = o  BY <1>1, <3>1 DEF CreateResumes
    <3>3. o \notin Joinable /\ o # None  BY <2>2, ClientRoomAssumption DEF ClientRoomAssumption
    <3> QED  BY <1>0, <1>3, <1>4, <2>2, <3>2, <3>3 DEF Cred, Only
  <2> QED  BY <1>2, <2>1, <2>2
<1> QED  BY <1>3, <1>4, <1>5, <1>6, CalmAfter

\* Either of them.
LEMMA ResumeBusy ==
    ASSUME MemberTypes, MemberTypes', SeatInv, Common, Busy, NEW i \in DOMAIN tasks, JoinResumes(i) \/ CreateResumes(i)
    PROVE  Fits'
<1>1. tasks # << >>  OBVIOUS
<1>2. PICK t \in Calls : tasks = <<t>> /\ (Joins(t) \/ Creates(t))  BY <1>1 DEF Busy, Leaves
<1>3. i = 1 /\ tasks[1] = t  BY <1>2
<1>4. Linked  BY DEF Busy
<1>5. CASE JoinResumes(i)
  <2>1. Joins(t)  BY <1>2, <1>3, <1>5 DEF JoinResumes, Creates
  <2> QED  BY <1>2, <1>3, <1>4, <1>5, <2>1, JoinResumesBusy
<1>6. CASE CreateResumes(i)
  <2>1. Creates(t)  BY <1>2, <1>3, <1>6 DEF CreateResumes, Joins
  <2> QED  BY <1>2, <1>3, <1>4, <1>6, <2>1, CreateResumesBusy
<1> QED  BY <1>5, <1>6

\* The server, and the inbound loop, with any command under way.
LEMMA ServeBusy ==
    ASSUME MemberTypes, MemberTypes', SeatInv, Common, Busy, Serve  PROVE Fits'
BY ServeLeaves, ServeJoins, ServeCreates DEF Busy

LEMMA DeliverBusy ==
    ASSUME MemberTypes, SeatInv, Common, Busy, Deliver  PROVE Fits'
BY DeliverLeaves, DeliverJoins, DeliverCreates DEF Busy

\* What happened stays on record.
LEMMA GoodBefore ==
    ASSUME MemberTypes, Next \/ UNCHANGED vars, Good'  PROVE Good
<1>0. torn \in BOOLEAN /\ hasty \in BOOLEAN /\ starved \in BOOLEAN  BY DEF MemberTypes, PastTypes
<1>1. CASE Serve \/ Drop \/ DialFails \/ Reconnect  BY <1>0, <1>1 DEF Serve, Drop, DialFails, Reconnect, Fault, Good, hist
<1>2. ASSUME NEW r \in Rooms, RoomEnds(r) \/ Reap(r)  PROVE Good
  BY <1>0, <1>2 DEF RoomEnds, Reap, Fault, Good
<1>3. CASE Leave \/ Create \/ (\E r \in Joinable : Join(r))  BY <1>0, <1>3 DEF Leave, Create, Join, Command, Good
<1>4. CASE Hook \/ Deliver  BY <1>0, <1>4 DEF Hook, Deliver, Good, hist
<1>5. ASSUME NEW i \in DOMAIN tasks, Timeout(i) \/ TimeoutRaces(i)  PROVE Good
  BY <1>0, <1>5 DEF Timeout, TimeoutRaces, GivesUp, Fault, Good
<1>6. ASSUME NEW i \in DOMAIN tasks, Resume(i)  PROVE Good
  BY <1>0, <1>6 DEF Resume, JoinResumes, CreateResumes, RejoinResumes, Good, hist
<1>7. CASE UNCHANGED vars  BY <1>7 DEF vars, hist, Good
<1> QED  BY <1>1, <1>2, <1>3, <1>4, <1>5, <1>6, <1>7 DEF Next

\* Nothing happens.
LEMMA UnchangedFits ==
    ASSUME Common, Recovering \/ Busy, UNCHANGED vars  PROVE Fits'
<1>1. UNCHANGED <<link, up, down, life, seat, room, creds, buf, pendLeave, tasks, hooks, left, trouble>>
  BY DEF vars, server, wires, mine, hist
<1>2. Seated' = Seated  BY <1>1 DEF Seated
<1>3. Common'  BY <1>1 DEF Common
<1>4. Recovering => Recovering'
  BY <1>1, <1>2 DEF Recovering, RTask, RUp, RDown, Repaired, RNF, Msg, Cred, OverFor, SomeWait, Waiting, IsAnswer
<1>5. Leaves => Leaves'
  BY <1>1, <1>2 DEF Leaves, Closing, Cred, Farewell, Only, Msg
<1>6. \A t : Joins(t) => Joins(t)'
  BY <1>1, <1>2 DEF Joins, JoinAsked, JoinReplied, JoinHeard, Waiting, Closing, Cred, Farewell, Only, Msg
<1>7. \A t : Creates(t) => Creates(t)'
  BY <1>1, <1>2 DEF Creates, CreateAsked, CreateReplied, CreateHeard, Waiting, Closing, Cred, Farewell, Only, Msg
<1>8. Busy => Busy'  BY <1>1, <1>5, <1>6, <1>7 DEF Busy, Linked
<1> QED  BY <1>3, <1>4, <1>8 DEF Fits

\* A client whose commands no fault met recovers or is busy, after every step.
LEMMA GoodKept ==
    ASSUME MemberTypes, SeatInv, GoodInv, Next \/ UNCHANGED vars  PROVE GoodInv'
<1> SUFFICES ASSUME Good'  PROVE Fits'  BY DEF GoodInv, Fits
<1>1. Common /\ (Recovering \/ Busy)  BY GoodBefore DEF GoodInv
<1>2. MemberTypes' /\ SeatInv'  BY MemberTypesKept, SeatInvKept
<1>3. CASE UNCHANGED vars  BY <1>1, <1>3, UnchangedFits
<1>4. CASE Leave \/ Create \/ \E r \in Joinable : Join(r)  BY <1>1, <1>4, CommandGood
<1>5. CASE Recovering /\ Next
  <2>1. Fit  BY <1>1, <1>5 DEF Fit
  <2>2. ASSUME NEW i \in DOMAIN tasks, JoinResumes(i) \/ CreateResumes(i)  PROVE FALSE
    <3>1. tasks[i].kind = "rejoin"  BY <1>5, <2>2 DEF Recovering, RTask
    <3> QED  BY <2>2, <3>1 DEF JoinResumes, CreateResumes
  <2> QED  BY <1>2, <1>4, <1>5, <2>1, <2>2, ServeRecovering, DropRecovering, ReconnectRecovering, EndsRecovering,
              ReapRecovering, HookRecovering, DeliverRecovering, TimeoutRecovering, RejoinRecovering DEF Next, Resume
<1>6. CASE Busy /\ Next
  <2>1. /\ ~Drop /\ ~DialFails /\ ~Reconnect /\ ~Hook
        /\ \A r \in Rooms : ~RoomEnds(r) /\ ~Reap(r)
        /\ \A i \in DOMAIN tasks : ~Timeout(i) /\ ~TimeoutRaces(i) /\ ~RejoinResumes(i)
    BY <1>1, <1>6, BusyOnly
  <2> QED  BY <1>1, <1>2, <1>4, <1>6, <2>1, ServeBusy, DeliverBusy, ResumeBusy DEF Next, Resume
<1> QED  BY <1>1, <1>3, <1>5, <1>6

-----------------------------------------------------------------------------
(* A room given up while a fault is mended.                                   *)

\* A room that ended stays so, and one that opened is never new again.
LivesOn ==
    \A x \in Rooms : /\ life[x] = "ended" => life'[x] = "ended"
                     /\ life[x] # "unborn" => life'[x] # "unborn"

\* No join is under way.
NoJoins == \A i \in DOMAIN tasks : tasks[i].kind # "join"

\* The ROOM_LEAVE of the room given up is not lost while nothing takes it up.
LEMMA PartingKept ==
    ASSUME MemberTypes, NEW r \in Rooms, Parting(r), UNCHANGED <<up, pendLeave>>, buf' \in {buf, << >>},
           Seated' \subseteq Seated, LivesOn, link # "on" \/ hooks = 1 => (link # "on" \/ hooks = 1)'
    PROVE  Parting(r)'
<1>1. up \in Seq(Requests)  BY DEF MemberTypes, PipeTypes
<1>2. \A j \in DOMAIN up : up[j].k = "join" => up[j].r \in Rooms
  <2>1. \A j \in DOMAIN up : up[j] \in Requests  BY <1>1
  <2> QED  BY <2>1 DEF Requests, Rooms
<1>3. Parted(r) => Parted(r)'  BY DEF Parted, NoJoin
<1>4. Pending(r) => Pending(r)'  BY DEF Pending, NoJoin, Msg
<1>5. ASSUME NEW i \in DOMAIN up, Reaches(i, r)  PROVE Reaches(i, r)'
  <2>1. ReachesNone(i, r) => ReachesNone(i, r)'
    <3> SUFFICES ASSUME ReachesNone(i, r)  PROVE ReachesNone(i, r)'  OBVIOUS
    <3>1. \A j \in 1 .. i - 1 : j \in DOMAIN up  BY <1>1, <1>5
    <3>2. \A j \in 1 .. i - 1 : life[up[j].r] = "ended" /\ up[j].k = "join" => life'[up[j].r] = "ended"
      BY <1>2, <3>1 DEF LivesOn
    <3>3. \A j \in 1 .. i - 1 : \/ up[j].k = "leave" /\ up[j].r # None
                                \/ up[j].k = "join" /\ (up[j].r = r \/ life'[up[j].r] = "ended")
      BY <3>2 DEF ReachesNone
    <3>4. Seated \subseteq {r} \cup {up[j].r : j \in {k \in 1..(i-1) : up[k].k = "leave"}}  BY DEF ReachesNone
    <3> QED  BY <3>3, <3>4 DEF ReachesNone
  <2> QED  BY <1>5, <2>1 DEF Reaches
<1>6. Sent(r) => Sent(r)'  BY <1>5 DEF Sent
<1> QED  BY <1>3, <1>4, <1>6 DEF Parting

\* All that is left to show of a step,
LEMMA HurriedKept ==
    ASSUME MemberTypes, NEW r \in Rooms, Hurried(r), Parting(r)', LivesOn, left' = left, creds' \in {creds, None},
           buf' \in {buf, << >>}, NoJoins', hooks' \in {0, 1}, (hooks = 1 => link = "on")'
    PROVE  Hurried(r)'
<1>1. NoJoin(buf)'  BY DEF Hurried, NoJoin
<1>2. life'[r] # "unborn"  BY DEF Hurried, LivesOn
<1> QED  BY <1>1, <1>2 DEF Hurried, NoJoins

\* and of one that touches neither the requests nor the ROOM_LEAVE kept.
LEMMA HurriedStays ==
    ASSUME MemberTypes, NEW r \in Rooms, Hurried(r), UNCHANGED <<up, pendLeave, left>>, buf' \in {buf, << >>},
           creds' \in {creds, None}, Seated' \subseteq Seated, LivesOn, NoJoins',
           hooks' \in {0, 1}, (hooks = 1 => link = "on")', link # "on" \/ hooks = 1 => (link # "on" \/ hooks = 1)'
    PROVE  Hurried(r)'
<1>1. Parting(r)'  BY PartingKept DEF Hurried
<1> QED  BY <1>1, HurriedKept

\* A call that ends is no join.
LEMMA RemovedNoJoins ==
    ASSUME MemberTypes, NEW i \in DOMAIN tasks, tasks' = RemoveAt(tasks, i), NoJoins  PROVE NoJoins'
BY Removed DEF NoJoins

\* Faults, reconnects and the sweep.
LEMMA WorldHurried ==
    ASSUME MemberTypes, SeatInv, NEW r \in Rooms, Hurried(r), ~torn',
           Drop \/ DialFails \/ Reconnect \/ \E q \in Rooms : RoomEnds(q) \/ Reap(q)
    PROVE  Hurried(r)'
<1>0. /\ NoJoins /\ hooks \in {0, 1} /\ (hooks = 1 => link = "on") /\ left = {r} /\ Parting(r)
      /\ life \in [Rooms -> {"unborn", "open", "ended"}] /\ seat \in [Rooms -> {"none", "on", "off", "left"}]
  BY DEF Hurried, NoJoins, MemberTypes, ServerTypes
<1>1. CASE Drop
  <2>1. /\ ~Commanding /\ hooks = 0 /\ link' = "lost" /\ up' = << >>
        /\ seat' = [x \in Rooms |-> IF seat[x] = "on" THEN "off" ELSE seat[x]]
        /\ UNCHANGED <<life, creds, buf, pendLeave, tasks, hooks, left>>
    <3>1. link = "on" /\ Fault(Commanding \/ hooks > 0)  BY <1>1 DEF Drop
    <3>2. torn' = (torn \/ (Commanding \/ hooks > 0))  BY <3>1 DEF Fault
    <3>3. ~Commanding /\ ~(hooks > 0)  BY <3>2, Zenon
    <3>4. hooks = 0  BY <1>0, <3>3
    <3> QED  BY <1>1, <3>3, <3>4 DEF Drop, mine
  <2>2. Parted(r)  BY <1>0, <2>1 DEF Commanding, Parting, Pending, Sent, Reaches, Parted
  <2>3. Seated' = Seated  BY <1>0, <2>1 DEF Seated
  <2>4. Parting(r)'  BY <2>1, <2>2, <2>3 DEF Parting, Parted, NoJoin
  <2>5. LivesOn /\ NoJoins'  BY <1>0, <2>1 DEF LivesOn, NoJoins
  <2> QED  BY <1>0, <2>1, <2>4, <2>5, HurriedKept
<1>2. CASE DialFails
  <2>1. link = "lost" /\ link' = "out" /\ UNCHANGED <<up, life, seat, creds, buf, pendLeave, tasks, hooks, left>>
    BY <1>2 DEF DialFails, mine, server
  <2>2. Seated' = Seated /\ LivesOn /\ NoJoins'  BY <1>0, <2>1 DEF Seated, LivesOn, NoJoins
  <2> QED  BY <1>0, <2>1, <2>2, HurriedStays
<1>3. CASE Reconnect
  <2>1. /\ link # "on" /\ link' = "on" /\ hooks' = hooks + 1
        /\ seat' = [x \in Rooms |-> IF seat[x] = "off" /\ life[x] = "open" THEN "on" ELSE seat[x]]
        /\ UNCHANGED <<life, up, creds, buf, pendLeave, tasks, left>>
    BY <1>3 DEF Reconnect, hist
  <2>2. hooks' = 1  BY <1>0, <2>1
  <2>3. Seated' \subseteq Seated /\ LivesOn /\ NoJoins'  BY <1>0, <2>1 DEF Seated, LivesOn, NoJoins
  <2> QED  BY <1>0, <2>1, <2>2, <2>3, HurriedStays
<1>4. ASSUME NEW q \in Rooms, RoomEnds(q)  PROVE Hurried(r)'
  <2>1. /\ seat' = [seat EXCEPT ![q] = "none"] /\ life' = [life EXCEPT ![q] = "ended"]
        /\ UNCHANGED <<link, up, creds, buf, pendLeave, tasks, hooks, left>>
    BY <1>4 DEF RoomEnds, mine
  <2>2. Seated' \subseteq Seated /\ LivesOn /\ NoJoins'  BY <1>0, <2>1 DEF Seated, LivesOn, NoJoins
  <2> QED  BY <1>0, <2>1, <2>2, HurriedStays
<1>5. ASSUME NEW q \in Rooms, Reap(q)  PROVE Hurried(r)'
  <2>1. /\ seat' = [seat EXCEPT ![q] = "none"]
        /\ life' = IF q \in Own THEN [life EXCEPT ![q] = "ended"] ELSE life
        /\ UNCHANGED <<link, up, creds, buf, pendLeave, tasks, hooks, left>>
    BY <1>5 DEF Reap, mine, wires
  <2>2. Seated' \subseteq Seated /\ LivesOn /\ NoJoins'  BY <1>0, <2>1 DEF Seated, LivesOn, NoJoins
  <2> QED  BY <1>0, <2>1, <2>2, HurriedStays
<1> QED  BY <1>1, <1>2, <1>3, <1>4, <1>5

\* The inbound loop.
LEMMA DeliverHurried ==
    ASSUME MemberTypes, NEW r \in Rooms, Hurried(r), Deliver  PROVE Hurried(r)'
<1>0. NoJoins /\ hooks \in {0, 1} /\ (hooks = 1 => link = "on")  BY DEF Hurried, NoJoins
<1>1. UNCHANGED <<link, up, life, seat, pendLeave, hooks, left>>  BY DEF Deliver, server, hist
<1>2. Seated' = Seated /\ LivesOn  BY <1>1 DEF Seated, LivesOn
<1>3. buf' \in {buf, << >>} /\ creds' \in {creds, None}
  <2>1. SameSession \/ \E b \in BOOLEAN : Handle(Head(down), b)  BY DEF Deliver
  <2>2. ASSUME NEW b \in BOOLEAN, NEW m, Handle(m, b)  PROVE buf' \in {buf, << >>} /\ creds' \in {creds, None}
    BY <2>2 DEF Handle, DropSession, SameSession
  <2> QED  BY <2>1, <2>2 DEF SameSession
<1>4. NoJoins'
  <2>1. tasks' = tasks \/ \E i \in Resolves(Head(down)) : tasks' = [tasks EXCEPT ![i].reply = Head(down)]
    BY DEF Deliver
  <2>2. ASSUME NEW i \in Resolves(Head(down)), tasks' = [tasks EXCEPT ![i].reply = Head(down)]  PROVE NoJoins'
    <3>1. i \in DOMAIN tasks /\ down # << >>  BY <2>2, WaiterFits DEF Deliver
    <3>2. PICK m \in Envelopes : m = Head(down)  BY Taken
    <3>3. tasks' = [tasks EXCEPT ![i].reply = m]  BY <2>2, <3>2
    <3>4. /\ DOMAIN tasks' = DOMAIN tasks /\ \A j \in DOMAIN tasks : j # i => tasks'[j] = tasks[j]
          /\ tasks'[i].kind = tasks[i].kind
      BY <3>1, <3>3, Replied
    <3> QED  BY <1>0, <3>1, <3>4 DEF NoJoins
  <2> QED  BY <1>0, <2>1, <2>2 DEF NoJoins
<1> QED  BY <1>0, <1>1, <1>2, <1>3, <1>4, HurriedStays

\* What a request does to the seats and lives.
LEMMA ServedSeats ==
    ASSUME MemberTypes, SeatInv, Serve
    PROVE  /\ LivesOn
           /\ Head(up).k = "leave" /\ Head(up).r # None => Seated' = Seated \ {Head(up).r}
           /\ Head(up).k = "leave" /\ Head(up).r = None => \A x : Seated \subseteq {x} => Seated' = {}
           /\ Head(up).k = "leave" => Seated' \subseteq Seated
           /\ Head(up).k = "join" => Seated' \subseteq Seated \cup {Head(up).r}
           /\ Head(up).k = "join" /\ life[Head(up).r] = "ended" => Seated' = Seated
           /\ Head(up).k = "create" => \A x \in Rooms : life[x] # "unborn" /\ x \notin Seated => x \notin Seated'
<1>0. PICK m \in Requests : m = Head(up)  BY DEF MemberTypes, PipeTypes, Serve
<1>1. /\ life \in [Rooms -> {"unborn", "open", "ended"}] /\ seat \in [Rooms -> {"none", "on", "off", "left"}]
      /\ m.k \in {"join", "leave", "create"} /\ (m.k = "join" => m.r \in Rooms) /\ None \notin Rooms
      /\ (m.k = "leave" => m.r \in RoomNames)
  BY <1>0, ClientRoomAssumption DEF MemberTypes, ServerTypes, Requests, ClientRoomAssumption, Rooms
<1>2. CASE m.k = "leave"
  <2>1. SrvLeave(m)  BY <1>0, <1>2, Served
  <2>2. CASE Leaving(m) = {}
    <3>1. UNCHANGED <<life, seat>>  BY <2>1, <2>2 DEF SrvLeave, Reply, server
    <3>2. Seated' = Seated /\ LivesOn  BY <3>1 DEF Seated, LivesOn
    <3>3. \A x \in Seated : m.r \notin {x, None}  BY <2>2 DEF Leaving, Seated, SeatInv
    <3> QED  BY <1>0, <1>2, <3>2, <3>3
  <2>3. CASE Leaving(m) # {}
    <3>1. PICK q \in Leaving(m) :
             /\ seat' = [seat EXCEPT ![q] = IF q \in Own THEN "none" ELSE "left"]
             /\ life' = IF q \in Own THEN [life EXCEPT ![q] = "ended"] ELSE life
      BY <2>1, <2>3 DEF SrvLeave
    <3>2. q \in Rooms /\ q \in Seated /\ m.r \in {q, None}  BY DEF Leaving, Seated
    <3>3. Seated' = Seated \ {q} /\ LivesOn  BY <1>1, <3>1, <3>2 DEF Seated, LivesOn
    <3> QED  BY <1>0, <1>2, <3>2, <3>3
  <2> QED  BY <2>2, <2>3
<1>3. CASE m.k = "join"
  <2>1. SrvJoin(m)  BY <1>0, <1>3, Served
  <2>2. life' = life /\ (seat' = seat \/ (seat' = [seat EXCEPT ![m.r] = "on"] /\ life[m.r] = "open"))
    BY <2>1 DEF SrvJoin, Reply, server
  <2>3. LivesOn  BY <2>2 DEF LivesOn
  <2>4. Seated' \subseteq Seated \cup {m.r} /\ (life[m.r] = "ended" => Seated' = Seated)
    BY <1>1, <1>3, <2>2 DEF Seated
  <2> QED  BY <1>0, <1>3, <2>3, <2>4
<1>4. CASE m.k = "create"
  <2>1. SrvCreate  BY <1>0, <1>4, Served
  <2>2. CASE \A q \in Own : life[q] # "unborn"
    <3>1. UNCHANGED <<life, seat>>  BY <2>1, <2>2 DEF SrvCreate, Reply, server
    <3> QED  BY <1>0, <1>4, <3>1 DEF Seated, LivesOn
  <2>3. CASE ~ \A q \in Own : life[q] # "unborn"
    <3>1. PICK q : q = CHOOSE x \in Own : life[x] = "unborn"  OBVIOUS
    <3>2. q \in Own /\ life[q] = "unborn"  BY <2>3, <3>1
    <3>3. life' = [life EXCEPT ![q] = "open"] /\ seat' = [seat EXCEPT ![q] = "on"]
      BY <2>1, <2>3, <3>1 DEF SrvCreate
    <3>4. LivesOn  BY <1>1, <3>2, <3>3 DEF LivesOn
    <3>5. \A x \in Rooms : life[x] # "unborn" /\ x \notin Seated => x \notin Seated'
      BY <1>1, <3>2, <3>3 DEF Seated
    <3> QED  BY <1>0, <1>4, <3>4, <3>5
  <2> QED  BY <2>2, <2>3
<1> QED  BY <1>1, <1>2, <1>3, <1>4

\* The rest of what goes up.
LEMMA UpTail ==
    ASSUME MemberTypes, Serve
    PROVE  /\ 1 \in DOMAIN up /\ Head(up) = up[1] /\ up[1] \in Requests /\ Len(up) \in Nat
           /\ DOMAIN up = 1 .. Len(up) /\ DOMAIN up' = 1 .. (Len(up) - 1)
           /\ \A i \in DOMAIN up' : i + 1 \in DOMAIN up /\ up'[i] = up[i + 1]
           /\ \A i \in DOMAIN up : i # 1 => i - 1 \in DOMAIN up' /\ up'[i - 1] = up[i]
<1>1. up \in Seq(Requests) /\ up # << >> /\ up' = Tail(up)  BY DEF MemberTypes, PipeTypes, Serve
<1>2. Len(up) \in Nat /\ Len(up) # 0 /\ DOMAIN up = 1 .. Len(up)  BY <1>1, EmptySeq
<1>3. 1 \in DOMAIN up /\ Head(up) = up[1] /\ up[1] \in Requests  BY <1>1, <1>2
<1>4. up' \in Seq(Requests) /\ Len(up') = Len(up) - 1 /\ \A i \in 1 .. Len(up) - 1 : up'[i] = up[i + 1]
  BY <1>1, <1>2, HeadTailProperties
<1>5. DOMAIN up' = 1 .. (Len(up) - 1)  BY <1>4
<1>6. ASSUME NEW i \in DOMAIN up, i # 1  PROVE i - 1 \in DOMAIN up' /\ up'[i - 1] = up[i]
  <2>1. i - 1 \in 1 .. Len(up) - 1 /\ (i - 1) + 1 = i  BY <1>2, <1>6
  <2> QED  BY <1>4, <1>5, <2>1
<1>7. ASSUME NEW i \in DOMAIN up'  PROVE i + 1 \in DOMAIN up /\ up'[i] = up[i + 1]
  BY <1>2, <1>4, <1>5, <1>7
<1> QED  BY <1>2, <1>3, <1>5, <1>6, <1>7

\* A request before the ROOM_LEAVE is served and it still means the same room.
LEMMA ServeReaches ==
    ASSUME MemberTypes, SeatInv, Serve, NEW r \in Rooms, NEW i \in DOMAIN up, Reaches(i, r), i # 1, buf' = buf
    PROVE  i - 1 \in DOMAIN up' /\ Reaches(i - 1, r)'
<1>0. /\ 1 \in DOMAIN up /\ Head(up) = up[1] /\ up[1] \in Requests /\ Len(up) \in Nat
      /\ DOMAIN up = 1 .. Len(up) /\ DOMAIN up' = 1 .. (Len(up) - 1)
      /\ \A j \in DOMAIN up' : j + 1 \in DOMAIN up /\ up'[j] = up[j + 1]
      /\ \A j \in DOMAIN up : j # 1 => j - 1 \in DOMAIN up' /\ up'[j - 1] = up[j]
  BY UpTail
<1>1. i - 1 \in DOMAIN up' /\ up'[i - 1] = up[i] /\ up[i].k = "leave"  BY <1>0 DEF Reaches
<1>2. \A j \in DOMAIN up' : j > i - 1 => up'[j].k # "join"
  <2> SUFFICES ASSUME NEW j \in DOMAIN up', j > i - 1  PROVE up'[j].k # "join"  OBVIOUS
  <2>1. j + 1 \in DOMAIN up /\ up'[j] = up[j + 1] /\ j + 1 > i  BY <1>0
  <2> QED  BY <2>1 DEF Reaches
<1>3. ASSUME ReachesNone(i, r)  PROVE ReachesNone(i - 1, r)'
  <2>1. /\ up[i].r = None /\ buf = << >>
        /\ \A j \in 1..(i-1) : \/ up[j].k = "leave" /\ up[j].r # None
                               \/ up[j].k = "join" /\ (up[j].r = r \/ life[up[j].r] = "ended")
        /\ Seated \subseteq {r} \cup {up[j].r : j \in {k \in 1..(i-1) : up[k].k = "leave"}}
    BY <1>3 DEF ReachesNone
  <2>2. 1 \in 1 .. i - 1  BY <1>0
  <2>3. \A x \in Seated : x = r \/ \E j \in 1 .. i - 1 : up[j].k = "leave" /\ x = up[j].r  BY <2>1
  <2>4. \A j \in 1 .. (i - 1) - 1 : j \in DOMAIN up' /\ up'[j] = up[j + 1] /\ j + 1 \in 1 .. i - 1  BY <1>0
  <2>5. LivesOn  BY ServedSeats
  <2>6. \A j \in DOMAIN up : up[j].k = "join" => up[j].r \in Rooms
    <3>1. \A j \in DOMAIN up : up[j] \in Requests  BY DEF MemberTypes, PipeTypes
    <3> QED  BY <3>1 DEF Requests, Rooms
  <2>7. ASSUME NEW j \in 1 .. (i - 1) - 1
        PROVE  \/ up'[j].k = "leave" /\ up'[j].r # None
               \/ up'[j].k = "join" /\ (up'[j].r = r \/ life'[up'[j].r] = "ended")
    <3>1. up'[j] = up[j + 1] /\ j + 1 \in 1 .. i - 1 /\ j + 1 \in DOMAIN up  BY <1>0, <2>4
    <3> QED  BY <2>1, <2>5, <2>6, <3>1 DEF LivesOn
  <2>8. ASSUME NEW x \in Seated', x # r  PROVE \E j \in 1 .. (i - 1) - 1 : up'[j].k = "leave" /\ x = up'[j].r
    <3>1. x \in Seated /\ (up[1].k = "leave" => x # up[1].r)
      <4>1. CASE up[1].k = "leave" /\ up[1].r # None  BY <1>0, <2>8, <4>1, ServedSeats
      <4>2. CASE up[1].k = "join" /\ up[1].r = r  BY <1>0, <2>8, <4>2, ServedSeats
      <4>3. CASE up[1].k = "join" /\ life[up[1].r] = "ended"  BY <1>0, <2>8, <4>3, ServedSeats
      <4> QED  BY <2>1, <2>2, <4>1, <4>2, <4>3
    <3>2. PICK j \in 1 .. i - 1 : up[j].k = "leave" /\ x = up[j].r  BY <2>3, <2>8, <3>1
    <3>3. j # 1 /\ j \in DOMAIN up  BY <1>0, <3>1, <3>2
    <3>4. j - 1 \in 1 .. (i - 1) - 1 /\ up'[j - 1] = up[j]  BY <1>0, <3>3
    <3> QED  BY <3>2, <3>4
  <2>9. Seated' \subseteq {r} \cup {up'[j].r : j \in {k \in 1..((i-1)-1) : up'[k].k = "leave"}}  BY <2>8
  <2>10. up'[i - 1].r = None  BY <1>1, <2>1
  <2>11. buf' = << >>  BY <2>1
  <2> QED  BY <2>7, <2>9, <2>10, <2>11 DEF ReachesNone
<1>4. up'[i - 1].r = r \/ ReachesNone(i - 1, r)'  BY <1>1, <1>3 DEF Reaches
<1> QED  BY <1>1, <1>2, <1>4 DEF Reaches

\* The server.
LEMMA ServeHurried ==
    ASSUME MemberTypes, SeatInv, NEW r \in Rooms, Hurried(r), Serve  PROVE Hurried(r)'
<1>0. /\ NoJoins /\ hooks \in {0, 1} /\ (hooks = 1 => link = "on") /\ Parting(r) /\ life[r] # "unborn"
      /\ link = "on" /\ up # << >> /\ UNCHANGED <<link, creds, buf, pendLeave, tasks, hooks, left>>
  BY Served DEF Hurried, NoJoins, mine, hist
<1>1. LivesOn  BY ServedSeats
<1>2. /\ 1 \in DOMAIN up /\ Head(up) = up[1] /\ up[1] \in Requests
      /\ \A i \in DOMAIN up' : i + 1 \in DOMAIN up /\ up'[i] = up[i + 1]
  BY UpTail
<1>3. up[1].k \in {"join", "leave", "create"}  BY <1>2 DEF Requests
<1>4. NoJoin(up) => NoJoin(up)'  BY <1>2 DEF NoJoin
<1>5. ASSUME Parted(r)  PROVE Parting(r)'
  <2>1. pendLeave = {} /\ r \notin Seated /\ NoJoin(up) /\ up[1].k # "join"  BY <1>2, <1>5 DEF Parted, NoJoin
  <2>2. r \notin Seated'  BY <1>0, <1>2, <1>3, <2>1, ServedSeats
  <2> QED  BY <1>0, <1>4, <2>1, <2>2 DEF Parting, Parted
<1>6. ASSUME Pending(r)  PROVE Parting(r)'
  <2>1. hooks = 1 /\ NoJoin(up) /\ pendLeave = {Msg("leave", r)}  BY <1>0, <1>6 DEF Pending
  <2> QED  BY <1>0, <1>4, <2>1 DEF Parting, Pending, Msg
<1>7. ASSUME NEW i \in DOMAIN up, Reaches(i, r), pendLeave = {}  PROVE Parting(r)'
  <2>1. CASE i # 1
    <3>1. i - 1 \in DOMAIN up' /\ Reaches(i - 1, r)'  BY <1>0, <1>7, <2>1, ServeReaches
    <3>2. PICK j : j = i - 1  OBVIOUS
    <3>3. j \in DOMAIN up' /\ Reaches(j, r)'  BY <3>1, <3>2
    <3> QED  BY <1>0, <1>7, <3>3 DEF Parting, Sent
  <2>2. CASE i = 1
    <3>1. up[1].k = "leave" /\ \A j \in DOMAIN up : j > 1 => up[j].k # "join"  BY <1>7, <2>2 DEF Reaches
    <3>2. \A j \in DOMAIN up' : j \in Nat /\ j # 0 /\ j + 1 > 1  BY UpTail
    <3>3. NoJoin(up)'  BY <1>2, <3>1, <3>2 DEF NoJoin
    <3>4. None # r  BY ClientRoomAssumption DEF ClientRoomAssumption, Rooms
    <3>5. r \notin Seated'
      <4>1. CASE up[1].r = r  BY <1>2, <3>1, <3>4, <4>1, ServedSeats
      <4>2. CASE ReachesNone(1, r)
        <5>1. \A j : j \notin 1 .. (1 - 1)  OBVIOUS
        <5>2. up[1].r = None /\ Seated \subseteq {r}  BY <4>2, <5>1 DEF ReachesNone
        <5> QED  BY <1>2, <3>1, <5>2, ServedSeats
      <4> QED  BY <1>7, <2>2, <4>1, <4>2 DEF Reaches
    <3> QED  BY <1>0, <1>7, <3>3, <3>5 DEF Parting, Parted
  <2> QED  BY <2>1, <2>2
<1>8. Parting(r)'  BY <1>0, <1>5, <1>6, <1>7 DEF Parting, Sent
<1>9. NoJoins'  BY <1>0 DEF NoJoins
<1> QED  BY <1>0, <1>1, <1>8, <1>9, HurriedKept

\* One request more at the end.
LEMMA EndsUp ==
    ASSUME MemberTypes, NEW m \in Requests
    PROVE  /\ DOMAIN Append(up, m) = 1 .. (Len(up) + 1) /\ DOMAIN up = 1 .. Len(up) /\ Len(up) \in Nat
           /\ Append(up, m)[Len(up) + 1] = m /\ \A i \in DOMAIN up : Append(up, m)[i] = up[i]
           /\ up \o <<m>> = Append(up, m) /\ up \o << >> = up /\ Append(up, m) \in Seq(Requests)
BY DEF MemberTypes, PipeTypes

\* The reconnect hook sends what was kept.
LEMMA HookHurried ==
    ASSUME MemberTypes, NEW r \in Rooms, Hurried(r), Hook  PROVE Hurried(r)'
<1>0. /\ NoJoins /\ hooks \in {0, 1} /\ (hooks = 1 => link = "on") /\ Parting(r) /\ creds = None
  BY DEF Hurried, NoJoins
<1>1. /\ hooks = 1 /\ hooks' = 0 /\ link = "on" /\ pendLeave' = {} /\ up' = up \o SetToSeq(pendLeave)
      /\ UNCHANGED <<link, life, seat, creds, buf, tasks, left>>
  BY <1>0 DEF Hook, server, hist
<1>2. Seated' = Seated /\ LivesOn /\ NoJoins'  BY <1>0, <1>1 DEF Seated, LivesOn, NoJoins
<1>3. up \in Seq(Requests) /\ up \o << >> = up /\ Len(up) \in Nat  BY DEF MemberTypes, PipeTypes
<1>4. ASSUME pendLeave = {}  PROVE Parting(r)'
  <2>1. up' = up /\ pendLeave' = pendLeave  BY <1>1, <1>3, <1>4, NoneKept
  <2>2. Parted(r) \/ Sent(r)
    <3>1. ~ Pending(r)  BY <1>4 DEF Pending
    <3> QED  BY <1>0, <3>1 DEF Parting
  <2>3. Parted(r) => Parted(r)'  BY <1>2, <2>1 DEF Parted, NoJoin
  <2>4. ASSUME NEW i \in DOMAIN up, Reaches(i, r)  PROVE Reaches(i, r)'
    BY <1>1, <1>2, <2>1, <2>4 DEF Reaches, ReachesNone
  <2>5. Sent(r) => Sent(r)'  BY <2>1, <2>4 DEF Sent
  <2> QED  BY <2>2, <2>3, <2>5 DEF Parting
<1>5. ASSUME pendLeave # {}  PROVE Parting(r)'
  <2>1. Pending(r)  BY <1>0, <1>5 DEF Parting, Parted, Sent
  <2>2. PICK x : /\ pendLeave = {Msg("leave", x)} /\ NoJoin(up)
                 /\ \/ x = r
                    \/ x = None /\ up = << >> /\ buf = << >> /\ Seated \subseteq {r}
    BY <2>1 DEF Pending
  <2>3. PICK m : m = Msg("leave", x)  OBVIOUS
  <2>4. m \in Requests /\ m.k = "leave" /\ m.r = x  BY <2>2, <2>3, EnvelopesTyped DEF Msg, RoomNames
  <2>5. up' = Append(up, m)  BY <1>1, <2>2, <2>3, <2>4, OneKept, EndsUp
  <2>6. /\ DOMAIN up' = 1 .. (Len(up) + 1) /\ up'[Len(up) + 1] = m
    BY <2>4, <2>5, EndsUp
  <2>7. PICK n \in Nat : n = Len(up) + 1  BY <1>3
  <2>8. n \in DOMAIN up' /\ up'[n] = m /\ \A j \in DOMAIN up' : ~ (j > n)  BY <2>6, <2>7
  <2>9. x = r \/ ReachesNone(n, r)'
    <3> SUFFICES ASSUME x = None, up = << >>, buf = << >>, Seated \subseteq {r}  PROVE ReachesNone(n, r)'
        BY <2>2
    <3>1. n = 1 /\ \A j : j \notin 1 .. (n - 1)  BY <2>7
    <3> QED  BY <1>1, <1>2, <2>4, <2>8, <3>1 DEF ReachesNone
  <2>10. Reaches(n, r)'  BY <2>4, <2>8, <2>9 DEF Reaches
  <2>11. Sent(r)'  BY <1>1, <2>8, <2>10 DEF Sent
  <2> QED  BY <2>11 DEF Parting
<1>6. Parting(r)'  BY <1>4, <1>5
<1> QED  BY <1>0, <1>1, <1>2, <1>6, HurriedKept

\* A rejoin that resumes drains the buffer behind the ROOM_LEAVE.
LEMMA RejoinHurried ==
    ASSUME MemberTypes, NEW r \in Rooms, Hurried(r), NEW i \in DOMAIN tasks, RejoinResumes(i)  PROVE Hurried(r)'
<1>0. /\ NoJoins /\ hooks \in {0, 1} /\ (hooks = 1 => link = "on") /\ Parting(r) /\ creds = None /\ NoJoin(buf)
      /\ up \in Seq(Requests) /\ buf \in Seq(Requests)
  BY DEF Hurried, NoJoins, MemberTypes, PipeTypes, MineTypes
<1>1. /\ tasks' = RemoveAt(tasks, i) /\ UNCHANGED <<link, life, seat, pendLeave, hooks, left>>
      /\ buf' \in {buf, << >>} /\ creds' \in {creds, None}
      /\ up' = up \/ (up' = up \o buf /\ buf' = << >>)
  BY DEF RejoinResumes, DropSession, server, hist
<1>2. Seated' = Seated /\ LivesOn /\ NoJoins'  BY <1>0, <1>1, RemovedNoJoins DEF Seated, LivesOn
<1>3. ASSUME up' = up  PROVE Parting(r)'  BY <1>0, <1>1, <1>2, <1>3, PartingKept
<1>4. ASSUME up' = up \o buf, buf' = << >>  PROVE Parting(r)'
  <2>1. /\ Len(up) \in Nat /\ Len(buf) \in Nat /\ DOMAIN up = 1 .. Len(up) /\ DOMAIN buf = 1 .. Len(buf)
        /\ up' \in Seq(Requests) /\ Len(up') = Len(up) + Len(buf)
        /\ \A j \in 1 .. Len(up) + Len(buf) : up'[j] = IF j <= Len(up) THEN up[j] ELSE buf[j - Len(up)]
    BY <1>0, <1>4, ConcatProperties
  <2>2. /\ DOMAIN up \subseteq DOMAIN up' /\ \A j \in DOMAIN up : up'[j] = up[j]
        /\ \A j \in DOMAIN up' : j \in DOMAIN up \/ (\E l \in DOMAIN buf : up'[j] = buf[l])
    BY <2>1
  <2>3. \A j \in DOMAIN up' : j \in DOMAIN up \/ up'[j].k # "join"  BY <1>0, <2>2 DEF NoJoin
  <2>4. NoJoin(up) => NoJoin(up)'  BY <2>2, <2>3 DEF NoJoin
  <2>5. Parted(r) => Parted(r)'  BY <1>1, <1>2, <2>4 DEF Parted
  <2>6. buf = << >> => up' = up  BY <1>0, <1>4
  <2>7. Pending(r) => Pending(r)'  BY <1>1, <1>2, <1>4, <2>4, <2>6 DEF Pending, Msg
  <2>8. ASSUME NEW j \in DOMAIN up, Reaches(j, r)  PROVE j \in DOMAIN up' /\ Reaches(j, r)'
    <3>1. ReachesNone(j, r) => ReachesNone(j, r)'  BY <1>1, <1>2, <1>4, <2>6 DEF ReachesNone
    <3> QED  BY <2>2, <2>3, <2>8, <3>1 DEF Reaches
  <2>9. Sent(r) => Sent(r)'  BY <1>1, <2>8 DEF Sent
  <2> QED  BY <1>0, <2>5, <2>7, <2>9 DEF Parting
<1>5. Parting(r)'  BY <1>1, <1>3, <1>4
<1> QED  BY <1>0, <1>1, <1>2, <1>5, HurriedKept

\* Calls that give up, and a create that resumes.
LEMMA OthersHurried ==
    ASSUME MemberTypes, NEW r \in Rooms, Hurried(r), NEW i \in DOMAIN tasks,
           Timeout(i) \/ TimeoutRaces(i) \/ CreateResumes(i)
    PROVE  Hurried(r)'
<1>0. /\ NoJoins /\ hooks \in {0, 1} /\ (hooks = 1 => link = "on")  BY DEF Hurried, NoJoins
<1>1. /\ tasks' = RemoveAt(tasks, i) /\ UNCHANGED <<link, up, life, seat, creds, buf, pendLeave, hooks, left>>
  BY DEF Timeout, TimeoutRaces, GivesUp, CreateResumes, wires, server, hist
<1>2. Seated' = Seated /\ LivesOn /\ NoJoins'  BY <1>0, <1>1, RemovedNoJoins DEF Seated, LivesOn
<1> QED  BY <1>0, <1>1, <1>2, HurriedStays

\* Nothing happens.
LEMMA SameHurried ==
    ASSUME MemberTypes, NEW r \in Rooms, Hurried(r), UNCHANGED vars  PROVE Hurried(r)'
<1>0. /\ NoJoins /\ hooks \in {0, 1} /\ (hooks = 1 => link = "on")  BY DEF Hurried, NoJoins
<1>1. UNCHANGED <<link, up, life, seat, creds, buf, pendLeave, tasks, hooks, left>>
  BY DEF vars, wires, server, mine, hist
<1>2. Seated' = Seated /\ LivesOn /\ NoJoins'  BY <1>0, <1>1 DEF Seated, LivesOn, NoJoins
<1> QED  BY <1>0, <1>1, <1>2, HurriedStays

\* No call of the user: at most a ROOM_LEAVE is under way.
LEMMA IdleBusy ==
    ASSUME Busy, UserIdle  PROVE Linked /\ Leaves
<1>1. ASSUME NEW t \in Calls, tasks = <<t>>, Joins(t) \/ Creates(t)  PROVE FALSE
  <2>1. 1 \in DOMAIN tasks /\ tasks[1] = t  BY <1>1
  <2>2. t.kind \in {"join", "create"}  BY <1>1 DEF Joins, Creates
  <2> QED  BY <2>1, <2>2 DEF UserIdle
<1> QED  BY <1>1 DEF Busy

\* What a command that comes too early meets.
LEMMA BeforeHasty ==
    ASSUME MemberTypes, SeatInv, Common, Recovering \/ Busy, UserIdle, NEW r \in Rooms, room = r
    PROVE  /\ NoJoins /\ life[r] # "unborn" /\ buf = << >> /\ pendLeave = {} /\ hooks \in {0, 1} /\ (hooks = 1 => link = "on")
           /\ link # "on" => up = << >> /\ Seated \subseteq {r}
           /\ \A j \in DOMAIN up : \/ up[j].k = "leave" /\ up[j].r # None
                                   \/ up[j].k = "join" /\ up[j].r = r
           /\ \A x \in Seated : x = r \/ \E j \in DOMAIN up : up[j].k = "leave" /\ up[j].r = x
<1>0. /\ NoJoins /\ buf = << >> /\ pendLeave = {} /\ hooks \in {0, 1} /\ (hooks = 1 => link = "on")
      /\ r # None /\ None \notin Rooms /\ (link # "on" => up = << >>)
  BY ClientRoomAssumption DEF UserIdle, NoJoins, Common, SeatInv, ClientRoomAssumption, Rooms
<1>1. CASE Recovering
  <2>1. Seated \subseteq {r} /\ (Seated = {} => r \in Joinable)  BY <1>0, <1>1 DEF Recovering
  <2>2. life[r] # "unborn"
    <3>1. Seated # {} => r \in Seated  BY <2>1
    <3> QED  BY <2>1, <3>1 DEF SeatInv
  <2>3. \A j \in DOMAIN up : up[j].k = "join" /\ up[j].r = r
    <3>1. CASE up = << >>  BY <3>1
    <3>2. ASSUME NEW c \in Joinable, up = <<Msg("join", c)>>, c = room  PROVE \A j \in DOMAIN up : up[j].k = "join" /\ up[j].r = r
      BY <3>2 DEF Msg
    <3> QED  BY <1>0, <1>1, <3>1, <3>2 DEF Recovering, RUp
  <2> QED  BY <1>0, <2>1, <2>2, <2>3
<1>2. CASE Busy
  <2>1. link = "on" /\ Farewell(up) /\ up # << >>  BY <1>2, IdleBusy DEF Linked, Leaves
  <2>2. PICK z \in Rooms \ {r} : up = <<Msg("leave", z)>> /\ Seated = {z} \cup Only(r)  BY <1>0, <2>1 DEF Farewell
  <2>3. DOMAIN up = {1} /\ up[1].k = "leave" /\ up[1].r = z  BY <2>2 DEF Msg
  <2>4. r \in Seated  BY <1>0, <2>2 DEF Only
  <2>5. life[r] # "unborn"  BY <2>4 DEF SeatInv
  <2> QED  BY <1>0, <2>1, <2>2, <2>3, <2>5 DEF Only
<1> QED  BY <1>1, <1>2

\* A buffered ROOM_LEAVE is kept.
LEMMA KeptLast ==
    ASSUME NEW m, m.k = "leave"
    PROVE  Kept(Append(<< >>, m)) = {m}
<1>1. Append(<< >>, m) = <<m>>  OBVIOUS
<1>2. PICK q : q = <<m>>  OBVIOUS
<1>3. q[1] = m /\ DOMAIN q = {1}  BY <1>2
<1> DEFINE ends == {i \in DOMAIN q : q[i].k = "leave"}
<1>4. ends = {1}  BY <1>3
<1>5. (CHOOSE i \in ends : \A j \in ends : j <= i) = 1  BY <1>4
<1>6. Kept(q) = {m}  BY <1>3, <1>4, <1>5 DEF Kept
<1> QED  BY <1>1, <1>2, <1>6

\* A leave, or a create, before the fault is mended.
LEMMA HastyLeave ==
    ASSUME MemberTypes, SeatInv, Common, Recovering \/ Busy, NEW r \in Rooms, room = r, ~hasty, Leave
    PROVE  Hurried(r)'
<1>0. UserIdle  BY DEF Leave, Command
<1>1. /\ NoJoins /\ life[r] # "unborn" /\ buf = << >> /\ pendLeave = {} /\ hooks \in {0, 1} /\ (hooks = 1 => link = "on")
      /\ link # "on" => up = << >> /\ Seated \subseteq {r}
      /\ \A j \in DOMAIN up : \/ up[j].k = "leave" /\ up[j].r # None
                              \/ up[j].k = "join" /\ up[j].r = r
      /\ \A x \in Seated : x = r \/ \E j \in DOMAIN up : up[j].k = "leave" /\ up[j].r = x
  BY <1>0, BeforeHasty
<1>2. PICK m : m = Msg("leave", None)  OBVIOUS
<1>3. m \in Requests /\ m.k = "leave" /\ m.r = None  BY <1>2, EnvelopesTyped DEF Msg, RoomNames
<1>4. /\ up' = IF link = "on" THEN Append(up, m) ELSE up
      /\ pendLeave' = Kept(Buffered(m)) /\ creds' = None /\ buf' = << >> /\ left' = {r}
      /\ UNCHANGED <<link, life, seat, tasks, hooks>>
  BY <1>2 DEF Leave, server
<1>5. Seated' = Seated /\ LivesOn /\ NoJoins' /\ NoJoin(buf)'
  BY <1>1, <1>4 DEF Seated, LivesOn, NoJoins, NoJoin
<1>6. ASSUME link = "on"  PROVE Parting(r)'
  <2>1. up' = Append(up, m) /\ pendLeave' = {}  BY <1>1, <1>4, <1>6, KeptOfNone DEF Buffered
  <2>2. /\ DOMAIN up' = 1 .. (Len(up) + 1) /\ DOMAIN up = 1 .. Len(up) /\ Len(up) \in Nat
        /\ up'[Len(up) + 1] = m /\ \A i \in DOMAIN up : up'[i] = up[i]
    BY <1>3, <2>1, EndsUp
  <2>3. PICK n \in Nat : n = Len(up) + 1  BY <2>2
  <2>4. n \in DOMAIN up' /\ up'[n] = m /\ 1 .. (n - 1) = DOMAIN up /\ \A j \in DOMAIN up' : ~ (j > n)  BY <2>2, <2>3
  <2>5. ReachesNone(n, r)'
    <3>1. \A j \in 1 .. (n - 1) : \/ up'[j].k = "leave" /\ up'[j].r # None
                                  \/ up'[j].k = "join" /\ up'[j].r = r
      BY <1>1, <2>2, <2>4
    <3>2. \A x \in Seated' : x = r \/ \E j \in 1 .. (n - 1) : up'[j].k = "leave" /\ up'[j].r = x
      BY <1>1, <1>5, <2>2, <2>4
    <3>3. Seated' \subseteq {r} \cup {up'[j].r : j \in {k \in 1..(n-1) : up'[k].k = "leave"}}  BY <3>2
    <3> QED  BY <1>3, <1>4, <2>4, <3>1, <3>3 DEF ReachesNone
  <2>6. Reaches(n, r)'  BY <1>3, <2>4, <2>5 DEF Reaches
  <2> QED  BY <2>1, <2>4, <2>6 DEF Parting, Sent
<1>7. ASSUME link # "on"  PROVE Parting(r)'
  <2>1. up' = << >> /\ pendLeave' = {m}  BY <1>1, <1>3, <1>4, <1>7, KeptLast DEF Buffered
  <2> QED  BY <1>1, <1>2, <1>4, <1>5, <1>7, <2>1 DEF Parting, Pending, NoJoin, Msg
<1>8. Parting(r)'  BY <1>6, <1>7
<1> QED  BY <1>1, <1>4, <1>5, <1>8 DEF Hurried, NoJoins, LivesOn

LEMMA HastyCreate ==
    ASSUME MemberTypes, SeatInv, Common, Recovering \/ Busy, NEW r \in Rooms, room = r, ~hasty, Create
    PROVE  Hurried(r)'
<1>0. UserIdle  BY DEF Create, Command
<1>1. /\ NoJoins /\ life[r] # "unborn" /\ buf = << >> /\ pendLeave = {} /\ hooks \in {0, 1} /\ (hooks = 1 => link = "on")
      /\ link # "on" => up = << >> /\ Seated \subseteq {r}
  BY <1>0, BeforeHasty
<1>2. PICK m : m = Msg("leave", r)  OBVIOUS
<1>3. PICK c : c = Msg("create", None)  OBVIOUS
<1>4. PICK t : t = Task("create", None, None)  OBVIOUS
<1>5. /\ m \in Requests /\ m.k = "leave" /\ m.r = r /\ c \in Requests /\ c.k = "create" /\ r # None
      /\ t \in Calls /\ t.kind = "create"
  BY <1>2, <1>3, <1>4, EnvelopesTyped, ClientRoomAssumption
     DEF Msg, RoomNames, ClientRoomAssumption, Rooms, Task, Calls, Outcomes
<1>6. /\ up' = IF link = "on" THEN up \o <<m>> \o <<c>> ELSE up
      /\ pendLeave' = Kept(Buffered(m)) /\ creds' = None
      /\ buf' = <<>> \o (IF link = "on" THEN <<>> ELSE <<c>>) /\ left' = {r} /\ tasks' = Append(tasks, t)
      /\ UNCHANGED <<link, life, seat, hooks>>
  BY <1>2, <1>3, <1>4, <1>5 DEF Create, server
<1>7. Seated' = Seated /\ LivesOn /\ NoJoin(buf)'
  BY <1>5, <1>6 DEF Seated, LivesOn, NoJoin
<1>8. NoJoins'
  <2>1. tasks \in Seq(Calls)  BY DEF MemberTypes, MineTypes
  <2>2. \A j \in DOMAIN tasks' : tasks'[j] = t \/ (j \in DOMAIN tasks /\ tasks'[j] = tasks[j])
    BY <1>5, <1>6, <2>1
  <2> QED  BY <1>1, <1>5, <2>2 DEF NoJoins
<1>9. ASSUME link = "on"  PROVE Parting(r)'
  <2>1. up' = Append(up, m) \o <<c>> /\ pendLeave' = {}
    BY <1>1, <1>5, <1>6, <1>9, KeptOfNone, EndsUp DEF Buffered
  <2>2. /\ DOMAIN Append(up, m) = 1 .. (Len(up) + 1) /\ Len(up) \in Nat /\ Append(up, m)[Len(up) + 1] = m
        /\ Append(up, m) \in Seq(Requests)
    BY <1>5, EndsUp
  <2>3. PICK q \in Seq(Requests) : q = Append(up, m)  BY <2>2
  <2>4. PICK n \in Nat : n = Len(up) + 1  BY <2>2
  <2>5. up' = q \o <<c>> /\ Len(q) = n /\ q[n] = m /\ n # 0  BY <2>1, <2>2, <2>3, <2>4
  <2>6. up' = Append(q, c)  BY <1>5, <2>5, AppendIsConcat
  <2>7. n \in DOMAIN up' /\ up'[n] = m /\ \A j \in DOMAIN up' : j > n => up'[j] = c
    BY <1>5, <2>5, <2>6
  <2>8. Reaches(n, r)'  BY <1>5, <2>7 DEF Reaches
  <2> QED  BY <2>1, <2>7, <2>8 DEF Parting, Sent
<1>10. ASSUME link # "on"  PROVE Parting(r)'
  <2>1. up' = << >> /\ pendLeave' = {m}  BY <1>1, <1>5, <1>6, <1>10, KeptLast DEF Buffered
  <2> QED  BY <1>1, <1>2, <1>6, <1>7, <1>10, <2>1 DEF Parting, Pending, NoJoin, Msg
<1>11. Parting(r)'  BY <1>9, <1>10
<1> QED  BY <1>1, <1>6, <1>7, <1>8, <1>11 DEF Hurried, NoJoins, LivesOn

-----------------------------------------------------------------------------
(* The invariant as a whole.                                                  *)

\* Once hasty, no command is on record as giving a room up.
LEMMA RecordStays ==
    ASSUME MemberTypes, Next \/ UNCHANGED vars
    PROVE  /\ ~torn' => ~torn
           /\ ~starved' => ~starved
           /\ hasty' => hasty \/ Leave \/ Create \/ \E r \in Joinable : Join(r)
           /\ hasty /\ left' # {} => left' = left /\ ~Leave /\ ~Create /\ \A r \in Joinable : ~Join(r)
<1> DEFINE G == /\ ~torn' => ~torn
                /\ ~starved' => ~starved
                /\ hasty' => hasty \/ Leave \/ Create \/ \E r \in Joinable : Join(r)
                /\ hasty /\ left' # {} => left' = left
<1>0. torn \in BOOLEAN /\ hasty \in BOOLEAN /\ starved \in BOOLEAN  BY DEF MemberTypes, PastTypes
<1>1. ASSUME Serve \/ Drop \/ DialFails \/ Reconnect  PROVE G
  <2>1. UNCHANGED <<left, hasty, starved>>  BY <1>1 DEF Serve, Drop, DialFails, Reconnect, hist
  <2>2. torn' = torn \/ \E b : Fault(b)  BY <1>1 DEF Serve, Drop, DialFails, Reconnect, hist
  <2>3. ~torn' => ~torn  BY <1>0, <2>2 DEF Fault
  <2> QED  BY <2>1, <2>3
<1>2. ASSUME NEW r \in Rooms, RoomEnds(r) \/ Reap(r)  PROVE G
  BY <1>0, <1>2 DEF RoomEnds, Reap, Fault
<1>3. ASSUME Leave \/ Create \/ (\E r \in Joinable : Join(r))  PROVE G /\ (hasty => left' = {})
  <2>1. UNCHANGED <<torn, starved>> /\ (hasty => left' = {})  BY <1>3 DEF Leave, Create, Join
  <2> QED  BY <1>3, <2>1
<1>4. ASSUME Hook \/ Deliver  PROVE G
  <2>1. UNCHANGED hist  BY <1>4 DEF Hook, Deliver
  <2> QED  BY <2>1 DEF hist
<1>5. ASSUME NEW i \in DOMAIN tasks, Timeout(i) \/ TimeoutRaces(i)  PROVE G
  BY <1>0, <1>5 DEF Timeout, TimeoutRaces, GivesUp, Fault
<1>6. ASSUME NEW i \in DOMAIN tasks, Resume(i)  PROVE G
  <2>1. CASE JoinResumes(i)
    <3>1. UNCHANGED <<torn, hasty, starved>> /\ (hasty => left' = left \/ left' = {})  BY <2>1 DEF JoinResumes
    <3> QED  BY <3>1
  <2>2. CASE CreateResumes(i) \/ RejoinResumes(i)  BY <2>2 DEF CreateResumes, RejoinResumes, hist
  <2> QED  BY <1>6, <2>1, <2>2 DEF Resume
<1>7. ASSUME UNCHANGED vars  PROVE G  BY <1>7 DEF vars, hist
<1>8. G  BY <1>1, <1>2, <1>3, <1>4, <1>5, <1>6, <1>7 DEF Next
<1> QED  BY <1>3, <1>8

\* The room given up in haste, after every step.
LEMMA HastyKept ==
    ASSUME MemberTypes, SeatInv, GoodInv, HastyInv, Next \/ UNCHANGED vars  PROVE HastyInv'
<1> SUFFICES ASSUME ~torn', ~starved', hasty', left' # {}  PROVE \E r \in Rooms : Hurried(r)'
    BY DEF HastyInv
<1>1. /\ ~torn /\ ~starved
      /\ hasty \/ Leave \/ Create \/ \E r \in Joinable : Join(r)
      /\ hasty => left' = left /\ ~Leave /\ ~Create /\ \A r \in Joinable : ~Join(r)
  BY RecordStays
<1>2. CASE ~hasty
  <2>1. Common /\ (Recovering \/ Busy)  BY <1>1, <1>2 DEF GoodInv, Good
  <2>2. Leave \/ (Create /\ room # None)  BY <1>1, <1>2 DEF Join, Create
  <2>3. room # None  BY <2>2 DEF Leave
  <2>4. room \in Rooms  BY <2>3 DEF MemberTypes, MineTypes, RoomNames
  <2>5. PICK r \in Rooms : room = r  BY <2>4
  <2>6. Hurried(r)'  BY <1>2, <2>1, <2>2, <2>5, HastyLeave, HastyCreate
  <2> QED  BY <2>6
<1>3. CASE hasty
  <2>1. left # {} /\ ~Leave /\ ~Create /\ \A r \in Joinable : ~Join(r)  BY <1>1, <1>3
  <2>2. PICK r \in Rooms : Hurried(r)  BY <1>1, <1>3, <2>1 DEF HastyInv
  <2>3. \A i \in DOMAIN tasks : ~JoinResumes(i)  BY <2>2 DEF Hurried, JoinResumes
  <2>4. Hurried(r)'
    BY <2>1, <2>2, <2>3, ServeHurried, WorldHurried, HookHurried, DeliverHurried, OthersHurried, RejoinHurried, SameHurried
       DEF Next, Resume
  <2> QED  BY <2>4
<1> QED  BY <1>2, <1>3

\* Init, step and consequences of the invariant.
LEMMA MemberStart == Init => MemberInv
<1> SUFFICES ASSUME Init  PROVE MemberInv  OBVIOUS
<1>0. None \notin Rooms /\ Joinable \cap Own = {} /\ Joinable \subseteq Rooms /\ Own \subseteq Rooms
  BY ClientRoomAssumption DEF ClientRoomAssumption, Rooms
<1>1. MemberTypes
  <2>1. ServerTypes  BY DEF Init, ServerTypes, RoomNames
  <2>2. PipeTypes  BY DEF Init, PipeTypes
  <2>3. MineTypes  BY DEF Init, MineTypes, RoomNames, Slot
  <2>4. PastTypes  BY DEF Init, PastTypes
  <2> QED  BY <2>1, <2>2, <2>3, <2>4 DEF MemberTypes
<1>2. Seated = {} /\ DOMAIN up = {} /\ DOMAIN down = {} /\ DOMAIN tasks = {}  BY DEF Init, Seated
<1>3. SeatInv  BY <1>0, <1>2 DEF Init, SeatInv
<1>4. Common  BY <1>0, <1>2 DEF Init, Common
<1>5. Recovering  BY <1>0, <1>2 DEF Init, Recovering, RUp, Cred
<1> QED  BY <1>1, <1>3, <1>4, <1>5 DEF MemberInv, GoodInv, HastyInv, Init

LEMMA MemberStep == MemberInv /\ [Next]_vars => MemberInv'
<1> SUFFICES ASSUME MemberInv, [Next]_vars  PROVE MemberInv'  OBVIOUS
<1>1. MemberTypes /\ SeatInv /\ GoodInv /\ HastyInv  BY DEF MemberInv
<1> QED  BY <1>1, MemberTypesKept, SeatInvKept, GoodKept, HastyKept DEF MemberInv

LEMMA SettledCalm ==
    ASSUME MemberInv, Settled, Good
    PROVE  Seated = Only(room) /\ room \notin left
<1>1. MemberTypes /\ SeatInv /\ Common /\ (Recovering \/ Busy)  BY DEF MemberInv, GoodInv
<1>2. CASE Recovering
  <2>1. Calm /\ up = << >>  BY <1>1, <1>2, SettledRecovering DEF Fit
  <2>2. Farewell(<< >>)  BY <2>1 DEF Calm
  <2> QED  BY <2>1, <2>2 DEF Calm, Farewell
<1>3. CASE Busy
  <2>1. tasks = << >> /\ up = << >>  BY DEF Settled
  <2> QED  BY <1>3, <2>1 DEF Busy, Leaves
<1> QED  BY <1>1, <1>2, <1>3

LEMMA HealsHolds == MemberInv => Heals
<1> SUFFICES ASSUME MemberInv, Settled, Good
             PROVE  /\ \A r \in Rooms : seat[r] \in {"on", "off"} <=> room = r
                    /\ sub = room
    BY DEF Heals, Good
<1>1. Seated = Only(room)  BY SettledCalm
<1>2. None \notin Rooms /\ room \in RoomNames /\ SeatInv /\ link = "on"
  BY ClientRoomAssumption DEF MemberInv, MemberTypes, MineTypes, Settled, ClientRoomAssumption, Rooms
<1>3. \A r \in Rooms : r \in Seated <=> room = r  BY <1>1, <1>2 DEF Only
<1>4. \A r \in Rooms : seat[r] \in {"on", "off"} <=> room = r  BY <1>3 DEF Seated
<1>5. sub = room
  <2>1. CASE room = None
    <3>1. Seated = {}  BY <1>1, <2>1 DEF Only
    <3> QED  BY <1>2, <2>1, <3>1 DEF SeatInv
  <2>2. CASE room # None
    <3>1. Seated = {room}  BY <1>1, <2>2 DEF Only
    <3> QED  BY <1>2, <3>1 DEF SeatInv
  <2> QED  BY <2>1, <2>2
<1> QED  BY <1>4, <1>5

LEMMA LeaveHeardHolds == MemberInv => LeaveHeard
<1> SUFFICES ASSUME MemberInv, Settled, ~torn, ~starved, NEW r \in left
             PROVE  seat[r] \notin {"on", "off"}
    BY DEF LeaveHeard
<1>0. left \subseteq Rooms  BY DEF MemberInv, MemberTypes, PastTypes
<1>1. CASE ~hasty
  <2>1. Seated = Only(room) /\ room \notin left  BY <1>1, SettledCalm DEF Good
  <2>2. r \notin Seated  BY <2>1 DEF Only
  <2> QED  BY <1>0, <2>2 DEF Seated
<1>2. CASE hasty
  <2>1. PICK q \in Rooms : Hurried(q)  BY <1>2 DEF MemberInv, HastyInv
  <2>2. r = q  BY <2>1 DEF Hurried
  <2>3. link = "on" /\ hooks = 0 /\ DOMAIN up = {}  BY DEF Settled
  <2>4. Parted(q)  BY <2>1, <2>3 DEF Hurried, Parting, Pending, Sent
  <2>5. r \notin Seated  BY <2>2, <2>4 DEF Parted
  <2> QED  BY <1>0, <2>5 DEF Seated
<1> QED  BY <1>1, <1>2

\* A link loss, a record removed while away or a room that ended, with no command
\* under way, is healed: once everything is answered the client shows the room in
\* which the server seats the user, and its connection follows that room. For any
\* rooms, any number of commands and any number of faults.
THEOREM FaultsHeal == Spec => []Heals
<1>1. Spec => []MemberInv  BY MemberStart, MemberStep, PTL DEF Spec
<1> QED  BY <1>1, HealsHolds, PTL

\* The room given up last is given up on the server too, even when the command came
\* while the link was down or the rejoin under way.
THEOREM DepartureHeard == Spec => []LeaveHeard
<1>1. Spec => []MemberInv  BY MemberStart, MemberStep, PTL DEF Spec
<1> QED  BY <1>1, LeaveHeardHolds, PTL

=============================================================================
