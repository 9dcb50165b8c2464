----------------------------- MODULE ClientProofs -----------------------------
(* Theorems about Manifests and Drift, for any users, sizes, retries, clocks  *)
(* and bounds.                                                                *)
EXTENDS Manifests, Drift, FiniteSetTheorems, SequenceTheorems, WellFoundedInduction, TLAPS

-----------------------------------------------------------------------------
(* Manifests: the inductive invariant.                                        *)

Published(v, m) == [v |-> v, m |-> m] \in stored
Known(m) == \E r \in stored : r.m = m

\* The table: a version names one manifest, and the newest row is kept, so the
\* next version is above every one ever given out.
RoomInv ==
    /\ host \in Users
    /\ stored \subseteq Versioned /\ rows \subseteq stored
    /\ \A x, y \in stored : x.v = y.v => x = y
    /\ stored # {} => \E q \in rows : \A r \in stored : r.v <= q.v
    /\ insert # NoItem => /\ insert \in [n: {1}, u: Users, v: Nat, m: Manifest]
                          /\ Published(insert.v, insert.m)
    /\ cache # NoItem => /\ cache \in [n: {1}, v: Nat, m: Manifest]
                         /\ Published(cache.v, cache.m)

WireInv ==
    /\ session \in [Users -> Nat] /\ conns \in [Users -> Nat]
    /\ toRoom \in [Users -> Seq(RoomFrames)]
    /\ toMember \in [Users -> Seq(MemberFrames)]

FetchInv ==
    /\ fetch \in [Users -> Fetches]
    /\ \A u \in Users : fetch[u].st = "got" => Published(fetch[u].v, fetch[u].m)

\* A manifest of one frame is accepted on the word of its own publisher; one of
\* several is waited for.
Sound(t) ==
    /\ t.st = "sending" => t.next \in 1 .. t.m.of
    /\ t.st = "local" => t.m.of = 1
    /\ t.st = "waiting" => t.m.of # 1
    /\ t.st = "confirmed" => Known(t.m)
TaskInv ==
    /\ built \in Nat
    /\ task \in [Users -> [Slots -> PublishTasks]]
    /\ \A u \in Users, s \in Slots : Sound(task[u][s])

Vouched(m) == m = NoItem \/ m.of = 1 \/ Known(m)
AcceptInv ==
    /\ anchor \in [Users -> Users \cup {0}] /\ version \in [Users -> Nat]
    /\ overlap \in [Users -> BOOLEAN]
    /\ cached \in [Users -> Manifest \cup {NoItem}]
    /\ accept \in [Users -> [Tasks -> Manifest \cup {NoItem}]]
    /\ \A u \in Users : Vouched(cached[u]) /\ \A t \in Tasks : Vouched(accept[u][t])

\* A member that trusts another, with one task at a time inside
\* accept_manifest: the version it goes by is the one of what it is about to
\* cache, and no older than the one of what it has cached.
Watches(u) ==
    /\ \A s \in Slots : task[u][s] = NoTask
    /\ ~overlap[u] =>
          /\ \A s, t \in Tasks : accept[u][s] # NoItem /\ accept[u][t] # NoItem => s = t
          /\ \A t \in Tasks : accept[u][t] # NoItem => Published(version[u], accept[u][t])
          /\ cached[u] # NoItem => \E r \in stored : r.m = cached[u] /\ r.v <= version[u]
\* A user who has not been in the room has nothing of it.
Absent(u) ==
    /\ session[u] = 0 /\ fetch[u].st = "away" /\ cached[u] = NoItem
    /\ \A s \in Slots : task[u][s] = NoTask
    /\ \A t \in Tasks : accept[u][t] = NoItem
OrderInv == \A u \in Users : /\ anchor[u] # u => Watches(u)
                             /\ conns[u] = 0 => Absent(u)

ManifestsInv == RoomInv /\ WireInv /\ FetchInv /\ TaskInv /\ AcceptInv /\ OrderInv

\* Above every version given out so far.
LEMMA NextIsAbove ==
    ASSUME RoomInv
    PROVE  NextVersion(rows) \in Nat \ {0} /\ \A r \in stored : r.v < NextVersion(rows)
<1> DEFINE S == {r.v : r \in rows} \cup {0}
<1>1. \A r \in stored : r.v \in Nat  BY DEF RoomInv, Versioned
<1>2. PICK x \in S : (\A y \in S : x >= y) /\ \A r \in stored : r.v <= x
  <2>1. CASE stored = {}
    <3>1. S = {0}  BY <2>1 DEF RoomInv
    <3> QED  BY <2>1, <3>1
  <2>2. CASE stored # {}
    <3>1. PICK q \in rows : \A r \in stored : r.v <= q.v  BY <2>2 DEF RoomInv
    <3>2. q.v \in S /\ q.v \in Nat  BY <1>1, <3>1 DEF RoomInv
    <3>3. \A y \in S : q.v >= y  BY <1>1, <3>1, <3>2 DEF RoomInv
    <3> QED  BY <3>1, <3>2, <3>3
  <2> QED  BY <2>1, <2>2
<1>3. Max(S) \in S /\ \A y \in S : Max(S) >= y
  <2> HIDE DEF S
  <2> QED  BY <1>2, Zenon DEF Max
<1>4. S \subseteq Nat  BY <1>1 DEF RoomInv
<1>5. NextVersion(rows) = Max(S) + 1  BY DEF NextVersion
<1> HIDE DEF S
<1>6. Max(S) \in Nat /\ x \in Nat /\ Max(S) >= x  BY <1>2, <1>3, <1>4
<1>7. \A r \in stored : r.v < NextVersion(rows)
  <2> TAKE r \in stored
  <2>1. r.v \in Nat /\ r.v <= x  BY <1>1, <1>2
  <2> QED  BY <1>5, <1>6, <2>1
<1> QED  BY <1>5, <1>6, <1>7

\* The cache is refilled with a row of the table.
LEMMA NewestIsRow ==
    ASSUME RoomInv, rows # {}
    PROVE  Newest(rows) \in rows
<1>1. \E q \in rows : \A r \in rows : r.v <= q.v  BY DEF RoomInv
<1> QED  BY <1>1, Zenon DEF Newest

\* Pruning keeps the newest row.
LEMMA PruneKeeps ==
    ASSUME RoomInv
    PROVE  /\ Pruned(rows) \subseteq rows
           /\ stored # {} => \E q \in Pruned(rows) : \A r \in stored : r.v <= q.v
<1>1. Pruned(rows) \subseteq rows  BY DEF Pruned
<1>2. ASSUME stored # {}  PROVE \E q \in Pruned(rows) : \A r \in stored : r.v <= q.v
  <2>1. PICK q \in rows : \A r \in stored : r.v <= q.v  BY <1>2 DEF RoomInv
  <2>2. \A s \in rows : s.v \in Nat /\ q.v \in Nat /\ s.v <= q.v  BY <2>1 DEF RoomInv, Versioned
  <2>3. {s \in rows : s.v > q.v} = {}  BY <2>2
  <2>4. Cardinality({s \in rows : s.v > q.v}) < Keep
      BY <2>3, FS_EmptySet, ManifestsAssumption DEF ManifestsAssumption
  <2>5. q \in Pruned(rows)  BY <2>1, <2>4 DEF Pruned
  <2> QED  BY <2>1, <2>5
<1> QED  BY <1>1, <1>2

\* The frames of one message.
LEMMA FramesTyped ==
    ASSUME NEW kind, NEW id, NEW v, NEW m \in Manifest
    PROVE  /\ m.of \in Nat \ {0}
           /\ FramesOf(kind, id, v, m) \in Seq([kind: {kind}, id: {id}, v: {v}, m: {m}, i: Nat])
           /\ \A j \in 1 .. m.of : FramesOf(kind, id, v, m)[j] \in [kind: {kind}, id: {id}, v: {v}, m: {m}, i: Nat]
<1>1. m.of \in Nat \ {0}  BY ManifestsAssumption DEF ManifestsAssumption, Manifest
<1> DEFINE F == [kind: {kind}, id: {id}, v: {v}, m: {m}, i: Nat]
           frame(j) == [kind |-> kind, id |-> id, v |-> v, m |-> m, i |-> j - 1]
<1>2. \A j \in 1 .. m.of : frame(j) \in F
  <2> TAKE j \in 1 .. m.of
  <2>1. j - 1 \in Nat  BY <1>1
  <2> QED  BY <2>1
<1>3. FramesOf(kind, id, v, m) = [j \in 1 .. m.of |-> frame(j)]  BY DEF FramesOf
<1> HIDE DEF F, frame
<1>4. FramesOf(kind, id, v, m) \in [1 .. m.of -> F]  BY <1>2, <1>3
<1>5. FramesOf(kind, id, v, m) \in Seq(F)  BY <1>1, <1>4, SeqDef
<1> QED  BY <1>1, <1>4, <1>5 DEF F

-----------------------------------------------------------------------------
(* Manifests: the table.                                                      *)

Step == [ManifestsNext]_manifestVars

\* The steps that write the table, the cache or the host.
RoomStep == \/ Announce \/ Crash \/ \E u \in Users : ServePublish(u) \/ Migrate(u)

\* Only the room's own steps touch its table.
LEMMA RoomStill ==
    ASSUME Step, ~RoomStep
    PROVE  UNCHANGED roomVars
<1>1. CASE UNCHANGED manifestVars  BY <1>1 DEF manifestVars
<1>2. CASE RoomServes  BY <1>2 DEF RoomServes, RoomStep, ServeFetch
<1>3. ASSUME NEW u \in Users, Run(u)  PROVE UNCHANGED roomVars
    BY <1>3 DEF Run, Receive, Fetch, FetchAccept, AcceptCache, Send, AcceptLocal, Confirm, Return
<1>4. CASE Input  BY <1>4 DEF Input, Publish, JoinShared, ReconnectConn
<1>5. CASE Misfortune
    BY <1>5 DEF Misfortune, RoomStep, Lag, Limited, LoseConn, ExpireParts, FetchTimeout, Retry
<1> QED  BY <1>1, <1>2, <1>3, <1>4, <1>5 DEF Step, ManifestsNext, Work

\* The INSERT: only the current host's manifest, under a version of its own.
LEMMA InsertKeeps ==
    ASSUME RoomInv, NEW u \in Users, NEW m \in Manifest, Insert(u, m)
    PROVE  RoomInv' /\ stored \subseteq stored'
<1> DEFINE v == NextVersion(rows)
           r == [v |-> v, m |-> m]
<1>1. v \in Nat \ {0} /\ \A x \in stored : x.v < v  BY NextIsAbove
<1>2. \A x \in stored : x.v \in Nat  BY DEF RoomInv, Versioned
<1>3. CASE SignedBy(u, m) /\ IsCurrentHost(u)
  <2>1. /\ rows' = rows \cup {r} /\ stored' = stored \cup {r}
        /\ insert' = [n |-> 1, u |-> u, v |-> v, m |-> m] /\ UNCHANGED <<host, cache>>
      BY <1>3 DEF Insert
  <2> HIDE DEF v
  <2>2. r \in Versioned /\ r.v = v /\ r.m = m  BY <1>1 DEF Versioned
  <2>3. stored' \subseteq Versioned /\ rows' \subseteq stored'  BY <2>1, <2>2 DEF RoomInv
  <2>4. \A x, y \in stored' : x.v = y.v => x = y  BY <1>1, <1>2, <2>1, <2>2 DEF RoomInv
  <2>5. \E q \in rows' : \A x \in stored' : x.v <= q.v  BY <1>1, <1>2, <2>1, <2>2
  <2>6. /\ insert' \in [n: {1}, u: Users, v: Nat, m: Manifest]
        /\ insert'.v = v /\ insert'.m = m /\ r \in stored'
      BY <1>1, <2>1
  <2>7. cache' # NoItem => /\ cache' \in [n: {1}, v: Nat, m: Manifest]
                           /\ [v |-> cache'.v, m |-> cache'.m] \in stored'
      BY <2>1 DEF RoomInv, Published
  <2> QED  BY <2>1, <2>3, <2>4, <2>5, <2>6, <2>7 DEF RoomInv, Published
<1>4. CASE ~(SignedBy(u, m) /\ IsCurrentHost(u))
    BY <1>4 DEF Insert, RoomInv, Published
<1> QED  BY <1>3, <1>4

\* The table survives a publish, a prune, a restart and a change of host.
LEMMA RoomKeeps ==
    ASSUME RoomInv, WireInv, Step
    PROVE  RoomInv' /\ stored \subseteq stored'
<1>1. CASE Announce
  <2>1. /\ insert # NoItem /\ rows' = Pruned(rows) /\ cache' = [n |-> 1, v |-> insert.v, m |-> insert.m]
        /\ insert' = NoItem /\ UNCHANGED <<host, stored>>
      BY <1>1 DEF Announce
  <2>2. insert \in [n: {1}, u: Users, v: Nat, m: Manifest] /\ Published(insert.v, insert.m)
      BY <2>1 DEF RoomInv
  <2>3. /\ cache' \in [n: {1}, v: Nat, m: Manifest] /\ cache'.v = insert.v /\ cache'.m = insert.m
      BY <2>1, <2>2
  <2>4. Pruned(rows) \subseteq rows /\ (stored # {} => \E q \in Pruned(rows) : \A r \in stored : r.v <= q.v)
      BY PruneKeeps
  <2> QED  BY <2>1, <2>2, <2>3, <2>4 DEF RoomInv, Published
<1>2. CASE Crash
  <2>1. UNCHANGED <<host, rows, stored>> /\ insert' = NoItem  BY <1>2 DEF Crash
  <2>2. CASE rows = {}
    <3>1. cache' = NoItem  BY <1>2, <2>2 DEF Crash
    <3> QED  BY <2>1, <3>1 DEF RoomInv
  <2>3. CASE rows # {}
    <3> DEFINE r == Newest(rows)
    <3>1. r \in rows  BY <2>3, NewestIsRow
    <3>2. cache' = [n |-> 1, v |-> r.v, m |-> r.m]  BY <1>2, <2>3 DEF Crash
    <3> HIDE DEF r
    <3>3. r \in stored /\ r \in Versioned  BY <3>1 DEF RoomInv
    <3>4. [v |-> r.v, m |-> r.m] = r /\ r.v \in Nat /\ r.m \in Manifest  BY <3>3 DEF Versioned
    <3>5. cache' \in [n: {1}, v: Nat, m: Manifest] /\ cache'.v = r.v /\ cache'.m = r.m  BY <3>2, <3>4
    <3> QED  BY <2>1, <3>3, <3>4, <3>5 DEF RoomInv, Published
  <2> QED  BY <2>2, <2>3
<1>3. ASSUME NEW u \in Users, ServePublish(u)  PROVE RoomInv' /\ stored \subseteq stored'
  <2> DEFINE f == Head(toRoom[u])
  <2>1. f \in RoomFrames /\ f.kind = "publish"
    <3>1. toRoom[u] \in Seq(RoomFrames) /\ toRoom[u] # << >>  BY <1>3 DEF WireInv, ServePublish
    <3> QED  BY <1>3, <3>1 DEF ServePublish
  <2>2. f.m \in Manifest  BY <2>1 DEF RoomFrames
  <2>3. Insert(u, f.m) \/ UNCHANGED roomVars  BY <1>3 DEF ServePublish
  <2> HIDE DEF f
  <2>4. CASE Insert(u, f.m)  BY <2>2, <2>4, InsertKeeps
  <2>5. CASE UNCHANGED roomVars  BY <2>5 DEF roomVars, RoomInv, Published
  <2> QED  BY <2>3, <2>4, <2>5
<1>4. ASSUME NEW u \in Users, Migrate(u)  PROVE RoomInv' /\ stored \subseteq stored'
    BY <1>4 DEF Migrate, RoomInv, Published
<1>5. CASE ~RoomStep
  <2>1. UNCHANGED roomVars  BY <1>5, RoomStill
  <2> QED  BY <2>1 DEF roomVars, RoomInv, Published
<1> QED  BY <1>1, <1>2, <1>3, <1>4, <1>5 DEF RoomStep

-----------------------------------------------------------------------------
(* Manifests: the wire.                                                       *)

\* A frame that was vouched for stays so as the table grows.
LEMMA MemberFramesGrow ==
    ASSUME stored \subseteq stored', NEW s \in Seq(MemberFrames)
    PROVE  s \in Seq(MemberFrames')
<1>1. MemberFrames \subseteq MemberFrames'  BY DEF MemberFrames
<1> QED  BY <1>1, SeqMonotonic

\* The frames of a manifest of the table may go to a member.
LEMMA FramesForMember ==
    ASSUME NEW kind \in {"published", "response"}, NEW id \in {"v", "r"} \X Nat,
           NEW v \in Nat, NEW m \in Manifest, Published(v, m)
    PROVE  FramesOf(kind, id, v, m) \in Seq(MemberFrames)
<1> DEFINE F == [kind: {kind}, id: {id}, v: {v}, m: {m}, i: Nat]
<1>1. FramesOf(kind, id, v, m) \in Seq(F)  BY FramesTyped
<1>2. \A f \in F : f \in MemberFrames
  <2> TAKE f \in F
  <2>1. f.v = v /\ f.m = m
        /\ f \in [kind: {"published", "response"}, id: {"v", "r"} \X Nat, v: Nat, m: Manifest, i: Nat]
      OBVIOUS
  <2> QED  BY <2>1 DEF MemberFrames, Published
<1> HIDE DEF F
<1>3. F \subseteq MemberFrames  BY <1>2
<1> QED  BY <1>1, <1>3, SeqMonotonic

\* What a publisher puts on the wire is a frame of its own manifest.
LEMMA FrameForRoom ==
    ASSUME NEW m \in Manifest, NEW a \in Nat, NEW j \in 1 .. m.of
    PROVE  FramesOf("publish", <<m.n, a>>, 0, m)[j] \in RoomFrames
<1> DEFINE id == <<m.n, a>>
           f == FramesOf("publish", id, 0, m)[j]
<1>1. id \in Nat \X Nat  BY DEF Manifest
<1> HIDE DEF id
<1>2. f \in [kind: {"publish"}, id: {id}, v: {0}, m: {m}, i: Nat]  BY FramesTyped
<1> HIDE DEF f
<1>3. f \in [kind: {"publish"}, id: Nat \X Nat, v: Nat, m: Manifest, i: Nat]  BY <1>1, <1>2
<1> QED  BY <1>3 DEF RoomFrames, f, id

\* What reaches a member.
LEMMA ToMemberKeeps ==
    ASSUME RoomInv, WireInv, Step
    PROVE  toMember' \in [Users -> Seq(MemberFrames)]
<1>0. toMember \in [Users -> Seq(MemberFrames)] /\ conns \in [Users -> Nat]  BY DEF WireInv
<1>e. << >> \in Seq(MemberFrames)  OBVIOUS
<1>1. CASE Announce
  <2> DEFINE news == FramesOf("published", <<"v", insert.v>>, insert.v, insert.m)
  <2>1. insert # NoItem /\ insert.v \in Nat /\ insert.m \in Manifest /\ Published(insert.v, insert.m)
      BY <1>1 DEF Announce, RoomInv
  <2>2. <<"v", insert.v>> \in {"v", "r"} \X Nat  BY <2>1
  <2>3. news \in Seq(MemberFrames)  BY <2>1, <2>2, FramesForMember
  <2>4. toMember' = [u \in Users |-> IF session[u] = 0 THEN << >> ELSE toMember[u] \o news]
      BY <1>1 DEF Announce
  <2> HIDE DEF news
  <2>5. \A u \in Users : toMember[u] \o news \in Seq(MemberFrames)  BY <1>0, <2>3
  <2> QED  BY <1>e, <2>4, <2>5
<1>2. ASSUME NEW u \in Users, ServeFetch(u)  PROVE toMember' \in [Users -> Seq(MemberFrames)]
  <2> DEFINE answer == IF cache = NoItem THEN <<[kind |-> "error"]>>
                       ELSE FramesOf("response", <<"r", conns[u]>>, cache.v, cache.m)
  <2>1. answer \in Seq(MemberFrames)
    <3>1. CASE cache = NoItem
      <4>1. [kind |-> "error"] \in MemberFrames  BY DEF MemberFrames
      <4> QED  BY <3>1, <4>1
    <3>2. CASE cache # NoItem
      <4>1. cache.v \in Nat /\ cache.m \in Manifest /\ Published(cache.v, cache.m)  BY <3>2 DEF RoomInv
      <4>2. <<"r", conns[u]>> \in {"v", "r"} \X Nat  BY <1>0
      <4> QED  BY <3>2, <4>1, <4>2, FramesForMember
    <3> QED  BY <3>1, <3>2
  <2>2. PICK k \in 0 .. Len(toMember[u]) :
            toMember' = [toMember EXCEPT ![u] = SubSeq(@, 1, k) \o answer \o SubSeq(@, k + 1, Len(@))]
      BY <1>2 DEF ServeFetch
  <2> HIDE DEF answer
  <2> DEFINE s == toMember[u]
  <2>3. s \in Seq(MemberFrames)  BY <1>0
  <2>4. SubSeq(s, 1, k) \o answer \o SubSeq(s, k + 1, Len(s)) \in Seq(MemberFrames)
    <3> HIDE DEF s
    <3>1. Len(s) \in Nat /\ k \in 0 .. Len(s)  BY <2>2, <2>3 DEF s
    <3>2. SubSeq(s, 1, k) \in Seq(MemberFrames)  BY <2>3, <3>1
    <3>3. SubSeq(s, k + 1, Len(s)) \in Seq(MemberFrames)  BY <2>3, <3>1
    <3> QED  BY <2>1, <3>2, <3>3
  <2> QED  BY <1>0, <2>2, <2>4
<1>3. ASSUME NEW u \in Users, Lag(u)  PROVE toMember' \in [Users -> Seq(MemberFrames)]
  <2>1. PICK k \in DOMAIN toMember[u] : toMember' = [toMember EXCEPT ![u] = RemoveAt(@, k)]
      BY <1>3 DEF Lag
  <2> DEFINE s == toMember[u]
  <2>2. s \in Seq(MemberFrames) /\ k \in DOMAIN s  BY <1>0, <2>1
  <2>3. RemoveAt(s, k) \in Seq(MemberFrames)
    <3> HIDE DEF s
    <3> QED  BY <2>2 DEF RemoveAt
  <2> QED  BY <1>0, <2>1, <2>3
<1>4. ASSUME NEW u \in Users, Receive(u)  PROVE toMember' \in [Users -> Seq(MemberFrames)]
    BY <1>0, <1>4 DEF Receive
<1>5. ASSUME NEW u \in Users, LoseConn(u)  PROVE toMember' \in [Users -> Seq(MemberFrames)]
    BY <1>0, <1>e, <1>5 DEF LoseConn
<1>6. CASE Crash  BY <1>e, <1>6 DEF Crash
<1>7. CASE toMember' = toMember  BY <1>0, <1>7
<1>8. RoomServes => Announce \/ \E u \in Users : ServeFetch(u) \/ toMember' = toMember
    BY DEF RoomServes, ServePublish
<1>9. ASSUME NEW u \in Users, Run(u)  PROVE Receive(u) \/ toMember' = toMember
    BY <1>9 DEF Run, Fetch, FetchAccept, AcceptCache, Send, AcceptLocal, Confirm, Return, wire
<1>10. Input => toMember' = toMember  BY DEF Input, Publish, JoinShared, ReconnectConn, wire
<1>11. Misfortune => Crash \/ (\E u \in Users : Lag(u) \/ LoseConn(u)) \/ toMember' = toMember
    BY DEF Misfortune, Limited, Migrate, ExpireParts, FetchTimeout, Retry, wire
<1> QED  BY <1>1, <1>2, <1>3, <1>4, <1>5, <1>6, <1>7, <1>8, <1>9, <1>10, <1>11
         DEF Step, ManifestsNext, Work, manifestVars, wire

\* What reaches the server, and the connections.
LEMMA ToRoomKeeps ==
    ASSUME WireInv, TaskInv, Step
    PROVE  /\ toRoom' \in [Users -> Seq(RoomFrames)]
           /\ session' \in [Users -> Nat] /\ conns' \in [Users -> Nat]
<1>0. toRoom \in [Users -> Seq(RoomFrames)] /\ session \in [Users -> Nat] /\ conns \in [Users -> Nat]
    BY DEF WireInv
<1> DEFINE Goal == /\ toRoom' \in [Users -> Seq(RoomFrames)]
                   /\ session' \in [Users -> Nat] /\ conns' \in [Users -> Nat]
<1>1. ASSUME NEW u \in Users, ServePublish(u) \/ ServeFetch(u) \/ Limited(u)  PROVE Goal
  <2>1. toRoom[u] \in Seq(RoomFrames) /\ toRoom[u] # << >> /\ TookUp(u) /\ UNCHANGED <<session, conns>>
      BY <1>0, <1>1 DEF ServePublish, ServeFetch, Limited
  <2>2. Tail(toRoom[u]) \in Seq(RoomFrames)  BY <2>1
  <2> QED  BY <1>0, <2>1, <2>2 DEF TookUp
<1>2. ASSUME NEW u \in Users, Fetch(u)  PROVE Goal
  <2>1. [kind |-> "request"] \in RoomFrames  BY DEF RoomFrames
  <2>2. toRoom' = toRoom \/ toRoom' = [toRoom EXCEPT ![u] = Append(@, [kind |-> "request"])]
      BY <1>2 DEF Fetch
  <2>3. toRoom' \in [Users -> Seq(RoomFrames)]
    <3> DEFINE s == toRoom[u]
    <3>1. Append(s, [kind |-> "request"]) \in Seq(RoomFrames)  BY <1>0, <2>1
    <3> QED  BY <1>0, <2>2, <3>1
  <2> QED  BY <1>0, <1>2, <2>3 DEF Fetch
<1>3. ASSUME NEW u \in Users, NEW s \in Slots, Send(u, s)  PROVE Goal
  <2> DEFINE t == task[u][s]
             f == FramesOf("publish", <<t.m.n, t.attempt>>, 0, t.m)[t.next]
  <2>1. t \in PublishTasks /\ t.st = "sending" /\ Sound(t)  BY <1>3 DEF Send, TaskInv
  <2>2. toRoom' = toRoom \/ toRoom' = [toRoom EXCEPT ![u] = Append(@, f)]  BY <1>3 DEF Send
  <2> HIDE DEF t
  <2>3. t.m \in Manifest /\ t.attempt \in Nat  BY <2>1 DEF PublishTasks
  <2>4. t.m.n \in Nat /\ t.next \in 1 .. t.m.of  BY <2>1, <2>3 DEF Manifest, Sound
  <2>5. f \in RoomFrames
    <3> DEFINE m == t.m
               a == t.attempt
               j == t.next
    <3>1. m \in Manifest /\ a \in Nat /\ j \in 1 .. m.of  BY <2>3, <2>4
    <3> HIDE DEF m, a, j
    <3>2. FramesOf("publish", <<m.n, a>>, 0, m)[j] \in RoomFrames  BY <3>1, FrameForRoom
    <3> QED  BY <3>2 DEF m, a, j
  <2> HIDE DEF f
  <2>6. toRoom' \in [Users -> Seq(RoomFrames)]
    <3>1. Append(toRoom[u], f) \in Seq(RoomFrames)  BY <1>0, <2>5
    <3> QED  BY <1>0, <2>2, <3>1
  <2> QED  BY <1>0, <1>3, <2>6 DEF Send
<1>4. ASSUME NEW u \in Users, JoinShared(u) \/ ReconnectConn(u)  PROVE Goal
  <2>1. NewConn(u) /\ toRoom' = toRoom  BY <1>4 DEF JoinShared, ReconnectConn
  <2> QED  BY <1>0, <2>1 DEF NewConn
<1>5. ASSUME NEW u \in Users, LoseConn(u)  PROVE Goal
    BY <1>0, <1>5 DEF LoseConn
<1>6. ASSUME Crash  PROVE Goal  BY <1>0, <1>6 DEF Crash
<1>7. ASSUME UNCHANGED <<toRoom, session, conns>>  PROVE Goal  BY <1>0, <1>7
<1>8. RoomServes => \/ UNCHANGED <<toRoom, session, conns>>
                    \/ \E u \in Users : ServePublish(u) \/ ServeFetch(u)
    BY DEF RoomServes, Announce
<1>9. ASSUME NEW u \in Users, Run(u)
      PROVE  \/ Fetch(u) \/ \E s \in Slots : Send(u, s)
             \/ UNCHANGED <<toRoom, session, conns>>
    BY <1>9 DEF Run, Receive, FetchAccept, AcceptCache, AcceptLocal, Confirm, Return, wire
<1>10. Input => \/ UNCHANGED <<toRoom, session, conns>>
                \/ \E u \in Users : JoinShared(u) \/ ReconnectConn(u)
    BY DEF Input, Publish, wire
<1>11. Misfortune => \/ Crash \/ (\E u \in Users : Limited(u) \/ LoseConn(u))
                     \/ UNCHANGED <<toRoom, session, conns>>
    BY DEF Misfortune, Lag, Migrate, ExpireParts, FetchTimeout, Retry, wire
<1> HIDE DEF Goal
<1>12. Goal
  <2>1. CASE RoomServes  BY <1>1, <1>7, <1>8, <2>1
  <2>2. CASE \E u \in Users : Run(u)
    <3> PICK u \in Users : Run(u)  BY <2>2
    <3> QED  BY <1>2, <1>3, <1>7, <1>9
  <2>3. CASE Input  BY <1>4, <1>7, <1>10, <2>3
  <2>4. CASE Misfortune  BY <1>1, <1>5, <1>6, <1>7, <1>11, <2>4
  <2>5. CASE UNCHANGED manifestVars
    <3>1. UNCHANGED <<toRoom, session, conns>>  BY <2>5 DEF manifestVars, wire
    <3> QED  BY <1>7, <3>1
  <2> QED  BY <2>1, <2>2, <2>3, <2>4, <2>5 DEF Step, ManifestsNext, Work
<1> QED  BY <1>12 DEF Goal

\* The frames on both directions of the wire keep their shape and their source.
LEMMA WireKeeps ==
    ASSUME RoomInv, WireInv, TaskInv, Step
    PROVE  WireInv'
<1>1. stored \subseteq stored'  BY RoomKeeps
<1>2. toMember' \in [Users -> Seq(MemberFrames)]  BY ToMemberKeeps
<1>3. toMember' \in [Users -> Seq(MemberFrames')]
  <2>1. \A u \in Users : toMember'[u] \in Seq(MemberFrames')  BY <1>1, <1>2, MemberFramesGrow
  <2> QED  BY <1>2, <2>1
<1> QED  BY <1>3, ToRoomKeeps DEF WireInv

-----------------------------------------------------------------------------
(* Manifests: the fetch and the publish tasks.                                *)

\* What u's inbound loop has at hand.
LEMMA HeadIsVouched ==
    ASSUME WireInv, NEW u \in Users, toMember[u] # << >>, NEW f, f = Head(toMember[u]), f.kind # "error"
    PROVE  f.v \in Nat /\ f.m \in Manifest /\ Published(f.v, f.m)
<1>1. toMember[u] \in Seq(MemberFrames)  BY DEF WireInv
<1>2. f \in MemberFrames  BY <1>1
<1> QED  BY <1>2 DEF MemberFrames, Published

\* A fetch ends with a manifest of the table or with nothing.
LEMMA FetchKeeps ==
    ASSUME WireInv, FetchInv, stored \subseteq stored', Step
    PROVE  FetchInv'
<1> DEFINE Keeps(u) == \E x \in Fetches : /\ fetch' = [fetch EXCEPT ![u] = x]
                                          /\ x.st = "got" => Published(x.v, x.m)
<1>0. [st |-> "todo"] \in Fetches /\ [st |-> "waiting"] \in Fetches /\ [st |-> "done"] \in Fetches
    BY DEF Fetches
<1>g. ASSUME NEW u \in Users, Keeps(u)  PROVE FetchInv'
  <2>1. PICK x \in Fetches : /\ fetch' = [fetch EXCEPT ![u] = x]
                             /\ x.st = "got" => Published(x.v, x.m)
      BY <1>g
  <2> QED  BY <2>1 DEF FetchInv, Published
<1>s. ASSUME fetch' = fetch  PROVE FetchInv'  BY <1>s DEF FetchInv, Published
<1>1. ASSUME NEW u \in Users, Receive(u)  PROVE FetchInv'
  <2> DEFINE f == Head(toMember[u])
             x == IF f.kind = "error"
                  THEN IF fetch[u].st = "waiting" THEN [st |-> "done"] ELSE fetch[u]
                  ELSE IF f.kind = "response" /\ fetch[u].st = "waiting" /\ Completes(parts[u]["response"], f)
                       THEN [st |-> "got", m |-> f.m, v |-> f.v] ELSE fetch[u]
  <2>1. fetch' = [fetch EXCEPT ![u] = x] /\ toMember[u] # << >>  BY <1>1 DEF Receive
  <2>2. f.kind # "error" => f.v \in Nat /\ f.m \in Manifest /\ Published(f.v, f.m)
      BY <2>1, HeadIsVouched
  <2> HIDE DEF f
  <2>3. x \in Fetches /\ (x.st = "got" => Published(x.v, x.m))
    <3>1. fetch[u] \in Fetches /\ (fetch[u].st = "got" => Published(fetch[u].v, fetch[u].m))
        BY DEF FetchInv
    <3>2. ASSUME f.kind # "error"
          PROVE  LET y == [st |-> "got", m |-> f.m, v |-> f.v]
                 IN  y \in Fetches /\ Published(y.v, y.m)
        BY <2>2, <3>2 DEF Fetches
    <3> QED  BY <1>0, <3>1, <3>2
  <2> HIDE DEF x
  <2> QED  BY <1>g, <2>1, <2>3
<1>2. ASSUME NEW u \in Users, Fetch(u)  PROVE FetchInv'
  <2>1. Keeps(u)  BY <1>0, <1>2 DEF Fetch
  <2> QED  BY <1>g, <2>1
<1>3. ASSUME NEW u \in Users, FetchTimeout(u) \/ FetchAccept(u)  PROVE FetchInv'
  <2>1. Keeps(u)  BY <1>0, <1>3 DEF FetchTimeout, FetchAccept
  <2> QED  BY <1>g, <2>1
<1>4. ASSUME NEW u \in Users, JoinShared(u)  PROVE FetchInv'
  <2>1. Keeps(u)  BY <1>0, <1>4 DEF JoinShared
  <2> QED  BY <1>g, <2>1
<1>5. CASE RoomServes
    BY <1>5, <1>s DEF RoomServes, Announce, ServePublish, ServeFetch, client
<1>6. ASSUME NEW u \in Users, Run(u)  PROVE FetchInv'
  <2>1. \/ Receive(u) \/ Fetch(u) \/ FetchAccept(u) \/ fetch' = fetch
      BY <1>6 DEF Run, AcceptCache, Send, AcceptLocal, Confirm, Return, client
  <2> QED  BY <1>1, <1>2, <1>3, <1>s, <2>1
<1>7. CASE Input
  <2>1. (\E u \in Users : JoinShared(u)) \/ fetch' = fetch  BY <1>7 DEF Input, Publish, ReconnectConn
  <2> QED  BY <1>4, <1>s, <2>1
<1>8. CASE Misfortune
  <2>1. (\E u \in Users : FetchTimeout(u)) \/ fetch' = fetch
      BY <1>8 DEF Misfortune, Crash, Lag, Limited, Migrate, LoseConn, ExpireParts, Retry, client
  <2> QED  BY <1>3, <1>s, <2>1
<1>9. CASE UNCHANGED manifestVars  BY <1>9, <1>s DEF manifestVars, client
<1> QED  BY <1>5, <1>6, <1>7, <1>8, <1>9 DEF Step, ManifestsNext, Work

\* A task of u's, put in place of the one it had.
TaskBecomes(u, s, t) ==
    /\ t \in PublishTasks /\ Sound(t)
    /\ task' = [task EXCEPT ![u][s] = t]

LEMMA NoTaskSound == NoTask \in PublishTasks /\ Sound(NoTask)
BY DEF NoTask, PublishTasks, Sound

\* A publish task that starts to send.
LEMMA SendingSound ==
    ASSUME NEW m \in Manifest, NEW a \in Nat, NEW c \in Nat
    PROVE  LET t == [st |-> "sending", m |-> m, attempt |-> a, next |-> 1, conn |-> c]
           IN  t \in PublishTasks /\ Sound(t)
<1> DEFINE t == [st |-> "sending", m |-> m, attempt |-> a, next |-> 1, conn |-> c]
<1>1. t \in PublishTasks /\ t.st = "sending" /\ t.m = m /\ t.next = 1  BY DEF PublishTasks
<1>2. m.of \in Nat \ {0}  BY ManifestsAssumption DEF ManifestsAssumption, Manifest
<1> HIDE DEF t
<1>3. Sound(t)  BY <1>1, <1>2 DEF Sound
<1> QED  BY <1>1, <1>3 DEF t

\* A new manifest.
LEMMA FreshTyped ==
    ASSUME TaskInv, NEW u \in Users, NEW k \in Sizes
    PROVE  Fresh(u, k) \in Manifest
BY DEF Fresh, Manifest, TaskInv

\* One task changes, the others stand.
LEMMA TaskPuts ==
    ASSUME TaskInv, stored \subseteq stored', NEW u \in Users, NEW s \in Slots, NEW t,
           TaskBecomes(u, s, t), built' \in Nat
    PROVE  TaskInv'
<1>1. task' \in [Users -> [Slots -> PublishTasks]]  BY DEF TaskInv, TaskBecomes
<1>2. \A x \in Users, y \in Slots : task'[x][y] = t \/ task'[x][y] = task[x][y]
    BY DEF TaskInv, TaskBecomes
<1>3. \A x \in Users, y \in Slots : Sound(task'[x][y])  BY <1>2 DEF TaskInv, TaskBecomes
<1>4. \A x \in Users, y \in Slots : Sound(task[x][y])'
  <2> TAKE x \in Users, y \in Slots
  <2>1. Sound(task'[x][y])  BY <1>3
  <2> QED  BY <2>1 DEF Sound, Known
<1> QED  BY <1>1, <1>4 DEF TaskInv

\* The steps of a publish task.
LEMMA TaskKeeps ==
    ASSUME WireInv, TaskInv, stored \subseteq stored', AcceptInv, Step
    PROVE  TaskInv'
<1>0. built \in Nat  BY DEF TaskInv
<1>s. ASSUME task' = task, built' = built  PROVE TaskInv'
  <2>1. \A u \in Users, s \in Slots : Sound(task[u][s])  BY DEF TaskInv
  <2>2. \A u \in Users, s \in Slots : Sound(task[u][s])'
    <3> TAKE u \in Users, s \in Slots
    <3>1. Sound(task[u][s]) /\ task'[u][s] = task[u][s]  BY <1>s, <2>1
    <3> QED  BY <3>1 DEF Sound, Known
  <2> QED  BY <1>s, <2>2 DEF TaskInv
<1>1. ASSUME NEW u \in Users, Publish(u)  PROVE TaskInv'
  <2>1. PICK k \in Sizes : Build(u, "command", k)  BY <1>1 DEF Publish
  <2> DEFINE t == Sending(u, Fresh(u, k), 1)
  <2>2. Fresh(u, k) \in Manifest /\ session[u] \in Nat  BY FreshTyped DEF WireInv
  <2>3. t \in PublishTasks /\ Sound(t)
    <3> DEFINE m == Fresh(u, k)
               c == session[u]
    <3>1. m \in Manifest /\ c \in Nat  BY <2>2
    <3>2. t = IF c = 0 THEN NoTask
              ELSE [st |-> "sending", m |-> m, attempt |-> 1, next |-> 1, conn |-> c]
        BY DEF Sending
    <3> HIDE DEF m, c, t
    <3>3. LET x == [st |-> "sending", m |-> m, attempt |-> 1, next |-> 1, conn |-> c]
          IN  x \in PublishTasks /\ Sound(x)
        BY <3>1, SendingSound
    <3> QED  BY <3>2, <3>3, NoTaskSound
  <2>4. task' = [task EXCEPT ![u]["command"] = t] /\ built' = built + 1  BY <2>1 DEF Build
  <2>5. "command" \in Slots  BY DEF Slots
  <2> HIDE DEF t
  <2>6. TaskBecomes(u, "command", t) /\ built' \in Nat  BY <1>0, <2>3, <2>4 DEF TaskBecomes
  <2> QED  BY <2>5, <2>6, TaskPuts
<1>2. ASSUME NEW u \in Users, NEW s \in Slots, Send(u, s)  PROVE TaskInv'
  <2> DEFINE t == task[u][s]
             more == [t EXCEPT !.next = @ + 1]
             sent == [t EXCEPT !.st = IF t.m.of = 1 THEN "local" ELSE "waiting"]
             x == IF session[u] = 0 \/ (t.m.of > 1 /\ session[u] # t.conn) THEN NoTask
                  ELSE IF t.next < t.m.of THEN more ELSE sent
  <2>1. t \in PublishTasks /\ t.st = "sending" /\ Sound(t)  BY <1>2 DEF Send, TaskInv
  <2>2. task' = [task EXCEPT ![u][s] = x] /\ built' = built  BY <1>2 DEF Send
  <2> HIDE DEF t
  <2>3. t \in [st: {"sending", "local", "waiting"}, m: Manifest, attempt: Nat, next: Nat, conn: Nat]
      BY <2>1 DEF PublishTasks
  <2>4. t.next \in 1 .. t.m.of /\ t.m.of \in Nat /\ t.next \in Nat
      BY <2>1, <2>3, ManifestsAssumption DEF Sound, ManifestsAssumption, Manifest
  <2>5. t.next < t.m.of => more \in PublishTasks /\ Sound(more)
    <3>1. more \in [st: {"sending", "local", "waiting"}, m: Manifest, attempt: Nat, next: Nat, conn: Nat]
          /\ more.st = t.st /\ more.m = t.m /\ more.next = t.next + 1
        BY <2>3
    <3> HIDE DEF more
    <3>2. t.next < t.m.of => more.next \in 1 .. more.m.of  BY <2>4, <3>1
    <3> QED  BY <2>1, <3>1, <3>2 DEF PublishTasks, Sound
  <2>6. sent \in PublishTasks /\ Sound(sent)
    <3> DEFINE st == IF t.m.of = 1 THEN "local" ELSE "waiting"
    <3>0. sent = [t EXCEPT !.st = st]  OBVIOUS
    <3>1. st \in {"local", "waiting"} /\ (st = "local" => t.m.of = 1) /\ (st = "waiting" => t.m.of # 1)
        OBVIOUS
    <3> HIDE DEF st, sent
    <3>2. sent \in [st: {"sending", "local", "waiting"}, m: Manifest, attempt: Nat, next: Nat, conn: Nat]
          /\ sent.st = st /\ sent.m = t.m
        BY <2>3, <3>0, <3>1
    <3> QED  BY <3>1, <3>2 DEF PublishTasks, Sound
  <2>7. x \in PublishTasks /\ Sound(x)  BY <2>5, <2>6, NoTaskSound
  <2> HIDE DEF x
  <2>8. TaskBecomes(u, s, x) /\ built' \in Nat  BY <1>0, <2>2, <2>7 DEF TaskBecomes
  <2> QED  BY <2>8, TaskPuts
<1>3. ASSUME NEW u \in Users, NEW s \in Slots, AcceptLocal(u, s) \/ Return(u, s)  PROVE TaskInv'
  <2>1. task' = [task EXCEPT ![u][s] = NoTask] /\ built' = built  BY <1>3 DEF AcceptLocal, Return
  <2>2. TaskBecomes(u, s, NoTask) /\ built' \in Nat  BY <1>0, <2>1, NoTaskSound DEF TaskBecomes
  <2> QED  BY <2>2, TaskPuts
<1>4. ASSUME NEW u \in Users, NEW s \in Slots, Confirm(u, s)  PROVE TaskInv'
  <2> DEFINE t == task[u][s]
             x == [st |-> "confirmed", m |-> t.m]
  <2>1. t \in PublishTasks /\ t.st = "waiting" /\ Sound(t) /\ cached[u] = t.m  
      BY <1>4 DEF Confirm, IsConfirmed, TaskInv
  <2>2. task' = [task EXCEPT ![u][s] = x] /\ built' = built  BY <1>4 DEF Confirm
  <2> HIDE DEF t
  <2>3. t.m \in Manifest /\ t.m.of # 1  BY <2>1 DEF PublishTasks, Sound
  <2>4. t.m # NoItem
    <3>1. t.m.n # 0  BY <2>3 DEF Manifest
    <3> QED  BY <3>1 DEF NoItem
  <2>5. Known(t.m)  BY <2>1, <2>3, <2>4 DEF AcceptInv, Vouched
  <2>6. x \in PublishTasks /\ Sound(x)
    <3>1. x \in PublishTasks /\ x.st = "confirmed" /\ x.m = t.m  BY <2>3 DEF PublishTasks
    <3> HIDE DEF x
    <3> QED  BY <2>5, <3>1 DEF Sound
  <2> HIDE DEF x
  <2>7. TaskBecomes(u, s, x) /\ built' \in Nat  BY <1>0, <2>2, <2>6 DEF TaskBecomes
  <2> QED  BY <2>7, TaskPuts
<1>5. ASSUME NEW u \in Users, NEW s \in Slots, Retry(u, s)  PROVE TaskInv'
  <2> DEFINE t == task[u][s]
             x == IF t.attempt >= MaxAttempts THEN NoTask ELSE Sending(u, t.m, t.attempt + 1)
  <2>1. t \in PublishTasks /\ t.st = "waiting"  BY <1>5 DEF Retry, TaskInv
  <2>2. task' = [task EXCEPT ![u][s] = x] /\ built' = built  BY <1>5 DEF Retry, publish
  <2> HIDE DEF t
  <2>3. t.m \in Manifest /\ t.attempt \in Nat /\ session[u] \in Nat  BY <2>1 DEF PublishTasks, WireInv
  <2>4. x \in PublishTasks /\ Sound(x)
    <3> DEFINE m == t.m
               a == t.attempt + 1
               c == session[u]
    <3>1. m \in Manifest /\ a \in Nat /\ c \in Nat  BY <2>3
    <3>2. x \in {NoTask, [st |-> "sending", m |-> m, attempt |-> a, next |-> 1, conn |-> c]}
        BY DEF Sending
    <3> HIDE DEF m, a, c, x
    <3>3. LET y == [st |-> "sending", m |-> m, attempt |-> a, next |-> 1, conn |-> c]
          IN  y \in PublishTasks /\ Sound(y)
        BY <3>1, SendingSound
    <3> QED  BY <3>2, <3>3, NoTaskSound
  <2> HIDE DEF x
  <2>5. TaskBecomes(u, s, x) /\ built' \in Nat  BY <1>0, <2>2, <2>4 DEF TaskBecomes
  <2> QED  BY <2>5, TaskPuts
<1>6. ASSUME NEW u \in Users, ReconnectConn(u)  PROVE TaskInv'
  <2>1. CASE host = u /\ selected[u]
    <3>1. PICK k \in Sizes : task' = [task EXCEPT ![u]["hook"] =
                   [st |-> "sending", m |-> Fresh(u, k),
                    attempt |-> 1, next |-> 1, conn |-> conns[u] + 1]]
        BY <1>6, <2>1 DEF ReconnectConn
    <3> DEFINE m == Fresh(u, k)
               c == conns[u] + 1
               t == [st |-> "sending", m |-> m, attempt |-> 1, next |-> 1, conn |-> c]
    <3>2. m \in Manifest /\ c \in Nat  BY FreshTyped DEF WireInv
    <3>3. built' = built + 1 /\ "hook" \in Slots /\ task' = [task EXCEPT ![u]["hook"] = t]
        BY <1>6, <2>1, <3>1 DEF ReconnectConn, Slots
    <3> HIDE DEF m, c
    <3>4. t \in PublishTasks /\ Sound(t)  BY <3>2, SendingSound
    <3> HIDE DEF t
    <3>5. TaskBecomes(u, "hook", t) /\ built' \in Nat  BY <1>0, <3>3, <3>4 DEF TaskBecomes
    <3> QED  BY <3>3, <3>5, TaskPuts
  <2>2. CASE ~(host = u /\ selected[u])
    <3>1. task' = task /\ built' = built  BY <1>6, <2>2 DEF ReconnectConn
    <3> QED  BY <1>s, <3>1
  <2> QED  BY <2>1, <2>2
<1>7. CASE RoomServes
  <2>1. task' = task /\ built' = built
      BY <1>7 DEF RoomServes, Announce, ServePublish, ServeFetch, publish
  <2> QED  BY <1>s, <2>1
<1>8. ASSUME NEW u \in Users, Run(u)  PROVE TaskInv'
  <2>1. \/ \E s \in Slots : Send(u, s) \/ AcceptLocal(u, s) \/ Confirm(u, s) \/ Return(u, s)
        \/ task' = task /\ built' = built
      BY <1>8 DEF Run, Receive, Fetch, FetchAccept, AcceptCache, publish
  <2> QED  BY <1>2, <1>3, <1>4, <1>s, <2>1
<1>9. CASE Input
  <2>1. (\E u \in Users : Publish(u) \/ ReconnectConn(u)) \/ (task' = task /\ built' = built)
      BY <1>9 DEF Input, JoinShared, publish
  <2> QED  BY <1>1, <1>6, <1>s, <2>1
<1>10. CASE Misfortune
  <2>1. \/ \E u \in Users, s \in Slots : Retry(u, s)
        \/ task' = task /\ built' = built
      BY <1>10 DEF Misfortune, Crash, Lag, Limited, Migrate, LoseConn, ExpireParts, FetchTimeout, publish
  <2> QED  BY <1>5, <1>s, <2>1
<1>11. CASE UNCHANGED manifestVars
  <2>1. task' = task /\ built' = built  BY <1>11 DEF manifestVars, publish
  <2> QED  BY <1>s, <2>1
<1> QED  BY <1>7, <1>8, <1>9, <1>10, <1>11 DEF Step, ManifestsNext, Work

-----------------------------------------------------------------------------
(* Manifests: acceptance.                                                     *)

\* A vouched manifest may be accepted by any task.
LEMMA VersionKeepsTypes ==
    ASSUME AcceptInv, NEW u \in Users, NEW t \in Tasks, NEW m \in Manifest, NEW v \in Nat, Vouched(m),
           AcceptVersion(u, t, m, v)
    PROVE  /\ version' \in [Users -> Nat] /\ overlap' \in [Users -> BOOLEAN]
           /\ accept' \in [Users -> [Tasks -> Manifest \cup {NoItem}]]
           /\ \A x \in Users, y \in Tasks : Vouched(accept'[x][y])
<1>1. CASE Anchored(u, m) /\ v >= version[u]
  <2>1. /\ version' = [version EXCEPT ![u] = v] /\ accept' = [accept EXCEPT ![u][t] = m]
        /\ overlap' = [overlap EXCEPT ![u] = @ \/ \E o \in Tasks : accept[u][o] # NoItem]
      BY <1>1 DEF AcceptVersion
  <2>2. version' \in [Users -> Nat] /\ accept' \in [Users -> [Tasks -> Manifest \cup {NoItem}]]
      BY <2>1 DEF AcceptInv
  <2>3. overlap' \in [Users -> BOOLEAN]
    <3> DEFINE b == overlap[u] \/ \E o \in Tasks : accept[u][o] # NoItem
    <3>1. overlap' = [overlap EXCEPT ![u] = b] /\ b \in BOOLEAN  BY <2>1
    <3> HIDE DEF b
    <3> QED  BY <3>1 DEF AcceptInv
  <2>4. \A x \in Users, y \in Tasks : accept'[x][y] = m \/ accept'[x][y] = accept[x][y]
      BY <2>1 DEF AcceptInv
  <2>5. \A x \in Users, y \in Tasks : Vouched(accept'[x][y])
      BY <2>4 DEF AcceptInv
  <2> QED  BY <2>2, <2>3, <2>5
<1>2. CASE ~(Anchored(u, m) /\ v >= version[u])
  <2>1. UNCHANGED <<version, accept, overlap>>  BY <1>2 DEF AcceptVersion
  <2> QED  BY <2>1 DEF AcceptInv
<1> QED  BY <1>1, <1>2

\* What the accepting tasks bring forward.
LEMMA Offers ==
    ASSUME WireInv, FetchInv, TaskInv, NEW u \in Users
    PROVE  /\ Receive(u) => \/ UNCHANGED <<version, accept, overlap>>
                            \/ \E m \in Manifest, v \in Nat :
                                   Published(v, m) /\ AcceptVersion(u, "inbound", m, v)
           /\ FetchAccept(u) => \E m \in Manifest, v \in Nat :
                                   Published(v, m) /\ AcceptVersion(u, "fetch", m, v)
           /\ \A s \in Slots : AcceptLocal(u, s) =>
                 /\ task[u][s] # NoTask
                 /\ \E m \in Manifest : m.of = 1 /\ AcceptVersion(u, s, m, 1)
<1>1. ASSUME Receive(u)
      PROVE  \/ UNCHANGED <<version, accept, overlap>>
             \/ \E m \in Manifest, v \in Nat : Published(v, m) /\ AcceptVersion(u, "inbound", m, v)
  <2> DEFINE f == Head(toMember[u])
  <2>1. toMember[u] # << >>  BY <1>1 DEF Receive
  <2>2. f.kind # "error" => f.v \in Nat /\ f.m \in Manifest /\ Published(f.v, f.m)
      BY <2>1, HeadIsVouched
  <2>3. UNCHANGED <<version, accept, overlap>> \/ (f.kind # "error" /\ AcceptVersion(u, "inbound", f.m, f.v))
      BY <1>1 DEF Receive
  <2> HIDE DEF f
  <2> QED  BY <2>2, <2>3
<1>2. ASSUME FetchAccept(u)
      PROVE  \E m \in Manifest, v \in Nat : Published(v, m) /\ AcceptVersion(u, "fetch", m, v)
  <2>1. fetch[u].st = "got" /\ AcceptVersion(u, "fetch", fetch[u].m, fetch[u].v)  BY <1>2 DEF FetchAccept
  <2>2. fetch[u].m \in Manifest /\ fetch[u].v \in Nat  BY <2>1 DEF FetchInv, Fetches
  <2>3. Published(fetch[u].v, fetch[u].m)  BY <2>1 DEF FetchInv
  <2> QED  BY <2>1, <2>2, <2>3
<1>3. ASSUME NEW s \in Slots, AcceptLocal(u, s)
      PROVE  task[u][s] # NoTask /\ \E m \in Manifest : m.of = 1 /\ AcceptVersion(u, s, m, 1)
  <2>1. task[u][s].st = "local" /\ AcceptVersion(u, s, task[u][s].m, 1)  BY <1>3 DEF AcceptLocal
  <2>2. task[u][s].m \in Manifest /\ task[u][s].m.of = 1
    <3>1. task[u][s] \in PublishTasks /\ Sound(task[u][s])  BY DEF TaskInv
    <3> QED  BY <2>1, <3>1 DEF PublishTasks, Sound
  <2>3. task[u][s] # NoTask  BY <2>1 DEF NoTask
  <2> QED  BY <2>1, <2>2, <2>3
<1> QED  BY <1>1, <1>2, <1>3

\* Steps that leave what was accepted as it is.
LEMMA AcceptStill ==
    ASSUME Step, ~\E u \in Users : \/ Receive(u) \/ FetchAccept(u)
                                   \/ \E s \in Slots : AcceptLocal(u, s)
                                   \/ \E t \in Tasks : AcceptCache(u, t)
    PROVE  UNCHANGED <<version, cached, accept, overlap>>
<1>1. CASE RoomServes  BY <1>1 DEF RoomServes, Announce, ServePublish, ServeFetch, client
<1>2. ASSUME NEW u \in Users, Run(u)  PROVE UNCHANGED <<version, cached, accept, overlap>>
    BY <1>2 DEF Run, Fetch, Send, Confirm, Return, client
<1>3. CASE Input  BY <1>3 DEF Input, Publish, JoinShared, ReconnectConn
<1>4. CASE Misfortune
    BY <1>4 DEF Misfortune, Crash, Lag, Limited, Migrate, LoseConn, ExpireParts, FetchTimeout, Retry, client
<1>5. CASE UNCHANGED manifestVars  BY <1>5 DEF manifestVars, client
<1> QED  BY <1>1, <1>2, <1>3, <1>4, <1>5 DEF Step, ManifestsNext, Work

\* Whom a member holds for the author of its last version.
LEMMA AnchorKeeps ==
    ASSUME RoomInv, AcceptInv, Step
    PROVE  anchor' \in [Users -> Users \cup {0}]
<1>0. anchor \in [Users -> Users \cup {0}] /\ host \in Users  BY DEF AcceptInv, RoomInv
<1>1. CASE RoomServes  BY <1>0, <1>1 DEF RoomServes, Announce, ServePublish, ServeFetch, client
<1>2. ASSUME NEW u \in Users, Run(u)  PROVE anchor' \in [Users -> Users \cup {0}]
    BY <1>0, <1>2 DEF Run, Receive, Fetch, FetchAccept, AcceptCache, Send, AcceptLocal, Confirm, Return, client
<1>3. ASSUME NEW u \in Users, Publish(u) \/ JoinShared(u) \/ ReconnectConn(u)
      PROVE  anchor' \in [Users -> Users \cup {0}]
  <2>1. \/ anchor' = anchor \/ anchor' = [anchor EXCEPT ![u] = u]
        \/ anchor' = [anchor EXCEPT ![u] = host]
      BY <1>3 DEF Publish, JoinShared, ReconnectConn
  <2> QED  BY <1>0, <2>1
<1>4. CASE Misfortune
    BY <1>0, <1>4 DEF Misfortune, Crash, Lag, Limited, Migrate, LoseConn, ExpireParts, FetchTimeout, Retry, client
<1>5. CASE UNCHANGED manifestVars  BY <1>0, <1>5 DEF manifestVars, client
<1> QED  BY <1>1, <1>2, <1>3, <1>4, <1>5 DEF Step, ManifestsNext, Work, Input

\* A member's cache, and what it is about to accept.
LEMMA AcceptKeeps ==
    ASSUME RoomInv, WireInv, FetchInv, TaskInv, AcceptInv, stored \subseteq stored', Step
    PROVE  AcceptInv'
<1> DEFINE Types == /\ version' \in [Users -> Nat] /\ overlap' \in [Users -> BOOLEAN]
                    /\ cached' \in [Users -> Manifest \cup {NoItem}]
                    /\ accept' \in [Users -> [Tasks -> Manifest \cup {NoItem}]]
           Vouch == /\ \A x \in Users : Vouched(cached'[x])
                    /\ \A x \in Users, y \in Tasks : Vouched(accept'[x][y])
<1>k. ASSUME Types, Vouch  PROVE AcceptInv'
  <2>1. \A x \in Users : Vouched(cached[x])' /\ \A t \in Tasks : Vouched(accept[x][t])'
      BY <1>k DEF Vouched, Known
  <2> QED  BY <1>k, <2>1, AnchorKeeps DEF AcceptInv
<1>v. ASSUME NEW u \in Users, NEW t \in Tasks, NEW m \in Manifest, NEW v \in Nat, Vouched(m),
             AcceptVersion(u, t, m, v), cached' = cached
      PROVE  AcceptInv'
  <2>1. Types /\ Vouch  BY <1>v, VersionKeepsTypes DEF AcceptInv
  <2> QED  BY <1>k, <2>1
<1>s. ASSUME UNCHANGED <<version, accept, overlap, cached>>  PROVE AcceptInv'
  <2>1. Types /\ Vouch  BY <1>s DEF AcceptInv
  <2> QED  BY <1>k, <2>1
<1>p. \A v, m : Published(v, m) => Vouched(m)
    BY DEF Published, Vouched, Known
<1>t. "inbound" \in Tasks /\ "fetch" \in Tasks /\ Slots \subseteq Tasks  BY DEF Tasks, Slots
<1> HIDE DEF Types, Vouch
<1>1. ASSUME NEW u \in Users, Receive(u)  PROVE AcceptInv'
  <2>1. cached' = cached  BY <1>1 DEF Receive
  <2> QED  BY <1>1, <1>v, <1>s, <1>p, <1>t, <2>1, Offers
<1>2. ASSUME NEW u \in Users, FetchAccept(u)  PROVE AcceptInv'
  <2>1. cached' = cached  BY <1>2 DEF FetchAccept
  <2> QED  BY <1>2, <1>v, <1>p, <1>t, <2>1, Offers
<1>3. ASSUME NEW u \in Users, NEW s \in Slots, AcceptLocal(u, s)  PROVE AcceptInv'
  <2>1. cached' = cached  BY <1>3 DEF AcceptLocal
  <2>2. PICK m \in Manifest : m.of = 1 /\ AcceptVersion(u, s, m, 1)  BY <1>3, Offers
  <2>3. Vouched(m) /\ 1 \in Nat /\ s \in Tasks  BY <1>t, <2>2 DEF Vouched
  <2> QED  BY <1>v, <2>1, <2>2, <2>3
<1>4. ASSUME NEW u \in Users, NEW t \in Tasks, AcceptCache(u, t)  PROVE AcceptInv'
  <2>1. /\ cached' = [cached EXCEPT ![u] = accept[u][t]]
        /\ accept' = [accept EXCEPT ![u][t] = NoItem] /\ UNCHANGED <<version, overlap>>
      BY <1>4 DEF AcceptCache
  <2>2. Vouched(NoItem) /\ Vouched(accept[u][t])  BY DEF Vouched, AcceptInv
  <2>3. Types  BY <2>1 DEF AcceptInv, Types
  <2>4. \A x \in Users : cached'[x] = accept[u][t] \/ cached'[x] = cached[x]
      BY <2>1 DEF AcceptInv
  <2>5. \A x \in Users, y \in Tasks : accept'[x][y] = NoItem \/ accept'[x][y] = accept[x][y]
      BY <2>1 DEF AcceptInv
  <2>6. Vouch  BY <2>2, <2>4, <2>5 DEF AcceptInv, Vouch
  <2> QED  BY <1>k, <2>3, <2>6
<1> QED  BY <1>1, <1>2, <1>3, <1>4, <1>s, AcceptStill

-----------------------------------------------------------------------------
(* Manifests: the order of what is accepted.                                  *)

OrderOf(u) == /\ anchor[u] # u => Watches(u)
              /\ conns[u] = 0 => Absent(u)

\* Functions over the users, all that OrderOf reads.
Shapes ==
    /\ session \in [Users -> Nat] /\ conns \in [Users -> Nat] /\ version \in [Users -> Nat]
    /\ fetch \in [Users -> Fetches] /\ anchor \in [Users -> Users \cup {0}]
    /\ cached \in [Users -> Manifest \cup {NoItem}] /\ overlap \in [Users -> BOOLEAN]
    /\ accept \in [Users -> [Tasks -> Manifest \cup {NoItem}]]
    /\ task \in [Users -> [Slots -> PublishTasks]]

\* A step that is not u's.
Still(u) ==
    /\ session'[u] \in {session[u], 0} /\ conns'[u] = conns[u] /\ fetch'[u] = fetch[u]
    /\ task'[u] = task[u] /\ anchor'[u] = anchor[u]
    /\ version'[u] = version[u] /\ cached'[u] = cached[u]
    /\ accept'[u] = accept[u] /\ overlap'[u] = overlap[u]

\* A member that nothing reaches keeps its place in the order.
LEMMA StillKeeps ==
    ASSUME NEW u \in Users, OrderOf(u), Still(u), stored \subseteq stored'
    PROVE  OrderOf(u)'
<1>1. anchor[u] # u => Watches(u)'
  <2> SUFFICES ASSUME anchor[u] # u  PROVE Watches(u)'  OBVIOUS
  <2>1. Watches(u)  BY DEF OrderOf
  <2>2. \A s \in Slots : task'[u][s] = NoTask  BY <2>1 DEF Watches, Still
  <2>3. ASSUME ~overlap[u]
        PROVE  /\ \A s, t \in Tasks : accept'[u][s] # NoItem /\ accept'[u][t] # NoItem => s = t
               /\ \A t \in Tasks : accept'[u][t] # NoItem => Published(version[u], accept[u][t])
               /\ cached'[u] # NoItem => \E r \in stored : r.m = cached[u] /\ r.v <= version[u]
      BY <2>1, <2>3 DEF Watches, Still
  <2> QED  BY <2>2, <2>3 DEF Watches, Still, Published
<1>2. conns[u] = 0 => Absent(u)'  BY DEF OrderOf, Absent, Still
<1> QED  BY <1>1, <1>2 DEF OrderOf, Still

\* Whose step it is: everybody else is left alone.
LEMMA OthersStill ==
    ASSUME Shapes, NEW x \in Users,
           \/ Receive(x) \/ Fetch(x) \/ FetchAccept(x) \/ FetchTimeout(x)
           \/ \E t \in Tasks : AcceptCache(x, t)
           \/ \E s \in Slots : Send(x, s) \/ AcceptLocal(x, s) \/ Confirm(x, s) \/ Return(x, s) \/ Retry(x, s)
           \/ Publish(x) \/ JoinShared(x) \/ ReconnectConn(x) \/ LoseConn(x),
           NEW u \in Users, u # x
    PROVE  Still(u)
<1>v. ASSUME NEW t, NEW m, NEW v, AcceptVersion(x, t, m, v)
      PROVE  version'[u] = version[u] /\ accept'[u] = accept[u] /\ overlap'[u] = overlap[u]
    BY <1>v DEF AcceptVersion, Shapes
<1>1. CASE Receive(x)
  <2>1. version'[u] = version[u] /\ accept'[u] = accept[u] /\ overlap'[u] = overlap[u]
      BY <1>1, <1>v DEF Receive
  <2>2. fetch'[u] = fetch[u]  BY <1>1 DEF Receive, Shapes
  <2> QED  BY <1>1, <2>1, <2>2 DEF Receive, Still, publish
<1>2. CASE Fetch(x)  BY <1>2 DEF Fetch, Still, Shapes, publish
<1>3. CASE FetchAccept(x)
  <2>1. version'[u] = version[u] /\ accept'[u] = accept[u] /\ overlap'[u] = overlap[u]
      BY <1>3, <1>v DEF FetchAccept
  <2> QED  BY <1>3, <2>1 DEF FetchAccept, Still, Shapes, wire, publish
<1>4. CASE FetchTimeout(x)  BY <1>4 DEF FetchTimeout, Still, Shapes, publish
<1>5. CASE \E t \in Tasks : AcceptCache(x, t)  BY <1>5 DEF AcceptCache, Still, Shapes, wire, publish
<1>6. ASSUME NEW s \in Slots, Send(x, s)  PROVE Still(u)
  <2>1. task'[u] = task[u]  BY <1>6 DEF Send, Shapes
  <2> QED  BY <1>6, <2>1 DEF Send, Still, client
<1>7. ASSUME NEW s \in Slots, AcceptLocal(x, s)  PROVE Still(u)
  <2>1. version'[u] = version[u] /\ accept'[u] = accept[u] /\ overlap'[u] = overlap[u]
      BY <1>7, <1>v DEF AcceptLocal
  <2>2. task'[u] = task[u]  BY <1>7 DEF AcceptLocal, Shapes
  <2> QED  BY <1>7, <2>1, <2>2 DEF AcceptLocal, Still, wire
<1>8. ASSUME NEW s \in Slots, Confirm(x, s) \/ Return(x, s) \/ Retry(x, s)  PROVE Still(u)
  <2>1. task'[u] = task[u]  BY <1>8 DEF Confirm, Return, Retry, Shapes
  <2> QED  BY <1>8, <2>1 DEF Confirm, Return, Retry, Still, wire, client
<1>9. CASE Publish(x)
  <2>1. task'[u] = task[u]  BY <1>9 DEF Publish, Build, Shapes
  <2>2. anchor'[u] = anchor[u]  BY <1>9 DEF Publish, Shapes
  <2> QED  BY <1>9, <2>1, <2>2 DEF Publish, Still, wire
<1>10. CASE JoinShared(x)
    BY <1>10 DEF JoinShared, NewConn, Still, Shapes, publish
<1>11. CASE ReconnectConn(x)
  <2>1. task'[u] = task[u] /\ anchor'[u] = anchor[u]  BY <1>11 DEF ReconnectConn, Shapes
  <2>2. session'[u] = session[u] /\ conns'[u] = conns[u]
    <3>1. NewConn(x)  BY <1>11 DEF ReconnectConn
    <3> QED  BY <3>1 DEF NewConn, Shapes
  <2> QED  BY <1>11, <2>1, <2>2 DEF ReconnectConn, Still
<1>12. CASE LoseConn(x)  BY <1>12 DEF LoseConn, Still, Shapes, client, publish
<1> QED  BY <1>1, <1>2, <1>3, <1>4, <1>5, <1>6, <1>7, <1>8, <1>9, <1>10, <1>11, <1>12

\* The rest of the steps move nothing of anybody's but drop connections.
LEMMA AllStill ==
    ASSUME Shapes, Step,
           \/ RoomServes \/ Crash \/ UNCHANGED manifestVars
           \/ \E x \in Users : Lag(x) \/ Limited(x) \/ Migrate(x) \/ ExpireParts(x),
           NEW u \in Users
    PROVE  Still(u)
<1>1. CASE RoomServes
    BY <1>1 DEF RoomServes, Announce, ServePublish, ServeFetch, Still, client, publish
<1>2. CASE Crash  BY <1>2 DEF Crash, Still, client, publish, Shapes
<1>3. CASE UNCHANGED manifestVars  BY <1>3 DEF manifestVars, wire, client, publish, Still
<1>4. ASSUME NEW x \in Users, Lag(x) \/ Limited(x) \/ Migrate(x) \/ ExpireParts(x)  PROVE Still(u)
    BY <1>4 DEF Lag, Limited, Migrate, ExpireParts, Still, wire, client, publish
<1> QED  BY <1>1, <1>2, <1>3, <1>4

\* A published manifest passes the stale guard of one that trusts another.
LEMMA VersionOrders ==
    ASSUME Shapes, stored \subseteq Versioned, stored \subseteq stored', NEW u \in Users, OrderOf(u),
           NEW t \in Tasks, NEW m \in Manifest, NEW v \in Nat, Published(v, m), AcceptVersion(u, t, m, v),
           anchor[u] # u, cached'[u] = cached[u], task'[u] = task[u]
    PROVE  Watches(u)'
<1>1. Watches(u)  BY DEF OrderOf
<1>2. \A s \in Slots : task'[u][s] = NoTask  BY <1>1 DEF Watches
<1>3. CASE Anchored(u, m) /\ v >= version[u]
  <2>1. /\ version' = [version EXCEPT ![u] = v] /\ accept' = [accept EXCEPT ![u][t] = m]
        /\ overlap' = [overlap EXCEPT ![u] = @ \/ \E o \in Tasks : accept[u][o] # NoItem]
      BY <1>3 DEF AcceptVersion
  <2>2. version'[u] = v /\ accept'[u][t] = m /\ \A o \in Tasks \ {t} : accept'[u][o] = accept[u][o]
      BY <2>1 DEF Shapes
  <2>3. SUFFICES ASSUME ~overlap'[u]
                 PROVE  /\ \A o, p \in Tasks : accept'[u][o] # NoItem /\ accept'[u][p] # NoItem => o = p
                        /\ \A o \in Tasks : accept'[u][o] # NoItem => Published(version[u], accept[u][o])'
                        /\ cached'[u] # NoItem => \E r \in stored' : r.m = cached'[u] /\ r.v <= version'[u]
      BY <1>2 DEF Watches
  <2>4. ~overlap[u] /\ \A o \in Tasks : accept[u][o] = NoItem
    <3> DEFINE b == overlap[u] \/ \E o \in Tasks : accept[u][o] # NoItem
    <3>1. overlap'[u] = b  BY <2>1 DEF Shapes
    <3> QED  BY <2>3, <3>1
  <2>5. \A o \in Tasks : accept'[u][o] # NoItem => o = t  BY <2>2, <2>4
  <2>6. \A o \in Tasks : accept'[u][o] # NoItem => Published(version[u], accept[u][o])'
      BY <2>2, <2>5 DEF Published
  <2>7. ASSUME cached'[u] # NoItem
        PROVE  \E r \in stored' : r.m = cached'[u] /\ r.v <= version'[u]
    <3>1. PICK r \in stored : r.m = cached[u] /\ r.v <= version[u]  BY <1>1, <2>4, <2>7 DEF Watches
    <3>2. r.v \in Nat /\ version[u] \in Nat  BY DEF Versioned, Shapes
    <3>3. r.v <= v  BY <1>3, <3>1, <3>2
    <3> QED  BY <2>2, <3>1, <3>3
  <2> QED  BY <2>5, <2>6, <2>7
<1>4. CASE ~(Anchored(u, m) /\ v >= version[u])
  <2>1. UNCHANGED <<version, accept, overlap>>  BY <1>4 DEF AcceptVersion
  <2> QED  BY <1>1, <1>2, <2>1 DEF Watches, Published
<1> QED  BY <1>3, <1>4

\* A step of u's own.
LEMMA OwnOrder ==
    ASSUME Shapes, WireInv, FetchInv, TaskInv, stored \subseteq Versioned, stored \subseteq stored',
           NEW u \in Users, OrderOf(u),
           \/ Receive(u) \/ Fetch(u) \/ FetchAccept(u) \/ FetchTimeout(u)
           \/ \E t \in Tasks : AcceptCache(u, t)
           \/ \E s \in Slots : Send(u, s) \/ AcceptLocal(u, s) \/ Confirm(u, s) \/ Return(u, s) \/ Retry(u, s)
           \/ Publish(u) \/ JoinShared(u) \/ ReconnectConn(u) \/ LoseConn(u)
    PROVE  OrderOf(u)'
<1>a. conns[u] = 0 => Absent(u)  BY DEF OrderOf
<1>1. CASE Receive(u)
  <2>1. /\ session[u] # 0 /\ UNCHANGED <<anchor, cached, conns, task>>
      BY <1>1 DEF Receive, publish
  <2>2. conns'[u] # 0  BY <1>a, <2>1 DEF Absent
  <2>3. anchor[u] # u => Watches(u)'
    <3>1. CASE UNCHANGED <<version, accept, overlap>>
        BY <2>1, <3>1 DEF OrderOf, Watches, Published
    <3>2. ASSUME NEW m \in Manifest, NEW v \in Nat, Published(v, m), AcceptVersion(u, "inbound", m, v),
                 anchor[u] # u
          PROVE  Watches(u)'
      <4>1. "inbound" \in Tasks  BY DEF Tasks
      <4> QED  BY <2>1, <3>2, <4>1, VersionOrders
    <3> QED  BY <1>1, <3>1, <3>2, Offers
  <2> QED  BY <2>1, <2>2, <2>3 DEF OrderOf
<1>2. CASE Fetch(u) \/ FetchTimeout(u)
  <2>1. fetch[u].st \in {"todo", "waiting"} /\ UNCHANGED <<anchor, conns, version, cached, accept, overlap, task>>
      BY <1>2 DEF Fetch, FetchTimeout, publish
  <2>2. conns'[u] # 0  BY <1>a, <2>1 DEF Absent
  <2> QED  BY <2>1, <2>2 DEF OrderOf, Watches, Published
<1>3. CASE FetchAccept(u)
  <2>1. fetch[u].st = "got" /\ UNCHANGED <<anchor, cached, conns, task>>  BY <1>3 DEF FetchAccept, wire, publish
  <2>2. conns'[u] # 0  BY <1>a, <2>1 DEF Absent
  <2>3. PICK m \in Manifest, v \in Nat : Published(v, m) /\ AcceptVersion(u, "fetch", m, v)
      BY <1>3, Offers
  <2>4. "fetch" \in Tasks  BY DEF Tasks
  <2>5. anchor[u] # u => Watches(u)'  BY <2>1, <2>3, <2>4, VersionOrders
  <2> QED  BY <2>1, <2>2, <2>5 DEF OrderOf
<1>4. ASSUME NEW t \in Tasks, AcceptCache(u, t)  PROVE OrderOf(u)'
  <2>1. /\ accept[u][t] # NoItem /\ cached' = [cached EXCEPT ![u] = accept[u][t]]
        /\ accept' = [accept EXCEPT ![u][t] = NoItem]
        /\ UNCHANGED <<anchor, version, overlap, conns, task, stored>>
      BY <1>4 DEF AcceptCache, roomVars, wire, publish
  <2>2. conns'[u] # 0  BY <1>a, <2>1 DEF Absent
  <2>3. ASSUME anchor[u] # u  PROVE Watches(u)'
    <3>1. Watches(u)  BY <2>3 DEF OrderOf
    <3>2. \A s \in Slots : task'[u][s] = NoTask  BY <2>1, <3>1 DEF Watches
    <3>3. accept'[u][t] = NoItem /\ \A o \in Tasks : o # t => accept'[u][o] = accept[u][o]
        BY <2>1 DEF Shapes
    <3>4. cached'[u] = accept[u][t]  BY <2>1 DEF Shapes
    <3>5. ASSUME ~overlap[u]
          PROVE  /\ \A o \in Tasks : accept'[u][o] = NoItem
                 /\ \E r \in stored : r.m = cached'[u] /\ r.v <= version[u]
      <4>1. \A o \in Tasks : accept[u][o] # NoItem => o = t  BY <2>1, <3>1, <3>5 DEF Watches
      <4>2. Published(version[u], accept[u][t])  BY <2>1, <3>1, <3>5 DEF Watches
      <4>3. version[u] \in Nat  BY DEF Shapes
      <4> DEFINE r == [v |-> version[u], m |-> accept[u][t]]
      <4>4. r \in stored /\ r.v <= version[u] /\ r.m = accept[u][t]  BY <4>2, <4>3 DEF Published
      <4> HIDE DEF r
      <4> QED  BY <3>3, <3>4, <4>1, <4>4
    <3> QED  BY <2>1, <3>2, <3>5 DEF Watches
  <2> QED  BY <2>1, <2>2, <2>3 DEF OrderOf
<1>5. ASSUME NEW s \in Slots,
             Send(u, s) \/ AcceptLocal(u, s) \/ Confirm(u, s) \/ Return(u, s) \/ Retry(u, s)
      PROVE  OrderOf(u)'
  <2>0. task[u][s].st # "idle"  BY <1>5 DEF Send, AcceptLocal, Confirm, Return, Retry
  <2>1. task[u][s] # NoTask /\ UNCHANGED <<anchor, conns>>
    <3>1. UNCHANGED <<anchor, conns>>
        BY <1>5 DEF Send, AcceptLocal, Confirm, Return, Retry, wire, client
    <3> QED  BY <2>0, <3>1 DEF NoTask
  <2>2. anchor[u] = u  BY <2>1 DEF OrderOf, Watches
  <2>3. conns[u] # 0  BY <1>a, <2>1 DEF Absent
  <2> QED  BY <2>1, <2>2, <2>3 DEF OrderOf
<1>6. CASE Publish(u)
  <2>1. conns[u] \in Nat /\ conns[u] > 0 /\ conns' = conns /\ anchor' = [anchor EXCEPT ![u] = u]
      BY <1>6 DEF Publish, wire, Shapes
  <2>2. anchor'[u] = u /\ conns'[u] # 0  BY <2>1 DEF Shapes
  <2> QED  BY <2>2 DEF OrderOf
<1>7. CASE JoinShared(u)
  <2>1. conns[u] = 0 /\ conns' = [conns EXCEPT ![u] = @ + 1]
        /\ UNCHANGED <<version, cached, accept, overlap, task>>
      BY <1>7 DEF JoinShared, NewConn, publish
  <2>2. conns'[u] # 0  BY <2>1 DEF Shapes
  <2>3. Absent(u)  BY <1>a, <2>1
  <2>4. Watches(u)'  BY <2>1, <2>3 DEF Absent, Watches
  <2> QED  BY <2>2, <2>4 DEF OrderOf
<1>8. CASE ReconnectConn(u)
  <2>1. conns[u] \in Nat /\ conns' = [conns EXCEPT ![u] = @ + 1] /\ UNCHANGED <<version, cached, accept, overlap>>
      BY <1>8 DEF ReconnectConn, NewConn, Shapes
  <2>2. conns'[u] # 0  BY <2>1 DEF Shapes
  <2>3. CASE host = u /\ selected[u]
    <3>1. anchor'[u] = u  BY <1>8, <2>3 DEF ReconnectConn, Shapes
    <3> QED  BY <2>2, <3>1 DEF OrderOf
  <2>4. CASE ~(host = u /\ selected[u])
    <3>1. task' = task /\ anchor' = anchor  BY <1>8, <2>4 DEF ReconnectConn
    <3>2. anchor[u] # u => Watches(u)'  BY <2>1, <3>1 DEF OrderOf, Watches, Published
    <3> QED  BY <2>2, <3>1, <3>2 DEF OrderOf
  <2> QED  BY <2>3, <2>4
<1>9. CASE LoseConn(u)
  <2>1. Still(u)  BY <1>9 DEF LoseConn, Still, Shapes, client, publish
  <2> QED  BY <2>1, StillKeeps
<1> QED  BY <1>1, <1>2, <1>3, <1>4, <1>5, <1>6, <1>7, <1>8, <1>9

\* Every frame under way is above what its receiver has taken from the table.
LEMMA OrderKeeps ==
    ASSUME ManifestsInv, stored \subseteq stored', Step
    PROVE  OrderInv'
<1>0. /\ RoomInv /\ WireInv /\ FetchInv /\ TaskInv /\ stored \subseteq Versioned /\ \A u \in Users : OrderOf(u)
    BY DEF ManifestsInv, OrderInv, OrderOf, RoomInv
<1>1. Shapes  BY DEF ManifestsInv, WireInv, FetchInv, TaskInv, AcceptInv, Shapes
<1>2. ASSUME NEW u \in Users  PROVE OrderOf(u)'
  <2>1. CASE \/ RoomServes \/ Crash \/ UNCHANGED manifestVars
             \/ \E x \in Users : Lag(x) \/ Limited(x) \/ Migrate(x) \/ ExpireParts(x)
      BY <1>0, <1>1, <2>1, AllStill, StillKeeps
  <2>2. ASSUME NEW x \in Users,
               \/ Receive(x) \/ Fetch(x) \/ FetchAccept(x) \/ FetchTimeout(x)
               \/ \E t \in Tasks : AcceptCache(x, t)
               \/ \E s \in Slots : Send(x, s) \/ AcceptLocal(x, s) \/ Confirm(x, s) \/ Return(x, s) \/ Retry(x, s)
               \/ Publish(x) \/ JoinShared(x) \/ ReconnectConn(x) \/ LoseConn(x)
        PROVE  OrderOf(u)'
    <3>1. CASE u = x  BY <1>0, <1>1, <2>2, <3>1, OwnOrder
    <3>2. CASE u # x  BY <1>0, <1>1, <2>2, <3>2, OthersStill, StillKeeps
    <3> QED  BY <3>1, <3>2
  <2> QED  BY <2>1, <2>2 DEF Step, ManifestsNext, Work, Run, Input, Misfortune
<1> QED  BY <1>2 DEF OrderInv, OrderOf

-----------------------------------------------------------------------------
(* Manifests: the theorems.                                                   *)

LEMMA NoFrames == << >> \in Seq(RoomFrames) /\ << >> \in Seq(MemberFrames)
OBVIOUS

LEMMA ManifestsBegin == ManifestsInit => ManifestsInv
<1> SUFFICES ASSUME ManifestsInit  PROVE ManifestsInv  OBVIOUS
<1>1. RoomInv  BY ManifestsAssumption DEF ManifestsInit, ManifestsAssumption, RoomInv
<1>2. WireInv  BY NoFrames DEF ManifestsInit, WireInv
<1>3. \A u \in Users : fetch[u] \in Fetches /\ fetch[u].st # "got"  BY DEF ManifestsInit, Fetches
<1>4. FetchInv
  <2>1. fetch \in [Users -> Fetches]  BY <1>3 DEF ManifestsInit
  <2> QED  BY <1>3, <2>1 DEF FetchInv
<1>5. TaskInv  BY NoTaskSound DEF ManifestsInit, TaskInv
<1>6. AcceptInv  BY DEF ManifestsInit, AcceptInv, Vouched
<1>7. OrderInv
  <2> SUFFICES ASSUME NEW u \in Users
               PROVE  (anchor[u] # u => Watches(u)) /\ (conns[u] = 0 => Absent(u))
      BY DEF OrderInv
  <2>1. /\ \A s \in Slots : task[u][s] = NoTask
        /\ \A t \in Tasks : accept[u][t] = NoItem
        /\ cached[u] = NoItem
      BY DEF ManifestsInit
  <2>2. conns[u] = 0 => session[u] = 0 /\ fetch[u].st = "away"
    <3>1. conns[u] = (IF u = FirstHost THEN 1 ELSE 0) /\ session[u] = conns[u]  BY DEF ManifestsInit
    <3>2. u # FirstHost => fetch[u].st = "away"  BY DEF ManifestsInit
    <3> QED  BY <3>1, <3>2
  <2> QED  BY <2>1, <2>2 DEF Watches, Absent
<1> QED  BY <1>1, <1>2, <1>4, <1>5, <1>6, <1>7 DEF ManifestsInv

\* ManifestsInv is an invariant of the room's manifests.
THEOREM ManifestsInvariant == ManifestsSpec => []ManifestsInv
<1>1. ManifestsInv /\ [ManifestsNext]_manifestVars => ManifestsInv'
  <2> SUFFICES ASSUME ManifestsInv, Step  PROVE ManifestsInv'  BY DEF Step
  <2>1. RoomInv /\ WireInv /\ FetchInv /\ TaskInv /\ AcceptInv  BY DEF ManifestsInv
  <2>2. RoomInv' /\ stored \subseteq stored'  BY <2>1, RoomKeeps
  <2>3. WireInv'  BY <2>1, WireKeeps
  <2>4. FetchInv'  BY <2>1, <2>2, FetchKeeps
  <2>5. TaskInv'  BY <2>1, <2>2, TaskKeeps
  <2>6. AcceptInv'  BY <2>1, <2>2, AcceptKeeps
  <2>7. OrderInv'  BY <2>2, OrderKeeps
  <2> QED  BY <2>2, <2>3, <2>4, <2>5, <2>6, <2>7 DEF ManifestsInv
<1> QED  BY <1>1, ManifestsBegin, PTL DEF ManifestsSpec

\* A publish of several frames that returns success is in the server's table:
\* the signature it waited for reached the publisher's cache only from there.
THEOREM ConfirmedMeansStored == ManifestsSpec => []ConfirmedIsStored
<1>1. ManifestsInv => ConfirmedIsStored
    BY DEF ManifestsInv, TaskInv, Sound, Known, ConfirmedIsStored
<1> QED  BY <1>1, ManifestsInvariant, PTL

\* A version names one manifest of the table, whatever crashes and host changes
\* come between two publishes: the next version is above all that were given out.
VersionsUnique == \A x, y \in stored : x.v = y.v => x = y
THEOREM VersionNamesOne == ManifestsSpec => []VersionsUnique
<1>1. ManifestsInv => VersionsUnique  BY DEF ManifestsInv, RoomInv, VersionsUnique
<1> QED  BY <1>1, ManifestsInvariant, PTL

\* What one that trusts another caches next is newer than what it has cached.
LEMMA CachesNewer ==
    ASSUME ManifestsInv, Step, NEW u \in Users, cached[u] # NoItem, cached'[u] # cached[u],
           anchor[u] # u, ~overlap[u]
    PROVE  \E a \in VersionsOf(cached[u]), b \in VersionsOf(cached'[u]) : a < b
<1>0. RoomInv /\ WireInv /\ FetchInv /\ TaskInv /\ AcceptInv /\ Watches(u)  BY DEF ManifestsInv, OrderInv
<1>1. PICK t \in Tasks : AcceptCache(u, t)
  <2>1. ~UNCHANGED cached  OBVIOUS
  <2>2. PICK x \in Users : \/ Receive(x) \/ FetchAccept(x)
                           \/ \E s \in Slots : AcceptLocal(x, s)
                           \/ \E t \in Tasks : AcceptCache(x, t)
      BY <2>1, AcceptStill
  <2>3. PICK t \in Tasks : AcceptCache(x, t)
      BY <2>1, <2>2 DEF Receive, FetchAccept, AcceptLocal
  <2>4. x = u  BY <2>3, <1>0 DEF AcceptCache, AcceptInv
  <2> QED  BY <2>3, <2>4
<1>2. accept[u][t] # NoItem /\ cached'[u] = accept[u][t]  BY <1>0, <1>1 DEF AcceptCache, AcceptInv
<1> DEFINE b == [v |-> version[u], m |-> accept[u][t]]
<1>3. b \in stored /\ b.v = version[u] /\ b.m = cached'[u]  BY <1>0, <1>2 DEF Watches, Published
<1>4. PICK a \in stored : a.m = cached[u] /\ a.v <= version[u]  BY <1>0 DEF Watches
<1> HIDE DEF b
<1>5. a # b /\ a.v \in Nat /\ b.v \in Nat  BY <1>0, <1>3, <1>4 DEF RoomInv, Versioned
<1>6. a.v # b.v  BY <1>0, <1>3, <1>4, <1>5 DEF RoomInv
<1>7. a.v < b.v  BY <1>3, <1>4, <1>5, <1>6
<1>8. a.v \in VersionsOf(cached[u])  BY <1>4 DEF VersionsOf
<1>9. b.v \in VersionsOf(cached'[u])
    BY <1>3 DEF VersionsOf
<1> QED  BY <1>7, <1>8, <1>9

\* A member that publishes nothing itself never goes back to an older manifest,
\* in whatever order the broadcasts and its fetch's answer arrive.
THEOREM NeverDowngraded == ManifestsSpec => NoDowngrade
<1>1. ManifestsInv /\ [ManifestsNext]_manifestVars
        => [\A u \in Users :
              (cached[u] # NoItem /\ cached'[u] # cached[u] /\ anchor[u] # u /\ ~overlap[u])
                => \E a \in VersionsOf(cached[u]), b \in VersionsOf(cached'[u]) : a < b]_manifestVars
    BY CachesNewer DEF Step
<1> QED  BY <1>1, ManifestsInvariant, PTL DEF ManifestsSpec, NoDowngrade

-----------------------------------------------------------------------------
(* Manifests: the broadcasts on their way to one member.                      *)

IsPublished(f) == f.kind = "published"
Before(f, g) == f.v < g.v \/ (f.v = g.v /\ f.i < g.i)

\* They are in their order.
Sorted(q) == \A j, k \in DOMAIN q :
                 j < k /\ IsPublished(q[j]) /\ IsPublished(q[k]) => Before(q[j], q[k])
\* Version v, which takes n frames, is on its way from frame i on; once it has
\* begun to arrive nothing older is.
From(q, v, n, i) ==
    /\ \A k \in DOMAIN q : IsPublished(q[k]) => (i > 0 => q[k].v = v) /\ (q[k].v = v => q[k].i >= i)
    /\ \A j \in i .. n - 1 : \E k \in DOMAIN q : IsPublished(q[k]) /\ q[k].v = v /\ q[k].i = j

\* Sequences have one length.
LEMMA OneLength ==
    ASSUME NEW k \in Nat, NEW l \in Nat, 1 .. k = 1 .. l
    PROVE  k = l
<1>1. l = 0 \/ l \in 1 .. k  OBVIOUS
<1>2. k = 0 \/ k \in 1 .. l  OBVIOUS
<1> QED  BY <1>1, <1>2

\* p is q with a after its first k elements; q with a after it; q without its
\* k-th element.
Inserted(p, q, n, a, l, k) ==
    /\ DOMAIN q = 1 .. n /\ DOMAIN a = 1 .. l /\ DOMAIN p = 1 .. n + l
    /\ \A j \in 1 .. n + l : p[j] = IF j <= k THEN q[j] ELSE IF j <= k + l THEN a[j - k] ELSE q[j - l]
Extended(p, q, n, a, l) ==
    /\ DOMAIN q = 1 .. n /\ DOMAIN p = 1 .. n + l
    /\ \A j \in 1 .. n + l : p[j] = IF j <= n THEN q[j] ELSE a[j - n]
Cut(p, q, n, k) ==
    /\ DOMAIN q = 1 .. n /\ DOMAIN p = 1 .. n - 1
    /\ \A j \in 1 .. n - 1 : p[j] = IF j < k THEN q[j] ELSE q[j + 1]

\* The first k elements of a sequence, and those after them.
LEMMA Split ==
    ASSUME NEW S, NEW q \in Seq(S), NEW k \in 0 .. Len(q)
    PROVE  /\ SubSeq(q, 1, k) \in Seq(S) /\ Len(SubSeq(q, 1, k)) = k
           /\ \A j \in 1 .. k : SubSeq(q, 1, k)[j] = q[j]
           /\ SubSeq(q, k + 1, Len(q)) \in Seq(S) /\ Len(SubSeq(q, k + 1, Len(q))) = Len(q) - k
           /\ \A j \in 1 .. Len(q) - k : SubSeq(q, k + 1, Len(q))[j] = q[j + k]
<1> DEFINE n == Len(q)
           b == SubSeq(q, 1, k)
           c == SubSeq(q, k + 1, n)
<1>0. n \in Nat /\ k \in 0 .. n /\ k \in Int /\ n \in Int /\ k + 1 \in Int  BY LenProperties
<1>1. \A j \in 1 .. n : q[j] \in S  BY ElementOfSeq
<1>2. /\ b \in Seq(S) /\ Len(b) = IF 1 <= k THEN k - 1 + 1 ELSE 0
      /\ \A j \in 1 .. k - 1 + 1 : b[j] = q[1 + j - 1]
  <2>1. \A j \in 1 .. k : q[j] \in S  BY <1>0, <1>1
  <2> QED  BY <1>0, <2>1, SubSeqProperties
<1>3. /\ c \in Seq(S) /\ Len(c) = IF k + 1 <= n THEN n - (k + 1) + 1 ELSE 0
      /\ \A j \in 1 .. n - (k + 1) + 1 : c[j] = q[(k + 1) + j - 1]
  <2>1. \A j \in k + 1 .. n : q[j] \in S  BY <1>0, <1>1
  <2> QED  BY <1>0, <2>1, SubSeqProperties
<1> HIDE DEF n, b, c
<1>4. Len(b) = k /\ k - 1 + 1 = k  BY <1>0, <1>2
<1>5. Len(c) = n - k /\ n - (k + 1) + 1 = n - k  BY <1>0, <1>3
<1>6. \A j \in 1 .. k : b[j] = q[j]
  <2> TAKE j \in 1 .. k
  <2>1. 1 + j - 1 = j /\ b[j] = q[1 + j - 1]  BY <1>2, <1>4
  <2> QED  BY <2>1
<1>7. \A j \in 1 .. n - k : c[j] = q[j + k]
  <2> TAKE j \in 1 .. n - k
  <2>1. (k + 1) + j - 1 = j + k  BY <1>0
  <2>2. c[j] = q[(k + 1) + j - 1]  BY <1>3, <1>5
  <2> QED  BY <2>1, <2>2
<1> QED  BY <1>2, <1>3, <1>4, <1>5, <1>6, <1>7 DEF n, b, c

\* An answer goes out between two of the broadcasts.
LEMMA Spliced ==
    ASSUME NEW S, NEW q \in Seq(S), NEW a \in Seq(S), NEW k \in 0 .. Len(q), NEW p,
           p = SubSeq(q, 1, k) \o a \o SubSeq(q, k + 1, Len(q))
    PROVE  p \in Seq(S) /\ Inserted(p, q, Len(q), a, Len(a), k)
<1> DEFINE n == Len(q)
           l == Len(a)
           b == SubSeq(q, 1, k)
           c == SubSeq(q, k + 1, n)
           d == b \o a
<1>0. n \in Nat /\ l \in Nat /\ k \in 0 .. n /\ DOMAIN q = 1 .. n /\ DOMAIN a = 1 .. l  BY LenProperties
<1>1. /\ b \in Seq(S) /\ Len(b) = k /\ \A j \in 1 .. k : b[j] = q[j]
      /\ c \in Seq(S) /\ Len(c) = n - k /\ \A j \in 1 .. n - k : c[j] = q[j + k]
    BY Split
<1> HIDE DEF n, b, c
<1>b. b \in Seq(S) /\ c \in Seq(S)  BY <1>1
<1>2. d \in Seq(S) /\ Len(d) = Len(b) + l
      /\ \A j \in 1 .. Len(b) + l : d[j] = IF j <= Len(b) THEN b[j] ELSE a[j - Len(b)]
    BY <1>b, ConcatProperties, Zenon
<1>3. p = d \o c  BY DEF b, c, n
<1> HIDE DEF d, l
<1>4. p \in Seq(S) /\ Len(p) = Len(d) + Len(c)
      /\ \A j \in 1 .. Len(d) + Len(c) : p[j] = IF j <= Len(d) THEN d[j] ELSE c[j - Len(d)]
  <2>1. d \in Seq(S)  BY <1>2
  <2> QED  BY <1>b, <1>3, <2>1, ConcatProperties, Zenon
<1>5. Len(d) = k + l /\ Len(d) + Len(c) = n + l  BY <1>0, <1>1, <1>2
<1>6. \A j \in 1 .. k + l : d[j] = IF j <= k THEN b[j] ELSE a[j - k]  BY <1>1, <1>2
<1>7. \A j \in 1 .. n + l : p[j] = IF j <= k + l THEN d[j] ELSE c[j - (k + l)]  BY <1>4, <1>5
<1>8. ASSUME NEW j \in 1 .. n + l
      PROVE  p[j] = IF j <= k THEN q[j] ELSE IF j <= k + l THEN a[j - k] ELSE q[j - l]
  <2>0. j \in Int /\ j >= 1 /\ j <= n + l /\ k \in Int /\ k >= 0 /\ k <= n /\ l \in Int /\ n \in Int
      BY <1>0
  <2>1. CASE j <= k
    <3>1. j \in 1 .. k /\ j \in 1 .. k + l /\ j <= k + l  BY <1>0, <2>0, <2>1
    <3>2. p[j] = d[j] /\ d[j] = b[j] /\ b[j] = q[j]  BY <1>1, <1>6, <1>7, <2>1, <3>1
    <3> QED  BY <2>1, <3>2
  <2>2. CASE ~(j <= k) /\ j <= k + l
    <3>1. j \in 1 .. k + l  BY <2>0, <2>2
    <3>2. p[j] = d[j] /\ d[j] = a[j - k]  BY <1>6, <1>7, <2>2, <3>1
    <3> QED  BY <2>2, <3>2
  <2>3. CASE ~(j <= k + l)
    <3> DEFINE g == j - (k + l)
    <3>1. g \in 1 .. n - k /\ g + k = j - l /\ ~(j <= k)  BY <1>0, <2>0, <2>3
    <3>2. p[j] = c[g]  BY <1>7, <2>3
    <3> HIDE DEF g
    <3>3. c[g] = q[g + k]  BY <1>1, <3>1
    <3> QED  BY <2>3, <3>1, <3>2, <3>3
  <2> QED  BY <2>1, <2>2, <2>3
<1>9. DOMAIN p = 1 .. n + l  BY <1>4, <1>5, LenProperties
<1> QED  BY <1>0, <1>4, <1>8, <1>9 DEF n, l, Inserted

\* What is put among the broadcasts leaves them in their order, and on the way.
LEMMA SpliceOrder ==
    ASSUME NEW n \in Nat, NEW l \in Nat, NEW k \in 0 .. n, NEW q, NEW a, NEW p,
           Inserted(p, q, n, a, l, k), \A j \in DOMAIN a : ~IsPublished(a[j])
    PROVE  /\ Sorted(q) => Sorted(p)
           /\ \A v, m, i : From(q, v, m, i) => From(p, v, m, i)
<1> USE DEF Inserted
<1> DEFINE back(j) == IF j <= k THEN j ELSE j - l
           fwd(j) == IF j <= k THEN j ELSE j + l
<1>1. ASSUME NEW j \in DOMAIN p, IsPublished(p[j])
      PROVE  back(j) \in DOMAIN q /\ p[j] = q[back(j)] /\ (j <= k \/ j > k + l)
  <2>1. ~(j > k /\ j <= k + l)
    <3>1. SUFFICES ASSUME j > k, j <= k + l  PROVE FALSE  OBVIOUS
    <3>2. j - k \in DOMAIN a  BY <3>1
    <3>3. p[j] = a[j - k]  BY <3>1
    <3> QED  BY <1>1, <3>2, <3>3
  <2>2. back(j) \in DOMAIN q  BY <2>1
  <2>3. p[j] = q[back(j)]  BY <2>1
  <2> QED  BY <2>1, <2>2, <2>3
<1>2. ASSUME NEW j \in DOMAIN q  PROVE fwd(j) \in DOMAIN p /\ p[fwd(j)] = q[j]
  <2>1. CASE j <= k
    <3>1. j \in 1 .. n + l  OBVIOUS
    <3> QED  BY <2>1, <3>1
  <2>2. CASE ~(j <= k)
    <3>1. j + l \in 1 .. n + l /\ ~(j + l <= k) /\ ~(j + l <= k + l) /\ (j + l) - l = j  BY <2>2
    <3> QED  BY <2>2, <3>1
  <2> QED  BY <2>1, <2>2
<1>3. \A j, g \in DOMAIN p : j < g /\ (j <= k \/ j > k + l) /\ (g <= k \/ g > k + l) => back(j) < back(g)
    OBVIOUS
<1> HIDE DEF back, fwd
<1>4. Sorted(q) => Sorted(p)  BY <1>1, <1>3 DEF Sorted
<1>5. ASSUME NEW v, NEW m, NEW i, From(q, v, m, i)  PROVE From(p, v, m, i)
  <2>1. ASSUME NEW g \in DOMAIN p, IsPublished(p[g])
        PROVE  (i > 0 => p[g].v = v) /\ (p[g].v = v => p[g].i >= i)
    <3>1. back(g) \in DOMAIN q /\ p[g] = q[back(g)]  BY <1>1, <2>1
    <3> QED  BY <1>5, <2>1, <3>1 DEF From
  <2>2. ASSUME NEW j \in i .. m - 1
        PROVE  \E g \in DOMAIN p : IsPublished(p[g]) /\ p[g].v = v /\ p[g].i = j
    <3>1. PICK g \in DOMAIN q : IsPublished(q[g]) /\ q[g].v = v /\ q[g].i = j  BY <1>5 DEF From
    <3> QED  BY <1>2, <3>1
  <2> QED  BY <2>1, <2>2 DEF From
<1> QED  BY <1>4, <1>5

\* One frame is taken from the queue or lost from it.
LEMMA CutOrder ==
    ASSUME NEW n \in Nat, NEW k \in 1 .. n, NEW q, NEW p, Cut(p, q, n, k)
    PROVE  /\ \A j \in DOMAIN p : \E g \in DOMAIN q : p[j] = q[g]
           /\ Sorted(q) => Sorted(p)
           /\ \A v, m, i : From(q, v, m, i) /\ (IsPublished(q[k]) => q[k].v # v) => From(p, v, m, i)
<1> USE DEF Cut
<1> DEFINE back(j) == IF j < k THEN j ELSE j + 1
           fwd(j) == IF j < k THEN j ELSE j - 1
<1>1. ASSUME NEW j \in DOMAIN p  PROVE back(j) \in DOMAIN q /\ p[j] = q[back(j)]
    OBVIOUS
<1>2. ASSUME NEW j \in DOMAIN q, j # k  PROVE fwd(j) \in DOMAIN p /\ p[fwd(j)] = q[j]
  <2>1. fwd(j) \in DOMAIN p /\ back(fwd(j)) = j  BY <1>2
  <2> HIDE DEF back, fwd
  <2> QED  BY <1>1, <2>1
<1>3. \A j, g \in DOMAIN p : j < g => back(j) < back(g)  OBVIOUS
<1> HIDE DEF back, fwd
<1>4. Sorted(q) => Sorted(p)  BY <1>1, <1>3 DEF Sorted
<1>5. ASSUME NEW v, NEW m, NEW i, From(q, v, m, i), IsPublished(q[k]) => q[k].v # v
      PROVE  From(p, v, m, i)
  <2>1. ASSUME NEW g \in DOMAIN p, IsPublished(p[g])
        PROVE  (i > 0 => p[g].v = v) /\ (p[g].v = v => p[g].i >= i)
    <3>1. back(g) \in DOMAIN q /\ p[g] = q[back(g)]  BY <1>1
    <3> QED  BY <1>5, <2>1, <3>1 DEF From
  <2>2. ASSUME NEW j \in i .. m - 1
        PROVE  \E g \in DOMAIN p : IsPublished(p[g]) /\ p[g].v = v /\ p[g].i = j
    <3>1. PICK g \in DOMAIN q : IsPublished(q[g]) /\ q[g].v = v /\ q[g].i = j  BY <1>5 DEF From
    <3>2. g # k  BY <1>5, <3>1
    <3> QED  BY <1>2, <3>1, <3>2
  <2> QED  BY <2>1, <2>2 DEF From
<1> QED  BY <1>1, <1>4, <1>5

\* The head of the queue is a frame of the newest version: the one that is due.
LEMMA HeadIsDue ==
    ASSUME NEW n \in Nat \ {0}, NEW q, NEW p, Cut(p, q, n, 1),
           NEW v \in Nat, NEW m \in Nat, NEW i \in 0 .. m - 1,
           \A j \in 1 .. n : IsPublished(q[j]) => q[j].v \in Nat /\ q[j].i \in Nat /\ q[j].v <= v,
           Sorted(q), From(q, v, m, i), IsPublished(q[1]), q[1].v = v
    PROVE  q[1].i = i /\ From(p, v, m, i + 1)
<1>0. /\ DOMAIN q = 1 .. n /\ DOMAIN p = 1 .. n - 1
      /\ \A j \in 1 .. n - 1 : p[j] = q[j + 1]
    BY DEF Cut
<1>1. PICK k \in DOMAIN q : IsPublished(q[k]) /\ q[k].v = v /\ q[k].i = i  BY DEF From
<1>2. q[1].i \in Nat /\ q[1].i >= i  BY <1>0 DEF From
<1>3. \A g \in 2 .. n : IsPublished(q[g]) => Before(q[1], q[g])
  <2> TAKE g \in 2 .. n
  <2>1. 1 \in DOMAIN q /\ g \in DOMAIN q /\ 1 < g  BY <1>0
  <2> QED  BY <2>1 DEF Sorted
<1>4. q[1].i = i
  <2>1. CASE k = 1  BY <1>1, <2>1
  <2>2. CASE k # 1
    <3>1. Before(q[1], q[k])  BY <1>0, <1>1, <1>3, <2>2
    <3> QED  BY <1>1, <1>2, <3>1 DEF Before
  <2> QED  BY <2>1, <2>2
<1>5. ASSUME NEW g \in DOMAIN p, IsPublished(p[g])
      PROVE  p[g].v = v /\ p[g].i >= i + 1
  <2>1. g + 1 \in 2 .. n /\ p[g] = q[g + 1]  BY <1>0
  <2>2. Before(q[1], p[g])  BY <1>3, <1>5, <2>1
  <2>3. p[g].v \in Nat /\ p[g].i \in Nat /\ p[g].v <= v  BY <1>0, <1>5, <2>1
  <2> QED  BY <1>4, <2>2, <2>3 DEF Before
<1>6. ASSUME NEW j \in i + 1 .. m - 1
      PROVE  \E g \in DOMAIN p : IsPublished(p[g]) /\ p[g].v = v /\ p[g].i = j
  <2>1. PICK g \in DOMAIN q : IsPublished(q[g]) /\ q[g].v = v /\ q[g].i = j  BY DEF From
  <2>2. g # 1  BY <1>4, <2>1
  <2>3. g - 1 \in DOMAIN p /\ p[g - 1] = q[g]  BY <1>0, <2>2
  <2> QED  BY <2>1, <2>3
<1> QED  BY <1>4, <1>5, <1>6 DEF From

\* A new version is broadcast.
LEMMA AppendOrder ==
    ASSUME NEW n \in Nat, NEW l \in Nat, NEW q, NEW a, NEW p, NEW v \in Nat,
           Extended(p, q, n, a, l),
           \A j \in 1 .. l : IsPublished(a[j]) /\ a[j].v = v /\ a[j].i = j - 1,
           \A j \in 1 .. n : IsPublished(q[j]) => q[j].v \in Nat /\ q[j].v < v
    PROVE  (Sorted(q) => Sorted(p)) /\ From(p, v, l, 0)
<1> USE DEF Extended
<1>1. \A j \in 1 .. n : p[j] = q[j]  OBVIOUS
<1>2. ASSUME NEW j \in n + 1 .. n + l
      PROVE  p[j] = a[j - n] /\ IsPublished(p[j]) /\ p[j].v = v /\ p[j].i = j - n - 1
  <2>1. j - n \in 1 .. l /\ p[j] = a[j - n]  OBVIOUS
  <2> QED  BY <2>1
<1>3. ASSUME Sorted(q)  PROVE Sorted(p)
  <2> SUFFICES ASSUME NEW j \in DOMAIN p, NEW k \in DOMAIN p, j < k, IsPublished(p[j]), IsPublished(p[k])
               PROVE  Before(p[j], p[k])
      BY DEF Sorted
  <2>1. CASE k <= n
    <3>1. j \in DOMAIN q /\ k \in DOMAIN q /\ p[j] = q[j] /\ p[k] = q[k]  BY <1>1, <2>1
    <3> QED  BY <1>3, <3>1 DEF Sorted
  <2>2. CASE j <= n /\ k > n
    <3>1. p[j] = q[j] /\ p[j].v < v  BY <1>1, <2>2
    <3>2. p[k].v = v  BY <1>2, <2>2
    <3> QED  BY <3>1, <3>2 DEF Before
  <2>3. CASE j > n
    <3>1. p[j].v = v /\ p[j].i = j - n - 1 /\ p[k].v = v /\ p[k].i = k - n - 1  BY <1>2, <2>3
    <3> QED  BY <3>1 DEF Before
  <2> QED  BY <2>1, <2>2, <2>3
<1>4. ASSUME NEW k \in DOMAIN p, IsPublished(p[k]), p[k].v = v  PROVE p[k].i >= 0
  <2>1. k > n  BY <1>1, <1>4
  <2>2. p[k].i = k - n - 1  BY <1>2, <2>1
  <2> QED  BY <2>1, <2>2
<1>5. ASSUME NEW j \in 0 .. l - 1
      PROVE  \E k \in DOMAIN p : IsPublished(p[k]) /\ p[k].v = v /\ p[k].i = j
  <2>1. n + j + 1 \in n + 1 .. n + l /\ (n + j + 1) - n - 1 = j  OBVIOUS
  <2>2. IsPublished(p[n + j + 1]) /\ p[n + j + 1].v = v /\ p[n + j + 1].i = j  BY <1>2, <2>1
  <2> QED  BY <2>1, <2>2
<1> QED  BY <1>3, <1>4, <1>5 DEF From

\* The rest of a queue, its head taken.
LEMMA TailCut ==
    ASSUME NEW S, NEW q \in Seq(S), q # << >>
    PROVE  /\ Len(q) \in Nat \ {0} /\ DOMAIN q = 1 .. Len(q)
           /\ Head(q) = q[1] /\ Head(q) \in S /\ Cut(Tail(q), q, Len(q), 1)
<1> DEFINE n == Len(q)
           p == Tail(q)
<1>1. /\ Head(q) \in S /\ p \in Seq(S) /\ Len(p) = n - 1
      /\ \A j \in 1 .. Len(p) : p[j] = q[j + 1]
    BY HeadTailProperties
<1>2. n \in Nat \ {0} /\ DOMAIN q = 1 .. n  BY EmptySeq, LenProperties
<1>3. Head(q) = q[1]  OBVIOUS
<1> HIDE DEF n, p
<1>4. DOMAIN p = 1 .. n - 1  BY <1>1, LenProperties
<1>5. \A j \in 1 .. n - 1 : p[j] = IF j < 1 THEN q[j] ELSE q[j + 1]
  <2> TAKE j \in 1 .. n - 1
  <2>1. ~(j < 1) /\ p[j] = q[j + 1]  BY <1>1
  <2> QED  BY <2>1
<1>6. Cut(p, q, n, 1)  BY <1>2, <1>4, <1>5 DEF Cut
<1> QED  BY <1>1, <1>2, <1>3, <1>6 DEF n, p

-----------------------------------------------------------------------------
(* Manifests: the newest one reaches every member that trusts its signer.     *)

Latest == IF cache = NoItem THEN 0 ELSE cache.v

Given(f, v) == f.kind # "error" => f.v <= v /\ (IsPublished(f) => f.id = <<"v", f.v>>)
Queued(u) == Sorted(toMember[u]) /\ \A k \in DOMAIN toMember[u] : Given(toMember[u][k], Latest)

\* Entries of the client's PartAssembler; that of a broadcast is no newer than
\* the server's manifest.
Entries == {NoItem} \cup [n: {1}, id: {"v", "r"} \X Nat, next: Nat]
EntryKinds == {"published", "response"}
Assembled(u) == LET e == parts[u]["published"] IN e # NoItem => \E w \in 0 .. Latest : e.id = <<"v", w>>

\* What u goes by is no newer than the server's manifest, unless it publishes.
Behind(u) == /\ anchor[u] # u => version[u] <= Latest
             /\ fetch[u].st = "got" => fetch[u].v <= Latest
Offline(u) == session[u] = 0 => /\ toRoom[u] = << >> /\ toMember[u] = << >>
                                /\ conns[u] # 0 => missed[u]
Unjoined(u) == conns[u] = 0 => version[u] = 0 /\ parts[u]["response"] = NoItem

\* The newest manifest is with u, or between the two locks of accept_manifest.
Reached(u) ==
    /\ version[u] = cache.v
    /\ cached[u] = cache.m \/ \E t \in Tasks : accept[u][t] = cache.m
    /\ \A t \in Tasks : accept[u][t] # NoItem => accept[u][t] = cache.m
\* Its broadcast is on the way, from the frame its assembly goes on with.
HasUpTo(e, id, i) == IF i = 0 THEN e = NoItem \/ e.id # id ELSE e = [n |-> 1, id |-> id, next |-> i]
Coming(u) == \E i \in 0 .. cache.m.of - 1 :
                 /\ From(toMember[u], cache.v, cache.m.of, i)
                 /\ HasUpTo(parts[u]["published"], <<"v", cache.v>>, i)
\* It was broadcast before u came, whose fetch is yet to be sent, sent, being
\* answered from frame i on, or answered.
AnswerId(u) == <<"r", conns[u]>>
Answer(u) == FramesOf("response", AnswerId(u), cache.v, cache.m)
ToAsk(u) == /\ fetch[u].st = "todo" /\ toRoom[u] = << >> /\ toMember[u] = << >>
            /\ parts[u]["response"] = NoItem
Asked(u) == /\ fetch[u].st = "waiting" /\ toRoom[u] = <<[kind |-> "request"]>> /\ toMember[u] = << >>
            /\ parts[u]["response"] = NoItem
Answering(u, i) ==
    /\ fetch[u].st = "waiting" /\ toRoom[u] = << >>
    /\ toMember[u] = SubSeq(Answer(u), i + 1, cache.m.of)
    /\ parts[u]["response"] = IF i = 0 THEN NoItem ELSE [n |-> 1, id |-> AnswerId(u), next |-> i]
Answered(u) == /\ fetch[u].st = "got" /\ fetch[u].v = cache.v /\ fetch[u].m = cache.m
               /\ toRoom[u] = << >> /\ toMember[u] = << >>
Fetching(u) == /\ cached[u] = NoItem /\ \A t \in Tasks : accept[u][t] = NoItem
               /\ ToAsk(u) \/ Asked(u) \/ Answered(u) \/ \E i \in 0 .. cache.m.of - 1 : Answering(u, i)

Expects(u) == /\ conns[u] # 0 /\ ~missed[u] /\ ~overlap[u]
              /\ cache # NoItem /\ anchor[u] # u /\ anchor[u] = cache.m.by
Promised(u) == Expects(u) => Reached(u) \/ Coming(u) \/ Fetching(u)

Delivery(u) == Queued(u) /\ Assembled(u) /\ Behind(u) /\ Offline(u) /\ Unjoined(u) /\ Promised(u)
PartTypes == missed \in [Users -> BOOLEAN] /\ parts \in [Users -> [EntryKinds -> Entries]]
InsertAbove == insert # NoItem => Latest < insert.v
DeliveryInv == PartTypes /\ InsertAbove /\ \A u \in Users : Delivery(u)

\* The server's manifest only ever gets newer, by a publish or a restart.
LEMMA LatestGrows ==
    ASSUME RoomInv, RoomInv', WireInv, InsertAbove, Step
    PROVE  /\ Latest \in Nat /\ Latest' \in Nat /\ Latest <= Latest' /\ InsertAbove'
           /\ Announce \/ Crash \/ cache' = cache
<1>0. Latest \in Nat /\ Latest' \in Nat  BY DEF RoomInv, Latest
<1>1. CASE Announce
  <2>1. /\ insert # NoItem /\ insert' = NoItem
        /\ cache' = [n |-> 1, v |-> insert.v, m |-> insert.m]
      BY <1>1 DEF Announce
  <2>2. cache' # NoItem  BY <2>1 DEF NoItem
  <2>3. Latest' = insert.v /\ insert.v \in Nat  BY <2>1, <2>2 DEF Latest, RoomInv
  <2> QED  BY <1>0, <1>1, <2>1, <2>3 DEF InsertAbove
<1>2. CASE Crash
  <2>1. insert' = NoItem /\ cache' = IF rows = {} THEN NoItem
                                     ELSE [n |-> 1, v |-> Newest(rows).v, m |-> Newest(rows).m]
      BY <1>2 DEF Crash
  <2>2. CASE rows = {}
    <3>1. stored = {}  BY <2>2 DEF RoomInv
    <3>2. cache = NoItem  BY <3>1 DEF RoomInv, Published
    <3> QED  BY <1>0, <1>2, <2>1, <3>2 DEF Latest, InsertAbove
  <2>3. CASE rows # {}
    <3> DEFINE r == Newest(rows)
    <3>1. PICK q \in rows : \A x \in stored : x.v <= q.v  BY <2>3 DEF RoomInv
    <3>2. r \in rows /\ \A x \in rows : x.v <= r.v
      <4>1. \A x \in rows : x.v <= q.v  BY <3>1 DEF RoomInv
      <4> QED  BY <3>1, <4>1, Zenon DEF Newest
    <3>3. cache' = [n |-> 1, v |-> r.v, m |-> r.m]  BY <2>1, <2>3
    <3> HIDE DEF r
    <3>4. cache' # NoItem /\ Latest' = r.v  BY <3>3 DEF NoItem, Latest
    <3>5. cache # NoItem => cache.v <= r.v
      <4> SUFFICES ASSUME cache # NoItem  PROVE cache.v <= r.v  OBVIOUS
      <4> DEFINE x == [v |-> cache.v, m |-> cache.m]
      <4>1. x \in stored /\ x.v = cache.v  BY DEF RoomInv, Published
      <4> HIDE DEF x
      <4>2. x.v <= q.v /\ q.v <= r.v  BY <3>1, <3>2, <4>1
      <4>3. x.v \in Nat /\ q.v \in Nat /\ r.v \in Nat  BY <3>1, <3>2, <4>1 DEF RoomInv, Versioned
      <4> QED  BY <4>1, <4>2, <4>3
    <3> QED  BY <1>0, <1>2, <2>1, <3>4, <3>5 DEF Latest, InsertAbove
  <2> QED  BY <2>2, <2>3
<1>3. ASSUME NEW u \in Users, ServePublish(u)
      PROVE  cache' = cache /\ InsertAbove'
  <2> DEFINE f == Head(toRoom[u])
             v == NextVersion(rows)
  <2>1. Insert(u, f.m) \/ UNCHANGED roomVars  BY <1>3 DEF ServePublish
  <2>2. cache' = cache /\ (insert' = insert \/ insert' = [n |-> 1, u |-> u, v |-> v, m |-> f.m])
      BY <2>1 DEF Insert, roomVars
  <2>3. v \in Nat /\ \A r \in stored : r.v < v  BY NextIsAbove
  <2>4. Latest < v
    <3>1. CASE cache = NoItem
      <4>1. v \in Nat \ {0}  BY NextIsAbove
      <4> QED  BY <3>1, <4>1 DEF Latest
    <3>2. CASE cache # NoItem
      <4> DEFINE x == [v |-> cache.v, m |-> cache.m]
      <4>1. x \in stored /\ x.v = cache.v  BY <3>2 DEF RoomInv, Published
      <4> HIDE DEF x, v
      <4>2. x.v < v  BY <2>3, <4>1
      <4> QED  BY <3>2, <4>1, <4>2 DEF Latest
    <3> QED  BY <3>1, <3>2
  <2> HIDE DEF v, f
  <2>5. Latest' = Latest  BY <2>2 DEF Latest
  <2> QED  BY <2>2, <2>4, <2>5 DEF InsertAbove
<1>4. ASSUME NEW u \in Users, Migrate(u)  PROVE cache' = cache /\ InsertAbove'
    BY <1>4 DEF Migrate, InsertAbove, Latest
<1>5. CASE ~RoomStep
  <2>1. UNCHANGED roomVars  BY <1>5, RoomStill
  <2>2. cache' = cache /\ insert' = insert  BY <2>1 DEF roomVars
  <2> QED  BY <1>0, <2>2 DEF Latest, InsertAbove
<1>6. cache' = cache => Latest' = Latest  BY DEF Latest
<1> QED  BY <1>0, <1>1, <1>2, <1>3, <1>4, <1>5, <1>6 DEF RoomStep

\* What a member's PartAssembler holds.
LEMMA PushedEntry ==
    ASSUME NEW e \in Entries, NEW f, f.id \in {"v", "r"} \X Nat
    PROVE  /\ Pushed(e, f) \in Entries
           /\ \/ Pushed(e, f) = NoItem
              \/ e # NoItem /\ Pushed(e, f) # NoItem /\ Pushed(e, f).id = e.id
              \/ Pushed(e, f) = [n |-> 1, id |-> f.id, next |-> 1]
<1> DEFINE more == [e EXCEPT !.next = @ + 1]
           first == [n |-> 1, id |-> f.id, next |-> 1]
<1>1. first \in Entries  BY DEF Entries
<1>2. e # NoItem => more \in Entries /\ more.id = e.id /\ more # NoItem
  <2> SUFFICES ASSUME e # NoItem  PROVE more \in Entries /\ more.id = e.id /\ more # NoItem  OBVIOUS
  <2>1. e \in [n: {1}, id: {"v", "r"} \X Nat, next: Nat]  BY DEF Entries
  <2>2. more \in [n: {1}, id: {"v", "r"} \X Nat, next: Nat] /\ more.id = e.id  BY <2>1
  <2> HIDE DEF more
  <2>3. more.n # 0  BY <2>2
  <2> QED  BY <2>2, <2>3 DEF Entries, NoItem
<1>3. NoItem \in Entries  BY DEF Entries
<1>4. Pushed(e, f) \in {e, NoItem, first} \/ (e # NoItem /\ Pushed(e, f) = more)
    BY DEF Pushed, Belongs
<1> HIDE DEF more, first
<1> QED  BY <1>1, <1>2, <1>3, <1>4 DEF first

\* Every step keeps its entries of their type.
LEMMA PartTypesKept ==
    ASSUME PartTypes, WireInv, Step
    PROVE  PartTypes'
<1>0. missed \in [Users -> BOOLEAN] /\ parts \in [Users -> [EntryKinds -> Entries]]  BY DEF PartTypes
<1>n. NoItem \in Entries  BY DEF Entries
<1>m. missed' \in [Users -> BOOLEAN]
  <2> DEFINE Only(u, b) == b \in BOOLEAN /\ missed' = [missed EXCEPT ![u] = b]
  <2>1. ASSUME NEW u \in Users, Lag(u)  PROVE \E b : Only(u, b)
    <3>1. PICK k \in DOMAIN toMember[u] :
              missed' = [missed EXCEPT ![u] = @ \/ (cache # NoItem /\ toMember[u][k].v = cache.v)]
        BY <2>1 DEF Lag
    <3> DEFINE b == missed[u] \/ (cache # NoItem /\ toMember[u][k].v = cache.v)
    <3>2. Only(u, b)  BY <3>1
    <3> QED  BY <3>2
  <2>2. ASSUME NEW u \in Users, Limited(u)  PROVE \E b : Only(u, b)
    <3> DEFINE b == missed[u] \/ Head(toRoom[u]).kind = "request"
    <3>1. Only(u, b)  BY <2>2 DEF Limited
    <3> QED  BY <3>1
  <2>3. ASSUME NEW u \in Users, FetchTimeout(u) \/ LoseConn(u)  PROVE \E b : Only(u, b)
    <3>1. Only(u, TRUE)  BY <2>3 DEF FetchTimeout, LoseConn
    <3> QED  BY <3>1
  <2>4. ASSUME NEW u \in Users, JoinShared(u)  PROVE \E b : Only(u, b)
    <3>1. Only(u, FALSE)  BY <2>4 DEF JoinShared
    <3> QED  BY <3>1
  <2>5. ASSUME NEW u \in Users, NEW b, Only(u, b)  PROVE missed' \in [Users -> BOOLEAN]
      BY <1>0, <2>5
  <2> HIDE DEF Only
  <2>6. CASE Announce  BY <2>6 DEF Announce
  <2>7. CASE Crash  BY <2>7 DEF Crash
  <2>8. RoomServes => Announce \/ missed' = missed  BY DEF RoomServes, ServePublish, ServeFetch
  <2>9. ASSUME NEW u \in Users, Run(u)  PROVE missed' = missed
      BY <2>9 DEF Run, Receive, Fetch, FetchAccept, AcceptCache, Send, AcceptLocal, Confirm, Return, wire
  <2>10. Input => missed' = missed \/ \E u \in Users : JoinShared(u)
      BY DEF Input, Publish, ReconnectConn, wire
  <2>11. Misfortune => \/ Crash \/ missed' = missed
                       \/ \E u \in Users : Lag(u) \/ Limited(u) \/ FetchTimeout(u) \/ LoseConn(u)
      BY DEF Misfortune, Migrate, ExpireParts, Retry, wire
  <2>12. UNCHANGED manifestVars => missed' = missed  BY DEF manifestVars, wire
  <2> QED  BY <1>0, <2>1, <2>2, <2>3, <2>4, <2>5, <2>6, <2>7, <2>8, <2>9, <2>10, <2>11, <2>12
           DEF Step, ManifestsNext, Work
<1>p. parts' \in [Users -> [EntryKinds -> Entries]]
  <2>1. ASSUME NEW u \in Users, Receive(u)  PROVE parts' \in [Users -> [EntryKinds -> Entries]]
    <3> DEFINE f == Head(toMember[u])
    <3>1. f \in MemberFrames
      <4>1. toMember[u] \in Seq(MemberFrames) /\ toMember[u] # << >>  BY <2>1 DEF Receive, WireInv
      <4> QED  BY <4>1
    <3>2. f.kind = "error" => parts' = parts  BY <2>1 DEF Receive
    <3>3. f.kind # "error" => parts' = [parts EXCEPT ![u] = Begun(@, f)]  BY <2>1 DEF Receive
    <3> HIDE DEF f
    <3>4. ASSUME f.kind # "error"  PROVE Begun(parts[u], f) \in [EntryKinds -> Entries]
      <4>1. f.id \in {"v", "r"} \X Nat  BY <3>1, <3>4 DEF MemberFrames
      <4>2. parts[u] \in [EntryKinds -> Entries] /\ f.kind \in EntryKinds
          BY <1>0, <3>1, <3>4 DEF MemberFrames, EntryKinds
      <4> DEFINE e == parts[u][f.kind]
      <4>3. e \in Entries  BY <4>2
      <4>4. Pushed(e, f) \in Entries  BY <4>1, <4>3, PushedEntry
      <4>5. Begun(parts[u], f) = [parts[u] EXCEPT ![f.kind] = Pushed(e, f)]  BY DEF Begun
      <4> HIDE DEF e
      <4> QED  BY <4>2, <4>4, <4>5
    <3> QED  BY <1>0, <3>2, <3>3, <3>4
  <2>2. ASSUME NEW u \in Users, ExpireParts(u)  PROVE parts' \in [Users -> [EntryKinds -> Entries]]
    <3>1. parts' = [parts EXCEPT ![u] = [k \in DOMAIN @ |-> NoItem]]  BY <2>2 DEF ExpireParts
    <3>2. DOMAIN parts[u] = EntryKinds  BY <1>0
    <3> QED  BY <1>0, <1>n, <3>1, <3>2
  <2>3. RoomServes => parts' = parts  BY DEF RoomServes, Announce, ServePublish, ServeFetch, client
  <2>4. ASSUME NEW u \in Users, Run(u)  PROVE Receive(u) \/ parts' = parts
      BY <2>4 DEF Run, Fetch, FetchAccept, AcceptCache, Send, AcceptLocal, Confirm, Return, client
  <2>5. Input => parts' = parts  BY DEF Input, Publish, JoinShared, ReconnectConn
  <2>6. Misfortune => (\E u \in Users : ExpireParts(u)) \/ parts' = parts
      BY DEF Misfortune, Crash, Lag, Limited, Migrate, LoseConn, FetchTimeout, Retry, client
  <2>7. UNCHANGED manifestVars => parts' = parts  BY DEF manifestVars, client
  <2> QED  BY <1>0, <2>1, <2>2, <2>3, <2>4, <2>5, <2>6, <2>7 DEF Step, ManifestsNext, Work
<1> QED  BY <1>m, <1>p DEF PartTypes

\* A frame reaches the entry of its kind and no other.
LEMMA PartsTaken ==
    ASSUME PartTypes, NEW u \in Users, NEW f, f.kind \in EntryKinds, parts' = [parts EXCEPT ![u] = Begun(@, f)]
    PROVE  /\ parts'[u][f.kind] = Pushed(parts[u][f.kind], f)
           /\ \A k \in EntryKinds : k # f.kind => parts'[u][k] = parts[u][k]
<1>1. parts \in [Users -> [EntryKinds -> Entries]]  BY DEF PartTypes
<1> DEFINE es == parts[u]
           e == Pushed(es[f.kind], f)
<1>2. es \in [EntryKinds -> Entries]  BY <1>1
<1>3. Begun(es, f) = [es EXCEPT ![f.kind] = e]  BY DEF Begun
<1>4. parts'[u] = Begun(es, f)  BY <1>1
<1> HIDE DEF es, e
<1>5. Begun(es, f)[f.kind] = e /\ \A k \in EntryKinds : k # f.kind => Begun(es, f)[k] = es[k]
    BY <1>2, <1>3
<1> QED  BY <1>4, <1>5 DEF es, e

Ready(u) == /\ RoomInv /\ WireInv /\ FetchInv /\ TaskInv /\ Shapes /\ PartTypes
            /\ OrderOf(u) /\ Delivery(u)

\* A step that touches nothing of u's.
Untouched(u) ==
    /\ toMember'[u] = toMember[u] /\ toRoom'[u] = toRoom[u]
    /\ session'[u] = session[u] /\ conns'[u] = conns[u] /\ missed'[u] = missed[u]
    /\ parts'[u] = parts[u] /\ fetch'[u] = fetch[u] /\ anchor'[u] = anchor[u]
    /\ version'[u] = version[u] /\ cached'[u] = cached[u]
    /\ accept'[u] = accept[u] /\ overlap'[u] = overlap[u]

\* The newest manifest is with u, and nothing of u moves.
LEMMA ReachedStill ==
    ASSUME NEW u \in Users, Reached(u), cache' = cache, version'[u] = version[u],
           cached'[u] = cached[u], accept'[u] = accept[u]
    PROVE  Reached(u)'
BY DEF Reached

\* Its broadcast is on the way, and no frame of it is lost.
LEMMA ComingStill ==
    ASSUME NEW u \in Users, Coming(u), cache' = cache,
           parts'[u]["published"] = parts[u]["published"],
           \A i : From(toMember[u], cache.v, cache.m.of, i) => From(toMember'[u], cache.v, cache.m.of, i)
    PROVE  Coming(u)'
<1>1. PICK i \in 0 .. cache.m.of - 1 :
          /\ From(toMember[u], cache.v, cache.m.of, i)
          /\ HasUpTo(parts[u]["published"], <<"v", cache.v>>, i)
    BY DEF Coming
<1>2. From(toMember'[u], cache'.v, cache'.m.of, i) /\ i \in 0 .. cache'.m.of - 1  BY <1>1
<1>3. HasUpTo(parts'[u]["published"], <<"v", cache'.v>>, i)  BY <1>1
<1> QED  BY <1>2, <1>3 DEF Coming

\* The fetch stands where it stood.
LEMMA FetchingStill ==
    ASSUME NEW u \in Users, Fetching(u), cache' = cache,
           cached'[u] = cached[u], accept'[u] = accept[u], fetch'[u] = fetch[u], conns'[u] = conns[u],
           toRoom'[u] = toRoom[u], toMember'[u] = toMember[u],
           parts'[u]["response"] = parts[u]["response"]
    PROVE  Fetching(u)'
<1>1. Answer(u)' = Answer(u) /\ AnswerId(u)' = AnswerId(u)  BY DEF Answer, AnswerId, FramesOf
<1>2. \A i : Answering(u, i) => Answering(u, i)'  BY <1>1 DEF Answering
<1> QED  BY <1>2 DEF Fetching, ToAsk, Asked, Answered

\* The queue is as it was; the server may have something newer.
LEMMA QueuedStill ==
    ASSUME NEW u \in Users, Queued(u), toMember'[u] = toMember[u],
           toMember[u] \in Seq(MemberFrames), Latest \in Nat, Latest' \in Nat, Latest <= Latest'
    PROVE  Queued(u)'
<1>1. \A k \in DOMAIN toMember[u] : Given(toMember[u][k], Latest')
  <2> TAKE k \in DOMAIN toMember[u]
  <2>1. toMember[u][k] \in MemberFrames /\ Given(toMember[u][k], Latest)  BY DEF Queued
  <2>2. toMember[u][k].kind # "error" => toMember[u][k].v \in Nat  BY <2>1 DEF MemberFrames
  <2> QED  BY <2>1, <2>2 DEF Given
<1> QED  BY <1>1 DEF Queued

\* The assembly is as it was.
LEMMA AssembledStill ==
    ASSUME NEW u \in Users, Assembled(u), parts'[u]["published"] = parts[u]["published"],
           Latest \in Nat, Latest' \in Nat, Latest <= Latest'
    PROVE  Assembled(u)'
<1>1. \A w \in 0 .. Latest : w \in 0 .. Latest'  OBVIOUS
<1> QED  BY <1>1 DEF Assembled

\* What u goes by is as it was, or u becomes a publisher.
LEMMA BehindStill ==
    ASSUME NEW u \in Users, Behind(u), FetchInv, Shapes, fetch'[u] = fetch[u],
           version'[u] = version[u], anchor'[u] = anchor[u] \/ anchor'[u] = u,
           Latest \in Nat, Latest' \in Nat, Latest <= Latest'
    PROVE  Behind(u)'
<1>1. version[u] \in Nat  BY DEF Shapes
<1>2. fetch[u].st = "got" => fetch[u].v \in Nat  BY DEF Shapes, Fetches
<1> QED  BY <1>1, <1>2 DEF Behind

\* All but the promise, when only frames and the answer to a fetch may change.
LEMMA UntouchedKeeps ==
    ASSUME NEW u \in Users, Ready(u), Untouched(u), cache' = cache
    PROVE  Delivery(u)'
<1>0. Latest' = Latest /\ Latest \in Nat  BY DEF Latest, Ready, RoomInv
<1>1. /\ Queued(u) /\ Assembled(u) /\ Behind(u) /\ Offline(u) /\ Unjoined(u) /\ Promised(u)
      /\ toMember[u] \in Seq(MemberFrames) /\ FetchInv /\ Shapes
    BY DEF Ready, Delivery, WireInv
<1>2. Queued(u)'  BY <1>0, <1>1, QueuedStill DEF Untouched
<1>3. Assembled(u)'  BY <1>0, <1>1, AssembledStill DEF Untouched
<1>4. Behind(u)'  BY <1>0, <1>1, BehindStill DEF Untouched
<1>5. Offline(u)' /\ Unjoined(u)'  BY <1>1 DEF Offline, Unjoined, Untouched
<1>6. Promised(u)'
  <2>1. SUFFICES ASSUME Expects(u)'  PROVE (Reached(u) \/ Coming(u) \/ Fetching(u))'  BY DEF Promised
  <2>2. Expects(u)  BY <2>1 DEF Expects, Untouched
  <2>3. CASE Reached(u)  BY <2>3, ReachedStill DEF Untouched
  <2>4. CASE Coming(u)  BY <2>4, ComingStill DEF Untouched
  <2>5. CASE Fetching(u)  BY <2>5, FetchingStill DEF Untouched
  <2> QED  BY <1>1, <2>2, <2>3, <2>4, <2>5 DEF Promised
<1> QED  BY <1>2, <1>3, <1>4, <1>5, <1>6 DEF Delivery

\* A connection goes, with all that was on it.
LEMMA DroppedDelivery ==
    ASSUME NEW u \in Users, Ready(u), Latest \in Nat, Latest' \in Nat, Latest <= Latest',
           toMember'[u] = << >>, toRoom'[u] = << >>, missed'[u], session'[u] = 0, conns'[u] = conns[u],
           UNCHANGED <<parts, fetch, anchor, version>>
    PROVE  Delivery(u)'
<1>1. /\ Assembled(u) /\ Behind(u) /\ Unjoined(u) /\ FetchInv /\ Shapes
    BY DEF Ready, Delivery
<1>2. Queued(u)'
  <2>1. DOMAIN toMember'[u] = {}  OBVIOUS
  <2> QED  BY <2>1 DEF Queued, Sorted
<1>3. Assembled(u)'  BY <1>1, AssembledStill
<1>4. Behind(u)'  BY <1>1, BehindStill
<1>5. Offline(u)' /\ Unjoined(u)' /\ Promised(u)'  BY <1>1 DEF Offline, Unjoined, Promised, Expects
<1> QED  BY <1>2, <1>3, <1>4, <1>5 DEF Delivery

\* The server takes a frame of u's other than a request, or loses a request.
LEMMA RoomTakes ==
    ASSUME NEW u \in Users, Ready(u), session[u] # 0, toRoom[u] # << >>,
           cache' = cache, toMember'[u] = toMember[u], session'[u] = session[u],
           UNCHANGED <<conns, parts, fetch, anchor, version, cached, accept, overlap>>,
           ~missed'[u] => ~missed[u] /\ Head(toRoom[u]).kind # "request"
    PROVE  Delivery(u)'
<1>0. Latest' = Latest /\ Latest \in Nat  BY DEF Latest, Ready, RoomInv
<1>1. /\ Queued(u) /\ Assembled(u) /\ Behind(u) /\ Unjoined(u) /\ Promised(u)
      /\ toMember[u] \in Seq(MemberFrames) /\ FetchInv /\ Shapes
    BY DEF Ready, Delivery, WireInv
<1>2. Queued(u)'  BY <1>0, <1>1, QueuedStill
<1>3. Assembled(u)'  BY <1>0, <1>1, AssembledStill
<1>4. Behind(u)'  BY <1>0, <1>1, BehindStill
<1>5. Offline(u)' /\ Unjoined(u)'  BY <1>1 DEF Offline, Unjoined
<1>6. Promised(u)'
  <2>1. SUFFICES ASSUME Expects(u)'  PROVE (Reached(u) \/ Coming(u) \/ Fetching(u))'  BY DEF Promised
  <2>2. Expects(u) /\ Head(toRoom[u]).kind # "request"  BY <2>1 DEF Expects
  <2>3. CASE Reached(u)  BY <2>3, ReachedStill
  <2>4. CASE Coming(u)  BY <2>4, ComingStill
  <2>5. CASE Fetching(u)
    <3>1. toRoom[u] = <<[kind |-> "request"]>>
        BY <2>5 DEF Fetching, ToAsk, Asked, Answered, Answering
    <3>2. Head(toRoom[u]) = [kind |-> "request"]  BY <3>1
    <3> QED  BY <2>2, <3>2
  <2> QED  BY <1>1, <2>2, <2>3, <2>4, <2>5 DEF Promised
<1> QED  BY <1>2, <1>3, <1>4, <1>5, <1>6 DEF Delivery

\* A new version is announced.
LEMMA AnnounceDelivers ==
    ASSUME NEW u \in Users, Ready(u), InsertAbove, Announce
    PROVE  Delivery(u)'
<1>1. /\ insert # NoItem /\ cache' = [n |-> 1, v |-> insert.v, m |-> insert.m]
      /\ toMember' = [x \in Users |-> IF session[x] = 0 THEN << >>
              ELSE toMember[x] \o FramesOf("published", <<"v", insert.v>>, insert.v, insert.m)]
      /\ missed' = [x \in Users |-> session[x] = 0]
      /\ UNCHANGED <<session, conns, toRoom, parts, fetch, anchor, version, cached, accept, overlap>>
    BY DEF Announce, client
<1> DEFINE v == insert.v
           m == insert.m
           l == m.of
           q == toMember[u]
           a == FramesOf("published", <<"v", v>>, v, m)
           p == toMember'[u]
<1>2. v \in Nat /\ m \in Manifest /\ Latest \in Nat /\ Latest < v /\ Published(v, m)
    BY <1>1 DEF Ready, RoomInv, Latest, InsertAbove
<1>3. cache' # NoItem /\ cache'.v = v /\ cache'.m = m /\ Latest' = v  BY <1>1 DEF NoItem, Latest
<1>4. /\ Queued(u) /\ Assembled(u) /\ Behind(u) /\ Offline(u) /\ Unjoined(u)
      /\ q \in Seq(MemberFrames) /\ FetchInv /\ Shapes
    BY DEF Ready, Delivery, WireInv
<1>5. /\ l \in Nat \ {0} /\ Len(a) = l /\ a \in Seq(MemberFrames)
      /\ \A j \in 1 .. l : /\ a[j].kind = "published" /\ a[j].id = <<"v", v>>
                           /\ a[j].v = v /\ a[j].m = m /\ a[j].i = j - 1
  <2>1. l \in Nat \ {0}  BY <1>2, FramesTyped
  <2>2. a = [j \in 1 .. l |-> [kind |-> "published", id |-> <<"v", v>>, v |-> v, m |-> m, i |-> j - 1]]
      BY DEF FramesOf
  <2>3. <<"v", v>> \in {"v", "r"} \X Nat  BY <1>2
  <2>4. a \in Seq(MemberFrames)  BY <1>2, <2>3, FramesForMember
  <2> HIDE DEF a, v, m, l
  <2>5. DOMAIN a = 1 .. Len(a) /\ Len(a) \in Nat  BY <2>4, LenProperties
  <2>6. DOMAIN a = 1 .. l  BY <2>2
  <2>7. Len(a) = l  BY <2>1, <2>5, <2>6, OneLength
  <2> QED  BY <2>1, <2>2, <2>4, <2>7
<1>6. p = IF session[u] = 0 THEN << >> ELSE q \o a  BY <1>1
<1> HIDE DEF v, m, l, q, a, p
<1>7. CASE session[u] = 0
  <2>1. p = << >> /\ toRoom'[u] = toRoom[u] /\ missed'[u]  BY <1>1, <1>6, <1>7
  <2>2. toRoom'[u] = << >>  BY <1>4, <1>7, <2>1 DEF Offline
  <2> QED  BY <1>1, <1>2, <1>3, <1>7, <2>1, <2>2, DroppedDelivery DEF p
<1>8. CASE session[u] # 0
  <2> DEFINE n == Len(q)
  <2>1. p = q \o a  BY <1>6, <1>8
  <2>2. p \in Seq(MemberFrames) /\ Len(p) = n + l
        /\ \A j \in 1 .. n + l : p[j] = IF j <= n THEN q[j] ELSE a[j - n]
      BY <1>4, <1>5, <2>1, ConcatProperties
  <2>3. n \in Nat /\ DOMAIN q = 1 .. n /\ DOMAIN p = 1 .. n + l  BY <1>4, <2>2, LenProperties
  <2>4. \A j \in 1 .. n : Given(q[j], Latest) /\ q[j] \in MemberFrames
    <3>1. \A j \in 1 .. n : q[j] \in MemberFrames  BY <1>4, ElementOfSeq
    <3> QED  BY <1>4, <2>3, <3>1 DEF Queued, q
  <2> HIDE DEF n
  <2>5. \A j \in 1 .. n : q[j].kind # "error" => q[j].v \in Nat /\ q[j].v <= Latest
      BY <2>4 DEF MemberFrames, Given
  <2>6. \A j \in 1 .. n : IsPublished(q[j]) => q[j].v \in Nat /\ q[j].v < v
    <3> TAKE j \in 1 .. n
    <3>1. IsPublished(q[j]) => q[j].v \in Nat /\ q[j].v <= Latest  BY <2>5 DEF IsPublished
    <3> QED  BY <1>2, <3>1
  <2>7. \A j \in 1 .. l : IsPublished(a[j]) /\ a[j].v = v /\ a[j].i = j - 1  BY <1>5 DEF IsPublished
  <2>8. (Sorted(q) => Sorted(p)) /\ From(p, v, l, 0)
    <3>1. n \in Nat /\ l \in Nat /\ v \in Nat  BY <1>2, <1>5, <2>3
    <3>2. Extended(p, q, n, a, l)  BY <2>2, <2>3 DEF Extended
    <3> QED  BY <2>6, <2>7, <3>1, <3>2, AppendOrder
  <2>9. \A k \in DOMAIN p : Given(p[k], v)
    <3> SUFFICES ASSUME NEW k \in 1 .. n + l  PROVE Given(p[k], v)  BY <2>3
    <3>1. CASE k <= n
      <4>1. p[k] = q[k] /\ k \in 1 .. n  BY <2>2, <3>1
      <4>2. Given(q[k], Latest) /\ (q[k].kind # "error" => q[k].v \in Nat /\ q[k].v <= Latest)
          BY <2>4, <2>5, <4>1
      <4>3. q[k].kind # "error" => q[k].v <= v  BY <1>2, <4>2
      <4> QED  BY <4>1, <4>2, <4>3 DEF Given
    <3>2. CASE ~(k <= n)
      <4>1. p[k] = a[k - n] /\ k - n \in 1 .. l  BY <1>5, <2>2, <2>3, <3>2
      <4>2. a[k - n].v = v /\ a[k - n].id = <<"v", v>>  BY <1>5, <4>1
      <4> QED  BY <1>2, <4>1, <4>2 DEF Given
    <3> QED  BY <3>1, <3>2
  <2>10. Queued(u)'
    <3>1. Sorted(p)  BY <1>4, <2>8 DEF Queued, q
    <3> QED  BY <1>3, <2>9, <3>1 DEF Queued, p
  <2>11. Assembled(u)'  BY <1>1, <1>2, <1>3, <1>4, AssembledStill
  <2>12. Behind(u)'  BY <1>1, <1>2, <1>3, <1>4, BehindStill
  <2>13. Offline(u)' /\ Unjoined(u)'  BY <1>1, <1>4, <1>8 DEF Offline, Unjoined
  <2>14. Coming(u)'
    <3>1. From(p, v, l, 0) /\ 0 \in 0 .. l - 1  BY <1>5, <2>8
    <3> DEFINE e == parts[u]["published"]
    <3>2. e # NoItem => e.id # <<"v", v>>
      <4>1. SUFFICES ASSUME e # NoItem  PROVE e.id # <<"v", v>>  OBVIOUS
      <4>2. PICK w \in 0 .. Latest : e.id = <<"v", w>>  BY <1>4, <4>1 DEF Assembled
      <4>3. w # v  BY <1>2, <4>2
      <4> QED  BY <4>2, <4>3
    <3>3. parts'[u]["published"] = e  BY <1>1
    <3> HIDE DEF e
    <3>4. HasUpTo(parts'[u]["published"], <<"v", v>>, 0)  BY <3>2, <3>3 DEF HasUpTo
    <3>5. 0 \in 0 .. cache'.m.of - 1 /\ From(toMember'[u], cache'.v, cache'.m.of, 0)
        BY <1>3, <3>1 DEF l, p
    <3> QED  BY <1>3, <3>4, <3>5 DEF Coming
  <2> QED  BY <2>10, <2>11, <2>12, <2>13, <2>14 DEF Delivery, Promised
<1> QED  BY <1>7, <1>8

\* An answer among the broadcasts that are queued.
LEMMA AnswerQueued ==
    ASSUME NEW u \in Users, Queued(u), NEW a \in Seq(MemberFrames), toMember[u] \in Seq(MemberFrames),
           NEW k \in 0 .. Len(toMember[u]), Latest' = Latest,
           toMember'[u] = SubSeq(toMember[u], 1, k) \o a \o SubSeq(toMember[u], k + 1, Len(toMember[u])),
           \A j \in DOMAIN a : ~IsPublished(a[j]) /\ Given(a[j], Latest)
    PROVE  /\ Queued(u)'
           /\ \A v, m, i : From(toMember[u], v, m, i) => From(toMember'[u], v, m, i)
<1> DEFINE q == toMember[u]
           p == toMember'[u]
           n == Len(q)
           l == Len(a)
<1>1. q \in Seq(MemberFrames) /\ n \in Nat /\ l \in Nat /\ k \in 0 .. n /\ DOMAIN q = 1 .. n /\ DOMAIN a = 1 .. l
    BY LenProperties
<1>2. p = SubSeq(q, 1, k) \o a \o SubSeq(q, k + 1, Len(q))  OBVIOUS
<1>q. Sorted(q) /\ \A j \in DOMAIN q : Given(q[j], Latest)  BY DEF Queued
<1> HIDE DEF q, p, n, l
<1>3. Inserted(p, q, n, a, l, k)
  <2>1. q \in Seq(MemberFrames) /\ k \in 0 .. Len(q)  BY <1>1 DEF n
  <2> QED  BY <1>2, <2>1, Spliced DEF n, l
<1>4. /\ DOMAIN p = 1 .. n + l
      /\ \A j \in 1 .. n + l : p[j] = IF j <= k THEN q[j] ELSE IF j <= k + l THEN a[j - k] ELSE q[j - l]
    BY <1>3 DEF Inserted
<1>5. /\ Sorted(q) => Sorted(p)
      /\ \A v, m, i : From(q, v, m, i) => From(p, v, m, i)
  <2>1. \A j \in DOMAIN a : ~IsPublished(a[j])  OBVIOUS
  <2>2. n \in Nat /\ l \in Nat /\ k \in 0 .. n  BY <1>1
  <2> QED  BY <1>3, <2>1, <2>2, SpliceOrder
<1>6. \A j \in DOMAIN p : Given(p[j], Latest)
  <2> SUFFICES ASSUME NEW j \in 1 .. n + l  PROVE Given(p[j], Latest)  BY <1>4
  <2>1. CASE j <= k
    <3>1. p[j] = q[j] /\ j \in DOMAIN q  BY <1>1, <1>4, <2>1
    <3> QED  BY <1>q, <3>1
  <2>2. CASE ~(j <= k) /\ j <= k + l
    <3>1. p[j] = a[j - k] /\ j - k \in DOMAIN a  BY <1>1, <1>4, <2>2
    <3> QED  BY <3>1
  <2>3. CASE ~(j <= k) /\ ~(j <= k + l)
    <3>1. p[j] = q[j - l] /\ j - l \in DOMAIN q  BY <1>1, <1>4, <2>3
    <3> QED  BY <1>q, <3>1
  <2> QED  BY <2>1, <2>2, <2>3
<1>7. Queued(u)'  BY <1>5, <1>6, <1>q DEF Queued, p
<1> QED  BY <1>5, <1>7 DEF p, q

\* The frames of an answer.
LEMMA AnswerFrames ==
    ASSUME RoomInv, WireInv, NEW u \in Users, cache # NoItem
    PROVE  /\ cache.m \in Manifest /\ cache.m.of \in Nat \ {0} /\ cache.v \in Nat
           /\ Published(cache.v, cache.m)
           /\ Answer(u) \in Seq(MemberFrames) /\ Len(Answer(u)) = cache.m.of
           /\ \A j \in 1 .. cache.m.of :
                 /\ Answer(u)[j] = [kind |-> "response", id |-> AnswerId(u), v |-> cache.v, m |-> cache.m, i |-> j - 1]
                 /\ Answer(u)[j].kind = "response" /\ Answer(u)[j].v = cache.v
<1> DEFINE v == cache.v
           m == cache.m
           id == AnswerId(u)
           a == Answer(u)
           l == m.of
<1>1. v \in Nat /\ m \in Manifest /\ Published(v, m)  BY DEF RoomInv
<1>2. id \in {"v", "r"} \X Nat  BY DEF WireInv, AnswerId
<1>3. a = FramesOf("response", id, v, m)  BY DEF Answer
<1> HIDE DEF v, m, id, a
<1>4. l \in Nat \ {0}  BY <1>1, FramesTyped
<1>5. a = [j \in 1 .. l |-> [kind |-> "response", id |-> id, v |-> v, m |-> m, i |-> j - 1]]
    BY <1>3 DEF FramesOf
<1>6. a \in Seq(MemberFrames)  BY <1>1, <1>2, <1>3, FramesForMember
<1> HIDE DEF l
<1>7. DOMAIN a = 1 .. Len(a) /\ Len(a) \in Nat  BY <1>6, LenProperties
<1>8. DOMAIN a = 1 .. l  BY <1>5
<1>9. Len(a) = l  BY <1>4, <1>7, <1>8, OneLength
<1>10. \A j \in 1 .. l : /\ a[j] = [kind |-> "response", id |-> id, v |-> v, m |-> m, i |-> j - 1]
                        /\ a[j].kind = "response" /\ a[j].v = v
    BY <1>5
<1> QED  BY <1>1, <1>4, <1>6, <1>9, <1>10 DEF v, m, id, a, l

\* The server answers u's request.
LEMMA AnswerDelivers ==
    ASSUME NEW u \in Users, Ready(u), ServeFetch(u), cache' = cache
    PROVE  Delivery(u)'
<1> DEFINE answer == IF cache = NoItem THEN <<[kind |-> "error"]>> ELSE Answer(u)
           q == toMember[u]
<1>0. Latest' = Latest /\ Latest \in Nat  BY DEF Latest, Ready, RoomInv
<1>1. /\ Queued(u) /\ Assembled(u) /\ Behind(u) /\ Unjoined(u) /\ Promised(u)
      /\ toMember \in [Users -> Seq(MemberFrames)] /\ toRoom \in [Users -> Seq(RoomFrames)]
      /\ FetchInv /\ Shapes /\ RoomInv /\ WireInv
    BY DEF Ready, Delivery, WireInv
<1>2. /\ session[u] # 0 /\ toRoom[u] # << >> /\ toRoom'[u] = Tail(toRoom[u])
      /\ UNCHANGED <<session, conns, missed, parts, fetch, anchor, version, cached, accept, overlap>>
    BY <1>1 DEF ServeFetch, TookUp, client
<1>3. PICK k \in 0 .. Len(q) : toMember'[u] = SubSeq(q, 1, k) \o answer \o SubSeq(q, k + 1, Len(q))
    BY <1>1 DEF ServeFetch, Answer, AnswerId
<1>4. answer \in Seq(MemberFrames) /\ \A j \in DOMAIN answer : ~IsPublished(answer[j]) /\ Given(answer[j], Latest)
  <2>1. CASE cache = NoItem
    <3>1. [kind |-> "error"] \in MemberFrames  BY DEF MemberFrames
    <3>2. answer = <<[kind |-> "error"]>>  BY <2>1
    <3> HIDE DEF answer
    <3>3. answer \in Seq(MemberFrames) /\ DOMAIN answer = {1} /\ answer[1] = [kind |-> "error"]  BY <3>1, <3>2
    <3>4. answer[1].kind = "error"  BY <3>3
    <3> QED  BY <3>3, <3>4 DEF IsPublished, Given
  <2>2. CASE cache # NoItem
    <3>1. answer = Answer(u) /\ Latest = cache.v  BY <2>2 DEF Latest
    <3>2. /\ answer \in Seq(MemberFrames) /\ Len(answer) = cache.m.of
          /\ \A j \in 1 .. cache.m.of : answer[j].kind = "response" /\ answer[j].v = cache.v
      <4>1. RoomInv /\ WireInv  BY <1>1
      <4> HIDE DEF answer
      <4> QED  BY <2>2, <3>1, <4>1, AnswerFrames
    <3> HIDE DEF answer
    <3>3. DOMAIN answer = 1 .. cache.m.of  BY <3>2, LenProperties
    <3> QED  BY <1>0, <3>1, <3>2, <3>3 DEF IsPublished, Given
  <2> QED  BY <2>1, <2>2
<1>5. /\ Queued(u)'
      /\ \A v, m, i : From(toMember[u], v, m, i) => From(toMember'[u], v, m, i)
  <2> HIDE DEF answer
  <2> QED  BY <1>0, <1>1, <1>3, <1>4, AnswerQueued
<1>6. Assembled(u)'  BY <1>0, <1>1, <1>2, AssembledStill
<1>7. Behind(u)'  BY <1>0, <1>1, <1>2, BehindStill
<1>8. Offline(u)' /\ Unjoined(u)'  BY <1>1, <1>2 DEF Offline, Unjoined
<1>9. Promised(u)'
  <2>1. SUFFICES ASSUME Expects(u)'  PROVE (Reached(u) \/ Coming(u) \/ Fetching(u))'  BY DEF Promised
  <2>2. Expects(u)  BY <1>2, <2>1 DEF Expects
  <2>3. CASE Reached(u)  BY <1>2, <2>3, ReachedStill
  <2>4. CASE Coming(u)  BY <1>2, <1>5, <2>4, ComingStill
  <2>5. CASE Fetching(u)
    <3>0. cache # NoItem  BY <2>2 DEF Expects
    <3>1. Asked(u)  BY <1>2, <2>5 DEF Fetching, ToAsk, Answered, Answering
    <3> DEFINE a == Answer(u)
    <3>2. /\ cache.m.of \in Nat \ {0} /\ a \in Seq(MemberFrames) /\ Len(a) = cache.m.of
        BY <1>1, <3>0, AnswerFrames
    <3>3. answer = a /\ a' = a  BY <1>2, <3>0 DEF Answer, AnswerId, FramesOf
    <3>4. q = << >> /\ k = 0  BY <1>3, <3>1 DEF Asked
    <3>5. toMember'[u] = a
      <4>1. SubSeq(q, 1, k) = << >> /\ SubSeq(q, k + 1, Len(q)) = << >>  BY <3>4
      <4>2. toMember'[u] = << >> \o a \o << >>  BY <1>3, <3>3, <4>1
      <4> HIDE DEF a, answer
      <4> QED  BY <3>2, <4>2, ConcatEmptySeq
    <3>6. SubSeq(a, 1, cache.m.of) = a
      <4> HIDE DEF a
      <4> QED  BY <3>2, SubSeqFull
    <3>7. toRoom'[u] = << >>
      <4>1. Tail(<<[kind |-> "request"]>>) = << >>  OBVIOUS
      <4> QED  BY <1>2, <3>1, <4>1 DEF Asked
    <3>8. Answering(u, 0)'
      <4>1. Answer(u)' = a  BY <3>3
      <4>2. fetch'[u].st = "waiting" /\ parts'[u]["response"] = NoItem  BY <1>2, <3>1 DEF Asked
      <4>3. toMember'[u] = SubSeq(Answer(u)', 0 + 1, cache'.m.of)  BY <3>5, <3>6, <4>1
      <4> QED  BY <3>7, <4>2, <4>3 DEF Answering
    <3>9. 0 \in 0 .. cache'.m.of - 1  BY <3>2
    <3> QED  BY <1>2, <2>5, <3>8, <3>9 DEF Fetching
  <2> QED  BY <1>1, <2>2, <2>3, <2>4, <2>5 DEF Promised
<1> QED  BY <1>5, <1>6, <1>7, <1>8, <1>9 DEF Delivery

\* While an answer is under way, nothing else is.
LEMMA AnswerAlone ==
    ASSUME RoomInv, WireInv, NEW u \in Users, cache # NoItem, NEW i \in 0 .. cache.m.of - 1, Answering(u, i)
    PROVE  /\ toMember[u] # << >>
           /\ \A k \in DOMAIN toMember[u] : toMember[u][k].kind = "response"
           /\ Head(toMember[u]) = Answer(u)[i + 1]
           /\ Tail(toMember[u]) = SubSeq(Answer(u), (i + 1) + 1, cache.m.of)
<1> DEFINE a == Answer(u)
           l == cache.m.of
           g == i + 1
           q == SubSeq(a, g, l)
<1>1. /\ l \in Nat \ {0} /\ a \in Seq(MemberFrames) /\ Len(a) = l
      /\ \A j \in 1 .. l : a[j].kind = "response"
    BY AnswerFrames
<1>2. g \in 1 .. l /\ toMember[u] = q  BY <1>1 DEF Answering
<1> HIDE DEF a, l, g
<1>3. Head(q) = a[g] /\ Tail(q) = SubSeq(a, g + 1, l)
  <2>1. g \in 1 .. Len(a) /\ l \in g .. Len(a)  BY <1>1, <1>2
  <2> QED  BY <1>1, <2>1, HeadTailOfSubSeq
<1>4. /\ q \in Seq(MemberFrames) /\ Len(q) = IF g <= l THEN l - g + 1 ELSE 0
      /\ \A j \in 1 .. l - g + 1 : q[j] = a[g + j - 1]
  <2>1. g \in Int /\ l \in Int /\ \A j \in g .. l : a[j] \in MemberFrames  BY <1>1, <1>2, ElementOfSeq
  <2> QED  BY <2>1, SubSeqProperties
<1> HIDE DEF q
<1>5. Len(q) = l - g + 1 /\ Len(q) > 0 /\ DOMAIN q = 1 .. l - g + 1  BY <1>1, <1>2, <1>4, LenProperties
<1>6. q # << >>  BY <1>5
<1>7. \A k \in DOMAIN q : q[k].kind = "response"
  <2> TAKE k \in DOMAIN q
  <2>1. g + k - 1 \in 1 .. l /\ q[k] = a[g + k - 1]  BY <1>1, <1>2, <1>4, <1>5
  <2> QED  BY <1>1, <2>1
<1> QED  BY <1>2, <1>3, <1>6, <1>7 DEF a, l, g

\* An item of the feed is lost.
LEMMA LagDelivers ==
    ASSUME NEW u \in Users, Ready(u), Lag(u), cache' = cache
    PROVE  Delivery(u)'
<1> DEFINE q == toMember[u]
           p == toMember'[u]
           n == Len(q)
<1>0. Latest' = Latest /\ Latest \in Nat  BY DEF Latest, Ready, RoomInv
<1>1. /\ Queued(u) /\ Assembled(u) /\ Behind(u) /\ Unjoined(u) /\ Promised(u)
      /\ toMember \in [Users -> Seq(MemberFrames)] /\ missed \in [Users -> BOOLEAN]
      /\ FetchInv /\ Shapes /\ RoomInv /\ WireInv
    BY DEF Ready, Delivery, WireInv, PartTypes
<1>2. /\ session[u] # 0
      /\ UNCHANGED <<session, conns, toRoom, parts, fetch, anchor, version, cached, accept, overlap>>
    BY DEF Lag, client
<1>3. PICK k \in DOMAIN q : /\ q[k].kind = "published" /\ p = RemoveAt(q, k)
                            /\ missed'[u] = (missed[u] \/ (cache # NoItem /\ q[k].v = cache.v))
  <2>1. PICK k \in DOMAIN q :
             /\ q[k].kind = "published"
             /\ missed' = [missed EXCEPT ![u] = @ \/ (cache # NoItem /\ toMember[u][k].v = cache.v)]
             /\ toMember' = [toMember EXCEPT ![u] = RemoveAt(@, k)]
      BY DEF Lag
  <2> QED  BY <1>1, <2>1
<1>4. q \in Seq(MemberFrames) /\ n \in Nat /\ DOMAIN q = 1 .. n /\ k \in 1 .. n  BY <1>1, LenProperties
<1>q. Sorted(q) /\ \A j \in DOMAIN q : Given(q[j], Latest)  BY <1>1 DEF Queued
<1> HIDE DEF q, p, n
<1>5. p \in Seq(MemberFrames) /\ DOMAIN p = 1 .. n - 1
      /\ \A j \in 1 .. n - 1 : p[j] = IF j < k THEN q[j] ELSE q[j + 1]
  <2> DEFINE b == SubSeq(q, 1, k - 1)
             c == SubSeq(q, k + 1, Len(q))
  <2>1. b \in Seq(MemberFrames) /\ Len(b) = k - 1 /\ \A j \in 1 .. k - 1 : b[j] = q[j]
    <3>1. k - 1 \in 0 .. Len(q)  BY <1>4 DEF n
    <3> QED  BY <1>4, <3>1, Split
  <2>2. c \in Seq(MemberFrames) /\ Len(c) = n - k /\ \A j \in 1 .. n - k : c[j] = q[j + k]
    <3>1. k \in 0 .. Len(q)  BY <1>4 DEF n
    <3> QED  BY <1>4, <3>1, Split DEF n
  <2>3. p = b \o c  BY <1>3 DEF RemoveAt
  <2> HIDE DEF b, c
  <2>4. /\ p \in Seq(MemberFrames) /\ Len(p) = Len(b) + Len(c)
        /\ \A j \in 1 .. Len(b) + Len(c) : p[j] = IF j <= Len(b) THEN b[j] ELSE c[j - Len(b)]
      BY <2>1, <2>2, <2>3, ConcatProperties
  <2>5. Len(b) + Len(c) = n - 1  BY <1>4, <2>1, <2>2
  <2>6. ASSUME NEW j \in 1 .. n - 1  PROVE p[j] = IF j < k THEN q[j] ELSE q[j + 1]
    <3>1. p[j] = IF j <= k - 1 THEN b[j] ELSE c[j - (k - 1)]  BY <2>1, <2>4, <2>5
    <3>2. CASE j < k  BY <1>4, <2>1, <3>1, <3>2
    <3>3. CASE ~(j < k)
      <4>1. ~(j <= k - 1) /\ j - (k - 1) \in 1 .. n - k /\ (j - (k - 1)) + k = j + 1  BY <1>4, <3>3
      <4> QED  BY <2>2, <3>1, <3>3, <4>1
    <3> QED  BY <3>2, <3>3
  <2>7. DOMAIN p = 1 .. n - 1  BY <2>4, <2>5, LenProperties
  <2> QED  BY <2>4, <2>6, <2>7
<1>6. /\ \A j \in DOMAIN p : \E g \in DOMAIN q : p[j] = q[g]
      /\ Sorted(q) => Sorted(p)
      /\ \A v, m, i : From(q, v, m, i) /\ (IsPublished(q[k]) => q[k].v # v) => From(p, v, m, i)
  <2>1. Cut(p, q, n, k)  BY <1>4, <1>5 DEF Cut
  <2>2. n \in Nat /\ k \in 1 .. n  BY <1>4
  <2> QED  BY <2>1, <2>2, CutOrder
<1>7. Queued(u)'
  <2>1. \A j \in DOMAIN p : Given(p[j], Latest)  BY <1>6, <1>q
  <2> QED  BY <1>0, <1>6, <1>q, <2>1 DEF Queued, p
<1>8. Assembled(u)'  BY <1>0, <1>1, <1>2, AssembledStill
<1>9. Behind(u)'  BY <1>0, <1>1, <1>2, BehindStill
<1>10. Offline(u)' /\ Unjoined(u)'  BY <1>1, <1>2 DEF Offline, Unjoined
<1>11. Promised(u)'
  <2>1. SUFFICES ASSUME Expects(u)'  PROVE (Reached(u) \/ Coming(u) \/ Fetching(u))'  BY DEF Promised
  <2>2. Expects(u) /\ cache # NoItem /\ q[k].v # cache.v  BY <1>2, <1>3, <2>1 DEF Expects
  <2>3. CASE Reached(u)  BY <1>2, <2>3, ReachedStill
  <2>4. CASE Coming(u)
    <3>1. \A i : From(toMember[u], cache.v, cache.m.of, i) => From(toMember'[u], cache.v, cache.m.of, i)
        BY <1>6, <2>2 DEF p, q
    <3> QED  BY <1>2, <2>4, <3>1, ComingStill
  <2>5. CASE Fetching(u)
    <3>1. q # << >>  BY <1>4
    <3>2. PICK i \in 0 .. cache.m.of - 1 : Answering(u, i)
        BY <2>5, <3>1 DEF Fetching, ToAsk, Asked, Answered, q
    <3>3. q[k].kind = "response"  BY <1>1, <1>4, <2>2, <3>2, AnswerAlone DEF q
    <3> QED  BY <1>3, <3>3
  <2> QED  BY <1>1, <2>2, <2>3, <2>4, <2>5 DEF Promised
<1> QED  BY <1>7, <1>8, <1>9, <1>10, <1>11 DEF Delivery

\* A version no newer than the server's is accepted, or refused.
LEMMA AcceptedReaches ==
    ASSUME RoomInv, Shapes, NEW u \in Users, NEW t \in Tasks, NEW m, NEW v \in Nat,
           AcceptVersion(u, t, m, v), Published(v, m), v <= Latest, Expects(u),
           cache' = cache, cached' = cached, version[u] <= Latest, ~overlap'[u],
           Reached(u) \/ v = cache.v
    PROVE  Reached(u)'
<1>0. /\ cache # NoItem /\ Latest = cache.v /\ cache.v \in Nat /\ cache.m \in Manifest
      /\ Published(cache.v, cache.m) /\ anchor[u] = cache.m.by /\ version[u] \in Nat
    BY DEF Expects, Latest, RoomInv, Shapes
<1>1. v = cache.v => m = cache.m
  <2> SUFFICES ASSUME v = cache.v  PROVE m = cache.m  OBVIOUS
  <2> DEFINE x == [v |-> v, m |-> m]
             y == [v |-> cache.v, m |-> cache.m]
  <2>1. x \in stored /\ y \in stored /\ x.v = y.v /\ x.m = m /\ y.m = cache.m  BY <1>0 DEF Published
  <2> HIDE DEF x, y
  <2>2. x = y  BY <2>1 DEF RoomInv
  <2> QED  BY <2>1, <2>2
<1>2. CASE Anchored(u, m) /\ v >= version[u]
  <2>1. /\ version' = [version EXCEPT ![u] = v] /\ accept' = [accept EXCEPT ![u][t] = m]
        /\ overlap' = [overlap EXCEPT ![u] = @ \/ \E o \in Tasks : accept[u][o] # NoItem]
      BY <1>2 DEF AcceptVersion
  <2>2. version'[u] = v /\ accept'[u][t] = m /\ \A o \in Tasks \ {t} : accept'[u][o] = accept[u][o]
      BY <2>1 DEF Shapes
  <2>3. \A o \in Tasks : accept[u][o] = NoItem
    <3> DEFINE b == overlap[u] \/ \E o \in Tasks : accept[u][o] # NoItem
    <3>1. overlap'[u] = b  BY <2>1 DEF Shapes
    <3> QED  BY <3>1
  <2>4. v = cache.v  BY <1>0, <1>2 DEF Reached
  <2> QED  BY <1>1, <2>2, <2>3, <2>4 DEF Reached
<1>3. CASE ~(Anchored(u, m) /\ v >= version[u])
  <2>1. UNCHANGED <<version, accept>>  BY <1>3 DEF AcceptVersion
  <2>2. Reached(u)
    <3>1. v = cache.v => Anchored(u, m) /\ v >= version[u]  BY <1>0, <1>1 DEF Anchored
    <3> QED  BY <1>3, <3>1
  <2> QED  BY <2>1, <2>2, ReachedStill
<1> QED  BY <1>2, <1>3

\* accept_manifest in a member that publishes nothing: what it goes by is no
\* newer than what the server has.
LEMMA AcceptedBehind ==
    ASSUME Shapes, NEW u \in Users, NEW t, NEW m, NEW v, AcceptVersion(u, t, m, v),
           v <= Latest, version[u] <= Latest
    PROVE  version'[u] <= Latest
<1>1. version'[u] = v \/ version'[u] = version[u]  BY DEF AcceptVersion, Shapes
<1> QED  BY <1>1

\* The fetch is sent, given up on, or accepted.
LEMMA FetchDelivers ==
    ASSUME NEW u \in Users, Ready(u), Fetch(u) \/ FetchTimeout(u) \/ FetchAccept(u), cache' = cache
    PROVE  Delivery(u)'
<1>0. Latest' = Latest /\ Latest \in Nat  BY DEF Latest, Ready, RoomInv
<1>1. /\ Queued(u) /\ Assembled(u) /\ Behind(u) /\ Offline(u) /\ Unjoined(u) /\ Promised(u)
      /\ toMember[u] \in Seq(MemberFrames) /\ toRoom \in [Users -> Seq(RoomFrames)]
      /\ missed \in [Users -> BOOLEAN] /\ FetchInv /\ Shapes /\ RoomInv /\ WireInv
      /\ conns[u] = 0 => fetch[u].st = "away"
    BY DEF Ready, Delivery, WireInv, PartTypes, OrderOf, Absent
<1>2. toMember' = toMember /\ UNCHANGED <<session, conns, parts, anchor, cached>>
    BY DEF Fetch, FetchTimeout, FetchAccept, wire
<1>3. conns[u] # 0  BY <1>1 DEF Fetch, FetchTimeout, FetchAccept
<1>4. Queued(u)' /\ Assembled(u)' /\ Unjoined(u)'
  <2>1. Queued(u)'  BY <1>0, <1>1, <1>2, QueuedStill
  <2>2. Assembled(u)'  BY <1>0, <1>1, <1>2, AssembledStill
  <2> QED  BY <1>2, <1>3, <2>1, <2>2 DEF Unjoined
<1>5. CASE FetchTimeout(u)
  <2>1. /\ fetch'[u] = [st |-> "done"] /\ missed'[u] /\ UNCHANGED <<version, toRoom>>
      BY <1>1, <1>5 DEF FetchTimeout, Shapes
  <2>2. Behind(u)' /\ Offline(u)' /\ Promised(u)'
      BY <1>0, <1>1, <1>2, <2>1 DEF Behind, Offline, Promised, Expects
  <2> QED  BY <1>4, <2>2 DEF Delivery
<1>6. CASE Fetch(u) /\ session[u] = 0
  <2>1. /\ fetch'[u] = [st |-> "done"] /\ UNCHANGED <<missed, version, toRoom>>
      BY <1>1, <1>6 DEF Fetch, Shapes
  <2>2. missed[u]  BY <1>1, <1>3, <1>6 DEF Offline
  <2>3. Behind(u)' /\ Offline(u)' /\ Promised(u)'
      BY <1>0, <1>1, <1>2, <2>1, <2>2 DEF Behind, Offline, Promised, Expects
  <2> QED  BY <1>4, <2>3 DEF Delivery
<1>7. CASE Fetch(u) /\ session[u] # 0
  <2>1. /\ fetch[u].st = "todo" /\ fetch'[u] = [st |-> "waiting"] /\ UNCHANGED <<missed, version, accept, overlap>>
        /\ toRoom'[u] = Append(toRoom[u], [kind |-> "request"])
      BY <1>1, <1>7 DEF Fetch, Shapes
  <2>2. Behind(u)' /\ Offline(u)'
      BY <1>0, <1>1, <1>2, <1>7, <2>1 DEF Behind, Offline
  <2>3. SUFFICES ASSUME Expects(u)'  PROVE (Reached(u) \/ Coming(u) \/ Fetching(u))'
      BY <1>4, <2>2 DEF Promised, Delivery
  <2>4. Expects(u)  BY <1>2, <2>1, <2>3 DEF Expects
  <2>5. CASE Reached(u)  BY <1>2, <2>1, <2>5, ReachedStill
  <2>6. CASE Coming(u)  BY <1>2, <2>6, ComingStill
  <2>7. CASE Fetching(u)
    <3>1. ToAsk(u)  BY <2>1, <2>7 DEF Fetching, Asked, Answered, Answering
    <3>2. toRoom'[u] = <<[kind |-> "request"]>>
      <4>1. Append(<< >>, [kind |-> "request"]) = <<[kind |-> "request"]>>  OBVIOUS
      <4> QED  BY <2>1, <3>1, <4>1 DEF ToAsk
    <3>3. Asked(u)'  BY <1>2, <2>1, <3>1, <3>2 DEF ToAsk, Asked
    <3> QED  BY <1>2, <2>1, <2>7, <3>3 DEF Fetching
  <2> QED  BY <1>1, <2>4, <2>5, <2>6, <2>7 DEF Promised
<1>8. CASE FetchAccept(u)
  <2> DEFINE m == fetch[u].m
             v == fetch[u].v
  <2>1. /\ fetch[u].st = "got" /\ AcceptVersion(u, "fetch", m, v) /\ fetch'[u] = [st |-> "done"]
        /\ UNCHANGED <<missed, toRoom>>
      BY <1>1, <1>8 DEF FetchAccept, wire, Shapes
  <2>2. v \in Nat /\ Published(v, m) /\ v <= Latest
    <3>1. fetch[u] \in Fetches  BY <1>1 DEF Shapes
    <3> QED  BY <1>1, <2>1, <3>1 DEF Fetches, FetchInv, Behind
  <2>3. "fetch" \in Tasks  BY DEF Tasks
  <2> HIDE DEF m, v
  <2>4. Behind(u)'
    <3>1. anchor[u] # u => version'[u] <= Latest  BY <1>1, <2>1, <2>2, AcceptedBehind DEF Behind
    <3> QED  BY <1>0, <1>2, <2>1, <3>1 DEF Behind
  <2>5. Offline(u)'  BY <1>1, <1>2, <2>1 DEF Offline
  <2>6. SUFFICES ASSUME Expects(u)'  PROVE (Reached(u) \/ Coming(u) \/ Fetching(u))'
      BY <1>4, <2>4, <2>5 DEF Promised, Delivery
  <2>7. Expects(u) /\ ~overlap'[u]
    <3>1. overlap[u] => overlap'[u]
      <4> DEFINE b == overlap[u] \/ \E o \in Tasks : accept[u][o] # NoItem
      <4>1. overlap' = overlap \/ overlap' = [overlap EXCEPT ![u] = b]  BY <2>1 DEF AcceptVersion
      <4>2. overlap'[u] = overlap[u] \/ overlap'[u] = b  BY <1>1, <4>1 DEF Shapes
      <4> QED  BY <4>2
    <3> QED  BY <1>2, <2>1, <2>6, <3>1 DEF Expects
  <2>8. version[u] <= Latest  BY <1>1, <2>7 DEF Behind, Expects
  <2>9. CASE Coming(u)  BY <1>2, <2>9, ComingStill
  <2>10. CASE Reached(u) \/ v = cache.v
      BY <1>1, <1>2, <2>1, <2>2, <2>3, <2>7, <2>8, <2>10, AcceptedReaches
  <2>11. CASE Fetching(u)
    <3>1. Answered(u)  BY <2>1, <2>11 DEF Fetching, ToAsk, Asked, Answering
    <3>2. v = cache.v  BY <3>1 DEF Answered, v
    <3> QED  BY <2>10, <3>2
  <2> QED  BY <1>1, <2>7, <2>9, <2>10, <2>11 DEF Promised
<1> QED  BY <1>5, <1>6, <1>7, <1>8

\* The second lock of accept_manifest.
LEMMA CacheDelivers ==
    ASSUME NEW u \in Users, NEW t \in Tasks, Ready(u), AcceptCache(u, t), cache' = cache
    PROVE  Delivery(u)'
<1>0. Latest' = Latest /\ Latest \in Nat  BY DEF Latest, Ready, RoomInv
<1>1. /\ Queued(u) /\ Assembled(u) /\ Behind(u) /\ Offline(u) /\ Unjoined(u) /\ Promised(u)
      /\ toMember[u] \in Seq(MemberFrames) /\ FetchInv /\ Shapes
    BY DEF Ready, Delivery, WireInv
<1>2. /\ accept[u][t] # NoItem /\ cached'[u] = accept[u][t]
      /\ accept'[u][t] = NoItem /\ \A o \in Tasks : o # t => accept'[u][o] = accept[u][o]
      /\ UNCHANGED <<toMember, toRoom, session, conns, missed, parts, fetch, anchor, version, overlap>>
    BY <1>1 DEF AcceptCache, wire, Shapes
<1>3. Queued(u)'  BY <1>0, <1>1, <1>2, QueuedStill
<1>4. Assembled(u)'  BY <1>0, <1>1, <1>2, AssembledStill
<1>5. Behind(u)'  BY <1>0, <1>1, <1>2, BehindStill
<1>6. Offline(u)' /\ Unjoined(u)'  BY <1>1, <1>2 DEF Offline, Unjoined
<1>7. Promised(u)'
  <2>1. SUFFICES ASSUME Expects(u)'  PROVE (Reached(u) \/ Coming(u) \/ Fetching(u))'  BY DEF Promised
  <2>2. Expects(u)  BY <1>2, <2>1 DEF Expects
  <2>3. CASE Reached(u)  BY <1>2, <2>3 DEF Reached
  <2>4. CASE Coming(u)  BY <1>2, <2>4, ComingStill
  <2>5. CASE Fetching(u)  BY <1>2, <2>5 DEF Fetching
  <2> QED  BY <1>1, <2>2, <2>3, <2>4, <2>5 DEF Promised
<1> QED  BY <1>3, <1>4, <1>5, <1>6, <1>7 DEF Delivery

\* Assemblies without progress are dropped.
LEMMA ExpiryDelivers ==
    ASSUME NEW u \in Users, Ready(u), ExpireParts(u), cache' = cache
    PROVE  Delivery(u)'
<1>0. Latest' = Latest /\ Latest \in Nat  BY DEF Latest, Ready, RoomInv
<1>1. /\ Queued(u) /\ Behind(u) /\ Offline(u) /\ Unjoined(u) /\ Promised(u)
      /\ toMember[u] \in Seq(MemberFrames) /\ FetchInv /\ Shapes /\ RoomInv /\ WireInv
      /\ parts \in [Users -> [EntryKinds -> Entries]]
    BY DEF Ready, Delivery, WireInv, PartTypes
<1>2. /\ toMember[u] = << >> /\ \A k \in EntryKinds : parts'[u][k] = NoItem
      /\ UNCHANGED <<toMember, toRoom, session, conns, missed, fetch, anchor, version, cached, accept, overlap>>
  <2>1. /\ toMember[u] = << >> /\ parts' = [parts EXCEPT ![u] = [k \in DOMAIN @ |-> NoItem]]
        /\ UNCHANGED <<toMember, toRoom, session, conns, missed, fetch, anchor, version, cached, accept, overlap>>
      BY DEF ExpireParts, wire
  <2>2. DOMAIN parts[u] = EntryKinds  BY <1>1
  <2> QED  BY <1>1, <2>1, <2>2
<1>3. Queued(u)'
  <2>1. toMember'[u] = toMember[u]  BY <1>2
  <2> QED  BY <1>0, <1>1, <2>1, QueuedStill
<1>4. Assembled(u)' /\ Unjoined(u)'  BY <1>1, <1>2 DEF Assembled, Unjoined, EntryKinds
<1>5. Behind(u)'  BY <1>0, <1>1, <1>2, BehindStill
<1>6. Offline(u)'  BY <1>1, <1>2 DEF Offline
<1>7. Promised(u)'
  <2>1. SUFFICES ASSUME Expects(u)'  PROVE (Reached(u) \/ Coming(u) \/ Fetching(u))'  BY DEF Promised
  <2>2. Expects(u) /\ cache # NoItem  BY <1>2, <2>1 DEF Expects
  <2>3. CASE Reached(u)  BY <1>2, <2>3, ReachedStill
  <2>4. CASE Coming(u)
    <3>1. PICK i \in 0 .. cache.m.of - 1 : From(toMember[u], cache.v, cache.m.of, i)  BY <2>4 DEF Coming
    <3>2. i \in i .. cache.m.of - 1
      <4>1. cache.m.of \in Nat  BY <1>1, <2>2, AnswerFrames
      <4> QED  BY <4>1
    <3>3. DOMAIN toMember[u] # {}  BY <3>1, <3>2 DEF From
    <3> QED  BY <1>2, <3>3
  <2>5. CASE Fetching(u)
    <3>1. \A i \in 0 .. cache.m.of - 1 : ~Answering(u, i)  BY <1>1, <1>2, <2>2, AnswerAlone
    <3>2. ToAsk(u)' \/ Asked(u)' \/ Answered(u)'
        BY <1>2, <2>5, <3>1 DEF Fetching, ToAsk, Asked, Answered, EntryKinds
    <3> QED  BY <1>2, <2>5, <3>2 DEF Fetching
  <2> QED  BY <1>1, <2>2, <2>3, <2>4, <2>5 DEF Promised
<1> QED  BY <1>3, <1>4, <1>5, <1>6, <1>7 DEF Delivery

\* u comes to the room, comes back to it, or publishes.
LEMMA ConnectDelivers ==
    ASSUME NEW u \in Users, Ready(u), JoinShared(u) \/ ReconnectConn(u) \/ Publish(u), cache' = cache
    PROVE  Delivery(u)'
<1>0. Latest' = Latest /\ Latest \in Nat  BY DEF Latest, Ready, RoomInv
<1>1. /\ Queued(u) /\ Assembled(u) /\ Behind(u) /\ Offline(u) /\ Unjoined(u)
      /\ toMember[u] \in Seq(MemberFrames) /\ FetchInv /\ Shapes /\ conns[u] \in Nat
      /\ missed \in [Users -> BOOLEAN] /\ OrderOf(u)
    BY DEF Ready, Delivery, WireInv, PartTypes
<1>2. UNCHANGED <<toMember, toRoom, parts, version, cached, accept, overlap>>
    BY DEF JoinShared, ReconnectConn, Publish, wire
<1>3. Queued(u)'  BY <1>0, <1>1, <1>2, QueuedStill
<1>4. Assembled(u)'  BY <1>0, <1>1, <1>2, AssembledStill
<1>5. CASE JoinShared(u)
  <2>1. /\ conns[u] = 0 /\ session'[u] = conns[u] + 1 /\ conns'[u] = conns[u] + 1
        /\ fetch'[u] = [st |-> "todo"] /\ ~missed'[u]
      BY <1>1, <1>5 DEF JoinShared, NewConn, Shapes
  <2>2. Absent(u) /\ version[u] = 0 /\ parts[u]["response"] = NoItem  BY <1>1, <2>1 DEF OrderOf, Unjoined
  <2>3. toRoom[u] = << >> /\ toMember[u] = << >>  BY <1>1, <2>2 DEF Offline, Absent
  <2>4. Fetching(u)'
    <3>1. ToAsk(u)'  BY <1>2, <2>1, <2>2, <2>3 DEF ToAsk
    <3> QED  BY <1>2, <2>2, <3>1 DEF Fetching, Absent
  <2>5. Behind(u)' /\ Offline(u)' /\ Unjoined(u)'
      BY <1>0, <1>2, <2>1, <2>2 DEF Behind, Offline, Unjoined
  <2> QED  BY <1>3, <1>4, <2>4, <2>5 DEF Delivery, Promised
<1>6. CASE ReconnectConn(u)
  <2>1. /\ session[u] = 0 /\ session'[u] # 0 /\ conns[u] # 0 /\ conns'[u] # 0
        /\ UNCHANGED <<fetch, missed>> /\ (anchor'[u] = anchor[u] \/ anchor'[u] = u)
      BY <1>1, <1>6 DEF ReconnectConn, NewConn, Shapes
  <2>2. missed[u]  BY <1>1, <2>1 DEF Offline
  <2>3. Behind(u)'  BY <1>0, <1>1, <1>2, <2>1, BehindStill
  <2>4. Offline(u)' /\ Unjoined(u)' /\ Promised(u)'  BY <2>1, <2>2 DEF Offline, Unjoined, Promised, Expects
  <2> QED  BY <1>3, <1>4, <2>3, <2>4 DEF Delivery
<1>7. CASE Publish(u)
  <2>1. UNCHANGED <<session, conns, missed, fetch>> /\ anchor'[u] = u
      BY <1>1, <1>7 DEF Publish, wire, Shapes
  <2>2. Behind(u)'  BY <1>0, <1>1, <1>2, <2>1, BehindStill
  <2>3. Offline(u)' /\ Unjoined(u)' /\ Promised(u)'
      BY <1>1, <1>2, <2>1 DEF Offline, Unjoined, Promised, Expects
  <2> QED  BY <1>3, <1>4, <2>2, <2>3 DEF Delivery
<1> QED  BY <1>5, <1>6, <1>7

\* u is about to publish: it goes by what it signed itself.
LEMMA PublisherDelivers ==
    ASSUME NEW u \in Users, Ready(u), NEW s \in Slots,
           Send(u, s) \/ AcceptLocal(u, s) \/ Confirm(u, s) \/ Return(u, s) \/ Retry(u, s), cache' = cache
    PROVE  Delivery(u)'
<1>0. Latest' = Latest /\ Latest \in Nat  BY DEF Latest, Ready, RoomInv
<1>1. /\ Queued(u) /\ Assembled(u) /\ Behind(u) /\ Offline(u) /\ Unjoined(u)
      /\ toMember[u] \in Seq(MemberFrames) /\ OrderOf(u) /\ Shapes
    BY DEF Ready, Delivery, WireInv
<1>2. task[u][s] # NoTask
  <2>1. task[u][s].st # "idle"  BY DEF Send, AcceptLocal, Confirm, Return, Retry
  <2> QED  BY <2>1 DEF NoTask
<1>3. anchor[u] = u /\ conns[u] # 0  BY <1>1, <1>2 DEF OrderOf, Watches, Absent
<1>4. UNCHANGED <<toMember, session, conns, missed, parts, fetch, anchor>>
    BY DEF Send, AcceptLocal, Confirm, Return, Retry, wire, client
<1>5. session[u] = 0 => toRoom'[u] = toRoom[u]
    BY DEF Send, AcceptLocal, Confirm, Return, Retry, wire
<1>6. Queued(u)'  BY <1>0, <1>1, <1>4, QueuedStill
<1>7. Assembled(u)'  BY <1>0, <1>1, <1>4, AssembledStill
<1>8. Behind(u)' /\ Offline(u)' /\ Unjoined(u)' /\ Promised(u)'
    BY <1>0, <1>1, <1>3, <1>4, <1>5 DEF Behind, Offline, Unjoined, Promised, Expects
<1> QED  BY <1>6, <1>7, <1>8 DEF Delivery

\* The next piece of a message of l frames, when the assembly has got to it.
LEMMA NextPiece ==
    ASSUME NEW e, NEW f, NEW l \in Nat \ {0}, NEW i \in 0 .. l - 1, f.m.of = l, f.i = i,
           HasUpTo(e, f.id, i)
    PROVE  /\ i + 1 = l => Completes(e, f)
           /\ i + 1 < l => Pushed(e, f) = [n |-> 1, id |-> f.id, next |-> i + 1] /\ ~Completes(e, f)
<1>1. CASE i = 0
  <2>1. ~Belongs(e, f)  BY <1>1 DEF Belongs, HasUpTo
  <2>2. i + 1 = l => l = 1  BY <1>1
  <2>3. i + 1 < l => l # 1  BY <1>1
  <2> QED  BY <1>1, <2>1, <2>2, <2>3 DEF Completes, Pushed
<1>2. CASE i # 0
  <2>1. e = [n |-> 1, id |-> f.id, next |-> i]  BY <1>2 DEF HasUpTo
  <2>2. e.id = f.id /\ e.next = i /\ e # NoItem /\ [e EXCEPT !.next = @ + 1] = [n |-> 1, id |-> f.id, next |-> i + 1]
      BY <2>1 DEF NoItem
  <2>3. Belongs(e, f) /\ l # 1  BY <1>2, <2>2 DEF Belongs
  <2> HIDE DEF HasUpTo
  <2>4. i + 1 = l => Completes(e, f)  BY <2>2, <2>3 DEF Completes
  <2>5. i + 1 < l => ~Completes(e, f)  BY <2>3 DEF Completes
  <2>6. i + 1 < l => Pushed(e, f) = [e EXCEPT !.next = @ + 1]  BY <2>2, <2>3 DEF Pushed
  <2> QED  BY <2>2, <2>4, <2>5, <2>6
<1> QED  BY <1>1, <1>2

\* What the inbound loop does with a frame, but for the promise.
LEMMA ReceiveKeeps ==
    ASSUME NEW u \in Users, Ready(u), Receive(u), cache' = cache
    PROVE  Queued(u)' /\ Assembled(u)' /\ Behind(u)' /\ Offline(u)' /\ Unjoined(u)'
<1> DEFINE q == toMember[u]
           p == toMember'[u]
           n == Len(q)
           f == Head(q)
<1>0. Latest' = Latest /\ Latest \in Nat  BY DEF Latest, Ready, RoomInv
<1>1. /\ Queued(u) /\ Assembled(u) /\ Behind(u) /\ Offline(u) /\ Unjoined(u)
      /\ toMember \in [Users -> Seq(MemberFrames)] /\ FetchInv /\ Shapes /\ RoomInv /\ WireInv
      /\ parts \in [Users -> [EntryKinds -> Entries]] /\ (conns[u] = 0 => session[u] = 0)
    BY DEF Ready, Delivery, WireInv, PartTypes, OrderOf, Absent
<1>2. /\ session[u] # 0 /\ q # << >> /\ p = Tail(q)
      /\ UNCHANGED <<anchor, session, conns, toRoom, missed>>
    BY <1>1 DEF Receive
<1>3. n \in Nat \ {0} /\ DOMAIN q = 1 .. n /\ f = q[1] /\ f \in MemberFrames /\ Cut(p, q, n, 1)
  <2>1. q \in Seq(MemberFrames) /\ q # << >>  BY <1>1, <1>2
  <2> HIDE DEF q
  <2> QED  BY <1>2, <2>1, TailCut
<1>p. PartTypes  BY DEF Ready
<1>q. Sorted(q) /\ \A j \in DOMAIN q : Given(q[j], Latest)  BY <1>1 DEF Queued
<1>b. /\ f.kind = "error" => UNCHANGED <<parts, version>>
      /\ f.kind # "error" => /\ parts' = [parts EXCEPT ![u] = Begun(@, f)]
                             /\ version' = version \/ AcceptVersion(u, "inbound", f.m, f.v)
    BY DEF Receive
<1>f. /\ f.kind = "error" => fetch'[u] \in {fetch[u], [st |-> "done"]}
      /\ f.kind # "error" => fetch'[u] \in {fetch[u], [st |-> "got", m |-> f.m, v |-> f.v]}
  <2>1. fetch \in [Users -> Fetches]  BY <1>1 DEF Shapes
  <2>2. f.kind = "error" => fetch' = [fetch EXCEPT ![u] = IF @.st = "waiting" THEN [st |-> "done"] ELSE @]
      BY DEF Receive
  <2>3. f.kind # "error" => fetch' = [fetch EXCEPT ![u] =
            IF f.kind = "response" /\ @.st = "waiting" /\ Completes(parts[u]["response"], f)
            THEN [st |-> "got", m |-> f.m, v |-> f.v] ELSE @]
      BY DEF Receive
  <2> HIDE DEF f
  <2> QED  BY <2>1, <2>2, <2>3
<1> HIDE DEF q, p, n, f
<1>4. Given(f, Latest) /\ (f.kind # "error" => f.v <= Latest)  BY <1>3, <1>q DEF Given
<1>5. Queued(u)'
  <2>2. 1 \in 1 .. n /\ n \in Nat  BY <1>3
  <2>3. /\ \A j \in DOMAIN p : \E g \in DOMAIN q : p[j] = q[g]
        /\ Sorted(q) => Sorted(p)
      BY <1>3, <2>2, CutOrder
  <2>4. \A j \in DOMAIN p : Given(p[j], Latest)  BY <1>q, <2>3
  <2> QED  BY <1>0, <1>q, <2>3, <2>4 DEF Queued, p
<1>6. Assembled(u)'
  <2>1. CASE f.kind = "error"  BY <1>0, <1>1, <1>b, <2>1, AssembledStill
  <2>2. CASE f.kind = "response"
    <3>1. parts'[u]["published"] = parts[u]["published"]
      <4>1. "published" \in EntryKinds /\ f.kind \in EntryKinds /\ f.kind # "published" /\ f.kind # "error"
          BY <2>2 DEF EntryKinds
      <4> QED  BY <1>p, <1>b, <4>1, PartsTaken
    <3> QED  BY <1>0, <1>1, <3>1, AssembledStill
  <2>3. CASE f.kind = "published"
    <3> DEFINE e == parts[u]["published"]
               g == parts'[u]["published"]
    <3>1. e \in Entries /\ g = Pushed(e, f)
      <4>1. "published" \in EntryKinds /\ f.kind = "published" /\ f.kind # "error"  BY <2>3 DEF EntryKinds
      <4> HIDE DEF e, g
      <4>2. e \in Entries  BY <1>1, <4>1 DEF e
      <4>3. g = Pushed(e, f)  BY <1>p, <1>b, <4>1, PartsTaken DEF e, g
      <4> QED  BY <4>2, <4>3
    <3>2. f.id = <<"v", f.v>> /\ f.v \in Nat /\ f.v <= Latest /\ f.id \in {"v", "r"} \X Nat
      <4>1. f.kind # "error" /\ IsPublished(f)  BY <2>3 DEF IsPublished
      <4> QED  BY <1>3, <1>4, <4>1 DEF Given, MemberFrames
    <3>3. e # NoItem => \E w \in 0 .. Latest : e.id = <<"v", w>>  BY <1>1 DEF Assembled
    <3>4. g # NoItem => g.id = f.id \/ (e # NoItem /\ g.id = e.id)
      <4> HIDE DEF e, g
      <4>1. \/ Pushed(e, f) = NoItem
            \/ e # NoItem /\ Pushed(e, f) # NoItem /\ Pushed(e, f).id = e.id
            \/ Pushed(e, f) = [n |-> 1, id |-> f.id, next |-> 1]
          BY <3>1, <3>2, PushedEntry
      <4> QED  BY <3>1, <4>1
    <3>5. f.v \in 0 .. Latest  BY <1>0, <3>2
    <3>6. g # NoItem => \E w \in 0 .. Latest : g.id = <<"v", w>>
      <4> HIDE DEF e, g
      <4> QED  BY <3>2, <3>3, <3>4, <3>5
    <3> QED  BY <1>0, <3>6 DEF Assembled
  <2> QED  BY <1>3, <2>1, <2>2, <2>3 DEF MemberFrames
<1>7. Behind(u)'
  <2>1. anchor[u] # u => version'[u] <= Latest
    <3>1. SUFFICES ASSUME anchor[u] # u  PROVE version'[u] <= Latest  OBVIOUS
    <3>2. version[u] <= Latest  BY <1>1, <3>1 DEF Behind
    <3>3. CASE version' = version  BY <3>2, <3>3
    <3>4. CASE f.kind # "error" /\ AcceptVersion(u, "inbound", f.m, f.v)
        BY <1>1, <1>4, <3>2, <3>4, AcceptedBehind
    <3> QED  BY <1>b, <3>3, <3>4
  <2>2. fetch'[u].st = "got" => fetch'[u].v <= Latest
    <3>1. fetch[u].st = "got" => fetch[u].v <= Latest  BY <1>1 DEF Behind
    <3>2. CASE f.kind = "error"
      <4>1. fetch'[u] = [st |-> "done"] \/ fetch'[u] = fetch[u]  BY <1>f, <3>2
      <4> QED  BY <3>1, <4>1
    <3>3. CASE f.kind # "error"  BY <1>f, <1>4, <3>1, <3>3
    <3> QED  BY <3>2, <3>3
  <2> QED  BY <1>0, <1>2, <2>1, <2>2 DEF Behind
<1>8. Offline(u)' /\ Unjoined(u)'  BY <1>1, <1>2 DEF Offline, Unjoined
<1> QED  BY <1>5, <1>6, <1>7, <1>8

\* A frame of a broadcast brings u closer to the newest manifest.
LEMMA PublishedDelivers ==
    ASSUME NEW u \in Users, Ready(u), Receive(u), cache' = cache, Expects(u), ~overlap'[u],
           NEW f, f = Head(toMember[u]), f.kind = "published", Reached(u) \/ Coming(u)
    PROVE  Reached(u)' \/ Coming(u)'
<1> DEFINE q == toMember[u]
           p == toMember'[u]
           n == Len(q)
           e == parts[u]["published"]
           g == parts'[u]["published"]
           l == cache.m.of
           c == <<"v", cache.v>>
<1>0. /\ Latest = cache.v /\ cache.v \in Nat /\ cache.m \in Manifest /\ Published(cache.v, cache.m) /\ l \in Nat \ {0}
      /\ cache # NoItem
    BY AnswerFrames DEF Expects, Latest, Ready
<1>1. /\ Queued(u) /\ Behind(u) /\ Assembled(u)
      /\ toMember \in [Users -> Seq(MemberFrames)] /\ Shapes /\ RoomInv /\ WireInv
      /\ parts \in [Users -> [EntryKinds -> Entries]]
    BY DEF Ready, Delivery, WireInv, PartTypes
<1>p. PartTypes  BY DEF Ready
<1>2. q # << >> /\ p = Tail(q) /\ cached' = cached  BY <1>1 DEF Receive
<1>3. /\ q \in Seq(MemberFrames) /\ n \in Nat \ {0} /\ DOMAIN q = 1 .. n
      /\ f = q[1] /\ f \in MemberFrames /\ Cut(p, q, n, 1)
  <2>1. q \in Seq(MemberFrames) /\ q # << >> /\ f = Head(q)  BY <1>1, <1>2
  <2> HIDE DEF q
  <2> QED  BY <1>2, <2>1, TailCut
<1>4. /\ f.v \in Nat /\ f.m \in Manifest /\ f.i \in Nat /\ f.id \in {"v", "r"} \X Nat
      /\ Published(f.v, f.m) /\ IsPublished(f)
    BY <1>3 DEF MemberFrames, Published, IsPublished
<1>5. f.v <= cache.v /\ f.id = <<"v", f.v>>
  <2>1. 1 \in DOMAIN q /\ f = q[1]  BY <1>3
  <2>2. \A j \in DOMAIN q : Given(q[j], Latest)  BY <1>1 DEF Queued
  <2>3. Given(f, Latest)
    <3> HIDE DEF q
    <3> QED  BY <2>1, <2>2
  <2> QED  BY <1>0, <1>4, <2>3 DEF Given
<1>6. g = Pushed(e, f) /\ e \in Entries
  <2>1. parts' = [parts EXCEPT ![u] = Begun(@, f)]  BY DEF Receive
  <2>2. f.kind \in EntryKinds /\ f.kind = "published"  BY DEF EntryKinds
  <2>3. e \in Entries  BY <1>1, <2>2
  <2> HIDE DEF e, g
  <2>4. g = Pushed(e, f)  BY <1>p, <2>1, <2>2, PartsTaken DEF e, g
  <2> QED  BY <2>3, <2>4
<1>7. IF Completes(e, f) THEN AcceptVersion(u, "inbound", f.m, f.v) ELSE UNCHANGED <<version, accept, overlap>>
    BY DEF Receive
<1>8. version[u] <= Latest /\ "inbound" \in Tasks  BY <1>1 DEF Behind, Expects, Tasks
<1>9. CASE Reached(u)
  <2>1. CASE Completes(e, f)
    <3>1. AcceptVersion(u, "inbound", f.m, f.v)  BY <1>7, <2>1
    <3> HIDE DEF e
    <3> QED  BY <1>0, <1>1, <1>2, <1>4, <1>5, <1>8, <1>9, <3>1, AcceptedReaches
  <2>2. CASE ~Completes(e, f)
    <3>1. UNCHANGED <<version, accept>>  BY <1>7, <2>2
    <3> QED  BY <1>2, <1>9, <3>1, ReachedStill
  <2> QED  BY <2>1, <2>2
<1>10. CASE Coming(u)
  <2>1. PICK i \in 0 .. l - 1 : From(q, cache.v, l, i) /\ HasUpTo(e, c, i)  BY <1>10 DEF Coming
  <2> HIDE DEF q, p, n, e, g, l, c
  <2>2. CASE f.v # cache.v
    <3>1. i = 0  BY <1>3, <1>4, <2>1, <2>2 DEF From
    <3>2. From(p, cache.v, l, 0)
      <4>2. 1 \in 1 .. n /\ n \in Nat /\ q[1].v # cache.v  BY <1>3, <2>2
      <4> QED  BY <1>3, <2>1, <3>1, <4>2, CutOrder
    <3>3. f.id # c
      <4>1. f.v # cache.v  BY <2>2
      <4> QED  BY <1>5, <4>1 DEF c
    <3>4. e = NoItem \/ e.id # c  BY <2>1, <3>1 DEF HasUpTo
    <3>5. \/ Pushed(e, f) = NoItem
          \/ e # NoItem /\ Pushed(e, f) # NoItem /\ Pushed(e, f).id = e.id
          \/ Pushed(e, f) = [n |-> 1, id |-> f.id, next |-> 1]
        BY <1>4, <1>6, PushedEntry
    <3>6. HasUpTo(g, c, 0)  BY <1>6, <3>3, <3>4, <3>5 DEF HasUpTo
    <3>7. 0 \in 0 .. l - 1  BY <1>0
    <3> QED  BY <3>2, <3>6, <3>7 DEF Coming, p, g, l, c
  <2>3. CASE f.v = cache.v
    <3>1. f.m = cache.m
      <4> DEFINE x == [v |-> f.v, m |-> f.m]
                 y == [v |-> cache.v, m |-> cache.m]
      <4>1. x \in stored /\ y \in stored /\ x.v = y.v /\ x.m = f.m /\ y.m = cache.m
          BY <1>0, <1>4, <2>3 DEF Published
      <4> HIDE DEF x, y
      <4>2. x = y  BY <1>1, <4>1 DEF RoomInv
      <4> QED  BY <4>1, <4>2
    <3>2. \A j \in 1 .. n : IsPublished(q[j]) => q[j].v \in Nat /\ q[j].i \in Nat /\ q[j].v <= cache.v
      <4> SUFFICES ASSUME NEW j \in 1 .. n, IsPublished(q[j])
                   PROVE  q[j].v \in Nat /\ q[j].i \in Nat /\ q[j].v <= cache.v
          OBVIOUS
      <4>1. q[j] \in MemberFrames  BY <1>3
      <4>2. Given(q[j], Latest)  BY <1>1, <1>3 DEF Queued, q
      <4> QED  BY <1>0, <4>1, <4>2 DEF Given, MemberFrames, IsPublished
    <3>3. Sorted(q)  BY <1>1 DEF Queued, q
    <3>4. f.i = i /\ From(p, cache.v, l, i + 1)
      <4>1. IsPublished(q[1]) /\ q[1].v = cache.v  BY <1>3, <1>4, <2>3
      <4>2. q[1].i = i /\ From(p, cache.v, l, i + 1)
          BY <1>0, <1>3, <2>1, <3>2, <3>3, <4>1, HeadIsDue
      <4> QED  BY <1>3, <4>2
    <3>5. f.id = c /\ f.m.of = l  BY <1>5, <2>3, <3>1 DEF c, l
    <3>6. /\ i + 1 = l => Completes(e, f)
          /\ i + 1 < l => Pushed(e, f) = [n |-> 1, id |-> f.id, next |-> i + 1]
        BY <1>0, <2>1, <3>4, <3>5, NextPiece
    <3>7. CASE i + 1 = l
      <4>1. AcceptVersion(u, "inbound", f.m, f.v)  BY <1>7, <3>6, <3>7 DEF e
      <4> QED  BY <1>0, <1>1, <1>2, <1>4, <1>5, <1>8, <2>3, <4>1, AcceptedReaches
    <3>8. CASE i + 1 < l
      <4>1. g = [n |-> 1, id |-> c, next |-> i + 1]  BY <1>6, <3>5, <3>6, <3>8
      <4>2. i + 1 # 0 /\ i + 1 \in 0 .. l - 1  BY <1>0, <3>8
      <4>3. HasUpTo(g, c, i + 1)  BY <4>1, <4>2 DEF HasUpTo
      <4> QED  BY <3>4, <4>2, <4>3 DEF Coming, p, g, l, c
    <3> QED  BY <1>0, <3>7, <3>8
  <2> QED  BY <2>2, <2>3
<1> QED  BY <1>9, <1>10

\* So does one of the answer to its fetch.
LEMMA ResponseDelivers ==
    ASSUME NEW u \in Users, Ready(u), Receive(u), cache' = cache, Expects(u), Fetching(u)
    PROVE  Fetching(u)'
<1> DEFINE f == Head(toMember[u])
           a == Answer(u)
           l == cache.m.of
           id == AnswerId(u)
           e == parts[u]["response"]
           g == parts'[u]["response"]
<1>0. cache # NoItem /\ RoomInv /\ WireInv /\ Shapes /\ parts \in [Users -> [EntryKinds -> Entries]]
    BY DEF Expects, Ready, PartTypes
<1>p. PartTypes  BY DEF Ready
<1>1. /\ toMember[u] # << >> /\ toMember'[u] = Tail(toMember[u])
      /\ UNCHANGED <<cached, conns, toRoom>>
    BY <1>0 DEF Receive, WireInv
<1>2. PICK i \in 0 .. l - 1 : Answering(u, i)
    BY <1>1 DEF Fetching, ToAsk, Asked, Answered
<1>3. l \in Nat \ {0} /\ Len(a) = l /\ a \in Seq(MemberFrames)
      /\ \A j \in 1 .. l :
            a[j] = [kind |-> "response", id |-> id, v |-> cache.v, m |-> cache.m, i |-> j - 1]
    BY <1>0, AnswerFrames
<1>4. f = a[i + 1] /\ Tail(toMember[u]) = SubSeq(a, (i + 1) + 1, l)  BY <1>0, <1>2, AnswerAlone
<1>5. /\ fetch[u].st = "waiting" /\ toRoom[u] = << >>
      /\ e = IF i = 0 THEN NoItem ELSE [n |-> 1, id |-> id, next |-> i]
    BY <1>2 DEF Answering
<1>6. f.kind = "response" /\ f.id = id /\ f.v = cache.v /\ f.m = cache.m /\ f.i = i
  <2> HIDE DEF f, a, id, l
  <2>1. i + 1 \in 1 .. l /\ (i + 1) - 1 = i  BY <1>3
  <2>2. f = [kind |-> "response", id |-> id, v |-> cache.v, m |-> cache.m, i |-> i]
      BY <1>3, <1>4, <2>1
  <2> QED  BY <2>2
<1>7. /\ UNCHANGED <<version, accept, overlap>>
      /\ parts' = [parts EXCEPT ![u] = Begun(@, f)]
      /\ fetch'[u] = IF Completes(e, f) THEN [st |-> "got", m |-> f.m, v |-> f.v] ELSE fetch[u]
  <2>1. f.kind = "response" /\ f.kind # "error" /\ f.kind # "published"  BY <1>6
  <2>2. /\ UNCHANGED <<version, accept, overlap>>
        /\ parts' = [parts EXCEPT ![u] = Begun(@, f)]
        /\ fetch' = [fetch EXCEPT ![u] =
               IF @.st = "waiting" /\ Completes(e, f) THEN [st |-> "got", m |-> f.m, v |-> f.v] ELSE @]
      BY <2>1 DEF Receive
  <2> HIDE DEF f, e
  <2>3. fetch \in [Users -> Fetches]  BY <1>0 DEF Shapes
  <2> QED  BY <1>5, <2>2, <2>3
<1>8. g = Pushed(e, f)
  <2>1. f.kind = "response" /\ "response" \in EntryKinds  BY <1>6 DEF EntryKinds
  <2> HIDE DEF f
  <2> QED  BY <1>p, <1>7, <2>1, PartsTaken
<1>9. Answer(u)' = a /\ AnswerId(u)' = id  BY <1>1 DEF Answer, AnswerId, FramesOf
<1> HIDE DEF f, a, l, id, e, g
<1>10. HasUpTo(e, f.id, i)  BY <1>5, <1>6 DEF HasUpTo
<1>11. /\ i + 1 = l => Completes(e, f)
       /\ i + 1 < l => Pushed(e, f) = [n |-> 1, id |-> f.id, next |-> i + 1] /\ ~Completes(e, f)
  <2>1. f.m.of = l  BY <1>6 DEF l
  <2> QED  BY <1>3, <1>6, <1>10, <2>1, NextPiece
<1>12. cached'[u] = NoItem /\ \A t \in Tasks : accept'[u][t] = NoItem  BY <1>1, <1>7 DEF Fetching
<1>13. CASE i + 1 = l
  <2>1. toMember'[u] = << >>
    <3>1. (i + 1) + 1 \in Int /\ l \in Int /\ l < (i + 1) + 1  BY <1>3, <1>13
    <3> QED  BY <1>1, <1>4, <3>1, SubSeqEmpty
  <2>2. fetch'[u] = [st |-> "got", m |-> cache.m, v |-> cache.v]  BY <1>6, <1>7, <1>11, <1>13
  <2>3. toRoom'[u] = << >>  BY <1>1, <1>5
  <2>4. fetch'[u].st = "got" /\ fetch'[u].v = cache'.v /\ fetch'[u].m = cache'.m  BY <2>2
  <2>5. Answered(u)'  BY <2>1, <2>3, <2>4 DEF Answered
  <2> QED  BY <1>12, <2>5 DEF Fetching
<1>14. CASE i + 1 < l
  <2>1. i + 1 \in 0 .. l - 1 /\ i + 1 # 0  BY <1>3, <1>14
  <2>2. parts'[u]["response"] = [n |-> 1, id |-> id, next |-> i + 1]  BY <1>6, <1>8, <1>11, <1>14 DEF g
  <2>3. fetch'[u].st = "waiting"  BY <1>5, <1>7, <1>11, <1>14
  <2>4. toMember'[u] = SubSeq(a, (i + 1) + 1, l)  BY <1>1, <1>4
  <2>5. Answering(u, i + 1)'
      BY <1>1, <1>5, <1>9, <2>1, <2>2, <2>3, <2>4 DEF Answering, l
  <2>6. i + 1 \in 0 .. cache'.m.of - 1  BY <2>1 DEF l
  <2> QED  BY <1>12, <2>5, <2>6 DEF Fetching
<1> QED  BY <1>3, <1>13, <1>14

\* A frame reaches the inbound loop.
LEMMA ReceiveDelivers ==
    ASSUME NEW u \in Users, Ready(u), Receive(u), cache' = cache
    PROVE  Delivery(u)'
<1> DEFINE f == Head(toMember[u])
<1>1. Queued(u)' /\ Assembled(u)' /\ Behind(u)' /\ Offline(u)' /\ Unjoined(u)'  BY ReceiveKeeps
<1>2. SUFFICES ASSUME Expects(u)'  PROVE (Reached(u) \/ Coming(u) \/ Fetching(u))'
    BY <1>1 DEF Promised, Delivery
<1>3. /\ toMember[u] \in Seq(MemberFrames) /\ toMember[u] # << >> /\ toMember'[u] = Tail(toMember[u])
      /\ UNCHANGED <<anchor, conns, missed, cached>> /\ Shapes /\ Promised(u)
      /\ parts \in [Users -> [EntryKinds -> Entries]]
  <2>1. toMember \in [Users -> Seq(MemberFrames)] /\ Shapes /\ Promised(u)
        /\ parts \in [Users -> [EntryKinds -> Entries]]
      BY DEF Ready, Delivery, WireInv, PartTypes
  <2> QED  BY <2>1 DEF Receive
<1>4. f \in MemberFrames
  <2> QED  BY <1>3
<1>5. overlap[u] => overlap'[u]
  <2> DEFINE b == overlap[u] \/ \E o \in Tasks : accept[u][o] # NoItem
  <2>1. overlap' = overlap \/ overlap' = [overlap EXCEPT ![u] = b]
      BY DEF Receive, AcceptVersion
  <2>2. overlap'[u] = overlap[u] \/ overlap'[u] = b  BY <1>3, <2>1 DEF Shapes
  <2> QED  BY <2>2
<1>6. Expects(u) /\ ~overlap'[u]  BY <1>2, <1>3, <1>5 DEF Expects
<1>7. CASE Fetching(u)  BY <1>6, <1>7, ResponseDelivers
<1>8. CASE (Reached(u) \/ Coming(u)) /\ f.kind = "published"
    BY <1>6, <1>8, PublishedDelivers
<1>9. CASE (Reached(u) \/ Coming(u)) /\ f.kind # "published"
  <2>1. UNCHANGED <<version, accept>> /\ parts'[u]["published"] = parts[u]["published"]
    <3>1. CASE f.kind = "error"  BY <3>1 DEF Receive
    <3>2. CASE f.kind # "error"
      <4>1. UNCHANGED <<version, accept>> /\ parts' = [parts EXCEPT ![u] = Begun(@, f)]
          BY <1>9, <3>2 DEF Receive
      <4>2. f.kind # "published" /\ f.kind \in EntryKinds /\ "published" \in EntryKinds
          BY <1>4, <1>9, <3>2 DEF MemberFrames, EntryKinds
      <4>3. PartTypes  BY DEF Ready
      <4> HIDE DEF f
      <4> QED  BY <4>1, <4>2, <4>3, PartsTaken
    <3> QED  BY <3>1, <3>2
  <2>2. CASE Reached(u)  BY <1>3, <2>1, <2>2, ReachedStill
  <2>3. CASE Coming(u)
    <3> DEFINE q == toMember[u]
               p == toMember'[u]
               n == Len(q)
    <3>1. n \in Nat \ {0} /\ f = q[1] /\ Cut(p, q, n, 1)
      <4>1. q \in Seq(MemberFrames) /\ q # << >> /\ p = Tail(q)  BY <1>3
      <4> HIDE DEF q
      <4>2. Head(q) = q[1] /\ n \in Nat \ {0} /\ Cut(p, q, n, 1)  BY <4>1, TailCut
      <4> QED  BY <4>2 DEF q
    <3>2. ~IsPublished(q[1])  BY <1>9, <3>1 DEF IsPublished
    <3> HIDE DEF q, p, n, f
    <3>4. 1 \in 1 .. n /\ n \in Nat  BY <3>1
    <3>5. \A v, m, i : From(q, v, m, i) => From(p, v, m, i)  BY <3>1, <3>2, <3>4, CutOrder
    <3> QED  BY <2>1, <2>3, <3>5, ComingStill DEF p, q
  <2> QED  BY <1>9, <2>2, <2>3
<1> QED  BY <1>3, <1>6, <1>7, <1>8, <1>9 DEF Promised

-----------------------------------------------------------------------------
(* Manifests: every step keeps the promise.                                   *)

\* A step of x's: its frames at the server, its tasks, its link, its losses.
StepOf(x) == \/ ServePublish(x) \/ ServeFetch(x) \/ Run(x)
             \/ Publish(x) \/ JoinShared(x) \/ ReconnectConn(x)
             \/ Lag(x) \/ Limited(x) \/ LoseConn(x) \/ ExpireParts(x) \/ FetchTimeout(x)
             \/ \E s \in Slots : Retry(x, s)

\* Every step is the room's or somebody's.
LEMMA WhoseStep ==
    ASSUME Step
    PROVE  \/ Announce \/ Crash \/ UNCHANGED manifestVars
           \/ \E x \in Users : Migrate(x) \/ StepOf(x)
<1>1. Work => Announce \/ \E x \in Users : StepOf(x)  BY DEF Work, RoomServes, StepOf
<1>2. Input => \E x \in Users : StepOf(x)  BY DEF Input, StepOf
<1>3. Misfortune => Crash \/ \E x \in Users : Migrate(x) \/ StepOf(x)  BY DEF Misfortune, StepOf
<1> QED  BY <1>1, <1>2, <1>3 DEF Step, ManifestsNext

\* It moves nothing of anybody else's.
LEMMA OthersUntouched ==
    ASSUME Step, WireInv, PartTypes, Shapes, NEW x \in Users, StepOf(x), NEW u \in Users, u # x
    PROVE  Untouched(u)
<1>1. Still(u)
  <2>1. CASE ServePublish(x) \/ ServeFetch(x)  BY <2>1, AllStill DEF RoomServes
  <2>2. CASE Lag(x) \/ Limited(x) \/ ExpireParts(x)  BY <2>2, AllStill
  <2>3. CASE Run(x)  BY <2>3, OthersStill DEF Run
  <2>4. CASE \/ Publish(x) \/ JoinShared(x) \/ ReconnectConn(x)
             \/ LoseConn(x) \/ FetchTimeout(x) \/ \E s \in Slots : Retry(x, s)
      BY <2>4, OthersStill
  <2> QED  BY <2>1, <2>2, <2>3, <2>4 DEF StepOf
<1> DEFINE Same == /\ toMember'[u] = toMember[u] /\ toRoom'[u] = toRoom[u]
                   /\ session'[u] = session[u] /\ missed'[u] = missed[u] /\ parts'[u] = parts[u]
<1>s. SUFFICES Same  BY <1>1 DEF Untouched, Still
<1>2. /\ session \in [Users -> Nat] /\ conns \in [Users -> Nat]
      /\ toRoom \in [Users -> Seq(RoomFrames)] /\ toMember \in [Users -> Seq(MemberFrames)]
      /\ missed \in [Users -> BOOLEAN] /\ parts \in [Users -> [EntryKinds -> Entries]]
    BY DEF WireInv, PartTypes
<1>3. CASE ServePublish(x) \/ ServeFetch(x)
  <2>1. /\ UNCHANGED <<session, missed, parts>> /\ TookUp(x)
        /\ toMember' = toMember \/ \E q : toMember' = [toMember EXCEPT ![x] = q]
      BY <1>3 DEF ServePublish, ServeFetch, client
  <2> QED  BY <1>2, <2>1 DEF TookUp
<1>4. CASE Lag(x)
  <2>1. /\ UNCHANGED <<session, toRoom, parts>>
        /\ \E b : missed' = [missed EXCEPT ![x] = b]
        /\ \E q : toMember' = [toMember EXCEPT ![x] = q]
      BY <1>4 DEF Lag, client
  <2> QED  BY <1>2, <2>1
<1>5. CASE Limited(x)
  <2>1. /\ UNCHANGED <<session, toMember, parts>> /\ TookUp(x)
        /\ \E b : missed' = [missed EXCEPT ![x] = b]
      BY <1>5 DEF Limited, client
  <2> QED  BY <1>2, <2>1 DEF TookUp
<1>6. CASE ExpireParts(x)
  <2>1. UNCHANGED <<session, toRoom, toMember, missed>> /\ \E e : parts' = [parts EXCEPT ![x] = e]
      BY <1>6 DEF ExpireParts, wire
  <2> QED  BY <1>2, <2>1
<1>7. CASE Receive(x)
  <2>1. /\ UNCHANGED <<session, toRoom, missed>>
        /\ parts' = parts \/ \E e : parts' = [parts EXCEPT ![x] = e]
        /\ toMember' = [toMember EXCEPT ![x] = Tail(@)]
      BY <1>7 DEF Receive
  <2> QED  BY <1>2, <2>1
<1>8. CASE Fetch(x) \/ \E s \in Slots : Send(x, s)
  <2>1. /\ UNCHANGED <<session, toMember, missed, parts>>
        /\ toRoom' = toRoom \/ \E q : toRoom' = [toRoom EXCEPT ![x] = q]
      BY <1>8 DEF Fetch, Send, client
  <2> QED  BY <1>2, <2>1
<1>9. CASE \/ FetchAccept(x) \/ \E t \in Tasks : AcceptCache(x, t)
           \/ \E s \in Slots : AcceptLocal(x, s) \/ Confirm(x, s) \/ Return(x, s) \/ Retry(x, s)
  <2>1. UNCHANGED <<session, toRoom, toMember, missed, parts>>
      BY <1>9 DEF FetchAccept, AcceptCache, AcceptLocal, Confirm, Return, Retry, wire, client
  <2> QED  BY <2>1
<1>10. CASE FetchTimeout(x)
  <2>1. UNCHANGED <<session, toRoom, toMember, parts>> /\ missed' = [missed EXCEPT ![x] = TRUE]
      BY <1>10 DEF FetchTimeout
  <2> QED  BY <1>2, <2>1
<1>11. CASE Publish(x)
  <2>1. UNCHANGED <<session, toRoom, toMember, missed, parts>>  BY <1>11 DEF Publish, wire
  <2> QED  BY <2>1
<1>12. CASE JoinShared(x) \/ ReconnectConn(x)
  <2>1. /\ UNCHANGED <<toRoom, toMember, parts>> /\ session' = [session EXCEPT ![x] = conns[x] + 1]
        /\ missed' = missed \/ missed' = [missed EXCEPT ![x] = FALSE]
      BY <1>12 DEF JoinShared, ReconnectConn, NewConn
  <2> QED  BY <1>2, <2>1
<1>13. CASE LoseConn(x)
  <2>1. /\ session' = [session EXCEPT ![x] = 0] /\ toRoom' = [toRoom EXCEPT ![x] = << >>]
        /\ toMember' = [toMember EXCEPT ![x] = << >>] /\ missed' = [missed EXCEPT ![x] = TRUE]
        /\ parts' = parts
      BY <1>13 DEF LoseConn, client
  <2> QED  BY <1>2, <2>1
<1> QED
    BY <1>3, <1>4, <1>5, <1>6, <1>7, <1>8, <1>9, <1>10, <1>11, <1>12, <1>13 DEF StepOf, Run

\* A step of u's own.
LEMMA OwnDelivers ==
    ASSUME NEW u \in Users, Ready(u), StepOf(u), cache' = cache
    PROVE  Delivery(u)'
<1>0. /\ Latest \in Nat /\ Latest' = Latest
      /\ toMember \in [Users -> Seq(MemberFrames)] /\ toRoom \in [Users -> Seq(RoomFrames)]
      /\ session \in [Users -> Nat] /\ missed \in [Users -> BOOLEAN]
    BY DEF Ready, RoomInv, WireInv, PartTypes, Latest
<1>1. CASE ServePublish(u)
  <2>1. /\ session[u] # 0 /\ toRoom[u] # << >> /\ Head(toRoom[u]).kind = "publish"
        /\ UNCHANGED <<session, toMember, missed>>
        /\ UNCHANGED <<conns, parts, fetch, anchor, version, cached, accept, overlap>>
      BY <1>1 DEF ServePublish, client
  <2> QED  BY <2>1, RoomTakes
<1>2. CASE Limited(u)
  <2>1. /\ session[u] # 0 /\ toRoom[u] # << >>
        /\ missed' = [missed EXCEPT ![u] = @ \/ Head(toRoom[u]).kind = "request"]
        /\ UNCHANGED <<session, toMember>>
        /\ UNCHANGED <<conns, parts, fetch, anchor, version, cached, accept, overlap>>
      BY <1>2 DEF Limited, client
  <2> DEFINE b == missed[u] \/ Head(toRoom[u]).kind = "request"
  <2>2. missed'[u] = b  BY <1>0, <2>1
  <2>3. ~missed'[u] => ~missed[u] /\ Head(toRoom[u]).kind # "request"  BY <2>2
  <2> HIDE DEF b
  <2> QED  BY <2>1, <2>3, RoomTakes
<1>3. CASE LoseConn(u)
  <2>1. /\ session' = [session EXCEPT ![u] = 0] /\ toRoom' = [toRoom EXCEPT ![u] = << >>]
        /\ toMember' = [toMember EXCEPT ![u] = << >>] /\ missed' = [missed EXCEPT ![u] = TRUE]
        /\ conns' = conns /\ UNCHANGED <<parts, fetch, anchor, version>>
      BY <1>3 DEF LoseConn, client
  <2>2. toMember'[u] = << >> /\ toRoom'[u] = << >> /\ missed'[u] /\ session'[u] = 0  BY <1>0, <2>1
  <2> QED  BY <1>0, <2>1, <2>2, DroppedDelivery
<1>4. CASE ServeFetch(u)  BY <1>4, AnswerDelivers
<1>5. CASE Lag(u)  BY <1>5, LagDelivers
<1>6. CASE ExpireParts(u)  BY <1>6, ExpiryDelivers
<1>7. CASE Fetch(u) \/ FetchTimeout(u) \/ FetchAccept(u)  BY <1>7, FetchDelivers
<1>8. CASE Receive(u)  BY <1>8, ReceiveDelivers
<1>9. CASE \E t \in Tasks : AcceptCache(u, t)  BY <1>9, CacheDelivers
<1>10. CASE \E s \in Slots : Send(u, s) \/ AcceptLocal(u, s) \/ Confirm(u, s) \/ Return(u, s) \/ Retry(u, s)
    BY <1>10, PublisherDelivers
<1>11. CASE JoinShared(u) \/ ReconnectConn(u) \/ Publish(u)  BY <1>11, ConnectDelivers
<1> QED  BY <1>1, <1>2, <1>3, <1>4, <1>5, <1>6, <1>7, <1>8, <1>9, <1>10, <1>11 DEF StepOf, Run

\* Every step keeps the promise to everybody.
LEMMA DeliveryKeeps ==
    ASSUME ManifestsInv, DeliveryInv, Step, RoomInv'
    PROVE  DeliveryInv'
<1>1. /\ RoomInv /\ WireInv /\ FetchInv /\ TaskInv /\ Shapes /\ PartTypes /\ InsertAbove
      /\ \A u \in Users : OrderOf(u) /\ Delivery(u)
    BY DEF ManifestsInv, DeliveryInv, Shapes, WireInv, FetchInv, TaskInv, AcceptInv, OrderInv, OrderOf
<1>2. /\ Latest \in Nat /\ Latest' \in Nat /\ Latest <= Latest' /\ InsertAbove'
      /\ Announce \/ Crash \/ cache' = cache
    BY <1>1, LatestGrows
<1>3. PartTypes'  BY <1>1, PartTypesKept
<1>4. ASSUME NEW u \in Users  PROVE Delivery(u)'
  <2>0. Ready(u)  BY <1>1 DEF Ready
  <2>1. CASE Announce  BY <1>1, <2>0, <2>1, AnnounceDelivers
  <2>2. CASE Crash
    <3>1. /\ toMember'[u] = << >> /\ toRoom'[u] = << >> /\ missed'[u] /\ session'[u] = 0
          /\ conns' = conns /\ UNCHANGED <<parts, fetch, anchor, version>>
        BY <2>2 DEF Crash, client
    <3> QED  BY <1>2, <2>0, <3>1, DroppedDelivery
  <2>3. CASE cache' = cache /\ UNCHANGED manifestVars
    <3>1. Untouched(u)  BY <2>3 DEF Untouched, manifestVars, wire, client
    <3> QED  BY <2>0, <2>3, <3>1, UntouchedKeeps
  <2>4. ASSUME NEW x \in Users, Migrate(x), cache' = cache  PROVE Delivery(u)'
    <3>1. Untouched(u)  BY <2>4 DEF Untouched, Migrate, wire, client
    <3> QED  BY <2>0, <2>4, <3>1, UntouchedKeeps
  <2>5. ASSUME NEW x \in Users, StepOf(x), cache' = cache, u # x  PROVE Delivery(u)'
    <3>1. Untouched(u)  BY <1>1, <2>5, OthersUntouched
    <3> QED  BY <2>0, <2>5, <3>1, UntouchedKeeps
  <2>6. CASE StepOf(u) /\ cache' = cache  BY <2>0, <2>6, OwnDelivers
  <2>7. UNCHANGED manifestVars => cache' = cache  BY DEF manifestVars, roomVars
  <2> QED  BY <1>2, <2>1, <2>2, <2>3, <2>4, <2>5, <2>6, <2>7, WhoseStep
<1> QED  BY <1>2, <1>3, <1>4 DEF DeliveryInv

\* At first there is no manifest to promise.
LEMMA DeliveryBegins == ManifestsInit => DeliveryInv
<1> SUFFICES ASSUME ManifestsInit  PROVE DeliveryInv  OBVIOUS
<1>1. cache = NoItem /\ insert = NoItem  BY DEF ManifestsInit
<1>2. Latest = 0 /\ InsertAbove  BY <1>1 DEF Latest, InsertAbove
<1>3. PartTypes
  <2>1. NoItem \in Entries  BY DEF Entries
  <2>2. parts = [u \in Users |-> [k \in EntryKinds |-> NoItem]]  BY DEF ManifestsInit, EntryKinds
  <2>3. missed \in [Users -> BOOLEAN]  BY DEF ManifestsInit
  <2> QED  BY <2>1, <2>2, <2>3 DEF PartTypes
<1>4. ASSUME NEW u \in Users  PROVE Delivery(u)
  <2>1. /\ toMember[u] = << >> /\ toRoom[u] = << >> /\ version[u] = 0
        /\ parts[u]["published"] = NoItem /\ parts[u]["response"] = NoItem
        /\ fetch[u].st # "got" /\ session[u] = conns[u]
      BY DEF ManifestsInit
  <2>2. Queued(u)
    <3>1. DOMAIN toMember[u] = {}  BY <2>1
    <3> QED  BY <3>1 DEF Queued, Sorted
  <2>3. Assembled(u) /\ Behind(u)  BY <1>2, <2>1 DEF Assembled, Behind
  <2>4. Offline(u) /\ Unjoined(u)  BY <2>1 DEF Offline, Unjoined
  <2>5. Promised(u)  BY <1>1 DEF Promised, Expects
  <2> QED  BY <2>2, <2>3, <2>4, <2>5 DEF Delivery
<1> QED  BY <1>2, <1>3, <1>4 DEF DeliveryInv

\* What the promise comes to once everything has arrived.
LEMMA PromiseKept ==
    ASSUME ManifestsInv, DeliveryInv
    PROVE  Delivered
<1> SUFFICES ASSUME NEW u \in Users, Trusts(u), AllArrived(u), ~missed[u], ~overlap[u]
             PROVE  cached[u] = cache.m
    BY DEF Delivered
<1>1. RoomInv /\ Promised(u) /\ (conns[u] = 0 => session[u] = 0)
    BY DEF ManifestsInv, DeliveryInv, Delivery, OrderInv, Absent
<1>2. /\ session[u] # 0 /\ toRoom[u] = << >> /\ toMember[u] = << >>
      /\ \A t \in Tasks : accept[u][t] = NoItem
      /\ fetch[u].st = "done" \/ (fetch[u].st = "todo" /\ cached[u] # NoItem)
    BY DEF AllArrived
<1>3. cache # NoItem /\ cache.m \in Manifest /\ cache.v \in Nat  BY <1>1 DEF Trusts, RoomInv
<1>4. Expects(u)  BY <1>1, <1>2, <1>3 DEF Expects, Trusts
<1>5. cache.m # NoItem /\ cache.m.of \in Nat \ {0}
  <2>1. cache.m.of \in Nat \ {0} /\ cache.m.n # 0
      BY <1>3, ManifestsAssumption DEF Manifest, ManifestsAssumption
  <2> QED  BY <2>1 DEF NoItem
<1>6. CASE Reached(u)  BY <1>2, <1>5, <1>6 DEF Reached
<1>7. ~Coming(u)
  <2> SUFFICES ASSUME Coming(u)  PROVE FALSE  OBVIOUS
  <2>1. PICK i \in 0 .. cache.m.of - 1 : From(toMember[u], cache.v, cache.m.of, i)  BY DEF Coming
  <2>2. i \in i .. cache.m.of - 1  BY <1>5
  <2>3. \E k \in DOMAIN toMember[u] : IsPublished(toMember[u][k])  BY <2>1, <2>2 DEF From
  <2>4. DOMAIN toMember[u] = {}  BY <1>2
  <2> QED  BY <2>3, <2>4
<1>8. ~Fetching(u)
  <2>1. cached[u] # NoItem \/ fetch[u].st \notin {"todo", "waiting", "got"}  BY <1>2
  <2> QED  BY <2>1 DEF Fetching, ToAsk, Asked, Answered, Answering
<1> QED  BY <1>1, <1>4, <1>6, <1>7, <1>8 DEF Promised

\* Once everything has arrived, a member that trusts the signer has the room's
\* current manifest, from the broadcast or from its one fetch, unless the newest
\* broadcast or the fetch was lost on the way to it.
THEOREM NewestDelivered == ManifestsSpec => []Delivered
<1>1. ManifestsInv /\ ManifestsInv' /\ DeliveryInv /\ [ManifestsNext]_manifestVars => DeliveryInv'
  <2>1. ManifestsInv' => RoomInv'  BY DEF ManifestsInv
  <2> QED  BY <2>1, DeliveryKeeps DEF Step
<1>2. ManifestsInv /\ DeliveryInv => Delivered  BY PromiseKept
<1> QED  BY <1>1, <1>2, DeliveryBegins, ManifestsInvariant, PTL DEF ManifestsSpec

-----------------------------------------------------------------------------
(* Drift: the inductive invariant.                                            *)

ClockTypes == now \in Nat /\ ahead \in Int /\ hostAt \in HostRec /\ hostAt.at <= now
WireTypes == /\ outward \in Seq(Nat) /\ \A i \in 1 .. Len(outward) : outward[i] <= now
             /\ inward \in Seq(Replies \cup Events)
ProbeTypes == waiters \in Seq(Waiter) /\ burst \in Burst
DriftTypes == ClockTypes /\ WireTypes /\ ProbeTypes /\ skew \in Skew /\ shown \in Shown /\ video \in Element

\* A reply is stamped between its probe and now.
Stamped ==
    \A i \in DOMAIN inward : inward[i].kind = "reply" =>
        inward[i].echo <= inward[i].ts - ahead /\ inward[i].ts - ahead <= now

\* Half a round trip, as the floored midpoint allows.
Half == (MAX_RTT + 1) \div 2
Near(ms) == ms - ahead <= Half /\ ahead - ms <= Half

Measured ==
    /\ burst.paired => \A i \in DOMAIN burst.offsets : Near(burst.offsets[i])
    /\ skew.known /\ skew.paired => Near(skew.ms)

\* The events of q that a store whose last one is n will take.
Newer(q, n) == {i \in DOMAIN q : q[i].kind # "reply" /\ q[i].n > n}
IsHost(e, h, d) == e.n = h.n /\ e.pos = h.pos /\ e.ts = h.at + d
Says(e, h) == e.kind # "seek" => (h.paused <=> e.kind = "pause")

\* They come in order and end in the room's last command.
Ordered(q, n, h, d) ==
    /\ n <= h.n
    /\ \A i, j \in Newer(q, n) : i < j => q[i].n < q[j].n
    /\ \A i \in Newer(q, n) : q[i].n <= h.n /\ (q[i].n = h.n => IsHost(q[i], h, d))
    /\ h.n > n => \E i \in Newer(q, n) : q[i].n = h.n

\* The last of them that is a PLAY or a PAUSE leaves the room as it is; if there
\* is none the store already has the room's play state.
Stated(q, n, paused, h) ==
    /\ \A i \in Newer(q, n) :
          (\A j \in Newer(q, n) : j > i => q[j].kind = "seek") => Says(q[i], h)
    /\ h.n # 0 /\ (\A j \in Newer(q, n) : q[j].kind = "seek") => paused = h.paused

\* An event the store has and the room has not gone beyond.
Current(e, h, d) ==
    /\ e.n = h.n /\ h.n # 0 => IsHost(e, h, d) /\ Says(e, h)
    /\ e.n = 0 => e = NoCommand

InStep(q, s, h, d) ==
    Ordered(q, s.e.n, h, d) /\ Stated(q, s.e.n, s.hostPaused, h) /\ Current(s.e, h, d)

Chain == InStep(inward, shown, hostAt, ahead)

\* Position p is where h's command has the room at time t, to half a round trip.
Close(p, h, t) ==
    Distance(p, h.pos + IF h.paused THEN 0 ELSE t - h.at) <= IF h.paused THEN 0 ELSE Half

Placed ==
    /\ video.handled <= shown.e.n
    /\ video.raw \in {0, video.handled}
    /\ ~skew.known /\ video.handled = shown.e.n /\ shown.e.n # 0 /\ shown.e.kind # "pause"
         => video.raw # 0
    /\ hostAt.n # 0 /\ video.handled = hostAt.n /\ video.raw = 0 /\ ~video.moved
       /\ video.playing = ~hostAt.paused /\ (video.paired \/ hostAt.paused) => Close(video.pos, hostAt, now)

DriftInv == DriftTypes /\ Stamped /\ Measured /\ Chain /\ Placed

-----------------------------------------------------------------------------
(* The median is between the offsets.                                         *)

\* A set of numbers has a least one.
LEMMA LeastOf ==
    ASSUME NEW T, T \subseteq Nat, T # {}
    PROVE  \E x \in T : \A y \in T : x <= y
<1>1. \E x \in T : \A y \in T : ~(<<y, x>> \in OpToRel(<, Nat))
  BY NatLessThanWellFounded, WFMin
<1>2. PICK x \in T : \A y \in T : ~(<<y, x>> \in OpToRel(<, Nat))
  BY <1>1
<1>3. ASSUME NEW y \in T PROVE x <= y
  <2>1. x \in Nat /\ y \in Nat
    OBVIOUS
  <2>2. ~(y < x)
    BY <1>2, <2>1 DEF OpToRel
  <2> QED
    BY <2>1, <2>2
<1> QED
  BY <1>3

\* How many of the offsets are below x, and how many are not above it.
Below(offsets, x) == {i \in DOMAIN offsets : offsets[i] < x}
UpTo(offsets, x) == {i \in DOMAIN offsets : offsets[i] <= x}

\* They are counted.
LEMMA CountsAreFinite ==
    ASSUME NEW offsets \in Seq(Int), NEW x \in Int
    PROVE  /\ IsFiniteSet(UpTo(offsets, x)) /\ Cardinality(UpTo(offsets, x)) \in 0 .. Len(offsets)
           /\ IsFiniteSet(Below(offsets, x)) /\ Cardinality(Below(offsets, x)) \in 0 .. Len(offsets)
<1>1. DOMAIN offsets = 1 .. Len(offsets) /\ Len(offsets) \in Nat
  OBVIOUS
<1>2. IsFiniteSet(DOMAIN offsets) /\ Cardinality(DOMAIN offsets) = Len(offsets)
  BY <1>1, FS_Interval, SMT
<1>3. UpTo(offsets, x) \subseteq DOMAIN offsets /\ Below(offsets, x) \subseteq DOMAIN offsets
  BY DEF UpTo, Below
<1>4. IsFiniteSet(UpTo(offsets, x)) /\ Cardinality(UpTo(offsets, x)) <= Len(offsets)
  BY <1>2, <1>3, FS_Subset
<1>5. IsFiniteSet(Below(offsets, x)) /\ Cardinality(Below(offsets, x)) <= Len(offsets)
  BY <1>2, <1>3, FS_Subset
<1>6. Cardinality(UpTo(offsets, x)) \in Nat /\ Cardinality(Below(offsets, x)) \in Nat
  BY <1>4, <1>5, FS_CardinalityType
<1> QED BY <1>1, <1>4, <1>5, <1>6

Rank(offsets, x) == Cardinality(UpTo(offsets, x))

\* A rank is at most the number of offsets.
LEMMA RankType ==
    ASSUME NEW offsets \in Seq(Int), NEW x \in Int
    PROVE  Rank(offsets, x) \in 0 .. Len(offsets) /\ Len(offsets) \in Nat
<1>1. Cardinality(UpTo(offsets, x)) \in 0 .. Len(offsets)
  BY CountsAreFinite
<1>2. Len(offsets) \in Nat
  OBVIOUS
<1> QED BY <1>1, <1>2 DEF Rank

\* An offset in between raises the rank.
LEMMA RankGrows ==
    ASSUME NEW offsets \in Seq(Int), NEW x \in Int, NEW y \in Int, NEW i \in DOMAIN offsets,
           x < offsets[i], offsets[i] <= y
    PROVE  Rank(offsets, x) < Rank(offsets, y)
<1>1. offsets[i] \in Int
  OBVIOUS
<1>2. UpTo(offsets, x) \subseteq UpTo(offsets, y)
  <2>1. ASSUME NEW j \in DOMAIN offsets, offsets[j] <= x PROVE offsets[j] <= y
    <3>1. offsets[j] \in Int  OBVIOUS
    <3> QED BY <1>1, <2>1, <3>1
  <2> QED BY <2>1 DEF UpTo
<1>3. i \in UpTo(offsets, y) /\ i \notin UpTo(offsets, x)
  BY <1>1 DEF UpTo
<1>4. IsFiniteSet(UpTo(offsets, y)) /\ UpTo(offsets, x) # UpTo(offsets, y)
  BY <1>3, CountsAreFinite
<1>5. /\ Cardinality(UpTo(offsets, x)) <= Cardinality(UpTo(offsets, y))
      /\ Cardinality(UpTo(offsets, x)) # Cardinality(UpTo(offsets, y))
  <2> DEFINE A == UpTo(offsets, x)  C == UpTo(offsets, y)
  <2>1. A \subseteq C /\ IsFiniteSet(C) /\ A # C  BY <1>2, <1>4
  <2> HIDE DEF A, C
  <2>2. Cardinality(A) <= Cardinality(C) /\ (Cardinality(A) = Cardinality(C) => A = C)
    BY <2>1, FS_Subset
  <2> QED BY <2>1, <2>2 DEF A, C
<1>6. Rank(offsets, x) \in Nat /\ Rank(offsets, y) \in Nat
  BY RankType
<1> QED BY <1>5, <1>6 DEF Rank

\* A set of places of a sequence has one whose offset no other exceeds.
LEMMA Greatest ==
    ASSUME NEW offsets \in Seq(Int), NEW P, P \subseteq DOMAIN offsets, P # {}
    PROVE  \E i \in P : \A j \in P : offsets[j] <= offsets[i]
<1> DEFINE Short(i) == Len(offsets) - Rank(offsets, offsets[i])
<1>1. \A i \in P : offsets[i] \in Int
  OBVIOUS
<1>2. \A i \in P : Short(i) \in Nat
  <2> TAKE i \in P
  <2>1. Rank(offsets, offsets[i]) \in 0 .. Len(offsets) /\ Len(offsets) \in Nat
    BY <1>1, RankType
  <2> QED BY <2>1
<1>3. PICK i \in P : \A j \in P : Short(i) <= Short(j)
  <2> DEFINE T == {Short(j) : j \in P}
  <2>1. T \subseteq Nat /\ T # {}  BY <1>2
  <2>2. \E m \in T : \A k \in T : m <= k
    <3> HIDE DEF T
    <3> QED BY <2>1, LeastOf
  <2> QED BY <2>2
<1>4. ASSUME NEW j \in P, ~(offsets[j] <= offsets[i]) PROVE FALSE
  <2>1. offsets[i] \in Int /\ offsets[j] \in Int /\ offsets[i] < offsets[j] /\ j \in DOMAIN offsets
    BY <1>1, <1>4
  <2>2. Rank(offsets, offsets[i]) < Rank(offsets, offsets[j])
    <3> DEFINE lo == offsets[i]  hi == offsets[j]
    <3>1. lo \in Int /\ hi \in Int /\ lo < offsets[j] /\ offsets[j] <= hi  BY <2>1
    <3> HIDE DEF lo, hi
    <3>2. Rank(offsets, lo) < Rank(offsets, hi)  BY <2>1, <3>1, RankGrows
    <3> QED BY <3>2 DEF lo, hi
  <2>3. /\ Rank(offsets, offsets[i]) \in 0 .. Len(offsets) /\ Len(offsets) \in Nat
        /\ Rank(offsets, offsets[j]) \in 0 .. Len(offsets)
    BY <2>1, RankType
  <2>4. Short(i) <= Short(j)  BY <1>3
  <2> QED BY <2>2, <2>3, <2>4
<1> QED BY <1>4

\* There is a k-th offset: the least one whose rank reaches k.
LEMMA RankIsOffset ==
    ASSUME NEW offsets \in Seq(Int), NEW k \in 1 .. Len(offsets)
    PROVE  AtRank(offsets, k) \in Range(offsets)
<1> DEFINE S == {i \in DOMAIN offsets : k <= Rank(offsets, offsets[i])}
           Count(i) == Rank(offsets, offsets[i])
<1>1. /\ DOMAIN offsets = 1 .. Len(offsets) /\ Len(offsets) \in Nat /\ DOMAIN offsets # {}
      /\ \A i \in DOMAIN offsets : offsets[i] \in Int
  <2>1. DOMAIN offsets = 1 .. Len(offsets) /\ Len(offsets) \in Nat
    OBVIOUS
  <2>2. k \in DOMAIN offsets
    BY <2>1
  <2> QED BY <2>1, <2>2
<1>2. S # {}
  <2>1. PICK i \in DOMAIN offsets : \A j \in DOMAIN offsets : offsets[j] <= offsets[i]
    BY <1>1, Greatest
  <2>2. UpTo(offsets, offsets[i]) = 1 .. Len(offsets)
    BY <1>1, <2>1 DEF UpTo
  <2>3. Cardinality(1 .. Len(offsets)) = Len(offsets)
    <3> DEFINE n == Len(offsets)
    <3>1. 1 \in Int /\ n \in Int /\ n >= 1  BY <1>1
    <3> HIDE DEF n
    <3>2. Cardinality(1 .. n) = IF 1 > n THEN 0 ELSE n - 1 + 1  BY <3>1, FS_Interval
    <3>3. Cardinality(1 .. n) = n  BY <3>1, <3>2
    <3> QED BY <3>3 DEF n
  <2> QED BY <2>2, <2>3, <1>1 DEF Rank
<1>3. \A i \in S : Count(i) \in Nat
  <2> TAKE i \in S
  <2>1. offsets[i] \in Int  BY <1>1
  <2>2. Rank(offsets, offsets[i]) \in 0 .. Len(offsets)  BY <2>1, RankType
  <2> QED BY <2>2
<1>4. PICK p \in S : \A i \in S : Count(p) <= Count(i)
  <2> DEFINE T == {Count(i) : i \in S}
  <2>1. T \subseteq Nat /\ T # {}  BY <1>2, <1>3
  <2>2. \E m \in T : \A l \in T : m <= l
    <3> HIDE DEF T
    <3> QED BY <2>1, LeastOf
  <2> QED BY <2>2
<1> DEFINE x == offsets[p]
           B == Below(offsets, x)
<1>5. x \in Int /\ x \in Range(offsets) /\ k <= Rank(offsets, x) /\ p \in DOMAIN offsets
  BY <1>1 DEF Range
\* Were k offsets or more below x, the greatest of them would do in its place.
<1>6. ASSUME ~(Cardinality(B) < k) PROVE FALSE
  <2>1. IsFiniteSet(B) /\ Cardinality(B) \in Nat /\ k <= Cardinality(B)
    <3>1. IsFiniteSet(B) /\ Cardinality(B) \in 0 .. Len(offsets)
      BY <1>5, CountsAreFinite
    <3> HIDE DEF B
    <3> QED BY <3>1, <1>1, <1>6
  <2>2. B # {} /\ B \subseteq DOMAIN offsets
    BY <2>1, FS_EmptySet DEF Below
  <2>3. PICK b \in B : \A j \in B : offsets[j] <= offsets[b]
    <3> HIDE DEF B
    <3> QED BY <2>2, Greatest
  <2>4. b \in DOMAIN offsets /\ offsets[b] \in Int /\ offsets[b] < x
    BY <1>1, <2>2 DEF Below
  <2>5. UpTo(offsets, offsets[b]) = B
    <3>1. \A j \in DOMAIN offsets : offsets[j] <= offsets[b] <=> offsets[j] < x
      BY <1>1, <1>5, <2>3, <2>4 DEF Below
    <3> QED BY <3>1 DEF UpTo, Below
  <2>6. b \in S
    <3>1. k <= Rank(offsets, offsets[b])
      <4> HIDE DEF B
      <4> QED BY <2>1, <2>5 DEF Rank
    <3> QED BY <3>1, <2>4
  <2>7. Rank(offsets, offsets[b]) < Rank(offsets, x)
    <3> DEFINE lo == offsets[b]
    <3>1. lo \in Int /\ p \in DOMAIN offsets /\ lo < offsets[p] /\ offsets[p] <= x  BY <1>5, <2>4
    <3> HIDE DEF lo, x, B, S
    <3>2. Rank(offsets, lo) < Rank(offsets, x)  BY <1>5, <3>1, RankGrows
    <3> QED BY <3>2 DEF lo
  <2>8. Count(p) <= Count(b)  BY <1>4, <2>6
  <2>9. Count(p) \in Nat /\ Count(b) \in Nat  BY <1>3, <2>6
  <2> QED BY <2>7, <2>8, <2>9
<1>7. \E v \in Range(offsets) :
        /\ Cardinality({i \in DOMAIN offsets : offsets[i] < v}) < k
        /\ k <= Cardinality({i \in DOMAIN offsets : offsets[i] <= v})
  BY <1>5, <1>6 DEF Below, UpTo, Rank
<1> QED BY <1>7 DEF AtRank

\* The median of a burst (useClockSkew.ts) is a number,
LEMMA MedianInt ==
    ASSUME NEW offsets \in Seq(Int), offsets # <<>>
    PROVE  Median(offsets) \in Int
<1> DEFINE n == Len(offsets)
           mid == n \div 2
<1>1. n \in Nat /\ n # 0
  OBVIOUS
<1>2. ASSUME NEW k \in 1 .. n PROVE AtRank(offsets, k) \in Int
  <2>1. AtRank(offsets, k) \in Range(offsets)
    BY <1>2, RankIsOffset
  <2> QED BY <2>1 DEF Range
<1>3. mid + 1 \in 1 .. n /\ (n % 2 # 1 => mid \in 1 .. n)
  BY <1>1
<1>4. Median(offsets) = IF n % 2 = 1 THEN AtRank(offsets, mid + 1)
                        ELSE (AtRank(offsets, mid) + AtRank(offsets, mid + 1)) \div 2
  BY DEF Median
<1> HIDE DEF mid, n
<1> QED BY <1>2, <1>3, <1>4

\* and as near to the true skew as every offset it was taken from.
LEMMA MedianNear ==
    ASSUME DriftAssumption, ahead \in Int,
           NEW offsets \in Seq(Int), offsets # <<>>, \A i \in DOMAIN offsets : Near(offsets[i])
    PROVE  Median(offsets) \in Int /\ Near(Median(offsets))
<1> DEFINE n == Len(offsets)
           mid == n \div 2
<1>1. n \in Nat /\ n # 0
  OBVIOUS
<1>2. ASSUME NEW k \in 1 .. n PROVE AtRank(offsets, k) \in Int /\ Near(AtRank(offsets, k))
  <2>1. AtRank(offsets, k) \in Range(offsets)
    BY <1>2, RankIsOffset
  <2>2. PICK i \in DOMAIN offsets : AtRank(offsets, k) = offsets[i]
    BY <2>1 DEF Range
  <2>3. offsets[i] \in Int
    OBVIOUS
  <2> QED BY <2>2, <2>3
<1>3. CASE n % 2 = 1
  <2>1. mid + 1 \in 1 .. n
    BY <1>1, <1>3
  <2>2. Median(offsets) = AtRank(offsets, mid + 1)
    BY <1>3 DEF Median
  <2> HIDE DEF mid
  <2> QED BY <2>1, <2>2, <1>2
<1>4. CASE n % 2 # 1
  <2>1. mid \in 1 .. n /\ mid + 1 \in 1 .. n
    BY <1>1, <1>4
  <2>2. Median(offsets) = (AtRank(offsets, mid) + AtRank(offsets, mid + 1)) \div 2
    BY <1>4 DEF Median
  <2> DEFINE x == AtRank(offsets, mid)
             y == AtRank(offsets, mid + 1)
  <2>3. x \in Int /\ Near(x) /\ y \in Int /\ Near(y)
    <3> HIDE DEF mid
    <3> QED BY <2>1, <1>2
  <2>4. Half \in Int
    BY DEF DriftAssumption, Half
  <2> HIDE DEF x, y
  <2>5. (x + y) \div 2 \in Int /\ Near((x + y) \div 2)
    BY <2>3, <2>4 DEF Near
  <2> QED BY <2>2, <2>5 DEF x, y
<1> QED BY <1>3, <1>4

-----------------------------------------------------------------------------
(* Drift: the invariant is kept.                                              *)

\* A paired and accepted reply measures the skew to half its round trip.
LEMMA OffsetNear ==
    ASSUME DriftAssumption, ahead \in Int, NEW t0 \in Nat, NEW t3 \in Nat, NEW ts \in Int,
           Accepted(t0, t3), t0 <= ts - ahead, ts - ahead <= t3
    PROVE  Offset(ts, t0, t3) \in Int /\ Near(Offset(ts, t0, t3))
BY DEF DriftAssumption, Accepted, Offset, Near, Half

\* The types, one group of variables at a time.
LEMMA ClockTypesKept ==
    ASSUME DriftAssumption, ClockTypes, [DriftNext]_driftVars
    PROVE  ClockTypes'
<1>1. ASSUME NEW kind \in {"play", "pause", "seek"}, NEW pos \in Positions, HostMoves(kind, pos)
      PROVE  ClockTypes'
  <2>1. PausedBy(hostAt.paused, kind) \in BOOLEAN /\ pos \in Int
    <3>1. hostAt.paused \in BOOLEAN  BY DEF ClockTypes, HostRec
    <3>2. pos \in Int  BY DEF DriftAssumption
    <3>3. PausedBy(hostAt.paused, kind) \in BOOLEAN  BY <3>1 DEF PausedBy
    <3> QED BY <3>2, <3>3
  <2> QED BY <1>1, <2>1 DEF HostMoves, ClockTypes, HostRec
<1>2. CASE Tick
  BY <1>2 DEF Tick, ClockTypes, HostRec
<1>3. CASE UNCHANGED <<now, ahead, hostAt>>
  BY <1>3 DEF ClockTypes
<1> QED BY <1>1, <1>2, <1>3
     DEF DriftNext, HandleSkewProbe, Break, StartBurst, SkewProbe, ProbeTimeout, EndBurst,
         DeliverInward, ApplyEvent, CorrectRaw, Sync, UserToggles, driftVars

\* Probes were sent in the past.
LEMMA OutwardKept ==
    ASSUME ClockTypes, WireTypes, [DriftNext]_driftVars
    PROVE  outward' \in Seq(Nat) /\ \A i \in 1 .. Len(outward') : outward'[i] <= now'
<1>0. outward \in Seq(Nat) /\ (\A i \in 1 .. Len(outward) : outward[i] <= now) /\ now \in Nat
  BY DEF ClockTypes, WireTypes
<1>1. CASE HandleSkewProbe
  <2>1. outward # <<>> /\ outward' = Tail(outward) /\ now' = now  BY <1>1 DEF HandleSkewProbe
  <2>2. /\ Tail(outward) \in Seq(Nat) /\ Len(Tail(outward)) = Len(outward) - 1
        /\ \A i \in 1 .. Len(Tail(outward)) : Tail(outward)[i] = outward[i + 1]
    BY <1>0, <2>1, HeadTailProperties
  <2> QED BY <1>0, <2>1, <2>2
<1>2. CASE Break
  BY <1>2 DEF Break
<1>3. CASE SkewProbe
  <2>1. outward' = Append(outward, now) /\ now' = now  BY <1>3 DEF SkewProbe
  <2> QED BY <1>0, <2>1, AppendProperties
<1>4. CASE Tick
  BY <1>0, <1>4 DEF Tick
<1>5. CASE UNCHANGED <<outward, now>>
  BY <1>0, <1>5
<1> QED BY <1>1, <1>2, <1>3, <1>4, <1>5
     DEF DriftNext, HostMoves, StartBurst, ProbeTimeout, EndBurst,
         DeliverInward, ApplyEvent, CorrectRaw, Sync, UserToggles, driftVars

\* What a step does to the way back: an event of the host, a reply, the room's
\* summary after a break, or the next message delivered.
Event(kind, pos) == [kind |-> kind, n |-> hostAt.n + 1, pos |-> pos, ts |-> ServerNow]
ReplyNow == [kind |-> "reply", ts |-> ServerNow, echo |-> Head(outward)]
Summary == [kind |-> IF hostAt.paused THEN "pause" ELSE "play", n |-> hostAt.n,
            pos |-> hostAt.pos, ts |-> hostAt.at + ahead]

\* Replies and events keep their shape.
LEMMA InwardKept ==
    ASSUME DriftAssumption, ClockTypes, WireTypes, [DriftNext]_driftVars
    PROVE  inward' \in Seq(Replies \cup Events)
<1>0. inward \in Seq(Replies \cup Events)
  BY DEF WireTypes
<1>1. ASSUME NEW kind \in {"play", "pause", "seek"}, NEW pos \in Positions, HostMoves(kind, pos)
      PROVE  inward' \in Seq(Replies \cup Events)
  <2>1. Event(kind, pos) \in Events
    BY DEF Event, DriftAssumption, Events, ServerNow, ClockTypes, HostRec
  <2>2. inward' = Append(inward, Event(kind, pos))
    BY <1>1 DEF HostMoves, Event
  <2> QED BY <1>0, <2>1, <2>2, AppendProperties
<1>2. CASE HandleSkewProbe
  <2>0. outward # <<>> /\ outward \in Seq(Nat)
    BY <1>2 DEF HandleSkewProbe, WireTypes
  <2>1. Head(outward) \in Nat
    BY <2>0, HeadTailProperties
  <2>2. ReplyNow \in Replies
    BY <2>1 DEF ReplyNow, Replies, ServerNow, ClockTypes
  <2>3. inward' = Append(inward, ReplyNow)
    BY <1>2 DEF HandleSkewProbe, ReplyNow
  <2> QED BY <1>0, <2>2, <2>3, AppendProperties
<1>3. CASE Break
  <2>1. hostAt.n # 0 => Summary \in Events
    BY DEF Summary, Events, ClockTypes, HostRec
  <2>2. inward' = IF hostAt.n = 0 THEN <<>> ELSE <<Summary>>
    BY <1>3 DEF Break, Summary
  <2>3. CASE hostAt.n = 0
    BY <2>2, <2>3
  <2>4. CASE hostAt.n # 0
    <3> DEFINE e == Summary
    <3>1. e \in Replies \cup Events /\ inward' = <<e>>  BY <2>1, <2>2, <2>4
    <3> HIDE DEF e
    <3> QED BY <3>1
  <2> QED BY <2>3, <2>4
<1>4. CASE DeliverInward
  BY <1>0, <1>4, HeadTailProperties DEF DeliverInward
<1>5. CASE UNCHANGED inward
  BY <1>0, <1>5
<1> QED BY <1>1, <1>2, <1>3, <1>4, <1>5
     DEF DriftNext, StartBurst, SkewProbe, ProbeTimeout, EndBurst,
         ApplyEvent, CorrectRaw, Sync, UserToggles, Tick, driftVars

\* A reply handed to the oldest waiter.
LEMMA HeadOfWire ==
    ASSUME WireTypes, inward # <<>>
    PROVE  /\ Head(inward).kind = "reply" => Head(inward) \in Replies
           /\ Head(inward).kind # "reply" => Head(inward) \in Events
<1>1. Head(inward) \in Replies \cup Events
  BY HeadTailProperties DEF WireTypes
<1> QED BY <1>1 DEF Replies, Events

\* Waiters and the burst.
LEMMA ProbesKept ==
    ASSUME DriftAssumption, ClockTypes, WireTypes, ProbeTypes, [DriftNext]_driftVars
    PROVE  ProbeTypes'
<1>0. waiters \in Seq(Waiter) /\ burst \in Burst /\ now \in Nat
  BY DEF ProbeTypes, ClockTypes
<1>1. CASE StartBurst
  <2>1. burst' \in Burst
    <3>1. burst.id + 1 \in Nat /\ SAMPLE_COUNT \in Int /\ <<>> \in Seq(Int)
      BY <1>0 DEF Burst, DriftAssumption
    <3>2. burst' = [id |-> burst.id + 1, running |-> TRUE, left |-> SAMPLE_COUNT,
                    offsets |-> <<>>, paired |-> TRUE]
      BY <1>1 DEF StartBurst, IdleBurst
    <3> QED BY <3>1, <3>2 DEF Burst
  <2> QED BY <1>0, <1>1, <2>1 DEF StartBurst, ProbeTypes
<1>2. CASE SkewProbe
  <2>1. [t0 |-> now, burst |-> burst.id] \in Waiter
    BY <1>0 DEF Waiter, Burst
  <2>2. waiters' \in Seq(Waiter)
    BY <1>0, <1>2, <2>1, AppendProperties DEF SkewProbe
  <2>3. burst' \in Burst
    <3>1. burst.left - 1 \in Int  BY <1>0 DEF Burst
    <3>2. burst' = [burst EXCEPT !.left = burst.left - 1]  BY <1>2 DEF SkewProbe
    <3> QED BY <1>0, <3>1, <3>2 DEF Burst
  <2> QED BY <2>2, <2>3 DEF ProbeTypes
<1>3. CASE ProbeTimeout
  <2>1. waiters' \in Seq(Waiter)
    BY <1>0, <1>3, HeadTailProperties DEF ProbeTimeout
  <2> QED BY <1>0, <1>3, <2>1 DEF ProbeTimeout, ProbeTypes
<1>4. CASE EndBurst
  <2>1. burst' \in Burst
    BY <1>0, <1>4 DEF EndBurst, IdleBurst, Burst
  <2> QED BY <1>0, <1>4, <2>1 DEF EndBurst, ProbeTypes
<1>5. CASE DeliverInward
  <2> DEFINE m == Head(inward)
             w == Head(waiters)
  <2>1. CASE m.kind = "reply" /\ waiters # <<>>
    <3>1. m \in Replies
      BY <1>5, <2>1, HeadOfWire DEF DeliverInward
    <3>2. w \in Waiter /\ Tail(waiters) \in Seq(Waiter)
      BY <1>0, <2>1, HeadTailProperties
    <3>3. m.ts \in Int /\ w.t0 \in Nat
      BY <3>1, <3>2 DEF Replies, Waiter
    <3> DEFINE o == Offset(m.ts, w.t0, now)
    <3>4. o \in Int
      <4>1. now \in Nat
        BY <1>0 DEF ClockTypes
      <4>2. (w.t0 + now) \div 2 \in Int
        BY <3>3, <4>1
      <4> QED BY <3>3, <4>2 DEF Offset
    <3>5. /\ waiters' = Tail(waiters)
          /\ \/ burst' = burst
             \/ burst' = [burst EXCEPT !.offsets = Append(@, o), !.paired = @ /\ m.echo = w.t0]
      BY <1>5, <2>1 DEF DeliverInward, DeliverReply
    <3> HIDE DEF o, m, w
    <3>6. burst.offsets \in Seq(Int)
      BY <1>0 DEF Burst
    <3>7. Append(burst.offsets, o) \in Seq(Int)
      BY <3>4, <3>6, AppendProperties
    <3>8. burst' \in Burst
      BY <1>0, <3>5, <3>7 DEF Burst
    <3> QED BY <3>2, <3>5, <3>8 DEF ProbeTypes
  <2>2. CASE ~(m.kind = "reply" /\ waiters # <<>>)
    <3>1. UNCHANGED <<waiters, burst>>
      BY <1>5, <2>2 DEF DeliverInward, DeliverReply
    <3> QED BY <1>0, <3>1 DEF ProbeTypes
  <2> QED BY <2>1, <2>2
<1>6. CASE UNCHANGED <<waiters, burst>>
  BY <1>0, <1>6 DEF ProbeTypes
<1> QED BY <1>1, <1>2, <1>3, <1>4, <1>5, <1>6
     DEF DriftNext, HostMoves, HandleSkewProbe, Break, ApplyEvent, CorrectRaw, Sync, UserToggles,
         Tick, driftVars

\* The stored skew.
LEMMA SkewKept ==
    ASSUME ProbeTypes, skew \in Skew, [DriftNext]_driftVars
    PROVE  skew' \in Skew
<1>1. CASE EndBurst /\ burst.offsets # <<>>
  <2>1. burst.offsets \in Seq(Int) /\ burst.paired \in BOOLEAN
    BY DEF ProbeTypes, Burst
  <2>2. Median(burst.offsets) \in Int
    BY <1>1, <2>1, MedianInt
  <2> QED BY <1>1, <2>1, <2>2 DEF EndBurst, Skew
<1>2. CASE UNCHANGED skew
  BY <1>2
<1> QED BY <1>1, <1>2
     DEF DriftNext, HostMoves, HandleSkewProbe, Break, StartBurst, SkewProbe, ProbeTimeout, EndBurst,
         DeliverInward, ApplyEvent, CorrectRaw, Sync, UserToggles, Tick, driftVars

\* The event shown.
LEMMA ShownKept ==
    ASSUME WireTypes, shown \in Shown, [DriftNext]_driftVars
    PROVE  shown' \in Shown
<1>1. CASE DeliverInward
  <2>1. CASE Head(inward).kind = "reply"
    BY <1>1, <2>1 DEF DeliverInward
  <2>2. CASE Head(inward).kind # "reply"
    <3> DEFINE m == Head(inward)
    <3>1. m \in Events
      BY <1>1, <2>2, HeadOfWire DEF DeliverInward
    <3>2. shown.hostPaused \in BOOLEAN
      BY DEF Shown
    <3>3. PausedBy(shown.hostPaused, m.kind) \in BOOLEAN
      BY <3>2 DEF PausedBy
    <3>4. shown' = shown \/ shown' = [e |-> m, hostPaused |-> PausedBy(shown.hostPaused, m.kind)]
      BY <1>1, <2>2 DEF DeliverInward, DeliverEvent
    <3> HIDE DEF m
    <3> QED BY <3>1, <3>3, <3>4 DEF Shown
  <2> QED BY <2>1, <2>2
<1>2. CASE UNCHANGED shown
  BY <1>2
<1> QED BY <1>1, <1>2
     DEF DriftNext, HostMoves, HandleSkewProbe, Break, StartBurst, SkewProbe, ProbeTimeout, EndBurst,
         ApplyEvent, CorrectRaw, Sync, UserToggles, Tick, driftVars

\* The projections of drift.ts give a position.
LEMMA PositionsTyped ==
    ASSUME ClockTypes, skew \in Skew, shown \in Shown
    PROVE  /\ shown.e.n \in Nat /\ shown.e.pos \in Int /\ shown.e.ts \in Int
           /\ \A p \in BOOLEAN : ExpectedPosition(shown.e, p) \in Int
           /\ AppliedPosition(shown.e, shown.hostPaused) \in Int
<1>1. shown.e \in Events \cup {NoCommand}
  BY DEF Shown
<1>2. shown.e.n \in Nat /\ shown.e.pos \in Int /\ shown.e.ts \in Int
  BY <1>1 DEF Events, NoCommand
<1>3. now \in Int /\ skew.ms \in Int
  BY DEF ClockTypes, Skew
<1> DEFINE late == now - (shown.e.ts - skew.ms)
<1>4. NotBelowZero(late) \in Int
  BY <1>2, <1>3 DEF NotBelowZero
<1>5. \A p \in BOOLEAN : ExpectedPosition(shown.e, p) \in Int
  BY <1>2, <1>4 DEF ExpectedPosition
<1>6. AppliedPosition(shown.e, shown.hostPaused) \in Int
  BY <1>2, <1>5 DEF AppliedPosition
<1> QED BY <1>2, <1>5, <1>6

\* The element.
LEMMA ElementKept ==
    ASSUME ClockTypes, skew \in Skew, shown \in Shown, video \in Element, [DriftNext]_driftVars
    PROVE  video' \in Element
<1>1. CASE ApplyEvent
  <2>1. PlayingAfter(shown.e.kind) \in BOOLEAN
    BY DEF PlayingAfter, Element
  <2>2. skew.paired \in BOOLEAN
    BY DEF Skew
  <2> QED BY <1>1, <2>1, <2>2, PositionsTyped DEF ApplyEvent, Element
<1>2. CASE CorrectRaw
  <2>2. skew.paired \in BOOLEAN
    BY DEF Skew
  <2> QED BY <1>2, <2>2, PositionsTyped DEF CorrectRaw, Element
<1>3. CASE Sync
  <2>2. skew.paired \in BOOLEAN /\ shown.hostPaused \in BOOLEAN
    BY DEF Skew, Shown
  <2> QED BY <1>3, <2>2, PositionsTyped DEF Sync, Element
<1>4. CASE UserToggles
  BY <1>4 DEF UserToggles, Element
<1>5. CASE Tick
  BY <1>5 DEF Tick, Element
<1>6. CASE UNCHANGED video
  BY <1>6
<1> QED BY <1>1, <1>2, <1>3, <1>4, <1>5, <1>6
     DEF DriftNext, HostMoves, HandleSkewProbe, Break, StartBurst, SkewProbe, ProbeTimeout, EndBurst,
         DeliverInward, driftVars

\* All of them.
LEMMA DriftTypesKept ==
    ASSUME DriftAssumption, DriftTypes, [DriftNext]_driftVars
    PROVE  DriftTypes'
<1>1. /\ ClockTypes' /\ ProbeTypes' /\ skew' \in Skew /\ shown' \in Shown /\ video' \in Element
      /\ WireTypes'
  BY ClockTypesKept, OutwardKept, InwardKept, ProbesKept, SkewKept, ShownKept, ElementKept
     DEF DriftTypes, WireTypes
<1> QED BY <1>1 DEF DriftTypes

\* handle_skew_probe stamps a reply after its probe was sent.
LEMMA StampedKept ==
    ASSUME DriftTypes, Stamped, [DriftNext]_driftVars, DriftTypes'
    PROVE  Stamped'
<1> DEFINE In(t, m) == m.kind = "reply" => m.echo <= m.ts - ahead /\ m.ts - ahead <= t
<1>0. /\ inward \in Seq(Replies \cup Events) /\ now \in Nat /\ ahead \in Int
      /\ \A i \in 1 .. Len(inward) : In(now, inward[i])
  BY DEF DriftTypes, WireTypes, ClockTypes, Stamped
<1>1. ASSUME now' = now, ahead' = ahead, NEW e \in Replies \cup Events, inward' = Append(inward, e), In(now, e)
      PROVE  Stamped'
  <2>1. /\ Len(inward') = Len(inward) + 1 /\ inward'[Len(inward) + 1] = e
        /\ \A i \in 1 .. Len(inward) : inward'[i] = inward[i]
        /\ inward' \in Seq(Replies \cup Events)
    BY <1>0, <1>1, AppendProperties
  <2>2. \A i \in 1 .. Len(inward') : i \in 1 .. Len(inward) \/ i = Len(inward) + 1
    BY <1>0, <2>1
  <2>3. \A i \in 1 .. Len(inward') : In(now, inward'[i])
    BY <1>0, <1>1, <2>1, <2>2
  <2> QED BY <1>1, <2>1, <2>3 DEF Stamped
<1>2. ASSUME NEW kind \in {"play", "pause", "seek"}, NEW pos \in Positions, HostMoves(kind, pos)
      PROVE  Stamped'
  <2> DEFINE e == Event(kind, pos)
  <2>1. inward' = Append(inward, e) /\ now' = now /\ ahead' = ahead
    BY <1>2 DEF HostMoves, Event
  <2>2. /\ inward' \in Seq(Replies \cup Events) /\ Len(inward') = Len(inward) + 1 /\ inward'[Len(inward) + 1] = e
        /\ \A i \in 1 .. Len(inward) : inward'[i] = inward[i]
    <3>1. Len(inward) \in Nat  BY <1>0
    <3>2. inward' \in Seq(Replies \cup Events)  BY DEF DriftTypes, WireTypes
    <3> HIDE DEF e
    <3> QED BY <1>0, <2>1, <3>1, <3>2
  <2>3. e.kind # "reply"
    BY DEF Event
  <2> HIDE DEF e
  <2>4. \A i \in 1 .. Len(inward') : i \in 1 .. Len(inward) \/ i = Len(inward) + 1
    BY <1>0, <2>2
  <2>5. \A i \in 1 .. Len(inward') : In(now, inward'[i])
    BY <1>0, <2>2, <2>3, <2>4
  <2> QED BY <2>1, <2>2, <2>5 DEF Stamped
<1>3. CASE HandleSkewProbe
  <2>1. outward # <<>> /\ outward \in Seq(Nat) /\ outward[1] <= now /\ Head(outward) = outward[1]
    BY <1>3 DEF HandleSkewProbe, DriftTypes, WireTypes
  <2>2. Head(outward) \in Nat
    BY <2>1
  <2>3. ReplyNow \in Replies /\ In(now, ReplyNow)
    BY <1>0, <2>1, <2>2 DEF ReplyNow, Replies, ServerNow
  <2>4. inward' = Append(inward, ReplyNow) /\ now' = now /\ ahead' = ahead
    BY <1>3 DEF HandleSkewProbe, ReplyNow
  <2> QED BY <1>1, <2>3, <2>4
<1>4. CASE Break
  <2>1. /\ inward' = IF hostAt.n = 0 THEN <<>> ELSE <<Summary>>
        /\ now' = now /\ ahead' = ahead
    BY <1>4 DEF Break, Summary
  <2>2. Summary.kind # "reply"
    BY DEF Summary
  <2> QED BY <2>1, <2>2 DEF Stamped
<1>5. CASE DeliverInward
  <2>1. inward # <<>> /\ inward' = Tail(inward) /\ now' = now /\ ahead' = ahead
    BY <1>5 DEF DeliverInward
  <2>2. /\ inward' \in Seq(Replies \cup Events) /\ Len(inward') = Len(inward) - 1
        /\ \A i \in 1 .. Len(inward') : inward'[i] = inward[i + 1]
    BY <1>0, <2>1, HeadTailProperties
  <2>3. \A i \in 1 .. Len(inward') : In(now, inward'[i])
    <3> TAKE i \in 1 .. Len(inward')
    <3>1. i + 1 \in 1 .. Len(inward)  BY <1>0, <2>2
    <3> QED BY <1>0, <2>2, <3>1
  <2> QED BY <2>1, <2>2, <2>3 DEF Stamped
<1>6. CASE Tick
  <2>1. inward' = inward /\ now' = now + 1 /\ ahead' = ahead
    BY <1>6 DEF Tick
  <2>2. \A i \in 1 .. Len(inward) : In(now + 1, inward[i])
    <3> TAKE i \in 1 .. Len(inward)
    <3>1. inward[i].kind = "reply" => inward[i].ts \in Int
      BY <1>0 DEF Replies, Events
    <3> QED BY <1>0, <3>1
  <2> QED BY <1>0, <2>1, <2>2 DEF Stamped
<1>7. CASE UNCHANGED <<now, ahead, inward>>
  BY <1>7 DEF Stamped
<1> QED BY <1>2, <1>3, <1>4, <1>5, <1>6, <1>7
     DEF DriftNext, StartBurst, SkewProbe, ProbeTimeout, EndBurst,
         ApplyEvent, CorrectRaw, Sync, UserToggles, driftVars

\* Offsets of paired replies, and their median, are near the true skew.
LEMMA MeasuredKept ==
    ASSUME DriftAssumption, DriftTypes, Stamped, Measured, [DriftNext]_driftVars
    PROVE  Measured'
<1>0. /\ burst.offsets \in Seq(Int) /\ burst.paired \in BOOLEAN /\ burst \in Burst
      /\ waiters \in Seq(Waiter) /\ now \in Nat /\ ahead \in Int /\ ahead' = ahead
      /\ inward \in Seq(Replies \cup Events)
  BY DEF DriftTypes, ProbeTypes, ClockTypes, WireTypes, Burst, DriftNext, HostMoves, HandleSkewProbe, Break,
         StartBurst, SkewProbe, ProbeTimeout, EndBurst, DeliverInward, ApplyEvent, CorrectRaw, Sync,
         UserToggles, Tick, driftVars
<1>1. CASE StartBurst
  <2>1. burst'.offsets = <<>> /\ skew' = skew
    BY <1>1 DEF StartBurst, IdleBurst
  <2> QED BY <1>0, <2>1 DEF Measured, Near
<1>2. CASE SkewProbe
  <2>1. burst'.offsets = burst.offsets /\ burst'.paired = burst.paired /\ skew' = skew
    BY <1>0, <1>2 DEF SkewProbe, Burst
  <2> QED BY <1>0, <2>1 DEF Measured, Near
<1>3. CASE EndBurst
  <2>1. burst'.offsets = <<>>
    BY <1>3 DEF EndBurst, IdleBurst
  <2>2. CASE burst.offsets = <<>>
    <3>1. skew' = skew  BY <1>3, <2>2 DEF EndBurst
    <3> QED BY <1>0, <2>1, <3>1 DEF Measured, Near
  <2>3. CASE burst.offsets # <<>>
    <3> DEFINE o == burst.offsets
    <3>1. skew' = [known |-> TRUE, ms |-> Median(o), paired |-> burst.paired]
      BY <1>3, <2>3 DEF EndBurst
    <3>2. burst.paired => \A i \in DOMAIN o : Near(o[i])
      BY DEF Measured
    <3>3. o \in Seq(Int) /\ o # <<>>
      BY <1>0, <2>3
    <3> HIDE DEF o
    <3>4. burst.paired => Near(Median(o))
      BY <1>0, <3>2, <3>3, MedianNear
    <3> QED BY <1>0, <2>1, <3>1, <3>4 DEF Measured, Near
  <2> QED BY <2>2, <2>3
<1>4. CASE DeliverInward
  <2> DEFINE m == Head(inward)
             w == Head(waiters)
             o == Offset(m.ts, w.t0, now)
  <2>0. skew' = skew /\ inward # <<>>
    BY <1>4 DEF DeliverInward
  <2>1. CASE burst' = burst
    BY <1>0, <2>0, <2>1 DEF Measured, Near
  <2>2. CASE burst' # burst
    <3>1. /\ m.kind = "reply" /\ waiters # <<>> /\ Accepted(w.t0, now)
          /\ burst' = [burst EXCEPT !.offsets = Append(@, o), !.paired = @ /\ m.echo = w.t0]
      BY <1>4, <2>2 DEF DeliverInward, DeliverReply
    <3>2. m \in Replies
      BY <2>0, <3>1, HeadOfWire DEF DriftTypes
    <3>3. m.ts \in Int /\ m.echo \in Nat
      BY <3>2 DEF Replies
    <3>4. m.echo <= m.ts - ahead /\ m.ts - ahead <= now
      <4>1. m = inward[1] /\ 1 \in DOMAIN inward  BY <1>0, <2>0
      <4> QED BY <3>1, <4>1 DEF Stamped
    <3>5. w.t0 \in Nat
      <4>1. w \in Waiter  BY <1>0, <3>1, HeadTailProperties
      <4> QED BY <4>1 DEF Waiter
    <3>6. o \in Int /\ (m.echo = w.t0 => Near(o))
      <4> DEFINE ts == m.ts  t0 == w.t0
      <4>2. ts \in Int /\ t0 \in Nat /\ Accepted(t0, now) /\ (m.echo = t0 => t0 <= ts - ahead) /\ ts - ahead <= now
        BY <3>1, <3>3, <3>4, <3>5
      <4> HIDE DEF ts, t0
      <4>1. Offset(ts, t0, now) \in Int
        BY <1>0, <4>2 DEF Offset
      <4>3. m.echo = t0 => Near(Offset(ts, t0, now))
        BY <1>0, <4>2, OffsetNear
      <4> QED BY <4>1, <4>3 DEF ts, t0
    <3>7. burst'.offsets = Append(burst.offsets, o) /\ burst'.paired = (burst.paired /\ m.echo = w.t0)
      <4> HIDE DEF m, w, o
      <4> QED BY <1>0, <3>1 DEF Burst
    <3> DEFINE p == burst.offsets
    <3> HIDE DEF m, w, o
    <3>8. ASSUME burst'.paired, NEW i \in DOMAIN burst'.offsets PROVE Near(burst'.offsets[i])
      <4>1. /\ Len(Append(p, o)) = Len(p) + 1 /\ Append(p, o)[Len(p) + 1] = o
            /\ \A j \in 1 .. Len(p) : Append(p, o)[j] = p[j]
            /\ Append(p, o) \in Seq(Int) /\ Len(p) \in Nat
        BY <1>0, <3>6, AppendProperties
      <4>2. i \in 1 .. Len(p) \/ i = Len(p) + 1
        BY <3>7, <3>8, <4>1
      <4>3. burst.paired /\ m.echo = w.t0
        BY <3>7, <3>8
      <4>4. \A j \in 1 .. Len(p) : Near(p[j])
        BY <1>0, <4>3 DEF Measured
      <4> QED BY <3>6, <3>7, <4>1, <4>2, <4>3, <4>4
    <3> QED BY <1>0, <2>0, <3>8 DEF Measured, Near
  <2> QED BY <2>1, <2>2
<1>5. CASE UNCHANGED <<burst, skew>>
  BY <1>0, <1>5 DEF Measured, Near
<1> QED BY <1>1, <1>2, <1>3, <1>4, <1>5
     DEF DriftNext, HostMoves, HandleSkewProbe, Break, ProbeTimeout, ApplyEvent, CorrectRaw, Sync,
         UserToggles, Tick, driftVars

\* Newer, when a message is added at the end and when the first one is taken.
LEMMA NewerAppended ==
    ASSUME NEW q \in Seq(Replies \cup Events), NEW n \in Nat, NEW e \in Replies \cup Events
    PROVE  /\ \A i \in Newer(q, n) : i \in Newer(Append(q, e), n) /\ Append(q, e)[i] = q[i] /\ i < Len(q) + 1
           /\ \A i \in Newer(Append(q, e), n) :
                 i \in Newer(q, n) \/ (i = Len(q) + 1 /\ Append(q, e)[i] = e /\ e.kind # "reply" /\ e.n > n)
           /\ e.kind # "reply" /\ e.n > n
                => Len(q) + 1 \in Newer(Append(q, e), n) /\ Append(q, e)[Len(q) + 1] = e
<1> DEFINE a == Append(q, e)
<1>1. /\ a \in Seq(Replies \cup Events) /\ Len(a) = Len(q) + 1 /\ a[Len(q) + 1] = e /\ Len(q) \in Nat
      /\ \A i \in 1 .. Len(q) : a[i] = q[i]
  BY AppendProperties
<1>2. DOMAIN q = 1 .. Len(q) /\ DOMAIN a = 1 .. Len(a)
  BY <1>1
<1> HIDE DEF a
<1>3. \A i \in DOMAIN a : i \in DOMAIN q \/ i = Len(q) + 1
  BY <1>1, <1>2
<1>4. \A i \in DOMAIN q : i \in DOMAIN a /\ a[i] = q[i] /\ i < Len(q) + 1
  BY <1>1, <1>2
<1>5. Len(q) + 1 \in DOMAIN a
  BY <1>1, <1>2
<1> QED BY <1>1, <1>3, <1>4, <1>5 DEF Newer, a

LEMMA NewerTaken ==
    ASSUME NEW q \in Seq(Replies \cup Events), q # <<>>, NEW n \in Nat
    PROVE  /\ Tail(q) \in Seq(Replies \cup Events)
           /\ \A i \in Newer(Tail(q), n) : i + 1 \in Newer(q, n) /\ Tail(q)[i] = q[i + 1] /\ i \in Nat /\ i # 0
           /\ \A i \in Newer(q, n) : i = 1 \/ i - 1 \in Newer(Tail(q), n)
           /\ 1 \in DOMAIN q /\ q[1] = Head(q) /\ Newer(q, n) \subseteq Nat \ {0}
<1> DEFINE t == Tail(q)
<1>1. /\ t \in Seq(Replies \cup Events) /\ Len(t) = Len(q) - 1 /\ Len(q) \in Nat /\ Len(q) # 0
      /\ \A i \in 1 .. Len(t) : t[i] = q[i + 1]
  BY HeadTailProperties
<1>2. DOMAIN q = 1 .. Len(q) /\ DOMAIN t = 1 .. Len(t) /\ q[1] = Head(q)
  BY <1>1
<1> HIDE DEF t
<1>3. \A i \in DOMAIN t : i + 1 \in DOMAIN q /\ t[i] = q[i + 1] /\ i \in Nat /\ i # 0
  BY <1>1, <1>2
<1>4. \A i \in DOMAIN q : i = 1 \/ (i - 1 \in DOMAIN t /\ t[i - 1] = q[i])
  BY <1>1, <1>2
<1>5. 1 \in DOMAIN q /\ DOMAIN q \subseteq Nat \ {0}
  BY <1>1, <1>2
<1> QED BY <1>1, <1>2, <1>3, <1>4, <1>5 DEF Newer, t

\* What Newer has is an event.
LEMMA NewerAreEvents ==
    ASSUME NEW q \in Seq(Replies \cup Events), NEW n, NEW i \in Newer(q, n)
    PROVE  q[i] \in Events /\ i \in Nat /\ q[i].n \in Nat
<1>1. i \in DOMAIN q /\ q[i].kind # "reply"
  BY DEF Newer
<1>2. q[i] \in Replies \cup Events /\ i \in Nat
  BY <1>1
<1>3. q[i] \in Events
  BY <1>1, <1>2 DEF Replies
<1> QED BY <1>2, <1>3 DEF Events

\* The event shown has a number, 0 if there is none.
LEMMA ShownNumber == ASSUME NEW s \in Shown PROVE s.e.n \in Nat
BY DEF Shown, Events, NoCommand

\* The host moves.
LEMMA HostSpeaks ==
    ASSUME NEW q \in Seq(Replies \cup Events), NEW s \in Shown, NEW d \in Int, NEW e \in Events,
           NEW h \in HostRec, NEW h1 \in HostRec, InStep(q, s, h, d),
           h1.n = h.n + 1, IsHost(e, h1, d), h1.paused = PausedBy(h.paused, e.kind),
           h.n = 0 => e.kind = "play"
    PROVE  InStep(Append(q, e), s, h1, d)
<1> DEFINE a == Append(q, e)
           n == s.e.n
<1>1. n \in Nat /\ h.n \in Nat /\ h.paused \in BOOLEAN /\ e.n = h.n + 1
  BY ShownNumber DEF HostRec, IsHost
<1>2. e.kind \in {"play", "pause", "seek"}
  BY DEF Events
<1>4. n <= h.n
  BY DEF InStep, Ordered
<1> HIDE DEF n
<1>5. /\ \A i \in Newer(q, n) : i \in Newer(a, n) /\ a[i] = q[i] /\ i < Len(q) + 1
      /\ \A i \in Newer(a, n) : i \in Newer(q, n) \/ (i = Len(q) + 1 /\ a[i] = e)
      /\ Len(q) + 1 \in Newer(a, n) /\ a[Len(q) + 1] = e
  <2>1. e.kind # "reply" /\ e.n > n /\ e \in Replies \cup Events  BY <1>1, <1>2, <1>4
  <2>2. /\ \A i \in Newer(q, n) : i \in Newer(Append(q, e), n) /\ Append(q, e)[i] = q[i] /\ i < Len(q) + 1
        /\ \A i \in Newer(Append(q, e), n) :
              i \in Newer(q, n) \/ (i = Len(q) + 1 /\ Append(q, e)[i] = e /\ e.kind # "reply" /\ e.n > n)
        /\ e.kind # "reply" /\ e.n > n
             => Len(q) + 1 \in Newer(Append(q, e), n) /\ Append(q, e)[Len(q) + 1] = e
    BY <1>1, <2>1, NewerAppended
  <2> QED BY <2>1, <2>2 DEF a
<1>6. \A i \in Newer(q, n) : q[i].n \in Nat /\ i \in Nat /\ q[i] \in Events
  BY NewerAreEvents
<1>7. Len(q) \in Nat
  OBVIOUS
<1>o. Ordered(q, n, h, d) /\ Stated(q, n, s.hostPaused, h)
  BY DEF InStep, n
<1> HIDE DEF a
<1>8. Ordered(a, n, h1, d)
  <2>2. \A i, j \in Newer(a, n) : i < j => a[i].n < a[j].n
    <3> TAKE i, j \in Newer(a, n)
    <3>1. CASE i \in Newer(q, n) /\ j \in Newer(q, n)
      BY <1>5, <1>o, <3>1 DEF Ordered
    <3>2. CASE i \in Newer(q, n) /\ j = Len(q) + 1 /\ a[j] = e
      <4>1. q[i].n <= h.n /\ q[i].n \in Nat /\ a[i] = q[i]  BY <1>5, <1>6, <1>o, <3>2 DEF Ordered
      <4> QED BY <1>1, <3>2, <4>1
    <3>3. CASE i = Len(q) + 1
      <4>1. j \in Nat /\ j <= Len(q) + 1  BY <1>5, <1>6, <1>7
      <4>2. ~(i < j)  BY <1>7, <3>3, <4>1
      <4> QED BY <4>2
    <3> QED BY <1>5, <3>1, <3>2, <3>3
  <2>3. \A i \in Newer(a, n) : a[i].n <= h1.n /\ (a[i].n = h1.n => a[i] = e)
    <3> TAKE i \in Newer(a, n)
    <3>1. CASE i \in Newer(q, n)
      <4>1. q[i].n <= h.n /\ q[i].n \in Nat /\ a[i] = q[i]  BY <1>5, <1>6, <1>o, <3>1 DEF Ordered
      <4> QED BY <1>1, <4>1
    <3>2. CASE i = Len(q) + 1 /\ a[i] = e
      BY <1>1, <3>2
    <3> QED BY <1>5, <3>1, <3>2
  <2>4. n <= h1.n  BY <1>1, <1>4
  <2>5. e.n = h1.n  BY <1>1
  <2> QED BY <1>5, <2>2, <2>3, <2>4, <2>5 DEF Ordered
<1>9. Stated(a, n, s.hostPaused, h1)
  <2>1. CASE e.kind = "seek"
    <3>1. h1.paused = h.paused /\ h.n # 0
      BY <2>1 DEF PausedBy
    <3>2. ASSUME NEW i \in Newer(a, n), \A j \in Newer(a, n) : j > i => a[j].kind = "seek"
          PROVE  Says(a[i], h1)
      <4>1. CASE i \in Newer(q, n)
        <5>1. \A j \in Newer(q, n) : j > i => q[j].kind = "seek"  BY <1>5, <3>2
        <5>2. Says(q[i], h)  BY <1>o, <4>1, <5>1 DEF Stated
        <5> QED BY <1>5, <3>1, <4>1, <5>2 DEF Says
      <4>2. CASE a[i] = e
        BY <2>1, <4>2 DEF Says
      <4> QED BY <1>5, <4>1, <4>2
    <3>3. (\A j \in Newer(a, n) : a[j].kind = "seek") => s.hostPaused = h1.paused
      <4>1. SUFFICES ASSUME \A j \in Newer(a, n) : a[j].kind = "seek" PROVE s.hostPaused = h1.paused
        OBVIOUS
      <4>2. \A j \in Newer(q, n) : q[j].kind = "seek"  BY <1>5, <4>1
      <4> QED BY <1>o, <3>1, <4>2 DEF Stated
    <3> QED BY <3>2, <3>3 DEF Stated
  <2>2. CASE e.kind # "seek"
    <3>1. h1.paused = (e.kind = "pause")
      BY <1>2, <2>2 DEF PausedBy
    <3>2. ASSUME NEW i \in Newer(a, n), \A j \in Newer(a, n) : j > i => a[j].kind = "seek"
          PROVE  Says(a[i], h1)
      <4>1. i \notin Newer(q, n)
        <5>1. SUFFICES ASSUME i \in Newer(q, n) PROVE FALSE  OBVIOUS
        <5>2. Len(q) + 1 > i  BY <1>5, <1>6, <1>7, <5>1
        <5> QED BY <1>5, <2>2, <3>2, <5>2
      <4>2. a[i] = e  BY <1>5, <4>1
      <4> QED BY <3>1, <4>2 DEF Says
    <3>3. ~(\A j \in Newer(a, n) : a[j].kind = "seek")
      BY <1>5, <2>2
    <3> QED BY <3>2, <3>3 DEF Stated
  <2> QED BY <2>1, <2>2
<1>10. Current(s.e, h1, d)
  <2>1. s.e.n # h1.n  BY <1>1, <1>4 DEF n
  <2>2. s.e.n = 0 => s.e = NoCommand  BY DEF InStep, Current
  <2> QED BY <2>1, <2>2 DEF Current
<1> QED BY <1>8, <1>9, <1>10 DEF InStep, a, n

\* A message the store does not take goes by: a reply, or an event it has had.
LEMMA PassedOver ==
    ASSUME NEW q \in Seq(Replies \cup Events), q # <<>>, NEW s \in Shown, NEW d \in Int,
           NEW h \in HostRec, InStep(q, s, h, d), 1 \notin Newer(q, s.e.n)
    PROVE  InStep(Tail(q), s, h, d)
<1> DEFINE t == Tail(q)
           n == s.e.n
<1>1. n \in Nat
  BY ShownNumber
<1>2. Ordered(q, n, h, d) /\ Stated(q, n, s.hostPaused, h) /\ Current(s.e, h, d)
  BY DEF InStep
<1>3. 1 \notin Newer(q, n)
  OBVIOUS
<1> HIDE DEF n
<1>4. /\ \A i \in Newer(t, n) : i + 1 \in Newer(q, n) /\ t[i] = q[i + 1] /\ i \in Nat
      /\ \A i \in Newer(q, n) : i \in Nat /\ i - 1 \in Newer(t, n) /\ t[i - 1] = q[i]
  <2>1. /\ \A i \in Newer(t, n) : i + 1 \in Newer(q, n) /\ t[i] = q[i + 1] /\ i \in Nat
        /\ \A i \in Newer(q, n) : i = 1 \/ i - 1 \in Newer(t, n)
        /\ Newer(q, n) \subseteq Nat \ {0}
    BY <1>1, NewerTaken
  <2>2. ASSUME NEW i \in Newer(q, n) PROVE i \in Nat /\ i - 1 \in Newer(t, n) /\ t[i - 1] = q[i]
    <3>1. i \in Nat /\ i - 1 \in Newer(t, n)  BY <1>3, <2>1
    <3>2. t[i - 1] = q[(i - 1) + 1]  BY <2>1, <3>1
    <3>3. (i - 1) + 1 = i  BY <3>1
    <3> QED BY <3>1, <3>2, <3>3
  <2> QED BY <2>1, <2>2
<1> HIDE DEF t
<1>5. Ordered(t, n, h, d)
  <2>1. \A i, j \in Newer(t, n) : i < j => t[i].n < t[j].n
    <3> TAKE i, j \in Newer(t, n)
    <3> HAVE i < j
    <3>1. i + 1 < j + 1  BY <1>4
    <3> QED BY <1>2, <1>4, <3>1 DEF Ordered
  <2>2. \A i \in Newer(t, n) : t[i].n <= h.n /\ (t[i].n = h.n => IsHost(t[i], h, d))
    BY <1>2, <1>4 DEF Ordered
  <2>3. h.n > n => \E i \in Newer(t, n) : t[i].n = h.n
    <3> HAVE h.n > n
    <3>1. PICK i \in Newer(q, n) : q[i].n = h.n  BY <1>2 DEF Ordered
    <3> QED BY <1>4, <3>1
  <2> QED BY <1>2, <2>1, <2>2, <2>3 DEF Ordered
<1>6. Stated(t, n, s.hostPaused, h)
  <2>1. ASSUME NEW i \in Newer(t, n), \A j \in Newer(t, n) : j > i => t[j].kind = "seek"
        PROVE  Says(t[i], h)
    <3>1. ASSUME NEW j \in Newer(q, n), j > i + 1 PROVE q[j].kind = "seek"
      <4>1. j - 1 \in Newer(t, n) /\ t[j - 1] = q[j] /\ j - 1 > i  BY <1>4, <3>1
      <4> QED BY <2>1, <4>1
    <3> QED BY <1>2, <1>4, <3>1 DEF Stated
  <2>2. (\A j \in Newer(t, n) : t[j].kind = "seek") => \A j \in Newer(q, n) : q[j].kind = "seek"
    <3> HAVE \A j \in Newer(t, n) : t[j].kind = "seek"
    <3> TAKE j \in Newer(q, n)
    <3>1. j - 1 \in Newer(t, n) /\ t[j - 1] = q[j]  BY <1>4
    <3> QED BY <3>1
  <2> QED BY <1>2, <2>1, <2>2 DEF Stated
<1> QED BY <1>2, <1>5, <1>6 DEF InStep, t, n

\* The store takes the event at the head of the wire.
LEMMA EventTaken ==
    ASSUME NEW q \in Seq(Replies \cup Events), q # <<>>, NEW s \in Shown, NEW d \in Int,
           NEW h \in HostRec, InStep(q, s, h, d), 1 \in Newer(q, s.e.n), NEW s1,
           s1 = [e |-> Head(q), hostPaused |-> PausedBy(s.hostPaused, Head(q).kind)]
    PROVE  InStep(Tail(q), s1, h, d)
<1> DEFINE t == Tail(q)
           n == s.e.n
           m == q[1]
<1>1. n \in Nat /\ h.n \in Nat /\ h.paused \in BOOLEAN
  BY ShownNumber DEF HostRec
<1>2. Ordered(q, n, h, d) /\ Stated(q, n, s.hostPaused, h)
  BY DEF InStep
<1>3. 1 \in Newer(q, n)
  OBVIOUS
<1>4. s1.e = m /\ s1.hostPaused = PausedBy(s.hostPaused, m.kind)
  BY NewerTaken, <1>1
<1> HIDE DEF n
<1>5. m \in Events /\ m.n \in Nat /\ m.n # 0 /\ m.n > n /\ m.kind \in {"play", "pause", "seek"}
  <2>1. m \in Events /\ m.n > n  BY <1>3, NewerAreEvents DEF Newer
  <2> HIDE DEF m
  <2> QED BY <2>1 DEF Events
<1>a. m.n <= h.n /\ (m.n = h.n => IsHost(m, h, d))
  BY <1>2, <1>3 DEF Ordered
<1>6. \A i \in Newer(q, n) : i \in Nat /\ (i = 1 \/ (i > 1 /\ q[i].n > m.n)) /\ q[i].n \in Nat
  <2> TAKE i \in Newer(q, n)
  <2>1. i \in Nat /\ i # 0  BY <1>1, NewerTaken
  <2>2. q[i].n \in Nat  BY NewerAreEvents
  <2>3. i = 1 \/ 1 < i  BY <2>1
  <2>4. 1 < i => m.n < q[i].n  BY <1>2, <1>3 DEF Ordered
  <2> QED BY <1>5, <2>1, <2>2, <2>3, <2>4
<1>7. /\ \A i \in Newer(t, m.n) : i + 1 \in Newer(q, n) /\ t[i] = q[i + 1] /\ i \in Nat /\ i # 0
      /\ \A i \in Newer(q, n) : i = 1 \/ (i - 1 \in Newer(t, m.n) /\ t[i - 1] = q[i])
  <2>1. \A i \in Newer(t, m.n) : i + 1 \in Newer(q, m.n) /\ t[i] = q[i + 1] /\ i \in Nat /\ i # 0
    <3> DEFINE k == m.n
    <3>1. k \in Nat  BY <1>5
    <3> HIDE DEF k
    <3>2. \A i \in Newer(t, k) : i + 1 \in Newer(q, k) /\ t[i] = q[i + 1] /\ i \in Nat /\ i # 0
      BY <3>1, NewerTaken
    <3> QED BY <3>2 DEF k
  <2>2. ASSUME NEW i \in Newer(t, m.n) PROVE i + 1 \in Newer(q, n)
    <3>1. i + 1 \in Newer(q, m.n)  BY <2>1
    <3>2. q[i + 1].n \in Nat  BY <3>1, NewerAreEvents
    <3> HIDE DEF m
    <3> QED BY <1>1, <1>5, <3>1, <3>2 DEF Newer
  <2>3. ASSUME NEW i \in Newer(q, n), i # 1 PROVE i - 1 \in Newer(t, m.n) /\ t[i - 1] = q[i]
    <3>1. i \in Nat /\ q[i].n > m.n  BY <1>6, <2>3
    <3>2. i - 1 \in Newer(t, n)  BY <1>1, <2>3, NewerTaken
    <3>3. t[i - 1] = q[(i - 1) + 1]  BY <1>1, <3>2, NewerTaken
    <3>4. (i - 1) + 1 = i  BY <3>1
    <3>5. t[i - 1] = q[i]  BY <3>3, <3>4
    <3> HIDE DEF m, t
    <3> QED BY <3>1, <3>2, <3>5 DEF Newer
  <2> QED BY <2>1, <2>2, <2>3
<1> HIDE DEF t, m
<1>8. Ordered(t, m.n, h, d)
  <2>1. \A i, j \in Newer(t, m.n) : i < j => t[i].n < t[j].n
    <3> TAKE i, j \in Newer(t, m.n)
    <3> HAVE i < j
    <3>1. i + 1 < j + 1  BY <1>7
    <3> QED BY <1>2, <1>7, <3>1 DEF Ordered
  <2>2. \A i \in Newer(t, m.n) : t[i].n <= h.n /\ (t[i].n = h.n => IsHost(t[i], h, d))
    BY <1>2, <1>7 DEF Ordered
  <2>3. h.n > m.n => \E i \in Newer(t, m.n) : t[i].n = h.n
    <3> HAVE h.n > m.n
    <3>1. h.n > n  BY <1>1, <1>5
    <3>2. PICK i \in Newer(q, n) : q[i].n = h.n  BY <1>2, <3>1 DEF Ordered
    <3>3. i # 1  BY <1>1, <1>5, <3>2 DEF m
    <3> QED BY <1>7, <3>2, <3>3
  <2> QED BY <1>a, <2>1, <2>2, <2>3 DEF Ordered
<1>9. (\A j \in Newer(t, m.n) : t[j].kind = "seek")
        => \A j \in Newer(q, n) : j > 1 => q[j].kind = "seek"
  <2> HAVE \A j \in Newer(t, m.n) : t[j].kind = "seek"
  <2> TAKE j \in Newer(q, n)
  <2> HAVE j > 1
  <2>1. j # 1  BY <1>6
  <2>2. j - 1 \in Newer(t, m.n) /\ t[j - 1] = q[j]  BY <1>7, <2>1
  <2> QED BY <2>2
<1>10. Stated(t, m.n, s1.hostPaused, h)
  <2>1. ASSUME NEW i \in Newer(t, m.n), \A j \in Newer(t, m.n) : j > i => t[j].kind = "seek"
        PROVE  Says(t[i], h)
    <3>1. ASSUME NEW j \in Newer(q, n), j > i + 1 PROVE q[j].kind = "seek"
      <4>1. j # 1 /\ j \in Nat  BY <1>6, <1>7, <3>1
      <4>2. j - 1 \in Newer(t, m.n) /\ t[j - 1] = q[j]  BY <1>7, <4>1
      <4>3. j - 1 > i  BY <1>7, <3>1, <4>1
      <4> QED BY <2>1, <4>2, <4>3
    <3>2. i + 1 \in Newer(q, n) /\ t[i] = q[i + 1]  BY <1>7
    <3> QED BY <1>2, <3>1, <3>2 DEF Stated
  <2>2. ASSUME h.n # 0, \A j \in Newer(t, m.n) : t[j].kind = "seek"
        PROVE  s1.hostPaused = h.paused
    <3>1. \A j \in Newer(q, n) : j > 1 => q[j].kind = "seek"  BY <1>9, <2>2
    <3>2. Says(m, h)  BY <1>2, <1>3, <3>1 DEF Stated, m
    <3>3. CASE m.kind = "seek"
      <4>1. \A j \in Newer(q, n) : q[j].kind = "seek"
        BY <1>6, <3>1, <3>3 DEF m
      <4>2. s.hostPaused = h.paused  BY <1>2, <2>2, <4>1 DEF Stated
      <4> QED BY <1>4, <3>3, <4>2 DEF PausedBy
    <3>4. CASE m.kind # "seek"
      <4>1. h.paused = (m.kind = "pause")  BY <1>1, <3>2, <3>4 DEF Says
      <4> QED BY <1>4, <1>5, <3>4, <4>1 DEF PausedBy
    <3> QED BY <3>3, <3>4
  <2> QED BY <2>1, <2>2 DEF Stated
<1>11. Current(m, h, d)
  <2>1. ASSUME m.n = h.n PROVE Says(m, h)
    <3>1. \A j \in Newer(q, n) : ~(j > 1)
      <4> TAKE j \in Newer(q, n)
      <4>1. q[j].n <= h.n  BY <1>2 DEF Ordered
      <4> QED BY <1>1, <1>5, <1>6, <2>1, <4>1
    <3>2. \A j \in Newer(q, n) : j > 1 => q[j].kind = "seek"  BY <3>1
    <3> QED BY <1>2, <1>3, <3>2 DEF Stated, m
  <2> QED BY <1>5, <1>a, <2>1 DEF Current
<1> QED BY <1>4, <1>8, <1>10, <1>11 DEF InStep, t

\* The server answers a probe.
LEMMA ReplyAdded ==
    ASSUME NEW q \in Seq(Replies \cup Events), NEW s \in Shown, NEW d \in Int,
           NEW h \in HostRec, InStep(q, s, h, d), NEW e \in Replies
    PROVE  InStep(Append(q, e), s, h, d)
<1> DEFINE a == Append(q, e)
           n == s.e.n
<1>1. n \in Nat /\ e.kind = "reply" /\ e \in Replies \cup Events
  BY ShownNumber DEF Replies
<1>2. Ordered(q, n, h, d) /\ Stated(q, n, s.hostPaused, h) /\ Current(s.e, h, d)
  BY DEF InStep
<1> HIDE DEF n
<1>3. /\ \A i \in Newer(q, n) : i \in Newer(Append(q, e), n) /\ Append(q, e)[i] = q[i]
      /\ \A i \in Newer(Append(q, e), n) : i \in Newer(q, n) \/ e.kind # "reply"
  BY <1>1, NewerAppended
<1>4. Newer(a, n) = Newer(q, n) /\ \A i \in Newer(q, n) : a[i] = q[i]
  BY <1>1, <1>3
<1> HIDE DEF a
<1>5. Ordered(a, n, h, d)
  BY <1>2, <1>4 DEF Ordered
<1>6. Stated(a, n, s.hostPaused, h)
  BY <1>2, <1>4 DEF Stated
<1> QED BY <1>2, <1>5, <1>6 DEF InStep, a, n

\* The connection breaks: the wire is empty, or holds the room's summary.
\* The connection breaks before the host has said anything: nothing to catch up.
LEMMA WireLost ==
    ASSUME NEW q \in Seq(Replies \cup Events), NEW s \in Shown, NEW d \in Int,
           NEW h \in HostRec, InStep(q, s, h, d), h.n = 0
    PROVE  InStep(<<>>, s, h, d)
<1> DEFINE n == s.e.n
<1>1. n \in Nat /\ h.n \in Nat
  BY ShownNumber DEF HostRec
<1>2. n <= h.n /\ Current(s.e, h, d)
  BY DEF InStep, Ordered
<1> HIDE DEF n
<1>3. Newer(<<>>, n) = {}
  BY DEF Newer
<1>4. Ordered(<<>>, n, h, d)
  BY <1>1, <1>2, <1>3 DEF Ordered
<1>5. Stated(<<>>, n, s.hostPaused, h)
  BY <1>3 DEF Stated
<1> QED BY <1>2, <1>4, <1>5 DEF InStep, n

\* The connection breaks later: the room summary stands for what was lost.
LEMMA WireSummed ==
    ASSUME NEW q \in Seq(Replies \cup Events), NEW s \in Shown, NEW d \in Int,
           NEW h \in HostRec, InStep(q, s, h, d), NEW e \in Events, IsHost(e, h, d),
           e.kind = IF h.paused THEN "pause" ELSE "play"
    PROVE  InStep(<<e>>, s, h, d)
<1> DEFINE n == s.e.n
           w == <<e>>
<1>1. n \in Nat /\ h.n \in Nat /\ h.n # 0 /\ e.n = h.n /\ h.paused \in BOOLEAN
  BY ShownNumber DEF HostRec, IsHost, Events
<1>2. Ordered(q, n, h, d) /\ Stated(q, n, s.hostPaused, h) /\ Current(s.e, h, d)
  BY DEF InStep
<1>3. Says(e, h)
  BY <1>1 DEF Says
<1> HIDE DEF n
<1>4. w[1] = e /\ DOMAIN w = {1}
  OBVIOUS
<1>5. n <= h.n
  BY <1>2 DEF Ordered
<1> HIDE DEF w
<1>6. CASE n = h.n
  <2>1. Newer(w, n) = {}
    BY <1>1, <1>4, <1>6 DEF Newer
  <2>2. \A i \in Newer(q, n) : FALSE
    <3> TAKE i \in Newer(q, n)
    <3>1. q[i].n <= h.n  BY <1>2 DEF Ordered
    <3>2. q[i].n > n /\ q[i].n \in Nat  BY NewerAreEvents DEF Newer
    <3> QED BY <1>1, <1>6, <3>1, <3>2
  <2>3. s.hostPaused = h.paused
    BY <1>1, <1>2, <2>2 DEF Stated
  <2>4. Ordered(w, n, h, d)
    BY <1>1, <1>6, <2>1 DEF Ordered
  <2>5. Stated(w, n, s.hostPaused, h)
    BY <2>1, <2>3 DEF Stated
  <2> QED BY <1>2, <2>4, <2>5 DEF InStep, n, w
<1>7. CASE n # h.n
  <2>1. Newer(w, n) = {1}
    <3>1. e.kind # "reply" /\ e.n > n  BY <1>1, <1>5, <1>7
    <3> QED BY <1>4, <3>1 DEF Newer
  <2>4. Ordered(w, n, h, d)
    BY <1>1, <1>4, <1>5, <1>7, <2>1 DEF Ordered
  <2>5. Stated(w, n, s.hostPaused, h)
    <3>1. w[1].kind # "seek"  BY <1>4
    <3> QED BY <1>3, <1>4, <2>1, <3>1 DEF Stated
  <2> QED BY <1>2, <2>4, <2>5 DEF InStep, n, w
<1> QED BY <1>6, <1>7

\* The wire, the store and the room stay in step whatever is sent, lost or taken.
LEMMA ChainKept ==
    ASSUME DriftAssumption, DriftTypes, Chain, [DriftNext]_driftVars
    PROVE  Chain'
<1>0. /\ inward \in Seq(Replies \cup Events) /\ shown \in Shown /\ ahead \in Int /\ hostAt \in HostRec
      /\ now \in Nat /\ hostAt.n \in Nat
  BY DEF DriftTypes, ClockTypes, WireTypes, HostRec
<1>c. InStep(inward, shown, hostAt, ahead)
  BY DEF Chain
<1>1. ASSUME NEW kind \in {"play", "pause", "seek"}, NEW pos \in Positions, HostMoves(kind, pos)
      PROVE  Chain'
  <2> DEFINE e == [kind |-> kind, n |-> hostAt.n + 1, pos |-> pos, ts |-> ServerNow]
  <2>1. /\ inward' = Append(inward, e) /\ shown' = shown /\ ahead' = ahead
        /\ hostAt' = [n |-> hostAt.n + 1, paused |-> PausedBy(hostAt.paused, kind),
                      pos |-> pos, at |-> now, kind |-> kind]
        /\ hostAt.n = 0 => kind = "play"
    BY <1>1 DEF HostMoves
  <2>2. e \in Events /\ e.kind = kind
    BY <1>0 DEF DriftAssumption, Events, ServerNow
  <2>3. hostAt' \in HostRec
    <3>1. PausedBy(hostAt.paused, kind) \in BOOLEAN  BY <1>0 DEF PausedBy, HostRec
    <3>2. pos \in Int  BY DEF DriftAssumption
    <3> QED BY <1>0, <2>1, <3>1, <3>2 DEF HostRec
  <2>4. /\ hostAt'.n = hostAt.n + 1 /\ IsHost(e, hostAt', ahead)
        /\ hostAt'.paused = PausedBy(hostAt.paused, e.kind)
    BY <2>1 DEF IsHost, ServerNow
  <2> HIDE DEF e
  <2>5. InStep(Append(inward, e), shown, hostAt', ahead)
    BY <1>0, <1>c, <2>1, <2>2, <2>3, <2>4, HostSpeaks
  <2> QED BY <2>1, <2>5 DEF Chain
<1>2. CASE HandleSkewProbe
  <2> DEFINE e == [kind |-> "reply", ts |-> ServerNow, echo |-> Head(outward)]
  <2>1. /\ inward' = Append(inward, e) /\ shown' = shown /\ ahead' = ahead /\ hostAt' = hostAt
        /\ outward # <<>>
    BY <1>2 DEF HandleSkewProbe
  <2>2. e \in Replies
    <3>1. Head(outward) \in Nat  BY <2>1, HeadTailProperties DEF DriftTypes, WireTypes
    <3> QED BY <1>0, <3>1 DEF Replies, ServerNow
  <2> HIDE DEF e
  <2>3. InStep(Append(inward, e), shown, hostAt, ahead)
    BY <1>0, <1>c, <2>2, ReplyAdded
  <2> QED BY <2>1, <2>3 DEF Chain
<1>3. CASE Break
  <2> DEFINE e == [kind |-> IF hostAt.paused THEN "pause" ELSE "play", n |-> hostAt.n,
                   pos |-> hostAt.pos, ts |-> hostAt.at + ahead]
  <2>1. /\ inward' = IF hostAt.n = 0 THEN <<>> ELSE <<e>>
        /\ shown' = shown /\ ahead' = ahead /\ hostAt' = hostAt
    BY <1>3 DEF Break
  <2>2. CASE hostAt.n = 0
    <3>1. InStep(<<>>, shown, hostAt, ahead)
      BY <1>0, <1>c, <2>2, WireLost
    <3> QED BY <2>1, <2>2, <3>1 DEF Chain
  <2>3. CASE hostAt.n # 0
    <3>1. e \in Events /\ IsHost(e, hostAt, ahead) /\ e.kind = IF hostAt.paused THEN "pause" ELSE "play"
      BY <1>0, <2>3 DEF Events, HostRec, IsHost
    <3>2. InStep(<<e>>, shown, hostAt, ahead)
      <4> HIDE DEF e
      <4> QED BY <1>0, <1>c, <3>1, WireSummed
    <3> QED BY <2>1, <2>3, <3>2 DEF Chain
  <2> QED BY <2>2, <2>3
<1>4. CASE DeliverInward
  <2>1. inward # <<>> /\ inward' = Tail(inward) /\ hostAt' = hostAt /\ ahead' = ahead
    BY <1>4 DEF DeliverInward
  <2>2. inward[1] = Head(inward) /\ 1 \in DOMAIN inward
    BY <1>0, <2>1
  <2>n. shown.e.n \in Nat
    BY <1>0, ShownNumber
  <2>3. CASE 1 \in Newer(inward, shown.e.n)
    <3>1. Head(inward).kind # "reply" /\ Head(inward).n > shown.e.n
      BY <2>2, <2>3 DEF Newer
    <3>2. inward[1].n \in Nat
      BY <1>0, <2>3, NewerAreEvents
    <3>3. ~(Head(inward).n <= shown.e.n)
      BY <2>2, <2>n, <3>1, <3>2
    <3>4. shown' = [e |-> Head(inward), hostPaused |-> PausedBy(shown.hostPaused, Head(inward).kind)]
      BY <1>4, <3>1, <3>3 DEF DeliverInward, DeliverEvent
    <3>5. InStep(Tail(inward), shown', hostAt, ahead)
      BY <1>0, <1>c, <2>1, <2>3, <3>4, EventTaken
    <3> QED BY <2>1, <3>5 DEF Chain
  <2>4. CASE 1 \notin Newer(inward, shown.e.n)
    <3>1. Head(inward).kind = "reply" \/ ~(Head(inward).n > shown.e.n)
      BY <2>2, <2>4 DEF Newer
    <3>2. shown' = shown
      <4>1. CASE Head(inward).kind = "reply"
        BY <1>4, <4>1 DEF DeliverInward
      <4>2. CASE Head(inward).kind # "reply"
        <5>1. Head(inward) \in Events
          BY <2>1, <4>2, HeadOfWire DEF DriftTypes
        <5>2. Head(inward).n \in Nat
          BY <5>1 DEF Events
        <5>3. Head(inward).n <= shown.e.n
          BY <2>n, <3>1, <4>2, <5>2
        <5> QED BY <1>4, <4>2, <5>3 DEF DeliverInward, DeliverEvent
      <4> QED BY <4>1, <4>2
    <3>3. InStep(Tail(inward), shown, hostAt, ahead)
      BY <1>0, <1>c, <2>1, <2>4, PassedOver
    <3> QED BY <2>1, <3>2, <3>3 DEF Chain
  <2> QED BY <2>3, <2>4
<1>5. CASE UNCHANGED <<inward, shown, hostAt, ahead>>
  BY <1>5 DEF Chain
<1> QED BY <1>1, <1>2, <1>3, <1>4, <1>5
     DEF DriftNext, StartBurst, SkewProbe, ProbeTimeout, EndBurst, ApplyEvent, CorrectRaw, Sync,
         UserToggles, Tick, driftVars

-----------------------------------------------------------------------------
(* Where the element is put.                                                  *)

\* Half a round trip is a number of ticks.
LEMMA HalfNatural == ASSUME DriftAssumption PROVE Half \in Nat
BY DEF DriftAssumption, Half

\* The store shows the room's command: it is what the host said.
LEMMA ShowsTheRoom ==
    ASSUME DriftTypes, Chain, hostAt.n # 0, shown.e.n = hostAt.n
    PROVE  /\ shown.hostPaused = hostAt.paused
           /\ shown.e.pos = hostAt.pos /\ shown.e.ts = hostAt.at + ahead
           /\ (shown.e.kind = "pause" \/ (shown.e.kind = "seek" /\ shown.hostPaused)) = hostAt.paused
           /\ shown.e.kind = "pause" => hostAt.paused
<1>1. /\ Ordered(inward, shown.e.n, hostAt, ahead) /\ Stated(inward, shown.e.n, shown.hostPaused, hostAt)
      /\ Current(shown.e, hostAt, ahead)
  BY DEF Chain, InStep
<1>2. /\ inward \in Seq(Replies \cup Events) /\ hostAt.n \in Nat /\ hostAt.paused \in BOOLEAN
      /\ shown.e \in Events /\ shown.hostPaused \in BOOLEAN
  BY DEF DriftTypes, ClockTypes, WireTypes, HostRec, Shown, NoCommand
<1>3. ASSUME NEW i \in Newer(inward, shown.e.n) PROVE FALSE
  <2>1. inward[i].n <= hostAt.n  BY <1>1, <1>3 DEF Ordered
  <2>2. inward[i].n \in Nat  BY <1>2, <1>3, NewerAreEvents
  <2>3. inward[i].n > shown.e.n  BY <1>3 DEF Newer
  <2> QED BY <1>2, <2>1, <2>2, <2>3
<1>4. shown.hostPaused = hostAt.paused
  BY <1>1, <1>3 DEF Stated
<1>5. IsHost(shown.e, hostAt, ahead) /\ Says(shown.e, hostAt)
  BY <1>1 DEF Current
<1>6. shown.e.kind \in {"play", "pause", "seek"}
  BY <1>2 DEF Events
<1> QED BY <1>2, <1>4, <1>5, <1>6 DEF IsHost, Says

\* Projecting the room's command puts the element where the room is.
LEMMA ProjectionClose ==
    ASSUME DriftAssumption, DriftTypes, Chain, hostAt.n # 0, shown.e.n = hostAt.n,
           hostAt.paused \/ Near(skew.ms)
    PROVE  Close(ExpectedPosition(shown.e, hostAt.paused), hostAt, now)
<1>1. /\ now \in Nat /\ ahead \in Int /\ hostAt.at \in Nat /\ hostAt.at <= now /\ hostAt.pos \in Int
      /\ hostAt.paused \in BOOLEAN /\ skew.ms \in Int /\ Half \in Nat
  BY HalfNatural DEF DriftTypes, ClockTypes, HostRec, Skew
<1>2. shown.e.pos = hostAt.pos /\ shown.e.ts = hostAt.at + ahead
  BY ShowsTheRoom
<1>3. CASE hostAt.paused
  <2>1. ExpectedPosition(shown.e, hostAt.paused) = hostAt.pos
    BY <1>2, <1>3 DEF ExpectedPosition
  <2>2. hostAt.pos + 0 = hostAt.pos /\ Distance(hostAt.pos, hostAt.pos) <= 0
    BY <1>1 DEF Distance
  <2> QED BY <1>3, <2>1, <2>2 DEF Close
<1>4. CASE ~hostAt.paused
  <2> DEFINE age == now - (hostAt.at + ahead - skew.ms)
             p == hostAt.pos + NotBelowZero(age)
             r == hostAt.pos + (now - hostAt.at)
  <2>1. ExpectedPosition(shown.e, hostAt.paused) = p
    <3>1. shown.e.ts - skew.ms = hostAt.at + ahead - skew.ms
      BY <1>1, <1>2
    <3> QED BY <1>2, <1>4, <3>1 DEF ExpectedPosition
  <2>2. skew.ms - ahead <= Half /\ ahead - skew.ms <= Half
    BY <1>4 DEF Near
  <2>3. age \in Int /\ p \in Int /\ r \in Int
    BY <1>1 DEF NotBelowZero
  <2>4. p - r <= Half /\ r - p <= Half
    BY <1>1, <2>2 DEF NotBelowZero
  <2>5. Distance(p, r) <= Half
    <3> HIDE DEF p, r
    <3> QED BY <2>3, <2>4, <1>1 DEF Distance
  <2> QED BY <1>4, <2>1, <2>5 DEF Close
<1> QED BY <1>3, <1>4

\* Whatever places the element places it on time, and it stays so as time passes.
LEMMA PlacedKept ==
    ASSUME DriftAssumption, DriftTypes, Measured, Chain, Placed, [DriftNext]_driftVars
    PROVE  Placed'
<1>0. /\ hostAt.n \in Nat /\ shown.e.n \in Nat /\ video.handled \in Nat /\ shown.e.n <= hostAt.n
      /\ video \in Element /\ hostAt.paused \in BOOLEAN /\ skew.known \in BOOLEAN /\ skew.paired \in BOOLEAN
      /\ now \in Nat /\ hostAt.at \in Nat /\ hostAt.pos \in Int /\ video.pos \in Int /\ video.handled <= shown.e.n
      /\ Half \in Nat /\ shown.hostPaused \in BOOLEAN
  BY ShownNumber, HalfNatural DEF DriftTypes, ClockTypes, HostRec, Element, Skew, Chain, InStep, Ordered, Placed, Shown
<1>m. skew.known /\ skew.paired => Near(skew.ms)
  BY DEF Measured
<1>s. ASSUME hostAt.n # 0, shown.e.n = hostAt.n
      PROVE  shown.hostPaused = hostAt.paused /\ (shown.e.kind = "pause" => hostAt.paused)
  BY <1>s, ShowsTheRoom
\* Where the apply effect and the raw correction put the element.
<1>a. ASSUME hostAt.n # 0, shown.e.n = hostAt.n, skew.known \/ shown.e.kind = "pause",
             skew.paired \/ hostAt.paused
      PROVE  Close(AppliedPosition(shown.e, shown.hostPaused), hostAt, now)
  <2>1. CASE skew.known
    <3>1. hostAt.paused \/ Near(skew.ms)
      BY <1>a, <1>m, <2>1
    <3>2. AppliedPosition(shown.e, shown.hostPaused) = ExpectedPosition(shown.e, hostAt.paused)
      BY <1>a, <2>1, ShowsTheRoom DEF AppliedPosition
    <3>3. Close(ExpectedPosition(shown.e, hostAt.paused), hostAt, now)
      BY <1>a, <3>1, ProjectionClose
    <3> QED BY <3>2, <3>3
  <2>2. CASE ~skew.known
    <3>1. hostAt.paused
      BY <1>a, <1>s, <2>2
    <3>2. AppliedPosition(shown.e, shown.hostPaused) = hostAt.pos
      BY <1>a, <2>2, ShowsTheRoom DEF AppliedPosition
    <3> QED BY <1>0, <3>1, <3>2 DEF Close, Distance
  <2> QED BY <2>1, <2>2
<1>1. ASSUME NEW kind \in {"play", "pause", "seek"}, NEW pos \in Positions, HostMoves(kind, pos)
      PROVE  Placed'
  <2>1. hostAt'.n = hostAt.n + 1 /\ video' = video /\ shown' = shown /\ skew' = skew
    BY <1>1 DEF HostMoves
  <2>2. video'.handled # hostAt'.n
    BY <1>0, <2>1
  <2> QED BY <2>1, <2>2 DEF Placed
<1>2. CASE DeliverInward
  <2>1. hostAt' = hostAt /\ video' = video /\ skew' = skew /\ now' = now /\ inward # <<>>
    BY <1>2 DEF DeliverInward
  <2>2. shown' = shown \/ shown'.e.n > shown.e.n
    <3>1. CASE Head(inward).kind = "reply"
      BY <1>2, <3>1 DEF DeliverInward
    <3>2. CASE Head(inward).kind # "reply"
      <4>1. Head(inward).n \in Nat
        <5>1. Head(inward) \in Events  BY <2>1, <3>2, HeadOfWire DEF DriftTypes
        <5> QED BY <5>1 DEF Events
      <4>2. shown' = IF Head(inward).n <= shown.e.n THEN shown
                     ELSE [e |-> Head(inward),
                           hostPaused |-> PausedBy(shown.hostPaused, Head(inward).kind)]
        BY <1>2, <3>2 DEF DeliverInward, DeliverEvent
      <4> QED BY <1>0, <4>1, <4>2
    <3> QED BY <3>1, <3>2
  <2>3. CASE shown' = shown
    BY <2>1, <2>3 DEF Placed
  <2>4. CASE shown'.e.n > shown.e.n
    <3>1. shown'.e.n \in Nat
      <4>1. shown' \in Shown  BY <1>2, DriftTypesKept DEF DriftTypes, DriftNext
      <4> QED BY <4>1, ShownNumber
    <3>2. video'.handled <= shown'.e.n /\ video'.handled # shown'.e.n
      <4>1. video.handled \in Nat /\ shown.e.n \in Nat /\ video.handled <= shown.e.n
        BY <1>0 DEF Placed
      <4> QED BY <2>1, <2>4, <3>1, <4>1
    <3> QED BY <2>1, <3>2 DEF Placed
  <2> QED BY <2>2, <2>3, <2>4
<1>3. CASE EndBurst
  <2>1. /\ hostAt' = hostAt /\ video' = video /\ shown' = shown /\ now' = now
        /\ skew'.known = skew.known \/ skew'.known
    BY <1>3 DEF EndBurst
  <2> QED BY <2>1 DEF Placed
<1>4. CASE ApplyEvent
  <2> DEFINE p == AppliedPosition(shown.e, shown.hostPaused)
  <2>1. /\ video'.handled = shown.e.n /\ video'.pos = p /\ video'.paired = skew.paired
        /\ video'.raw = IF ~skew.known /\ shown.e.kind # "pause" THEN shown.e.n ELSE 0
        /\ hostAt' = hostAt /\ shown' = shown /\ skew' = skew /\ now' = now
    BY <1>4 DEF ApplyEvent
  <2> HIDE DEF p
  <2>2. ASSUME hostAt.n # 0, shown.e.n = hostAt.n, video'.raw = 0, skew.paired \/ hostAt.paused
        PROVE  Close(p, hostAt, now)
    <3>1. skew.known \/ shown.e.kind = "pause"
      BY <1>0, <2>1, <2>2
    <3> QED BY <1>a, <2>2, <3>1 DEF p
  <2>3. video'.raw \in {0, video'.handled} /\ video'.handled <= shown'.e.n
    BY <1>0, <2>1
  <2>4. ~skew'.known /\ shown'.e.n # 0 /\ shown'.e.kind # "pause" => video'.raw # 0
    BY <2>1
  <2> QED BY <2>1, <2>2, <2>3, <2>4 DEF Placed
<1>5. CASE CorrectRaw
  <2>0. /\ hostAt' = hostAt /\ shown' = shown /\ skew' = skew /\ now' = now /\ skew.known
        /\ video.raw # 0
    BY <1>5 DEF CorrectRaw, RawDue
  <2>1. CASE video.raw # shown.e.n
    <3>1. video'.handled = video.handled /\ video'.raw = 0
      BY <1>0, <1>5, <2>1 DEF CorrectRaw, Element
    <3>2. video.handled = video.raw
      BY <2>0 DEF Placed
    <3>3. video'.handled # hostAt.n /\ video'.handled <= shown'.e.n
      BY <1>0, <2>0, <2>1, <3>1, <3>2
    <3> QED BY <2>0, <3>1, <3>3 DEF Placed
  <2>2. CASE video.raw = shown.e.n
    <3> DEFINE p == AppliedPosition(shown.e, shown.hostPaused)
    <3>1. /\ video'.handled = video.handled /\ video'.raw = 0 /\ video'.pos = p
          /\ video'.paired = skew.paired
      BY <1>0, <1>5, <2>2 DEF CorrectRaw, Element
    <3> HIDE DEF p
    <3>2. video.handled = shown.e.n
      BY <2>0, <2>2 DEF Placed
    <3>3. ASSUME hostAt.n # 0, shown.e.n = hostAt.n, skew.paired \/ hostAt.paused
          PROVE  Close(p, hostAt, now)
      BY <1>a, <2>0, <3>3 DEF p
    <3> QED BY <1>0, <2>0, <3>1, <3>2, <3>3 DEF Placed
  <2> QED BY <2>1, <2>2
<1>6. CASE Sync
  <2> DEFINE p == ExpectedPosition(shown.e, shown.hostPaused)
  <2>0. /\ hostAt' = hostAt /\ shown' = shown /\ skew' = skew /\ now' = now
        /\ shown.e.n # 0 /\ video.handled = shown.e.n /\ (skew.known => video.raw = 0)
    BY <1>6 DEF Sync, RawDue
  <2>1. /\ video'.handled = video.handled /\ video'.raw = video.raw /\ video'.pos = p
        /\ video'.paired = skew.paired
    BY <1>0, <1>6 DEF Sync, Element
  <2> HIDE DEF p
  <2>2. ASSUME hostAt.n # 0, shown.e.n = hostAt.n, video.raw = 0, skew.paired \/ hostAt.paused
        PROVE  Close(p, hostAt, now)
    <3>1. hostAt.paused \/ Near(skew.ms)
      <4>1. skew.known \/ shown.e.kind = "pause"  BY <2>0, <2>2 DEF Placed
      <4> QED BY <1>m, <1>s, <2>2, <4>1
    <3>2. shown.hostPaused = hostAt.paused
      BY <1>s, <2>2
    <3> QED BY <2>2, <3>1, <3>2, ProjectionClose DEF p
  <2> QED BY <2>0, <2>1, <2>2 DEF Placed
<1>7. CASE UserToggles
  <2>1. /\ video'.handled = video.handled /\ video'.raw = video.raw /\ video'.moved
        /\ hostAt' = hostAt /\ shown' = shown /\ skew' = skew
    BY <1>0, <1>7 DEF UserToggles, Element
  <2> QED BY <2>1 DEF Placed
<1>8. CASE Tick
  <2>1. /\ video'.handled = video.handled /\ video'.raw = video.raw /\ video'.moved = video.moved
        /\ video'.playing = video.playing /\ video'.paired = video.paired
        /\ video'.pos = (IF video.playing THEN video.pos + 1 ELSE video.pos)
        /\ hostAt' = hostAt /\ shown' = shown /\ skew' = skew /\ now' = now + 1
    BY <1>0, <1>8 DEF Tick, Element
  <2>2. ASSUME Close(video.pos, hostAt, now), video.playing = ~hostAt.paused
        PROVE  Close(video'.pos, hostAt, now + 1)
    <3>1. CASE hostAt.paused
      BY <2>1, <2>2, <3>1 DEF Close
    <3>2. CASE ~hostAt.paused
      <4>1. video'.pos = video.pos + 1  BY <2>1, <2>2, <3>2
      <4> QED BY <1>0, <2>2, <3>2, <4>1 DEF Close, Distance
    <3> QED BY <3>1, <3>2
  <2>3. hostAt'.paused = hostAt.paused  BY <2>1
  <2> QED BY <2>1, <2>2, <2>3 DEF Placed
<1>9. CASE UNCHANGED <<now, hostAt, skew, shown, video>>
  BY <1>9 DEF Placed
<1> QED BY <1>1, <1>2, <1>3, <1>4, <1>5, <1>6, <1>7, <1>8, <1>9
     DEF DriftNext, HandleSkewProbe, Break, StartBurst, SkewProbe, ProbeTimeout, driftVars

\* A fresh page in a room nothing has been played in.
LEMMA DriftInvInit == ASSUME DriftAssumption, DriftInit PROVE DriftInv
<1> USE DEF DriftInit
<1>1. DriftTypes
  BY DEF DriftAssumption, DriftTypes, ClockTypes, WireTypes, ProbeTypes, HostRec, Burst, IdleBurst, Skew,
         Unmeasured, Shown, Element, FreshElement
<1>2. Newer(inward, 0) = {} /\ shown.e = NoCommand /\ shown.e.n = 0 /\ hostAt.n = 0
  BY DEF Newer, NoCommand
<1>3. Chain
  <2>1. Ordered(inward, 0, hostAt, ahead) /\ Stated(inward, 0, shown.hostPaused, hostAt)
    BY <1>2 DEF Ordered, Stated
  <2>2. Current(shown.e, hostAt, ahead)
    BY <1>2 DEF Current
  <2> QED BY <1>2, <2>1, <2>2 DEF Chain, InStep
<1>4. Stamped /\ Measured
  BY DEF Stamped, Measured, IdleBurst, Unmeasured
<1>5. Placed
  BY <1>2 DEF Placed, FreshElement
<1> QED BY <1>1, <1>3, <1>4, <1>5 DEF DriftInv

\* DriftInv is an invariant of the viewer beside its room.
THEOREM DriftInvariant == DriftSpec => []DriftInv
<1>1. DriftInit => DriftInv
  BY DriftInvInit, DriftAssumption
<1>2. DriftInv /\ [DriftNext]_driftVars => DriftInv'
  <2> SUFFICES ASSUME DriftInv, [DriftNext]_driftVars PROVE DriftInv'
    OBVIOUS
  <2>1. DriftTypes /\ Stamped /\ Measured /\ Chain /\ Placed
    BY DEF DriftInv
  <2>2. DriftTypes'  BY <2>1, DriftTypesKept, DriftAssumption
  <2>3. Stamped'  BY <2>1, <2>2, StampedKept
  <2>4. Measured'  BY <2>1, MeasuredKept, DriftAssumption
  <2>5. Chain'  BY <2>1, ChainKept, DriftAssumption
  <2>6. Placed'  BY <2>1, PlacedKept, DriftAssumption
  <2> QED BY <2>2, <2>3, <2>4, <2>5, <2>6 DEF DriftInv
<1> QED BY <1>1, <1>2, PTL DEF DriftSpec

\* A viewer that follows its room is where the room is, to half the longest
\* round trip a probe may take, for any clocks, delays and interleavings: what
\* the apply effect, the raw correction (Player.tsx) and Sync are there for.
THEOREM FollowerOnTime == DriftSpec => []PlayerOnTime
<1>1. DriftInv => PlayerOnTime
  <2> SUFFICES ASSUME DriftInv, Following, video.paired \/ hostAt.paused
               PROVE  Distance(video.pos, RoomPosition)
                        <= IF hostAt.paused THEN 0 ELSE (MAX_RTT + 1) \div 2
    BY DEF PlayerOnTime
  <2>1. Placed /\ video.raw = 0
    BY DEF DriftInv, Following, RawDue
  <2>2. Close(video.pos, hostAt, now)
    BY <2>1 DEF Placed, Following
  <2> QED BY <2>2 DEF Close, RoomPosition, Half
<1> QED BY <1>1, DriftInvariant, PTL
=============================================================================
