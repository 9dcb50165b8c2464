------------------------------ MODULE Manifests ------------------------------
(***************************************************************************)
(* How a room's manifest travels: the host's publish tasks (room/host.rs), *)
(* the server's reassembly, versioning and broadcast (rooms/manifest.rs,   *)
(* rooms/dispatch.rs), and every member's acceptance pipeline              *)
(* (net/room.rs) with its one late-join fetch.                             *)
(*                                                                         *)
(* A manifest is [n, by, of]: a number that stands for its signature, the  *)
(* user who signed it and the frames it takes on the wire.  Contents,      *)
(* hashes and signatures are left out; every manifest here verifies.       *)
(***************************************************************************)
EXTENDS Naturals, Sequences, FiniteSets, FiniteSetsExt, SequencesExt

CONSTANTS
    Users, FirstHost,
    Sizes,          \* frames a manifest may take
    Keep,           \* MANIFEST_VERSIONS_KEPT
    MaxAttempts,    \* MAX_PUBLISH_ATTEMPTS
    MaxPublishes,   \* bound on the manifests built
    MaxConns,       \* bound on one user's connections
    MaxSetbacks      \* bound on losses, drops, timeouts, restarts

ASSUME ManifestsAssumption ==
    /\ FirstHost \in Users
    /\ Sizes \subseteq Nat \ {0}
    /\ Keep \in Nat \ {0} /\ MaxAttempts \in Nat \ {0}
    /\ {MaxPublishes, MaxConns, MaxSetbacks} \subseteq Nat

NoItem  == [n |-> 0]                     \* no manifest, entry, task or request
Slots == {"command", "hook"}           \* the tasks that may publish
Tasks == Slots \cup {"inbound", "fetch"} \* the tasks that may accept

VARIABLES
    host,      \* the registry's current host
    rows,      \* room_manifests: [v, m]
    cache,     \* the registry's current manifest, [v, m] or None
    insert,    \* a publish between INSERT and broadcast, [u, v, m] or None
    session,      \* per user: its connection, 0 while disconnected
    conns,     \* per user: connections so far
    asm,       \* per connection: the server's PartAssembler
    toRoom, toMember,  \* frames on their way to the server, to the client
    anchor,    \* RoomClient.expected_host_pubkey
    parts,     \* RoomClient.manifest_parts, one entry per kind
    version, cached, \* current_versions, verified_manifests
    accept,    \* per task: the manifest between the two locks of accept_manifest
    fetch,     \* the bridge's one fetch of the room
    task,      \* per slot: build_sign_and_publish_selected
    selected,  \* host_media_selection is set
    built,     \* manifests built so far
    stored,    \* history: every [v, m] ever inserted
    missed,    \* history: the newest broadcast or the fetch was lost on the way
    overlap,   \* history: two tasks were inside accept_manifest at once
    setbacks    \* the faults so far

roomVars  == <<host, rows, cache, insert, stored>>
wire    == <<session, conns, asm, toRoom, toMember, missed, setbacks>>
client  == <<anchor, parts, version, cached, accept, fetch, overlap>>
publish == <<task, selected, built>>
manifestVars    == <<roomVars, wire, client, publish>>

\* One of the bounded faults happens.
Setback == setbacks < MaxSetbacks /\ setbacks' = setbacks + 1

\* A manifest: which one, its publisher, the frames it takes.
Manifest == [n: Nat \ {0}, by: Users, of: Sizes]
\* A row of room_manifests.
Versioned == [v: Nat \ {0}, m: Manifest]
\* What a client sends: MANIFEST_REQUEST and the frames of a MANIFEST_PUBLISH.
RoomFrames == [kind: {"request"}]
              \cup [kind: {"publish"}, id: Nat \X Nat, v: Nat, m: Manifest, i: Nat]
\* What the server puts on the wire is a manifest of its table, or an error.
MemberFrames ==
    [kind: {"error"}]
    \cup {f \in [kind: {"published", "response"}, id: {"v", "r"} \X Nat, v: Nat, m: Manifest, i: Nat] :
             [v |-> f.v, m |-> f.m] \in stored}
\* Where the one fetch of a manifest stands.
Fetches == [st: {"away", "todo", "waiting", "done"}] \cup [st: {"got"}, m: Manifest, v: Nat]
\* Where a publisher stands.
PublishTasks == [st: {"idle"}] \cup [st: {"confirmed"}, m: Manifest]
                \cup [st: {"sending", "local", "waiting"}, m: Manifest, attempt: Nat, next: Nat, conn: Nat]

-----------------------------------------------------------------------------
(* Pieces and their reassembly *)

\* The frames of one message: a manifest of several frames goes as pieces,
\* numbered, under an assembly id of their own.
FramesOf(kind, id, v, m) ==
    [i \in 1 .. m.of |-> [kind |-> kind, id |-> id, v |-> v, m |-> m, i |-> i - 1]]

Belongs(e, f)   == e # NoItem /\ e.id = f.id
Completes(e, f) == f.m.of = 1 \/ (Belongs(e, f) /\ f.i = e.next /\ f.i + 1 = f.m.of)

\* The entry of f's kind after f: the next piece extends it, the last one and a
\* gap remove it, and only a first piece begins an assembly.
Pushed(e, f) ==
    IF f.m.of = 1 THEN e
    ELSE IF Belongs(e, f)
         THEN IF f.i = e.next /\ f.i + 1 < f.m.of THEN [e EXCEPT !.next = @ + 1] ELSE NoItem
         ELSE IF f.i = 0 THEN [n |-> 1, id |-> f.id, next |-> 1] ELSE e

\* begin drops the entries of the same kind only.
BegunForgets(es, f) == IF f.i = 0 THEN [k \in DOMAIN es |-> IF k = f.kind THEN Pushed(NoItem, f) ELSE NoItem]
                       ELSE [es EXCEPT ![f.kind] = Pushed(@, f)]
Begun(es, f)       == [es EXCEPT ![f.kind] = Pushed(@, f)]

-----------------------------------------------------------------------------
(* The server *)

NextVersion(rs)        == Max({r.v : r \in rs} \cup {0}) + 1

Newest(rs) == CHOOSE r \in rs : \A s \in rs : s.v <= r.v

Pruned(rs) == {r \in rs : Cardinality({s \in rs : s.v > r.v}) < Keep}

\* The checks before the lock: the signer is the authenticated publisher.
SignedBy(u, m) == m.by = u

\* The check under the lock, and the capability gate's on every piece.
IsCurrentHost(u) == host = u

\* handle_manifest_publish up to the INSERT: the room lock is taken and kept.
Insert(u, m) ==
    LET v == NextVersion(rows) IN
    /\ insert = NoItem
    /\ IF SignedBy(u, m) /\ IsCurrentHost(u)
       THEN /\ rows' = rows \cup {[v |-> v, m |-> m]}
            /\ stored' = stored \cup {[v |-> v, m |-> m]}
            /\ insert' = [n |-> 1, u |-> u, v |-> v, m |-> m]
       ELSE UNCHANGED <<rows, stored, insert>>
    /\ UNCHANGED <<host, cache>>

\* u's connection task is not itself inside a publish.
Idle(u) == ~(insert # NoItem /\ insert.u = u)

TookUp(u) == toRoom' = [toRoom EXCEPT ![u] = Tail(@)]

\* A MANIFEST_PUBLISH, or a MANIFEST_PART; the host check runs on every piece
\* and a refusal clears the assembler.
ServePublish(u) ==
    LET f == Head(toRoom[u]) IN
    /\ session[u] # 0 /\ toRoom[u] # << >> /\ f.kind = "publish"
    /\ Idle(u)
    /\ TookUp(u)
    /\ asm' = [asm EXCEPT ![u] = IF f.m.of = 1 THEN @ ELSE IF IsCurrentHost(u) THEN Pushed(@, f) ELSE NoItem]
    /\ IF Completes(asm[u], f) /\ (f.m.of = 1 \/ IsCurrentHost(u)) THEN Insert(u, f.m)
       ELSE UNCHANGED roomVars
    /\ UNCHANGED <<session, conns, toMember, missed, setbacks, client, publish>>

\* The rest of the publish under the same lock: prune, cache, broadcast.
Announce ==
    /\ insert # NoItem
    /\ rows' = Pruned(rows)
    /\ cache' = [n |-> 1, v |-> insert.v, m |-> insert.m]
    /\ insert' = NoItem
    /\ toMember' = [u \in Users |-> IF session[u] = 0 THEN << >>
                    ELSE toMember[u] \o FramesOf("published", <<"v", insert.v>>, insert.v, insert.m)]
    /\ missed' = [u \in Users |-> session[u] = 0]
    /\ UNCHANGED <<host, stored, session, conns, asm, toRoom, setbacks, client, publish>>

\* MANIFEST_REQUEST reads the cache without the room lock.  The connection loop
\* writes the answer after some of the broadcast items that are queued for it.
ServeFetch(u) ==
    LET answer == IF cache = NoItem THEN <<[kind |-> "error"]>>
                  ELSE FramesOf("response", <<"r", conns[u]>>, cache.v, cache.m)
    IN
    /\ session[u] # 0 /\ toRoom[u] # << >> /\ Head(toRoom[u]).kind = "request"
    /\ Idle(u)
    /\ TookUp(u)
    /\ \E k \in 0 .. Len(toMember[u]) :
          toMember' = [toMember EXCEPT ![u] = SubSeq(@, 1, k) \o answer \o SubSeq(@, k + 1, Len(@))]
    /\ UNCHANGED <<session, conns, asm, missed, setbacks, roomVars, client, publish>>

\* The feed overflows and an item that was still queued is gone.
Lag(u) ==
    /\ session[u] # 0
    /\ \E k \in DOMAIN toMember[u] :
          /\ toMember[u][k].kind = "published"
          /\ missed' = [missed EXCEPT ![u] = @ \/ (cache # NoItem /\ toMember[u][k].v = cache.v)]
          /\ toMember' = [toMember EXCEPT ![u] = RemoveAt(@, k)]
    /\ Setback
    /\ UNCHANGED <<session, conns, asm, toRoom, roomVars, client, publish>>

\* The byte rate limiter drops a frame.
Limited(u) ==
    /\ session[u] # 0 /\ toRoom[u] # << >>
    /\ TookUp(u)
    /\ missed' = [missed EXCEPT ![u] = @ \/ Head(toRoom[u]).kind = "request"]
    /\ Setback
    /\ UNCHANGED <<session, conns, asm, toMember, roomVars, client, publish>>

\* The host's transport is gone and the room migrates (once, a bound).
Migrate(u) ==
    /\ insert = NoItem /\ host = FirstHost /\ u # host /\ session[u] # 0 /\ session[host] = 0
    /\ host' = u
    /\ UNCHANGED <<rows, cache, insert, stored, wire, client, publish>>

\* The process dies and the room is rehydrated from its rows.
Crash ==
    /\ Setback
    /\ insert' = NoItem
    /\ cache' = IF rows = {} THEN NoItem
                ELSE [n |-> 1, v |-> Newest(rows).v, m |-> Newest(rows).m]
    /\ session' = [u \in Users |-> 0]
    /\ asm' = [u \in Users |-> NoItem]
    /\ toRoom' = [u \in Users |-> << >>]
    /\ toMember' = [u \in Users |-> << >>]
    /\ missed' = [u \in Users |-> TRUE]
    /\ UNCHANGED <<host, rows, stored, conns, client, publish>>

-----------------------------------------------------------------------------
(* The client: acceptance *)

\* accept_manifest's checks of the signature, the room and the trust anchor.
Anchored(u, m) == anchor[u] = m.by

\* A mutant: no stale guard.
AcceptAnyVersion(u, t, m, v) ==
    IF Anchored(u, m)
    THEN /\ version' = [version EXCEPT ![u] = v]
         /\ accept' = [accept EXCEPT ![u][t] = m]
         /\ overlap' = [overlap EXCEPT ![u] = @ \/ \E o \in Tasks : accept[u][o] # NoItem]
    ELSE UNCHANGED <<version, accept, overlap>>

\* accept_manifest up to the first lock's release: the anchor, then the stale
\* guard on the version.
AcceptVersion(u, t, m, v) ==
    IF Anchored(u, m) /\ v >= version[u]
    THEN /\ version' = [version EXCEPT ![u] = v]
         /\ accept' = [accept EXCEPT ![u][t] = m]
         /\ overlap' = [overlap EXCEPT ![u] = @ \/ \E o \in Tasks : accept[u][o] # NoItem]
    ELSE UNCHANGED <<version, accept, overlap>>

\* The second lock: the manifest itself.
AcceptCache(u, t) ==
    /\ accept[u][t] # NoItem
    /\ cached' = [cached EXCEPT ![u] = accept[u][t]]
    /\ accept' = [accept EXCEPT ![u][t] = NoItem]
    /\ UNCHANGED <<anchor, parts, version, fetch, overlap, roomVars, wire, publish>>

\* The inbound loop, one frame at a time.
Receive(u) ==
    LET f == Head(toMember[u]) IN
    /\ session[u] # 0 /\ toMember[u] # << >> /\ accept[u]["inbound"] = NoItem
    /\ toMember' = [toMember EXCEPT ![u] = Tail(@)]
    /\ IF f.kind = "error"
       THEN /\ fetch' = [fetch EXCEPT ![u] = IF @.st = "waiting" THEN [st |-> "done"] ELSE @]
            /\ UNCHANGED <<parts, version, accept, overlap>>
       ELSE /\ parts' = [parts EXCEPT ![u] = Begun(@, f)]
            /\ IF f.kind = "published" /\ Completes(parts[u]["published"], f)
               THEN AcceptVersion(u, "inbound", f.m, f.v)
               ELSE UNCHANGED <<version, accept, overlap>>
            /\ fetch' = [fetch EXCEPT ![u] =
                    IF f.kind = "response" /\ @.st = "waiting" /\ Completes(parts[u]["response"], f)
                    THEN [st |-> "got", m |-> f.m, v |-> f.v] ELSE @]
    /\ UNCHANGED <<anchor, cached, session, conns, asm, toRoom, missed, setbacks, roomVars, publish>>

\* An assembly without progress for the ttl is dropped.
ExpireParts(u) ==
    /\ \E k \in DOMAIN parts[u] : parts[u][k] # NoItem
    /\ toMember[u] = << >>
    /\ parts' = [parts EXCEPT ![u] = [k \in DOMAIN @ |-> NoItem]]
    /\ UNCHANGED <<anchor, version, cached, accept, fetch, overlap, roomVars, wire, publish>>

\* useSharedMediaBridge: a member with nothing shared asks once per room.
Fetch(u) ==
    /\ fetch[u].st = "todo" /\ host # u /\ cached[u] = NoItem
    /\ IF session[u] = 0
       THEN fetch' = [fetch EXCEPT ![u] = [st |-> "done"]] /\ UNCHANGED toRoom
       ELSE /\ fetch' = [fetch EXCEPT ![u] = [st |-> "waiting"]]
            /\ toRoom' = [toRoom EXCEPT ![u] = Append(@, [kind |-> "request"])]
    /\ UNCHANGED <<anchor, parts, version, cached, accept, overlap,
                   session, conns, asm, toMember, missed, setbacks, roomVars, publish>>

FetchTimeout(u) ==
    /\ fetch[u].st = "waiting"
    /\ Setback
    /\ fetch' = [fetch EXCEPT ![u] = [st |-> "done"]]
    /\ missed' = [missed EXCEPT ![u] = TRUE]
    /\ UNCHANGED <<anchor, parts, version, cached, accept, overlap,
                   session, conns, asm, toRoom, toMember, roomVars, publish>>

\* manifest_fetch goes on with the response it waited for.
FetchAccept(u) ==
    /\ fetch[u].st = "got"
    /\ AcceptVersion(u, "fetch", fetch[u].m, fetch[u].v)
    /\ fetch' = [fetch EXCEPT ![u] = [st |-> "done"]]
    /\ UNCHANGED <<anchor, parts, cached, roomVars, wire, publish>>

-----------------------------------------------------------------------------
(* The client: publishing *)

NoTask == [st |-> "idle"]

\* build_manifest_for: a fresh manifest, signed by u, of k frames.
Fresh(u, k) == [n |-> built + 1, by |-> u, of |-> k]

\* sign_and_publish_counted begins: it fails at once without a connection.
Sending(u, m, attempt) ==
    IF session[u] = 0 THEN NoTask
    ELSE [st |-> "sending", m |-> m, attempt |-> attempt, next |-> 1, conn |-> session[u]]

\* build_sign_and_publish_selected up to the first frame: the manifest is
\* built and the publisher becomes its own trust anchor.
Build(u, s, k) ==
    /\ task[u][s] = NoTask /\ built < MaxPublishes
    /\ built' = built + 1
    /\ task' = [task EXCEPT ![u][s] = Sending(u, Fresh(u, k), 1)]
    /\ UNCHANGED selected

Publish(u) ==
    /\ u \in {host, FirstHost} /\ conns[u] > 0
    /\ \E k \in Sizes : Build(u, "command", k)
    /\ anchor' = [anchor EXCEPT ![u] = u]
    /\ UNCHANGED <<parts, version, cached, accept, fetch, overlap, roomVars, wire>>

\* The next frame.  A single frame needs a connection, a piece the one the
\* first piece went out on; when all are sent several frames wait for the
\* server's broadcast and a single one does not.
Send(u, s) ==
    LET t == task[u][s] IN
    /\ t.st = "sending"
    /\ IF session[u] = 0 \/ (t.m.of > 1 /\ session[u] # t.conn)
       THEN task' = [task EXCEPT ![u][s] = NoTask] /\ UNCHANGED <<toRoom, selected>>
       ELSE /\ toRoom' = [toRoom EXCEPT ![u] =
                  Append(@, FramesOf("publish", <<t.m.n, t.attempt>>, 0, t.m)[t.next])]
            /\ task' = [task EXCEPT ![u][s] =
                  IF t.next < t.m.of THEN [t EXCEPT !.next = @ + 1]
                  ELSE [t EXCEPT !.st = IF t.m.of = 1 THEN "local" ELSE "waiting"]]
            /\ selected' = [selected EXCEPT ![u] = @ \/ t.m.of = 1]
    /\ UNCHANGED <<built, session, conns, asm, toMember, missed, setbacks, roomVars, client>>

\* A single frame is accepted locally, as version 1.
AcceptLocal(u, s) ==
    /\ task[u][s].st = "local"
    /\ AcceptVersion(u, s, task[u][s].m, 1)
    /\ task' = [task EXCEPT ![u][s] = NoTask]
    /\ UNCHANGED <<anchor, parts, cached, fetch, selected, built, roomVars, wire>>

\* wait_for_manifest_signature: the cached manifest is the one that was sent.
IsConfirmedByAny(u, m) == cached[u] # NoItem
IsConfirmed(u, m)      == cached[u] = m

Confirm(u, s) ==
    /\ task[u][s].st = "waiting" /\ IsConfirmed(u, task[u][s].m)
    /\ task' = [task EXCEPT ![u][s] = [st |-> "confirmed", m |-> task[u][s].m]]
    /\ selected' = [selected EXCEPT ![u] = TRUE]
    /\ UNCHANGED <<built, roomVars, wire, client>>

\* The command returns.
Return(u, s) ==
    /\ task[u][s].st = "confirmed"
    /\ task' = [task EXCEPT ![u][s] = NoTask]
    /\ UNCHANGED <<selected, built, roomVars, wire, client>>

\* The deadline passes: another attempt under a new assembly id, or an error.
Retry(u, s) ==
    LET t == task[u][s] IN
    /\ t.st = "waiting" /\ ~IsConfirmed(u, t.m)
    /\ Setback
    /\ task' = [task EXCEPT ![u][s] =
           IF t.attempt >= MaxAttempts THEN NoTask ELSE Sending(u, t.m, t.attempt + 1)]
    /\ UNCHANGED <<selected, built, roomVars, session, conns, asm, toRoom, toMember, missed, client>>

-----------------------------------------------------------------------------
(* The link under it *)

NewConn(u) ==
    /\ session[u] = 0 /\ conns[u] < MaxConns
    /\ session' = [session EXCEPT ![u] = conns[u] + 1]
    /\ conns' = [conns EXCEPT ![u] = @ + 1]

\* room_join with the host's invite.
JoinShared(u) ==
    /\ conns[u] = 0 /\ NewConn(u)
    /\ anchor' = [anchor EXCEPT ![u] = host]
    /\ fetch' = [fetch EXCEPT ![u] = [st |-> "todo"]]
    /\ missed' = [missed EXCEPT ![u] = FALSE]
    /\ UNCHANGED <<parts, version, cached, accept, overlap, asm, toRoom, toMember, setbacks, roomVars, publish>>

\* The connection is back, the room rejoined; a host who had shared shares
\* again in a task of its own.
ReconnectConn(u) ==
    /\ conns[u] > 0 /\ NewConn(u)
    /\ IF host = u /\ selected[u]
       THEN /\ task[u]["hook"] = NoTask /\ built < MaxPublishes
            /\ built' = built + 1
            /\ \E k \in Sizes : task' = [task EXCEPT ![u]["hook"] =
                   [st |-> "sending", m |-> Fresh(u, k),
                    attempt |-> 1, next |-> 1, conn |-> conns[u] + 1]]
            /\ anchor' = [anchor EXCEPT ![u] = u]
       ELSE UNCHANGED <<built, task, anchor>>
    /\ UNCHANGED <<selected, parts, version, cached, accept, fetch, overlap,
                   asm, toRoom, toMember, missed, setbacks, roomVars>>

\* A connection is lost with everything on it.
LoseConn(u) ==
    /\ session[u] # 0
    /\ Setback
    /\ session' = [session EXCEPT ![u] = 0]
    /\ asm' = [asm EXCEPT ![u] = NoItem]
    /\ toRoom' = [toRoom EXCEPT ![u] = << >>]
    /\ toMember' = [toMember EXCEPT ![u] = << >>]
    /\ missed' = [missed EXCEPT ![u] = TRUE]
    /\ UNCHANGED <<conns, roomVars, client, publish>>

ManifestsInit ==
    /\ host = FirstHost /\ rows = {} /\ cache = NoItem /\ insert = NoItem /\ stored = {}
    /\ setbacks = 0 /\ built = 0
    /\ session = [u \in Users |-> IF u = FirstHost THEN 1 ELSE 0]
    /\ conns = session
    /\ asm = [u \in Users |-> NoItem]
    /\ toRoom = [u \in Users |-> << >>] /\ toMember = toRoom
    /\ anchor = [u \in Users |-> 0]
    /\ parts = [u \in Users |-> [k \in {"published", "response"} |-> NoItem]]
    /\ version = [u \in Users |-> 0]
    /\ cached = [u \in Users |-> NoItem]
    /\ accept = [u \in Users |-> [t \in Tasks |-> NoItem]]
    /\ fetch = [u \in Users |-> [st |-> IF u = FirstHost THEN "todo" ELSE "away"]]
    /\ task = [u \in Users |-> [s \in Slots |-> NoTask]]
    /\ selected = [u \in Users |-> FALSE]
    /\ missed = [u \in Users |-> FALSE] /\ overlap = missed

\* What the server's and the clients' tasks do.
RoomServes == Announce \/ \E u \in Users : ServePublish(u) \/ ServeFetch(u)
Run(u) == \/ Receive(u) \/ Fetch(u) \/ FetchAccept(u)
          \/ \E t \in Tasks : AcceptCache(u, t)
          \/ \E s \in Slots : Send(u, s) \/ AcceptLocal(u, s) \/ Confirm(u, s) \/ Return(u, s)
\* What may or may not happen.
Input == \E u \in Users : Publish(u) \/ JoinShared(u) \/ ReconnectConn(u)
Misfortune ==
    \/ Crash
    \/ \E u \in Users : \/ Lag(u) \/ Limited(u) \/ Migrate(u) \/ LoseConn(u)
                        \/ ExpireParts(u) \/ FetchTimeout(u)
                        \/ \E s \in Slots : Retry(u, s)

Work == RoomServes \/ \E u \in Users : Run(u)

ManifestsNext == Work \/ Input \/ Misfortune

ManifestsSpec == ManifestsInit /\ [][ManifestsNext]_manifestVars

-----------------------------------------------------------------------------
(* Properties *)

\* A multi-frame publish that returns success is in the server's table, whatever
\* pieces were dropped, refused, or mixed with those of a second publish task.
ConfirmedIsStored ==
    \A u \in Users, s \in Slots :
        task[u][s].st = "confirmed" => \E r \in stored : r.m = task[u][s].m

VersionsOf(m) == {r.v : r \in {x \in stored : x.m = m}}

\* A member that publishes nothing itself never goes back to an older manifest,
\* in whatever order broadcasts and its fetch's response arrive (unless two
\* tasks were inside accept_manifest at once, whose two locks do not nest).
NoDowngrade ==
    [][\A u \in Users :
          (cached[u] # NoItem /\ cached'[u] # cached[u] /\ anchor[u] # u /\ ~overlap[u])
              => \E a \in VersionsOf(cached[u]), b \in VersionsOf(cached'[u]) : a < b]_manifestVars

\* u is not the host, and accepts manifests of whoever signed the current one.
Trusts(u) == cache # NoItem /\ anchor[u] = cache.m.by /\ anchor[u] # u /\ host # u

\* Nothing is left to do for u: no frame of its own or for it, no task of it
\* and no publish under way, and its fetch over or not needed.
AllArrived(u) ==
    /\ session[u] # 0 /\ insert = NoItem /\ toRoom[u] = << >> /\ toMember[u] = << >>
    /\ \A t \in Tasks : accept[u][t] = NoItem
    /\ fetch[u].st = "done" \/ (fetch[u].st = "todo" /\ cached[u] # NoItem)

\* Once everything has arrived, a member that trusts the signer has the room's
\* current manifest, from the broadcast or from its one fetch, unless the newest
\* broadcast or the fetch was lost on the way to it.
Delivered ==
    \A u \in Users :
        (Trusts(u) /\ AllArrived(u) /\ ~missed[u] /\ ~overlap[u]) => cached[u] = cache.m
=============================================================================
