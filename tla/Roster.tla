-------------------------------- MODULE Roster --------------------------------
(***************************************************************************)
(* Who is in the room, who hosts it and what one may do there, as one       *)
(* client shows it: the registry changes the room under its lock            *)
(* (rooms/registry.rs, host.rs, permissions.rs), publishes the events after *)
(* letting go of it, the connection's forwarder picks those that are for    *)
(* Me (ws/mod.rs), and RoomClient::handle_inbound (net/room.rs) applies     *)
(* them to the summary it took from ROOM_JOINED, ROOM_STATE or              *)
(* HOST_MIGRATED, which it also writes to its database                      *)
(* (storage/room_snapshot.rs).                                             *)
(*                                                                         *)
(* RoomRegistry has the registry's rules for themselves: here an elected    *)
(* host is any that may be elected, silence may be noticed at any time, and *)
(* the room is never full.  The rights of others are not shown.             *)
(***************************************************************************)
EXTENDS Naturals, Sequences, FiniteSets, SequencesExt

CONSTANTS
    People,      \* who may be in the room
    Me,          \* the one whose client is modelled
    Ring,        \* capacity of the broadcast channel
    MaxChanges,  \* bound: changes of the room
    MaxAsks,     \* bound: commands of the user
    MaxDrops     \* bound: connections lost

ASSUME RosterAssumption ==
    /\ Me \in People
    /\ Ring \in Nat \ {0} /\ {MaxChanges, MaxAsks, MaxDrops} \subseteq Nat

VARIABLES
    standing,   \* the room: "open", "ended" and, out of the registry, "removed"
    seats,      \* the participants: "none" (or Left), "on", "off" or "away"
    chief,      \* host_user_id
    grace,      \* host_disconnect_deadline_ms is set
    migrates,   \* host_migration_enabled
    rights,     \* cap_set
    saying,     \* events of changes made and not yet published, a list per change
    air,        \* what the forwarder has not taken from the channel
    tuned,      \* the forwarder holds a receiver of the room's channel
    wired,      \* Me's connection: "on"; "lost": closed, not noticed; "down"
    asks,       \* to the server: "join", "rejoin" (of the reconnect hook), "leave"
    reply,      \* what the dispatcher returned and the connection has yet to write
    line,       \* to the client: envelopes under way
    client,     \* RoomClient: its summary, local_user_id is set, users in its database
    unseen,     \* history: seats whose holder was announced as timed out
    doubt,      \* history: what the client may have wrong since its last snapshot
    snap,       \* history: the changes its last snapshot includes
    changes, asked, drops

roomState == <<standing, seats, chief, grace, rights, unseen>>
channel   == <<saying, air>>
session   == <<tuned, wired, asks, reply, line>>
known     == <<doubt, snap>>
bounds    == <<asked, drops>>
rosterVars == <<roomState, migrates, channel, session, client, known, changes, bounds>>

\* The cap_set of one who joins, of one the host has granted something, and of
\* the host.
Viewer == {"chat"}
Granted == {"chat", "draw"}
Host == {"chat", "draw", "host"}
CapSets == {{}, Viewer, Granted, Host}

Lifecycle == {"open", "ended", "removed"}
Statuses == {"none", "on", "off", "away"}
Rooms == [host : People, gone : BOOLEAN, users : SUBSET People]
Views == [host : People, gone : BOOLEAN, users : SUBSET People, you : CapSets \cup {{"none"}}]
Clients == [view : Views, self : BOOLEAN, book : SUBSET People]

NoRoom == [host |-> Me, gone |-> FALSE, users |-> {}]
NoView == [host |-> Me, gone |-> FALSE, users |-> {}, you |-> {"none"}]

Listed(s) == {p \in People : s[p] # "none"}

\* RoomState::snapshot
Snapshot(s, h, g) == [host |-> h, gone |-> g, users |-> Listed(s)]

\* What the registry publishes, and what is written to one client only.
RoomEvents == {"joined", "left", "hostgone", "hostback", "migrated", "closed", "rights"}
Replies == {"state", "welcome", "refused", "missing"}

\* An event or envelope: about whom, its originator (the forwarder spares
\* them), and the change it tells of.
Nobody == "nobody"
Events == [k : RoomEvents \cup Replies, who : People \cup {Nobody}, from : People \cup {Nobody},
           room : Rooms, rights : CapSets, n : Nat]
Event(k, who, from) ==
    [k |-> k, who |-> who, from |-> from, room |-> NoRoom, rights |-> {}, n |-> changes + 1]

RosterTypeOK ==
    /\ standing \in Lifecycle /\ seats \in [People -> Statuses]
    /\ chief \in People /\ grace \in BOOLEAN /\ migrates \in BOOLEAN
    /\ rights \in [People -> CapSets]
    /\ saying \in Seq(Seq(Events)) /\ air \in Seq(Events)
    /\ reply \in Seq(Events) /\ line \in Seq(Events)
    /\ asks \in Seq({"join", "rejoin", "leave"})
    /\ tuned \in BOOLEAN /\ wired \in {"on", "lost", "down"}
    /\ client \in Clients
    /\ unseen \subseteq People /\ doubt \subseteq {"room", "rights"} /\ snap \in Nat
    /\ changes \in 0..MaxChanges /\ asked \in 0..MaxAsks /\ drops \in 0..MaxDrops

RosterInit ==
    /\ standing = "open" /\ chief \in People /\ grace = FALSE
    /\ seats = [p \in People |-> IF p = chief THEN "on" ELSE "none"]
    /\ rights = [p \in People |-> IF p = chief THEN Host ELSE Viewer]
    /\ migrates \in BOOLEAN
    /\ saying = <<>> /\ air = <<>> /\ unseen = {}
    /\ tuned = (chief = Me) /\ wired = "on"
    /\ asks = <<>> /\ reply = <<>> /\ line = <<>>
    /\ client = [view |-> IF chief = Me THEN [host |-> Me, gone |-> FALSE, users |-> {Me}, you |-> Host]
                          ELSE NoView,
                 self |-> chief = Me, book |-> {}]
    /\ doubt = {} /\ snap = 0 /\ changes = 0 /\ asked = 0 /\ drops = 0

-----------------------------------------------------------------------------
(* The client                                                              *)

\* migrated_you_cap_set
YouAfter(you, self, m) ==
    IF self /\ m.who = Me THEN Host ELSE IF self /\ m.from = Me THEN Viewer ELSE you

\* The summary becomes r, and its participants go to the database.
Takes(c, r, you) ==
    [c EXCEPT !.view = [host |-> r.host, gone |-> r.gone, users |-> r.users, you |-> you],
              !.book = @ \cup (r.users \ IF c.self THEN {Me} ELSE {})]

\* CAPABILITY_UPDATE in summary v.
Regranted(v, self, e) == IF self /\ e.who = Me THEN [v EXCEPT !.you = e.rights] ELSE v

\* An event that changes a part of summary v, if there is one.
Edited(v, self, e) ==
    CASE v = NoView       -> v
      [] v # NoView /\ e.k = "hostback" -> [v EXCEPT !.host = e.who, !.gone = FALSE]
      [] v # NoView /\ e.k = "hostgone" -> [v EXCEPT !.gone = TRUE]
      [] v # NoView /\ e.k = "joined"   -> [v EXCEPT !.users = @ \cup {e.who}]
      [] v # NoView /\ e.k = "left"     -> [v EXCEPT !.users = @ \ {e.who}]
      [] v # NoView /\ e.k = "rights"   -> Regranted(v, self, e)

\* drop_room_session
Dropped(c) == [c EXCEPT !.view = NoView, !.self = FALSE]

\* handle_inbound: what envelope e makes of client c.
Applied(c, e) ==
    CASE e.k = "state"             -> Takes(c, e.room, c.view.you)
      [] e.k = "welcome"           -> Takes([c EXCEPT !.self = TRUE], e.room, e.rights)
      [] e.k = "migrated"          -> Takes(c, e.room, YouAfter(c.view.you, c.self, e))
      [] e.k = "refused"           -> c
      [] e.k \in {"closed", "missing"} -> Dropped(c)
      [] e.k \in {"hostback", "hostgone", "joined", "left", "rights"} ->
           [c EXCEPT !.view = Edited(c.view, c.self, e)]

Receive ==
    /\ line # <<>>
    /\ client' = Applied(client, Head(line)) /\ line' = Tail(line)
    /\ UNCHANGED <<roomState, migrates, channel, tuned, wired, asks, reply, known, changes, bounds>>

\* room_join, and room_leave, which forgets the room without waiting.
Command(a) ==
    /\ wired = "on" /\ asked < MaxAsks /\ asked' = asked + 1
    /\ (a = "join") = (client.view = NoView)
    /\ asks' = Append(asks, a)
    /\ client' = IF a = "leave" THEN Dropped(client) ELSE client
    /\ UNCHANGED <<roomState, migrates, channel, tuned, wired, reply, line, known, changes, drops>>

-----------------------------------------------------------------------------
(* Events on their way                                                     *)

\* A missed or misplaced event leaves what it is about in doubt.
About(e) ==
    {"room"} \cup IF (e.k \in {"rights", "migrated"} /\ e.who = Me) \/ e.k = "welcome"
                  THEN {"rights"} ELSE {}
Missed(es) == UNION {About(es[i]) : i \in {j \in DOMAIN es : es[j].from # Me}}

\* publish: to the receivers there are; a full channel loses its oldest item.
Heard == tuned /\ standing # "removed"
AirAfter(e) == IF Heard THEN Append(IF Len(air) < Ring THEN air ELSE Tail(air), e) ELSE air
LostBy(e) ==
    CASE standing = "removed"               -> {}
      [] standing # "removed" /\ ~tuned     ->
           Missed(<<e>>) \ IF e.n > snap \/ e.k = "closed" THEN {} ELSE {"room"}
      [] Heard /\ Len(air) < Ring           -> {}
      [] Heard /\ Len(air) >= Ring          -> Missed(<<Head(air)>>)

\* The handler of u's last frame, or the ticker's last pass, is still publishing.
Saying(from, u) == \E i \in DOMAIN saying : saying[i][1].from = from /\ u \in {from, saying[i][1].who}

\* Two events whose order matters to the client.
Clash(e, f) == e.who = f.who \/ "migrated" \in {e.k, f.k}

\* A handler publishes its next event, maybe before one of an earlier change.
Publish(i) ==
    LET e == Head(saying[i])
        overtaken == {j \in 1..(i - 1) : \E x \in DOMAIN saying[j] : Clash(saying[j][x], e)}
    IN  /\ saying' = IF Len(saying[i]) = 1 THEN RemoveAt(saying, i)
                     ELSE [saying EXCEPT ![i] = Tail(@)]
        /\ air' = AirAfter(e)
        /\ doubt' = doubt \cup LostBy(e) \cup IF overtaken = {} THEN {} ELSE {"room", "rights"}
        /\ UNCHANGED <<roomState, migrates, session, client, snap, changes, bounds>>

\* is_user_in_room
Member(u) == standing # "removed" /\ seats[u] \in {"on", "away"}

\* Mutant: the member filter also holds back the word that the room is closed.
ForwardToMembersOnly ==
    /\ air # <<>> /\ reply = <<>> /\ air' = Tail(air)
    /\ LET e == Head(air)
           passes == e.from # Me /\ Member(Me)
       IN  /\ line' = IF passes THEN Append(line, e) ELSE line
           /\ doubt' = doubt \cup IF passes \/ standing = "removed" THEN {} ELSE Missed(<<e>>)
    /\ UNCHANGED <<roomState, migrates, saying, tuned, wired, asks, reply, client, snap, changes,
                   bounds>>

\* room_bcast_forwarder: not to the originator, nor to one who is not in the
\* room, save the word that it is closed.
Forward ==
    /\ air # <<>> /\ reply = <<>>
    /\ LET e == Head(air)
           passes == e.from # Me /\ (e.k = "closed" \/ Member(Me))
       IN  /\ line' = IF passes THEN Append(line, e) ELSE line
           /\ doubt' = doubt \cup IF passes \/ standing = "removed" THEN {} ELSE Missed(<<e>>)
    /\ air' = Tail(air)
    /\ UNCHANGED <<roomState, migrates, saying, tuned, wired, asks, reply, client, snap, changes,
                   bounds>>

\* sync_room_subscription: after every frame of Me.
Sync ==
    /\ tuned' = Member(Me)
    /\ air' = IF tuned /\ Member(Me) THEN air ELSE <<>>
    /\ doubt' = doubt \cup IF tuned /\ ~Member(Me) THEN Missed(air) ELSE {}

\* What the dispatcher returned is written, the subscription brought up to date.
Answer ==
    /\ reply # <<>> /\ ~Saying(Me, Me) /\ line' = line \o reply /\ reply' = <<>> /\ Sync
    /\ UNCHANGED <<roomState, migrates, saying, wired, asks, client, snap, changes, bounds>>

-----------------------------------------------------------------------------
(* The room                                                                *)

\* One change of the room, with the events its handler is to publish.
Change(events) ==
    /\ changes < MaxChanges /\ changes' = changes + 1
    /\ saying' = IF events = <<>> THEN saying ELSE Append(saying, events)

\* join
Seat(u) ==
    /\ standing = "open" /\ ~Saying(u, u) /\ u \notin Listed(seats)
    /\ Change(<<Event("joined", u, u)>>)
    /\ seats' = [seats EXCEPT ![u] = "on"]
    /\ rights' = [rights EXCEPT ![u] = Viewer]
    /\ unseen' = unseen \ {u}
    /\ UNCHANGED <<standing, chief, grace>>

\* leave_room: the room ends with its host ...
Closes(u) ==
    /\ Change(<<Event("closed", Nobody, u), Event("left", u, u)>>)
    /\ standing' = "ended" /\ seats' = [seats EXCEPT ![u] = "none"]
    /\ unseen' = unseen \ {u}
    /\ UNCHANGED <<chief, grace, rights>>

\* ... or passes to one who is there (elect_new_host).
Passes(u, h) ==
    LET rest == [seats EXCEPT ![u] = "none"]
        news == [Event("migrated", h, u) EXCEPT !.room = Snapshot(rest, h, grace)]
    IN  /\ seats[h] = "on" /\ h # u
        /\ Change(<<news, Event("left", u, u)>>)
        /\ seats' = rest /\ chief' = h
        /\ rights' = [rights EXCEPT ![h] = Host, ![u] = Viewer]
        /\ unseen' = unseen \ {u}
        /\ UNCHANGED <<standing, grace>>

\* leave_room for one who means it.
Leaves(u) ==
    /\ standing = "open" /\ ~Saying(u, u) /\ u \in Listed(seats)
    /\ IF u # chief
       THEN /\ Change(<<Event("left", u, u)>>)
            /\ seats' = [seats EXCEPT ![u] = "none"]
            /\ unseen' = unseen \ {u}
            /\ UNCHANGED <<standing, chief, grace, rights>>
       ELSE \/ \E h \in People : migrates /\ Passes(u, h)
            \/ /\ ~migrates \/ \A h \in People \ {u} : seats[h] # "on"
               /\ Closes(u)

\* on_connection_lost
LosesConnection(u) ==
    /\ standing = "open" /\ ~Saying(u, u) /\ u \in Listed(seats)
    /\ IF u # chief
       THEN /\ Change(<<>>) /\ seats' = [seats EXCEPT ![u] = "off"]
            /\ UNCHANGED <<standing, chief, grace, rights, unseen>>
       ELSE \/ migrates /\ Change(<<Event("hostgone", u, u)>>)
               /\ seats' = [seats EXCEPT ![u] = "away"] /\ grace' = TRUE
               /\ UNCHANGED <<standing, chief, rights, unseen>>
            \/ ~migrates /\ Closes(u)

\* rejoin; touch does the same to a participant that had timed out.
ComesBack(u) ==
    /\ standing # "removed" /\ seats[u] \in {"off", "away"}
    /\ Change(IF u = chief THEN <<Event("hostback", u, u)>> ELSE <<>>)
    /\ seats' = [seats EXCEPT ![u] = "on"]
    /\ grace' = (grace /\ u # chief)
    /\ UNCHANGED <<standing, chief, rights, unseen>>

Others(u) == u # Me /\ UNCHANGED <<migrates, air, session, client, known, bounds>>
Comes(u)   == Others(u) /\ Seat(u)
Goes(u)    == Others(u) /\ Leaves(u)
Drops(u)   == Others(u) /\ seats[u] = "on" /\ LosesConnection(u)
Returns(u) == Others(u) /\ ComesBack(u)

\* tick_presence_timeout: the seat stays, but everyone is told it is empty.
TimesOut(u) ==
    /\ standing = "open" /\ ~Saying(Nobody, u) /\ u # chief /\ seats[u] = "on"
    /\ Change(<<Event("left", u, Nobody)>>)
    /\ seats' = [seats EXCEPT ![u] = "off"] /\ unseen' = unseen \cup {u}
    /\ UNCHANGED <<standing, chief, grace, rights, migrates, air, session, client, known, bounds>>

\* tick_stale_participants
Forgotten(u) ==
    /\ standing = "open" /\ ~Saying(Nobody, u) /\ ~grace /\ u # chief /\ u \in Listed(seats)
    /\ Change(<<Event("left", u, Nobody)>>)
    /\ seats' = [seats EXCEPT ![u] = "none"] /\ unseen' = unseen \ {u}
    /\ UNCHANGED <<standing, chief, grace, rights, migrates, air, session, client, known, bounds>>

\* tick_grace
GraceEnds ==
    /\ standing = "open" /\ grace
    /\ Change(<<Event("closed", Nobody, Nobody)>>)
    /\ standing' = "ended"
    /\ UNCHANGED <<seats, chief, grace, rights, unseen, migrates, air, session, client, known, bounds>>

\* remove_room, once its end is published.
RoomRemoved ==
    /\ standing = "ended"
    /\ \A i \in DOMAIN saying : \A j \in DOMAIN saying[i] : saying[i][j].k # "closed"
    /\ standing' = "removed"
    /\ UNCHANGED <<seats, chief, grace, rights, unseen, migrates, channel, session, client, known,
                   changes, bounds>>

\* handle_permission_set, which publishes before it lets go of the room.
Empowers(u, r) ==
    /\ standing = "open" /\ Member(chief) /\ u # chief /\ u \in Listed(seats) /\ r # rights[u]
    /\ changes < MaxChanges /\ changes' = changes + 1
    /\ rights' = [rights EXCEPT ![u] = r]
    /\ LET e == [Event("rights", u, Nobody) EXCEPT !.rights = r]
       IN  air' = AirAfter(e) /\ doubt' = doubt \cup LostBy(e)
    /\ UNCHANGED <<standing, seats, chief, grace, unseen, migrates, saying, session, client, snap,
                   bounds>>

-----------------------------------------------------------------------------
(* Me on the server                                                        *)

\* Event e, still to come, tells what is not so in the room (s, h, g).
Outdated(e, s, h, g) ==
    \/ e.k = "migrated"
    \/ e.k = "joined" /\ e.who \notin Listed(s)
    \/ e.k = "left" /\ e.who \in Listed(s)
    \/ e.k = "hostgone" /\ ~g
    \/ e.k = "hostback" /\ (g \/ e.who # h)

\* A snapshot settles the room, unless the room has ended, which it does not
\* say, or an outdated event is to come after it; and the rights it gives, if
\* no event about them is.
Unsettled(s, h, g) ==
    LET coming == Range(air \o FlattenSeq(saying))
    IN  (IF standing # "open" \/ \E e \in coming : Outdated(e, s, h, g) THEN {"room"} ELSE {})
          \cup (UNION {About(e) : e \in coming} \cap {"rights"})

\* What ROOM_JOINED says of Me, and ROOM_STATE.
SelfView(r) == r[Me]
StateFor(s, h, g) == <<[Event("state", Nobody, Nobody) EXCEPT !.room = Snapshot(s, h, g)]>>

Says(k) == reply' = <<Event(k, Nobody, Nobody)>>

\* handle_room_join_request.  The reconnect hook gives the room up when it is
\* gone, the user's own call only reports it.
ServeJoin ==
    /\ Head(asks) \in {"join", "rejoin"}
    /\ \/ /\ standing = "open" /\ Seat(Me)
          /\ reply' = <<[Event("welcome", Nobody, Nobody) EXCEPT
                           !.room = Snapshot(seats', chief, grace), !.rights = SelfView(rights')]>>
          /\ snap' = changes' /\ doubt' = Unsettled(seats', chief, grace)
       \/ /\ standing # "open" \/ Me \in Listed(seats)
          /\ Says(IF standing # "open" /\ Head(asks) = "rejoin" THEN "missing" ELSE "refused")
          /\ UNCHANGED <<roomState, saying, known, changes>>
    /\ UNCHANGED <<air, tuned, migrates>>

\* handle_room_leave
ServeLeave ==
    /\ Head(asks) = "leave"
    /\ \/ /\ Leaves(Me) /\ tuned' = FALSE /\ air' = <<>>
          /\ UNCHANGED <<reply, known>>
       \/ /\ standing # "open" \/ Me \notin Listed(seats)
          /\ Says("missing")
          /\ UNCHANGED <<roomState, channel, tuned, known, changes>>
    /\ UNCHANGED migrates

Serve ==
    /\ wired = "on" /\ asks # <<>> /\ reply = <<>>
    /\ (ServeJoin \/ ServeLeave)
    /\ asks' = Tail(asks)
    /\ UNCHANGED <<wired, line, client, bounds>>

\* PRESENCE: touch, then the subscription as after any frame.
Presence ==
    /\ wired = "on" /\ reply = <<>> /\ client.view # NoView
    /\ seats[Me] = "off" /\ ComesBack(Me)
    /\ tuned' = TRUE /\ air' = IF tuned THEN air ELSE <<>>
    /\ UNCHANGED <<migrates, wired, asks, reply, line, client, known, bounds>>

\* Any other frame of one who has timed out.
Speak ==
    /\ wired = "on" /\ reply = <<>> /\ tuned /\ ~Member(Me) /\ Sync
    /\ UNCHANGED <<roomState, migrates, saying, wired, asks, reply, line, client, snap, changes, bounds>>

\* The client's connection breaks, with what was on it ...
Break ==
    /\ wired = "on" /\ drops < MaxDrops /\ drops' = drops + 1
    /\ wired' = "lost" /\ tuned' = FALSE
    /\ asks' = <<>> /\ reply' = <<>> /\ line' = <<>> /\ air' = <<>>
    /\ doubt' = doubt \cup Missed(line \o reply \o air)
    /\ UNCHANGED <<roomState, migrates, saying, client, snap, changes, asked>>

\* ... and the server notices, unless Me is back before.
Noticed ==
    /\ wired = "lost" /\ wired' = "down"
    /\ IF standing = "open" /\ Me \in Listed(seats) THEN LosesConnection(Me)
       ELSE UNCHANGED <<roomState, saying, changes>>
    /\ UNCHANGED <<migrates, air, tuned, asks, reply, line, client, known, bounds>>

\* handle_auth_resume and room_state_action; the client's hook joins again.
Resume ==
    /\ wired # "on" /\ wired' = "on"
    /\ IF standing # "removed" /\ seats[Me] \in {"off", "away"} THEN ComesBack(Me)
       ELSE UNCHANGED <<roomState, saying, changes>>
    /\ IF standing # "removed" /\ Me \in Listed(seats)
       THEN /\ reply' = (IF grace /\ ~grace' THEN <<Event("hostback", Me, Nobody)>> ELSE <<>>)
                          \o StateFor(seats', chief, grace')
            /\ snap' = changes' /\ doubt' = (doubt \ {"room"}) \cup (Unsettled(seats', chief, grace') \cap {"room"})
       ELSE UNCHANGED <<reply, known>>
    /\ asks' = IF client.self THEN <<"rejoin">> ELSE <<>>
    /\ UNCHANGED <<migrates, air, tuned, line, client, bounds>>

-----------------------------------------------------------------------------
RosterNext ==
    \/ Receive \/ Forward \/ Answer \/ Serve \/ Presence \/ Speak
    \/ Break \/ Noticed \/ Resume \/ GraceEnds \/ RoomRemoved
    \/ \E i \in DOMAIN saying : Publish(i)
    \/ \E u \in People :
         Comes(u) \/ Goes(u) \/ Drops(u) \/ Returns(u) \/ TimesOut(u) \/ Forgotten(u)
    \/ \E u \in People, r \in {Viewer, Granted} : Empowers(u, r)
    \/ \E a \in {"join", "leave"} : Command(a)

RosterSpec == RosterInit /\ [][RosterNext]_rosterVars

-----------------------------------------------------------------------------
(* What the client will know when all that is on its way has reached it.    *)
Destined ==
    LET coming == line \o reply \o SelectSeq(air \o FlattenSeq(saying), LAMBDA e : e.from # Me)
    IN  FoldLeft(Applied, client, coming)

\* A connected client that missed no event since its last snapshot, and whose
\* events came in the order of their changes, is on its way to the right
\* picture of its room: the host, and whether the host is away; everybody who
\* has a seat, save those announced as timed out, and nobody else; what Me may
\* do; and it can tell the host's address, as downloads need.  A room that was
\* closed is not shown (RoomClient::handle_inbound).
RosterFollows ==
    LET c == Destined
        v == c.view
        subscribed == tuned \/ \E e \in Range(reply) : e.k \in {"welcome", "state"}
    IN  wired = "on" /\ subscribed /\ v # NoView =>
          /\ "room" \notin doubt =>
               /\ standing = "open"
               /\ v.host = chief /\ v.gone = grace
               /\ Listed(seats) \ unseen \subseteq v.users /\ v.users \subseteq Listed(seats)
               /\ v.host \in c.book \cup {Me}
          /\ "rights" \notin doubt /\ c.self => v.you = rights[Me]
=============================================================================
