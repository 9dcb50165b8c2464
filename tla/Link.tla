-------------------------------- MODULE Link --------------------------------
(***************************************************************************)
(* One client's signaling link: the client's connection loop               *)
(* (net/signaling.rs) and the server's connection tasks (ws/mod.rs), over  *)
(* successive WebSocket connections 1, 2, ... of the same user.            *)
(*                                                                         *)
(* A connection the client has given up stays open on the server until the *)
(* server notices, and what was already written to it is still read, so    *)
(* several server tasks of one user run at once.  They share the bearer    *)
(* and resume-token tables, the signal relay's slot of the user and the    *)
(* user's seat in its room.                                                *)
(*                                                                         *)
(* Connection c issues at most one bearer and one resume token, and stamps *)
(* both with its own epoch: all three are written c.                       *)
(***************************************************************************)
EXTENDS Naturals, Sequences

CONSTANTS
    MaxConns,    \* bound on the connections the client opens
    MaxTrouble,  \* bound on faults: drops, closes, expiries, failed writes
    MaxSends     \* bound on the messages the client's tasks set out to send

ASSUME LinkAssumption == MaxConns \in Nat /\ MaxTrouble \in Nat /\ MaxSends \in Nat

Conns  == 1 .. MaxConns
Pieces == 2          \* frames of a multi-frame message (MANIFEST_PART)
ORPHAN == Pieces + 1 \* a later piece arrived without the ones before it

NoFrame == [b |-> 0, p |-> 0]

VARIABLES
    pc,       \* where the client's connection_loop is
    phase,    \* SignalingInner.state.phase, what senders look at
    conn,     \* the socket the loop holds, 0 for none
    opened,   \* connections opened so far
    bearer,   \* SignalingInner.bearer, 0 for None
    rtok,     \* SignalingInner.resume_token, 0 for None
    resumed,  \* sent_resume of the handshake under way
    queue,    \* outbound_rx: frames [b: bearer, p: piece or 0]
    taken,    \* a sender past the lock and not yet at tx.send
    paced,    \* send_envelopes_paced: its session and next piece
    sends,    \* messages started so far
    srv,      \* per connection: ConnState and where its task is
    hello,    \* per connection: resume_token_hash of ChallengeSent, 0 for None
    shown,    \* per connection: the bearer AUTH_RESUME presented
    inb,      \* per connection: frames on their way to the server
    outb,     \* per connection: frames on their way to the client
    got,      \* per connection: the last piece its PartAssembler holds
    bearers,  \* the bearers table: valid rows
    rtoks,    \* the resume_tokens table: valid rows
    slot,     \* SignalRelay: the connection registered for the user, 0 for none
    seat,     \* the registry: the user's seat is "here" or "away"
    overtaken,\* history: a drain ran while a sender was past its check
    raced,    \* history: the latest session's rejoin and registration met another's
    trouble

cli  == <<pc, phase, conn, opened, bearer, rtok, resumed>>
send == <<queue, taken, paced, sends>>
task == <<srv, hello, shown, got>>
wire == <<inb, outb>>
tab  == <<bearers, rtoks>>
room == <<slot, seat, raced>>
linkVars == <<cli, send, task, wire, tab, room, overtaken, trouble>>

Phases == {"Disconnected", "Reconnecting", "Connecting", "Handshaking", "Authenticated"}
States == {"none", "New", "ChallengeSent", "Resuming", "Rejoined", "Authenticated",
           "Ending", "Lost", "Closed"}

\* What the client queues: the piece p of a message, sent for the session b.
Frames == [b : 0 .. MaxConns, p : 0 .. Pieces]
\* What is on the wire to the server; only messages come in pieces.
WireFrames ==
    {f \in [k : {"HELLO", "AUTH", "AUTH_RESUME", "MSG"}, b : 0 .. MaxConns, p : 0 .. Pieces] :
        f.k # "MSG" => f.p = 0}
\* What the server says during the handshake.
Answers == {"CHALLENGE", "AUTH_OK", "AUTH_FAIL"}

LinkTypeOK ==
    /\ pc \in {"over", "retry", "dial", "hello", "auth", "idle"}
    /\ phase \in Phases
    /\ {conn, opened, bearer, rtok, slot} \subseteq 0 .. MaxConns
    /\ \A f \in {taken, paced} : f \in [b : 0 .. MaxConns, p : 0 .. Pieces]
    /\ srv \in [Conns -> States]
    /\ hello \in [Conns -> 0 .. MaxConns] /\ shown \in [Conns -> 0 .. MaxConns]
    /\ got \in [Conns -> 0 .. ORPHAN]
    /\ bearers \subseteq Conns /\ rtoks \subseteq Conns
    /\ seat \in {"here", "away"}
    /\ {resumed, overtaken, raced} \subseteq BOOLEAN

LinkInit ==
    /\ pc = "retry" /\ phase = "Disconnected"
    /\ conn = 0 /\ opened = 0 /\ bearer = 0 /\ rtok = 0 /\ resumed = FALSE
    /\ queue = <<>> /\ taken = NoFrame /\ paced = NoFrame /\ sends = 0
    /\ srv = [c \in Conns |-> "none"]
    /\ hello = [c \in Conns |-> 0] /\ shown = [c \in Conns |-> 0]
    /\ got = [c \in Conns |-> 0]
    /\ inb = [c \in Conns |-> <<>>] /\ outb = [c \in Conns |-> <<>>]
    /\ bearers = {} /\ rtoks = {}
    /\ slot = 0 /\ seat = "away"
    /\ overtaken = FALSE /\ raced = FALSE /\ trouble = 0

Fault == trouble < MaxTrouble /\ trouble' = trouble + 1

-----------------------------------------------------------------------------
(* The client's connection loop                                            *)

\* The socket is dropped: what the server still writes to it is lost.
Abandon ==
    /\ conn' = 0
    /\ outb' = IF conn = 0 THEN outb ELSE [outb EXCEPT ![conn] = <<>>]

\* record_failure: the bearer is forgotten, the resume token is kept.
RecordFailure == phase' = "Reconnecting" /\ bearer' = 0 /\ UNCHANGED rtok

\* The top of the loop after a session ended: set_phase(Reconnecting), backoff.
Reconnect ==
    /\ pc = "over"
    /\ pc' = "retry" /\ phase' = "Reconnecting"
    /\ UNCHANGED <<conn, opened, bearer, rtok, resumed, send, task, wire, tab, room, overtaken, trouble>>

KeepsBacklog ==
    /\ pc = "retry"
    /\ pc' = "dial" /\ phase' = "Connecting"
    /\ overtaken' = (overtaken \/ taken # NoFrame)
    /\ UNCHANGED <<conn, opened, bearer, rtok, resumed, send, task, wire, tab, room, trouble>>

\* set_phase(Connecting), then the backlog is thrown away.
Drain ==
    /\ pc = "retry"
    /\ pc' = "dial" /\ phase' = "Connecting" /\ queue' = <<>>
    /\ overtaken' = (overtaken \/ taken # NoFrame)
    /\ UNCHANGED <<conn, opened, bearer, rtok, resumed, taken, paced, sends, task, wire, tab, room, trouble>>

\* connect_async succeeds; HELLO advertises the resume token if one is held.
Open ==
    /\ pc = "dial" /\ opened < MaxConns
    /\ opened' = opened + 1 /\ conn' = opened'
    /\ srv' = [srv EXCEPT ![conn'] = "New"]
    /\ inb' = [inb EXCEPT ![conn'] = <<[k |-> "HELLO", b |-> rtok, p |-> 0]>>]
    /\ pc' = "hello" /\ phase' = "Handshaking" /\ resumed' = FALSE
    /\ UNCHANGED <<bearer, rtok, send, hello, shown, got, outb, tab, room, overtaken, trouble>>

DialFails ==
    /\ pc = "dial" /\ Fault
    /\ pc' = "retry" /\ RecordFailure
    /\ UNCHANGED <<conn, opened, resumed, send, task, wire, tab, room, overtaken>>

Received(kind) ==
    /\ conn # 0 /\ outb[conn] # <<>> /\ Head(outb[conn]) = kind
    /\ outb' = [outb EXCEPT ![conn] = Tail(@)]

\* WELCOME and CHALLENGE are in: AUTH_RESUME when bearer and token are held,
\* a full AUTH otherwise.
RecvChallenge ==
    /\ pc = "hello" /\ Received("CHALLENGE")
    /\ resumed' = (bearer # 0 /\ rtok # 0)
    /\ inb' = [inb EXCEPT ![conn] = Append(@,
                  [k |-> IF resumed' THEN "AUTH_RESUME" ELSE "AUTH", b |-> bearer, p |-> 0])]
    /\ pc' = "auth"
    /\ UNCHANGED <<phase, conn, opened, bearer, rtok, send, task, tab, room, overtaken, trouble>>

\* AUTH_OK carries this connection's bearer and resume token.
RecvAuthOk ==
    /\ pc = "auth" /\ Received("AUTH_OK")
    /\ pc' = "idle" /\ phase' = "Authenticated"
    /\ bearer' = conn /\ rtok' = conn
    /\ UNCHANGED <<conn, opened, resumed, send, task, inb, tab, room, overtaken, trouble>>

ForgetNothing ==
    IF resumed THEN UNCHANGED <<bearer, rtok, phase>> ELSE RecordFailure

\* AUTH_FAIL: a refused resume forgets both credentials (ResumeRejected); a
\* refused AUTH is a recorded failure.
ForgetRefused ==
    IF resumed THEN bearer' = 0 /\ rtok' = 0 /\ UNCHANGED phase
               ELSE RecordFailure

RecvAuthFail ==
    /\ pc \in {"hello", "auth"}
    /\ conn # 0 /\ outb[conn] # <<>> /\ Head(outb[conn]) = "AUTH_FAIL"
    /\ pc' = "retry" /\ Abandon /\ ForgetRefused
    /\ UNCHANGED <<opened, resumed, send, task, inb, tab, room, overtaken, trouble>>

\* Nothing more will come on the socket: the server's task has ended.
PeerClosed == conn # 0 /\ outb[conn] = <<>> /\ srv[conn] \in {"Ending", "Lost", "Closed"}

\* Closed mid-handshake.
HandshakeEnds ==
    /\ pc \in {"hello", "auth"} /\ PeerClosed
    /\ pc' = "retry" /\ Abandon /\ RecordFailure
    /\ UNCHANGED <<opened, resumed, send, task, inb, tab, room, overtaken, trouble>>

\* The handshake timeout, or the network under it.
HandshakeDrops ==
    /\ pc \in {"hello", "auth"} /\ Fault
    /\ pc' = "retry" /\ Abandon /\ RecordFailure
    /\ UNCHANGED <<opened, resumed, send, task, inb, tab, room, overtaken>>

\* idle_until_disconnect writes the next queued envelope as it is.
WriteQueued ==
    /\ pc = "idle" /\ queue # <<>>
    /\ inb' = [inb EXCEPT ![conn] = IF srv[conn] = "Authenticated"
                 THEN Append(@, [k |-> "MSG", b |-> Head(queue).b, p |-> Head(queue).p]) ELSE @]
    /\ queue' = Tail(queue)
    /\ UNCHANGED <<cli, taken, paced, sends, task, outb, tab, room, overtaken, trouble>>

\* The session is over.  The phase still says Authenticated until Reconnect.
IdleEnds ==
    /\ pc = "idle" /\ PeerClosed
    /\ pc' = "over" /\ Abandon
    /\ UNCHANGED <<phase, opened, bearer, rtok, resumed, send, task, inb, tab, room, overtaken, trouble>>

NetworkDrops ==
    /\ pc = "idle" /\ Fault
    /\ pc' = "over" /\ Abandon
    /\ UNCHANGED <<phase, opened, bearer, rtok, resumed, send, task, inb, tab, room, overtaken>>

\* The user disconnects and connects again: shutdown awaits the loop, start
\* clears the credentials and the new loop installs a new queue, so a sender
\* that holds the old one fails.
Restart ==
    /\ Fault
    /\ pc' = "retry" /\ phase' = "Disconnected" /\ Abandon
    /\ bearer' = 0 /\ rtok' = 0
    /\ queue' = <<>> /\ taken' = NoFrame
    /\ UNCHANGED <<opened, resumed, paced, sends, task, inb, tab, room, overtaken>>

-----------------------------------------------------------------------------
(* Senders: any task of the client                                         *)

CanSend == bearer # 0 /\ phase = "Authenticated"

\* send_envelope_in_session up to the unlock, for an ordinary envelope.
Take ==
    /\ taken = NoFrame /\ CanSend /\ sends < MaxSends /\ sends' = sends + 1
    /\ taken' = [b |-> bearer, p |-> 0]
    /\ UNCHANGED <<cli, queue, paced, task, wire, tab, room, overtaken, trouble>>

\* ... and tx.send: there is no await in between, only another thread.
Put ==
    /\ taken # NoFrame
    /\ queue' = Append(queue, taken) /\ taken' = NoFrame
    /\ UNCHANGED <<cli, paced, sends, task, wire, tab, room, overtaken, trouble>>

\* send_envelopes_paced pins the bearer of its first frame's session.
StartPaced ==
    /\ paced = NoFrame /\ bearer # 0 /\ sends < MaxSends /\ sends' = sends + 1
    /\ paced' = [b |-> bearer, p |-> 1]
    /\ UNCHANGED <<cli, queue, taken, task, wire, tab, room, overtaken, trouble>>

AnySession == TRUE

SameSession == bearer = paced.b

\* The next piece, or the error that makes the caller start over.
NextPiece ==
    /\ paced # NoFrame /\ taken = NoFrame
    /\ IF CanSend /\ SameSession
       THEN /\ taken' = [b |-> bearer, p |-> paced.p]
            /\ paced' = IF paced.p = Pieces THEN NoFrame ELSE [paced EXCEPT !.p = @ + 1]
       ELSE paced' = NoFrame /\ UNCHANGED taken
    /\ UNCHANGED <<cli, queue, sends, task, wire, tab, room, overtaken, trouble>>

-----------------------------------------------------------------------------
(* The server's task of connection c                                       *)

Incoming(c, kind) == inb[c] # <<>> /\ Head(inb[c]).k = kind

Consume(c) == inb' = [inb EXCEPT ![c] = Tail(@)]

Reply(c, kind) == outb' = IF c = conn THEN [outb EXCEPT ![c] = Append(@, kind)] ELSE outb

\* validate_resume_token: a row that has expired is as good as none.
ValidToken(t) == t \in rtoks

\* handle_hello: the token is kept only when its row is valid.
SrvHello(c) ==
    /\ srv[c] = "New" /\ Incoming(c, "HELLO") /\ Consume(c)
    /\ hello' = [hello EXCEPT ![c] = IF ValidToken(Head(inb[c]).b) THEN Head(inb[c]).b ELSE 0]
    /\ srv' = [srv EXCEPT ![c] = "ChallengeSent"]
    /\ Reply(c, "CHALLENGE")
    /\ UNCHANGED <<cli, send, shown, got, tab, room, overtaken, trouble>>

\* The task goes on to `st`, reads no more, and drops what it kept.
Stop(c, st) ==
    /\ srv' = [srv EXCEPT ![c] = st]
    /\ inb' = [inb EXCEPT ![c] = <<>>]
    /\ hello' = [hello EXCEPT ![c] = 0] /\ shown' = [shown EXCEPT ![c] = 0]
    /\ got' = [got EXCEPT ![c] = 0]

\* DispatchOutcome::auth_fail sends AUTH_FAIL and closes.
Refuse(c) == Reply(c, "AUTH_FAIL") /\ Stop(c, "Closed")

\* A newer connection of the user is past its rejoin.
NewerLive(c) == \E d \in Conns : d > c /\ srv[d] \in {"Rejoined", "Authenticated"}

\* The end of both handlers: the registry's rejoin seats the user again.  It
\* starts a session that no other connection has met, but for a teardown that
\* has passed its check and not yet reported the user lost.
Rejoin(c) ==
    /\ srv' = [srv EXCEPT ![c] = "Rejoined"]
    /\ seat' = "here"
    /\ raced' = IF NewerLive(c) THEN raced ELSE \E d \in Conns : srv[d] = "Lost"
    /\ UNCHANGED slot

\* insert_bearer and insert_resume_token, for the connection c.
BearerStored(c) == bearers \cup {c}
TokenStored(c)  == rtoks \cup {c}

\* handle_auth: issue the bearer and (best effort) the resume token.
SrvAuth(c, stored) ==
    /\ srv[c] = "ChallengeSent" /\ Incoming(c, "AUTH") /\ Consume(c)
    /\ bearers' = BearerStored(c)
    /\ rtoks' = IF stored THEN TokenStored(c) ELSE rtoks
    /\ Rejoin(c) /\ hello' = [hello EXCEPT ![c] = 0]
    /\ UNCHANGED <<cli, send, shown, got, outb, overtaken>>

SrvAuthOk(c) == SrvAuth(c, TRUE) /\ UNCHANGED trouble

SrvAuthUnstored(c) == SrvAuth(c, FALSE) /\ Fault

\* The handshake deadline or the challenge has passed.
SrvExpired(c) ==
    /\ srv[c] = "ChallengeSent" /\ (Incoming(c, "AUTH") \/ Incoming(c, "AUTH_RESUME"))
    /\ Fault /\ Refuse(c)
    /\ UNCHANGED <<cli, send, tab, room, overtaken>>

\* BearerBinding::matches: the connection a row was issued on.
SameEpoch(b, t) == b = t

\* handle_auth_resume's checks: HELLO brought a valid token, the bearer's and
\* the token's rows are valid, and both come from the same connection.
Resumable(c, b) ==
    hello[c] # 0 /\ b \in bearers /\ ValidToken(hello[c]) /\ SameEpoch(b, hello[c])

SrvResumeCheck(c) ==
    /\ srv[c] = "ChallengeSent" /\ Incoming(c, "AUTH_RESUME")
    /\ IF Resumable(c, Head(inb[c]).b)
       THEN /\ srv' = [srv EXCEPT ![c] = "Resuming"]
            /\ shown' = [shown EXCEPT ![c] = Head(inb[c]).b]
            /\ Consume(c) /\ UNCHANGED <<outb, hello, got>>
       ELSE Refuse(c)
    /\ UNCHANGED <<cli, send, tab, room, overtaken, trouble>>

\* Both are retired, then new ones issued under this connection's epoch.
SrvResumeCommit(c) ==
    /\ srv[c] = "Resuming"
    /\ bearers' = (bearers \ {shown[c]}) \cup {c}
    /\ rtoks' = (rtoks \ {hello[c]}) \cup {c}
    /\ Rejoin(c)
    /\ hello' = [hello EXCEPT ![c] = 0] /\ shown' = [shown EXCEPT ![c] = 0]
    /\ UNCHANGED <<cli, send, got, wire, overtaken, trouble>>

\* insert_bearer fails after the old credentials were retired.
SrvResumeFails(c) ==
    /\ srv[c] = "Resuming" /\ Fault
    /\ bearers' = bearers \ {shown[c]} /\ rtoks' = rtoks \ {hello[c]}
    /\ Stop(c, "Closed")
    /\ UNCHANGED <<cli, send, outb, room, overtaken>>

\* Action::Upgrade registers the relay slot, then AUTH_OK is written.
SrvUpgrade(c) ==
    /\ srv[c] = "Rejoined"
    /\ srv' = [srv EXCEPT ![c] = "Authenticated"]
    /\ slot' = c
    /\ raced' = (raced \/ NewerLive(c))
    /\ Reply(c, "AUTH_OK")
    /\ UNCHANGED <<cli, send, hello, shown, got, inb, tab, seat, overtaken, trouble>>

\* A piece continues the assembly only after the one before it.
Assembled(last, p) ==
    CASE p = 0 -> last
      [] p = 1 \/ p = last + 1 -> IF p = Pieces THEN 0 ELSE p
      [] OTHER -> ORPHAN

\* dispatch_authed: an unknown bearer closes the connection.
SrvMessage(c) ==
    /\ srv[c] = "Authenticated" /\ Incoming(c, "MSG")
    /\ IF Head(inb[c]).b \in bearers
       THEN /\ got' = [got EXCEPT ![c] = Assembled(@, Head(inb[c]).p)]
            /\ Consume(c) /\ UNCHANGED <<srv, hello, shown>>
       ELSE Stop(c, "Ending")
    /\ UNCHANGED <<cli, send, outb, tab, room, overtaken, trouble>>

\* The loop breaks; only an authenticated connection has more to do.
Break(c) ==
    /\ srv[c] \in {"New", "ChallengeSent", "Authenticated"}
    /\ Stop(c, IF srv[c] = "Authenticated" THEN "Ending" ELSE "Closed")
    /\ UNCHANGED <<cli, send, outb, tab, room, overtaken>>

\* The server notices, sooner or later, that the client has gone.
SrvNotices(c) == c # conn /\ Break(c) /\ UNCHANGED trouble

\* The handshake timer, a failed or slow write, the bad-message limit.
SrvCloses(c) == c = conn /\ Fault /\ Break(c)

AlwaysCurrent(c) == TRUE

StillCurrent(c) == slot = c

\* Teardown: SignalRelay::unregister tells whether this connection still owns
\* the user's slot ...
SrvUnregister(c) ==
    /\ srv[c] = "Ending"
    /\ srv' = [srv EXCEPT ![c] = IF StillCurrent(c) THEN "Lost" ELSE "Closed"]
    /\ slot' = IF slot = c THEN 0 ELSE slot
    /\ raced' = (raced \/ (slot = c /\ NewerLive(c)))
    /\ UNCHANGED <<cli, send, hello, shown, got, wire, tab, seat, overtaken, trouble>>

\* ... and if it did, the registry is told the user has lost its connection.
\* A newer connection that rejoined meanwhile is reported lost with it.
SrvLost(c) ==
    /\ srv[c] = "Lost"
    /\ srv' = [srv EXCEPT ![c] = "Closed"]
    /\ seat' = "away"
    /\ UNCHANGED <<cli, send, hello, shown, got, wire, tab, slot, raced, overtaken, trouble>>

\* A row outlives its TTL.  A bearer in use is renewed, so only one whose
\* session has ended expires; a resume token is never renewed.  Rows nobody
\* holds are left alone.
Expire ==
    /\ Fault
    /\ \/ pc # "idle" /\ bearer \in bearers /\ bearers' = bearers \ {bearer} /\ UNCHANGED rtoks
       \/ rtok \in rtoks /\ rtoks' = rtoks \ {rtok} /\ UNCHANGED bearers
    /\ UNCHANGED <<cli, send, task, wire, room, overtaken>>

-----------------------------------------------------------------------------
\* A turn of run_handshake's loop.
HandshakeStep == RecvChallenge \/ RecvAuthOk \/ RecvAuthFail \/ HandshakeEnds

\* A turn of connection_loop.
LoopStep == Reconnect \/ Drain \/ Open \/ HandshakeStep

TaskStep(c) ==
    \/ SrvHello(c) \/ SrvAuthOk(c) \/ SrvResumeCheck(c) \/ SrvResumeCommit(c)
    \/ SrvUpgrade(c) \/ SrvMessage(c) \/ SrvNotices(c) \/ SrvUnregister(c) \/ SrvLost(c)

LinkNext ==
    \/ Reconnect \/ Drain \/ Open \/ DialFails
    \/ RecvChallenge \/ RecvAuthOk \/ RecvAuthFail \/ HandshakeEnds \/ HandshakeDrops
    \/ WriteQueued \/ IdleEnds \/ NetworkDrops \/ Restart
    \/ Take \/ Put \/ StartPaced \/ NextPiece
    \/ \E c \in Conns :
         \/ SrvHello(c) \/ SrvAuthOk(c) \/ SrvAuthUnstored(c) \/ SrvExpired(c)
         \/ SrvResumeCheck(c) \/ SrvResumeCommit(c) \/ SrvResumeFails(c)
         \/ SrvUpgrade(c) \/ SrvMessage(c) \/ SrvNotices(c) \/ SrvCloses(c)
         \/ SrvUnregister(c) \/ SrvLost(c)
    \/ Expire

LinkSpec ==
    /\ LinkInit /\ [][LinkNext]_linkVars
    /\ WF_linkVars(LoopStep) /\ WF_linkVars(WriteQueued) /\ WF_linkVars(IdleEnds) /\ WF_linkVars(Put)
    /\ \A c \in Conns : WF_linkVars(TaskStep(c))

-----------------------------------------------------------------------------
(* Properties                                                              *)

(* Everything queued while a session is up carries that session's bearer.   *)
(* The server closes a connection that shows a bearer it has retired, so a  *)
(* leftover would cost the connection it is written to; the phase check of  *)
(* send_envelope_in_session and the drain before each connect together      *)
(* prevent it, although the phase is still Authenticated for a while after  *)
(* the socket died.  The one exception is a sender caught between its check *)
(* and tx.send by a whole reconnect.  And no connection is given the tail   *)
(* of a multi-frame message whose head went to an earlier one: the pieces   *)
(* are reassembled per connection.                                          *)
QueueIsThisSession ==
    ~overtaken =>
        /\ pc = "idle" => \A i \in 1 .. Len(queue) : queue[i].b = bearer
        /\ \A c \in Conns : got[c] # ORPHAN

(* A user whose session is up holds its relay slot and its seat, although   *)
(* connections of an earlier network are still to be torn down.  The        *)
(* exception is the session that was raced: a teardown passed its check     *)
(* (ws/mod.rs unregister) before this session registered its slot, or an    *)
(* older connection registered after it.  It ends with the next session.    *)
LiveUserSeated ==
    pc = "idle" /\ srv[conn] = "Authenticated" /\ ~raced => seat = "here" /\ slot = conn

(* Once faults stop, the client ends up authenticated on a live connection  *)
(* and stays so: a lost AUTH_OK, which leaves it with retired credentials,  *)
(* and a refused resume included.                                           *)
Reauthenticates == <>[](pc = "idle" /\ srv[conn] = "Authenticated")
=============================================================================
