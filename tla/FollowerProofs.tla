--------------------------- MODULE FollowerProofs ---------------------------
(***************************************************************************)
(* Proofs about Link, RoomFeed and Viewer: for any number of connections,   *)
(* pieces in flight, senders and commands, and for every ring capacity,     *)
(* first drawing number and number of items, lags and re-subscriptions.     *)
(*                                                                         *)
(* Link: while no timed-out sender has overtaken another, what the send    *)
(* queue holds is of the session being served (LinkInv: the types, the     *)
(* connection, the seat, and the order of pieces from the sender through   *)
(* the queue and the wire to the assembler); and the live connection of a  *)
(* user keeps the user's seat.                                             *)
(*                                                                         *)
(* RoomFeed: the numbers in the channel are contiguous, and what a watcher  *)
(* has seen and holds is bounded by the item the feed looks at next.        *)
(*                                                                         *)
(* Viewer: the playback store of a viewer follows the room (FollowInv: the  *)
(* items on their way are consecutive and go on from what the store knows, *)
(* and the play state is that of the last PLAY or PAUSE among them).        *)
(***************************************************************************)
EXTENDS Link, RoomFeed, Viewer, TLAPS

\* The types of the client loop, the send queue, the server's tasks, the wires,
\* the server's tables and the flags, a group each: a step rarely touches more
\* than two of them.
LoopTypes ==
    /\ pc \in {"over", "retry", "dial", "hello", "auth", "idle"}
    /\ phase \in Phases
    /\ conn \in 0 .. MaxConns /\ opened \in 0 .. MaxConns
    /\ bearer \in 0 .. MaxConns /\ rtok \in 0 .. MaxConns
SendTypes ==
    /\ queue \in Seq(Frames) /\ taken \in Frames /\ paced \in Frames /\ sends \in Nat
TaskTypes ==
    /\ srv \in [Conns -> States]
    /\ hello \in [Conns -> 0 .. MaxConns] /\ shown \in [Conns -> 0 .. MaxConns]
    /\ got \in [Conns -> 0 .. ORPHAN]
WireTypes ==
    /\ inb \in [Conns -> Seq(WireFrames)] /\ outb \in [Conns -> Seq(Answers)]
TableTypes ==
    /\ bearers \in SUBSET Conns /\ rtoks \in SUBSET Conns
    /\ slot \in 0 .. MaxConns /\ seat \in {"here", "away"}
    /\ trouble \in Nat

\* The type invariant; nothing below needs the types of the history flags.
LinkTypes == LoopTypes /\ SendTypes /\ TaskTypes /\ WireTypes /\ TableTypes

\* AUTH_OK was written: the task of the connection is past its rejoin.
Past == {"Authenticated", "Ending", "Lost", "Closed"}

\* The loop has a connection exactly while it shakes hands or is idle, and it is
\* the last one opened; only that one has answers on the way, and AUTH_OK is
\* among them only once the task has rejoined. During a handshake neither the
\* bearer token nor the paced frame is of the new session.
ConnInv ==
    /\ conn \in {0, opened}
    /\ \A c \in Conns : c > opened => srv[c] = "none"
    /\ pc \in {"hello", "auth", "idle"} <=> conn # 0
    /\ pc = "idle" => srv[conn] \in Past
    /\ \A c \in Conns : c # conn => outb[c] = <<>>
    /\ \A c \in Conns : \A i \in 1 .. Len(outb[c]) : outb[c][i] = "AUTH_OK" => srv[c] \in Past
    /\ bearer <= opened /\ paced.b <= opened
    /\ pc \in {"hello", "auth"} => bearer # conn /\ paced.b # conn
    /\ phase = "Authenticated" => pc \in {"idle", "over"}

\* While the task of the client's connection is past its rejoin, no torn down
\* task is left to take the seat or the slot from it.
SeatInv ==
    ~raced /\ conn # 0 /\ srv[conn] \in {"Rejoined", "Authenticated"} =>
        /\ seat = "here"
        /\ \A c \in Conns : srv[c] # "Lost"
        /\ srv[conn] = "Authenticated" => slot = conn

-----------------------------------------------------------------------------
(* What the helpers of Link leave behind                                   *)

\* The sequence operators keep the type of their elements.
LEMMA SeqTyped ==
    ASSUME NEW S
    PROVE  /\ <<>> \in Seq(S)
           /\ \A e \in S : <<e>> \in Seq(S)
           /\ \A s \in Seq(S) : s # <<>> => Head(s) \in S /\ Tail(s) \in Seq(S)
           /\ \A s \in Seq(S), e \in S : Append(s, e) \in Seq(S)
<1>1. <<>> \in Seq(S) /\ \A e \in S : <<e>> \in Seq(S)  BY SMT
<1>2. ASSUME NEW s \in Seq(S), s # <<>> PROVE Head(s) \in S /\ Tail(s) \in Seq(S)  BY <1>2, SMT
<1>3. ASSUME NEW s \in Seq(S), NEW e \in S PROVE Append(s, e) \in Seq(S)  BY <1>3, SMT
<1> QED  BY <1>1, <1>2, <1>3

\* The helpers of Link keep the types of the wires and of the tasks.
LEMMA ConsumeTyped ==
    ASSUME WireTypes, NEW c \in Conns, inb[c] # <<>>, Consume(c)
    PROVE  /\ inb' \in [Conns -> Seq(WireFrames)]
           /\ Head(inb[c]) \in WireFrames /\ Head(inb[c]).b \in 0 .. MaxConns
           /\ Head(inb[c]).p \in 0 .. Pieces
<1>1. inb[c] \in Seq(WireFrames)  BY DEF WireTypes
<1>2. Tail(inb[c]) \in Seq(WireFrames) /\ Head(inb[c]) \in WireFrames  BY <1>1, SeqTyped
<1>3. inb' \in [Conns -> Seq(WireFrames)]  BY <1>2, SMT DEF WireTypes, Consume
<1> QED  BY <1>2, <1>3 DEF WireFrames

LEMMA ReplyTyped ==
    ASSUME WireTypes, NEW c \in Conns, NEW kind \in Answers, Reply(c, kind)
    PROVE  outb' \in [Conns -> Seq(Answers)]
<1>1. outb[c] \in Seq(Answers)  BY DEF WireTypes
<1>2. Append(outb[c], kind) \in Seq(Answers)  BY <1>1, SeqTyped
<1> QED  BY <1>2, SMT DEF WireTypes, Reply

LEMMA ConnTyped == ASSUME LoopTypes, conn # 0 PROVE conn \in Conns
BY LinkAssumption, SMT DEF LinkAssumption, LoopTypes, Conns

LEMMA AbandonTyped ==
    ASSUME LoopTypes, WireTypes, Abandon
    PROVE  conn' = 0 /\ outb' \in [Conns -> Seq(Answers)]
<1>1. <<>> \in Seq(Answers)  BY SeqTyped
<1> QED  BY <1>1, ConnTyped, SMT DEF WireTypes, Abandon

LEMMA ReceivedTyped ==
    ASSUME LoopTypes, WireTypes, NEW kind, Received(kind)
    PROVE  conn \in Conns /\ outb' \in [Conns -> Seq(Answers)]
<1>1. conn \in Conns /\ outb[conn] \in Seq(Answers)  BY ConnTyped DEF WireTypes, Received
<1>2. Tail(outb[conn]) \in Seq(Answers)  BY <1>1, SeqTyped DEF Received
<1> QED  BY <1>1, <1>2, SMT DEF WireTypes, Received

LEMMA StopTyped ==
    ASSUME TaskTypes, WireTypes, NEW c \in Conns, NEW st \in States, Stop(c, st)
    PROVE  TaskTypes' /\ inb' \in [Conns -> Seq(WireFrames)]
<1>1. <<>> \in Seq(WireFrames)  BY SeqTyped
<1>2. inb' \in [Conns -> Seq(WireFrames)]  BY <1>1, SMT DEF WireTypes, Stop
<1>3. 0 \in 0 .. MaxConns /\ 0 \in 0 .. ORPHAN
    BY LinkAssumption, SMT DEF LinkAssumption, ORPHAN, Pieces
<1>4. TaskTypes'  BY <1>3, SMT DEF TaskTypes, Stop
<1> QED  BY <1>2, <1>4

LEMMA SentTyped ==
    ASSUME WireTypes, NEW c \in Conns, NEW f \in WireFrames, inb' = [inb EXCEPT ![c] = Append(@, f)]
    PROVE  inb' \in [Conns -> Seq(WireFrames)]
<1>1. Append(inb[c], f) \in Seq(WireFrames)  BY SeqTyped DEF WireTypes
<1> QED  BY <1>1, SMT DEF WireTypes

LEMMA RefuseTyped ==
    ASSUME TaskTypes, WireTypes, NEW c \in Conns, Refuse(c)
    PROVE  TaskTypes' /\ WireTypes'
<1>1. "AUTH_FAIL" \in Answers /\ "Closed" \in States  BY DEF Answers, States
<1>2. Reply(c, "AUTH_FAIL") /\ Stop(c, "Closed")  BY DEF Refuse
<1> QED  BY <1>1, <1>2, ReplyTyped, StopTyped DEF WireTypes

LEMMA BreakTyped ==
    ASSUME TaskTypes, WireTypes, NEW c \in Conns, Break(c)
    PROVE  TaskTypes' /\ WireTypes'
<1>1. {"Ending", "Closed"} \subseteq States  BY DEF States
<1>2. Stop(c, IF srv[c] = "Authenticated" THEN "Ending" ELSE "Closed") /\ outb' = outb
    BY DEF Break
<1> QED  BY <1>1, <1>2, StopTyped DEF WireTypes

\* The frames the client and the server make.
LEMMA FrameTyped ==
    /\ NoFrame \in Frames
    /\ \A b \in 0 .. MaxConns : \A p \in 0 .. Pieces : [b |-> b, p |-> p] \in Frames
    /\ \A b \in 0 .. MaxConns : \A p \in 0 .. Pieces : [k |-> "MSG", b |-> b, p |-> p] \in WireFrames
    /\ \A b \in 0 .. MaxConns : \A k \in {"HELLO", "AUTH", "AUTH_RESUME"} :
           [k |-> k, b |-> b, p |-> 0] \in WireFrames
BY LinkAssumption, SMT DEF LinkAssumption, NoFrame, Frames, WireFrames, Pieces

\* Every step keeps the types.
LEMMA LinkTypesKept ==
    ASSUME LinkTypes, ConnInv, LinkNext \/ UNCHANGED linkVars
    PROVE  LinkTypes'
<1>0. /\ LinkTypes /\ ConnInv /\ (LinkNext \/ UNCHANGED linkVars)
      /\ 0 \in 0 .. MaxConns /\ Conns \subseteq 0 .. MaxConns
    BY LinkAssumption, SMT DEF LinkAssumption, Conns
<1>1. CASE Reconnect
  <2>1. LoopTypes'
    BY <1>0, <1>1, SMT DEF LinkTypes, Reconnect, LoopTypes, Phases
  <2> QED  BY <1>0, <1>1, <2>1, SMT DEF LinkTypes, Reconnect, send, task, wire, tab,
       room, SendTypes, TaskTypes, WireTypes, TableTypes
<1>2. CASE Drain
  <2>1. LoopTypes'
    BY <1>0, <1>2, SMT DEF LinkTypes, Drain, NoFrame, LoopTypes, Phases
  <2>2. SendTypes'
    BY <1>0, <1>2, SMT DEF LinkTypes, Drain, NoFrame, SendTypes
  <2> QED  BY <1>0, <1>2, <2>1, <2>2, SMT DEF LinkTypes, Drain, task, wire, tab, room,
       TaskTypes, WireTypes, TableTypes
<1>3. CASE Open
  <2>1. LoopTypes'
    BY <1>0, <1>3, LinkAssumption, SMT DEF LinkAssumption, LinkTypes, Open, LoopTypes, Phases
  <2>2. TaskTypes'
    <3>1. opened + 1 \in Conns /\ conn' = opened + 1 /\ "New" \in States
        BY <1>0, <1>3, LinkAssumption, SMT DEF LinkAssumption, LinkTypes, LoopTypes, Open, Conns, States
    <3> QED  BY <1>0, <1>3, <3>1, SMT DEF LinkTypes, Open, TaskTypes
  <2>3. WireTypes'
    <3>1. opened + 1 \in Conns /\ conn' = opened + 1 /\ rtok \in 0 .. MaxConns
        BY <1>0, <1>3, LinkAssumption, SMT DEF LinkAssumption, LinkTypes, LoopTypes, Open, Conns
    <3>2. <<[k |-> "HELLO", b |-> rtok, p |-> 0]>> \in Seq(WireFrames)
        BY <3>1, FrameTyped, SeqTyped
    <3> QED  BY <1>0, <1>3, <3>1, <3>2, SMT DEF LinkTypes, Open, WireTypes
  <2> QED  BY <1>0, <1>3, <2>1, <2>2, <2>3, SMT DEF LinkTypes, Open, send, tab, room,
       SendTypes, TableTypes
<1>4. CASE DialFails
  <2>1. LoopTypes'
    BY <1>0, <1>4, SMT DEF LinkTypes, DialFails, Fault, RecordFailure, LoopTypes, Phases
  <2>2. TableTypes'
    BY <1>0, <1>4, SMT DEF LinkTypes, DialFails, Fault, RecordFailure, tab, room,
       TableTypes
  <2> QED  BY <1>0, <1>4, <2>1, <2>2, SMT DEF LinkTypes, DialFails, RecordFailure, send,
       task, wire, tab, room, SendTypes, TaskTypes, WireTypes
<1>5. CASE RecvChallenge
  <2>1. LoopTypes'
    BY <1>0, <1>5, SMT DEF LinkTypes, RecvChallenge, LoopTypes, Phases
  <2>2. WireTypes'
    <3>1. bearer \in 0 .. MaxConns  BY <1>0 DEF LinkTypes, LoopTypes
    <3>2. conn \in Conns /\ outb' \in [Conns -> Seq(Answers)]
        BY <1>0, <1>5, ReceivedTyped DEF LinkTypes, RecvChallenge
    <3>3. PICK f \in WireFrames : inb' = [inb EXCEPT ![conn] = Append(@, f)]
        BY <1>5, <3>1, FrameTyped DEF RecvChallenge
    <3> QED  BY <1>0, <3>2, <3>3, SentTyped DEF LinkTypes, WireTypes
  <2> QED  BY <1>0, <1>5, <2>1, <2>2, SMT DEF LinkTypes, RecvChallenge, send, task, tab,
       room, SendTypes, TaskTypes, TableTypes
<1>6. CASE RecvAuthOk
  <2>1. LoopTypes'
    BY <1>0, <1>6, SMT DEF LinkTypes, RecvAuthOk, LoopTypes, Phases
  <2>2. WireTypes'
    BY <1>0, <1>6, ReceivedTyped, SMT DEF LinkTypes, RecvAuthOk, WireTypes
  <2> QED  BY <1>0, <1>6, <2>1, <2>2, SMT DEF LinkTypes, RecvAuthOk, send, task, tab,
       room, SendTypes, TaskTypes, TableTypes
<1>7. CASE RecvAuthFail
  <2>1. LoopTypes'
    BY <1>0, <1>7, AbandonTyped, SMT DEF LinkTypes, RecvAuthFail, ForgetRefused,
       RecordFailure, LoopTypes, Phases
  <2>2. WireTypes'
    BY <1>0, <1>7, AbandonTyped, SMT DEF LinkTypes, RecvAuthFail, ForgetRefused,
       RecordFailure, WireTypes
  <2> QED  BY <1>0, <1>7, <2>1, <2>2, SMT DEF LinkTypes, RecvAuthFail, ForgetRefused,
       RecordFailure, send, task, tab, room, SendTypes, TaskTypes, TableTypes
<1>8. CASE HandshakeEnds
  <2>1. LoopTypes'
    BY <1>0, <1>8, AbandonTyped, SMT DEF LinkTypes, HandshakeEnds, PeerClosed,
       RecordFailure, LoopTypes, Phases
  <2>2. WireTypes'
    BY <1>0, <1>8, AbandonTyped, SMT DEF LinkTypes, HandshakeEnds, PeerClosed,
       RecordFailure, WireTypes
  <2> QED  BY <1>0, <1>8, <2>1, <2>2, SMT DEF LinkTypes, HandshakeEnds, RecordFailure,
       send, task, tab, room, SendTypes, TaskTypes, TableTypes
<1>9. CASE HandshakeDrops
  <2>1. LoopTypes'
    BY <1>0, <1>9, AbandonTyped, SMT DEF LinkTypes, HandshakeDrops, Fault,
       RecordFailure, LoopTypes, Phases
  <2>2. WireTypes'
    BY <1>0, <1>9, AbandonTyped, SMT DEF LinkTypes, HandshakeDrops, Fault,
       RecordFailure, WireTypes
  <2>3. TableTypes'
    BY <1>0, <1>9, SMT DEF LinkTypes, HandshakeDrops, Fault, RecordFailure, tab, room,
       TableTypes
  <2> QED  BY <1>0, <1>9, <2>1, <2>2, <2>3, SMT DEF LinkTypes, HandshakeDrops,
       RecordFailure, send, task, tab, room, SendTypes, TaskTypes
<1>10. CASE WriteQueued
  <2>1. SendTypes'
    BY <1>0, <1>10, SMT DEF LinkTypes, WriteQueued, SendTypes
  <2>2. WireTypes'
    <3> DEFINE f == [k |-> "MSG", b |-> Head(queue).b, p |-> Head(queue).p]
    <3>1. conn # 0 => conn \in Conns  BY <1>0, ConnTyped DEF LinkTypes
    <3>2. Head(queue) \in Frames  BY <1>0, <1>10, SeqTyped DEF LinkTypes, SendTypes, WriteQueued
    <3>3. f \in WireFrames  BY <3>2, FrameTyped DEF Frames
    <3>4. CASE conn # 0 /\ srv[conn] = "Authenticated"
      <4>1. inb' = [inb EXCEPT ![conn] = Append(@, f)]  BY <1>10, <3>4 DEF WriteQueued
      <4> QED  BY <1>0, <1>10, <3>1, <3>3, <3>4, <4>1, SentTyped DEF LinkTypes, WireTypes, WriteQueued
    <3>5. CASE conn # 0 /\ srv[conn] # "Authenticated"
      BY <1>0, <1>10, <3>1, <3>5, SMT DEF LinkTypes, WireTypes, WriteQueued
    <3> QED  BY <1>0, <1>10, <3>4, <3>5 DEF ConnInv, WriteQueued
  <2> QED  BY <1>0, <1>10, <2>1, <2>2, SMT DEF LinkTypes, WriteQueued, cli, task, tab,
       room, LoopTypes, TaskTypes, TableTypes
<1>11. CASE IdleEnds
  <2>1. LoopTypes'
    BY <1>0, <1>11, AbandonTyped, SMT DEF LinkTypes, IdleEnds, PeerClosed, LoopTypes,
       Phases
  <2>2. WireTypes'
    BY <1>0, <1>11, AbandonTyped, SMT DEF LinkTypes, IdleEnds, PeerClosed, WireTypes
  <2> QED  BY <1>0, <1>11, <2>1, <2>2, SMT DEF LinkTypes, IdleEnds, send, task, tab,
       room, SendTypes, TaskTypes, TableTypes
<1>12. CASE NetworkDrops
  <2>1. LoopTypes'
    BY <1>0, <1>12, AbandonTyped, SMT DEF LinkTypes, NetworkDrops, Fault, LoopTypes,
       Phases
  <2>2. WireTypes'
    BY <1>0, <1>12, AbandonTyped, SMT DEF LinkTypes, NetworkDrops, Fault, WireTypes
  <2>3. TableTypes'
    BY <1>0, <1>12, SMT DEF LinkTypes, NetworkDrops, Fault, tab, room, TableTypes
  <2> QED  BY <1>0, <1>12, <2>1, <2>2, <2>3, SMT DEF LinkTypes, NetworkDrops, send,
       task, tab, room, SendTypes, TaskTypes
<1>13. CASE Restart
  <2>1. LoopTypes'
    BY <1>0, <1>13, AbandonTyped, SMT DEF LinkTypes, Restart, Fault, NoFrame, LoopTypes,
       Phases
  <2>2. SendTypes'
    BY <1>0, <1>13, FrameTyped, SeqTyped, SMT DEF LinkTypes, Restart, SendTypes
  <2>3. WireTypes'
    BY <1>0, <1>13, AbandonTyped, SMT DEF LinkTypes, Restart, Fault, NoFrame, WireTypes
  <2>4. TableTypes'
    BY <1>0, <1>13, SMT DEF LinkTypes, Restart, Fault, NoFrame, tab, room, TableTypes
  <2> QED  BY <1>0, <1>13, <2>1, <2>2, <2>3, <2>4, SMT DEF LinkTypes, Restart, task,
       tab, room, TaskTypes
<1>14. CASE Take
  <2>1. SendTypes'
    <3>1. [b |-> bearer, p |-> 0] \in Frames  BY <1>0, SMT DEF LinkTypes, LoopTypes, Frames, Pieces
    <3> QED  BY <1>0, <1>14, <3>1, SMT DEF LinkTypes, Take, SendTypes
  <2> QED  BY <1>0, <1>14, <2>1, SMT DEF LinkTypes, Take, cli, task, wire, tab, room,
       LoopTypes, TaskTypes, WireTypes, TableTypes
<1>15. CASE Put
  <2>1. SendTypes'
    <3>1. Append(queue, taken) \in Seq(Frames)  BY <1>0, SeqTyped DEF LinkTypes, SendTypes
    <3> QED  BY <1>0, <1>15, <3>1, FrameTyped, SMT DEF LinkTypes, Put, SendTypes
  <2> QED  BY <1>0, <1>15, <2>1, SMT DEF LinkTypes, Put, cli, task, wire, tab, room,
       LoopTypes, TaskTypes, WireTypes, TableTypes
<1>16. CASE StartPaced
  <2>1. SendTypes'
    <3>1. [b |-> bearer, p |-> 1] \in Frames  BY <1>0, SMT DEF LinkTypes, LoopTypes, Frames, Pieces
    <3> QED  BY <1>0, <1>16, <3>1, SMT DEF LinkTypes, StartPaced, SendTypes
  <2> QED  BY <1>0, <1>16, <2>1, SMT DEF LinkTypes, StartPaced, cli, task, wire, tab,
       room, LoopTypes, TaskTypes, WireTypes, TableTypes
<1>17. CASE NextPiece
  <2>1. SendTypes'
    <3>1. paced.p \in 0 .. Pieces /\ paced.b \in 0 .. MaxConns /\ bearer \in 0 .. MaxConns
        BY <1>0 DEF LinkTypes, LoopTypes, SendTypes, Frames
    <3>2. [b |-> bearer, p |-> paced.p] \in Frames  BY <3>1, FrameTyped
    <3>3. paced.p # Pieces => [paced EXCEPT !.p = @ + 1] \in Frames
        BY <1>0, <3>1, SMT DEF LinkTypes, SendTypes, Frames, Pieces
    <3> QED  BY <1>0, <1>17, <3>2, <3>3, FrameTyped, SMT DEF LinkTypes, NextPiece, SendTypes
  <2> QED  BY <1>0, <1>17, <2>1, SMT DEF LinkTypes, NextPiece, cli, task, wire, tab,
       room, LoopTypes, TaskTypes, WireTypes, TableTypes
<1>18. CASE Expire
  <2>1. TableTypes'
    <3>1. bearers \ {bearer} \in SUBSET Conns /\ rtoks \ {rtok} \in SUBSET Conns
        BY <1>0 DEF LinkTypes, TableTypes
    <3>2. bearers' \in SUBSET Conns /\ rtoks' \in SUBSET Conns
        BY <1>0, <1>18, <3>1, Zenon DEF Expire, LinkTypes, TableTypes
    <3> QED  BY <1>0, <1>18, <3>2, SMT DEF LinkTypes, Expire, Fault, room, TableTypes
  <2> QED  BY <1>0, <1>18, <2>1, SMT DEF LinkTypes, Expire, cli, send, task, wire, room,
       LoopTypes, SendTypes, TaskTypes, WireTypes
<1>19. ASSUME NEW c \in Conns, SrvHello(c) PROVE LinkTypes'
  <2>1. TaskTypes'
    BY <1>0, <1>19, ConsumeTyped, ReplyTyped, SMT DEF LinkTypes, SrvHello, Incoming,
       TaskTypes, States
  <2>2. WireTypes'
    <3>1. "CHALLENGE" \in Answers  BY DEF Answers
    <3> QED  BY <1>0, <1>19, <3>1, ConsumeTyped, ReplyTyped DEF LinkTypes, SrvHello, Incoming, WireTypes
  <2> QED  BY <1>0, <1>19, <2>1, <2>2, SMT DEF LinkTypes, SrvHello, cli, send, tab,
       room, LoopTypes, SendTypes, TableTypes
<1>20. ASSUME NEW c \in Conns, SrvAuthOk(c) PROVE LinkTypes'
  <2>1. TaskTypes'
    BY <1>0, <1>20, ConsumeTyped, SMT DEF LinkTypes, SrvAuthOk, SrvAuth, BearerStored, TokenStored, Incoming,
       Rejoin, NewerLive, TaskTypes, States
  <2>2. WireTypes'
    BY <1>0, <1>20, ConsumeTyped, SMT DEF LinkTypes, SrvAuthOk, SrvAuth, BearerStored, TokenStored, Incoming,
       Rejoin, NewerLive, WireTypes
  <2>3. TableTypes'
    BY <1>0, <1>20, ConsumeTyped, SMT DEF LinkTypes, SrvAuthOk, SrvAuth, BearerStored, TokenStored, Incoming,
       Rejoin, NewerLive, TableTypes
  <2> QED  BY <1>0, <1>20, <2>1, <2>2, <2>3, SMT DEF LinkTypes, SrvAuthOk, SrvAuth, BearerStored, TokenStored,
       Rejoin, cli, send, LoopTypes, SendTypes
<1>21. ASSUME NEW c \in Conns, SrvAuthUnstored(c) PROVE LinkTypes'
  <2>1. TaskTypes'
    BY <1>0, <1>21, ConsumeTyped, SMT DEF LinkTypes, SrvAuthUnstored, SrvAuth, BearerStored, TokenStored, Incoming,
       Rejoin, NewerLive, Fault, TaskTypes, States
  <2>2. WireTypes'
    BY <1>0, <1>21, ConsumeTyped, SMT DEF LinkTypes, SrvAuthUnstored, SrvAuth, BearerStored, TokenStored, Incoming,
       Rejoin, NewerLive, Fault, WireTypes
  <2>3. TableTypes'
    BY <1>0, <1>21, ConsumeTyped, SMT DEF LinkTypes, SrvAuthUnstored, SrvAuth, BearerStored, TokenStored, Incoming,
       Rejoin, NewerLive, Fault, TableTypes
  <2> QED  BY <1>0, <1>21, <2>1, <2>2, <2>3, SMT DEF LinkTypes, SrvAuthUnstored,
       SrvAuth, Rejoin, cli, send, LoopTypes, SendTypes
<1>22. ASSUME NEW c \in Conns, SrvExpired(c) PROVE LinkTypes'
  <2>1. TaskTypes'
    BY <1>0, <1>22, RefuseTyped DEF LinkTypes, SrvExpired
  <2>2. WireTypes'
    BY <1>0, <1>22, RefuseTyped DEF LinkTypes, SrvExpired
  <2>3. TableTypes'
    BY <1>0, <1>22, SMT DEF LinkTypes, SrvExpired, Incoming, Fault, tab, room,
       TableTypes
  <2> QED  BY <1>0, <1>22, <2>1, <2>2, <2>3, SMT DEF LinkTypes, SrvExpired, cli, send,
       tab, room, LoopTypes, SendTypes
<1>23. ASSUME NEW c \in Conns, SrvResumeCheck(c) PROVE LinkTypes'
  <2>1. TaskTypes'
    <3>1. CASE Resumable(c, Head(inb[c]).b)
      <4>1. Head(inb[c]).b \in 0 .. MaxConns
          BY <1>0, <1>23, <3>1, ConsumeTyped DEF LinkTypes, SrvResumeCheck, Incoming
      <4> QED  BY <1>0, <1>23, <3>1, <4>1, SMT DEF LinkTypes, SrvResumeCheck, TaskTypes, States
    <3>2. CASE ~Resumable(c, Head(inb[c]).b)
      BY <1>0, <1>23, <3>2, RefuseTyped DEF LinkTypes, SrvResumeCheck
    <3> QED  BY <3>1, <3>2
  <2>2. WireTypes'
    BY <1>0, <1>23, ConsumeTyped, RefuseTyped DEF LinkTypes, SrvResumeCheck, Incoming, WireTypes
  <2> QED  BY <1>0, <1>23, <2>1, <2>2, SMT DEF LinkTypes, SrvResumeCheck, cli, send,
       tab, room, LoopTypes, SendTypes, TableTypes
<1>24. ASSUME NEW c \in Conns, SrvResumeCommit(c) PROVE LinkTypes'
  <2>1. TaskTypes'
    BY <1>0, <1>24, SMT DEF LinkTypes, SrvResumeCommit, Rejoin, NewerLive, TaskTypes,
       States
  <2>2. TableTypes'
    <3>1. /\ (bearers \ {shown[c]}) \cup {c} \in SUBSET Conns
          /\ (rtoks \ {hello[c]}) \cup {c} \in SUBSET Conns
        BY <1>0 DEF LinkTypes, TableTypes
    <3> QED  BY <1>0, <1>24, <3>1, SMT DEF LinkTypes, SrvResumeCommit, Rejoin, TableTypes
  <2> QED  BY <1>0, <1>24, <2>1, <2>2, SMT DEF LinkTypes, SrvResumeCommit, Rejoin, cli,
       send, wire, LoopTypes, SendTypes, WireTypes
<1>25. ASSUME NEW c \in Conns, SrvResumeFails(c) PROVE LinkTypes'
  <2>1. TaskTypes'
    BY <1>0, <1>25, StopTyped DEF LinkTypes, SrvResumeFails, States
  <2>2. WireTypes'
    BY <1>0, <1>25, StopTyped DEF LinkTypes, SrvResumeFails, WireTypes, States
  <2>3. TableTypes'
    <3>1. bearers \ {shown[c]} \in SUBSET Conns /\ rtoks \ {hello[c]} \in SUBSET Conns
        BY <1>0 DEF LinkTypes, TableTypes
    <3> QED  BY <1>0, <1>25, <3>1, SMT DEF LinkTypes, SrvResumeFails, Fault, room, TableTypes
  <2> QED  BY <1>0, <1>25, <2>1, <2>2, <2>3, SMT DEF LinkTypes, SrvResumeFails, cli,
       send, room, LoopTypes, SendTypes
<1>26. ASSUME NEW c \in Conns, SrvUpgrade(c) PROVE LinkTypes'
  <2>1. TaskTypes'
    BY <1>0, <1>26, ReplyTyped, SMT DEF LinkTypes, SrvUpgrade, NewerLive, TaskTypes,
       States
  <2>2. WireTypes'
    <3>1. "AUTH_OK" \in Answers  BY DEF Answers
    <3> QED  BY <1>0, <1>26, <3>1, ReplyTyped DEF LinkTypes, SrvUpgrade, WireTypes
  <2>3. TableTypes'
    BY <1>0, <1>26, LinkAssumption, SMT DEF LinkAssumption, LinkTypes, SrvUpgrade, tab, TableTypes, Conns
  <2> QED  BY <1>0, <1>26, <2>1, <2>2, <2>3, SMT DEF LinkTypes, SrvUpgrade, cli, send,
       tab, LoopTypes, SendTypes
<1>27. ASSUME NEW c \in Conns, SrvMessage(c) PROVE LinkTypes'
  <2>1. TaskTypes'
    <3>1. CASE Head(inb[c]).b \in bearers
      <4>1. Head(inb[c]).p \in 0 .. Pieces
          BY <1>0, <1>27, <3>1, ConsumeTyped DEF LinkTypes, SrvMessage, Incoming
      <4>2. Assembled(got[c], Head(inb[c]).p) \in 0 .. ORPHAN
          BY <1>0, <1>27, <4>1, SMT DEF LinkTypes, TaskTypes, Assembled, Pieces, ORPHAN
      <4> QED  BY <1>0, <1>27, <3>1, <4>2, SMT DEF LinkTypes, SrvMessage, TaskTypes
    <3>2. CASE Head(inb[c]).b \notin bearers
      BY <1>0, <1>27, <3>2, StopTyped DEF LinkTypes, SrvMessage, States
    <3> QED  BY <3>1, <3>2
  <2>2. WireTypes'
    <3>1. "Ending" \in States  BY DEF States
    <3> QED  BY <1>0, <1>27, <3>1, ConsumeTyped, StopTyped DEF LinkTypes, SrvMessage, Incoming, WireTypes
  <2> QED  BY <1>0, <1>27, <2>1, <2>2, SMT DEF LinkTypes, SrvMessage, cli, send, tab,
       room, LoopTypes, SendTypes, TableTypes
<1>28. ASSUME NEW c \in Conns, SrvNotices(c) PROVE LinkTypes'
  <2>1. TaskTypes'
    BY <1>0, <1>28, BreakTyped DEF LinkTypes, SrvNotices
  <2>2. WireTypes'
    BY <1>0, <1>28, BreakTyped DEF LinkTypes, SrvNotices
  <2> QED  BY <1>0, <1>28, <2>1, <2>2, SMT DEF LinkTypes, SrvNotices, Break, cli, send,
       tab, room, LoopTypes, SendTypes, TableTypes
<1>29. ASSUME NEW c \in Conns, SrvCloses(c) PROVE LinkTypes'
  <2>1. TaskTypes'
    BY <1>0, <1>29, BreakTyped DEF LinkTypes, SrvCloses
  <2>2. WireTypes'
    BY <1>0, <1>29, BreakTyped DEF LinkTypes, SrvCloses
  <2>3. TableTypes'
    BY <1>0, <1>29, SMT DEF LinkTypes, SrvCloses, Fault, Break, tab, room, TableTypes
  <2> QED  BY <1>0, <1>29, <2>1, <2>2, <2>3, SMT DEF LinkTypes, SrvCloses, Break, cli,
       send, tab, room, LoopTypes, SendTypes
<1>30. ASSUME NEW c \in Conns, SrvUnregister(c) PROVE LinkTypes'
  <2>1. TaskTypes'
    BY <1>0, <1>30, SMT DEF LinkTypes, SrvUnregister, StillCurrent, NewerLive,
       TaskTypes, States
  <2>2. TableTypes'
    BY <1>0, <1>30, SMT DEF LinkTypes, SrvUnregister, StillCurrent, NewerLive, tab,
       TableTypes
  <2> QED  BY <1>0, <1>30, <2>1, <2>2, SMT DEF LinkTypes, SrvUnregister, cli, send,
       wire, tab, LoopTypes, SendTypes, WireTypes
<1>31. ASSUME NEW c \in Conns, SrvLost(c) PROVE LinkTypes'
  <2>1. TaskTypes'
    BY <1>0, <1>31, SMT DEF LinkTypes, SrvLost, TaskTypes, States
  <2>2. TableTypes'
    BY <1>0, <1>31, SMT DEF LinkTypes, SrvLost, tab, TableTypes
  <2> QED  BY <1>0, <1>31, <2>1, <2>2, SMT DEF LinkTypes, SrvLost, cli, send, wire, tab,
       LoopTypes, SendTypes, WireTypes
<1>32. CASE UNCHANGED linkVars
    BY <1>0, <1>32, SMT DEF linkVars, LinkTypes, cli, send, task, wire, tab, room,
       LoopTypes, SendTypes, TaskTypes, WireTypes, TableTypes
<1> QED  BY <1>0, <1>1, <1>2, <1>3, <1>4, <1>5, <1>6, <1>7, <1>8, <1>9, <1>10, <1>11,
       <1>12, <1>13, <1>14, <1>15, <1>16, <1>17, <1>18, <1>19, <1>20, <1>21, <1>22,
       <1>23, <1>24, <1>25, <1>26, <1>27, <1>28, <1>29, <1>30, <1>31, <1>32,
       SMT DEF LinkNext

-----------------------------------------------------------------------------
(* The connections                                                         *)

\* Every step keeps what ties the loop to its connection.
LEMMA ConnKept ==
    ASSUME LinkTypes, ConnInv, LinkNext \/ UNCHANGED linkVars
    PROVE  ConnInv'
<1> DEFINE Goal == ConnInv'
<1>0. LinkTypes /\ ConnInv /\ (LinkNext \/ UNCHANGED linkVars)  OBVIOUS
<1>1. CASE Reconnect
    BY <1>0, <1>1, SMT DEF Reconnect, send, task, wire, tab, room, ConnInv, Past,
       LinkTypes, LoopTypes, TaskTypes, WireTypes, Conns
<1>2. CASE Drain
    BY <1>0, <1>2, SMT DEF Drain, NoFrame, task, wire, tab, room, ConnInv, Past,
       LinkTypes, LoopTypes, TaskTypes, WireTypes, Conns
<1>3. CASE Open
  <2>1. /\ opened + 1 \in Conns /\ opened' = opened + 1 /\ conn' = opened + 1
        /\ srv' = [srv EXCEPT ![opened + 1] = "New"] /\ outb' = outb
        /\ pc' = "hello" /\ phase' = "Handshaking" /\ bearer' = bearer /\ paced' = paced
      BY <1>0, <1>3, LinkAssumption, SMT
         DEF LinkAssumption, LinkTypes, LoopTypes, Open, Conns, send
  <2>2. conn = 0 /\ \A c \in Conns : outb[c] = <<>>
      BY <1>0, <1>3, SMT DEF ConnInv, Open, Conns
  <2>3. \A c \in Conns : c > opened' => srv'[c] = "none"
      BY <1>0, <2>1, SMT DEF ConnInv, LinkTypes, TaskTypes, LoopTypes, Conns
  <2>4. bearer' <= opened' /\ paced'.b <= opened' /\ bearer' # conn' /\ paced'.b # conn' /\ conn' # 0
      BY <1>0, <2>1, SMT DEF ConnInv, LinkTypes, LoopTypes, SendTypes, Frames
  <2>5. \A c \in Conns : \A i \in 1 .. Len(outb'[c]) : outb'[c][i] = "AUTH_OK" => srv'[c] \in Past
      BY <2>1, <2>2, SMT
  <2> QED  BY <2>1, <2>2, <2>3, <2>4, <2>5 DEF ConnInv
<1>4. CASE DialFails
    BY <1>0, <1>4, SMT DEF DialFails, Fault, RecordFailure, send, task, wire, tab, room,
       ConnInv, Past, LinkTypes, LoopTypes, TaskTypes, WireTypes, Conns
<1>5. CASE RecvChallenge
    BY <1>0, <1>5, SMT DEF RecvChallenge, Received, send, task, tab, room, ConnInv,
       Past, LinkTypes, LoopTypes, TaskTypes, WireTypes, Conns
<1>6. CASE RecvAuthOk
    BY <1>0, <1>6, SMT DEF RecvAuthOk, Received, send, task, tab, room, ConnInv, Past,
       LinkTypes, LoopTypes, TaskTypes, WireTypes, Conns
<1>7. CASE RecvAuthFail
    BY <1>0, <1>7, SMT DEF RecvAuthFail, Abandon, ForgetRefused, RecordFailure, send,
       task, tab, room, ConnInv, Past, LinkTypes, LoopTypes, TaskTypes, WireTypes, Conns
<1>8. CASE HandshakeEnds
    BY <1>0, <1>8, SMT DEF HandshakeEnds, PeerClosed, Abandon, RecordFailure, send,
       task, tab, room, ConnInv, Past, LinkTypes, LoopTypes, TaskTypes, WireTypes, Conns
<1>9. CASE HandshakeDrops
    BY <1>0, <1>9, SMT DEF HandshakeDrops, Fault, Abandon, RecordFailure, send, task,
       tab, room, ConnInv, Past, LinkTypes, LoopTypes, TaskTypes, WireTypes, Conns
<1>10. CASE WriteQueued
    BY <1>0, <1>10, SMT DEF WriteQueued, cli, task, tab, room, ConnInv, Past, LinkTypes,
       LoopTypes, TaskTypes, WireTypes, Conns
<1>11. CASE IdleEnds
    BY <1>0, <1>11, SMT DEF IdleEnds, PeerClosed, Abandon, send, task, tab, room,
       ConnInv, Past, LinkTypes, LoopTypes, TaskTypes, WireTypes, Conns
<1>12. CASE NetworkDrops
    BY <1>0, <1>12, SMT DEF NetworkDrops, Fault, Abandon, send, task, tab, room,
       ConnInv, Past, LinkTypes, LoopTypes, TaskTypes, WireTypes, Conns
<1>13. CASE Restart
    BY <1>0, <1>13, SMT DEF Restart, Fault, Abandon, NoFrame, task, tab, room, ConnInv,
       Past, LinkTypes, LoopTypes, TaskTypes, WireTypes, Conns
<1>14. CASE Take
    BY <1>0, <1>14, SMT DEF Take, NoFrame, CanSend, cli, task, wire, tab, room, ConnInv,
       Past, LinkTypes, LoopTypes, TaskTypes, WireTypes, Conns
<1>15. CASE Put
    BY <1>0, <1>15, SMT DEF Put, NoFrame, cli, task, wire, tab, room, ConnInv, Past,
       LinkTypes, LoopTypes, TaskTypes, WireTypes, Conns
<1>16. CASE StartPaced
    BY <1>0, <1>16, SMT DEF StartPaced, NoFrame, cli, task, wire, tab, room, ConnInv,
       Past, LinkTypes, LoopTypes, TaskTypes, WireTypes, Conns
<1>17. CASE NextPiece
  <2>1. paced \in Frames /\ paced.b <= opened /\ 0 <= opened
      BY <1>0, SMT DEF ConnInv, LinkTypes, LoopTypes, SendTypes
  <2>2. paced' = NoFrame \/ paced' = [paced EXCEPT !.p = @ + 1]
      BY <1>17 DEF NextPiece
  <2>3. paced'.b \in {0, paced.b}
      BY <2>1, <2>2, SMT DEF NoFrame, Frames
  <2>4. paced'.b <= opened  BY <2>1, <2>3
  <2>5. pc \in {"hello", "auth"} => paced'.b # conn
      BY <1>0, <2>3 DEF ConnInv
  <2> QED  BY <1>0, <1>17, <2>4, <2>5, SMT DEF ConnInv, NextPiece, cli, task, wire
<1>18. CASE Expire
    BY <1>0, <1>18, SMT DEF Expire, Fault, cli, send, task, wire, room, ConnInv, Past,
       LinkTypes, LoopTypes, TaskTypes, WireTypes, Conns
<1>19. ASSUME NEW c \in Conns, SrvHello(c) PROVE Goal
    BY <1>0, <1>19, SMT DEF SrvHello, Incoming, Consume, Reply, cli, send, tab, room,
       ConnInv, Past, LinkTypes, LoopTypes, TaskTypes, WireTypes, Conns
<1>20. ASSUME NEW c \in Conns, SrvAuthOk(c) PROVE Goal
    BY <1>0, <1>20, SMT DEF SrvAuthOk, SrvAuth, Incoming, Consume, Rejoin, NewerLive,
       cli, send, ConnInv, Past, LinkTypes, LoopTypes, TaskTypes, WireTypes, Conns
<1>21. ASSUME NEW c \in Conns, SrvAuthUnstored(c) PROVE Goal
    BY <1>0, <1>21, SMT DEF SrvAuthUnstored, SrvAuth, Incoming, Consume, Rejoin,
       NewerLive, cli, send, Fault, ConnInv, Past, LinkTypes, LoopTypes, TaskTypes,
       WireTypes, Conns
<1>22. ASSUME NEW c \in Conns, SrvExpired(c) PROVE Goal
    BY <1>0, <1>22, SMT DEF SrvExpired, Incoming, Fault, Refuse, Reply, Stop, cli, send,
       tab, room, ConnInv, Past, LinkTypes, LoopTypes, TaskTypes, WireTypes, Conns
<1>23. ASSUME NEW c \in Conns, SrvResumeCheck(c) PROVE Goal
  <2>1. CASE Resumable(c, Head(inb[c]).b)
    <3>1. /\ UNCHANGED <<cli, send, outb>> /\ srv[c] = "ChallengeSent"
          /\ srv' = [srv EXCEPT ![c] = "Resuming"]
        BY <1>23, <2>1 DEF SrvResumeCheck
    <3> QED  BY <1>0, <3>1, SMT DEF cli, send, ConnInv, Past, LinkTypes, TaskTypes
  <2>2. CASE ~Resumable(c, Head(inb[c]).b)
    <3>1. /\ UNCHANGED <<cli, send>> /\ srv[c] = "ChallengeSent"
          /\ srv' = [srv EXCEPT ![c] = "Closed"] /\ Reply(c, "AUTH_FAIL")
        BY <1>23, <2>2 DEF SrvResumeCheck, Refuse, Stop
    <3> QED  BY <1>0, <3>1, SMT DEF Reply, cli, send, ConnInv, Past, LinkTypes, LoopTypes, TaskTypes,
                                    WireTypes, Conns
  <2> QED  BY <2>1, <2>2
<1>24. ASSUME NEW c \in Conns, SrvResumeCommit(c) PROVE Goal
    BY <1>0, <1>24, SMT DEF SrvResumeCommit, Rejoin, NewerLive, cli, send, wire,
       ConnInv, Past, LinkTypes, LoopTypes, TaskTypes, WireTypes, Conns
<1>25. ASSUME NEW c \in Conns, SrvResumeFails(c) PROVE Goal
    BY <1>0, <1>25, SMT DEF SrvResumeFails, Fault, Stop, cli, send, room, ConnInv, Past,
       LinkTypes, LoopTypes, TaskTypes, WireTypes, Conns
<1>26. ASSUME NEW c \in Conns, SrvUpgrade(c) PROVE Goal
    BY <1>0, <1>26, SMT DEF SrvUpgrade, NewerLive, Reply, cli, send, tab, ConnInv, Past,
       LinkTypes, LoopTypes, TaskTypes, WireTypes, Conns
<1>27. ASSUME NEW c \in Conns, SrvMessage(c) PROVE Goal
  <2>1. /\ UNCHANGED <<cli, send, outb>>
        /\ srv[c] = "Authenticated"
        /\ srv' = srv \/ srv' = [srv EXCEPT ![c] = "Ending"]
      BY <1>27 DEF SrvMessage, Stop
  <2>2. \A d \in Conns : (srv[d] \in Past => srv'[d] \in Past) /\ (srv[d] = "none" => srv'[d] = "none")
      BY <1>0, <2>1, SMT DEF Past, LinkTypes, TaskTypes
  <2>3. conn # 0 => conn \in Conns  BY <1>0, ConnTyped DEF LinkTypes
  <2> QED  BY <1>0, <2>1, <2>2, <2>3, SMT DEF cli, send, ConnInv
<1>28. ASSUME NEW c \in Conns, SrvNotices(c) PROVE Goal
    BY <1>0, <1>28, SMT DEF SrvNotices, Break, Stop, cli, send, tab, room, ConnInv,
       Past, LinkTypes, LoopTypes, TaskTypes, WireTypes, Conns
<1>29. ASSUME NEW c \in Conns, SrvCloses(c) PROVE Goal
    BY <1>0, <1>29, SMT DEF SrvCloses, Fault, Break, Stop, cli, send, tab, room,
       ConnInv, Past, LinkTypes, LoopTypes, TaskTypes, WireTypes, Conns
<1>30. ASSUME NEW c \in Conns, SrvUnregister(c) PROVE Goal
    BY <1>0, <1>30, SMT DEF SrvUnregister, StillCurrent, NewerLive, cli, send, wire,
       tab, ConnInv, Past, LinkTypes, LoopTypes, TaskTypes, WireTypes, Conns
<1>31. ASSUME NEW c \in Conns, SrvLost(c) PROVE Goal
    BY <1>0, <1>31, SMT DEF SrvLost, cli, send, wire, tab, ConnInv, Past, LinkTypes,
       LoopTypes, TaskTypes, WireTypes, Conns
<1>32. CASE UNCHANGED linkVars
    BY <1>0, <1>32, SMT DEF linkVars, cli, send, task, wire, tab, room, ConnInv, Past,
       LinkTypes, LoopTypes, TaskTypes, WireTypes, Conns
<1> QED  BY <1>0, <1>1, <1>2, <1>3, <1>4, <1>5, <1>6, <1>7, <1>8, <1>9, <1>10, <1>11,
       <1>12, <1>13, <1>14, <1>15, <1>16, <1>17, <1>18, <1>19, <1>20, <1>21, <1>22,
       <1>23, <1>24, <1>25, <1>26, <1>27, <1>28, <1>29, <1>30, <1>31, <1>32,
       SMT DEF LinkNext

\* A connection that seats the user is the last one, which begins a session, or
\* an older one, which leaves that of the last one as it is.
LEMMA RejoinSeats ==
    ASSUME LinkTypes, ConnInv, SeatInv, NEW c \in Conns,
           srv[c] \in {"ChallengeSent", "Resuming"},
           Rejoin(c), conn' = conn
    PROVE  SeatInv'
<1>1. c <= opened
    BY SMT DEF ConnInv, Conns, LinkTypes, LoopTypes
<1>2. /\ srv' = [srv EXCEPT ![c] = "Rejoined"] /\ seat' = "here" /\ slot' = slot
      /\ raced' = IF NewerLive(c) THEN raced ELSE \E d \in Conns : srv[d] = "Lost"
    BY DEF Rejoin
<1> SUFFICES ASSUME ~raced', conn # 0, srv'[conn] \in {"Rejoined", "Authenticated"}
             PROVE  /\ seat' = "here" /\ \A d \in Conns : srv'[d] # "Lost"
                    /\ srv'[conn] = "Authenticated" => slot' = conn
    BY SMT DEF SeatInv
<1>3. conn \in Conns /\ conn = opened  BY ConnTyped DEF ConnInv, LinkTypes
<1>4. CASE conn = c
  <2>1. ~NewerLive(c)
      BY <1>3, <1>4, SMT DEF NewerLive, ConnInv, LinkTypes, TaskTypes, LoopTypes, Conns
  <2>2. \A d \in Conns : srv[d] # "Lost"  BY <1>2, <2>1
  <2> QED  BY <1>2, <1>4, <2>2, SMT DEF LinkTypes, TaskTypes
<1>5. CASE conn # c
  <2>1. srv[conn] = srv'[conn] /\ c < conn
      BY <1>1, <1>2, <1>3, <1>5, SMT DEF LinkTypes, TaskTypes, LoopTypes, Conns
  <2>2. NewerLive(c)  BY <1>3, <2>1 DEF NewerLive
  <2>3. ~raced  BY <1>2, <2>2
  <2> QED  BY <1>2, <1>5, <2>1, <2>3, SMT DEF SeatInv, LinkTypes, TaskTypes
<1> QED  BY <1>4, <1>5

\* Every step keeps the seat.
LEMMA SeatKept ==
    ASSUME LinkTypes, ConnInv, SeatInv, LinkNext \/ UNCHANGED linkVars
    PROVE  SeatInv'
<1> DEFINE Goal == SeatInv'
<1>0. LinkTypes /\ ConnInv /\ SeatInv /\ (LinkNext \/ UNCHANGED linkVars)  OBVIOUS
<1>1. CASE Reconnect
    BY <1>0, <1>1, SMT DEF Reconnect, send, task, wire, tab, room, ConnInv, SeatInv,
       LinkTypes, LoopTypes, TaskTypes, WireTypes, Conns
<1>2. CASE Drain
    BY <1>0, <1>2, SMT DEF Drain, NoFrame, task, wire, tab, room, ConnInv, SeatInv,
       LinkTypes, LoopTypes, TaskTypes, WireTypes, Conns
<1>3. CASE Open
  <2>1. conn' = opened + 1 /\ opened + 1 \in Conns /\ srv' = [srv EXCEPT ![opened + 1] = "New"]
      BY <1>0, <1>3, LinkAssumption, SMT
         DEF LinkAssumption, LinkTypes, LoopTypes, Open, Conns
  <2> QED  BY <1>0, <2>1, SMT DEF SeatInv, LinkTypes, TaskTypes
<1>4. CASE DialFails
    BY <1>0, <1>4, SMT DEF DialFails, Fault, RecordFailure, send, task, wire, tab, room,
       ConnInv, SeatInv, LinkTypes, LoopTypes, TaskTypes, WireTypes, Conns
<1>5. CASE RecvChallenge
    BY <1>0, <1>5, SMT DEF RecvChallenge, Received, send, task, tab, room, ConnInv,
       SeatInv, LinkTypes, LoopTypes, TaskTypes, WireTypes, Conns
<1>6. CASE RecvAuthOk
    BY <1>0, <1>6, SMT DEF RecvAuthOk, Received, send, task, tab, room, ConnInv,
       SeatInv, LinkTypes, LoopTypes, TaskTypes, WireTypes, Conns
<1>7. CASE RecvAuthFail
    BY <1>0, <1>7, SMT DEF RecvAuthFail, Abandon, ForgetRefused, RecordFailure, send,
       task, tab, room, ConnInv, SeatInv, LinkTypes, LoopTypes, TaskTypes, WireTypes,
       Conns
<1>8. CASE HandshakeEnds
    BY <1>0, <1>8, SMT DEF HandshakeEnds, PeerClosed, Abandon, RecordFailure, send,
       task, tab, room, ConnInv, SeatInv, LinkTypes, LoopTypes, TaskTypes, WireTypes,
       Conns
<1>9. CASE HandshakeDrops
    BY <1>0, <1>9, SMT DEF HandshakeDrops, Fault, Abandon, RecordFailure, send, task,
       tab, room, ConnInv, SeatInv, LinkTypes, LoopTypes, TaskTypes, WireTypes, Conns
<1>10. CASE WriteQueued
    BY <1>0, <1>10, SMT DEF WriteQueued, cli, task, tab, room, ConnInv, SeatInv,
       LinkTypes, LoopTypes, TaskTypes, WireTypes, Conns
<1>11. CASE IdleEnds
    BY <1>0, <1>11, SMT DEF IdleEnds, PeerClosed, Abandon, send, task, tab, room,
       ConnInv, SeatInv, LinkTypes, LoopTypes, TaskTypes, WireTypes, Conns
<1>12. CASE NetworkDrops
    BY <1>0, <1>12, SMT DEF NetworkDrops, Fault, Abandon, send, task, tab, room,
       ConnInv, SeatInv, LinkTypes, LoopTypes, TaskTypes, WireTypes, Conns
<1>13. CASE Restart
    BY <1>0, <1>13, SMT DEF Restart, Fault, Abandon, NoFrame, task, tab, room, ConnInv,
       SeatInv, LinkTypes, LoopTypes, TaskTypes, WireTypes, Conns
<1>14. CASE Take
    BY <1>0, <1>14, SMT DEF Take, NoFrame, CanSend, cli, task, wire, tab, room, ConnInv,
       SeatInv, LinkTypes, LoopTypes, TaskTypes, WireTypes, Conns
<1>15. CASE Put
    BY <1>0, <1>15, SMT DEF Put, NoFrame, cli, task, wire, tab, room, ConnInv, SeatInv,
       LinkTypes, LoopTypes, TaskTypes, WireTypes, Conns
<1>16. CASE StartPaced
    BY <1>0, <1>16, SMT DEF StartPaced, NoFrame, cli, task, wire, tab, room, ConnInv,
       SeatInv, LinkTypes, LoopTypes, TaskTypes, WireTypes, Conns
<1>17. CASE NextPiece
    BY <1>0, <1>17, SMT DEF NextPiece, NoFrame, CanSend, SameSession, cli, task, wire,
       tab, room, ConnInv, SeatInv, LinkTypes, LoopTypes, TaskTypes, WireTypes, Conns
<1>18. CASE Expire
    BY <1>0, <1>18, SMT DEF Expire, Fault, cli, send, task, wire, room, ConnInv,
       SeatInv, LinkTypes, LoopTypes, TaskTypes, WireTypes, Conns
<1>19. ASSUME NEW c \in Conns, SrvHello(c) PROVE Goal
    BY <1>0, <1>19, SMT DEF SrvHello, Incoming, Consume, Reply, cli, send, tab, room,
       ConnInv, SeatInv, LinkTypes, LoopTypes, TaskTypes, WireTypes, Conns
<1>20. ASSUME NEW c \in Conns, SrvAuthOk(c) PROVE Goal
  BY <1>0, <1>20, RejoinSeats DEF SrvAuthOk, SrvAuth, cli
<1>21. ASSUME NEW c \in Conns, SrvAuthUnstored(c) PROVE Goal
  BY <1>0, <1>21, RejoinSeats DEF SrvAuthUnstored, SrvAuth, cli
<1>22. ASSUME NEW c \in Conns, SrvExpired(c) PROVE Goal
    BY <1>0, <1>22, SMT DEF SrvExpired, Incoming, Fault, Refuse, Reply, Stop, cli, send,
       tab, room, ConnInv, SeatInv, LinkTypes, LoopTypes, TaskTypes, WireTypes, Conns
<1>23. ASSUME NEW c \in Conns, SrvResumeCheck(c) PROVE Goal
  <2>1. /\ UNCHANGED <<cli, room>>
        /\ srv' = [srv EXCEPT ![c] = "Resuming"] \/ srv' = [srv EXCEPT ![c] = "Closed"]
      BY <1>23 DEF SrvResumeCheck, Refuse, Stop
  <2>2. conn # 0 => conn \in Conns  BY <1>0, ConnTyped DEF LinkTypes
  <2> QED  BY <1>0, <2>1, <2>2, SMT DEF cli, room, SeatInv, LinkTypes, TaskTypes
<1>24. ASSUME NEW c \in Conns, SrvResumeCommit(c) PROVE Goal
  BY <1>0, <1>24, RejoinSeats DEF SrvResumeCommit, cli
<1>25. ASSUME NEW c \in Conns, SrvResumeFails(c) PROVE Goal
    BY <1>0, <1>25, SMT DEF SrvResumeFails, Fault, Stop, cli, send, room, ConnInv,
       SeatInv, LinkTypes, LoopTypes, TaskTypes, WireTypes, Conns
<1>26. ASSUME NEW c \in Conns, SrvUpgrade(c) PROVE Goal
  <2>1. /\ srv[c] = "Rejoined" /\ srv' = [srv EXCEPT ![c] = "Authenticated"] /\ slot' = c
        /\ ~raced' => ~raced /\ ~NewerLive(c)
        /\ conn' = conn /\ seat' = seat
      BY <1>26 DEF SrvUpgrade, cli
  <2>2. c <= opened  BY <1>0, <2>1, SMT DEF ConnInv, Conns, LinkTypes, LoopTypes
  <2>3. conn # 0 => conn \in Conns /\ conn = opened  BY <1>0, ConnTyped DEF ConnInv, LinkTypes
  <2>4. ~raced' /\ conn # 0 /\ srv'[conn] \in {"Rejoined", "Authenticated"} => conn = c
      BY <1>0, <2>1, <2>2, <2>3, SMT DEF NewerLive, LinkTypes, TaskTypes, Conns
  <2>5. ~raced' /\ conn # 0 /\ srv'[conn] \in {"Rejoined", "Authenticated"} =>
            seat = "here" /\ \A d \in Conns : srv[d] # "Lost"
      BY <1>0, <2>1, <2>3, <2>4, SMT DEF SeatInv
  <2> QED  BY <1>0, <2>1, <2>4, <2>5, SMT DEF SeatInv, LinkTypes, TaskTypes
<1>27. ASSUME NEW c \in Conns, SrvMessage(c) PROVE Goal
  <2>1. /\ UNCHANGED <<cli, room>>
        /\ srv' = srv \/ srv' = [srv EXCEPT ![c] = "Ending"]
      BY <1>27 DEF SrvMessage, Stop
  <2>2. conn # 0 => conn \in Conns  BY <1>0, ConnTyped DEF LinkTypes
  <2> QED  BY <1>0, <2>1, <2>2, SMT DEF cli, room, SeatInv, LinkTypes, TaskTypes
<1>28. ASSUME NEW c \in Conns, SrvNotices(c) PROVE Goal
    BY <1>0, <1>28, SMT DEF SrvNotices, Break, Stop, cli, send, tab, room, ConnInv,
       SeatInv, LinkTypes, LoopTypes, TaskTypes, WireTypes, Conns
<1>29. ASSUME NEW c \in Conns, SrvCloses(c) PROVE Goal
    BY <1>0, <1>29, SMT DEF SrvCloses, Fault, Break, Stop, cli, send, tab, room,
       ConnInv, SeatInv, LinkTypes, LoopTypes, TaskTypes, WireTypes, Conns
<1>30. ASSUME NEW c \in Conns, SrvUnregister(c) PROVE Goal
  <2>1. /\ srv[c] = "Ending" /\ conn' = conn /\ seat' = seat
        /\ srv' = [srv EXCEPT ![c] = IF slot = c THEN "Lost" ELSE "Closed"]
        /\ slot' = IF slot = c THEN 0 ELSE slot
        /\ ~raced' => ~raced /\ ~(slot = c /\ NewerLive(c))
      BY <1>30 DEF SrvUnregister, StillCurrent, cli
  <2>2. c <= opened  BY <1>0, <2>1, SMT DEF ConnInv, Conns, LinkTypes, LoopTypes
  <2>3. conn # 0 => conn \in Conns /\ conn = opened  BY <1>0, ConnTyped DEF ConnInv, LinkTypes
  <2>4. ~raced' /\ conn # 0 /\ srv'[conn] \in {"Rejoined", "Authenticated"} =>
            /\ srv[conn] \in {"Rejoined", "Authenticated"} /\ srv'[conn] = srv[conn] /\ slot # c
      BY <1>0, <2>1, <2>2, <2>3, SMT DEF NewerLive, LinkTypes, TaskTypes, Conns
  <2> QED  BY <1>0, <2>1, <2>4, SMT DEF SeatInv, LinkTypes, TaskTypes
<1>31. ASSUME NEW c \in Conns, SrvLost(c) PROVE Goal
    BY <1>0, <1>31, SMT DEF SrvLost, cli, send, wire, tab, ConnInv, SeatInv, LinkTypes,
       LoopTypes, TaskTypes, WireTypes, Conns
<1>32. CASE UNCHANGED linkVars
    BY <1>0, <1>32, SMT DEF linkVars, cli, send, task, wire, tab, room, ConnInv,
       SeatInv, LinkTypes, LoopTypes, TaskTypes, WireTypes, Conns
<1> QED  BY <1>0, <1>1, <1>2, <1>3, <1>4, <1>5, <1>6, <1>7, <1>8, <1>9, <1>10, <1>11,
       <1>12, <1>13, <1>14, <1>15, <1>16, <1>17, <1>18, <1>19, <1>20, <1>21, <1>22,
       <1>23, <1>24, <1>25, <1>26, <1>27, <1>28, <1>29, <1>30, <1>31, <1>32,
       SMT DEF LinkNext

-----------------------------------------------------------------------------
(* The queue and the pieces in it                                          *)

\* The piece an assembler holds once it was given the first n frames of s.
After(last, s, n) ==
    IF \/ \E j \in 1 .. n : s[j].p = 1 /\ \A k \in j + 1 .. n : s[k].p = 0
       \/ last = 1 /\ \A k \in 1 .. n : s[k].p = 0
    THEN 1 ELSE 0

\* The same for one more piece.
Step(last, p) == IF p = 0 THEN last ELSE IF p = 1 THEN 1 ELSE 0

\* No second piece comes without the first one before it.
InOrder(last, s) == \A i \in 1 .. Len(s) : s[i].p = 2 => After(last, s, i - 1) = 1

\* Order over the empty sequence, one more element and one fewer.
LEMMA EmptyOrder ==
    \A last \in 0 .. 1 : After(last, <<>>, 0) = last /\ InOrder(last, <<>>)
BY SMT DEF After, InOrder

LEMMA AfterBit == ASSUME NEW last, NEW s, NEW n PROVE After(last, s, n) \in 0 .. 1
BY SMT DEF After

LEMMA AppendOrder ==
    ASSUME NEW S, \A x \in S : x.p \in 0 .. 2, NEW last \in 0 .. 1, NEW s \in Seq(S), NEW e \in S
    PROVE  /\ After(last, Append(s, e), Len(Append(s, e))) = Step(After(last, s, Len(s)), e.p)
           /\ InOrder(last, s) /\ (e.p = 2 => After(last, s, Len(s)) = 1)
                 => InOrder(last, Append(s, e))
<1> DEFINE t == Append(s, e)
           n == Len(s)
<1>1. n \in Nat /\ Len(t) = n + 1 /\ t[n + 1] = e /\ \A i \in 1 .. n : t[i] = s[i]
    BY SMT
<1>0. e.p \in 0 .. 2  OBVIOUS
<1> HIDE DEF t, n
<1>2. ASSUME NEW m \in 0 .. n PROVE After(last, t, m) = After(last, s, m)
    BY <1>1, SMT DEF After
<1>3. After(last, t, n + 1) = Step(After(last, s, n), e.p)
  <2>1. CASE e.p = 1
    <3>1. t[n + 1].p = 1 /\ \A k \in n + 2 .. n + 1 : t[k].p = 0  BY <1>1, <2>1, SMT
    <3> QED  BY <1>1, <2>1, <3>1, SMT DEF After, Step
  <2>2. CASE e.p = 2
    <3>1. \A j \in 1 .. n + 1 : ~(t[j].p = 1 /\ \A k \in j + 1 .. n + 1 : t[k].p = 0)
        BY <1>1, <2>2, SMT
    <3>2. ~ \A k \in 1 .. n + 1 : t[k].p = 0  BY <1>1, <2>2, SMT
    <3> QED  BY <2>2, <3>1, <3>2, SMT DEF After, Step
  <2>3. CASE e.p = 0
    <3>1. (\E j \in 1 .. n + 1 : t[j].p = 1 /\ \A k \in j + 1 .. n + 1 : t[k].p = 0)
             <=> (\E j \in 1 .. n : s[j].p = 1 /\ \A k \in j + 1 .. n : s[k].p = 0)
      <4>1. ASSUME NEW j \in 1 .. n + 1, t[j].p = 1, \A k \in j + 1 .. n + 1 : t[k].p = 0
            PROVE  j \in 1 .. n /\ s[j].p = 1 /\ \A k \in j + 1 .. n : s[k].p = 0
        <5>1. j \in 1 .. n /\ s[j].p = 1  BY <1>1, <2>3, <4>1, SMT
        <5>2. ASSUME NEW k \in j + 1 .. n PROVE s[k].p = 0
            <6>1. k \in j + 1 .. n + 1 /\ k \in 1 .. n  BY <1>1, <5>1, SMT
            <6> QED  BY <1>1, <4>1, <6>1
        <5> QED  BY <5>1, <5>2
      <4>2. ASSUME NEW j \in 1 .. n, s[j].p = 1, \A k \in j + 1 .. n : s[k].p = 0
            PROVE  j \in 1 .. n + 1 /\ t[j].p = 1 /\ \A k \in j + 1 .. n + 1 : t[k].p = 0
        <5>1. j \in 1 .. n + 1 /\ t[j].p = 1  BY <1>1, <4>2, SMT
        <5>2. ASSUME NEW k \in j + 1 .. n + 1 PROVE t[k].p = 0
            <6>1. k = n + 1 \/ (k \in j + 1 .. n /\ k \in 1 .. n)  BY <1>1, SMT
            <6> QED  BY <1>1, <2>3, <4>2, <6>1
        <5> QED  BY <5>1, <5>2
      <4> QED  BY <4>1, <4>2
    <3>2. (\A k \in 1 .. n + 1 : t[k].p = 0) <=> (\A k \in 1 .. n : s[k].p = 0)
        BY <1>1, <2>3, SMT
    <3> QED  BY <2>3, <3>1, <3>2, SMT DEF After, Step
  <2> QED  BY <1>0, <2>1, <2>2, <2>3, SMT
<1>4. ASSUME InOrder(last, s), e.p = 2 => After(last, s, n) = 1
      PROVE  InOrder(last, t)
  <2> SUFFICES ASSUME NEW i \in 1 .. n + 1, t[i].p = 2 PROVE After(last, t, i - 1) = 1
      BY <1>1, SMT DEF InOrder
  <2>1. i - 1 \in 0 .. n /\ After(last, t, i - 1) = After(last, s, i - 1)  BY <1>1, <1>2, SMT
  <2> QED  BY <1>1, <1>4, <2>1, SMT DEF InOrder, n
<1> QED  BY <1>1, <1>3, <1>4 DEF t, n

LEMMA TailOrder ==
    ASSUME NEW S, \A x \in S : x.p \in 0 .. 2, NEW last \in 0 .. 1, NEW s \in Seq(S), s # <<>>
    PROVE  /\ After(Step(last, Head(s).p), Tail(s), Len(Tail(s))) = After(last, s, Len(s))
           /\ InOrder(last, s) => /\ Head(s).p = 2 => last = 1
                                  /\ InOrder(Step(last, Head(s).p), Tail(s))
<1> DEFINE t == Tail(s)
           n == Len(s)
           h == Head(s).p
           l == Step(last, h)
<1>1. /\ n \in Nat /\ n >= 1 /\ Len(t) = n - 1 /\ h = s[1].p
      /\ \A i \in 1 .. n - 1 : t[i] = s[i + 1]
    BY SMT
<1>0. h \in 0 .. 2 /\ l \in 0 .. 1  BY SMT DEF Step
<1> HIDE DEF t, n, h
<1>2. ASSUME NEW m \in 0 .. n - 1 PROVE After(l, t, m) = After(last, s, m + 1)
  <2>1. (\E j \in 1 .. m : t[j].p = 1 /\ \A k \in j + 1 .. m : t[k].p = 0)
           <=> (\E j \in 2 .. m + 1 : s[j].p = 1 /\ \A k \in j + 1 .. m + 1 : s[k].p = 0)
    <3>1. ASSUME NEW j \in 1 .. m, t[j].p = 1, \A k \in j + 1 .. m : t[k].p = 0
          PROVE  j + 1 \in 2 .. m + 1 /\ s[j + 1].p = 1 /\ \A k \in j + 2 .. m + 1 : s[k].p = 0
      <4>1. ASSUME NEW k \in j + 2 .. m + 1 PROVE s[k].p = 0
          <5>1. k - 1 \in j + 1 .. m /\ k - 1 \in 1 .. n - 1 /\ (k - 1) + 1 = k  BY <1>1, SMT
          <5> QED  BY <1>1, <3>1, <5>1
      <4> QED  BY <1>1, <3>1, <4>1, SMT
    <3>2. ASSUME NEW j \in 2 .. m + 1, s[j].p = 1, \A k \in j + 1 .. m + 1 : s[k].p = 0
          PROVE  j - 1 \in 1 .. m /\ t[j - 1].p = 1 /\ \A k \in (j - 1) + 1 .. m : t[k].p = 0
      <4>1. j - 1 \in 1 .. m /\ j - 1 \in 1 .. n - 1 /\ (j - 1) + 1 = j  BY <1>1, SMT
      <4>2. ASSUME NEW k \in (j - 1) + 1 .. m PROVE t[k].p = 0
          <5>1. k \in 1 .. n - 1 /\ k + 1 \in j + 1 .. m + 1  BY <1>1, SMT
          <5> QED  BY <1>1, <3>2, <5>1
      <4> QED  BY <1>1, <3>2, <4>1, <4>2
    <3>3. ASSUME NEW j \in 1 .. m PROVE (j + 1) + 1 = j + 2  BY SMT
    <3> QED  BY <3>1, <3>2, <3>3
  <2>2. (\A k \in 1 .. m : t[k].p = 0) <=> (\A k \in 2 .. m + 1 : s[k].p = 0)
    <3>1. ASSUME \A k \in 1 .. m : t[k].p = 0, NEW k \in 2 .. m + 1 PROVE s[k].p = 0
        <4>1. k - 1 \in 1 .. m /\ k - 1 \in 1 .. n - 1 /\ (k - 1) + 1 = k  BY <1>1, SMT
        <4> QED  BY <1>1, <3>1, <4>1
    <3>2. ASSUME \A k \in 2 .. m + 1 : s[k].p = 0, NEW k \in 1 .. m PROVE t[k].p = 0
        <4>1. k + 1 \in 2 .. m + 1 /\ k \in 1 .. n - 1  BY <1>1, SMT
        <4> QED  BY <1>1, <3>2, <4>1
    <3> QED  BY <3>1, <3>2
  <2>3. (\E j \in 1 .. m + 1 : s[j].p = 1 /\ \A k \in j + 1 .. m + 1 : s[k].p = 0)
           <=> \/ \E j \in 2 .. m + 1 : s[j].p = 1 /\ \A k \in j + 1 .. m + 1 : s[k].p = 0
               \/ h = 1 /\ \A k \in 2 .. m + 1 : s[k].p = 0
      BY <1>1, SMT
  <2>4. (\A k \in 1 .. m + 1 : s[k].p = 0) <=> h = 0 /\ \A k \in 2 .. m + 1 : s[k].p = 0
      BY <1>1, SMT
  <2>5. l = 1 <=> h = 1 \/ (h = 0 /\ last = 1)  BY <1>0, SMT DEF Step
  <2> QED  BY <2>1, <2>2, <2>3, <2>4, <2>5, Zenon DEF After
<1>3. After(l, t, Len(t)) = After(last, s, n)
  <2>1. n - 1 \in 0 .. n - 1 /\ (n - 1) + 1 = n  BY <1>1, SMT
  <2> QED  BY <1>1, <1>2, <2>1
<1>4. ASSUME InOrder(last, s) PROVE (h = 2 => last = 1) /\ InOrder(l, t)
  <2>0. 1 \in 1 .. Len(s) /\ 1 - 1 = 0  BY <1>1, SMT DEF n
  <2>1. h = 2 => After(last, s, 0) = 1  BY <1>1, <1>4, <2>0 DEF InOrder
  <2>2. After(last, s, 0) = 1 => last = 1  BY SMT DEF After
  <2>3. ASSUME NEW i \in 1 .. Len(t), t[i].p = 2 PROVE After(l, t, i - 1) = 1
    <3>1. i \in 1 .. n - 1 /\ i + 1 \in 1 .. n /\ i - 1 \in 0 .. n - 1 /\ (i - 1) + 1 = i /\ (i + 1) - 1 = i
        BY <1>1, SMT
    <3>2. After(last, s, (i + 1) - 1) = 1  BY <1>1, <1>4, <2>3, <3>1 DEF InOrder, n
    <3> QED  BY <1>2, <3>1, <3>2
  <2> QED  BY <2>1, <2>2, <2>3 DEF InOrder
<1> QED  BY <1>1, <1>3, <1>4 DEF t, n, h

-----------------------------------------------------------------------------
(* Where a piece may be                                                    *)

\* The piece connection c's assembler will hold when all frames on their way
\* to it are read, and the queued ones too.
Read(c)   == After(got[c], inb[c], Len(inb[c]))

\* Whether a first piece will be waiting once all the queue has been sent.
Queued(c) == After(Read(c), queue, Len(queue))

\* The queue is of the session: emptied on the way to it, filled under it.
QueueInv ==
    /\ pc \in {"dial", "hello", "auth"} => queue = <<>> /\ taken = NoFrame
    /\ pc \in {"idle", "over"} =>
          /\ \A i \in 1 .. Len(queue) : queue[i].b = bearer
          /\ taken # NoFrame => taken.b = bearer

\* Each wire goes on from what the server assembled of it so far.
WireInv == \A c \in Conns : got[c] \in 0 .. 1 /\ InOrder(got[c], inb[c])

\* What is queued goes on from what is on the wire, and what the writer and a
\* paced sender hold from what is queued.
StreamInv ==
    /\ paced # NoFrame => paced.p \in 1 .. 2
    /\ pc = "idle" /\ srv[conn] = "Authenticated" =>
          /\ InOrder(Read(conn), queue)
          /\ taken.p = 2 => Queued(conn) = 1
          /\ paced.p = 2 /\ paced.b = bearer => Step(Queued(conn), taken.p) = 1

\* Pieces stay in order until a timed-out sender has overtaken another.
OrderInv == ~overtaken => QueueInv /\ WireInv /\ StreamInv

\* A message has at most two pieces and nothing else has one.
LEMMA Piecewise ==
    /\ \A x \in Frames : x.p \in 0 .. 2
    /\ \A x \in WireFrames : x.p \in 0 .. 2 /\ (x.k # "MSG" => x.p = 0)
BY SMT DEF Frames, WireFrames, Pieces

\* The assembler of the server does what Step says as long as pieces come in
\* order.
LEMMA AssembledSteps ==
    ASSUME NEW last \in 0 .. 1, NEW p \in 0 .. 2, p = 2 => last = 1
    PROVE  Assembled(last, p) = Step(last, p)
BY SMT DEF Assembled, Step, Pieces

\* Step keeps to 0 and 1.
LEMMA StepBit == \A last \in 0 .. 1 : \A p : Step(last, p) \in 0 .. 1
BY SMT DEF Step

\* A frame that is no piece is put on or taken off c's wire.
LEMMA PlainSent ==
    ASSUME WireTypes, WireInv, NEW c \in Conns, NEW f \in WireFrames, f.p = 0,
           inb' = [inb EXCEPT ![c] = Append(@, f)], got' = got
    PROVE  WireInv'
<1>1. inb[c] \in Seq(WireFrames) /\ got[c] \in 0 .. 1 /\ InOrder(got[c], inb[c])  BY DEF WireTypes, WireInv
<1>2. InOrder(got[c], Append(inb[c], f))  BY <1>1, Piecewise, AppendOrder
<1> QED  BY <1>2, SMT DEF WireTypes, WireInv

\* The same on the way out.
LEMMA PlainConsumed ==
    ASSUME WireTypes, WireInv, NEW c \in Conns, inb[c] # <<>>, Head(inb[c]).k # "MSG", Consume(c)
    PROVE  got[c] \in 0 .. 1 /\ InOrder(got[c], inb'[c])
<1>1. inb[c] \in Seq(WireFrames) /\ got[c] \in 0 .. 1 /\ InOrder(got[c], inb[c])  BY DEF WireTypes, WireInv
<1>2. Head(inb[c]) \in WireFrames  BY <1>1, SeqTyped
<1>3. Step(got[c], Head(inb[c]).p) = got[c]  BY <1>2, Piecewise DEF Step
<1>4. InOrder(got[c], Tail(inb[c]))  BY <1>1, <1>3, Piecewise, TailOrder
<1> QED  BY <1>1, <1>4, SMT DEF WireTypes, Consume

\* A task that is not serving the client's session now leaves the order alone.
LEMMA TaskQuiet ==
    ASSUME TaskTypes, WireTypes, ConnInv, LoopTypes, NEW c \in Conns, UNCHANGED <<cli, send, overtaken>>,
           \A d \in Conns \ {c} : inb'[d] = inb[d] /\ got'[d] = got[d] /\ srv'[d] = srv[d],
           ~overtaken => got'[c] \in 0 .. 1 /\ InOrder(got'[c], inb'[c]),
           c = conn /\ pc = "idle" => srv'[c] # "Authenticated",
           OrderInv
    PROVE  OrderInv'
<1> SUFFICES ASSUME ~overtaken PROVE QueueInv' /\ WireInv' /\ StreamInv'
    BY DEF OrderInv
<1>1. QueueInv'  BY DEF OrderInv, QueueInv, cli, send
<1>2. WireInv'  BY Zenon DEF OrderInv, WireInv
<1>3. conn # 0 => conn \in Conns  BY ConnTyped
<1>4. pc = "idle" => conn # 0  BY DEF ConnInv
<1>5. StreamInv'
  <2>1. pc = "idle" /\ srv'[conn] = "Authenticated" =>
            /\ conn # c /\ conn \in Conns
            /\ srv'[conn] = srv[conn] /\ inb'[conn] = inb[conn] /\ got'[conn] = got[conn]
      BY <1>3, <1>4
  <2>2. ASSUME pc = "idle", srv'[conn] = "Authenticated"
        PROVE  /\ pc = "idle" /\ srv[conn] = "Authenticated"
               /\ Read(conn)' = Read(conn) /\ Queued(conn)' = Queued(conn)
      BY <2>1, <2>2 DEF Read, Queued, cli, send
  <2> QED  BY <2>2, SMT DEF OrderInv, StreamInv, cli, send
<1> QED  BY <1>1, <1>2, <1>5

\* The loop away from a session: only the queue is to be looked at.
LEMMA LoopQuiet ==
    ASSUME OrderInv, ~overtaken' => ~overtaken, pc' # "idle", paced' = paced,
           WireInv => WireInv', OrderInv => QueueInv' \/ overtaken'
    PROVE  OrderInv'
BY DEF OrderInv, StreamInv

-----------------------------------------------------------------------------
\* The steps of the client loop outside an authenticated session.
LEMMA LoopOrder ==
    ASSUME LinkTypes, ConnInv, OrderInv,
           \/ Reconnect \/ Drain \/ DialFails \/ RecvAuthFail \/ HandshakeEnds \/ HandshakeDrops
           \/ IdleEnds \/ NetworkDrops \/ Restart
    PROVE  OrderInv'
<1>0. ConnInv /\ OrderInv  OBVIOUS
<1>1. \/ Reconnect \/ Drain \/ DialFails \/ RecvAuthFail \/ HandshakeEnds \/ HandshakeDrops
      \/ IdleEnds \/ NetworkDrops \/ Restart
    OBVIOUS
<1>2. OrderInv'
  <2>1. CASE Reconnect
    BY <1>0, <2>1, LoopQuiet, SMT DEF Reconnect, send, task, wire, tab, room, OrderInv, QueueInv, WireInv, ConnInv
  <2>2. CASE Drain
    <3>1. /\ ~overtaken' => ~overtaken /\ taken = NoFrame
          /\ pc' = "dial" /\ queue' = <<>> /\ taken' = taken /\ paced' = paced /\ UNCHANGED <<inb, got>>
        BY <2>2 DEF Drain, wire, task
    <3>2. WireInv => WireInv'  BY <3>1 DEF WireInv
    <3>3. QueueInv' \/ overtaken'  BY <3>1 DEF QueueInv
    <3> QED  BY <1>0, <3>1, <3>2, <3>3, LoopQuiet
  <2>3. CASE DialFails
    BY <1>0, <2>3, LoopQuiet, SMT DEF DialFails, RecordFailure, send, task, wire, tab, room, OrderInv, QueueInv, WireInv, ConnInv
  <2>4. CASE RecvAuthFail
    BY <1>0, <2>4, LoopQuiet, SMT DEF RecvAuthFail, Abandon, ForgetRefused, RecordFailure, send, task, tab, room, OrderInv, QueueInv, WireInv, ConnInv
  <2>5. CASE HandshakeEnds
    BY <1>0, <2>5, LoopQuiet, SMT DEF HandshakeEnds, Abandon, RecordFailure, send, task, tab, room, OrderInv, QueueInv, WireInv, ConnInv
  <2>6. CASE HandshakeDrops
    BY <1>0, <2>6, LoopQuiet, SMT DEF HandshakeDrops, Abandon, RecordFailure, send, task, tab, room, OrderInv, QueueInv, WireInv, ConnInv
  <2>7. CASE IdleEnds
    BY <1>0, <2>7, LoopQuiet, SMT DEF IdleEnds, Abandon, send, task, tab, room, OrderInv, QueueInv, WireInv, ConnInv
  <2>8. CASE NetworkDrops
    BY <1>0, <2>8, LoopQuiet, SMT DEF NetworkDrops, Abandon, send, task, tab, room, OrderInv, QueueInv, WireInv, ConnInv
  <2>9. CASE Restart
    BY <1>0, <2>9, LoopQuiet, SMT DEF Restart, Abandon, NoFrame, task, tab, room, OrderInv, QueueInv, WireInv, ConnInv
  <2> QED  BY <1>1, <2>1, <2>2, <2>3, <2>4, <2>5, <2>6, <2>7, <2>8, <2>9
<1> QED  BY <1>2

\* The steps of the loop that enter, serve and leave a session.
LEMMA SessionOrder ==
    ASSUME LinkTypes, ConnInv, OrderInv, Open \/ RecvChallenge \/ RecvAuthOk \/ WriteQueued
    PROVE  OrderInv'
<1>0. LinkTypes /\ ConnInv /\ OrderInv /\ (conn # 0 => conn \in Conns)
    BY ConnTyped DEF LinkTypes
<1> SUFFICES ASSUME ~overtaken, QueueInv, WireInv, StreamInv PROVE OrderInv'
    BY DEF OrderInv, Open, RecvChallenge, RecvAuthOk, WriteQueued
<1>1. CASE Open
  <2>1. /\ opened + 1 \in Conns /\ conn' = opened + 1 /\ rtok \in 0 .. MaxConns
      BY <1>0, <1>1, LinkAssumption, SMT DEF LinkAssumption, LinkTypes, LoopTypes, Open, Conns
  <2> DEFINE f == [k |-> "HELLO", b |-> rtok, p |-> 0]
  <2>2. InOrder(got[opened + 1], <<f>>)  BY SMT DEF InOrder
  <2>3. got' = got /\ inb' = [inb EXCEPT ![opened + 1] = <<f>>]  BY <1>1, <2>1 DEF Open
  <2> HIDE DEF f
  <2>4. WireInv'  BY <1>0, <2>1, <2>2, <2>3, SMT DEF WireInv, LinkTypes, WireTypes
  <2>5. pc = "dial" /\ pc' = "hello" /\ queue' = queue /\ taken' = taken /\ paced' = paced
      BY <1>1 DEF Open, send
  <2>6. QueueInv'  BY <2>5 DEF QueueInv
  <2> QED  BY <2>4, <2>5, <2>6 DEF OrderInv, StreamInv
<1>2. CASE RecvChallenge
  <2>1. /\ conn \in Conns /\ pc = "hello" /\ pc' = "auth" /\ UNCHANGED <<conn, got, send>>
        /\ bearer \in 0 .. MaxConns
      BY <1>0, <1>2, ReceivedTyped DEF RecvChallenge, task, LinkTypes, LoopTypes
  <2>2. PICK f \in WireFrames : f.p = 0 /\ inb' = [inb EXCEPT ![conn] = Append(@, f)]
    <3>1. PICK k \in {"AUTH_RESUME", "AUTH"} :
              inb' = [inb EXCEPT ![conn] = Append(@, [k |-> k, b |-> bearer, p |-> 0])]
        BY <1>2 DEF RecvChallenge
    <3> QED  BY <2>1, <3>1, FrameTyped
  <2>3. WireInv'  BY <1>0, <2>1, <2>2, PlainSent DEF LinkTypes
  <2>4. QueueInv' /\ StreamInv'  BY <2>1 DEF QueueInv, StreamInv, send
  <2> QED  BY <2>3, <2>4 DEF OrderInv
<1>3. CASE RecvAuthOk
  <2>1. /\ conn \in Conns /\ pc = "auth" /\ pc' = "idle" /\ conn' = conn /\ bearer' = conn
        /\ UNCHANGED <<inb, send, srv, got>> /\ queue = <<>> /\ taken = NoFrame /\ paced.b # conn
      BY <1>0, <1>3, ReceivedTyped DEF RecvAuthOk, task, LinkTypes, QueueInv, ConnInv
  <2>2. WireInv'  BY <2>1 DEF WireInv
  <2>3. QueueInv'  BY <2>1, SMT DEF QueueInv, send
  <2>4. InOrder(Read(conn), queue)  BY <2>1, AfterBit, EmptyOrder DEF Read
  <2>5. Read(conn)' = Read(conn) /\ taken.p # 2 /\ taken' = taken /\ queue' = queue /\ paced' = paced
      BY <2>1 DEF Read, send, NoFrame
  <2>6. StreamInv'  BY <2>1, <2>4, <2>5 DEF StreamInv
  <2> QED  BY <2>2, <2>3, <2>6 DEF OrderInv
<1>4. CASE WriteQueued
  <2> DEFINE e == Head(queue)
             f == [k |-> "MSG", b |-> e.b, p |-> e.p]
  <2>1. /\ pc = "idle" /\ queue # <<>> /\ queue' = Tail(queue)
        /\ UNCHANGED <<cli, taken, paced, got, srv>> /\ conn \in Conns
        /\ srv[conn] = "Authenticated" => inb' = [inb EXCEPT ![conn] = Append(@, f)]
        /\ srv[conn] # "Authenticated" => \A d \in Conns : inb'[d] = inb[d]
    <3>1. /\ pc = "idle" /\ queue # <<>> /\ queue' = Tail(queue)
          /\ UNCHANGED <<cli, taken, paced, got, srv>> /\ conn \in Conns
        BY <1>0, <1>4 DEF WriteQueued, task, ConnInv
    <3>2. srv[conn] = "Authenticated" => inb' = [inb EXCEPT ![conn] = Append(@, f)]
        BY <1>4 DEF WriteQueued
    <3>3. srv[conn] # "Authenticated" => inb' = [inb EXCEPT ![conn] = @]
        BY <1>4 DEF WriteQueued
    <3>4. srv[conn] # "Authenticated" => \A d \in Conns : inb'[d] = inb[d]
        BY <1>0, <3>1, <3>3, SMT DEF LinkTypes, WireTypes
    <3> QED  BY <3>1, <3>2, <3>4
  <2>2. queue \in Seq(Frames) /\ e \in Frames /\ f \in WireFrames /\ f.p = e.p
    <3>1. queue \in Seq(Frames) /\ e \in Frames  BY <1>0, <2>1, SeqTyped DEF LinkTypes, SendTypes
    <3> QED  BY <3>1, SMT DEF Frames, WireFrames
  <2> HIDE DEF e, f
  <2>3. QueueInv'
    <3>1. \A i \in 1 .. Len(queue') : i + 1 \in 1 .. Len(queue) /\ queue'[i] = queue[i + 1]
        BY <2>1, <2>2, SMT
    <3>2. \A i \in 1 .. Len(queue) : queue[i].b = bearer  BY <2>1 DEF QueueInv
    <3> QED  BY <2>1, <3>1, <3>2 DEF QueueInv, cli
  <2>4. CASE srv[conn] # "Authenticated"
    <3>1. WireInv'  BY <2>1, <2>4 DEF WireInv
    <3> QED  BY <2>1, <2>3, <2>4, <3>1 DEF OrderInv, StreamInv, cli
  <2>5. CASE srv[conn] = "Authenticated"
    <3> DEFINE last == got[conn]
               now == Read(conn)
    <3>1. /\ last \in 0 .. 1 /\ InOrder(last, inb[conn]) /\ inb[conn] \in Seq(WireFrames)
          /\ InOrder(now, queue) /\ now \in 0 .. 1
        BY <1>0, <2>1, <2>5, AfterBit DEF WireInv, StreamInv, LinkTypes, WireTypes, Read
    <3>2. /\ e.p = 2 => now = 1
          /\ InOrder(Step(now, e.p), Tail(queue))
          /\ After(Step(now, e.p), Tail(queue), Len(Tail(queue))) = After(now, queue, Len(queue))
        BY <2>1, <2>2, <3>1, Piecewise, TailOrder DEF e
    <3>3. /\ After(last, Append(inb[conn], f), Len(Append(inb[conn], f))) = Step(now, e.p)
          /\ InOrder(last, Append(inb[conn], f))
        BY <2>2, <3>1, <3>2, Piecewise, AppendOrder DEF Read
    <3>4. inb'[conn] = Append(inb[conn], f) /\ \A d \in Conns : d # conn => inb'[d] = inb[d]
        BY <1>0, <2>1, <2>5, SMT DEF LinkTypes, WireTypes
    <3>5. WireInv'  BY <2>1, <3>3, <3>4, Zenon DEF WireInv
    <3>6. Read(conn)' = Step(now, e.p)  BY <2>1, <3>3, <3>4 DEF Read, cli
    <3>7. Queued(conn)' = Queued(conn)  BY <2>1, <3>2, <3>6 DEF Queued
    <3>8. StreamInv'
        BY <2>1, <2>5, <3>2, <3>6, <3>7, SMT DEF StreamInv, cli
    <3> QED  BY <2>3, <3>5, <3>8 DEF OrderInv
  <2> QED  BY <2>4, <2>5
<1> QED  BY <1>1, <1>2, <1>3, <1>4

\* The steps of the senders that put frames on the queue.
LEMMA SendersOrder ==
    ASSUME LinkTypes, ConnInv, OrderInv, Take \/ Put \/ StartPaced \/ NextPiece \/ Expire
    PROVE  OrderInv'
<1>0. LinkTypes /\ ConnInv /\ OrderInv  OBVIOUS
<1> SUFFICES ASSUME ~overtaken, QueueInv, WireInv, StreamInv PROVE OrderInv'
    BY DEF OrderInv, Take, Put, StartPaced, NextPiece, Expire
<1>1. UNCHANGED <<cli, srv, got, inb>>
    BY DEF Take, Put, StartPaced, NextPiece, Expire, task, wire
<1>2. WireInv' /\ Read(conn)' = Read(conn)  BY <1>1 DEF WireInv, Read, cli
<1>3. queue' = queue => Queued(conn)' = Queued(conn)  BY <1>1, <1>2 DEF Queued, cli
<1>4. Read(conn) \in 0 .. 1 /\ Queued(conn) \in 0 .. 1  BY AfterBit DEF Read, Queued
<1>5. queue \in Seq(Frames) /\ taken \in Frames /\ paced \in Frames  BY DEF LinkTypes, SendTypes
<1>6. phase = "Authenticated" => pc \in {"idle", "over"}  BY DEF ConnInv
<1>7. CASE Take
  <2>1. /\ taken = NoFrame /\ taken' = [b |-> bearer, p |-> 0] /\ UNCHANGED <<queue, paced>>
        /\ phase = "Authenticated"
      BY <1>7 DEF Take, CanSend
  <2>2. QueueInv'  BY <1>1, <1>6, <2>1, SMT DEF QueueInv, cli
  <2>3. taken.p = 0 /\ taken'.p = 0  BY <2>1 DEF NoFrame
  <2>4. StreamInv'  BY <1>1, <1>2, <1>3, <2>1, <2>3, SMT DEF StreamInv, cli
  <2> QED  BY <1>2, <2>2, <2>4 DEF OrderInv
<1>8. CASE Put
  <2>1. taken # NoFrame /\ queue' = Append(queue, taken) /\ taken' = NoFrame /\ paced' = paced
      BY <1>8 DEF Put
  <2>2. QueueInv'
    <3>1. \A i \in 1 .. Len(queue') : queue'[i] = taken \/ \E j \in 1 .. Len(queue) : queue'[i] = queue[j]
        BY <1>5, <2>1, SMT
    <3> QED  BY <1>1, <2>1, <3>1 DEF QueueInv, cli
  <2>3. pc = "idle" /\ srv[conn] = "Authenticated" =>
            /\ InOrder(Read(conn), queue')
            /\ After(Read(conn), queue', Len(queue')) = Step(Queued(conn), taken.p)
      BY <1>4, <1>5, <2>1, Piecewise, AppendOrder DEF StreamInv, Queued
  <2>4. pc = "idle" /\ srv[conn] = "Authenticated" =>
            /\ InOrder(Read(conn)', queue')
            /\ Queued(conn)' = Step(Queued(conn), taken.p)
      BY <1>2, <2>3 DEF Queued
  <2>5. taken'.p = 0  BY <2>1 DEF NoFrame
  <2>6. StreamInv'  BY <1>1, <2>1, <2>4, <2>5, SMT DEF StreamInv, Step, cli
  <2> QED  BY <1>2, <2>2, <2>6 DEF OrderInv
<1>9. CASE StartPaced
  <2>1. paced' = [b |-> bearer, p |-> 1] /\ UNCHANGED <<queue, taken>>  BY <1>9 DEF StartPaced
  <2>2. QueueInv'  BY <1>1, <2>1 DEF QueueInv, cli
  <2>3. paced'.p = 1  BY <2>1
  <2>4. StreamInv'  BY <1>1, <1>2, <1>3, <2>1, <2>3, SMT DEF StreamInv, cli
  <2> QED  BY <1>2, <2>2, <2>4 DEF OrderInv
<1>10. CASE NextPiece
  <2>1. paced # NoFrame /\ taken = NoFrame /\ queue' = queue /\ taken.p = 0 /\ paced.p \in 1 .. 2
      BY <1>10 DEF NextPiece, NoFrame, StreamInv
  <2>2. CASE CanSend /\ SameSession
    <3>1. /\ taken' = [b |-> bearer, p |-> paced.p] /\ phase = "Authenticated" /\ bearer = paced.b
          /\ paced.p = 2 => paced' = NoFrame
          /\ paced.p # 2 => paced' = [paced EXCEPT !.p = @ + 1]
        BY <1>10, <2>2 DEF NextPiece, CanSend, SameSession, Pieces
    <3>2. QueueInv'  BY <1>1, <1>6, <2>1, <3>1, SMT DEF QueueInv, cli
    <3>3. taken'.p = paced.p  BY <3>1
    <3>4. paced.p = 2 => paced' = NoFrame /\ paced'.p = 0  BY <3>1 DEF NoFrame
    <3>5. paced.p = 1 => paced'.p = 2  BY <1>5, <3>1, SMT DEF Frames
    <3>6. paced.p = 2 /\ pc = "idle" /\ srv[conn] = "Authenticated" => Queued(conn) = 1
        BY <2>1, <3>1 DEF StreamInv, Step
    <3>7. StreamInv'
        BY <1>1, <1>2, <1>3, <2>1, <3>3, <3>4, <3>5, <3>6, SMT DEF StreamInv, Step, cli
    <3> QED  BY <1>2, <3>2, <3>7 DEF OrderInv
  <2>3. CASE ~(CanSend /\ SameSession)
    <3>1. paced' = NoFrame /\ taken' = taken /\ paced'.p = 0
        BY <1>10, <2>3 DEF NextPiece, NoFrame
    <3>2. QueueInv'  BY <1>1, <2>1, <3>1 DEF QueueInv, cli
    <3>3. StreamInv'  BY <1>1, <1>2, <1>3, <2>1, <3>1, SMT DEF StreamInv, cli
    <3> QED  BY <1>2, <3>2, <3>3 DEF OrderInv
  <2> QED  BY <2>2, <2>3
<1>11. CASE Expire
  <2>1. send' = send  BY <1>11 DEF Expire
  <2> QED  BY <1>1, <1>2, <1>3, <2>1, SMT DEF OrderInv, QueueInv, StreamInv, cli, send
<1> QED  BY <1>7, <1>8, <1>9, <1>10, <1>11

\* The steps of the server's tasks other than taking a message.
LEMMA TasksOrder ==
    ASSUME LinkTypes, ConnInv, OrderInv, NEW c \in Conns,
           \/ SrvHello(c) \/ SrvAuthOk(c) \/ SrvAuthUnstored(c) \/ SrvExpired(c)
           \/ SrvResumeCheck(c) \/ SrvResumeCommit(c) \/ SrvResumeFails(c)
           \/ SrvUpgrade(c) \/ SrvNotices(c) \/ SrvCloses(c) \/ SrvUnregister(c) \/ SrvLost(c)
    PROVE  OrderInv'
<1>0. LoopTypes /\ TaskTypes /\ WireTypes /\ ConnInv /\ OrderInv /\ LinkTypes  BY DEF LinkTypes
<1>1. UNCHANGED <<cli, send, overtaken>>
    BY DEF SrvHello, SrvAuthOk, SrvAuthUnstored, SrvAuth, SrvExpired, SrvResumeCheck, SrvResumeCommit,
           SrvResumeFails, SrvUpgrade, SrvNotices, SrvCloses, Break, SrvUnregister, SrvLost
<1>2. c = conn /\ pc = "idle" => srv[c] \in Past  BY DEF ConnInv
\* What the task does to its own assembler and wire.
<1> DEFINE Own == ~overtaken => got'[c] \in 0 .. 1 /\ InOrder(got'[c], inb'[c])
           Others == \A d \in Conns \ {c} : inb'[d] = inb[d] /\ got'[d] = got[d] /\ srv'[d] = srv[d]
           Elsewhere == c = conn /\ pc = "idle" => srv'[c] # "Authenticated"
<1>3. ASSUME Own, Others, Elsewhere PROVE OrderInv'
    BY <1>0, <1>1, <1>3, TaskQuiet
<1>4. ASSUME NEW st, Stop(c, st), st # "Authenticated" PROVE Own /\ Others /\ Elsewhere
  <2>1. got'[c] = 0 /\ inb'[c] = <<>> /\ srv'[c] = st /\ Others
      BY <1>0, <1>4, SMT DEF Stop, TaskTypes, WireTypes
  <2> QED  BY <1>4, <2>1, EmptyOrder
<1>5. ASSUME Consume(c), inb[c] # <<>>, Head(inb[c]).k # "MSG", got' = got
      PROVE  Own /\ \A d \in Conns \ {c} : inb'[d] = inb[d]
  <2>1. Own  BY <1>0, <1>5, PlainConsumed, Zenon DEF OrderInv
  <2>2. \A d \in Conns \ {c} : inb'[d] = inb[d]  BY <1>0, <1>5, SMT DEF Consume, WireTypes
  <2> QED  BY <2>1, <2>2
<1>6. ASSUME inb' = inb, got' = got PROVE Own /\ \A d \in Conns \ {c} : inb'[d] = inb[d]
  BY <1>6 DEF OrderInv, WireInv
<1>7. ASSUME NEW st, srv' = [srv EXCEPT ![c] = st], st # "Authenticated" \/ srv[c] \notin Past
      PROVE  Elsewhere /\ \A d \in Conns \ {c} : srv'[d] = srv[d]
  BY <1>0, <1>2, <1>7, SMT DEF TaskTypes
<1> HIDE DEF Own, Elsewhere
<1>8. CASE SrvHello(c)
  BY <1>3, <1>5, <1>7, <1>8 DEF SrvHello, Incoming
<1>9. CASE SrvAuthOk(c) \/ SrvAuthUnstored(c)
  BY <1>3, <1>5, <1>7, <1>9 DEF SrvAuthOk, SrvAuthUnstored, SrvAuth, Incoming, Rejoin
<1>10. CASE SrvExpired(c)
  BY <1>3, <1>4, <1>10 DEF SrvExpired, Refuse
<1>11. CASE SrvResumeCheck(c)
  <2>1. CASE Resumable(c, Head(inb[c]).b)
    BY <1>3, <1>5, <1>7, <1>11, <2>1 DEF SrvResumeCheck, Incoming
  <2>2. CASE ~Resumable(c, Head(inb[c]).b)
    BY <1>3, <1>4, <1>11, <2>2 DEF SrvResumeCheck, Refuse
  <2> QED  BY <2>1, <2>2
<1>12. CASE SrvResumeCommit(c)
  BY <1>3, <1>6, <1>7, <1>12 DEF SrvResumeCommit, Rejoin, wire
<1>13. CASE SrvResumeFails(c)
  BY <1>3, <1>4, <1>13 DEF SrvResumeFails
<1>14. CASE SrvUpgrade(c)
  <2>1. srv[c] \notin Past  BY <1>14 DEF SrvUpgrade, Past
  <2> QED  BY <1>3, <1>6, <1>7, <1>14, <2>1 DEF SrvUpgrade
<1>15. CASE SrvNotices(c) \/ SrvCloses(c)
  BY <1>3, <1>4, <1>15 DEF SrvNotices, SrvCloses, Break
<1>16. CASE SrvUnregister(c)
  BY <1>3, <1>6, <1>7, <1>16 DEF SrvUnregister, wire
<1>17. CASE SrvLost(c)
  BY <1>3, <1>6, <1>7, <1>17 DEF SrvLost, wire
<1> QED  BY <1>8, <1>9, <1>10, <1>11, <1>12, <1>13, <1>14, <1>15, <1>16, <1>17

\* A message: the assembler takes the next piece, or the bearer is unknown and
\* the connection ends.
LEMMA MessageOrder ==
    ASSUME LinkTypes, ConnInv, OrderInv, NEW c \in Conns, SrvMessage(c)
    PROVE  OrderInv'
<1>0. LoopTypes /\ TaskTypes /\ WireTypes /\ ConnInv /\ OrderInv  BY DEF LinkTypes
<1>1. UNCHANGED <<cli, send, overtaken>> /\ inb[c] # <<>>  BY DEF SrvMessage, Incoming
<1>2. CASE Head(inb[c]).b \notin bearers
  <2>1. Stop(c, "Ending")  BY <1>2 DEF SrvMessage
  <2>2. /\ got'[c] = 0 /\ inb'[c] = <<>> /\ srv'[c] = "Ending"
        /\ \A d \in Conns \ {c} : inb'[d] = inb[d] /\ got'[d] = got[d] /\ srv'[d] = srv[d]
      BY <1>0, <2>1, SMT DEF Stop, TaskTypes, WireTypes
  <2> QED  BY <1>0, <1>1, <2>2, EmptyOrder, TaskQuiet
<1>3. CASE Head(inb[c]).b \in bearers
  <2> SUFFICES ASSUME ~overtaken, QueueInv, WireInv, StreamInv PROVE OrderInv'
      BY <1>1 DEF OrderInv
  <2> DEFINE h == Head(inb[c])
             last == got[c]
  <2>1. /\ got' = [got EXCEPT ![c] = Assembled(last, h.p)] /\ inb' = [inb EXCEPT ![c] = Tail(inb[c])]
        /\ srv' = srv
      BY <1>3 DEF SrvMessage, Consume
  <2>2. /\ inb[c] \in Seq(WireFrames) /\ last \in 0 .. 1 /\ InOrder(last, inb[c])
        /\ h \in WireFrames /\ h.p \in 0 .. 2
      BY <1>0, <1>1, SeqTyped, Piecewise DEF WireTypes, WireInv
  <2> HIDE DEF h, last
  <2>3. /\ h.p = 2 => last = 1
        /\ InOrder(Step(last, h.p), Tail(inb[c]))
        /\ After(Step(last, h.p), Tail(inb[c]), Len(Tail(inb[c]))) = After(last, inb[c], Len(inb[c]))
      BY <1>1, <2>2, Piecewise, TailOrder DEF h
  <2>4. Assembled(last, h.p) = Step(last, h.p)  BY <2>2, <2>3, AssembledSteps
  <2>5. Step(last, h.p) \in 0 .. 1  BY <2>2, StepBit
  <2>6. /\ got'[c] = Step(last, h.p) /\ inb'[c] = Tail(inb[c])
        /\ \A d \in Conns : d # c => got'[d] = got[d] /\ inb'[d] = inb[d]
      BY <1>0, <2>1, <2>4, SMT DEF TaskTypes, WireTypes
  <2>7. WireInv'  BY <2>3, <2>5, <2>6, Zenon DEF WireInv
  <2>8. \A d \in Conns : After(got'[d], inb'[d], Len(inb'[d])) = After(got[d], inb[d], Len(inb[d]))
      BY <2>3, <2>6 DEF last
  <2>9. pc = "idle" => Read(conn)' = Read(conn) /\ Queued(conn)' = Queued(conn)
    <3>1. pc = "idle" => conn \in Conns  BY <1>0, ConnTyped DEF ConnInv
    <3> QED  BY <1>1, <2>8, <3>1 DEF Read, Queued, cli, send
  <2>10. QueueInv' /\ StreamInv'
      BY <1>1, <2>1, <2>9, SMT DEF QueueInv, StreamInv, cli, send
  <2> QED  BY <2>7, <2>10 DEF OrderInv
<1> QED  BY <1>2, <1>3

\* Every step keeps the order.
LEMMA OrderKept ==
    ASSUME LinkTypes, ConnInv, OrderInv, LinkNext \/ UNCHANGED linkVars
    PROVE  OrderInv'
<1>1. CASE UNCHANGED linkVars
  BY <1>1 DEF linkVars, cli, send, task, wire, OrderInv, QueueInv, WireInv, StreamInv, Read, Queued
<1> QED  BY <1>1, LoopOrder, SessionOrder, SendersOrder, TasksOrder, MessageOrder DEF LinkNext

-----------------------------------------------------------------------------
\* The inductive invariant of the link.
LinkInv == LinkTypes /\ ConnInv /\ SeatInv /\ OrderInv

\* It holds initially.
LEMMA LinkInvInit == LinkInit => LinkInv
<1> SUFFICES ASSUME LinkInit PROVE LinkInv  OBVIOUS
<1>1. 0 \in 0 .. MaxConns /\ 0 \in 0 .. ORPHAN /\ NoFrame \in Frames
    BY LinkAssumption, FrameTyped, SMT DEF LinkAssumption, ORPHAN, Pieces
<1>2. LinkTypes
    BY <1>1, SeqTyped, SMT DEF LinkInit, LinkTypes, LoopTypes, SendTypes, TaskTypes, WireTypes, TableTypes,
                               Phases, States
<1>3. ConnInv
    BY LinkAssumption, SMT DEF LinkAssumption, LinkInit, ConnInv, Conns, NoFrame
<1>4. SeatInv  BY DEF LinkInit, SeatInv
<1>5. OrderInv
    BY EmptyOrder, SMT DEF LinkInit, OrderInv, QueueInv, WireInv, StreamInv, NoFrame
<1> QED  BY <1>2, <1>3, <1>4, <1>5 DEF LinkInv

\* It holds throughout.
LEMMA LinkInvHolds == LinkSpec => []LinkInv
<1>1. LinkInv /\ [LinkNext]_linkVars => LinkInv'
    BY LinkTypesKept, ConnKept, SeatKept, OrderKept DEF LinkInv
<1> QED  BY LinkInvInit, <1>1, PTL DEF LinkSpec

\* What senders queue carries the bearer of the session it is written in, and
\* no assembler is given a tail without its head, unless a whole reconnect
\* overtook a sender (send_envelope_in_session, the drain before each connect).
THEOREM QueueKeepsToSession == LinkSpec => []QueueIsThisSession
<1>1. LinkInv => QueueIsThisSession
    BY SMT DEF LinkInv, OrderInv, QueueInv, WireInv, QueueIsThisSession, ORPHAN, Pieces
<1> QED  BY <1>1, LinkInvHolds, PTL

\* The user whose session is up keeps its seat and its relay slot while older
\* connections are torn down (SignalRelay::unregister, the registry's rejoin),
\* unless that session was raced: a teardown that passed its check before the
\* session registered (ws/mod.rs:796) reports the user lost all the same, and an
\* older connection that registers later takes the slot.  A raced session is no
\* excuse for the sessions after it.
THEOREM LiveUserKeepsSeat == LinkSpec => []LiveUserSeated
<1>1. LinkInv => LiveUserSeated
    BY DEF LinkInv, ConnInv, SeatInv, LiveUserSeated
<1> QED  BY <1>1, LinkInvHolds, PTL

-----------------------------------------------------------------------------
(* The viewer's playback store                                             *)

\* The type invariant of the server's bookkeeping and of the store, for any
\* number of commands.
StoreTypes ==
    /\ life \in {"Open", "Playing", "Paused"}
    /\ lastCmd \in Heard \cup {NoEvent}
    /\ acked \in [Senders -> Nat]
    /\ joined \in BOOLEAN
    /\ carried \in Seq(Items)
    /\ lastApplied \in Heard \cup {NoEvent} /\ pending \in Heard \cup {NoEvent}
    /\ lastQ \in Nat
    /\ dedup \in [Senders -> [seen : BOOLEAN, last : Nat, pend : Heard \cup {NoEvent}]]

\* Nothing happened that StoreFollows excludes.
Clear == ~lost /\ ~buffered /\ ~renumbered

\* The newest command the store has heard of.
Known == MaxOf(lastApplied.q, pending.q)

\* A command's position is its number, and a room that is Open had none.
Placed ==
    /\ lastCmd.pos = lastCmd.q /\ lastApplied.pos = lastApplied.q /\ pending.pos = pending.q
    /\ \A i \in 1 .. Len(carried) : carried[i].e.pos = carried[i].e.q
    /\ life = "Open" => lastCmd = NoEvent
    /\ lastCmd = NoEvent => life = "Open"
    /\ ~joined => carried = <<>>

\* A sender's numbers only grow, in what the server acknowledged, in what is
\* on its way and in what the dedup state has seen.
Numbered ==
    /\ \A s \in Senders : dedup[s].pend = NoEvent /\ dedup[s].last <= acked[s]
    /\ lastCmd # NoEvent => lastCmd.n <= acked[lastCmd.s]
    /\ \A i \in 1 .. Len(carried) :
          /\ carried[i].e.n <= acked[carried[i].e.s]
          /\ ~carried[i].snap => carried[i].e.n > dedup[carried[i].e.s].last
    /\ \A i, j \in 1 .. Len(carried) :
          i < j /\ carried[i].e.s = carried[j].e.s => carried[i].e.n < carried[j].e.n

\* What is on its way is a snapshot or not, then every command since, and goes
\* on from what the store knows.
Contiguous ==
    /\ lastQ <= Known /\ Known <= lastCmd.q
    /\ \A i \in 1 .. Len(carried) :
          /\ carried[i].e.q + Len(carried) = lastCmd.q + i
          /\ carried[i].snap => i = 1
    /\ joined => \/ carried # <<>> /\ carried[1].snap /\ Known <= carried[1].e.q
                 \/ (carried # <<>> => ~carried[1].snap) /\ Known + Len(carried) = lastCmd.q

\* The room's play state is the one the last PLAY or PAUSE on its way sets, and
\* the store's when there is none.
Agreeing ==
    /\ \A i \in 1 .. Len(carried) :
          carried[i].e.kind # "seek" /\ (\A j \in i + 1 .. Len(carried) : carried[j].e.kind = "seek")
              => (life = "Paused" <=> carried[i].e.kind = "pause")
    /\ joined /\ (\A i \in 1 .. Len(carried) : carried[i].e.kind = "seek")
           => hostPaused = (life = "Paused")
    /\ ~joined /\ Known = lastCmd.q => hostPaused = (life = "Paused")
    /\ carried # <<>> /\ carried[1].snap =>
          /\ carried[1].e.kind # "seek"
          /\ Known = carried[1].e.q => hostPaused = (carried[1].e.kind = "pause")

\* The inductive invariant of the playback store: once a lag, the gap buffer or a
\* renumbering has happened nothing is claimed, as in StoreFollows.
FollowInv == Clear => StoreTypes /\ Placed /\ Numbered /\ Contiguous /\ Agreeing

\* What the invariant speaks of.
followVars == <<life, lastCmd, acked, joined, carried, lastApplied, hostPaused, pending, lastQ,
                dedup, lost, buffered, renumbered>>

\* No command looks like the absence of one.
LEMMA NoEventIsNew == NoEvent \notin Heard /\ NoEvent.q = 0 /\ NoEvent.pos = 0 /\ NoEvent.n = 0
BY SMT DEF NoEvent, Heard

\* Append and Tail, element by element.
LEMMA SeqFacts ==
    ASSUME NEW S, NEW s \in Seq(S)
    PROVE  /\ Len(s) \in Nat /\ (s = <<>> <=> Len(s) = 0) /\ \A i \in 1 .. Len(s) : s[i] \in S
           /\ \A e \in S : /\ Append(s, e) \in Seq(S) /\ Len(Append(s, e)) = Len(s) + 1
                           /\ Append(s, e)[Len(s) + 1] = e
                           /\ \A i \in 1 .. Len(s) : Append(s, e)[i] = s[i]
           /\ s # <<>> => /\ Tail(s) \in Seq(S) /\ Len(Tail(s)) = Len(s) - 1 /\ Head(s) = s[1]
                          /\ \A i \in 1 .. Len(s) - 1 : Tail(s)[i] = s[i + 1]
<1>1. Len(s) \in Nat /\ (s = <<>> <=> Len(s) = 0) /\ \A i \in 1 .. Len(s) : s[i] \in S  BY SMT
<1>2. ASSUME NEW e \in S
      PROVE  /\ Append(s, e) \in Seq(S) /\ Len(Append(s, e)) = Len(s) + 1
             /\ Append(s, e)[Len(s) + 1] = e
             /\ \A i \in 1 .. Len(s) : Append(s, e)[i] = s[i]
    BY SMT
<1>3. ASSUME s # <<>>
      PROVE  /\ Tail(s) \in Seq(S) /\ Len(Tail(s)) = Len(s) - 1 /\ Head(s) = s[1]
             /\ \A i \in 1 .. Len(s) - 1 : Tail(s)[i] = s[i + 1]
    BY <1>3, SMT
<1> QED  BY <1>1, <1>2, <1>3

\* Known is the larger of the two numbers the store holds.
LEMMA KnownBounds ==
    ASSUME StoreTypes
    PROVE  /\ lastApplied.q \in Nat /\ pending.q \in Nat /\ lastCmd.q \in Nat /\ Known \in Nat
           /\ lastApplied.q <= Known /\ pending.q <= Known
           /\ Known = lastApplied.q \/ Known = pending.q
BY SMT DEF StoreTypes, Known, MaxOf, Heard, NoEvent

\* A step that touches none of it keeps the invariant.
LEMMA FollowFrame == ASSUME FollowInv, UNCHANGED followVars PROVE FollowInv'
BY DEF followVars, FollowInv, Clear, StoreTypes, Placed, Numbered, Contiguous, Agreeing, Known

\* The server accepts and numbers a command.
LEMMA CommandFollows ==
    ASSUME FollowInv, NEW s \in Senders, NEW kind \in Kinds, HandlePlaybackCmd(s, kind)
    PROVE  FollowInv'
<1> DEFINE c == lastCmd'
           n == Len(carried)
<1>1. /\ c = [s |-> s, n |-> acked[s] + 1, q |-> lastCmd.q + 1, kind |-> kind, pos |-> lastCmd.q + 1]
      /\ acked' = [acked EXCEPT ![s] = @ + 1]
      /\ carried' = IF joined THEN Append(carried, [snap |-> FALSE, e |-> c]) ELSE carried
      /\ UNCHANGED <<joined, lost, renumbered, store>>
    BY DEF HandlePlaybackCmd
<1>2. /\ kind = "play" => life' = "Playing"
      /\ kind = "pause" => life' = "Paused"
      /\ kind = "seek" => life' = life
    BY SMT DEF HandlePlaybackCmd
<1>3. kind = "seek" => life # "Open"  BY DEF HandlePlaybackCmd, KindAllowed
<1> SUFFICES ASSUME Clear PROVE StoreTypes' /\ Placed' /\ Numbered' /\ Contiguous' /\ Agreeing'
    BY <1>1 DEF FollowInv, Clear, store
<1>4. StoreTypes /\ Placed /\ Numbered /\ Contiguous /\ Agreeing  BY DEF FollowInv
<1>5. /\ c \in Heard /\ c # NoEvent /\ acked' \in [Senders -> Nat] /\ acked'[s] = acked[s] + 1
      /\ \A r \in Senders : acked[r] <= acked'[r]
      /\ c.s = s /\ c.n = acked'[s] /\ c.q = lastCmd.q + 1 /\ c.kind = kind /\ c.pos = c.q
  <2>1. lastCmd.q \in Nat /\ acked[s] \in Nat  BY <1>4, KnownBounds DEF StoreTypes
  <2>2. c \in Heard  BY <1>1, <2>1, SMT DEF Heard
  <2>3. c # NoEvent  BY <2>2, NoEventIsNew
  <2>4. acked' \in [Senders -> Nat] /\ acked'[s] = acked[s] + 1 /\ \A r \in Senders : acked[r] <= acked'[r]
      BY <1>1, <1>4, SMT DEF StoreTypes
  <2> QED  BY <1>1, <2>2, <2>3, <2>4
<1>6. /\ Known' = Known /\ UNCHANGED <<lastApplied, hostPaused, pending, lastQ, dedup>>
    BY <1>1 DEF Known, store
<1>7. /\ n \in Nat
      /\ joined => /\ Len(carried') = n + 1 /\ carried'[n + 1] = [snap |-> FALSE, e |-> c]
                   /\ \A i \in 1 .. n : carried'[i] = carried[i]
                   /\ carried' \in Seq(Items)
      /\ ~joined => carried' = carried /\ carried = <<>> /\ n = 0
  <2>1. carried \in Seq(Items) /\ [snap |-> FALSE, e |-> c] \in Items
      BY <1>4, <1>5 DEF StoreTypes, Items
  <2>2. ~joined => n = 0  BY <1>4, <2>1, SeqFacts DEF Placed
  <2> QED  BY <1>1, <1>4, <2>1, <2>2, SeqFacts DEF Placed
<1>8. \A i \in 1 .. n : carried[i] \in Items /\ carried[i].e \in Heard
  <2>1. \A i \in 1 .. n : carried[i] \in Items  BY <1>4, SeqFacts DEF StoreTypes
  <2> QED  BY <2>1 DEF Items
<1> HIDE DEF c, n
<1>9. StoreTypes'
  <2>1. life' \in {"Open", "Playing", "Paused"}  BY <1>2, <1>4 DEF Kinds, StoreTypes
  <2>2. lastCmd' \in Heard  BY <1>5 DEF c
  <2> QED  BY <1>1, <1>4, <1>5, <1>6, <1>7, <2>1, <2>2 DEF StoreTypes
<1>10. Placed'
  <2>1. life' # "Open"  BY <1>2, <1>3 DEF Kinds
  <2>2. ASSUME NEW i \in 1 .. Len(carried') PROVE carried'[i].e.pos = carried'[i].e.q
    <3>1. CASE ~joined  BY <1>7, <2>2, <3>1, SMT DEF n
    <3>2. CASE joined
      <4>1. i \in 1 .. n \/ i = n + 1  BY <1>7, <2>2, <3>2, SMT
      <4> QED  BY <1>4, <1>5, <1>7, <3>2, <4>1 DEF Placed, n
    <3> QED  BY <3>1, <3>2
  <2> QED  BY <1>1, <1>4, <1>5, <1>6, <1>7, <2>1, <2>2 DEF Placed, c
<1>11. Numbered'
  <2>1. \A r \in Senders : dedup'[r].pend = NoEvent /\ dedup'[r].last <= acked'[r]
      BY <1>4, <1>5, <1>6, SMT DEF Numbered, StoreTypes
  <2>2. lastCmd'.n <= acked'[lastCmd'.s]  BY <1>4, <1>5, SMT DEF c, StoreTypes
  <2>3. ASSUME joined, NEW i \in 1 .. n + 1
        PROVE  /\ carried'[i].e.n <= acked'[carried'[i].e.s]
               /\ ~carried'[i].snap => carried'[i].e.n > dedup'[carried'[i].e.s].last
    <3>1. CASE i \in 1 .. n
      <4>1. carried[i].e.n \in Nat /\ carried[i].e.s \in Senders  BY <1>8, <3>1 DEF Heard
      <4>2. /\ carried[i].e.n <= acked[carried[i].e.s] /\ acked[carried[i].e.s] \in Nat
            /\ acked[carried[i].e.s] <= acked'[carried[i].e.s] /\ acked'[carried[i].e.s] \in Nat
          BY <1>4, <1>5, <3>1, <4>1 DEF Numbered, StoreTypes, n
      <4>3. ~carried[i].snap => carried[i].e.n > dedup[carried[i].e.s].last
          BY <1>4, <3>1 DEF Numbered, n
      <4>4. carried[i].e.n <= acked'[carried[i].e.s]  BY <4>1, <4>2, SMT
      <4> QED  BY <1>6, <1>7, <2>3, <3>1, <4>3, <4>4
    <3>2. CASE i = n + 1
      BY <1>4, <1>5, <1>6, <1>7, <2>3, <3>2, SMT DEF Numbered, StoreTypes
    <3> QED  BY <1>7, <3>1, <3>2, SMT
  <2>4. ASSUME joined, NEW i \in 1 .. n + 1, NEW j \in 1 .. n + 1,
               i < j, carried'[i].e.s = carried'[j].e.s
        PROVE  carried'[i].e.n < carried'[j].e.n
    <3>0. i \in 1 .. n  BY <1>7, <2>4, SMT
    <3>1. CASE j \in 1 .. n
      BY <1>4, <1>7, <2>4, <3>0, <3>1 DEF Numbered, n
    <3>2. CASE j = n + 1
      <4>0. carried[i].e.s = s  BY <1>5, <1>7, <2>4, <3>0, <3>2
      <4>1. carried[i].e.n <= acked[s] /\ carried[i].e.n \in Nat /\ acked[s] \in Nat
          BY <1>4, <1>8, <3>0, <4>0 DEF Numbered, Heard, StoreTypes, n
      <4> QED  BY <1>5, <1>7, <2>4, <3>0, <3>2, <4>1, SMT
    <3> QED  BY <1>7, <3>1, <3>2, SMT
  <2>5. CASE joined
    <3>1. Len(carried') = n + 1  BY <1>7, <2>5
    <3> QED  BY <2>1, <2>2, <2>3, <2>4, <2>5, <3>1 DEF Numbered
  <2>6. CASE ~joined
    <3>1. carried' = <<>>  BY <1>7, <2>6
    <3> QED  BY <2>1, <2>2, <3>1, SMT DEF Numbered
  <2> QED  BY <2>5, <2>6
<1>12. Contiguous'
  <2>0. Known \in Nat /\ lastCmd.q \in Nat  BY <1>4, KnownBounds
  <2>1. lastQ' <= Known' /\ Known' <= lastCmd'.q
      BY <1>4, <1>5, <1>6, <2>0, SMT DEF Contiguous, c, StoreTypes
  <2>2. ASSUME joined, NEW i \in 1 .. n + 1
        PROVE  /\ carried'[i].e.q + (n + 1) = lastCmd'.q + i
               /\ carried'[i].snap => i = 1
    <3>1. CASE i \in 1 .. n
      <4>1. carried[i].e.q \in Nat  BY <1>8, <3>1 DEF Heard
      <4>2. carried[i].e.q + n = lastCmd.q + i /\ (carried[i].snap => i = 1)
          BY <1>4, <3>1 DEF Contiguous, n
      <4>3. carried'[i] = carried[i] /\ lastCmd'.q = lastCmd.q + 1  BY <1>5, <1>7, <2>2, <3>1 DEF c
      <4>4. i \in Nat /\ n \in Nat  BY <1>7, <3>1
      <4>5. carried'[i].e.q + (n + 1) = lastCmd'.q + i  BY <2>0, <4>1, <4>2, <4>3, <4>4, SMT
      <4> QED  BY <4>2, <4>3, <4>5
    <3>2. CASE i = n + 1
      <4>1. carried'[i].e.q = lastCmd'.q /\ ~carried'[i].snap  BY <1>7, <2>2, <3>2 DEF c
      <4>2. carried'[i].e.q + (n + 1) = lastCmd'.q + i  BY <3>2, <4>1
      <4> QED  BY <4>1, <4>2
    <3> QED  BY <1>7, <3>1, <3>2, SMT
  <2>3. ASSUME joined PROVE \/ carried' # <<>> /\ carried'[1].snap /\ Known' <= carried'[1].e.q
                            \/ (carried' # <<>> => ~carried'[1].snap) /\ Known' + (n + 1) = lastCmd'.q
    <3>1. carried' # <<>>  BY <1>7, <2>3, SMT
    <3>2. CASE carried # <<>>
      <4>1. 1 \in 1 .. n /\ carried'[1] = carried[1]  BY <1>4, <1>7, <2>3, <3>2, SMT DEF n, StoreTypes
      <4> QED  BY <1>4, <1>5, <1>6, <1>7, <2>0, <2>3, <3>1, <3>2, <4>1, SMT DEF Contiguous, c, n
    <3>3. CASE carried = <<>>
      <4>1. n = 0 /\ ~carried'[1].snap  BY <1>7, <2>3, <3>3, SMT DEF n
      <4> QED  BY <1>4, <1>5, <1>6, <1>7, <2>0, <2>3, <3>3, <4>1, SMT DEF Contiguous, c, n
    <3> QED  BY <3>2, <3>3
  <2> QED  BY <1>1, <1>7, <2>1, <2>2, <2>3, SMT DEF Contiguous
<1>13. Agreeing'
  <2>1. ASSUME ~joined PROVE Agreeing'
    <3>1. Known' # lastCmd'.q  BY <1>4, <1>5, <1>6, KnownBounds, SMT DEF Contiguous, c
    <3> QED  BY <1>1, <1>7, <2>1, <3>1, SMT DEF Agreeing, n
  <2>2. ASSUME joined PROVE Agreeing'
    <3>1. ASSUME NEW i \in 1 .. n + 1, carried'[i].e.kind # "seek",
                 \A j \in i + 1 .. n + 1 : carried'[j].e.kind = "seek"
          PROVE  life' = "Paused" <=> carried'[i].e.kind = "pause"
      <4>1. CASE i = n + 1
        BY <1>2, <1>5, <1>7, <2>2, <3>1, <4>1 DEF Kinds
      <4>2. CASE i \in 1 .. n
        <5>1. kind = "seek"  BY <1>5, <1>7, <2>2, <3>1, <4>2, SMT
        <5>2. ASSUME NEW j \in i + 1 .. n PROVE carried[j].e.kind = "seek"
          <6>1. j \in i + 1 .. n + 1 /\ j \in 1 .. n  BY <1>7, <4>2, SMT
          <6> QED  BY <1>7, <2>2, <3>1, <6>1
        <5> QED  BY <1>2, <1>4, <1>7, <2>2, <3>1, <4>2, <5>1, <5>2 DEF Agreeing, n
      <4> QED  BY <1>7, <4>1, <4>2, SMT
    <3>2. ASSUME \A i \in 1 .. n + 1 : carried'[i].e.kind = "seek"
          PROVE  hostPaused' = (life' = "Paused")
      <4>1. kind = "seek"  BY <1>5, <1>7, <2>2, <3>2, SMT
      <4>2. ASSUME NEW i \in 1 .. n PROVE carried[i].e.kind = "seek"
        <5>1. i \in 1 .. n + 1  BY <1>7, SMT
        <5> QED  BY <1>7, <2>2, <3>2, <5>1
      <4> QED  BY <1>2, <1>4, <1>6, <2>2, <4>1, <4>2 DEF Agreeing, n
    <3>3. ASSUME carried'[1].snap
          PROVE  /\ carried'[1].e.kind # "seek"
                 /\ Known' = carried'[1].e.q => hostPaused' = (carried'[1].e.kind = "pause")
      <4>1. carried # <<>> /\ carried'[1] = carried[1]
        <5>1. n # 0  BY <1>7, <2>2, <3>3, SMT
        <5> QED  BY <1>4, <1>7, <2>2, <5>1, SMT DEF StoreTypes, n
      <4> QED  BY <1>4, <1>6, <3>3, <4>1 DEF Agreeing
    <3>4. Len(carried') = n + 1 /\ joined'  BY <1>1, <1>7, <2>2
    <3> QED  BY <3>1, <3>2, <3>3, <3>4 DEF Agreeing
  <2> QED  BY <2>1, <2>2
<1> QED  BY <1>9, <1>10, <1>11, <1>12, <1>13

\* What the player does moves the store's events about and forgets none.
LEMMA StoreFrame ==
    ASSUME FollowInv, Known' = Known, lastQ' \in Nat, lastQ' <= Known \/ ~Clear,
           Clear => /\ lastApplied' \in {lastApplied, pending} /\ pending' \in {pending, NoEvent},
           UNCHANGED <<life, lastCmd, acked, joined, carried, hostPaused, dedup, lost, buffered, renumbered>>
    PROVE  FollowInv'
<1> SUFFICES ASSUME Clear PROVE StoreTypes' /\ Placed' /\ Numbered' /\ Contiguous' /\ Agreeing'
    BY DEF FollowInv, Clear
<1>1. StoreTypes /\ Placed /\ Numbered /\ Contiguous /\ Agreeing  BY DEF FollowInv
<1>2. StoreTypes'  BY <1>1 DEF StoreTypes
<1>3. Placed'  BY <1>1, NoEventIsNew DEF Placed
<1>4. Numbered'  BY <1>1 DEF Numbered
<1>5. Contiguous'  BY <1>1 DEF Contiguous
<1>6. Agreeing'  BY <1>1 DEF Agreeing
<1> QED  BY <1>2, <1>3, <1>4, <1>5, <1>6

\* The apply effect and the drain effect of the player.
LEMMA ApplyFollows == ASSUME FollowInv, ApplyEffect PROVE FollowInv'
<1>1. CASE ~Clear  BY <1>1 DEF FollowInv, Clear, ApplyEffect, deliveryVars, serverVars
<1>2. CASE Clear
  <2>1. StoreTypes  BY <1>2 DEF FollowInv
  <2>2. lastQ' \in Nat /\ lastQ' <= Known  BY <2>1, KnownBounds DEF ApplyEffect
  <2>3. Known' = Known  BY DEF ApplyEffect, Known
  <2> QED  BY <2>2, <2>3, StoreFrame DEF ApplyEffect, deliveryVars, serverVars
<1> QED  BY <1>1, <1>2

\* The drain effect promotes what was parked, or drops what is older.
LEMMA DrainFollows == ASSUME FollowInv, DrainEffect PROVE FollowInv'
<1>1. CASE ~Clear  BY <1>1 DEF FollowInv, Clear, DrainEffect, deliveryVars, serverVars
<1>2. CASE Clear
  <2>1. StoreTypes /\ Contiguous  BY <1>2 DEF FollowInv
  <2>2. /\ lastApplied' = (IF pending # NoEvent /\ Promotable THEN pending ELSE lastApplied)
        /\ pending' = NoEvent /\ lastQ' = lastQ
      BY DEF DrainEffect
  <2>3. Known' = Known
    <3>1. pending = NoEvent => pending.q = 0  BY NoEventIsNew
    <3>2. lastApplied = NoEvent => lastApplied.q = 0  BY NoEventIsNew
    <3>3. lastApplied.q \in Nat /\ pending.q \in Nat  BY <2>1, KnownBounds
    <3>4. Known' = MaxOf(lastApplied'.q, 0)  BY <2>2, NoEventIsNew DEF Known
    <3> QED  BY <2>2, <3>1, <3>2, <3>3, <3>4, SMT DEF Known, Promotable, MaxOf
  <2>4. lastQ' \in Nat /\ lastQ' <= Known  BY <2>1, <2>2 DEF Contiguous, StoreTypes
  <2> QED  BY <2>2, <2>3, <2>4, StoreFrame DEF DrainEffect, deliveryVars, serverVars
<1> QED  BY <1>1, <1>2

\* The viewer is subscribed and sent the summary.
LEMMA ConnectFollows == ASSUME FollowInv, Connect PROVE FollowInv'
<1>1. /\ ~joined /\ joined' = TRUE
      /\ carried' = IF life = "Open" THEN <<>> ELSE <<Snapshot>>
      /\ UNCHANGED <<lost, buffered, renumbered, life, lastCmd, acked, lastApplied, hostPaused, pending, lastQ, dedup>>
    BY DEF Connect, serverVars, store
<1> SUFFICES ASSUME Clear PROVE StoreTypes' /\ Placed' /\ Numbered' /\ Contiguous' /\ Agreeing'
    BY <1>1 DEF FollowInv, Clear
<1>2. StoreTypes /\ Placed /\ Numbered /\ Contiguous /\ Agreeing  BY DEF FollowInv
<1>3. Known' = Known /\ Known \in Nat /\ lastCmd.q \in Nat  BY <1>1, <1>2, KnownBounds DEF Known
<1>4. CASE life = "Open"
  <2>1. carried' = <<>> /\ lastCmd = NoEvent  BY <1>1, <1>2, <1>4 DEF Placed
  <2>2. Len(carried') = 0 /\ carried' \in Seq(Items)  BY <2>1
  <2>3. Known = 0 /\ lastCmd.q = 0  BY <1>2, <1>3, <2>1, NoEventIsNew, SMT DEF Contiguous
  <2>4. StoreTypes'  BY <1>1, <1>2, <2>2 DEF StoreTypes
  <2>5. Placed'  BY <1>1, <1>2, <2>2, SMT DEF Placed
  <2>6. Numbered'  BY <1>1, <1>2, <2>2, SMT DEF Numbered
  <2>7. Contiguous'  BY <1>1, <1>2, <1>3, <2>1, <2>2, <2>3, SMT DEF Contiguous
  <2>8. Agreeing'  BY <1>1, <1>2, <1>3, <2>1, <2>2, <2>3, SMT DEF Agreeing
  <2> QED  BY <2>4, <2>5, <2>6, <2>7, <2>8
<1>5. CASE life # "Open"
  <2> DEFINE k == IF life = "Paused" THEN "pause" ELSE "play"
             e == Snapshot.e
  <2>1. lastCmd \in Heard  BY <1>2, <1>5 DEF Placed, StoreTypes
  <2>2. /\ Snapshot \in Items /\ Snapshot.snap /\ e \in Heard
        /\ e.s = lastCmd.s /\ e.n = lastCmd.n /\ e.q = lastCmd.q /\ e.pos = lastCmd.pos /\ e.kind = k
      BY <2>1, SMT DEF Snapshot, Heard, Items, Kinds
  <2>3. /\ carried' = <<Snapshot>> /\ Len(carried') = 1 /\ carried'[1] = Snapshot
        /\ carried' \in Seq(Items) /\ carried' # <<>>
      BY <1>1, <1>5, <2>2
  <2>4. k # "seek" /\ (k = "pause" <=> life = "Paused")  OBVIOUS
  <2>5. lastCmd # NoEvent /\ lastCmd.pos = lastCmd.q  BY <1>2, <2>1, NoEventIsNew DEF Placed
  <2>6. Known <= lastCmd.q /\ lastQ <= Known  BY <1>2 DEF Contiguous
  <2>7. lastCmd.n <= acked[lastCmd.s]  BY <1>2, <2>5 DEF Numbered
  <2>8. Known = lastCmd.q => hostPaused = (life = "Paused")  BY <1>1, <1>2 DEF Agreeing
  <2> HIDE DEF k, e
  <2>9. \A i \in 1 .. Len(carried') : i = 1 /\ carried'[i].e = e /\ carried'[i].snap
      BY <2>2, <2>3, SMT DEF e
  <2>10. StoreTypes'  BY <1>1, <1>2, <2>3 DEF StoreTypes
  <2>11. Placed'  BY <1>1, <1>2, <2>2, <2>5, <2>9 DEF Placed
  <2>12. Numbered'
    <3>1. \A i, j \in 1 .. Len(carried') : ~(i < j)  BY <2>9, SMT
    <3> QED  BY <1>1, <1>2, <2>2, <2>7, <2>9, <3>1 DEF Numbered
  <2>13. Contiguous'
    <3>1. carried'[1].snap /\ carried'[1].e = e  BY <2>2, <2>3 DEF e
    <3> QED  BY <1>1, <1>3, <2>2, <2>3, <2>6, <2>9, <3>1 DEF Contiguous
  <2>14. Agreeing'
    <3>1. carried'[1].snap /\ carried'[1].e = e /\ 1 \in 1 .. Len(carried')  BY <2>2, <2>3 DEF e
    <3> QED  BY <1>1, <1>3, <2>2, <2>3, <2>4, <2>8, <2>9, <3>1 DEF Agreeing
  <2> QED  BY <2>10, <2>11, <2>12, <2>13, <2>14
<1> QED  BY <1>4, <1>5

\* The link drops: what was under way is gone.
LEMMA DisconnectFollows == ASSUME FollowInv, Disconnect PROVE FollowInv'
<1>1. /\ joined /\ joined' = FALSE /\ carried' = <<>>
      /\ UNCHANGED <<lost, buffered, renumbered, life, lastCmd, acked, lastApplied, hostPaused, pending, lastQ, dedup>>
    BY DEF Disconnect, serverVars, store
<1> SUFFICES ASSUME Clear PROVE StoreTypes' /\ Placed' /\ Numbered' /\ Contiguous' /\ Agreeing'
    BY <1>1 DEF FollowInv, Clear
<1>2. StoreTypes /\ Placed /\ Numbered /\ Contiguous /\ Agreeing  BY DEF FollowInv
<1>3. Known' = Known /\ Known \in Nat /\ lastCmd.q \in Nat  BY <1>1, <1>2, KnownBounds DEF Known
<1>4. Len(carried') = 0 /\ carried' \in Seq(Items)  BY <1>1
<1>5. Len(carried) \in Nat /\ (carried # <<>> => 1 \in 1 .. Len(carried))
    BY <1>2, SeqFacts, SMT DEF StoreTypes
<1>6. ASSUME Known = lastCmd.q PROVE hostPaused = (life = "Paused")
  <2>1. CASE carried = <<>>
    <3>1. Len(carried) = 0  BY <2>1
    <3> QED  BY <1>1, <1>2, <3>1, SMT DEF Agreeing
  <2>2. CASE carried # <<>>
    <3>1. 1 \in 1 .. Len(carried) /\ carried[1].e.q + Len(carried) = lastCmd.q + 1
        BY <1>2, <1>5, <2>2 DEF Contiguous
    <3>2. carried[1].e.q \in Nat
      <4>1. carried[1] \in Items  BY <1>2, <3>1, SeqFacts DEF StoreTypes
      <4> QED  BY <4>1 DEF Items, Heard
    <3>3. \/ carried[1].snap /\ Known <= carried[1].e.q
          \/ Known + Len(carried) = lastCmd.q
        BY <1>1, <1>2, <2>2 DEF Contiguous
    <3> DEFINE q == carried[1].e.q
               n == Len(carried)
    <3> HIDE DEF q, n
    <3>n. q \in Nat /\ n \in Nat /\ n >= 1 /\ q + n = Known + 1
        BY <1>5, <1>6, <3>1, <3>2 DEF q, n
    <3>c. ~(Known + n = lastCmd.q)  BY <1>3, <1>6, <3>n
    <3>k. carried[1].snap /\ Known <= q  BY <3>3, <3>c DEF q, n
    <3>e. n = 1 /\ Known = q  BY <1>3, <3>n, <3>k
    <3>4. Len(carried) = 1 /\ carried[1].snap /\ Known = carried[1].e.q
        BY <3>k, <3>e DEF q, n
    <3>5. \A j \in 2 .. Len(carried) : carried[j].e.kind = "seek"  BY <3>4, SMT
    <3>6. carried[1].e.kind # "seek" /\ hostPaused = (carried[1].e.kind = "pause")
        BY <1>2, <2>2, <3>4 DEF Agreeing
    <3>7. life = "Paused" <=> carried[1].e.kind = "pause"
        BY <1>2, <3>1, <3>5, <3>6 DEF Agreeing
    <3> QED  BY <3>6, <3>7
  <2> QED  BY <2>1, <2>2
<1>7. StoreTypes'  BY <1>1, <1>2, <1>4 DEF StoreTypes
<1>8. Placed'  BY <1>1, <1>2, <1>4, SMT DEF Placed
<1>9. Numbered'  BY <1>1, <1>2, <1>4, SMT DEF Numbered
<1>10. Contiguous'  BY <1>1, <1>2, <1>3, <1>4, SMT DEF Contiguous
<1>11. Agreeing'  BY <1>1, <1>3, <1>4, <1>6, SMT DEF Agreeing
<1> QED  BY <1>7, <1>8, <1>9, <1>10, <1>11

\* The viewer leaves the room and enters it again.
LEMMA LeaveFollows == ASSUME FollowInv, LeaveAndJoin PROVE FollowInv'
<1>1. /\ joined /\ joined' = FALSE /\ carried' = <<>>
      /\ lastApplied' = NoEvent /\ hostPaused' = FALSE /\ pending' = NoEvent
      /\ lastQ' = 0 /\ dedup' = [s \in Senders |-> NoSender]
      /\ UNCHANGED <<lost, buffered, renumbered, life, lastCmd, acked>>
    BY DEF LeaveAndJoin, serverVars
<1> SUFFICES ASSUME Clear PROVE StoreTypes' /\ Placed' /\ Numbered' /\ Contiguous' /\ Agreeing'
    BY <1>1 DEF FollowInv, Clear
<1>2. StoreTypes /\ Placed /\ Numbered /\ Contiguous /\ Agreeing  BY DEF FollowInv
<1>3. Known' = 0 /\ lastCmd.q \in Nat
  <2>1. Known' = MaxOf(0, 0)  BY <1>1, NoEventIsNew DEF Known
  <2> QED  BY <1>2, <2>1, KnownBounds DEF MaxOf
<1>4. Len(carried') = 0 /\ carried' \in Seq(Items)  BY <1>1
<1>5. lastCmd.q = 0 => life = "Open"  BY <1>2, SMT DEF Placed, StoreTypes, Heard
<1>6. \A s \in Senders : dedup'[s].pend = NoEvent /\ dedup'[s].last = 0  BY <1>1 DEF NoSender
<1>7. StoreTypes'
  <2>1. dedup' \in [Senders -> [seen : BOOLEAN, last : Nat, pend : Heard \cup {NoEvent}]]
      BY <1>1, SMT DEF NoSender
  <2> QED  BY <1>1, <1>2, <1>4, <2>1 DEF StoreTypes
<1>8. Placed'  BY <1>1, <1>2, <1>4, NoEventIsNew, SMT DEF Placed
<1>9. Numbered'
  <2>1. \A s \in Senders : dedup'[s].last <= acked'[s]  BY <1>1, <1>2, <1>6, SMT DEF StoreTypes
  <2> QED  BY <1>1, <1>2, <1>4, <1>6, <2>1, SMT DEF Numbered
<1>10. Contiguous'  BY <1>1, <1>3, <1>4, SMT DEF Contiguous
<1>11. Agreeing'
  <2>1. Known' = lastCmd'.q => hostPaused' = (life' = "Paused")  BY <1>1, <1>3, <1>5
  <2> QED  BY <1>1, <1>4, <2>1, SMT DEF Agreeing
<1> QED  BY <1>7, <1>8, <1>9, <1>10, <1>11

\* What is left once the first item is taken, and what the first item says.
LEMMA FirstTaken ==
    ASSUME StoreTypes, Placed, Numbered, Contiguous, Agreeing, carried # <<>>,
           carried' = Tail(carried), UNCHANGED <<life, lastCmd, acked>>
    PROVE  /\ Len(carried) \in Nat /\ Len(carried) >= 1 /\ Len(carried') = Len(carried) - 1
           /\ carried' \in Seq(Items) /\ Head(carried) = carried[1] /\ carried[1].e \in Heard
           /\ \A i \in 1 .. Len(carried') : i + 1 \in 1 .. Len(carried) /\ carried'[i] = carried[i + 1]
           /\ carried[1].e.q + Len(carried') = lastCmd.q
           /\ \A i \in 1 .. Len(carried') : carried'[i].e.q + Len(carried') = lastCmd.q + i
           /\ carried[1].e.n <= acked[carried[1].e.s]
           /\ ~carried[1].snap => carried[1].e.n > dedup[carried[1].e.s].last
           /\ Known <= carried[1].e.q
           /\ ~carried[1].snap => Known + 1 = carried[1].e.q
           /\ joined
<1>1. carried \in Seq(Items)  BY DEF StoreTypes
<1>2. /\ Len(carried) \in Nat /\ Len(carried) # 0 /\ Len(carried') = Len(carried) - 1
      /\ carried' \in Seq(Items) /\ Head(carried) = carried[1]
      /\ \A i \in 1 .. Len(carried) - 1 : carried'[i] = carried[i + 1]
      /\ \A i \in 1 .. Len(carried) : carried[i] \in Items
    BY <1>1, SeqFacts
<1>3. 1 \in 1 .. Len(carried) /\ carried[1].e \in Heard  BY <1>2 DEF Items
<1>4. \A i \in 1 .. Len(carried') : i + 1 \in 1 .. Len(carried) /\ carried'[i] = carried[i + 1]
    BY <1>2
<1>5. carried[1].e.q + Len(carried) = lastCmd.q + 1  BY <1>3 DEF Contiguous
<1>6. /\ carried[1].e.n <= acked[carried[1].e.s]
      /\ ~carried[1].snap => carried[1].e.n > dedup[carried[1].e.s].last
    BY <1>3 DEF Numbered
<1>7. joined  BY DEF Placed
<1>8. \/ carried[1].snap /\ Known <= carried[1].e.q
      \/ ~carried[1].snap /\ Known + Len(carried) = lastCmd.q
    BY <1>7 DEF Contiguous
<1> DEFINE q == carried[1].e.q
           n == Len(carried)
<1>9. q \in Nat /\ n \in Nat /\ Known \in Nat /\ lastCmd.q \in Nat /\ q + n = lastCmd.q + 1
    BY <1>2, <1>3, <1>5, KnownBounds DEF Heard
<1>10. Known + n = lastCmd.q => Known + 1 = q
  <2> HIDE DEF q, n
  <2> QED  BY <1>9
<1>11. Known <= q  BY <1>8, <1>9, <1>10
<1>12. ~carried[1].snap => Known + 1 = q  BY <1>8, <1>10
<1>13. n >= 1  BY <1>2
<1>14. q + (n - 1) = lastCmd.q
  <2> HIDE DEF q, n
  <2> QED  BY <1>9
<1>15. ASSUME NEW i \in 1 .. n - 1 PROVE carried[i + 1].e.q + (n - 1) = lastCmd.q + i
  <2> DEFINE p == carried[i + 1].e.q
  <2>1. i + 1 \in 1 .. n /\ i \in Nat  BY <1>2
  <2>2. p + n = lastCmd.q + (i + 1)  BY <2>1 DEF Contiguous
  <2>3. p \in Nat  BY <1>2, <2>1 DEF Items, Heard
  <2> HIDE DEF p, q, n
  <2>4. p + (n - 1) = lastCmd.q + i  BY <1>9, <2>1, <2>2, <2>3
  <2> QED  BY <2>4 DEF p, n
<1> QED  BY <1>2, <1>3, <1>4, <1>6, <1>7, <1>11, <1>12, <1>13, <1>14, <1>15

\* The first item is taken and the store now knows of it.
LEMMA Advanced ==
    ASSUME Clear, StoreTypes, Placed, Numbered, Contiguous, Agreeing, carried # <<>>,
           carried' = Tail(carried), UNCHANGED <<life, lastCmd, acked, joined, lastQ>>,
           dedup' \in [Senders -> [seen : BOOLEAN, last : Nat, pend : Heard \cup {NoEvent}]],
           \A r \in Senders :
              /\ dedup'[r].pend = NoEvent
              /\ \/ dedup'[r].last <= dedup[r].last
                 \/ r = carried[1].e.s /\ dedup'[r].last <= carried[1].e.n,
           lastApplied' \in {lastApplied, carried[1].e}, pending' \in {pending, carried[1].e},
           Known' = carried[1].e.q,
           carried[1].e.kind = "seek" => hostPaused' = hostPaused,
           carried[1].e.kind # "seek" => hostPaused' = (carried[1].e.kind = "pause")
    PROVE  StoreTypes' /\ Placed' /\ Numbered' /\ Contiguous' /\ Agreeing'
<1> DEFINE e == carried[1].e
           n == Len(carried)
<1>1. /\ n \in Nat /\ n >= 1 /\ Len(carried') = n - 1
      /\ carried' \in Seq(Items) /\ e \in Heard
      /\ \A i \in 1 .. n - 1 : i + 1 \in 1 .. n /\ carried'[i] = carried[i + 1]
      /\ e.q + Len(carried') = lastCmd.q
      /\ \A i \in 1 .. Len(carried') : carried'[i].e.q + Len(carried') = lastCmd.q + i
      /\ e.n <= acked[e.s]
      /\ Known <= e.q
      /\ joined
    BY FirstTaken
<1>2. e.q \in Nat /\ e.n \in Nat /\ e.s \in Senders /\ lastCmd.q \in Nat /\ lastQ \in Nat /\ Known \in Nat
      /\ e.pos = e.q
  <2>1. 1 \in 1 .. n  BY <1>1
  <2> QED  BY <1>1, <2>1, KnownBounds DEF Heard, StoreTypes, Placed
<1>3. \A i \in 1 .. n : carried[i].e \in Heard
  <2>1. \A i \in 1 .. n : carried[i] \in Items  BY SeqFacts DEF StoreTypes
  <2> QED  BY <2>1 DEF Items
<1>4. \A r \in Senders : /\ dedup'[r].pend = NoEvent /\ dedup'[r].last \in Nat /\ dedup[r].last \in Nat
                         /\ acked[r] \in Nat /\ dedup[r].last <= acked[r]
                         /\ \/ dedup'[r].last <= dedup[r].last
                            \/ r = e.s /\ dedup'[r].last <= e.n
  <2> TAKE r \in Senders
  <2>1. dedup'[r].last \in Nat /\ dedup[r].last \in Nat /\ acked[r] \in Nat  BY DEF StoreTypes
  <2> QED  BY <2>1 DEF Numbered
<1>5. /\ \A i \in 1 .. n : /\ carried[i].e.pos = carried[i].e.q
                           /\ carried[i].e.n <= acked[carried[i].e.s]
                           /\ ~carried[i].snap => carried[i].e.n > dedup[carried[i].e.s].last
                           /\ carried[i].e.q + n = lastCmd.q + i
                           /\ carried[i].snap => i = 1
      /\ \A i, j \in 1 .. n :
            i < j /\ carried[i].e.s = carried[j].e.s => carried[i].e.n < carried[j].e.n
    BY DEF Placed, Numbered, Contiguous
<1>6. /\ \A i \in 1 .. n :
            carried[i].e.kind # "seek" /\ (\A j \in i + 1 .. n : carried[j].e.kind = "seek")
              => (life = "Paused" <=> carried[i].e.kind = "pause")
      /\ (\A i \in 1 .. n : carried[i].e.kind = "seek") => hostPaused = (life = "Paused")
    BY <1>1 DEF Agreeing
<1> HIDE DEF e, n
<1>7. StoreTypes'  BY <1>1 DEF StoreTypes, e
<1>8. Placed'
  <2>1. \A i \in 1 .. Len(carried') : carried'[i].e.pos = carried'[i].e.q  BY <1>1, <1>5
  <2>2. lastApplied'.pos = lastApplied'.q /\ pending'.pos = pending'.q  BY <1>2 DEF Placed, e
  <2> QED  BY <1>1, <2>1, <2>2 DEF Placed
<1>9. Numbered'
  <2>1. \A r \in Senders : dedup'[r].pend = NoEvent /\ dedup'[r].last <= acked'[r]
    <3> TAKE r \in Senders
    <3>1. dedup'[r].last <= dedup[r].last => dedup'[r].last <= acked[r]  BY <1>4
    <3>2. r = e.s /\ dedup'[r].last <= e.n => dedup'[r].last <= acked[r]  BY <1>1, <1>2, <1>4
    <3> QED  BY <1>4, <3>1, <3>2
  <2>2. ASSUME NEW i \in 1 .. Len(carried')
        PROVE  /\ carried'[i].e.n <= acked'[carried'[i].e.s]
               /\ ~carried'[i].snap => carried'[i].e.n > dedup'[carried'[i].e.s].last
    <3>1. i + 1 \in 1 .. n /\ carried'[i] = carried[i + 1] /\ i + 1 # 1  BY <1>1
    <3> DEFINE f == carried[i + 1].e
    <3>2. f.s \in Senders /\ f.n \in Nat /\ f.n <= acked[f.s] /\ f.n > dedup[f.s].last
        BY <1>3, <1>5, <3>1 DEF Heard
    <3>3. f.s = e.s => e.n < f.n
      <4>1. 1 \in 1 .. n /\ 1 < i + 1  BY <1>1, <3>1
      <4> QED  BY <1>5, <3>1, <4>1 DEF e
    <3> HIDE DEF f
    <3>4. f.n > dedup'[f.s].last
      <4>1. CASE dedup'[f.s].last <= dedup[f.s].last  BY <1>4, <3>2, <4>1
      <4>2. CASE f.s = e.s /\ dedup'[f.s].last <= e.n  BY <1>2, <1>4, <3>2, <3>3, <4>2
      <4> QED  BY <1>4, <3>2, <4>1, <4>2
    <3> QED  BY <3>1, <3>2, <3>4 DEF f
  <2>3. ASSUME NEW i \in 1 .. Len(carried'), NEW j \in 1 .. Len(carried'), i < j,
               carried'[i].e.s = carried'[j].e.s
        PROVE  carried'[i].e.n < carried'[j].e.n
    <3>1. i \in 1 .. n - 1 /\ j \in 1 .. n - 1 /\ i + 1 < j + 1  BY <1>1, <2>3
    <3> QED  BY <1>1, <1>5, <2>3, <3>1
  <2> QED  BY <2>1, <2>2, <2>3 DEF Numbered
<1>10. Contiguous'
  <2>1. lastQ' <= Known' /\ Known' <= lastCmd'.q
    <3>1. lastQ <= Known  BY DEF Contiguous
    <3>2. e.q <= lastCmd.q  BY <1>1, <1>2
    <3> QED  BY <1>1, <1>2, <3>1, <3>2 DEF e
  <2>2. ASSUME NEW i \in 1 .. Len(carried')
        PROVE  /\ carried'[i].e.q + Len(carried') = lastCmd'.q + i
               /\ ~carried'[i].snap
    <3>1. i + 1 \in 1 .. n /\ carried'[i] = carried[i + 1] /\ i + 1 # 1 /\ i \in Nat  BY <1>1
    <3> QED  BY <1>1, <1>5, <3>1
  <2>3. carried' # <<>> => ~carried'[1].snap
    <3>1. carried' # <<>> => 1 \in 1 .. Len(carried')  BY <1>1, SeqFacts
    <3> QED  BY <2>2, <3>1
  <2>4. Known' + Len(carried') = lastCmd'.q  BY <1>1 DEF e
  <2> QED  BY <2>1, <2>2, <2>3, <2>4 DEF Contiguous
<1>11. Agreeing'
  <2>1. ASSUME NEW i \in 1 .. Len(carried'), carried'[i].e.kind # "seek",
               \A j \in i + 1 .. Len(carried') : carried'[j].e.kind = "seek"
        PROVE  life' = "Paused" <=> carried'[i].e.kind = "pause"
    <3>1. i + 1 \in 1 .. n /\ carried'[i] = carried[i + 1]  BY <1>1
    <3>2. ASSUME NEW j \in (i + 1) + 1 .. n PROVE carried[j].e.kind = "seek"
      <4> DEFINE h == j - 1
      <4>1. h \in i + 1 .. Len(carried') /\ h \in 1 .. n - 1 /\ h + 1 = j  BY <1>1
      <4> HIDE DEF h
      <4>2. carried'[h] = carried[h + 1] /\ carried'[h].e.kind = "seek"  BY <1>1, <2>1, <4>1
      <4> QED  BY <4>1, <4>2
    <3>3. carried[i + 1].e.kind # "seek"  BY <2>1, <3>1
    <3>4. life = "Paused" <=> carried[i + 1].e.kind = "pause"  BY <1>6, <3>1, <3>2, <3>3
    <3>5. life' = life  OBVIOUS
    <3> QED  BY <3>1, <3>4, <3>5
  <2>2. ASSUME \A i \in 1 .. Len(carried') : carried'[i].e.kind = "seek"
        PROVE  hostPaused' = (life' = "Paused")
    <3>1. ASSUME NEW j \in 1 + 1 .. n PROVE carried[j].e.kind = "seek"
      <4> DEFINE h == j - 1
      <4>1. h \in 1 .. Len(carried') /\ h \in 1 .. n - 1 /\ h + 1 = j  BY <1>1
      <4> HIDE DEF h
      <4>2. carried'[h] = carried[h + 1] /\ carried'[h].e.kind = "seek"  BY <1>1, <2>2, <4>1
      <4> QED  BY <4>1, <4>2
    <3>2. CASE e.kind # "seek"
      <4>1. 1 \in 1 .. n  BY <1>1
      <4>2. life = "Paused" <=> e.kind = "pause"  BY <1>6, <3>1, <3>2, <4>1 DEF e
      <4>3. hostPaused' = (e.kind = "pause") /\ life' = life  BY <3>2 DEF e
      <4> QED  BY <4>2, <4>3
    <3>3. CASE e.kind = "seek"
      <4>1. \A i \in 1 .. n : i = 1 \/ i \in 1 + 1 .. n  BY <1>1
      <4>2. \A i \in 1 .. n : carried[i].e.kind = "seek"  BY <3>1, <3>3, <4>1 DEF e
      <4>3. hostPaused' = hostPaused /\ life' = life  BY <3>3 DEF e
      <4> QED  BY <1>6, <4>2, <4>3
    <3> QED  BY <3>2, <3>3
  <2>3. carried' # <<>> => ~carried'[1].snap  
    <3>1. carried' # <<>> => 1 \in 1 .. n - 1 /\ carried'[1] = carried[1 + 1]  BY <1>1, SeqFacts
    <3> QED  BY <1>5, <1>1, <3>1
  <2> QED  BY <1>1, <2>1, <2>2, <2>3 DEF Agreeing
<1> QED  BY <1>7, <1>8, <1>9, <1>10, <1>11

\* A number above all those seen from its sender is applied or has to wait.
LEMMA DedupOfNew ==
    ASSUME NEW d, NEW e, d.seen \in BOOLEAN, d.pend = NoEvent, d.last \in Nat, e.n \in Nat, e.n > d.last
    PROVE  LET v == EvaluateDedup(d, e)
           IN  \/ v.kind = "buffer"
               \/ v.kind = "apply" /\ v.drain = NoEvent /\ v.next = [seen |-> TRUE, last |-> e.n, pend |-> NoEvent]
<1>1. ~(e.n <= d.last)  OBVIOUS
<1>2. CASE e.n = 1 /\ (~d.seen \/ d.last > 1)  BY <1>2 DEF EvaluateDedup
<1>3. CASE ~(e.n = 1 /\ (~d.seen \/ d.last > 1)) /\ d.seen /\ e.n = d.last + 1
    BY <1>1, <1>3 DEF EvaluateDedup
<1>4. CASE ~(e.n = 1 /\ (~d.seen \/ d.last > 1)) /\ ~(d.seen /\ e.n = d.last + 1)
    BY <1>1, <1>4 DEF EvaluateDedup
<1> QED  BY <1>2, <1>3, <1>4

\* A PLAY or a PAUSE sets the play state and a SEEK keeps it.
LEMMA HostPausedTwice ==
    ASSUME NEW p, NEW kind \in Kinds
    PROVE  LET q == NextHostPaused(NextHostPaused(p, kind), kind)
           IN  /\ kind = "seek" => q = p
               /\ kind # "seek" => q = (kind = "pause")
<1>1. CASE kind = "play"  BY <1>1 DEF NextHostPaused
<1>2. CASE kind = "pause"  BY <1>2 DEF NextHostPaused
<1>3. CASE kind = "seek"
  <2>1. \A x : NextHostPaused(x, kind) = x  BY <1>3 DEF NextHostPaused
  <2> QED  BY <1>3, <2>1
<1> QED  BY <1>1, <1>2, <1>3 DEF Kinds

\* An event handed on is the newest the store knows of.
LEMMA PresentKnown ==
    ASSUME StoreTypes, NEW e \in Heard, Present(e), Known <= e.q
    PROVE  /\ lastApplied' \in {lastApplied, e} /\ pending' \in {pending, e} /\ Known' = e.q
<1>1. \/ lastApplied' = e /\ pending' = pending
      \/ lastApplied' = lastApplied /\ pending' = e
    BY DEF Present
<1>2. /\ e.q \in Nat /\ lastApplied.q \in Nat /\ pending.q \in Nat
      /\ lastApplied.q <= Known /\ pending.q <= Known /\ Known \in Nat
    BY KnownBounds DEF Heard
<1>3. CASE lastApplied' = e /\ pending' = pending
  <2>1. Known' = MaxOf(e.q, pending.q)  BY <1>3 DEF Known
  <2> QED  BY <1>2, <1>3, <2>1 DEF MaxOf
<1>4. CASE lastApplied' = lastApplied /\ pending' = e
  <2>1. Known' = MaxOf(lastApplied.q, e.q)  BY <1>4 DEF Known
  <2> QED  BY <1>2, <1>4, <2>1 DEF MaxOf
<1> QED  BY <1>1, <1>3, <1>4

\* The next event or summary reaches the store.
LEMMA DeliverFollows == ASSUME FollowInv, Deliver PROVE FollowInv'
<1>1. /\ carried # <<>> /\ carried' = Tail(carried)
      /\ UNCHANGED <<life, lastCmd, acked, joined, lost, renumbered>>
    BY DEF Deliver, serverVars
<1> DEFINE e == carried[1].e
<1> SUFFICES ASSUME Clear, ~buffered' PROVE StoreTypes' /\ Placed' /\ Numbered' /\ Contiguous' /\ Agreeing'
  <2>1. Clear' => Clear /\ ~buffered'
    <3>1. buffered => buffered'
      BY DEF Deliver, AcceptEvent, SeedFromSnapshot, store
    <3> QED  BY <1>1, <3>1 DEF Clear
  <2> QED  BY <2>1 DEF FollowInv
<1>2. StoreTypes /\ Placed /\ Numbered /\ Contiguous /\ Agreeing  BY DEF FollowInv
<1>3. /\ Head(carried) = carried[1] /\ e \in Heard /\ e.n <= acked[e.s]
      /\ ~carried[1].snap => e.n > dedup[e.s].last
      /\ Known <= e.q
      /\ ~carried[1].snap => Known + 1 = e.q
    BY <1>1, <1>2, FirstTaken
<1>4. /\ e.s \in Senders /\ e.n \in Nat /\ e.q \in Nat /\ e.kind \in Kinds
      /\ dedup[e.s].pend = NoEvent /\ dedup[e.s].last \in Nat /\ dedup[e.s].seen \in BOOLEAN
      /\ lastQ \in Nat /\ Known \in Nat /\ lastQ <= Known
    BY <1>2, <1>3, KnownBounds DEF Heard, StoreTypes, Numbered, Contiguous
<1>5. \A r \in Senders : dedup[r].pend = NoEvent  BY <1>2 DEF Numbered
<1>6. ASSUME NEW d \in [seen : BOOLEAN, last : Nat, pend : {NoEvent}],
             d.last <= dedup[e.s].last \/ d.last <= e.n,
             dedup' = [dedup EXCEPT ![e.s] = d],
             Present(e), lastQ' = lastQ,
             e.kind = "seek" => hostPaused' = hostPaused,
             e.kind # "seek" => hostPaused' = (e.kind = "pause")
      PROVE  StoreTypes' /\ Placed' /\ Numbered' /\ Contiguous' /\ Agreeing'
  <2>1. lastApplied' \in {lastApplied, e} /\ pending' \in {pending, e} /\ Known' = e.q
      BY <1>2, <1>3, <1>6, PresentKnown
  <2>2. /\ dedup' \in [Senders -> [seen : BOOLEAN, last : Nat, pend : Heard \cup {NoEvent}]]
        /\ dedup'[e.s] = d /\ \A r \in Senders \ {e.s} : dedup'[r] = dedup[r]
      BY <1>2, <1>4, <1>6, SMT DEF StoreTypes
  <2>3. ASSUME NEW r \in Senders
        PROVE  /\ dedup'[r].pend = NoEvent
               /\ \/ dedup'[r].last <= dedup[r].last
                  \/ r = e.s /\ dedup'[r].last <= e.n
    <3>1. CASE r = e.s  BY <1>6, <2>2, <3>1
    <3>2. CASE r # e.s
      <4>1. dedup'[r] = dedup[r] /\ dedup[r].last \in Nat  BY <1>2, <2>2, <3>2 DEF StoreTypes
      <4> QED  BY <1>5, <4>1
    <3> QED  BY <3>1, <3>2
  <2> QED  BY <1>1, <1>2, <1>6, <2>1, <2>2, <2>3, Advanced
<1>7. CASE carried[1].snap
  <2>1. SeedFromSnapshot(e)  BY <1>3, <1>7 DEF Deliver
  <2>2. e.kind # "seek" /\ (Known = e.q => hostPaused = (e.kind = "pause"))
      BY <1>1, <1>2, <1>7 DEF Agreeing
  <2>3. CASE Passed(e)
    <3>1. UNCHANGED store  BY <2>1, <2>3 DEF SeedFromSnapshot
    <3>2. Known = e.q
      <4>1. lastApplied.q \in Nat /\ pending.q \in Nat /\ pending.q <= Known  BY <1>2, KnownBounds
      <4> QED  BY <1>3, <1>4, <2>3, <4>1 DEF Passed
    <3>3. Known' = e.q  BY <3>1, <3>2 DEF store, Known
    <3>4. \A r \in Senders : dedup'[r].pend = NoEvent /\ dedup'[r].last <= dedup[r].last
        BY <1>2, <1>5, <3>1 DEF store, StoreTypes
    <3>5. /\ dedup' \in [Senders -> [seen : BOOLEAN, last : Nat, pend : Heard \cup {NoEvent}]]
          /\ lastApplied' = lastApplied /\ pending' = pending /\ lastQ' = lastQ
          /\ hostPaused' = (e.kind = "pause")
        BY <1>2, <2>2, <3>1, <3>2 DEF store, StoreTypes
    <3> QED  BY <1>1, <1>2, <2>2, <3>3, <3>4, <3>5, Advanced
  <2>4. CASE ~Passed(e)
    <3>1. /\ dedup' = [dedup EXCEPT ![e.s] = Baseline(e)]
          /\ hostPaused' = (e.kind = "pause")
          /\ Present(e) /\ lastQ' = lastQ
        BY <1>4, <2>1, <2>4 DEF SeedFromSnapshot
    <3>2. /\ Baseline(e) \in [seen : BOOLEAN, last : Nat, pend : {NoEvent}]
          /\ Baseline(e).last <= dedup[e.s].last \/ Baseline(e).last <= e.n
        BY <1>4 DEF Baseline, MaxOf
    <3> QED  BY <1>6, <2>2, <3>1, <3>2
  <2> QED  BY <2>3, <2>4
<1>8. CASE ~carried[1].snap
  <2> DEFINE v == EvaluateDedup(dedup[e.s], e)
  <2>1. AcceptEvent(e)  BY <1>3, <1>8 DEF Deliver
  <2>2. ~(e.q <= lastQ)  BY <1>3, <1>4, <1>8
  <2>3. \/ v.kind = "buffer"
        \/ v.kind = "apply" /\ v.drain = NoEvent /\ v.next = [seen |-> TRUE, last |-> e.n, pend |-> NoEvent]
      BY <1>3, <1>4, <1>8, DedupOfNew
  <2> HIDE DEF v
  <2>4. v.kind # "buffer" /\ dedup' = [dedup EXCEPT ![e.s] = v.next] /\ lastQ' = lastQ
      BY <2>1, <2>2 DEF AcceptEvent, v
  <2>5. /\ hostPaused' = NextHostPaused(NextHostPaused(hostPaused, e.kind), MergeGapFill(e, v.drain).kind)
        /\ Present(MergeGapFill(e, v.drain))
      BY <2>1, <2>2, <2>3, <2>4 DEF AcceptEvent, v
  <2>6. v.drain = NoEvent /\ MergeGapFill(e, v.drain) = e  BY <2>3, <2>4 DEF MergeGapFill
  <2> DEFINE d == v.next
  <2>7. d \in [seen : BOOLEAN, last : Nat, pend : {NoEvent}] /\ d.last = e.n
    <3>1. d = [seen |-> TRUE, last |-> e.n, pend |-> NoEvent]  BY <2>3, <2>4
    <3> HIDE DEF d, e
    <3>2. e.n \in Nat  BY <1>4
    <3> QED  BY <3>1, <3>2
  <2>8. /\ hostPaused' = NextHostPaused(NextHostPaused(hostPaused, e.kind), e.kind) /\ Present(e)
      BY <2>5, <2>6
  <2>9. /\ e.kind = "seek" => hostPaused' = hostPaused
        /\ e.kind # "seek" => hostPaused' = (e.kind = "pause")
      BY <1>4, <2>8, HostPausedTwice
  <2>10. dedup' = [dedup EXCEPT ![e.s] = d] /\ lastQ' = lastQ  BY <2>4
  <2>11. d.last <= dedup[e.s].last \/ d.last <= e.n  BY <1>4, <2>7
  <2> HIDE DEF d
  <2> QED  BY <1>6, <2>7, <2>8, <2>9, <2>10, <2>11
<1> QED  BY <1>7, <1>8

\* The initial state: nothing was accepted and nothing is known.
LEMMA FollowInit == ASSUME ViewerInit PROVE FollowInv
<1>1. /\ life = "Open" /\ lastCmd = NoEvent /\ acked = [s \in Senders |-> 0]
      /\ joined = FALSE /\ carried = <<>>
      /\ lastApplied = NoEvent /\ hostPaused = FALSE /\ pending = NoEvent
      /\ lastQ = 0 /\ dedup = [s \in Senders |-> NoSender]
    BY DEF ViewerInit
<1>2. Known = 0 /\ lastCmd.q = 0
  <2>1. Known = MaxOf(0, 0)  BY <1>1, NoEventIsNew DEF Known
  <2> QED  BY <1>1, <2>1, NoEventIsNew DEF MaxOf
<1>3. Len(carried) = 0 /\ carried \in Seq(Items)  BY <1>1
<1>4. \A s \in Senders : dedup[s].pend = NoEvent /\ dedup[s].last = 0 /\ acked[s] = 0  BY <1>1 DEF NoSender
<1>5. StoreTypes
  <2>1. dedup \in [Senders -> [seen : BOOLEAN, last : Nat, pend : Heard \cup {NoEvent}]]
      BY <1>1, SMT DEF NoSender
  <2> QED  BY <1>1, <1>3, <2>1 DEF StoreTypes
<1>6. Placed  BY <1>1, <1>3, NoEventIsNew, SMT DEF Placed
<1>7. Numbered  BY <1>1, <1>3, <1>4, SMT DEF Numbered
<1>8. Contiguous  BY <1>1, <1>2, <1>3, SMT DEF Contiguous
<1>9. Agreeing
  <2>1. hostPaused = (life = "Paused")  BY <1>1
  <2> QED  BY <1>1, <1>3, <2>1 DEF Agreeing
<1> QED  BY <1>5, <1>6, <1>7, <1>8, <1>9 DEF FollowInv

\* Every step keeps the invariant.
LEMMA FollowStep == ASSUME FollowInv, [ViewerNext]_viewerVars PROVE FollowInv'
<1> USE DEF serverVars, deliveryVars, store, player, followVars
<1>1. ASSUME NEW s \in Senders, NEW kind \in Kinds, HandlePlaybackCmd(s, kind) PROVE FollowInv'
    BY <1>1, CommandFollows
<1>2. ASSUME NEW s \in Senders, SenderRejoins(s) PROVE FollowInv'
    BY <1>2 DEF SenderRejoins, FollowInv, Clear
<1>3. CASE Connect  BY <1>3, ConnectFollows
<1>4. CASE Disconnect  BY <1>4, DisconnectFollows
<1>5. CASE Lag  BY <1>5 DEF Lag, FollowInv, Clear
<1>6. CASE Deliver  BY <1>6, DeliverFollows
<1>7. ASSUME NEW out \in SUBSET Senders, TickDedup(out) PROVE FollowInv'
  <2>1. PICK s \in out : dedup[s].pend # NoEvent  BY <1>7 DEF TickDedup
  <2>2. ~Clear  BY <2>1 DEF FollowInv, Numbered
  <2> QED  BY <1>7, <2>2 DEF TickDedup, FollowInv, Clear
<1>8. CASE LeaveAndJoin  BY <1>8, LeaveFollows
<1>9. CASE Mount  BY <1>9, FollowFrame DEF Mount
<1>10. CASE Unmount  BY <1>10, FollowFrame DEF Unmount
<1>11. CASE MediaReady  BY <1>11, FollowFrame DEF MediaReady
<1>12. CASE SwitchFile  BY <1>12, FollowFrame DEF SwitchFile
<1>13. CASE ApplyEffect  BY <1>13, ApplyFollows
<1>14. CASE DrainEffect  BY <1>14, DrainFollows
<1>15. CASE LocalSeek  BY <1>15, FollowFrame DEF LocalSeek
<1>16. CASE UNCHANGED viewerVars  BY <1>16, FollowFrame DEF viewerVars
<1> QED  BY <1>1, <1>2, <1>3, <1>4, <1>5, <1>6, <1>7, <1>8, <1>9, <1>10, <1>11, <1>12, <1>13,
            <1>14, <1>15, <1>16 DEF ViewerNext

\* What the invariant says of a viewer that has caught up.
LEMMA FollowMeansInStep == ASSUME FollowInv PROVE StoreFollows
<1> SUFFICES ASSUME Caught, Clear PROVE InStep  BY DEF StoreFollows, Clear
<1>1. StoreTypes /\ Placed /\ Numbered /\ Contiguous /\ Agreeing  BY DEF FollowInv
<1>2. joined /\ Len(carried) = 0 /\ carried = <<>>  BY DEF Caught
<1>3. hostPaused = (life = "Paused")  BY <1>1, <1>2, SMT DEF Agreeing
<1>4. /\ lastApplied.q \in Nat /\ pending.q \in Nat /\ lastCmd.q \in Nat /\ Known \in Nat
      /\ lastApplied.q <= Known /\ pending.q <= Known
      /\ Known = lastApplied.q \/ Known = pending.q
    BY <1>1, KnownBounds
<1>5. Known = lastCmd.q  BY <1>1, <1>2, <1>4, SMT DEF Contiguous
<1> DEFINE es == {lastApplied, pending}
<1>6. \E e \in es : \A f \in es : f.q <= e.q  BY <1>4
<1>7. Newest(es) \in es /\ \A f \in es : f.q <= Newest(es).q  BY <1>6 DEF Newest
<1>8. Newest(es).q = Known /\ Newest(es).pos = Newest(es).q  BY <1>1, <1>4, <1>7 DEF Placed
<1>9. Newest(es).pos = lastCmd.pos  BY <1>1, <1>5, <1>8 DEF Placed
<1> QED  BY <1>3, <1>9 DEF InStep

\* A viewer that has received all that was sent to it knows the room's play
\* state and place (Viewer.StoreFollows), for any senders, however many
\* commands, reconnects, leaves and remounts.
THEOREM StoreKeepsUp == ViewerSpec => []StoreFollows
<1>1. ViewerInit => FollowInv  BY FollowInit
<1>2. FollowInv /\ [ViewerNext]_viewerVars => FollowInv'  BY FollowStep
<1>3. FollowInv => StoreFollows  BY FollowMeansInStep
<1> QED  BY <1>1, <1>2, <1>3, PTL DEF ViewerSpec

-----------------------------------------------------------------------------
(* The room's feed.                                                        *)


-----------------------------------------------------------------------------
(* The inductive invariant.                                                *)

\* The room's drawing sequence just before item i was published.
Before(i) == IF i = 1 THEN Base ELSE log[i - 1].at

\* The numbers in the channel are contiguous and in publish order.
LogInv ==
    /\ seq = Before(Len(log) + 1)
    /\ \A i \in 1 .. Len(log) :
          log[i].at = IF log[i].draw THEN Before(i) + 1 ELSE Before(i)
    /\ \A i, j \in 1 .. Len(log) + 1 : i <= j => Before(i) <= Before(j)
    /\ \A i \in 1 .. Len(log) : log[i].own => log[i].draw /\ log[i].at \in canvas

\* The item the feed looks at next.
Front == IF held # 0 THEN held ELSE pos

\* The feed's fields among themselves, and the bounds on what the client has.
FieldInv ==
    /\ floor <= seq /\ lastSeen <= seq /\ clientSeq <= seq
    /\ feedOn => /\ since <= Before(pos)
                 /\ clientSeq <= Larger(floor, Before(Front))
    /\ held # 0 => held = pos - 1
    /\ syncPending => ~lagged /\ held # 0

\* What is in the forwarder's hands came out last.
HandInv ==
    /\ hand.kind = "event" =>
         /\ feedOn /\ ~lagged /\ ~syncPending /\ held = 0
         /\ hand.n = pos - 1 /\ hand.n # 0
         /\ log[hand.n].draw /\ ~log[hand.n].own => log[hand.n].at > clientSeq
    /\ hand.kind = "sync" =>
         feedOn /\ ~lagged /\ ~syncPending /\ hand.n <= floor

\* A receiver on its way to the forwarder starts after all the client has.
MailInv ==
    mail.kind = "rx" =>
        /\ mail.since = Before(mail.pos)
        /\ clientSeq <= mail.since
        /\ hand.kind = "event" => log[hand.n].at <= mail.since
        /\ hand.kind = "sync" => hand.n <= mail.since

\* Event e has reached the client, was refused, or is being forwarded.
Accounted(e) ==
    \/ e \in canvas \cup withheld
    \/ hand.kind = "event" /\ log[hand.n].draw /\ e = log[hand.n].at
    \/ hand.kind = "sync" /\ e <= hand.n

\* Nothing the feed believes the client has is missing; and with no lag to
\* settle, nothing before the next item is missing.
CoverInv ==
    /\ open /\ feedOn => \A e \in since + 1 .. Have : Accounted(e)
    /\ open /\ feedOn /\ ~lagged /\ ~syncPending =>
          \A e \in since + 1 .. Before(Front) : Accounted(e)
    /\ feedOn => \A e \in since + 1 .. clientSeq : e \in canvas \cup withheld

FeedInv == LogInv /\ FieldInv /\ HandInv /\ MailInv /\ CoverInv

-----------------------------------------------------------------------------
(* The log.                                                                *)

\* What a state says about Before.
LEMMA BeforeTypes ==
    ASSUME TypeOK, LogInv
    PROVE  /\ Len(log) \in Nat /\ Base \in Nat
           /\ \A i \in 1 .. Len(log) : log[i] \in Item
           /\ \A i \in 1 .. Len(log) + 1 : Before(i) \in Nat /\ Before(i) <= seq
           /\ \A i \in 1 .. Len(log) : log[i].at = Before(i + 1)
           /\ \A i \in 1 .. Len(log) : Before(i) <= Before(i + 1)
           /\ \A i \in 1 .. Len(log) : log[i].draw => Before(i + 1) = Before(i) + 1
           /\ \A i \in 1 .. Len(log) : ~log[i].draw => Before(i + 1) = Before(i)
<1>1. Len(log) \in Nat /\ Base \in Nat
  BY FeedAssumption DEF TypeOK
<1>2. \A i \in 1 .. Len(log) : log[i] \in Item
  BY DEF TypeOK
<1>3. \A i \in 1 .. Len(log) + 1 : Before(i) \in Nat
  BY <1>1, <1>2 DEF Before, Item
<1>4. \A i \in 1 .. Len(log) + 1 : Before(i) <= seq
  BY <1>1 DEF LogInv
<1>5. \A i \in 1 .. Len(log) : log[i].at = Before(i + 1)
  BY <1>1 DEF Before
<1>6. \A i \in 1 .. Len(log) : Before(i) <= Before(i + 1)
  BY <1>1 DEF LogInv
<1>7. \A i \in 1 .. Len(log) : /\ log[i].draw => Before(i + 1) = Before(i) + 1
                               /\ ~log[i].draw => Before(i + 1) = Before(i)
  BY <1>5 DEF LogInv
<1> QED
  BY <1>1, <1>2, <1>3, <1>4, <1>5, <1>6, <1>7

\* A step that publishes nothing and takes nothing off the canvas.
LEMMA LogFrame ==
    ASSUME LogInv, log' = log, seq' = seq, canvas \subseteq canvas'
    PROVE  LogInv' /\ \A i : Before(i)' = Before(i)
<1>1. \A i : Before(i)' = Before(i)
  BY DEF Before
<1>2. seq' = Before(Len(log) + 1)'
  BY <1>1 DEF LogInv
<1>3. \A i \in 1 .. Len(log') :
          log'[i].at = IF log'[i].draw THEN Before(i)' + 1 ELSE Before(i)'
  BY <1>1 DEF LogInv
<1>4. \A i, j \in 1 .. Len(log') + 1 : i <= j => Before(i)' <= Before(j)'
  BY <1>1 DEF LogInv
<1>5. \A i \in 1 .. Len(log') : log'[i].own => log'[i].draw /\ log'[i].at \in canvas'
  BY DEF LogInv
<1> QED
  BY <1>1, <1>2, <1>3, <1>4, <1>5 DEF LogInv, Before

\* The feed and what it knows are untouched.
LEMMA Untouched ==
    ASSUME TypeOK, FeedInv, UNCHANGED <<roomVars, feedVars, hand, clientVars>>
    PROVE  LogInv' /\ FieldInv' /\ HandInv' /\ CoverInv'
<1>1. LogInv' /\ \A i : Before(i)' = Before(i)
  BY LogFrame DEF FeedInv, roomVars, clientVars
<1>2. FieldInv' /\ HandInv'
  BY <1>1 DEF FeedInv, FieldInv, HandInv, Front, Larger, Before, roomVars, feedVars, clientVars
<1>3. CoverInv'
  BY DEF FeedInv, CoverInv, Accounted, Front, Have, Larger, Before, roomVars, feedVars, clientVars
<1> QED
  BY <1>1, <1>2, <1>3

\* Publishing appends one number and keeps what was there.
LEMMA PublishStep ==
    ASSUME TypeOK, FeedInv, NEW draw \in BOOLEAN, NEW own \in BOOLEAN, Publish(draw, own)
    PROVE  TypeOK' /\ FeedInv'
<1> DEFINE at == IF draw THEN seq + 1 ELSE seq
<1>1. /\ at \in Nat /\ seq <= at /\ seq' = at
      /\ log' = Append(log, [draw |-> draw, own |-> own, at |-> at])
      /\ canvas' = IF own THEN canvas \cup {at} ELSE canvas
      /\ own => draw
      /\ UNCHANGED <<open, subVars, feedVars, hand, clientSeq, withheld>>
  BY DEF Publish, TypeOK
<1> HIDE DEF at
<1>2. /\ log' \in Seq(Item) /\ Len(log') = Len(log) + 1 /\ Len(log) \in Nat
      /\ \A i \in 1 .. Len(log) : log'[i] = log[i]
      /\ log'[Len(log) + 1] = [draw |-> draw, own |-> own, at |-> at]
  BY <1>1 DEF TypeOK, Item
<1>3. TypeOK'
  BY <1>1, <1>2 DEF TypeOK, subVars, feedVars
<1>4. /\ \A i \in 1 .. Len(log) + 1 : Before(i)' = Before(i)
      /\ \A i : i = Len(log) + 2 => Before(i)' = at
  BY <1>2 DEF Before
<1>5. LogInv'
  <2>0. LogInv
    BY DEF FeedInv
  <2>1. seq' = Before(Len(log) + 1)'
    BY <1>1, <1>2 DEF Before
  <2>2. \A i \in 1 .. Len(log') :
           log'[i].at = IF log'[i].draw THEN Before(i)' + 1 ELSE Before(i)'
    BY <1>1, <1>2, <1>4, <2>0 DEF LogInv, at
  <2>3. \A i, j \in 1 .. Len(log') + 1 : i <= j => Before(i)' <= Before(j)'
    <3> SUFFICES ASSUME NEW i \in 1 .. Len(log) + 2, NEW j \in 1 .. Len(log) + 2, i <= j
                 PROVE  Before(i)' <= Before(j)'
      BY <1>2
    <3>1. CASE j <= Len(log) + 1
      BY <1>2, <1>4, <2>0, <3>1 DEF LogInv
    <3>2. CASE j = Len(log) + 2 /\ i <= Len(log) + 1
      <4>1. Before(i) \in Nat /\ Before(i) <= seq
        BY <1>2, <2>0, <3>2, BeforeTypes
      <4> QED
        BY <1>1, <1>2, <1>4, <3>2, <4>1 DEF TypeOK
    <3>3. CASE j = Len(log) + 2 /\ i = Len(log) + 2
      BY <1>1, <1>4, <3>3
    <3> QED
      BY <1>2, <3>1, <3>2, <3>3
  <2>4. \A i \in 1 .. Len(log') : log'[i].own => log'[i].draw /\ log'[i].at \in canvas'
    BY <1>1, <1>2, <2>0 DEF LogInv
  <2> QED
    BY <1>2, <2>1, <2>2, <2>3, <2>4 DEF LogInv
<1>6. /\ Before(pos)' = Before(pos) /\ Before(Front)' = Before(Front)
      /\ Before(mail.pos)' = Before(mail.pos)
      /\ hand.kind = "event" => log'[hand.n] = log[hand.n]
  <2>1. Front \in 1 .. Len(log) + 1 /\ Front' = Front
    BY <1>1, <1>2 DEF Front, TypeOK, feedVars
  <2>2. hand.kind = "event" => hand.n \in 1 .. Len(log)
    BY <1>2 DEF FeedInv, HandInv, TypeOK
  <2> QED
    BY <1>1, <1>2, <1>4, <2>1, <2>2 DEF TypeOK, subVars, feedVars
<1>7. FieldInv'
  BY <1>1, <1>6 DEF FeedInv, FieldInv, TypeOK, feedVars
<1>8. HandInv'
  BY <1>1, <1>6 DEF FeedInv, HandInv, feedVars
<1>9. MailInv'
  BY <1>1, <1>6 DEF FeedInv, MailInv, subVars
<1>10. \A e : Accounted(e) => Accounted(e)'
  BY <1>1, <1>6 DEF Accounted
<1>11. CoverInv'
  <2>1. Have' = Have
    BY <1>1 DEF Have, feedVars
  <2> QED
    BY <1>1, <1>6, <1>10, <2>1 DEF FeedInv, CoverInv, feedVars
<1> QED
  BY <1>3, <1>5, <1>7, <1>8, <1>9, <1>11 DEF FeedInv

-----------------------------------------------------------------------------
(* The room and the connection loop.                                       *)

\* remove_room leaves the feed what it was.
LEMMA CloseStep ==
    ASSUME TypeOK, FeedInv, CloseRoom
    PROVE  TypeOK' /\ FeedInv'
<1> USE DEF CloseRoom
<1>1. TypeOK'
  BY DEF TypeOK, subVars, feedVars, clientVars
<1>2. LogInv'
  BY LogFrame DEF FeedInv, clientVars
<1>3. FieldInv' /\ HandInv'
  BY DEF FeedInv, FieldInv, HandInv, Front, Larger, Before, feedVars, clientVars
<1>4. MailInv'
  BY DEF FeedInv, MailInv, Before, subVars, clientVars
<1>5. CoverInv'
  BY DEF FeedInv, CoverInv, feedVars, clientVars
<1> QED
  BY <1>1, <1>2, <1>3, <1>4, <1>5 DEF FeedInv

\* Membership comes and goes without the feed.
LEMMA MemberStep ==
    ASSUME TypeOK, FeedInv, PresenceTimeout \/ Revive
    PROVE  TypeOK' /\ FeedInv'
<1>1. /\ UNCHANGED <<roomVars, subscribed, mail, feedVars, hand, clientVars>>
      /\ member' \in BOOLEAN /\ away' \in Nat
  <2>1. CASE PresenceTimeout
    <3>1. away' \in Nat
      BY <2>1 DEF PresenceTimeout, TypeOK
    <3> QED
      BY <2>1, <3>1, Zenon DEF PresenceTimeout
  <2>2. CASE Revive
    BY <2>2 DEF Revive, TypeOK
  <2> QED
    BY <2>1, <2>2
<1>2. TypeOK'
  BY <1>1 DEF TypeOK, roomVars, feedVars, clientVars
<1>3. LogInv' /\ FieldInv' /\ HandInv' /\ CoverInv'
  BY <1>1, Untouched
<1>4. MailInv'
  BY <1>1 DEF FeedInv, MailInv, Before, roomVars, clientVars
<1> QED
  BY <1>2, <1>3, <1>4 DEF FeedInv

\* A fresh receiver starts at the end of the channel.
LEMMA SubscriptionStep ==
    ASSUME TypeOK, FeedInv, SyncSubscription
    PROVE  TypeOK' /\ FeedInv'
<1>1. /\ UNCHANGED <<roomVars, member, away, feedVars, hand, clientVars>>
      /\ subscribed' \in BOOLEAN
      /\ \/ mail' = [kind |-> "drop", pos |-> 1, since |-> 0]
         \/ mail' = [kind |-> "rx", pos |-> Len(log) + 1, since |-> seq]
  BY DEF SyncSubscription, NoMail
<1>2. Len(log) \in Nat /\ seq \in Nat
  BY DEF TypeOK
<1>3. TypeOK'
  BY <1>1, <1>2 DEF TypeOK, roomVars, feedVars, clientVars
<1>4. LogInv' /\ FieldInv' /\ HandInv' /\ CoverInv'
  BY <1>1, Untouched
<1>5. ASSUME mail'.kind = "rx" PROVE MailInv'
  <2>1. mail' = [kind |-> "rx", pos |-> Len(log) + 1, since |-> seq]
    BY <1>1, <1>5
  <2>2. mail'.since = Before(mail.pos)'
    BY <1>1, <2>1 DEF FeedInv, LogInv, Before, roomVars
  <2>3. clientSeq' <= mail'.since
    BY <1>1, <2>1 DEF FeedInv, FieldInv, clientVars
  <2>4. hand.kind = "event" => log[hand.n].at <= seq
    <3> SUFFICES ASSUME hand.kind = "event" PROVE log[hand.n].at <= seq
      OBVIOUS
    <3>1. hand.n \in 1 .. Len(log)
      BY <1>2 DEF FeedInv, HandInv, TypeOK
    <3>2. log[hand.n].at = Before(hand.n + 1) /\ hand.n + 1 \in 1 .. Len(log) + 1
      BY <1>2, <3>1, BeforeTypes DEF FeedInv
    <3> QED
      BY <1>2, <3>2, BeforeTypes DEF FeedInv
  <2>5. hand.kind = "sync" => hand.n <= seq
    BY DEF FeedInv, HandInv, FieldInv, TypeOK
  <2> QED
    BY <1>1, <2>1, <2>2, <2>3, <2>4, <2>5 DEF MailInv, roomVars
<1> QED
  BY <1>3, <1>4, <1>5 DEF FeedInv, MailInv

\* The forwarder starts over with the receiver it was sent.
LEMMA TakeStep ==
    ASSUME TypeOK, FeedInv, TakeSubscription
    PROVE  TypeOK' /\ FeedInv'
<1> USE DEF TakeSubscription
<1>1. TypeOK'
  <2>1. /\ feedOn' \in BOOLEAN /\ lagged' \in BOOLEAN /\ syncPending' \in BOOLEAN
        /\ cooling' \in BOOLEAN
    BY Zenon
  <2>2. /\ log' = log /\ Len(log) \in Nat
        /\ mail' \in [kind : {"none", "drop", "rx"}, pos : 1 .. Len(log) + 1, since : Nat]
        /\ since' \in Nat /\ pos' \in 1 .. Len(log) + 1
        /\ floor' \in Nat /\ lastSeen' \in Nat /\ held' \in 0 .. Len(log)
    BY DEF TypeOK, NoMail, roomVars
  <2> HIDE DEF TakeSubscription
  <2>3. UNCHANGED <<roomVars, member, away, subscribed, hand, clientVars>>
    BY DEF TakeSubscription
  <2> QED
    BY <2>1, <2>2, <2>3 DEF TypeOK, roomVars, clientVars
<1>2. LogInv' /\ \A i : Before(i)' = Before(i)
  BY LogFrame DEF FeedInv, roomVars, clientVars
<1>3. /\ mail.since \in Nat /\ clientSeq \in Nat /\ seq \in Nat
      /\ mail.kind = "rx" => mail.since = Before(mail.pos) /\ clientSeq <= mail.since
  BY DEF TypeOK, FeedInv, MailInv
<1>4. /\ feedOn' => since' = Before(pos)' /\ clientSeq' <= since' /\ Front' = pos'
      /\ Have' = 0 /\ held' = 0 /\ since' \in Nat
  BY <1>3 DEF Front, Have, Larger, Before, clientVars, roomVars
<1>5. FieldInv'
  BY <1>1, <1>3, <1>4 DEF FeedInv, FieldInv, Larger, TypeOK, roomVars, clientVars
<1>6. HandInv' /\ MailInv'
  BY DEF HandInv, MailInv, NoMail
<1>7. CoverInv'
  <2>1. feedOn' => /\ since' + 1 .. Have' = {}
                   /\ since' + 1 .. Before(Front)' = {}
                   /\ since' + 1 .. clientSeq' = {}
    <3>1. SUFFICES ASSUME feedOn'
                   PROVE  /\ since' \in Nat /\ Have' <= since'
                          /\ Before(Front)' = since' /\ clientSeq' <= since'
                          /\ Have' \in Int /\ clientSeq' \in Int
      OBVIOUS
    <3>2. Before(Front)' = since'
      BY <1>4, <3>1 DEF Before
    <3>3. clientSeq' \in Int
      BY <1>1 DEF TypeOK
    <3> QED
      BY <1>4, <3>1, <3>2, <3>3
  <2> QED
    BY <2>1 DEF CoverInv
<1> QED
  BY <1>1, <1>2, <1>5, <1>6, <1>7 DEF FeedInv

-----------------------------------------------------------------------------
(* RoomFeed::next.                                                         *)

\* What FeedReady and the invariant say about the feed's next item.
LEMMA FrontTypes ==
    ASSUME TypeOK, FeedInv
    PROVE  /\ Front \in 1 .. Len(log) + 1 /\ Len(log) \in Nat
           /\ Before(Front) \in Nat /\ Before(Front) <= seq /\ seq \in Nat
           /\ Have \in Nat /\ Have <= seq /\ floor <= Have /\ lastSeen <= Have
           /\ hand.kind = "event" => hand.n \in 1 .. Len(log)
<1>1. Len(log) \in Nat /\ seq \in Nat
  BY DEF TypeOK
<1>2. Front \in 1 .. Len(log) + 1
  BY <1>1 DEF Front, TypeOK
<1>3. Before(Front) \in Nat /\ Before(Front) <= seq
  BY <1>2, BeforeTypes DEF FeedInv
<1>4. Have \in Nat /\ Have <= seq /\ floor <= Have /\ lastSeen <= Have
  BY DEF TypeOK, FeedInv, FieldInv, Have, Larger
<1>5. hand.kind = "event" => hand.n \in 1 .. Len(log)
  BY <1>1 DEF FeedInv, HandInv, TypeOK
<1> QED
  BY <1>1, <1>2, <1>3, <1>4, <1>5

\* The item leaves the feed, to the forwarder or skipped as covered by a
\* DRAW_SYNC, with nothing before it missing.
LEMMA EmitStep ==
    ASSUME TypeOK, FeedInv, FeedReady, NEW i \in 1 .. Len(log), i = Front, Emit(i),
           open => \A e \in since + 1 .. Before(i) : Accounted(e),
           pos' = i + 1, held' = 0, lagged' = FALSE, syncPending' = FALSE,
           UNCHANGED <<roomVars, subVars, feedOn, since, floor, cooling, clientVars>>
    PROVE  TypeOK' /\ FeedInv'
<1> USE DEF FeedReady
<1>1. /\ Len(log) \in Nat /\ seq \in Nat /\ floor \in Nat /\ lastSeen \in Nat
      /\ since \in Nat /\ clientSeq \in Nat
      /\ Before(i) \in Nat /\ Before(i + 1) \in Nat /\ Before(i + 1) <= seq
      /\ log[i].at = Before(i + 1) /\ Before(i) <= Before(i + 1)
      /\ log[i].draw => Before(i + 1) = Before(i) + 1
      /\ ~log[i].draw => Before(i + 1) = Before(i)
  <2>1. Len(log) \in Nat /\ i + 1 \in 1 .. Len(log) + 1 /\ i \in 1 .. Len(log) + 1
    BY DEF TypeOK
  <2> QED
    BY <2>1, BeforeTypes DEF TypeOK, FeedInv
<1>2. LogInv' /\ \A j : Before(j)' = Before(j)
  BY LogFrame DEF FeedInv, roomVars, clientVars
<1>3. /\ Wire(i) \in Nat /\ Wire(i) <= Before(i + 1)
      /\ log[i].draw => Wire(i) = Before(i + 1)
      /\ ~log[i].draw => Wire(i) = 0
  BY <1>1 DEF Wire
<1>4. /\ Front' = i + 1 /\ Before(Front)' = Before(i + 1) /\ Before(pos)' = Before(i + 1)
  BY <1>1, <1>2 DEF Front, Before, roomVars
<1>5. /\ lastSeen' \in Nat /\ lastSeen' <= seq
      /\ \/ hand' = hand /\ lastSeen' = lastSeen /\ log[i].draw /\ Before(i + 1) <= floor
         \/ /\ hand' = [kind |-> "event", n |-> i]
            /\ lastSeen' = Larger(lastSeen, Wire(i))
            /\ log[i].draw => Before(i + 1) > floor
  BY <1>1, <1>3 DEF Emit, Larger, FeedInv, FieldInv
<1>6. TypeOK'
  <2>1. hand' \in [kind : {"none", "event", "sync"}, n : Nat]
    BY <1>1, <1>5 DEF TypeOK
  <2>2. lagged' \in BOOLEAN /\ syncPending' \in BOOLEAN
    BY Zenon
  <2>3. pos' \in 1 .. Len(log) + 1 /\ held' \in 0 .. Len(log)
    BY <1>1
  <2> QED
    BY <1>5, <2>1, <2>2, <2>3 DEF TypeOK, roomVars, subVars, clientVars
<1>7. FieldInv'
  <2>1. since <= Before(i + 1)
    BY <1>1 DEF FeedInv, FieldInv, Front, TypeOK
  <2>2. clientSeq <= Larger(floor, Before(i + 1))
    BY <1>1 DEF FeedInv, FieldInv, Larger
  <2> QED
    BY <1>1, <1>4, <1>5, <2>1, <2>2
       DEF FeedInv, FieldInv, roomVars, clientVars, Larger
<1>8. HandInv'
  <2>1. CASE hand' = hand
    BY <2>1 DEF HandInv
  <2>2. CASE hand' = [kind |-> "event", n |-> i]
    <3>1. log[i].draw => log[i].at > clientSeq
      BY <1>1, <1>5, <2>2 DEF FeedInv, FieldInv, Larger
    <3> QED
      BY <1>1, <2>2, <3>1 DEF HandInv, roomVars, clientVars
  <2> QED
    BY <1>5, <2>1, <2>2
<1>9. MailInv'
  BY DEF MailInv, subVars
<1>10. ASSUME open PROVE \A e \in since + 1 .. Before(i + 1) : Accounted(e)'
  <2>1. CASE hand' = hand /\ Before(i + 1) <= floor
    <3>1. \A e \in since + 1 .. Have : Accounted(e)
      BY <1>10 DEF FeedInv, CoverInv
    <3>2. Before(i + 1) <= Have /\ Have \in Nat
      BY <1>1, <2>1, FrontTypes
    <3> QED
      BY <1>1, <2>1, <3>1, <3>2 DEF Accounted, roomVars, clientVars
  <2>2. CASE hand' = [kind |-> "event", n |-> i]
    <3> SUFFICES ASSUME NEW e \in since + 1 .. Before(i + 1) PROVE Accounted(e)'
      OBVIOUS
    <3>1. CASE e <= Before(i)
      <4>1. Accounted(e)
        BY <1>1, <1>10, <3>1
      <4> QED
        BY <4>1 DEF Accounted, clientVars
    <3>2. CASE log[i].draw /\ e = log[i].at
      BY <2>2, <3>2 DEF Accounted, roomVars
    <3> QED
      BY <1>1, <3>1, <3>2
  <2> QED
    BY <1>5, <2>1, <2>2
<1>11. ASSUME open PROVE \A e \in since + 1 .. Have' : Accounted(e)'
  <2>1. \A e \in since + 1 .. Have : Accounted(e)'
    <3>1. \A e \in since + 1 .. Have : Accounted(e)
      BY <1>11 DEF FeedInv, CoverInv
    <3> QED
      BY <3>1 DEF Accounted, clientVars
  <2>2. Have \in Nat /\ Have' \in Nat /\ (Have' <= Have \/ Have' <= Before(i + 1))
    BY <1>1, <1>3, <1>5 DEF Have, Larger
  <2> QED
    BY <1>1, <1>10, <1>11, <2>1, <2>2
<1>12. CoverInv'
  BY <1>4, <1>10, <1>11 DEF FeedInv, CoverInv, roomVars, clientVars
<1> QED
  BY <1>2, <1>6, <1>7, <1>8, <1>9, <1>12 DEF FeedInv

\* The item is kept back, for a snapshot or for the room lock.
LEMMA ParkStep ==
    ASSUME TypeOK, FeedInv, FeedReady, NEW i \in 1 .. Len(log), i = Front,
           pos' = i + 1, held' = i, lagged' \in BOOLEAN, syncPending' = ~lagged',
           UNCHANGED <<lastSeen, hand>>,
           UNCHANGED <<roomVars, subVars, feedOn, since, floor, cooling, clientVars>>
    PROVE  TypeOK' /\ FeedInv'
<1> USE DEF FeedReady
<1>1. TypeOK'
  BY DEF TypeOK, roomVars, subVars, clientVars
<1>2. LogInv' /\ \A j : Before(j)' = Before(j)
  BY LogFrame DEF FeedInv, roomVars, clientVars
<1>3. Front' = i /\ Before(Front)' = Before(i) /\ Before(pos)' = Before(i + 1)
  BY DEF Front, Before, roomVars
<1>4. Before(i) <= Before(i + 1) /\ Before(i) \in Nat /\ Before(i + 1) \in Nat
  <2>1. Len(log) \in Nat /\ i + 1 \in 1 .. Len(log) + 1 /\ i \in 1 .. Len(log) + 1
    BY DEF TypeOK
  <2> QED
    BY <2>1, BeforeTypes DEF FeedInv
<1>5. FieldInv'
  BY <1>1, <1>3, <1>4 DEF FeedInv, FieldInv, Front, TypeOK, Larger, roomVars, clientVars
<1>6. HandInv' /\ MailInv'
  BY DEF HandInv, MailInv, subVars
<1>7. CoverInv'
  BY DEF FeedInv, CoverInv, Accounted, Have, roomVars, clientVars
<1> QED
  BY <1>1, <1>2, <1>5, <1>6, <1>7 DEF FeedInv

\* A snapshot covers everything the room has drawn.
LEMMA SyncStep ==
    ASSUME TypeOK, FeedInv, FeedSync
    PROVE  TypeOK' /\ FeedInv'
<1>1. /\ feedOn /\ hand.kind = "none" /\ mail.kind = "none"
      /\ syncPending /\ ~lagged /\ held # 0
      /\ cooling' = TRUE /\ syncPending' = FALSE
      /\ UNCHANGED <<roomVars, subVars, feedOn, since, pos, lagged, held, clientVars>>
      /\ \/ /\ open /\ floor' = seq /\ lastSeen' = seq
            /\ hand' = [kind |-> "sync", n |-> seq]
         \/ ~open /\ UNCHANGED <<floor, lastSeen, hand>>
  BY DEF FeedSync, FeedReady, FeedInv, FieldInv, Larger, TypeOK
<1>2. TypeOK'
  <2>1. cooling' \in BOOLEAN /\ syncPending' \in BOOLEAN
    BY <1>1, Zenon
  <2>2. /\ hand' \in [kind : {"none", "event", "sync"}, n : Nat]
        /\ floor' \in Nat /\ lastSeen' \in Nat
    BY <1>1 DEF TypeOK
  <2> QED
    BY <1>1, <2>1, <2>2 DEF TypeOK, roomVars, subVars, clientVars
<1>3. LogInv' /\ \A i : Before(i)' = Before(i)
  BY <1>1, LogFrame DEF FeedInv, roomVars, clientVars
<1>4. /\ Front' = Front /\ Before(Front)' = Before(Front) /\ Before(pos)' = Before(pos)
      /\ Before(Front) \in Nat /\ Before(Front) <= seq /\ seq \in Nat
  BY <1>1, FrontTypes DEF Front, Before, roomVars
<1>5. FieldInv'
  BY <1>1, <1>4 DEF FeedInv, FieldInv, Larger, TypeOK, roomVars, clientVars
<1>6. HandInv' /\ MailInv'
  BY <1>1, <1>4 DEF HandInv, MailInv, subVars
<1>7. CoverInv'
  <2>1. CASE open
    <3>1. Have' = seq
      BY <1>1, <2>1 DEF Have, Larger
    <3>2. \A e \in since + 1 .. seq : Accounted(e)'
      BY <1>1, <2>1 DEF Accounted, TypeOK
    <3> QED
      BY <1>1, <1>4, <3>1, <3>2 DEF FeedInv, CoverInv, TypeOK, roomVars, clientVars
  <2>2. CASE ~open
    BY <1>1, <2>2 DEF FeedInv, CoverInv, roomVars, clientVars
  <2> QED
    BY <2>1, <2>2
<1> QED
  BY <1>2, <1>3, <1>5, <1>6, <1>7 DEF FeedInv

\* After a lag the receiver is further on, and nothing is promised about
\* what it skipped.
LEMMA LaggedStep ==
    ASSUME TypeOK, FeedInv, FeedLagged
    PROVE  TypeOK' /\ FeedInv'
<1>1. /\ feedOn /\ hand.kind = "none" /\ mail.kind = "none"
      /\ ~syncPending /\ held = 0 /\ lagged' = TRUE
      /\ pos' = Len(log) + 1 - Capacity /\ Len(log) >= pos + Capacity
      /\ UNCHANGED <<roomVars, subVars, feedOn, since, floor, lastSeen, syncPending,
                     held, cooling, hand, clientVars>>
  BY DEF FeedLagged, FeedReady, Overrun
<1>2. Len(log) \in Nat /\ Capacity \in Nat \ {0} /\ pos \in 1 .. Len(log) + 1
  BY FeedAssumption DEF TypeOK
<1>3. pos' \in 1 .. Len(log) + 1 /\ pos <= pos'
  BY <1>1, <1>2
<1>4. TypeOK'
  <2>1. lagged' \in BOOLEAN
    BY <1>1, Zenon
  <2> QED
    BY <1>1, <1>3, <2>1 DEF TypeOK, roomVars, subVars, clientVars
<1>5. LogInv' /\ \A i : Before(i)' = Before(i)
  BY <1>1, LogFrame DEF FeedInv, roomVars, clientVars
<1>6. /\ Front = pos /\ Front' = pos' /\ Before(Front)' = Before(pos')
      /\ Before(pos)' = Before(pos')
      /\ Before(pos) <= Before(pos') /\ Before(pos) \in Nat /\ Before(pos') \in Nat
  <2>1. Before(pos) <= Before(pos') /\ Before(pos) \in Nat /\ Before(pos') \in Nat
    BY <1>2, <1>3, BeforeTypes DEF FeedInv, LogInv
  <2> QED
    BY <1>1, <2>1 DEF Front, Before, roomVars
<1>7. FieldInv'
  BY <1>1, <1>6 DEF FeedInv, FieldInv, Larger, TypeOK, roomVars, clientVars
<1>8. HandInv' /\ MailInv'
  BY <1>1 DEF HandInv, MailInv, subVars
<1>9. CoverInv'
  BY <1>1 DEF FeedInv, CoverInv, Accounted, Have, roomVars, clientVars
<1> QED
  BY <1>4, <1>5, <1>7, <1>8, <1>9 DEF FeedInv

\* The verdict on a lag: nothing was lost, or a snapshot will replace it.
LEMMA JudgeStep ==
    ASSUME TypeOK, FeedInv, FeedReady, NEW i \in 1 .. Len(log), i = Front,
           NEW hole \in BOOLEAN, Judge(i, hole),
           ~hole /\ open => Before(i) <= Have,
           pos' = i + 1,
           UNCHANGED <<roomVars, subVars, feedOn, since, floor, cooling, clientVars>>
    PROVE  TypeOK' /\ FeedInv'
<1>1. CASE hole
  <2>1. /\ lagged' = FALSE /\ syncPending' = TRUE /\ held' = i
        /\ UNCHANGED <<lastSeen, hand>>
    BY <1>1 DEF Judge
  <2>2. lagged' \in BOOLEAN /\ syncPending' = ~lagged'
    BY <2>1, Zenon
  <2> QED
    BY <2>1, <2>2, ParkStep
<1>2. CASE ~hole
  <2>1. lagged' = FALSE /\ syncPending' = FALSE /\ held' = 0 /\ Emit(i)
    BY <1>2 DEF Judge
  <2>2. open => \A e \in since + 1 .. Before(i) : Accounted(e)
    <3> SUFFICES ASSUME open, NEW e \in since + 1 .. Before(i) PROVE Accounted(e)
      OBVIOUS
    <3>1. /\ Before(i) \in Nat /\ Have \in Nat /\ since \in Nat /\ Before(i) <= Have
      BY <1>2, FrontTypes DEF TypeOK
    <3>2. e \in since + 1 .. Have
      BY <3>1
    <3> QED
      BY <3>2 DEF FeedInv, CoverInv, FeedReady
  <2> QED
    BY <2>1, <2>2, EmitStep
<1> QED
  BY <1>1, <1>2

\* recv() returned an item.
LEMMA RecvStep ==
    ASSUME TypeOK, FeedInv, FeedRecv
    PROVE  TypeOK' /\ FeedInv'
<1>1. /\ FeedReady /\ feedOn /\ ~syncPending /\ held = 0 /\ pos' = pos + 1 /\ FeedItem(pos)
      /\ pos \in 1 .. Len(log) /\ Front = pos
      /\ UNCHANGED <<roomVars, subVars, feedOn, since, floor, cooling, clientVars>>
  BY DEF FeedRecv, FeedReady, Front, TypeOK
<1>2. CASE ~lagged /\ held' = 0 /\ Emit(pos) /\ UNCHANGED <<lagged, syncPending>>
  <2>1. lagged' = FALSE /\ syncPending' = FALSE
    BY <1>1, <1>2, Zenon DEF TypeOK
  <2>2. open => \A e \in since + 1 .. Before(pos) : Accounted(e)
    BY <1>1, <1>2 DEF FeedInv, CoverInv
  <2> QED
    BY <1>1, <1>2, <2>1, <2>2, EmitStep
<1>3. CASE log[pos].draw /\ Judge(pos, Wire(pos) > Have + 1)
  <2>1. /\ Before(pos) \in Nat /\ log[pos].at = Before(pos + 1)
        /\ Before(pos + 1) = Before(pos) + 1
        /\ Have \in Nat
    BY <1>1, <1>3, BeforeTypes, FrontTypes DEF FeedInv
  <2>2. ~(Wire(pos) > Have + 1) => Before(pos) <= Have
    BY <1>3, <2>1 DEF Wire
  <2> DEFINE hole == Wire(pos) > Have + 1
  <2>3. hole \in BOOLEAN
    BY <2>1, SMT
  <2>4. Judge(pos, hole) /\ (~hole => Before(pos) <= Have)
    BY <1>3, <2>2
  <2> HIDE DEF hole
  <2> QED
    BY <1>1, <2>3, <2>4, JudgeStep
<1>4. CASE /\ lagged /\ ~log[pos].draw /\ held' = pos
           /\ UNCHANGED <<lagged, syncPending, lastSeen, hand>>
  <2>1. lagged' = lagged /\ syncPending' = syncPending /\ lagged /\ ~syncPending
    BY <1>1, <1>4
  <2>2. lagged' \in BOOLEAN /\ syncPending' \in BOOLEAN
    BY <2>1, Zenon DEF TypeOK
  <2>3. syncPending' = ~lagged'
    BY <2>1, <2>2, Zenon
  <2> QED
    BY <1>1, <1>4, <2>2, <2>3, ParkStep
<1> QED
  BY <1>1, <1>2, <1>3, <1>4 DEF FeedItem

\* The parked item, once the snapshot is out.
LEMMA HeldStep ==
    ASSUME TypeOK, FeedInv, FeedHeld
    PROVE  TypeOK' /\ FeedInv'
<1>1. /\ FeedReady /\ feedOn /\ ~syncPending /\ ~lagged /\ held # 0
      /\ pos' = held + 1 /\ FeedItem(held) /\ held \in 1 .. Len(log) /\ Front = held
      /\ UNCHANGED <<roomVars, subVars, feedOn, since, floor, cooling, clientVars>>
  BY DEF FeedHeld, FeedReady, Front, TypeOK, FeedInv, FieldInv
<1>2. held' = 0 /\ Emit(held) /\ UNCHANGED <<lagged, syncPending>>
  BY <1>1 DEF FeedItem
<1>3. lagged' = FALSE /\ syncPending' = FALSE
  BY <1>1, <1>2, Zenon DEF TypeOK
<1>4. open => \A e \in since + 1 .. Before(held) : Accounted(e)
  BY <1>1 DEF FeedInv, CoverInv
<1> QED
  BY <1>1, <1>2, <1>3, <1>4, EmitStep

\* The verdict that needed the room lock.
LEMMA DecideStep ==
    ASSUME TypeOK, FeedInv, FeedDecide
    PROVE  TypeOK' /\ FeedInv'
<1> DEFINE hole == open /\ seq > Have
<1>1. /\ FeedReady /\ held # 0 /\ Judge(held, hole)
      /\ pos' = held + 1 /\ held \in 1 .. Len(log) /\ Front = held
      /\ UNCHANGED <<roomVars, subVars, feedOn, since, floor, cooling, clientVars>>
  BY DEF FeedDecide, FeedReady, Front, TypeOK, FeedInv, FieldInv
<1>2. hole \in BOOLEAN
  BY Zenon DEF TypeOK
<1>3. ~hole /\ open => Before(held) <= Have
  BY <1>1, FrontTypes
<1> HIDE DEF hole
<1> QED
  BY <1>1, <1>2, <1>3, JudgeStep

\* The channel closed, or only time passed.
LEMMA IdleStep ==
    ASSUME TypeOK, FeedInv, FeedClosed \/ CoolDown
    PROVE  TypeOK' /\ FeedInv'
<1>1. /\ feedOn' \in BOOLEAN /\ cooling' \in BOOLEAN
      /\ feedOn' => feedOn
      /\ feedOn' = feedOn \/ (hand.kind = "none" /\ mail.kind = "none")
  <2>1. CASE FeedClosed
    BY <2>1, Zenon DEF FeedClosed, FeedReady, TypeOK
  <2>2. CASE CoolDown
    BY <2>2, Zenon DEF CoolDown, TypeOK
  <2> QED
    BY <2>1, <2>2
<1>2. UNCHANGED <<roomVars, subVars, since, pos, floor, lastSeen, lagged, syncPending,
                  held, hand, clientVars>>
  BY DEF FeedClosed, CoolDown
<1>3. TypeOK'
  BY <1>1, <1>2 DEF TypeOK, roomVars, subVars, clientVars
<1>4. LogInv'
  BY <1>2, LogFrame DEF FeedInv, roomVars, clientVars
<1>5. FieldInv'
  BY <1>1, <1>2 DEF FeedInv, FieldInv, Front, Larger, Before, roomVars, clientVars
<1>6. HandInv' /\ MailInv'
  BY <1>1, <1>2 DEF FeedInv, HandInv, MailInv, Before, roomVars, subVars, clientVars
<1>7. CoverInv'
  BY <1>1, <1>2 DEF FeedInv, CoverInv, Accounted, Front, Have, Larger, Before, roomVars, clientVars
<1> QED
  BY <1>3, <1>4, <1>5, <1>6, <1>7 DEF FeedInv

-----------------------------------------------------------------------------
(* The forwarder and the client.                                           *)

\* The event is applied or refused; either way it is accounted for.
LEMMA EventStep ==
    ASSUME TypeOK, FeedInv, ForwardEvent
    PROVE  TypeOK' /\ FeedInv'
<1> DEFINE i == hand.n
           at == log[i].at
<1>1. /\ hand.kind = "event" /\ hand' = NoHand
      /\ UNCHANGED <<roomVars, subVars, feedVars>>
      /\ feedOn /\ ~lagged /\ ~syncPending /\ held = 0 /\ i = pos - 1
      /\ log[i].draw /\ ~log[i].own => at > clientSeq
  BY DEF ForwardEvent, FeedInv, HandInv
<1>2. /\ i \in 1 .. Len(log) /\ Front = pos /\ at = Before(pos)
      /\ at \in Nat /\ at <= seq /\ seq \in Nat /\ since \in Nat /\ clientSeq \in Nat
  <2>1. i \in 1 .. Len(log) /\ Front = pos
    BY <1>1, FrontTypes DEF Front
  <2>2. Before(pos) \in Nat /\ Before(pos) <= seq
    BY <2>1, FrontTypes
  <2>3. at = Before(i + 1) /\ i + 1 = pos
    BY <1>1, <2>1, BeforeTypes DEF FeedInv, TypeOK
  <2> QED
    BY <2>1, <2>2, <2>3 DEF TypeOK
<1>3. /\ canvas \subseteq canvas' /\ withheld \subseteq withheld'
      /\ canvas' \subseteq Nat /\ withheld' \subseteq Nat
      /\ log[i].draw => at \in canvas' \cup withheld'
      /\ \/ clientSeq' = clientSeq
         \/ clientSeq' = at /\ open /\ log[i].draw
  <2>1. CASE (log[i].own \/ ~log[i].draw) /\ UNCHANGED clientVars
    <3>1. log[i].own => at \in canvas
      BY <1>2 DEF FeedInv, LogInv
    <3> QED
      BY <2>1, <3>1 DEF TypeOK, clientVars
  <2>2. CASE /\ log[i].draw /\ ~log[i].own /\ member /\ open
             /\ canvas' = canvas \cup {at} /\ clientSeq' = at /\ UNCHANGED withheld
    BY <1>2, <2>2 DEF TypeOK
  <2>3. CASE /\ log[i].draw /\ ~log[i].own
             /\ withheld' = withheld \cup {at} /\ UNCHANGED <<canvas, clientSeq>>
    BY <1>2, <2>3 DEF TypeOK
  <2> QED
    BY <1>1, <2>1, <2>2, <2>3 DEF ForwardEvent, BridgeEvent, AcceptSeq
<1> HIDE DEF i, at
<1>4. TypeOK'
  <2>1. clientSeq' \in Nat
    BY <1>2, <1>3
  <2> QED
    BY <1>1, <1>3, <2>1 DEF TypeOK, NoHand, roomVars, subVars, feedVars
<1>5. LogInv' /\ \A j : Before(j)' = Before(j)
  BY <1>1, <1>3, LogFrame DEF FeedInv, roomVars
<1>6. Front' = pos /\ Before(Front)' = Before(pos) /\ Before(pos)' = Before(pos)
  BY <1>1, <1>2 DEF Front, Before, roomVars, feedVars
<1>7. FieldInv'
  BY <1>1, <1>2, <1>3, <1>6 DEF FeedInv, FieldInv, Larger, TypeOK, roomVars, feedVars
<1>8. HandInv'
  BY <1>1 DEF HandInv, NoHand
<1>9. MailInv'
  <2>1. mail.kind = "rx" => at <= mail.since
    BY <1>1 DEF FeedInv, MailInv, i, at
  <2> QED
    BY <1>1, <1>3, <2>1 DEF FeedInv, MailInv, NoHand, Before, roomVars, subVars
<1>10. \A e : Accounted(e) => e \in canvas' \cup withheld'
  BY <1>1, <1>3 DEF Accounted, i, at
<1>11. CoverInv'
  <2>1. \A e : Accounted(e) => Accounted(e)'
    BY <1>10 DEF Accounted
  <2>2. Have' = Have
    BY <1>1 DEF Have, feedVars
  <2>3. \A e \in since + 1 .. clientSeq' : e \in canvas' \cup withheld'
    <3>1. CASE clientSeq' = clientSeq
      BY <1>1, <1>3, <3>1 DEF FeedInv, CoverInv
    <3>2. CASE clientSeq' = at /\ open
      BY <1>1, <1>2, <1>10, <3>2 DEF FeedInv, CoverInv
    <3> QED
      BY <1>3, <3>1, <3>2
  <2> QED
    BY <1>1, <1>2, <1>6, <2>1, <2>2, <2>3 DEF FeedInv, CoverInv, roomVars, feedVars
<1> QED
  BY <1>4, <1>5, <1>7, <1>8, <1>9, <1>11 DEF FeedInv

\* The snapshot is applied or refused whole.
LEMMA SnapshotStep ==
    ASSUME TypeOK, FeedInv, ForwardSync
    PROVE  TypeOK' /\ FeedInv'
<1> DEFINE n == hand.n
<1>1. /\ hand.kind = "sync" /\ hand' = NoHand
      /\ UNCHANGED <<roomVars, subVars, feedVars>>
      /\ feedOn /\ ~lagged /\ ~syncPending /\ n <= floor
      /\ n \in Nat /\ floor \in Nat /\ since \in Nat /\ clientSeq \in Nat
  BY DEF ForwardSync, FeedInv, HandInv, TypeOK
<1>0. 0 .. n \subseteq Nat /\ canvas \subseteq Nat /\ withheld \subseteq Nat
  BY <1>1 DEF TypeOK
<1>2. /\ canvas \subseteq canvas' /\ withheld \subseteq withheld'
      /\ canvas' \subseteq Nat /\ withheld' \subseteq Nat
      /\ 0 .. n \subseteq canvas' \cup withheld'
      /\ \/ clientSeq' = clientSeq
         \/ clientSeq' = Larger(clientSeq, n) /\ 0 .. n \subseteq canvas'
  <2>1. CASE /\ canvas' = canvas \cup (0 .. n) /\ clientSeq' = Larger(clientSeq, n)
             /\ UNCHANGED withheld
    BY <1>0, <2>1, Zenon
  <2>2. CASE withheld' = withheld \cup (0 .. n) /\ UNCHANGED <<canvas, clientSeq>>
    <3>1. canvas' = canvas /\ clientSeq' = clientSeq
      BY <2>2
    <3> QED
      BY <1>0, <2>2, <3>1, Zenon
  <2> QED
    BY <2>1, <2>2 DEF ForwardSync, ApplySnapshot
<1> HIDE DEF n
<1>3. TypeOK'
  <2>1. clientSeq' \in Nat
    BY <1>1, <1>2 DEF Larger
  <2> QED
    BY <1>1, <1>2, <2>1 DEF TypeOK, NoHand, roomVars, subVars, feedVars
<1>4. LogInv' /\ \A j : Before(j)' = Before(j)
  BY <1>1, <1>2, LogFrame DEF FeedInv, roomVars
<1>5. Front' = Front /\ Before(Front)' = Before(Front) /\ Before(pos)' = Before(pos)
  BY <1>1 DEF Front, Before, roomVars, feedVars
<1>6. clientSeq' <= Larger(clientSeq, n)
  BY <1>1, <1>2 DEF Larger
<1>7. FieldInv'
  <2>1. Before(Front) \in Nat /\ seq \in Nat
    BY FrontTypes
  <2>2. clientSeq' \in Nat
    BY <1>3 DEF TypeOK
  <2> QED
    BY <1>1, <1>5, <1>6, <2>1, <2>2 DEF FeedInv, FieldInv, Larger, roomVars, feedVars
<1>8. HandInv'
  BY <1>1 DEF HandInv, NoHand
<1>9. MailInv'
  <2>1. mail.kind = "rx" => n <= mail.since /\ clientSeq <= mail.since
    BY <1>1 DEF FeedInv, MailInv, n
  <2>2. mail.kind = "rx" => clientSeq' <= mail.since
    BY <1>2, <2>1 DEF Larger
  <2> QED
    BY <1>1, <2>2 DEF FeedInv, MailInv, NoHand, Before, roomVars, subVars
<1>10. CoverInv'
  <2>1. \A e \in Nat : Accounted(e) => Accounted(e)'
    BY <1>1, <1>2 DEF Accounted, n
  <2>2. Have' = Have
    BY <1>1 DEF Have, feedVars
  <2>3. \A e \in since + 1 .. clientSeq' : e \in canvas' \cup withheld'
    BY <1>1, <1>2 DEF FeedInv, CoverInv, Larger
  <2> QED
    BY <1>1, <1>5, <2>1, <2>2, <2>3 DEF FeedInv, CoverInv, roomVars, feedVars
<1> QED
  BY <1>3, <1>4, <1>7, <1>8, <1>9, <1>10 DEF FeedInv

-----------------------------------------------------------------------------
(* The theorems.                                                           *)

LEMMA FeedInit ==
    Init => TypeOK /\ FeedInv
<1> SUFFICES ASSUME Init PROVE TypeOK /\ FeedInv
  OBVIOUS
<1> USE FeedAssumption DEF Init
<1>1. TypeOK
  <2>1. /\ open \in BOOLEAN /\ member \in BOOLEAN /\ subscribed \in BOOLEAN
        /\ feedOn \in BOOLEAN /\ lagged \in BOOLEAN /\ syncPending \in BOOLEAN
        /\ cooling \in BOOLEAN
    BY Zenon
  <2>2. log \in Seq(Item) /\ Len(log) = 0
    BY SMT
  <2>3. /\ mail \in [kind : {"none", "drop", "rx"}, pos : 1 .. Len(log) + 1, since : Nat]
        /\ hand \in [kind : {"none", "event", "sync"}, n : Nat]
    BY <2>2 DEF NoMail, NoHand
  <2> QED
    BY <2>1, <2>2, <2>3 DEF TypeOK
<1>2. LogInv
  BY DEF LogInv, Before
<1>3. FieldInv /\ HandInv /\ MailInv /\ CoverInv
  BY DEF FieldInv, HandInv, MailInv, CoverInv, NoMail, NoHand
<1> QED
  BY <1>1, <1>2, <1>3 DEF FeedInv

LEMMA FeedNext ==
    TypeOK /\ FeedInv /\ [Next]_vars => (TypeOK /\ FeedInv)'
<1> SUFFICES ASSUME TypeOK, FeedInv, [Next]_vars PROVE TypeOK' /\ FeedInv'
  OBVIOUS
<1>1. CASE \E draw, own \in BOOLEAN : Publish(draw, own)
  BY <1>1, PublishStep
<1>2. CASE CloseRoom
  BY <1>2, CloseStep
<1>3. CASE PresenceTimeout \/ Revive
  BY <1>3, MemberStep
<1>4. CASE SyncSubscription
  BY <1>4, SubscriptionStep
<1>5. CASE TakeSubscription
  BY <1>5, TakeStep
<1>6. CASE FeedStep
  BY <1>6, SyncStep, LaggedStep, RecvStep, HeldStep, DecideStep, IdleStep DEF FeedStep
<1>7. CASE CoolDown
  BY <1>7, IdleStep
<1>8. CASE Forward
  BY <1>8, EventStep, SnapshotStep DEF Forward
<1>9. CASE UNCHANGED vars
  <2>1. UNCHANGED <<roomVars, feedVars, hand, clientVars>> /\ UNCHANGED subVars
    BY <1>9 DEF vars
  <2>2. TypeOK'
    BY <2>1 DEF TypeOK, roomVars, subVars, feedVars, clientVars
  <2>3. LogInv' /\ FieldInv' /\ HandInv' /\ CoverInv'
    BY <2>1, Untouched
  <2>4. MailInv'
    BY <2>1 DEF FeedInv, MailInv, Before, roomVars, subVars, clientVars
  <2> QED
    BY <2>2, <2>3, <2>4 DEF FeedInv
<1> QED
  BY <1>1, <1>2, <1>3, <1>4, <1>5, <1>6, <1>7, <1>8, <1>9 DEF Next

\* Receivers, parked items and sequence numbers stay inside the channel's
\* log whatever the room, the connection loop and the forwarder do.
THEOREM FeedTypeCorrect == Spec => []TypeOK
<1> QED
  BY FeedInit, FeedNext, PTL DEF Spec

\* For every ring capacity: the client never applies a drawing event while
\* an earlier one since its subscription is missing.
THEOREM NeverOnAHole == Spec => []NoHole
<1>1. TypeOK /\ FeedInv => NoHole
  BY DEF NoHole, FeedReady, FeedInv, CoverInv
<1> QED
  BY <1>1, FeedInit, FeedNext, PTL DEF Spec

\* For every ring capacity: a drained subscriber was given every drawing
\* event since it subscribed, one by one or in a snapshot, unless the
\* member filter refused it.
THEOREM LagsLoseNothing == Spec => []NothingLost
<1>1. TypeOK /\ FeedInv => NothingLost
  <2> SUFFICES ASSUME TypeOK, FeedInv, Drained, open, NEW e \in since + 1 .. seq
               PROVE  e \in canvas \cup withheld
    BY DEF NothingLost, NoHole, FeedReady, FeedInv, CoverInv
  <2>1. /\ feedOn /\ hand.kind = "none" /\ ~lagged /\ ~syncPending
        /\ Front = Len(log) + 1
    BY DEF Drained, FeedReady, Front, TypeOK
  <2>2. Before(Front) = seq
    BY <2>1 DEF FeedInv, LogInv
  <2>3. Accounted(e)
    BY <2>1, <2>2 DEF FeedInv, CoverInv
  <2> QED
    BY <2>1, <2>3 DEF Accounted
<1> QED
  BY <1>1, FeedInit, FeedNext, PTL DEF Spec

\* For every ring capacity: the feed never hands out a drawing event that a
\* snapshot or an earlier delivery already put on the client's canvas.
THEOREM NeverReplayed == Spec => []NoReplay
<1>1. TypeOK /\ FeedInv => NoReplay
  BY DEF NoReplay, FeedInv, HandInv
<1> QED
  BY <1>1, FeedInit, FeedNext, PTL DEF Spec

=============================================================================
