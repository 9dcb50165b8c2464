------------------------------- MODULE Session -------------------------------
(* A download from one peer: plan_file and plan_download cut the file into    *)
(* chunks, SenderSession and ReceiverSession move them over a loopback pair   *)
(* that loses frames, DownloadEventEmitter tells the page, and a receiver     *)
(* that crashed or gave up is run again on the chunks its rows kept.          *)
(*                                                                            *)
(* A chunk frame is good or bad. RECV_TIMEOUT is 60 s and the frames of a     *)
(* session take milliseconds: it fires only when nothing is under way.        *)
EXTENDS Integers, Sequences, FiniteSets, FiniteSetsExt

CONSTANTS Sizes,                    \* sizes of the files the host hashes
          Size,                     \* size of the one that is downloaded
          CHUNK_SIZE, READ_BUFFER,
          WINDOW, MAX_RETRIES,      \* WINDOW_SIZE, MAX_CHUNK_RETRIES
          MaxLost,                  \* frames the loopback loses in all
          MaxBad,                   \* chunk frames that arrive damaged in all
          MaxHalts,                 \* cancels, crashes, failed reads in all
          MaxSessions               \* times the receiver is run

ASSUME SessionAssumption ==
    /\ Sizes \subseteq Nat \ {0} /\ Size \in Sizes
    /\ {CHUNK_SIZE, READ_BUFFER, WINDOW, MAX_RETRIES, MaxSessions}
         \subseteq Nat \ {0}
    /\ {MaxLost, MaxBad, MaxHalts} \subseteq Nat

(* total_chunks_for, and the offsets and lengths plan_download gives them.    *)
TotalChunks(size) == (size + CHUNK_SIZE - 1) \div CHUNK_SIZE
Offset(i) == i * CHUNK_SIZE
Length(size, i) == IF i + 1 = TotalChunks(size) THEN size - Offset(i)
                                                ELSE CHUNK_SIZE
Planned == 0..(TotalChunks(Size) - 1)

VARIABLES
    hash,        \* plan_file: size, bytes read, bytes into the chunk, chunks cut
    rpc,         \* where ReceiverSession::run_inner stands
    drow,        \* downloads.state
    marked,      \* chunk rows in state verified
    parts,       \* part files on disk
    filed,       \* the assembled file is in the library
    toRequest,   \* to_request
    pending,     \* in_flight: retries of each chunk, 0 when not in flight
    got,         \* verified: chunks stored by this session
    chunkIn,     \* the chunk whose part was just written
    transferred, \* transferred_bytes
    spc,         \* where SenderSession stands
    acked,       \* its `have`
    toSender, toReceiver,   \* the two mailboxes
    emitter,     \* [buffered, terminal, last]: DownloadEventEmitter and the page
    lost, bad, halts, sessions

receiverVars == <<rpc, drow, marked, parts, filed, toRequest, pending, got,
                  chunkIn, transferred, emitter>>
senderVars == <<spc, acked>>
sessionVars == <<hash, receiverVars, senderVars, toSender, toReceiver,
                 lost, bad, halts, sessions>>

ToSender == [kind: {"hello"}, have: SUBSET Planned]
            \cup [kind: {"request", "ack", "nak"}, chunk: Planned]
            \cup [kind: {"cancel"}]
ToReceiver == [kind: {"offer"}, total: Nat]
              \cup [kind: {"chunk"}, chunk: Planned, good: BOOLEAN]
              \cup [kind: {"ack"}, chunk: Planned] \cup [kind: {"cancel"}]
TerminalStates == {"complete", "failed", "cancelled"}
ReceiverDone == {"complete", "failed", "cancelled", "stopped", "error", "down"}
SenderDone == {"done", "error"}
NoChunk == -1

\* Where the receiver stands, the row it writes, and what the page is told.
ReceiverPlaces == ReceiverDone \cup {"idle", "start", "connect", "offer", "fill",
                    "wait", "mark", "verify", "assemble", "cleanup", "finish"}
RowStates == TerminalStates \cup {"pending", "connecting", "transferring",
                                  "verifying"}
Emitters == [buffered: Nat, terminal: BOOLEAN,
             last: TerminalStates \cup {"none", "pending", "connecting",
                                  "transferring", "verifying", "progress"}]

SessionTypeOK ==
    /\ hash \in [size: Sizes, at: Nat, into: Nat, cut: Seq(Nat), done: BOOLEAN]
    /\ rpc \in ReceiverDone \cup {"idle", "start", "connect", "offer", "fill",
                                  "wait", "mark", "verify",
                                  "assemble", "cleanup", "finish"}
    /\ drow \in TerminalStates \cup {"pending", "connecting", "transferring",
                               "verifying"}
    /\ marked \subseteq Planned /\ parts \subseteq Planned /\ filed \in BOOLEAN
    /\ toRequest \subseteq Planned /\ got \subseteq Planned
    /\ pending \in [Planned -> Nat] /\ chunkIn \in Planned \cup {NoChunk}
    /\ transferred \in Nat
    /\ spc \in SenderDone \cup {"hello", "serve"} /\ acked \subseteq Planned
    /\ toSender \in Seq(ToSender) /\ toReceiver \in Seq(ToReceiver)
    /\ emitter \in [buffered: Nat, terminal: BOOLEAN,
                    last: TerminalStates \cup {"none", "pending", "connecting",
                                         "transferring", "verifying", "progress"}]
    /\ lost \in 0..MaxLost /\ bad \in 0..MaxBad /\ halts \in 0..MaxHalts
    /\ sessions \in 0..MaxSessions

-----------------------------------------------------------------------------
FreshEmitter == [buffered |-> 0, terminal |-> FALSE, last |-> "none"]
NoneInFlight == [c \in Planned |-> 0]
Awaited == {c \in Planned: pending[c] > 0}

SessionInit ==
    /\ hash \in [size: Sizes, at: {0}, into: {0}, cut: {<<>>}, done: {FALSE}]
    /\ rpc = "idle" /\ drow = "pending" /\ marked = {} /\ parts = {}
    /\ filed = FALSE /\ toRequest = {} /\ pending = NoneInFlight /\ got = {}
    /\ chunkIn = NoChunk /\ transferred = 0
    /\ spc = "done" /\ acked = {} /\ toSender = <<>> /\ toReceiver = <<>>
    /\ emitter = FreshEmitter
    /\ lost = 0 /\ bad = 0 /\ halts = 0 /\ sessions = 0

(* plan_file reads up to READ_BUFFER bytes at a time and closes a chunk at    *)
(* every CHUNK_SIZE bytes, whatever the reads return.                         *)
HashRead(n) ==
    LET into == hash.into + n IN
    /\ ~hash.done /\ n <= hash.size - hash.at
    /\ hash' = [hash EXCEPT
                  !.at = @ + n,
                  !.into = into % CHUNK_SIZE,
                  !.cut = @ \o [i \in 1..(into \div CHUNK_SIZE) |-> CHUNK_SIZE]]
    /\ UNCHANGED <<receiverVars, senderVars, toSender, toReceiver,
                   lost, bad, halts, sessions>>

HashEnd ==
    /\ ~hash.done /\ hash.at = hash.size
    /\ hash' = [hash EXCEPT !.done = TRUE,
                            !.cut = IF hash.into > 0 THEN Append(@, hash.into)
                                                     ELSE @]
    /\ UNCHANGED <<receiverVars, senderVars, toSender, toReceiver,
                   lost, bad, halts, sessions>>

-----------------------------------------------------------------------------
(* The emitter. A progress is shown at once or kept in the buffer, by the     *)
(* time since the last one; a terminal state is shown after what is kept.     *)
Flushed(e) == IF e.buffered > 0 THEN [e EXCEPT !.buffered = 0, !.last = "progress"]
                                ELSE e
RecordState(e, s) ==
    IF s \in TerminalStates THEN [Flushed(e) EXCEPT !.terminal = TRUE, !.last = s]
                      ELSE [e EXCEPT !.last = s]
RecordProgress(e, bytes) ==
    IF e.terminal THEN {e}
    ELSE {[e EXCEPT !.buffered = bytes],
          [Flushed(e) EXCEPT !.buffered = 0, !.last = "progress"]}

(* Transport::send. A frame that the policy drops counts as sent; otherwise   *)
(* it is refused once the peer's transport is closed.                         *)
ReceiverThere == rpc \notin ReceiverDone \cup {"verify", "assemble",
                                               "cleanup", "finish"}
SenderThere == spc \notin SenderDone
Dropped == lost < MaxLost /\ lost' = lost + 1
SentToSender(f) == \/ SenderThere /\ toSender' = Append(toSender, f) /\ UNCHANGED lost
                   \/ Dropped /\ UNCHANGED toSender
RefusedBySender == ~SenderThere /\ UNCHANGED <<toSender, lost>>
SentToReceiver(f) ==
    \/ ReceiverThere /\ toReceiver' = Append(toReceiver, f) /\ UNCHANGED lost
    \/ Dropped /\ UNCHANGED toReceiver
RefusedByReceiver == ~ReceiverThere /\ UNCHANGED <<toReceiver, lost>>

(* Mutant: a failed row may be taken up again.                                *)
MayTransitionFailed(from, to) ==
    \/ from = to
    \/ <<from, to>> \in {<<"pending", "connecting">>, <<"failed", "connecting">>,
                         <<"connecting", "transferring">>,
                         <<"transferring", "verifying">>,
                         <<"verifying", "complete">>}
    \/ from \notin TerminalStates /\ to \in {"failed", "cancelled"}

(* is_valid_transition, for the states a session asks for.                    *)
MayTransition(from, to) ==
    \/ from = to
    \/ <<from, to>> \in {<<"pending", "connecting">>,
                         <<"connecting", "transferring">>,
                         <<"transferring", "verifying">>,
                         <<"verifying", "complete">>}
    \/ from \notin TerminalStates /\ to \in {"failed", "cancelled"}
Transitioned(to) == IF MayTransition(drow, to) THEN to ELSE drow
Halt == halts < MaxHalts /\ halts' = halts + 1

-----------------------------------------------------------------------------
(* The receiver is run, on a fresh pair with a fresh sender and emitter.      *)
RunReceiver ==
    /\ hash.done /\ hash.size = Size
    /\ rpc \in ReceiverDone \cup {"idle"} /\ ~SenderThere /\ rpc # "complete"
    /\ sessions < MaxSessions /\ sessions' = sessions + 1
    /\ rpc' = "start" /\ spc' = "hello"
    /\ acked' = {} /\ toSender' = <<>> /\ toReceiver' = <<>>
    /\ toRequest' = {} /\ pending' = NoneInFlight /\ got' = {}
    /\ chunkIn' = NoChunk /\ transferred' = 0
    /\ emitter' = RecordState(FreshEmitter, "pending")
    /\ UNCHANGED <<hash, drow, marked, parts, filed, lost, bad, halts>>

(* The store refuses to leave a terminal state: the session ends with it.     *)
StartTransfer ==
    /\ rpc \in {"start", "connect"} /\ drow \notin {"transferring", "verifying"}
    /\ LET to == IF rpc = "start" THEN "connecting" ELSE "transferring" IN
       IF MayTransition(drow, to)
       THEN /\ drow' = to /\ emitter' = RecordState(emitter, to)
            /\ rpc' = "connect"
       ELSE rpc' = "error" /\ UNCHANGED <<drow, emitter>>
    /\ UNCHANGED <<hash, senderVars, toSender, toReceiver, lost, bad, halts,
                   sessions, marked, parts, filed, toRequest, pending, got,
                   chunkIn, transferred>>

(* How the session ends when a call fails with Cancelled.                     *)
EndCancelled ==
    /\ rpc' = "cancelled" /\ drow' = Transitioned("cancelled")
    /\ emitter' = IF drow \in TerminalStates THEN emitter
                                       ELSE RecordState(emitter, "cancelled")

Hello ==
    /\ rpc \in {"start", "connect"} /\ drow \in {"transferring", "verifying"}
    /\ \/ /\ SentToSender([kind |-> "hello", have |-> marked])
          /\ rpc' = "offer" /\ UNCHANGED <<drow, emitter>>
       \/ RefusedBySender /\ EndCancelled
    /\ UNCHANGED <<hash, senderVars, toReceiver, bad, halts, sessions, marked,
                   parts, filed, toRequest, pending, got, chunkIn, transferred>>

(* The Offer must agree with the plan. The progress starts from the size      *)
(* less a whole chunk per chunk held: u64, so a short last chunk wraps it     *)
(* and min() brings it back to the size.                                      *)
FirstTransferred ==
    LET rest == Size - Cardinality(marked) * CHUNK_SIZE
    IN  IF rest < 0 THEN Size ELSE rest
TakeOffer ==
    /\ rpc = "offer" /\ toReceiver # <<>>
    /\ toReceiver' = Tail(toReceiver)
    /\ LET f == Head(toReceiver) IN
       IF f.kind = "offer" /\ f.total = TotalChunks(Size)
       THEN /\ rpc' = "fill" /\ toRequest' = Planned \ marked
            /\ transferred' = FirstTransferred
       ELSE rpc' = "error" /\ UNCHANGED <<toRequest, transferred>>
    /\ UNCHANGED <<hash, senderVars, toSender, lost, bad, halts, sessions, drow,
                   marked, parts, filed, pending, got, chunkIn, emitter>>

(* The window is filled in index order, one Request at a time.                *)
Fill ==
    /\ rpc = "fill" /\ Cardinality(Awaited) < WINDOW /\ toRequest # {}
    /\ LET c == Min(toRequest) IN
       /\ toRequest' = toRequest \ {c}
       /\ \/ /\ SentToSender([kind |-> "request", chunk |-> c])
             /\ pending' = [pending EXCEPT ![c] = 1]
             /\ UNCHANGED <<rpc, drow, emitter>>
          \/ RefusedBySender /\ EndCancelled /\ UNCHANGED pending
    /\ UNCHANGED <<hash, senderVars, toReceiver, bad, halts, sessions, marked,
                   parts, filed, got, chunkIn, transferred>>

(* The chunk in flight with the most retries is asked for again, whatever     *)
(* becomes of the Request; with none in flight the session is complete.       *)
ReRequest ==
    /\ rpc = "fill" /\ (Cardinality(Awaited) >= WINDOW \/ toRequest = {})
    /\ Awaited # {}
    /\ \E c \in Awaited:
         /\ \A d \in Awaited: pending[d] <= pending[c]
         /\ SentToSender([kind |-> "request", chunk |-> c]) \/ RefusedBySender
         /\ pending' = [pending EXCEPT ![c] = @ + 1]
    /\ rpc' = "wait"
    /\ UNCHANGED <<hash, senderVars, toReceiver, bad, halts, sessions, drow,
                   marked, parts, filed, toRequest, got, chunkIn, transferred,
                   emitter>>

AllArrived ==
    /\ rpc = "fill" /\ toRequest = {} /\ Awaited = {}
    /\ SentToSender([kind |-> "cancel"]) \/ RefusedBySender
    /\ rpc' = "verify"
    /\ UNCHANGED <<hash, senderVars, toReceiver, bad, halts, sessions, drow,
                   marked, parts, filed, toRequest, pending, got, chunkIn,
                   transferred, emitter>>

(* handle_chunk for a chunk that is not awaited: one stored by this session   *)
(* is acknowledged again, any other ends the session as failed, and so does   *)
(* an acknowledgement the peer is no longer there to take.                    *)
EndFailed == /\ rpc' = "failed" /\ drow' = Transitioned("failed")
             /\ emitter' = RecordState(emitter, "failed")
TellCancel == SentToSender([kind |-> "cancel"]) \/ RefusedBySender
Unawaited ==
    /\ rpc = "wait" /\ toReceiver # <<>>
    /\ LET f == Head(toReceiver) IN
       /\ f.kind = "chunk" /\ pending[f.chunk] = 0
       /\ \/ /\ f.chunk \in got /\ SentToSender([kind |-> "ack", chunk |-> f.chunk])
             /\ rpc' = "fill" /\ UNCHANGED <<drow, emitter>>
          \/ f.chunk \in got /\ RefusedBySender /\ EndFailed
          \/ f.chunk \notin got /\ TellCancel /\ EndFailed
    /\ toReceiver' = Tail(toReceiver)
    /\ UNCHANGED <<hash, senderVars, bad, halts, sessions, marked, parts, filed,
                   toRequest, pending, got, chunkIn, transferred>>

(* A chunk of the wrong length or hash: Nak, unless its retries are spent.    *)
Damaged ==
    /\ rpc = "wait" /\ toReceiver # <<>>
    /\ LET f == Head(toReceiver) IN
       /\ f.kind = "chunk" /\ pending[f.chunk] > 0 /\ ~f.good
       /\ \/ /\ pending[f.chunk] + 1 <= MAX_RETRIES
             /\ SentToSender([kind |-> "nak", chunk |-> f.chunk])
             /\ pending' = [pending EXCEPT ![f.chunk] = @ + 1]
             /\ rpc' = "fill" /\ UNCHANGED <<drow, emitter>>
          \/ /\ IF pending[f.chunk] + 1 <= MAX_RETRIES THEN RefusedBySender
                                                      ELSE TellCancel
             /\ pending' = [pending EXCEPT ![f.chunk] = 0]
             /\ EndFailed
    /\ toReceiver' = Tail(toReceiver)
    /\ UNCHANGED <<hash, senderVars, bad, halts, sessions, marked, parts, filed,
                   toRequest, got, chunkIn, transferred>>

(* A good one: its part is written, ...                                       *)
StorePart ==
    /\ rpc = "wait" /\ toReceiver # <<>>
    /\ LET f == Head(toReceiver) IN
       /\ f.kind = "chunk" /\ pending[f.chunk] > 0 /\ f.good
       /\ pending' = [pending EXCEPT ![f.chunk] = 0]
       /\ parts' = parts \cup {f.chunk} /\ chunkIn' = f.chunk
    /\ rpc' = "mark" /\ toReceiver' = Tail(toReceiver)
    /\ UNCHANGED <<hash, senderVars, toSender, lost, bad, halts, sessions, drow,
                   marked, filed, toRequest, got, transferred, emitter>>

(* ... then its row is marked and it is acknowledged.                         *)
MarkVerified ==
    /\ rpc = "mark"
    /\ marked' = marked \cup {chunkIn} /\ got' = got \cup {chunkIn}
    /\ \/ /\ SentToSender([kind |-> "ack", chunk |-> chunkIn])
          /\ transferred' = transferred + Length(Size, chunkIn)
          /\ emitter' \in RecordProgress(emitter, transferred')
          /\ rpc' = "fill" /\ UNCHANGED drow
       \/ RefusedBySender /\ EndFailed /\ UNCHANGED transferred
    /\ chunkIn' = NoChunk
    /\ UNCHANGED <<hash, senderVars, toReceiver, bad, halts, sessions, parts,
                   filed, toRequest, pending>>

(* A Cancel frame is reported to the page and the session stops; an Ack is a  *)
(* protocol error.                                                            *)
OtherFrame ==
    /\ rpc = "wait" /\ toReceiver # <<>> /\ Head(toReceiver).kind # "chunk"
    /\ IF Head(toReceiver).kind = "cancel"
       THEN rpc' = "stopped" /\ emitter' = RecordState(emitter, "cancelled")
       ELSE rpc' = "error" /\ UNCHANGED emitter
    /\ toReceiver' = Tail(toReceiver)
    /\ UNCHANGED <<hash, senderVars, toSender, lost, bad, halts, sessions, drow,
                   marked, parts, filed, toRequest, pending, got, chunkIn,
                   transferred>>

(* await_frame with nothing to read: the peer went away (an error while the   *)
(* Offer is awaited), or nobody sends anything for RECV_TIMEOUT.              *)
PeerGone ==
    /\ rpc \in {"offer", "wait"} /\ toReceiver = <<>> /\ ~SenderThere
    /\ IF rpc = "wait" THEN EndCancelled
                       ELSE rpc' = "error" /\ UNCHANGED <<drow, emitter>>
    /\ UNCHANGED <<hash, senderVars, toSender, toReceiver, lost, bad, halts,
                   sessions, marked, parts, filed, toRequest, pending, got,
                   chunkIn, transferred>>

ReceiverTimeout ==
    /\ rpc \in {"offer", "wait"} /\ toReceiver = <<>> /\ toSender = <<>>
    /\ SenderThere
    /\ rpc' = "error"
    /\ UNCHANGED <<hash, senderVars, toSender, toReceiver, lost, bad, halts,
                   sessions, drow, marked, parts, filed, toRequest, pending,
                   got, chunkIn, transferred, emitter>>

(* Verifying, assemble_and_finalize, cleanup_incomplete, Complete. A missing  *)
(* part is an assembly error.                                                 *)
Verify ==
    /\ rpc = "verify" /\ rpc' = "assemble"
    /\ drow' = Transitioned("verifying")
    /\ emitter' = RecordState(emitter, "verifying")
    /\ UNCHANGED <<hash, senderVars, toSender, toReceiver, lost, bad, halts,
                   sessions, marked, parts, filed, toRequest, pending, got,
                   chunkIn, transferred>>
FinalizeFile ==
    /\ rpc = "assemble"
    /\ IF parts = Planned
       THEN filed' = TRUE /\ rpc' = "cleanup" /\ UNCHANGED <<drow, emitter>>
       ELSE EndFailed /\ UNCHANGED filed
    /\ UNCHANGED <<hash, senderVars, toSender, toReceiver, lost, bad, halts,
                   sessions, marked, parts, toRequest, pending, got, chunkIn,
                   transferred>>
Cleanup ==
    /\ rpc = "cleanup" /\ rpc' = "finish" /\ parts' = {}
    /\ UNCHANGED <<hash, senderVars, toSender, toReceiver, lost, bad, halts,
                   sessions, drow, marked, filed, toRequest, pending, got,
                   chunkIn, transferred, emitter>>
Finish ==
    /\ rpc = "finish" /\ rpc' = "complete"
    /\ drow' = Transitioned("complete")
    /\ emitter' = RecordState(emitter, "complete")
    /\ UNCHANGED <<hash, senderVars, toSender, toReceiver, lost, bad, halts,
                   sessions, marked, parts, filed, toRequest, pending, got,
                   chunkIn, transferred>>

(* cancel_handle fires: seen at the next await of a frame. The app dies: only *)
(* the rows and the files stay.                                               *)
CancelReceiver ==
    /\ rpc \in {"offer", "wait"} /\ Halt /\ EndCancelled
    /\ UNCHANGED <<hash, senderVars, toSender, toReceiver, lost, bad, sessions,
                   marked, parts, filed, toRequest, pending, got, chunkIn,
                   transferred>>
CrashReceiver ==
    /\ rpc \notin ReceiverDone \cup {"idle"} /\ Halt /\ rpc' = "down"
    /\ UNCHANGED <<hash, senderVars, toSender, toReceiver, lost, bad, sessions,
                   drow, marked, parts, filed, toRequest, pending, got, chunkIn,
                   transferred, emitter>>

-----------------------------------------------------------------------------
(* SenderSession: Hello is answered by an Offer of its own plan, ...          *)
SenderGetsHello ==
    /\ spc = "hello" /\ toSender # <<>> /\ toSender' = Tail(toSender)
    /\ LET f == Head(toSender) IN
       IF f.kind # "hello"
       THEN spc' = "error" /\ UNCHANGED <<acked, toReceiver, lost>>
       ELSE /\ acked' = f.have
            /\ \/ /\ SentToReceiver([kind |-> "offer", total |-> Len(hash.cut)])
                  /\ spc' = "serve"
               \/ RefusedByReceiver /\ spc' = "error"
    /\ UNCHANGED <<hash, receiverVars, bad, halts, sessions>>

(* ... a Request or a Nak by the chunk read from the source file (a Request   *)
(* for a chunk the receiver has, by an Ack), ...                              *)
Answer(f) == IF f.kind = "request" /\ f.chunk \in acked
             THEN {[kind |-> "ack", chunk |-> f.chunk]}
             ELSE {[kind |-> "chunk", chunk |-> f.chunk, good |-> g]:
                      g \in {TRUE} \cup (IF bad < MaxBad THEN {FALSE} ELSE {})}
SenderServe ==
    /\ spc = "serve" /\ toSender # <<>> /\ toSender' = Tail(toSender)
    /\ Head(toSender).kind \in {"request", "nak"}
    /\ \E a \in Answer(Head(toSender)):
         /\ bad' = IF a.kind = "chunk" /\ ~a.good THEN bad + 1 ELSE bad
         /\ \/ SentToReceiver(a) /\ UNCHANGED spc
            \/ RefusedByReceiver /\ spc' = "done"
    /\ UNCHANGED <<hash, receiverVars, acked, halts, sessions>>

(* ... and an Ack, once it has them all, or a Cancel by leaving.              *)
SenderAcked ==
    /\ spc = "serve" /\ toSender # <<>> /\ toSender' = Tail(toSender)
    /\ LET f == Head(toSender) IN
       /\ f.kind \in {"ack", "cancel", "hello"}
       /\ acked' = IF f.kind = "ack" THEN acked \cup {f.chunk} ELSE acked
       /\ spc' = IF f.kind = "hello" THEN "error"
                 ELSE IF f.kind = "cancel" \/ acked' = Planned THEN "done"
                 ELSE "serve"
    /\ UNCHANGED <<hash, receiverVars, toReceiver, lost, bad, halts, sessions>>

(* Nothing to read: the receiver went away, or nobody sends anything.         *)
SenderStops ==
    /\ SenderThere /\ toSender = <<>>
    /\ \/ rpc \in ReceiverDone
       \/ toReceiver = <<>> /\ rpc \in {"offer", "wait"}
    /\ spc' = IF spc = "serve" /\ rpc \in ReceiverDone THEN "done" ELSE "error"
    /\ UNCHANGED <<hash, receiverVars, acked, toSender, toReceiver, lost, bad,
                   halts, sessions>>

(* The source file cannot be read or no longer matches its hash; its user     *)
(* cancels (cancel_session): a Cancel frame, then the transport is closed.    *)
SenderReadFails ==
    /\ spc = "serve" /\ toSender # <<>> /\ Halt
    /\ Head(toSender).kind \in {"request", "nak"}
    /\ spc' = "error" /\ toSender' = Tail(toSender)
    /\ UNCHANGED <<hash, receiverVars, acked, toReceiver, lost, bad, sessions>>
CancelSession ==
    /\ spc = "serve" /\ Halt /\ spc' = "done"
    /\ SentToReceiver([kind |-> "cancel"]) \/ RefusedByReceiver
    /\ UNCHANGED <<hash, receiverVars, acked, toSender, bad, sessions>>

-----------------------------------------------------------------------------
ReceiverStep ==
    \/ StartTransfer \/ Hello \/ TakeOffer \/ Fill \/ ReRequest \/ AllArrived
    \/ Unawaited \/ Damaged \/ StorePart \/ MarkVerified \/ OtherFrame
    \/ PeerGone \/ ReceiverTimeout \/ Verify \/ FinalizeFile \/ Cleanup \/ Finish
SenderStep == SenderGetsHello \/ SenderServe \/ SenderAcked \/ SenderStops
HashStep == HashEnd \/ \E n \in 1..READ_BUFFER: HashRead(n)

SessionNext ==
    \/ HashStep \/ RunReceiver \/ ReceiverStep \/ SenderStep
    \/ CancelReceiver \/ CrashReceiver \/ SenderReadFails \/ CancelSession

(* Both sessions are tasks the runtime keeps polling.                         *)
SessionSpec == /\ SessionInit /\ [][SessionNext]_sessionVars
               /\ WF_sessionVars(HashStep) /\ WF_sessionVars(RunReceiver)
               /\ WF_sessionVars(ReceiverStep) /\ WF_sessionVars(SenderStep)

-----------------------------------------------------------------------------

(* A single-source session keeps the promises of a download too.              *)
Single == INSTANCE FileFetch
    WITH Chunks <- Planned,
         held <- IF drow \in {"failed", "cancelled"} /\ ~filed THEN {} ELSE marked,
         status <- IF drow = "complete" THEN "complete"
                   ELSE IF filed THEN "published"
                   ELSE IF drow \in {"failed", "cancelled"} THEN "aborted"
                   ELSE "active"
SessionFetches == Single!Spec

=============================================================================
