----------------------------- MODULE MultiSource -----------------------------
(* One download fetched from several peers at once: the orchestrator          *)
(* run_multi_source with its in-flight records, per-source scheduler slots,   *)
(* NAK and stuck counters and retry budget, the sender session each peer runs *)
(* behind its data channel, the part files and chunk rows, the assembly into  *)
(* the library, and a crash of the client between any two of those steps.     *)
(*                                                                            *)
(* Bytes are abstract: a chunk frame is good or bad, a part file is missing,  *)
(* torn or good. Frames the receiver drops without any effect (Offer, the     *)
(* sender's Ack) are not put on a channel. Time is abstract too: a tick fires *)
(* freely while nothing is under way; one that fires while an answer is       *)
(* under way (a slow peer), a lost session, channel or client, a failed write *)
(* and a cancellation each cost one of MaxTrouble troubles.                   *)
EXTENDS Integers, Sequences, FiniteSets, FiniteSetsExt

CONSTANTS Chunks,                   \* chunk indices, naturals
          Sources,                  \* peers, naturals in peer_id order
          Priority,                 \* [Sources -> Int], smaller first
          Faulty,                   \* peers that may answer anything
          WINDOW_SIZE,
          NAK_THRESHOLD,
          MAX_CHUNK_RETRIES,
          STUCK_REQUEST_DEMOTE_AFTER,
          MaxTrouble                \* slow answers, losses, crashes, cancels in all

ASSUME BoundsAssumption ==
    /\ Chunks \subseteq Nat /\ IsFiniteSet(Chunks) /\ Chunks # {}
    /\ Sources \subseteq Nat /\ IsFiniteSet(Sources) /\ Sources # {}
    /\ Priority \in [Sources -> Int]
    /\ Faulty \subseteq Sources
    /\ {WINDOW_SIZE, NAK_THRESHOLD, MAX_CHUNK_RETRIES,
        STUCK_REQUEST_DEMOTE_AFTER} \subseteq Nat \ {0}
    /\ MaxTrouble \in Nat

NoSource == -1
Idle == <<>>

VARIABLES
    row,         \* downloads.state
    why,         \* how the run ended (the MultiSourceError, or ok)
    verified,    \* chunk rows in state verified
    file,        \* tmp/incomplete/<id>/<id>.part.<i>
    library,     \* the assembled file is in the library
    pc,          \* where run_multi_source_inner stands
    aged,        \* in-flight chunks found older than STUCK_REQUEST_RETRY
    writing,     \* the chunk being stored: <<chunk, source>> or Idle
    inflight,    \* in_flight: [Chunks -> source asked or NoSource]
    retries,     \* chunk_retries
    tried,       \* chunk_tried
    nak,         \* nak_counters
    stuck,       \* consecutive_stuck
    slots,       \* Scheduler.window.in_flight of each source
    unavailable, \* sources demoted for a slow RTT
    closed,      \* sources whose channel is closed
    serving,     \* the peer's sender session: hello, serve, gone
    have,        \* its `have` set
    toSrc,       \* frames under way to each peer
    fromSrc,     \* frames under way from each peer
    late,        \* ticks that fired, or samples that were slow, under way
    troubles     \* those, and every loss, crash and cancellation

durable == <<row, verified, file, library>>
budget == <<retries, tried, nak, stuck, slots, inflight>>
wire == <<closed, serving, have, toSrc, fromSrc>>
counters == <<late, troubles>>
vars == <<row, why, verified, file, library, pc, aged, writing,
          inflight, retries, tried, nak, stuck, slots, unavailable, closed,
          serving, have, toSrc, fromSrc, late, troubles>>

ToFrames == [kind: {"hello"}, have: SUBSET Chunks]
            \cup [kind: {"request", "ack", "nak"}, chunk: Chunks]
FromFrames == [kind: {"chunk"}, chunk: Chunks, good: BOOLEAN]
              \cup [kind: {"nak"}, chunk: Chunks]
              \cup [kind: {"error", "cancel"}]
Live == {"pending", "transferring", "verifying"}
Reasons == {"none", "ok", "cancelled", "transport", "exhausted", "gone",
            "peer", "io", "hash"}

TypeOK ==
    /\ row \in Live \cup {"complete", "failed", "cancelled"}
    /\ why \in Reasons
    /\ verified \subseteq Chunks
    /\ file \in [Chunks -> {"none", "torn", "good"}]
    /\ library \in BOOLEAN
    /\ pc \in {"start", "refill", "stuck", "wait", "write", "assemble",
               "publish", "end", "down"}
    /\ aged \subseteq Chunks
    /\ writing \in (Chunks \X Sources) \cup {Idle}
    /\ inflight \in [Chunks -> Sources \cup {NoSource}]
    /\ retries \in [Chunks -> Nat]
    /\ tried \in [Chunks -> SUBSET Sources]
    /\ nak \in [Chunks -> [Sources -> Nat]]
    /\ stuck \in [Chunks -> [Sources -> Nat]]
    /\ slots \in [Sources -> SUBSET Chunks]
    /\ unavailable \subseteq Sources /\ closed \subseteq Sources
    /\ serving \in [Sources -> {"hello", "serve", "gone"}]
    /\ have \in [Sources -> SUBSET Chunks]
    /\ toSrc \in [Sources -> Seq(ToFrames)]
    /\ fromSrc \in [Sources -> Seq(FromFrames)]
    /\ late \in 0..troubles /\ troubles \in 0..MaxTrouble

-----------------------------------------------------------------------------
(* A run with nothing in flight, on fresh channels.                           *)
Zero == [c \in Chunks |-> [s \in Sources |-> 0]]
NoChunks == [s \in Sources |-> {}]
NoFrames == [s \in Sources |-> <<>>]
Init == /\ row = "pending" /\ why = "none" /\ pc = "start"
        /\ verified = {} /\ file = [c \in Chunks |-> "none"]
        /\ library = FALSE
        /\ aged = {} /\ writing = Idle /\ unavailable = {}
        /\ retries = [c \in Chunks |-> 0] /\ tried = [c \in Chunks |-> {}]
        /\ nak = Zero /\ stuck = Zero
        /\ inflight = [c \in Chunks |-> NoSource] /\ slots = NoChunks
        /\ closed = {} /\ serving = [s \in Sources |-> "hello"]
        /\ have = NoChunks /\ toSrc = NoFrames
        /\ fromSrc = NoFrames
        /\ late = 0 /\ troubles = 0

Trouble == troubles < MaxTrouble /\ troubles' = troubles + 1
Late(is) == IF is THEN Trouble /\ late' = late + 1 ELSE UNCHANGED counters

InFlight == {c \in Chunks: inflight[c] # NoSource}
Pending == Chunks \ (verified \cup InFlight)

(* A frame to a peer is read only while its session runs; one that nobody     *)
(* will read is dropped here.                                                 *)
Sent(q, s, f) ==
    IF s \in closed \/ serving[s] = "gone" THEN q
    ELSE [q EXCEPT ![s] = Append(@, f)]

(* The run is over: its terminal state recorded, its token cancelled and its  *)
(* scratch files removed, whatever the outcome.                               *)
EndRun(state, reason) ==
    /\ pc' = "end"
    /\ row' = state
    /\ why' = reason
    /\ file' = [c \in Chunks |-> "none"]
    /\ writing' = Idle /\ aged' = {}

Keep(next) == /\ pc' = next
              /\ UNCHANGED <<row, why, file, writing>>

-----------------------------------------------------------------------------
(* SourceSelector::pick: available, not tried for the chunk, then the         *)
(* smallest of priority, demotion count and peer id.                          *)
Demotions(s) == Cardinality({c \in Chunks: s \in tried[c]})
Before(s, t) ==
    \/ Priority[s] < Priority[t]
    \/ /\ Priority[s] = Priority[t]
       /\ \/ Demotions(s) < Demotions(t)
          \/ Demotions(s) = Demotions(t) /\ s <= t
Eligible(c) == Sources \ (unavailable \cup tried[c])
Picked(c, s) == /\ s \in Eligible(c)
                /\ \A t \in Eligible(c): Before(s, t)
Exhausted(c) == retries[c] >= MAX_CHUNK_RETRIES \/ tried[c] = Sources

(* The rows move to transferring and a Hello with the chunks already held     *)
(* goes to every source; one closed channel ends the run.                     *)
Start ==
    /\ pc = "start"
    /\ IF closed # {}
       THEN EndRun("failed", "transport") /\ UNCHANGED toSrc
       ELSE /\ row' = IF row = "verifying" THEN row ELSE "transferring"
            /\ toSrc' = [s \in Sources |->
                           IF serving[s] = "gone" THEN toSrc[s]
                           ELSE Append(toSrc[s], [kind |-> "hello", have |-> verified])]
            /\ pc' = "refill"
            /\ UNCHANGED <<why, file, writing, aged>>
    /\ UNCHANGED <<verified, library, budget, unavailable, closed,
                   serving, have, fromSrc, counters>>

\* Mutant: the cooldown flag is never cleared.
RecoverNever == FALSE

(* maybe_recover_sources: a source whose RTT cooldown has passed.             *)
Recover ==
    /\ pc = "refill"
    /\ \E s \in unavailable: unavailable' = unavailable \ {s}
    /\ UNCHANGED <<durable, why, pc, aged, writing, budget, wire, counters>>

(* One round of the refill loop, on the smallest pending chunk that can go    *)
(* anywhere or that no source is left for.                                    *)
Dispatchable == {c \in Pending: Exhausted(c) \/ Eligible(c) # {}}

Dispatch ==
    /\ pc = "refill"
    /\ Cardinality(InFlight) < WINDOW_SIZE
    /\ Dispatchable # {}
    /\ LET c == Min(Dispatchable) IN
         IF Exhausted(c)
         THEN EndRun("failed", "exhausted") /\ UNCHANGED <<inflight, slots, toSrc>>
         ELSE \E s \in Sources:
                /\ Picked(c, s)
                /\ IF s \in closed
                   THEN EndRun("cancelled", "transport") /\ UNCHANGED <<inflight, slots, toSrc>>
                   ELSE /\ slots' = [slots EXCEPT ![s] = @ \cup {c}]
                        /\ inflight' = [inflight EXCEPT ![c] = s]
                        /\ toSrc' = Sent(toSrc, s, [kind |-> "request", chunk |-> c])
                        /\ Keep("refill") /\ UNCHANGED aged
    /\ UNCHANGED <<verified, library, retries, tried, nak, stuck,
                   unavailable, closed, serving, have, fromSrc, counters>>

(* Nothing of what was asked is on its way any more.                          *)
Quiet == \A s \in Sources: fromSrc[s] = <<>> /\ (s \in closed \/ toSrc[s] = <<>>)

(* The pool is as full as it gets; the requests found overdue are the ones    *)
(* the tick saw, and after slow sends possibly more.                          *)
EndRefill ==
    /\ pc = "refill"
    /\ Pending # {} \/ InFlight # {}
    /\ Cardinality(InFlight) >= WINDOW_SIZE \/ Dispatchable = {}
    /\ \E old \in SUBSET InFlight:
         /\ aged \subseteq old
         /\ Late(old # aged)
         /\ aged' = old
         /\ Keep(IF old = {} THEN "wait" ELSE "stuck")
    /\ UNCHANGED <<verified, library, budget, unavailable, wire>>

-----------------------------------------------------------------------------
(* apply_nak: the stuck counter starts over; a NAK for a chunk that is not in *)
(* flight at this peer is stale; the chunk's budget is spent before the peer  *)
(* is rotated out at the threshold.                                           *)
StaleNak(c, s) == inflight[c] # s
NakExhausts(c, s) == ~StaleNak(c, s) /\ retries[c] + 1 >= MAX_CHUNK_RETRIES
\* Mutant: one NAK too many before the peer is rotated out.
NakDemotesLate(c, s) == /\ ~StaleNak(c, s) /\ ~NakExhausts(c, s)
                        /\ nak[c][s] + 1 > NAK_THRESHOLD

NakDemotes(c, s) == /\ ~StaleNak(c, s) /\ ~NakExhausts(c, s)
                    /\ nak[c][s] + 1 >= NAK_THRESHOLD

(* release_slot, when the record goes.                                        *)
Released(c, s, free) == [slots EXCEPT ![s] = IF free THEN @ \ {c} ELSE @]

(* The slot and the record go on a demotion, and on any bad chunk.            *)
ApplyNak(c, s, bad) ==
    LET rotate == NakDemotes(c, s)
        free == rotate \/ (bad /\ ~StaleNak(c, s))
    IN  /\ stuck' = [stuck EXCEPT ![c][s] = 0]
        /\ retries' = [retries EXCEPT ![c] = IF StaleNak(c, s) THEN @ ELSE @ + 1]
        /\ nak' = [nak EXCEPT ![c][s] = IF StaleNak(c, s) \/ NakExhausts(c, s) THEN @
                                        ELSE IF rotate THEN 0 ELSE @ + 1]
        /\ tried' = [tried EXCEPT ![c] = IF rotate THEN @ \cup {s} ELSE @]
        /\ slots' = Released(c, s, free)
        /\ inflight' = [inflight EXCEPT ![c] = IF free THEN NoSource ELSE @]

(* An overdue request is sent again; after STUCK_REQUEST_DEMOTE_AFTER of them *)
(* in a row the silence counts as one NAK.                                    *)
StuckChunk(c) ==
    /\ pc = "stuck" /\ c \in aged
    /\ LET s == inflight[c]
           again == Sent(toSrc, s, [kind |-> "request", chunk |-> c])
           reached == stuck[c][s] + 1 >= STUCK_REQUEST_DEMOTE_AFTER
           next == IF aged = {c} THEN "wait" ELSE "stuck"
       IN  /\ toSrc' = again
           /\ IF ~reached
              THEN /\ stuck' = [stuck EXCEPT ![c][s] = @ + 1]
                   /\ Keep(next) /\ aged' = aged \ {c}
                   /\ UNCHANGED <<retries, tried, nak, slots, inflight>>
              ELSE /\ ApplyNak(c, s, FALSE)
                   /\ IF NakExhausts(c, s)
                      THEN EndRun("failed", "exhausted")
                      ELSE Keep(next) /\ aged' = aged \ {c}
    /\ UNCHANGED <<verified, library, unavailable, closed, serving,
                   have, fromSrc, counters>>

(* Two seconds without a frame: everything in flight is overdue.              *)
Tick ==
    /\ pc = "wait"
    /\ Late(~Quiet)
    /\ aged' = InFlight
    /\ Keep("refill")
    /\ UNCHANGED <<verified, library, budget, unavailable, wire>>

-----------------------------------------------------------------------------
(* Frames from the peers, one at a time, in each peer's order.                *)
Received(s, kind) == /\ pc = "wait"
                     /\ fromSrc[s] # <<>> /\ Head(fromSrc[s]).kind = kind
                     /\ fromSrc' = [fromSrc EXCEPT ![s] = Tail(@)]

(* A chunk nobody waits for, or one that another peer was asked for: Ack, so  *)
(* that its sender stops, and drop.                                           *)
UnexpectedChunk(s) ==
    /\ Received(s, "chunk")
    /\ LET c == Head(fromSrc[s]).chunk IN
         /\ inflight[c] # s
         /\ toSrc' = Sent(toSrc, s, [kind |-> "ack", chunk |-> c])
    /\ Keep("refill")
    /\ UNCHANGED <<verified, library, aged, budget, unavailable,
                   closed, serving, have, counters>>

(* Undecodable, of the wrong length or with the wrong digest: a NAK against   *)
(* the peer, the chunk free again, a Nak back once the peer is rotated out.   *)
BadChunk(s) ==
    /\ Received(s, "chunk")
    /\ LET c == Head(fromSrc[s]).chunk IN
         /\ inflight[c] = s /\ ~Head(fromSrc[s]).good
         /\ ApplyNak(c, s, TRUE)
         /\ toSrc' = IF NakDemotes(c, s) THEN Sent(toSrc, s, [kind |-> "nak", chunk |-> c])
                     ELSE toSrc
         /\ IF NakExhausts(c, s) THEN EndRun("failed", "exhausted")
            ELSE Keep("refill") /\ UNCHANGED aged
    /\ UNCHANGED <<verified, library, unavailable, closed, serving,
                   have, counters>>

\* Mutant: the row is marked before the bytes are stored.
WriteChunkMarked(s) ==
    /\ Received(s, "chunk")
    /\ LET c == Head(fromSrc[s]).chunk IN
         /\ inflight[c] = s /\ Head(fromSrc[s]).good
         /\ file' = [file EXCEPT ![c] = "torn"]
         /\ verified' = verified \cup {c}
         /\ writing' = <<c, s>>
    /\ pc' = "write"
    /\ UNCHANGED <<row, why, library, aged, budget, unavailable, closed,
                   serving, have, toSrc, counters>>

(* A good chunk is first written to its part file ...                         *)
WriteChunk(s) ==
    /\ Received(s, "chunk")
    /\ LET c == Head(fromSrc[s]).chunk IN
         /\ inflight[c] = s /\ Head(fromSrc[s]).good
         /\ file' = [file EXCEPT ![c] = "torn"]
         /\ writing' = <<c, s>>
    /\ pc' = "write"
    /\ UNCHANGED <<row, why, verified, library, aged, budget,
                   unavailable, closed, serving, have, toSrc, counters>>

(* ... then marked verified, its record, counters and slot released, and      *)
(* acknowledged; a slow round trip makes the source unavailable for a while.  *)
MarkChunk ==
    /\ pc = "write"
    /\ LET c == writing[1]
           s == writing[2]
       IN  /\ file' = [file EXCEPT ![c] = "good"]
           /\ verified' = verified \cup {c}
           /\ inflight' = [inflight EXCEPT ![c] = NoSource]
           /\ nak' = [nak EXCEPT ![c][s] = 0]
           /\ stuck' = [stuck EXCEPT ![c][s] = 0]
           /\ slots' = [slots EXCEPT ![s] = @ \ {c}]
           /\ toSrc' = Sent(toSrc, s, [kind |-> "ack", chunk |-> c])
           /\ \/ Late(FALSE) /\ UNCHANGED unavailable
              \/ Late(TRUE) /\ unavailable' = unavailable \cup {s}
    /\ writing' = Idle
    /\ pc' = "refill"
    /\ UNCHANGED <<row, why, library, aged, retries, tried, closed,
                   serving, have, fromSrc>>

(* The part file or the row could not be written.                             *)
StoreFails ==
    /\ pc = "write"
    /\ Trouble
    /\ EndRun("failed", "io")
    /\ UNCHANGED <<verified, library, budget, unavailable, wire, late>>

(* A peer's Nak counts like silence would, and is answered with a Nak.        *)
NakFrame(s) ==
    /\ Received(s, "nak")
    /\ LET c == Head(fromSrc[s]).chunk IN
         /\ ApplyNak(c, s, FALSE)
         /\ IF NakExhausts(c, s)
            THEN EndRun("failed", "exhausted") /\ UNCHANGED toSrc
            ELSE /\ toSrc' = Sent(toSrc, s, [kind |-> "nak", chunk |-> c])
                 /\ Keep("refill") /\ UNCHANGED aged
    /\ UNCHANGED <<verified, library, unavailable, closed, serving,
                   have, counters>>

(* One peer's Error or Cancel frame ends the download for all of them.        *)
PeerEnds(s) ==
    /\ \/ Received(s, "error") /\ EndRun("failed", "peer")
       \/ Received(s, "cancel") /\ EndRun("cancelled", "peer")
    /\ UNCHANGED <<verified, library, budget, unavailable, closed,
                   serving, have, toSrc, counters>>

(* Every receive pump has ended.                                              *)
AllSourcesGone ==
    /\ pc = "wait"
    /\ closed = Sources /\ \A s \in Sources: fromSrc[s] = <<>>
    /\ EndRun("failed", "gone")
    /\ UNCHANGED <<verified, library, budget, unavailable, wire, counters>>

(* The run's token is cancelled while it waits; a send that sees it first     *)
(* ends the run in the same way.                                              *)
Cancel ==
    /\ pc \in {"start", "wait"}
    /\ Trouble
    /\ EndRun("cancelled", "cancelled")
    /\ UNCHANGED <<verified, library, budget, unavailable, wire, late>>

-----------------------------------------------------------------------------
(* Every chunk is verified: the row moves on ...                              *)
AllVerified ==
    /\ pc = "refill"
    /\ verified = Chunks
    /\ row' = "verifying" /\ pc' = "assemble"
    /\ UNCHANGED <<why, verified, file, library, aged, writing, budget,
                   unavailable, wire, counters>>

(* ... the parts are joined, hashed and renamed into the library, or refused  *)
(* for a missing or short part or for a digest that does not match.           *)
Assemble ==
    /\ pc = "assemble"
    /\ \/ /\ \A c \in Chunks: file[c] = "good"
          /\ library' = TRUE /\ pc' = "publish"
          /\ UNCHANGED <<row, why, file, writing, aged, wire>>
       \/ /\ EndRun("failed", "hash")
          /\ closed' = Sources
          /\ UNCHANGED <<library, serving, have, toSrc, fromSrc>>
    /\ UNCHANGED <<verified, budget, unavailable, counters>>

(* The parts are removed, the row is complete, every channel is closed.       *)
Publish ==
    /\ pc = "publish"
    /\ EndRun("complete", "ok")
    /\ closed' = Sources
    /\ UNCHANGED <<verified, library, budget, unavailable,
                   serving, have, toSrc, fromSrc, counters>>

-----------------------------------------------------------------------------
(* The client dies; a part being written is left as it was.                   *)
Crash ==
    /\ pc \notin {"end", "down"}
    /\ Trouble
    /\ pc' = "down"
    /\ UNCHANGED <<durable, why, aged, writing, budget, unavailable, wire, late>>

(* dedup_on_download finds the file under its digest.                         *)
\* Mutant: a file already in the library is fetched again.
DedupMisses == FALSE
AlreadyLocal == library

(* The download is opened again: the file is already in the library (dedup),  *)
(* or a new run takes the row over on new channels.                           *)
Reopen ==
    /\ pc = "down"
    /\ aged' = {} /\ writing' = Idle /\ unavailable' = {}
    /\ retries' = [c \in Chunks |-> 0] /\ tried' = [c \in Chunks |-> {}]
    /\ nak' = Zero /\ stuck' = Zero
    /\ inflight' = [c \in Chunks |-> NoSource] /\ slots' = NoChunks
    /\ closed' = {} /\ serving' = [s \in Sources |-> "hello"]
    /\ have' = NoChunks /\ toSrc' = NoFrames
    /\ fromSrc' = NoFrames
    /\ IF AlreadyLocal
       THEN row' = "complete" /\ why' = "ok" /\ pc' = "end" /\ verified' = Chunks
       ELSE pc' = "start" /\ UNCHANGED <<row, why, verified>>
    /\ UNCHANGED <<file, library, counters>>

-----------------------------------------------------------------------------
(* The peers. What one still does once the run is over concerns nobody here.  *)
Heard(s, kind) == /\ s \notin closed /\ serving[s] # "gone"
                  /\ pc \notin {"end", "down"}
                  /\ toSrc[s] # <<>> /\ Head(toSrc[s]).kind = kind
                  /\ toSrc' = [toSrc EXCEPT ![s] = Tail(@)]

viewer == <<durable, why, pc, aged, writing, budget, unavailable, late>>

(* A session waits for the one Hello it serves.                               *)
SenderHello(s) ==
    /\ serving[s] = "hello"
    /\ Heard(s, "hello")
    /\ serving' = [serving EXCEPT ![s] = "serve"]
    /\ have' = [have EXCEPT ![s] = Head(toSrc[s]).have]
    /\ UNCHANGED <<viewer, closed, fromSrc, troubles>>

(* What a peer may say when asked for c: this code's sender only ever a chunk *)
(* it has verified itself.                                                    *)
Answers(s, c) ==
    {<<[kind |-> "chunk", chunk |-> c, good |-> TRUE]>>}
    \cup IF s \notin Faulty THEN {}
         ELSE {<<>>, <<[kind |-> "chunk", chunk |-> c, good |-> FALSE]>>,
               <<[kind |-> "nak", chunk |-> c]>>,
               <<[kind |-> "error"]>>, <<[kind |-> "cancel"]>>}

(* A Request for a chunk the receiver acknowledged is answered with an Ack,   *)
(* which the receiver drops.                                                  *)
SenderRequest(s) ==
    /\ serving[s] = "serve"
    /\ Heard(s, "request")
    /\ LET c == Head(toSrc[s]).chunk IN
         IF c \in have[s] THEN UNCHANGED fromSrc
         ELSE \E a \in Answers(s, c): fromSrc' = [fromSrc EXCEPT ![s] = @ \o a]
    /\ UNCHANGED <<viewer, closed, serving, have, troubles>>

(* The last Ack ends the session.                                             *)
SenderAck(s) ==
    /\ serving[s] = "serve"
    /\ Heard(s, "ack")
    /\ have' = [have EXCEPT ![s] = @ \cup {Head(toSrc[s]).chunk}]
    /\ serving' = [serving EXCEPT ![s] = IF have'[s] = Chunks THEN "gone" ELSE @]
    /\ UNCHANGED <<viewer, closed, fromSrc, troubles>>

(* A Nak is answered by sending the chunk once more.                          *)
SenderNak(s) ==
    /\ serving[s] = "serve"
    /\ Heard(s, "nak")
    /\ \E g \in {TRUE, s \notin Faulty}:
         fromSrc' = [fromSrc EXCEPT ![s] = Append(@,
                       [kind |-> "chunk", chunk |-> Head(toSrc[s]).chunk, good |-> g])]
    /\ UNCHANGED <<viewer, closed, serving, have, troubles>>

(* The session ends without a word: its file is gone or changed, its wait     *)
(* timed out, or it could not be started. The channel stays open.             *)
SenderFails(s) ==
    /\ s \notin closed /\ serving[s] # "gone" /\ pc \notin {"end", "down"}
    /\ Trouble
    /\ serving' = [serving EXCEPT ![s] = "gone"]
    /\ toSrc' = [toSrc EXCEPT ![s] = <<>>]
    /\ UNCHANGED <<viewer, closed, have, fromSrc>>

(* Data channels close under the run: a peer leaves, or the network goes and  *)
(* takes them all.                                                            *)
ChannelsClose(S) ==
    /\ S \cap closed = {} /\ pc \notin {"end", "down"}
    /\ Trouble
    /\ closed' = closed \cup S
    /\ serving' = [s \in Sources |-> IF s \in S THEN "gone" ELSE serving[s]]
    /\ toSrc' = [s \in Sources |-> IF s \in S THEN <<>> ELSE toSrc[s]]
    /\ UNCHANGED <<viewer, have, fromSrc>>

Serve(s) == SenderHello(s) \/ SenderRequest(s) \/ SenderAck(s) \/ SenderNak(s)

Frame(s) == \/ UnexpectedChunk(s) \/ BadChunk(s) \/ WriteChunk(s)
            \/ NakFrame(s) \/ PeerEnds(s)

Next ==
    \/ Start \/ Recover \/ Dispatch \/ EndRefill \/ Tick
    \/ \E c \in Chunks: StuckChunk(c)
    \/ \E s \in Sources: Frame(s)
    \/ MarkChunk \/ StoreFails \/ AllSourcesGone \/ Cancel
    \/ AllVerified \/ Assemble \/ Publish
    \/ Crash \/ Reopen
    \/ \E s \in Sources: Serve(s) \/ SenderFails(s)
    \/ \E S \in (SUBSET Sources) \ {{}}: ChannelsClose(S)

(* The orchestrator's task and the peers' sessions keep running, a restarted  *)
(* client opens its download again, and a cooldown passes.                    *)
Fairness ==
    /\ WF_vars(Start) /\ WF_vars(Dispatch) /\ WF_vars(EndRefill) /\ WF_vars(Tick)
    /\ WF_vars(\E c \in Chunks: StuckChunk(c))
    /\ WF_vars(\E s \in Sources: Frame(s))
    /\ WF_vars(MarkChunk) /\ WF_vars(AllVerified) /\ WF_vars(Assemble)
    /\ WF_vars(Publish) /\ WF_vars(Reopen)
    /\ SF_vars(Recover)
    /\ \A s \in Sources: WF_vars(Serve(s))

Spec == Init /\ [][Next]_vars /\ Fairness
-----------------------------------------------------------------------------
(* A chunk row says verified only while the chunk's bytes are on disk: while  *)
(* a download can still be resumed, its Hello never claims a chunk that the   *)
(* assembly would then miss (handle_chunk writes before it marks, and a       *)
(* stored chunk is never written again).                                      *)
VerifiedOnDisk ==
    row \in Live /\ ~library => \A c \in verified: file[c] = "good"

(* One bad peer never costs the download its budget: while at most one source *)
(* misbehaves, has stopped serving or has lost its channel, another is there, *)
(* and nobody is slow, no chunk runs out of sources.                          *)
Bad == {s \in Sources: s \in Faulty \/ s \in closed \/ serving[s] = "gone"}
OneFaultSurvived ==
    why = "exhausted" => late > 0 \/ Cardinality(Bad) > 1 \/ Bad = Sources

(* However the peers behave, a run comes to an end.                           *)
Ends == <>(pc = "end")

(* The run implements the promise of FileFetch: chunks are gathered, the file *)
(* is published when all are held, completed after that, or dropped whole.    *)
Fetch == INSTANCE FileFetch
    WITH held <- IF row \in {"failed", "cancelled"} THEN {} ELSE verified,
         status <- IF row = "complete" THEN "complete"
                   ELSE IF row \in {"failed", "cancelled"} THEN "aborted"
                   ELSE IF library THEN "published" ELSE "active"
ImplementsFetch == Fetch!Spec
=============================================================================
