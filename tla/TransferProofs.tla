---------------------------- MODULE TransferProofs ----------------------------
(* Theorems about Session, FilesChannel and Downloads, for any file and chunk *)
(* size, any number of losses, damaged frames, cancels, crashes, sessions and *)
(* overlapping calls: a session with one peer is the atomic fetch of          *)
(* FileFetch, a files channel refuses a segment only after the roles of one   *)
(* end mixed theirs, and a download's row says complete only of a file in the *)
(* library.                                                                   *)
EXTENDS Session, FilesChannel, Downloads, FiniteSetTheorems, WellFoundedInduction, TLAPS

-----------------------------------------------------------------------------
(* Session: the inductive invariant.                                          *)

\* A session moves chunks only while its row is live, and assembles only a row
\* that says so.
RowFollows ==
    /\ rpc \in {"offer", "fill", "wait", "mark", "verify"}
         => drow \in {"transferring", "verifying"}
    /\ rpc \in {"assemble", "cleanup", "finish"} => drow = "verifying"

\* A chunk without a verified row is still to be asked for, in flight, or being
\* stored: the session cannot run out of work with one missing.
NoneForgotten ==
    rpc \in {"fill", "wait", "mark"}
      => Planned \ marked \subseteq toRequest \cup Awaited \cup {chunkIn}

\* What is being stored is a chunk of the plan.
StoredIsPlanned ==
    /\ rpc = "mark" => chunkIn \in Planned
    /\ rpc \in {"start", "connect", "offer", "fill", "wait"} => chunkIn = NoChunk

\* From the last chunk on every chunk is verified, and the row says complete
\* only of a file in the library.
FiledIsWhole ==
    /\ rpc \in {"verify", "assemble", "cleanup", "finish"} => marked = Planned
    /\ rpc \in {"cleanup", "finish"} => filed
    /\ filed => marked = Planned
    /\ drow = "complete" => filed

SessionInv == /\ SessionTypeOK
              /\ RowFollows /\ NoneForgotten /\ StoredIsPlanned /\ FiledIsWhole

-----------------------------------------------------------------------------
(* Session: the types, part by part.                                          *)
HashTypes == hash \in [size: Sizes, at: Nat, into: Nat, cut: Seq(Nat), done: BOOLEAN]
RowTypes == /\ rpc \in ReceiverPlaces /\ drow \in RowStates
            /\ marked \subseteq Planned /\ parts \subseteq Planned
            /\ filed \in BOOLEAN
WorkTypes == /\ toRequest \subseteq Planned /\ got \subseteq Planned
             /\ pending \in [Planned -> Nat] /\ chunkIn \in Planned \cup {NoChunk}
ShownTypes == transferred \in Nat /\ emitter \in Emitters
MailTypes == /\ spc \in SenderDone \cup {"hello", "serve"} /\ acked \subseteq Planned
             /\ toSender \in Seq(ToSender) /\ toReceiver \in Seq(ToReceiver)
CountTypes == /\ lost \in 0..MaxLost /\ bad \in 0..MaxBad /\ halts \in 0..MaxHalts
              /\ sessions \in 0..MaxSessions
SessionTypes == /\ HashTypes /\ RowTypes /\ WorkTypes /\ ShownTypes /\ MailTypes
                /\ CountTypes

LEMMA SessionTypesSplit == SessionTypeOK <=> SessionTypes
BY DEF SessionTypeOK, SessionTypes, HashTypes, RowTypes, WorkTypes, ShownTypes,
   MailTypes, CountTypes, ReceiverPlaces, RowStates, Emitters

LEMMA SessionTypesSplitPrimed == SessionTypeOK' <=> SessionTypes'
BY DEF SessionTypeOK, SessionTypes, HashTypes, RowTypes, WorkTypes, ShownTypes,
   MailTypes, CountTypes, ReceiverPlaces, RowStates, Emitters

-----------------------------------------------------------------------------
(* Session: lemmas about its operators.                                       *)
LEMMA LeastOfNaturals ==
    ASSUME NEW S, S \subseteq Nat, S # {}
    PROVE  Min(S) \in S
<1>1. PICK x \in S: \A y \in S: <<y, x>> \notin OpToRel(<, Nat)
  BY NatLessThanWellFounded, WFMin
<1>2. \A y \in S: x <= y
  <2>1. \A a, b \in Nat: a < b => <<a, b>> \in OpToRel(<, Nat)
    BY DEF OpToRel
  <2>2. \A y \in S: y < x => FALSE
    BY <1>1, <2>1
  <2> QED BY <2>2
<1>3. \E m \in S: \A y \in S: m <= y
  BY <1>2
<1> QED BY <1>3 DEF Min

LEMMA PlanIsNatural ==
    /\ Size \in Nat \ {0} /\ CHUNK_SIZE \in Nat \ {0}
    /\ TotalChunks(Size) \in Nat \ {0}
    /\ Planned \subseteq Nat /\ NoChunk \notin Planned
    /\ Planned = 0..(TotalChunks(Size) - 1)
    /\ \A i \in Planned: Length(Size, i) \in Nat
<1>1. Size \in Nat \ {0} /\ CHUNK_SIZE \in Nat \ {0}
  BY SessionAssumption
<1> DEFINE n == Size + CHUNK_SIZE - 1
           t == n \div CHUNK_SIZE
<1>2. n \in Nat /\ n >= CHUNK_SIZE
  BY <1>1
<1>3. /\ t \in Int /\ n % CHUNK_SIZE \in 0..(CHUNK_SIZE - 1)
      /\ n = CHUNK_SIZE * t + (n % CHUNK_SIZE)
  BY <1>1, <1>2
<1>4. t >= 1
  BY <1>1, <1>2, <1>3
<1>5. ASSUME NEW i \in Planned PROVE Length(Size, i) \in Nat
  <2>1. i \in Int /\ 0 <= i /\ i + 1 <= t
    BY <1>3, <1>4 DEF Planned, TotalChunks
  <2>2. CASE i + 1 = t
    <3>1. CHUNK_SIZE * t <= n
      BY <1>1, <1>2, <1>3
    <3>2. CHUNK_SIZE * t = i * CHUNK_SIZE + CHUNK_SIZE
      BY <1>1, <1>3, <2>1, <2>2
    <3>3. i * CHUNK_SIZE \in Int
      BY <1>1, <2>1
    <3>4. Size - i * CHUNK_SIZE \in Nat
      BY <1>1, <3>1, <3>2, <3>3
    <3> QED BY <2>2, <3>4 DEF Length, Offset, TotalChunks
  <2>3. CASE i + 1 # t
    BY <1>1, <2>1, <2>3 DEF Length, TotalChunks
  <2> QED BY <2>2, <2>3
<1> QED BY <1>1, <1>3, <1>4, <1>5 DEF Planned, TotalChunks, NoChunk

LEMMA ProgressIsNatural ==
    ASSUME marked \subseteq Planned
    PROVE  FirstTransferred \in Nat
<1>1. IsFiniteSet(Planned)
  BY PlanIsNatural, FS_Interval, 0 \in Int, TotalChunks(Size) - 1 \in Int
<1>2. Cardinality(marked) \in Nat
  BY <1>1, FS_Subset, FS_CardinalityType
<1>3. Size - Cardinality(marked) * CHUNK_SIZE \in Int
  BY <1>2, PlanIsNatural
<1> QED BY <1>3, PlanIsNatural DEF FirstTransferred

LEMMA ShownState ==
    ASSUME NEW e \in Emitters, NEW s \in RowStates
    PROVE  RecordState(e, s) \in Emitters
<1>1. Flushed(e) \in Emitters
  BY DEF Flushed, Emitters
<1> QED BY <1>1 DEF RecordState, Emitters, RowStates, TerminalStates

LEMMA ShownProgress ==
    ASSUME NEW e \in Emitters, NEW n \in Nat
    PROVE  RecordProgress(e, n) \subseteq Emitters
<1>1. Flushed(e) \in Emitters
  BY DEF Flushed, Emitters
<1>2. [e EXCEPT !.buffered = n] \in Emitters
  BY DEF Emitters
<1>3. [Flushed(e) EXCEPT !.buffered = 0, !.last = "progress"] \in Emitters
  BY <1>1 DEF Emitters
<1> QED BY <1>2, <1>3 DEF RecordProgress

LEMMA Sending ==
    ASSUME toSender \in Seq(ToSender), lost \in 0..MaxLost, NEW f \in ToSender,
           SentToSender(f) \/ RefusedBySender
    PROVE  toSender' \in Seq(ToSender) /\ lost' \in 0..MaxLost
<1>1. Append(toSender, f) \in Seq(ToSender)
  BY DEF ToSender
<1>2. MaxLost \in Nat
  BY SessionAssumption
<1> QED BY <1>1, <1>2 DEF SentToSender, RefusedBySender, Dropped

LEMMA Answering ==
    ASSUME toReceiver \in Seq(ToReceiver), lost \in 0..MaxLost, NEW f \in ToReceiver,
           SentToReceiver(f) \/ RefusedByReceiver
    PROVE  toReceiver' \in Seq(ToReceiver) /\ lost' \in 0..MaxLost
<1>1. Append(toReceiver, f) \in Seq(ToReceiver)
  BY DEF ToReceiver
<1>2. MaxLost \in Nat
  BY SessionAssumption
<1> QED BY <1>1, <1>2 DEF SentToReceiver, RefusedByReceiver, Dropped

LEMMA Halting ==
    ASSUME halts \in 0..MaxHalts, Halt
    PROVE  halts' \in 0..MaxHalts
BY SessionAssumption DEF Halt

LEMMA ReceiverTakes ==
    ASSUME toReceiver \in Seq(ToReceiver), toReceiver # <<>>
    PROVE  /\ Head(toReceiver) \in ToReceiver
           /\ Tail(toReceiver) \in Seq(ToReceiver)
OBVIOUS

LEMMA SenderTakes ==
    ASSUME toSender \in Seq(ToSender), toSender # <<>>
    PROVE  /\ Head(toSender) \in ToSender
           /\ Tail(toSender) \in Seq(ToSender)
OBVIOUS

LEMMA ChunkFrame ==
    ASSUME NEW f \in ToReceiver, f.kind = "chunk"
    PROVE  f.chunk \in Planned /\ f.good \in BOOLEAN
BY DEF ToReceiver

LEMMA EndedFailed ==
    ASSUME drow \in RowStates, emitter \in Emitters, EndFailed
    PROVE  /\ rpc' = "failed" /\ emitter' \in Emitters
           /\ drow' = IF drow \in TerminalStates THEN drow ELSE "failed"
<1>1. "failed" \in RowStates
  BY DEF RowStates, TerminalStates
<1>2. emitter' \in Emitters
  BY <1>1, ShownState DEF EndFailed
<1> QED BY <1>2 DEF EndFailed, Transitioned, MayTransition, RowStates, TerminalStates

LEMMA EndedCancelled ==
    ASSUME drow \in RowStates, emitter \in Emitters, EndCancelled
    PROVE  /\ rpc' = "cancelled" /\ emitter' \in Emitters
           /\ drow' = IF drow \in TerminalStates THEN drow ELSE "cancelled"
<1>1. "cancelled" \in RowStates
  BY DEF RowStates, TerminalStates
<1>2. emitter' \in Emitters
  BY <1>1, ShownState DEF EndCancelled
<1> QED BY <1>2 DEF EndCancelled, Transitioned, MayTransition, RowStates, TerminalStates

-----------------------------------------------------------------------------
(* Session: every step keeps the invariant.                                   *)

\* A step of the sender, of the source's hashing, or none.
LEMMA ReceiverUntouched ==
    ASSUME SessionInv, UNCHANGED receiverVars, HashTypes', MailTypes', CountTypes'
    PROVE  SessionInv'
<1>1. RowTypes' /\ WorkTypes' /\ ShownTypes'
  BY SessionTypesSplit DEF SessionInv, SessionTypes, RowTypes, WorkTypes, ShownTypes,
     receiverVars
<1>2. SessionTypeOK'
  BY <1>1, SessionTypesSplitPrimed DEF SessionTypes
<1>3. RowFollows' /\ NoneForgotten' /\ StoredIsPlanned' /\ FiledIsWhole'
  BY DEF SessionInv, RowFollows, NoneForgotten, StoredIsPlanned, FiledIsWhole,
     Awaited, receiverVars
<1> QED BY <1>2, <1>3 DEF SessionInv

LEMMA HashKeeps == ASSUME SessionInv, HashStep PROVE SessionInv'
<1>1. SessionTypes
  BY SessionTypesSplit DEF SessionInv
<1>2. UNCHANGED receiverVars /\ MailTypes' /\ CountTypes'
  BY <1>1 DEF HashStep, HashRead, HashEnd, SessionTypes, MailTypes, CountTypes,
     senderVars
<1>3. READ_BUFFER \in Nat /\ CHUNK_SIZE \in Nat \ {0}
  BY SessionAssumption
<1>4. ASSUME NEW n \in 1..READ_BUFFER, HashRead(n) PROVE HashTypes'
  <2> DEFINE into == hash.into + n
  <2>1. into \in Nat /\ hash.at + n \in Nat
    BY <1>1, <1>3 DEF SessionTypes, HashTypes
  <2>2. into % CHUNK_SIZE \in Nat /\ into \div CHUNK_SIZE \in Nat
    BY <2>1, <1>3
  <2>3. [i \in 1..(into \div CHUNK_SIZE) |-> CHUNK_SIZE] \in Seq(Nat)
    BY <2>2, <1>3
  <2>4. hash.cut \o [i \in 1..(into \div CHUNK_SIZE) |-> CHUNK_SIZE] \in Seq(Nat)
    BY <2>3, <1>1 DEF SessionTypes, HashTypes
  <2> HIDE DEF into
  <2> QED BY <2>1, <2>2, <2>4, <1>1, <1>4 DEF HashRead, SessionTypes, HashTypes, into
<1>5. ASSUME HashEnd PROVE HashTypes'
  <2>1. Append(hash.cut, hash.into) \in Seq(Nat)
    BY <1>1 DEF SessionTypes, HashTypes
  <2> QED BY <2>1, <1>1, <1>5 DEF HashEnd, SessionTypes, HashTypes
<1> QED BY <1>2, <1>4, <1>5, ReceiverUntouched DEF HashStep

LEMMA SenderKeeps ==
    ASSUME SessionInv, SenderStep \/ SenderReadFails \/ CancelSession
    PROVE  SessionInv'
<1>1. SessionTypes
  BY SessionTypesSplit DEF SessionInv
<1>2. UNCHANGED receiverVars /\ HashTypes'
  BY <1>1 DEF SenderStep, SenderGetsHello, SenderServe, SenderAcked, SenderStops,
     SenderReadFails, CancelSession, SessionTypes, HashTypes
<1>3. /\ toSender \in Seq(ToSender) /\ toReceiver \in Seq(ToReceiver)
      /\ acked \subseteq Planned /\ spc \in SenderDone \cup {"hello", "serve"}
      /\ lost \in 0..MaxLost /\ bad \in 0..MaxBad /\ halts \in 0..MaxHalts
      /\ sessions \in 0..MaxSessions /\ MaxBad \in Nat
  BY <1>1, SessionAssumption DEF SessionTypes, MailTypes, CountTypes
<1>4. CASE SenderGetsHello
  <2>1. Head(toSender) \in ToSender /\ toSender' \in Seq(ToSender)
    BY <1>3, <1>4, SenderTakes DEF SenderGetsHello
  <2>2. bad' \in 0..MaxBad /\ halts' \in 0..MaxHalts /\ sessions' \in 0..MaxSessions
    BY <1>3, <1>4 DEF SenderGetsHello
  <2>3. CASE Head(toSender).kind # "hello"
    BY <1>2, <1>3, <1>4, <2>1, <2>2, <2>3, ReceiverUntouched
       DEF SenderGetsHello, MailTypes, CountTypes, SenderDone
  <2>4. CASE Head(toSender).kind = "hello"
    <3>1. acked' \subseteq Planned /\ spc' \in SenderDone \cup {"hello", "serve"}
      BY <1>4, <2>1, <2>4 DEF SenderGetsHello, ToSender, SenderDone
    <3>2. [kind |-> "offer", total |-> Len(hash.cut)] \in ToReceiver
      BY <1>1 DEF SessionTypes, HashTypes, ToReceiver
    <3>3. toReceiver' \in Seq(ToReceiver) /\ lost' \in 0..MaxLost
      BY <1>3, <1>4, <2>4, <3>2, Answering DEF SenderGetsHello
    <3> QED BY <1>2, <2>1, <2>2, <3>1, <3>3, ReceiverUntouched DEF MailTypes, CountTypes
  <2> QED BY <2>3, <2>4
<1>5. CASE SenderServe
  <2>1. Head(toSender) \in ToSender /\ toSender' \in Seq(ToSender)
    BY <1>3, <1>5, SenderTakes DEF SenderServe
  <2>2. PICK a \in Answer(Head(toSender)):
          /\ bad' = IF a.kind = "chunk" /\ ~a.good THEN bad + 1 ELSE bad
          /\ \/ SentToReceiver(a) /\ UNCHANGED spc
             \/ RefusedByReceiver /\ spc' = "done"
    BY <1>5 DEF SenderServe
  <2>3. a \in ToReceiver /\ (a.kind = "chunk" /\ ~a.good => bad < MaxBad)
    <3> DEFINE f == Head(toSender)
    <3>1. f.kind \in {"request", "nak"} /\ f.chunk \in Planned
      BY <1>5, <2>1 DEF SenderServe, ToSender
    <3>2. [kind |-> "ack", chunk |-> f.chunk] \in ToReceiver
      BY <3>1 DEF ToReceiver
    <3>3. \A g \in BOOLEAN: [kind |-> "chunk", chunk |-> f.chunk, good |-> g] \in ToReceiver
      BY <3>1 DEF ToReceiver
    <3> HIDE DEF f
    <3>4. a \in Answer(f)
      BY <2>2 DEF f
    <3>5. CASE a = [kind |-> "ack", chunk |-> f.chunk]
      BY <3>2, <3>5
    <3>6. CASE \E g \in {TRUE} \cup (IF bad < MaxBad THEN {FALSE} ELSE {}):
                 a = [kind |-> "chunk", chunk |-> f.chunk, good |-> g]
      <4>1. PICK g \in BOOLEAN:
              /\ a = [kind |-> "chunk", chunk |-> f.chunk, good |-> g]
              /\ g \/ bad < MaxBad
        BY <3>6
      <4>2. a \in ToReceiver
        BY <3>3, <4>1
      <4>3. a.good = g
        BY <4>1
      <4> QED BY <4>1, <4>2, <4>3
    <3> QED BY <3>4, <3>5, <3>6 DEF Answer
  <2>4. bad' \in 0..MaxBad
    BY <1>3, <2>2, <2>3
  <2>5. toReceiver' \in Seq(ToReceiver) /\ lost' \in 0..MaxLost
    BY <1>3, <2>2, <2>3, Answering
  <2>6. /\ UNCHANGED <<acked, halts, sessions>>
        /\ spc' \in SenderDone \cup {"hello", "serve"}
    BY <1>3, <1>5, <2>2 DEF SenderServe, SenderDone
  <2> QED BY <1>2, <1>3, <2>1, <2>4, <2>5, <2>6, ReceiverUntouched DEF MailTypes, CountTypes
<1>6. CASE SenderAcked
  <2>1. Head(toSender) \in ToSender /\ toSender' \in Seq(ToSender)
    BY <1>3, <1>6, SenderTakes DEF SenderAcked
  <2>2. acked' \subseteq Planned
    BY <1>3, <1>6, <2>1 DEF SenderAcked, ToSender
  <2>3. spc' \in SenderDone \cup {"hello", "serve"}
    BY <1>6 DEF SenderAcked, SenderDone
  <2>4. UNCHANGED <<toReceiver, lost, bad, halts, sessions>>
    BY <1>6 DEF SenderAcked
  <2> QED BY <1>2, <1>3, <2>1, <2>2, <2>3, <2>4, ReceiverUntouched DEF MailTypes, CountTypes
<1>7. CASE SenderStops
  <2>1. /\ spc' \in SenderDone
        /\ UNCHANGED <<acked, toSender, toReceiver, lost, bad, halts, sessions>>
    BY <1>7 DEF SenderStops, SenderDone
  <2> QED BY <1>2, <1>3, <2>1, ReceiverUntouched DEF MailTypes, CountTypes
<1>8. CASE SenderReadFails
  <2>1. /\ spc' \in SenderDone /\ toSender' \in Seq(ToSender)
        /\ UNCHANGED <<acked, toReceiver, lost, bad, sessions>>
    BY <1>3, <1>8, SenderTakes DEF SenderReadFails, SenderDone
  <2>2. halts' \in 0..MaxHalts
    BY <1>3, <1>8, Halting DEF SenderReadFails
  <2> QED BY <1>2, <1>3, <2>1, <2>2, ReceiverUntouched DEF MailTypes, CountTypes
<1>9. CASE CancelSession
  <2>1. spc' \in SenderDone /\ UNCHANGED <<acked, toSender, bad, sessions>>
    BY <1>9 DEF CancelSession, SenderDone
  <2>2. halts' \in 0..MaxHalts
    BY <1>3, <1>9, Halting DEF CancelSession
  <2>3. [kind |-> "cancel"] \in ToReceiver
    BY DEF ToReceiver
  <2>4. toReceiver' \in Seq(ToReceiver) /\ lost' \in 0..MaxLost
    BY <1>3, <1>9, <2>3, Answering DEF CancelSession
  <2> QED BY <1>2, <1>3, <2>1, <2>2, <2>4, ReceiverUntouched DEF MailTypes, CountTypes
<1> QED BY <1>4, <1>5, <1>6, <1>7, <1>8, <1>9 DEF SenderStep

\* What every step of the receiver leaves alone.
LEMMA ReceiverOnly ==
    ASSUME SessionTypes, ReceiverStep \/ CancelReceiver \/ CrashReceiver
    PROVE  HashTypes' /\ UNCHANGED <<spc, acked, bad, sessions>>
BY DEF SessionTypes, HashTypes, ReceiverStep, StartTransfer, Hello, TakeOffer, Fill,
   ReRequest, AllArrived, Unawaited, Damaged, StorePart, MarkVerified, OtherFrame,
   PeerGone, ReceiverTimeout, Verify, FinalizeFile, Cleanup, Finish, CancelReceiver,
   CrashReceiver, senderVars

\* A session that ends where it stands.
LEMMA EndingKeeps ==
    ASSUME SessionInv, HashTypes', WorkTypes', MailTypes', CountTypes', emitter' \in Emitters,
           rpc' \in ReceiverDone \ {"complete"},
           drow' \in {drow, "failed", "cancelled"},
           UNCHANGED <<marked, parts, filed, transferred>>
    PROVE  SessionInv'
<1>1. SessionTypes
  BY SessionTypesSplit DEF SessionInv
<1>2. RowTypes' /\ ShownTypes'
  BY <1>1 DEF SessionTypes, RowTypes, ShownTypes, RowStates, TerminalStates, ReceiverPlaces
<1>3. SessionTypeOK'
  BY <1>2, SessionTypesSplitPrimed DEF SessionTypes
<1>4. RowFollows' /\ NoneForgotten' /\ StoredIsPlanned' /\ FiledIsWhole'
  BY DEF SessionInv, RowFollows, NoneForgotten, StoredIsPlanned, FiledIsWhole, ReceiverDone
<1> QED BY <1>3, <1>4 DEF SessionInv

\* The steps that put a session on its way.
LEMMA OpeningKeeps ==
    ASSUME SessionInv, RunReceiver \/ StartTransfer \/ Hello \/ TakeOffer
    PROVE  SessionInv'
<1>1. SessionTypes
  BY SessionTypesSplit DEF SessionInv
<1>2. /\ rpc \in ReceiverPlaces /\ drow \in RowStates /\ marked \subseteq Planned
      /\ parts \subseteq Planned /\ filed \in BOOLEAN
      /\ emitter \in Emitters /\ transferred \in Nat
      /\ toSender \in Seq(ToSender) /\ toReceiver \in Seq(ToReceiver)
      /\ lost \in 0..MaxLost /\ sessions \in 0..MaxSessions
  BY <1>1 DEF SessionTypes, RowTypes, ShownTypes, MailTypes, CountTypes
<1>3. CASE RunReceiver
  <2>1. RowTypes'
    BY <1>2, <1>3 DEF RunReceiver, RowTypes, ReceiverPlaces
  <2>2. WorkTypes'
    BY <1>3 DEF RunReceiver, WorkTypes, NoneInFlight
  <2>3. FreshEmitter \in Emitters /\ "pending" \in RowStates
    BY DEF FreshEmitter, Emitters, RowStates
  <2>4. ShownTypes'
    BY <1>3, <2>3, ShownState DEF RunReceiver, ShownTypes
  <2>5. MailTypes' /\ HashTypes'
    BY <1>1, <1>3 DEF RunReceiver, MailTypes, SessionTypes, HashTypes
  <2>6. CountTypes'
    BY <1>1, <1>3, SessionAssumption DEF RunReceiver, SessionTypes, CountTypes
  <2>7. SessionTypeOK'
    BY <2>1, <2>2, <2>4, <2>5, <2>6, SessionTypesSplitPrimed DEF SessionTypes
  <2>8. RowFollows' /\ NoneForgotten' /\ StoredIsPlanned' /\ FiledIsWhole'
    BY <1>3 DEF SessionInv, RunReceiver, RowFollows, NoneForgotten, StoredIsPlanned,
       FiledIsWhole
  <2> QED BY <2>7, <2>8 DEF SessionInv
<1>4. CASE StartTransfer
  <2>1. WorkTypes' /\ MailTypes' /\ CountTypes' /\ HashTypes'
    BY <1>1, <1>4 DEF StartTransfer, SessionTypes, WorkTypes, MailTypes, CountTypes,
       HashTypes, senderVars
  <2>2. /\ rpc' \in {"connect", "error"} /\ rpc \in {"start", "connect"}
        /\ UNCHANGED <<marked, parts, filed, toRequest, pending, chunkIn, transferred>>
        /\ \/ UNCHANGED <<drow, emitter>>
           \/ \E to \in {"connecting", "transferring"}:
                drow' = to /\ emitter' = RecordState(emitter, to)
    BY <1>4 DEF StartTransfer
  <2>3. emitter' \in Emitters /\ drow' \in RowStates
    BY <1>2, <2>2, ShownState DEF RowStates
  <2>4. RowTypes' /\ ShownTypes'
    BY <1>2, <2>2, <2>3 DEF RowTypes, ShownTypes, ReceiverPlaces, ReceiverDone
  <2>5. SessionTypeOK'
    BY <2>1, <2>4, SessionTypesSplitPrimed DEF SessionTypes
  <2>6. drow' = "complete" => drow = "complete"
    BY <2>2
  <2>7. RowFollows' /\ NoneForgotten' /\ StoredIsPlanned' /\ FiledIsWhole'
    BY <2>2, <2>6 DEF SessionInv, RowFollows, NoneForgotten, StoredIsPlanned, FiledIsWhole
  <2> QED BY <2>5, <2>7 DEF SessionInv
<1>5. CASE Hello
  <2>1. HashTypes' /\ UNCHANGED <<spc, acked, bad, halts, sessions, toReceiver>>
    BY <1>1, <1>5 DEF Hello, SessionTypes, HashTypes, senderVars
  <2>2. [kind |-> "hello", have |-> marked] \in ToSender
    BY <1>2 DEF ToSender
  <2>3. toSender' \in Seq(ToSender) /\ lost' \in 0..MaxLost
    BY <1>2, <1>5, <2>2, Sending DEF Hello
  <2>4. MailTypes' /\ CountTypes'
    BY <1>1, <2>1, <2>3 DEF SessionTypes, MailTypes, CountTypes
  <2>5. /\ WorkTypes' /\ rpc \in {"start", "connect"}
        /\ UNCHANGED <<marked, parts, filed, toRequest, pending, chunkIn, transferred>>
    BY <1>1, <1>5 DEF Hello, SessionTypes, WorkTypes
  <2>6. CASE EndCancelled
    <3>1. rpc' = "cancelled" /\ emitter' \in Emitters /\ drow' \in {drow, "cancelled"}
      BY <1>2, <2>6, EndedCancelled
    <3> QED BY <2>1, <2>4, <2>5, <3>1, EndingKeeps DEF ReceiverDone
  <2>7. CASE rpc' = "offer" /\ UNCHANGED <<drow, emitter>>
    <3>1. RowTypes' /\ ShownTypes'
      BY <1>2, <2>5, <2>7 DEF RowTypes, ShownTypes, ReceiverPlaces
    <3>2. SessionTypeOK'
      BY <2>1, <2>4, <2>5, <3>1, SessionTypesSplitPrimed DEF SessionTypes
    <3>3. drow \in {"transferring", "verifying"}
      BY <1>5 DEF Hello
    <3>4. RowFollows' /\ NoneForgotten' /\ StoredIsPlanned' /\ FiledIsWhole'
      BY <2>5, <2>7, <3>3
         DEF SessionInv, RowFollows, NoneForgotten, StoredIsPlanned, FiledIsWhole
    <3> QED BY <3>2, <3>4 DEF SessionInv
  <2> QED BY <1>5, <2>6, <2>7 DEF Hello
<1>6. CASE TakeOffer
  <2>1. /\ HashTypes' /\ rpc = "offer"
        /\ UNCHANGED <<spc, acked, lost, bad, halts, sessions, toSender, drow, marked,
                       parts, filed, pending, got, chunkIn, emitter>>
    BY <1>1, <1>6 DEF TakeOffer, SessionTypes, HashTypes, senderVars
  <2>2. MailTypes' /\ CountTypes'
    BY <1>1, <1>2, <1>6, <2>1, ReceiverTakes DEF TakeOffer, SessionTypes, MailTypes, CountTypes
  <2>3. CASE rpc' = "error" /\ UNCHANGED <<toRequest, transferred>>
    <3>1. WorkTypes'
      BY <1>1, <2>1, <2>3 DEF SessionTypes, WorkTypes
    <3> QED BY <1>2, <2>1, <2>2, <2>3, <3>1, EndingKeeps DEF ReceiverDone
  <2>4. CASE rpc' = "fill" /\ toRequest' = Planned \ marked /\ transferred' = FirstTransferred
    <3>1. WorkTypes' /\ RowTypes'
      BY <1>1, <2>1, <2>4 DEF SessionTypes, WorkTypes, RowTypes, ReceiverPlaces
    <3>2. ShownTypes'
      BY <1>2, <2>1, <2>4, ProgressIsNatural DEF ShownTypes
    <3>3. SessionTypeOK'
      BY <2>1, <2>2, <3>1, <3>2, SessionTypesSplitPrimed DEF SessionTypes
    <3>4. RowFollows' /\ NoneForgotten' /\ StoredIsPlanned' /\ FiledIsWhole'
      BY <2>1, <2>4 DEF SessionInv, RowFollows, NoneForgotten, StoredIsPlanned, FiledIsWhole
    <3> QED BY <3>3, <3>4 DEF SessionInv
  <2> QED BY <1>6, <2>3, <2>4 DEF TakeOffer
<1> QED BY <1>3, <1>4, <1>5, <1>6

\* A step from one place of the transfer to another, with what it does to the
\* work at hand.
LEMMA GoingOnKeeps ==
    ASSUME SessionInv, HashTypes', WorkTypes', ShownTypes', MailTypes', CountTypes',
           rpc \in {"fill", "wait", "mark"}, rpc' \in {"fill", "wait", "mark"},
           UNCHANGED <<drow, filed>>, parts' \subseteq Planned,
           marked \subseteq marked', marked' \subseteq Planned,
           Planned \ marked' \subseteq toRequest' \cup Awaited' \cup {chunkIn'},
           rpc' = "mark" => chunkIn' \in Planned,
           rpc' # "mark" => chunkIn' = NoChunk
    PROVE  SessionInv'
<1>1. SessionTypes
  BY SessionTypesSplit DEF SessionInv
<1>2. RowTypes'
  BY <1>1 DEF SessionTypes, RowTypes, ReceiverPlaces
<1>3. SessionTypeOK'
  BY <1>2, SessionTypesSplitPrimed DEF SessionTypes
<1>4. RowFollows' /\ NoneForgotten' /\ StoredIsPlanned' /\ FiledIsWhole'
  BY DEF SessionInv, RowFollows, NoneForgotten, StoredIsPlanned, FiledIsWhole
<1> QED BY <1>3, <1>4 DEF SessionInv

\* The steps that ask for chunks.
LEMMA AskingKeeps ==
    ASSUME SessionInv, Fill \/ ReRequest \/ AllArrived
    PROVE  SessionInv'
<1>1. SessionTypes
  BY SessionTypesSplit DEF SessionInv
<1>2. HashTypes' /\ UNCHANGED <<spc, acked, bad, halts, sessions, toReceiver>>
  BY <1>1 DEF Fill, ReRequest, AllArrived, SessionTypes, HashTypes, senderVars
<1>3. /\ toSender \in Seq(ToSender) /\ toReceiver \in Seq(ToReceiver)
      /\ lost \in 0..MaxLost /\ drow \in RowStates /\ emitter \in Emitters
      /\ parts \subseteq Planned /\ marked \subseteq Planned
      /\ pending \in [Planned -> Nat] /\ toRequest \subseteq Planned
      /\ chunkIn \in Planned \cup {NoChunk} /\ got \subseteq Planned
  BY <1>1 DEF SessionTypes, RowTypes, ShownTypes, MailTypes, CountTypes, WorkTypes
<1>4. \A c \in Planned: [kind |-> "request", chunk |-> c] \in ToSender
  BY DEF ToSender
<1>5. CASE Fill
  <2> DEFINE c == Min(toRequest)
  <2>1. c \in toRequest
    BY <1>3, <1>5, PlanIsNatural, LeastOfNaturals DEF Fill
  <2>2. /\ toRequest' = toRequest \ {c} /\ rpc = "fill"
        /\ UNCHANGED <<marked, parts, filed, got, chunkIn, transferred>>
        /\ \/ /\ SentToSender([kind |-> "request", chunk |-> c])
              /\ pending' = [pending EXCEPT ![c] = 1]
              /\ UNCHANGED <<rpc, drow, emitter>>
           \/ RefusedBySender /\ EndCancelled /\ UNCHANGED pending
    BY <1>5 DEF Fill
  <2> HIDE DEF c
  <2>3. toSender' \in Seq(ToSender) /\ lost' \in 0..MaxLost
    BY <1>3, <1>4, <2>1, <2>2, Sending
  <2>4. MailTypes' /\ CountTypes'
    BY <1>1, <1>2, <2>3 DEF SessionTypes, MailTypes, CountTypes
  <2>5. WorkTypes'
    BY <1>3, <2>1, <2>2 DEF WorkTypes
  <2>6. CASE EndCancelled
    <3>1. rpc' = "cancelled" /\ emitter' \in Emitters /\ drow' \in {drow, "cancelled"}
      BY <1>3, <2>6, EndedCancelled
    <3> QED BY <1>2, <2>2, <2>4, <2>5, <3>1, EndingKeeps DEF ReceiverDone
  <2>7. CASE pending' = [pending EXCEPT ![c] = 1] /\ UNCHANGED <<rpc, drow, emitter>>
    <3>1. Awaited \cup {c} \subseteq Awaited'
      BY <1>3, <2>1, <2>7 DEF Awaited
    <3>2. Planned \ marked' \subseteq toRequest' \cup Awaited' \cup {chunkIn'}
      BY <2>2, <3>1 DEF SessionInv, NoneForgotten
    <3>3. ShownTypes'
      BY <1>1, <2>2, <2>7 DEF SessionTypes, ShownTypes
    <3>4. chunkIn' = NoChunk /\ rpc' = "fill"
      BY <2>2, <2>7 DEF SessionInv, StoredIsPlanned
    <3> QED BY <1>2, <1>3, <2>2, <2>4, <2>5, <2>7, <3>2, <3>3, <3>4, GoingOnKeeps
  <2> QED BY <2>2, <2>6, <2>7
<1>6. CASE ReRequest
  <2>1. PICK c \in Awaited:
          /\ SentToSender([kind |-> "request", chunk |-> c]) \/ RefusedBySender
          /\ pending' = [pending EXCEPT ![c] = @ + 1]
    BY <1>6 DEF ReRequest
  <2>2. /\ rpc = "fill" /\ rpc' = "wait"
        /\ UNCHANGED <<drow, marked, parts, filed, toRequest, got, chunkIn, transferred,
                       emitter>>
    BY <1>6 DEF ReRequest
  <2>3. c \in Planned
    BY DEF Awaited
  <2>4. toSender' \in Seq(ToSender) /\ lost' \in 0..MaxLost
    BY <1>3, <1>4, <2>1, <2>3, Sending
  <2>5. MailTypes' /\ CountTypes'
    BY <1>1, <1>2, <2>4 DEF SessionTypes, MailTypes, CountTypes
  <2>6. WorkTypes' /\ ShownTypes'
    BY <1>1, <1>3, <2>1, <2>2, <2>3 DEF WorkTypes, ShownTypes, SessionTypes
  <2>7. Awaited \subseteq Awaited'
    BY <1>3, <2>1, <2>3 DEF Awaited
  <2>8. Planned \ marked' \subseteq toRequest' \cup Awaited' \cup {chunkIn'}
    BY <2>2, <2>7 DEF SessionInv, NoneForgotten
  <2>9. chunkIn' = NoChunk
    BY <2>2 DEF SessionInv, StoredIsPlanned
  <2> QED BY <1>2, <1>3, <2>2, <2>5, <2>6, <2>8, <2>9, GoingOnKeeps
<1>7. CASE AllArrived
  <2>1. /\ rpc = "fill" /\ rpc' = "verify" /\ toRequest = {} /\ Awaited = {}
        /\ SentToSender([kind |-> "cancel"]) \/ RefusedBySender
        /\ UNCHANGED <<drow, marked, parts, filed, toRequest, pending, got, chunkIn,
                       transferred, emitter>>
    BY <1>7 DEF AllArrived
  <2>2. toSender' \in Seq(ToSender) /\ lost' \in 0..MaxLost
    BY <1>3, <2>1, Sending, [kind |-> "cancel"] \in ToSender DEF ToSender
  <2>3. MailTypes' /\ CountTypes'
    BY <1>1, <1>2, <2>2 DEF SessionTypes, MailTypes, CountTypes
  <2>4. WorkTypes' /\ ShownTypes' /\ RowTypes'
    BY <1>1, <2>1 DEF WorkTypes, ShownTypes, RowTypes, ReceiverPlaces, SessionTypes
  <2>5. SessionTypeOK'
    BY <1>2, <2>3, <2>4, SessionTypesSplitPrimed DEF SessionTypes
  <2>6. marked = Planned
    BY <1>3, <2>1, PlanIsNatural DEF SessionInv, NoneForgotten, StoredIsPlanned
  <2>7. RowFollows' /\ NoneForgotten' /\ StoredIsPlanned' /\ FiledIsWhole'
    BY <2>1, <2>6 DEF SessionInv, RowFollows, NoneForgotten, StoredIsPlanned, FiledIsWhole
  <2> QED BY <2>5, <2>7 DEF SessionInv
<1> QED BY <1>5, <1>6, <1>7

\* What the receiver does with a chunk frame.
LEMMA ChunkKeeps ==
    ASSUME SessionInv, Unawaited \/ Damaged \/ StorePart
    PROVE  SessionInv'
<1> DEFINE f == Head(toReceiver)
<1>1. SessionTypes
  BY SessionTypesSplit DEF SessionInv
<1>2. /\ HashTypes' /\ rpc = "wait"
      /\ UNCHANGED <<spc, acked, bad, halts, sessions, marked, filed, toRequest, got,
                     transferred>>
  BY <1>1 DEF Unawaited, Damaged, StorePart, SessionTypes, HashTypes, senderVars
<1>3. /\ toSender \in Seq(ToSender) /\ toReceiver \in Seq(ToReceiver)
      /\ lost \in 0..MaxLost /\ drow \in RowStates /\ emitter \in Emitters
      /\ parts \subseteq Planned /\ marked \subseteq Planned
      /\ pending \in [Planned -> Nat] /\ toRequest \subseteq Planned
      /\ chunkIn = NoChunk /\ got \subseteq Planned /\ transferred \in Nat
  BY <1>1, <1>2 DEF SessionTypes, RowTypes, ShownTypes, MailTypes, CountTypes, WorkTypes,
     SessionInv, StoredIsPlanned
<1>4. f \in ToReceiver /\ f.kind = "chunk" /\ toReceiver' \in Seq(ToReceiver)
  BY <1>3, ReceiverTakes DEF Unawaited, Damaged, StorePart
<1>5. f.chunk \in Planned
  BY <1>4, ChunkFrame
<1>6. Planned \ marked \subseteq toRequest \cup Awaited
  BY <1>2, <1>3, PlanIsNatural DEF SessionInv, NoneForgotten
<1>7. \A k \in {"ack", "nak"}: [kind |-> k, chunk |-> f.chunk] \in ToSender
  BY <1>5 DEF ToSender
<1>8. [kind |-> "cancel"] \in ToSender
  BY DEF ToSender
<1> HIDE DEF f
<1>9. ASSUME EndFailed, WorkTypes', UNCHANGED parts,
             toSender' \in Seq(ToSender) /\ lost' \in 0..MaxLost
      PROVE  SessionInv'
  <2>1. rpc' = "failed" /\ emitter' \in Emitters /\ drow' \in {drow, "failed"}
    BY <1>3, <1>9, EndedFailed
  <2>2. MailTypes' /\ CountTypes'
    BY <1>1, <1>2, <1>4, <1>9 DEF SessionTypes, MailTypes, CountTypes
  <2> QED BY <1>2, <1>9, <2>1, <2>2, EndingKeeps DEF ReceiverDone
<1>10. CASE Unawaited
  <2>1. /\ UNCHANGED <<parts, pending, chunkIn>>
        /\ \/ /\ SentToSender([kind |-> "ack", chunk |-> f.chunk])
              /\ rpc' = "fill" /\ UNCHANGED <<drow, emitter>>
           \/ RefusedBySender /\ EndFailed
           \/ TellCancel /\ EndFailed
    BY <1>10 DEF Unawaited, f
  <2>2. toSender' \in Seq(ToSender) /\ lost' \in 0..MaxLost
    <3>1. CASE SentToSender([kind |-> "ack", chunk |-> f.chunk]) \/ RefusedBySender
      BY <1>3, <1>7, <3>1, Sending
    <3>2. CASE TellCancel
      BY <1>3, <1>8, <3>2, Sending DEF TellCancel
    <3> QED BY <2>1, <3>1, <3>2
  <2>3. WorkTypes'
    BY <1>1, <1>2, <2>1 DEF SessionTypes, WorkTypes
  <2>4. CASE rpc' = "fill" /\ UNCHANGED <<drow, emitter>>
    <3>1. MailTypes' /\ CountTypes' /\ ShownTypes'
      BY <1>1, <1>2, <1>4, <2>2, <2>4 DEF SessionTypes, MailTypes, CountTypes, ShownTypes
    <3>2. Awaited' = Awaited
      BY <2>1 DEF Awaited
    <3> QED BY <1>2, <1>3, <1>6, <2>1, <2>3, <2>4, <3>1, <3>2, GoingOnKeeps
  <2> QED BY <1>9, <2>1, <2>2, <2>3, <2>4
<1>11. CASE Damaged
  <2>1. /\ UNCHANGED <<parts, chunkIn>> /\ pending[f.chunk] > 0
        /\ \/ /\ SentToSender([kind |-> "nak", chunk |-> f.chunk])
              /\ pending' = [pending EXCEPT ![f.chunk] = @ + 1]
              /\ rpc' = "fill" /\ UNCHANGED <<drow, emitter>>
           \/ /\ RefusedBySender \/ TellCancel
              /\ pending' = [pending EXCEPT ![f.chunk] = 0]
              /\ EndFailed
    BY <1>11 DEF Damaged, f
  <2>2. toSender' \in Seq(ToSender) /\ lost' \in 0..MaxLost
    <3>1. CASE SentToSender([kind |-> "nak", chunk |-> f.chunk]) \/ RefusedBySender
      BY <1>3, <1>7, <3>1, Sending
    <3>2. CASE TellCancel
      BY <1>3, <1>8, <3>2, Sending DEF TellCancel
    <3> QED BY <2>1, <3>1, <3>2
  <2>3. WorkTypes'
    <3>1. pending[f.chunk] + 1 \in Nat
      BY <1>3, <1>5
    <3>2. pending' \in [Planned -> Nat]
      BY <1>3, <1>5, <2>1, <3>1
    <3> QED BY <1>2, <1>3, <2>1, <3>2 DEF WorkTypes
  <2>4. CASE /\ pending' = [pending EXCEPT ![f.chunk] = @ + 1]
             /\ rpc' = "fill" /\ UNCHANGED <<drow, emitter>>
    <3>1. MailTypes' /\ CountTypes' /\ ShownTypes'
      BY <1>1, <1>2, <1>4, <2>2, <2>4 DEF SessionTypes, MailTypes, CountTypes, ShownTypes
    <3>2. Awaited \subseteq Awaited'
      BY <1>3, <1>5, <2>4 DEF Awaited
    <3> QED BY <1>2, <1>3, <1>6, <2>1, <2>3, <2>4, <3>1, <3>2, GoingOnKeeps
  <2> QED BY <1>9, <2>1, <2>2, <2>3, <2>4
<1>12. CASE StorePart
  <2>1. /\ pending' = [pending EXCEPT ![f.chunk] = 0]
        /\ parts' = parts \cup {f.chunk} /\ chunkIn' = f.chunk /\ rpc' = "mark"
        /\ UNCHANGED <<toSender, lost, drow, emitter>>
    BY <1>12 DEF StorePart, f
  <2>2. WorkTypes' /\ MailTypes' /\ CountTypes' /\ ShownTypes'
    BY <1>1, <1>2, <1>3, <1>4, <1>5, <2>1
       DEF SessionTypes, WorkTypes, MailTypes, CountTypes, ShownTypes
  <2>3. Awaited \subseteq Awaited' \cup {f.chunk}
    BY <1>3, <1>5, <2>1 DEF Awaited
  <2> QED BY <1>2, <1>3, <1>5, <1>6, <2>1, <2>2, <2>3, GoingOnKeeps
<1> QED BY <1>10, <1>11, <1>12

\* The row of a stored chunk is marked.
LEMMA MarkingKeeps == ASSUME SessionInv, MarkVerified PROVE SessionInv'
<1>1. SessionTypes
  BY SessionTypesSplit DEF SessionInv
<1>2. /\ HashTypes' /\ rpc = "mark" /\ chunkIn' = NoChunk
      /\ marked' = marked \cup {chunkIn} /\ got' = got \cup {chunkIn}
      /\ UNCHANGED <<spc, acked, bad, halts, sessions, toReceiver, parts, filed,
                     toRequest, pending>>
  BY <1>1 DEF MarkVerified, SessionTypes, HashTypes, senderVars
<1>3. /\ toSender \in Seq(ToSender) /\ toReceiver \in Seq(ToReceiver)
      /\ lost \in 0..MaxLost /\ drow \in RowStates /\ emitter \in Emitters
      /\ parts \subseteq Planned /\ marked \subseteq Planned /\ filed \in BOOLEAN
      /\ pending \in [Planned -> Nat] /\ toRequest \subseteq Planned
      /\ chunkIn \in Planned /\ got \subseteq Planned /\ transferred \in Nat
  BY <1>1, <1>2 DEF SessionTypes, RowTypes, ShownTypes, MailTypes, CountTypes, WorkTypes,
     SessionInv, StoredIsPlanned
<1>4. [kind |-> "ack", chunk |-> chunkIn] \in ToSender
  BY <1>3 DEF ToSender
<1>5. toSender' \in Seq(ToSender) /\ lost' \in 0..MaxLost
  BY <1>3, <1>4, Sending DEF MarkVerified
<1>6. MailTypes' /\ CountTypes'
  BY <1>1, <1>2, <1>5 DEF SessionTypes, MailTypes, CountTypes
<1>7. WorkTypes'
  BY <1>2, <1>3 DEF WorkTypes
<1>8. CASE /\ transferred' = transferred + Length(Size, chunkIn)
           /\ emitter' \in RecordProgress(emitter, transferred')
           /\ rpc' = "fill" /\ UNCHANGED drow
  <2>1. transferred' \in Nat
    BY <1>3, <1>8, PlanIsNatural
  <2>2. ShownTypes'
    BY <1>3, <1>8, <2>1, ShownProgress DEF ShownTypes
  <2>3. Awaited' = Awaited /\ Planned \ marked \subseteq toRequest \cup Awaited \cup {chunkIn}
    BY <1>2 DEF Awaited, SessionInv, NoneForgotten
  <2> QED BY <1>2, <1>3, <1>6, <1>7, <1>8, <2>2, <2>3, GoingOnKeeps
<1>9. CASE EndFailed /\ UNCHANGED transferred
  <2>1. rpc' = "failed" /\ emitter' \in Emitters /\ drow' \in {drow, "failed"}
    BY <1>3, <1>9, EndedFailed
  <2>2. RowTypes' /\ ShownTypes'
    BY <1>2, <1>3, <1>9, <2>1
       DEF RowTypes, ShownTypes, RowStates, TerminalStates, ReceiverPlaces, ReceiverDone
  <2>3. SessionTypeOK'
    BY <1>2, <1>6, <1>7, <2>2, SessionTypesSplitPrimed DEF SessionTypes
  <2>4. RowFollows' /\ NoneForgotten' /\ StoredIsPlanned' /\ FiledIsWhole'
    BY <1>2, <1>3, <2>1
       DEF SessionInv, RowFollows, NoneForgotten, StoredIsPlanned, FiledIsWhole
  <2> QED BY <2>3, <2>4 DEF SessionInv
<1> QED BY <1>8, <1>9 DEF MarkVerified

\* The steps that end a session.
LEMMA StoppingKeeps ==
    ASSUME SessionInv,
           OtherFrame \/ PeerGone \/ ReceiverTimeout \/ CancelReceiver \/ CrashReceiver
    PROVE  SessionInv'
<1>1. SessionTypes
  BY SessionTypesSplit DEF SessionInv
<1>2. /\ HashTypes'
      /\ UNCHANGED <<spc, acked, lost, bad, sessions, toSender, marked, parts, filed,
                     toRequest, pending, got, chunkIn, transferred>>
  BY <1>1 DEF OtherFrame, PeerGone, ReceiverTimeout, CancelReceiver, CrashReceiver,
     SessionTypes, HashTypes, senderVars
<1>3. drow \in RowStates /\ emitter \in Emitters /\ toReceiver \in Seq(ToReceiver)
  BY <1>1 DEF SessionTypes, RowTypes, ShownTypes, MailTypes
<1>4. WorkTypes'
  BY <1>1, <1>2 DEF SessionTypes, WorkTypes
<1>5. toReceiver' \in Seq(ToReceiver)
  BY <1>3, ReceiverTakes DEF OtherFrame, PeerGone, ReceiverTimeout, CancelReceiver,
     CrashReceiver
<1>6. halts' \in 0..MaxHalts
  BY <1>1, Halting DEF OtherFrame, PeerGone, ReceiverTimeout, CancelReceiver, CrashReceiver,
     SessionTypes, CountTypes
<1>7. MailTypes' /\ CountTypes'
  BY <1>1, <1>2, <1>5, <1>6 DEF SessionTypes, MailTypes, CountTypes
<1>8. CASE EndCancelled
  <2>1. rpc' = "cancelled" /\ emitter' \in Emitters /\ drow' \in {drow, "cancelled"}
    BY <1>3, <1>8, EndedCancelled
  <2> QED BY <1>2, <1>4, <1>7, <2>1, EndingKeeps DEF ReceiverDone
<1>9. CASE /\ rpc' \in {"stopped", "error", "down"} /\ UNCHANGED drow
           /\ emitter' \in {emitter, RecordState(emitter, "cancelled")}
  <2>1. "cancelled" \in RowStates
    BY DEF RowStates, TerminalStates
  <2>2. emitter' \in Emitters
    BY <1>3, <1>9, <2>1, ShownState
  <2> QED BY <1>2, <1>4, <1>7, <1>9, <2>2, EndingKeeps DEF ReceiverDone
<1> QED
  BY <1>8, <1>9 DEF OtherFrame, PeerGone, ReceiverTimeout, CancelReceiver, CrashReceiver

\* From the last chunk to the library.
LEMMA AssemblingKeeps ==
    ASSUME SessionInv, Verify \/ FinalizeFile \/ Cleanup \/ Finish
    PROVE  SessionInv'
<1>1. SessionTypes
  BY SessionTypesSplit DEF SessionInv
<1>2. /\ HashTypes'
      /\ UNCHANGED <<spc, acked, lost, bad, halts, sessions, toSender, toReceiver, marked,
                     toRequest, pending, got, chunkIn, transferred>>
  BY <1>1 DEF Verify, FinalizeFile, Cleanup, Finish, SessionTypes, HashTypes, senderVars
<1>3. WorkTypes' /\ MailTypes' /\ CountTypes'
  BY <1>1, <1>2 DEF SessionTypes, WorkTypes, MailTypes, CountTypes
<1>4. /\ drow \in RowStates /\ emitter \in Emitters /\ transferred \in Nat
      /\ marked \subseteq Planned /\ parts \subseteq Planned /\ filed \in BOOLEAN
  BY <1>1 DEF SessionTypes, RowTypes, ShownTypes
<1>5. CASE EndFailed
  <2>1. rpc' = "failed" /\ emitter' \in Emitters /\ drow' \in {drow, "failed"}
    BY <1>4, <1>5, EndedFailed
  <2>2. UNCHANGED <<parts, filed>>
    BY <2>1 DEF Verify, FinalizeFile, Cleanup, Finish
  <2> QED BY <1>2, <1>3, <2>1, <2>2, EndingKeeps DEF ReceiverDone
<1>6. CASE ~EndFailed
  <2>1. \/ /\ rpc = "verify" /\ rpc' = "assemble" /\ drow' = "verifying"
           /\ emitter' = RecordState(emitter, "verifying") /\ UNCHANGED <<parts, filed>>
        \/ /\ rpc = "assemble" /\ rpc' = "cleanup" /\ filed' = TRUE
           /\ UNCHANGED <<drow, emitter, parts>>
        \/ /\ rpc = "cleanup" /\ rpc' = "finish" /\ parts' = {}
           /\ UNCHANGED <<drow, emitter, filed>>
        \/ /\ rpc = "finish" /\ rpc' = "complete" /\ drow' = "complete"
           /\ emitter' = RecordState(emitter, "complete") /\ UNCHANGED <<parts, filed>>
    BY <1>6 DEF SessionInv, RowFollows, Verify, FinalizeFile, Cleanup, Finish,
       Transitioned, MayTransition
  <2>2. {"verifying", "complete"} \subseteq RowStates
    BY DEF RowStates, TerminalStates
  <2>3. RowTypes'
    BY <1>2, <1>4, <2>1, <2>2 DEF RowTypes, ReceiverPlaces, ReceiverDone
  <2>4. ShownTypes'
    BY <1>2, <1>4, <2>1, <2>2, ShownState DEF ShownTypes
  <2>5. SessionTypeOK'
    BY <1>2, <1>3, <2>3, <2>4, SessionTypesSplitPrimed DEF SessionTypes
  <2>6. RowFollows' /\ NoneForgotten' /\ StoredIsPlanned' /\ FiledIsWhole'
    BY <1>2, <2>1 DEF SessionInv, RowFollows, NoneForgotten, StoredIsPlanned, FiledIsWhole
  <2> QED BY <2>5, <2>6 DEF SessionInv
<1> QED BY <1>5, <1>6

LEMMA SessionInvariant == SessionSpec => []SessionInv
<1>1. SessionInit => SessionInv
  <2> SUFFICES ASSUME SessionInit PROVE SessionInv
    OBVIOUS
  <2>1. HashTypes
    <3>1. <<>> \in Seq(Nat) /\ 0 \in Nat /\ FALSE \in BOOLEAN
      OBVIOUS
    <3> QED BY <3>1 DEF SessionInit, HashTypes
  <2>2. RowTypes
    BY DEF SessionInit, RowTypes, RowStates, ReceiverPlaces
  <2>3. MailTypes
    BY DEF SessionInit, MailTypes, SenderDone
  <2>4. WorkTypes /\ ShownTypes
    BY DEF SessionInit, WorkTypes, ShownTypes, NoneInFlight, FreshEmitter, Emitters
  <2>5. CountTypes
    BY SessionAssumption DEF SessionInit, CountTypes
  <2>6. RowFollows /\ NoneForgotten /\ StoredIsPlanned /\ FiledIsWhole
    BY DEF SessionInit, RowFollows, NoneForgotten, StoredIsPlanned, FiledIsWhole
  <2> QED BY <2>1, <2>2, <2>3, <2>4, <2>5, <2>6, SessionTypesSplit DEF SessionInv, SessionTypes
<1>2. SessionInv /\ [SessionNext]_sessionVars => SessionInv'
  <2> SUFFICES ASSUME SessionInv, [SessionNext]_sessionVars PROVE SessionInv'
    OBVIOUS
  <2>1. CASE UNCHANGED sessionVars
    <3>1. SessionTypes
      BY SessionTypesSplit DEF SessionInv
    <3>2. UNCHANGED receiverVars /\ HashTypes' /\ MailTypes' /\ CountTypes'
      BY <2>1, <3>1 DEF sessionVars, senderVars, SessionTypes, HashTypes, MailTypes, CountTypes
    <3> QED BY <3>2, ReceiverUntouched
  <2>2. CASE SessionNext
    BY <2>2, HashKeeps, SenderKeeps, OpeningKeeps, AskingKeeps, ChunkKeeps, MarkingKeeps,
       StoppingKeeps, AssemblingKeeps DEF SessionNext, ReceiverStep
  <2> QED BY <2>1, <2>2
<1> QED BY <1>1, <1>2, PTL DEF SessionSpec

\* What the session keeps between steps is of its types: frames on the way,
\* the chunks at work, the progress shown to the page, however often it is run.
THEOREM SessionTypeCorrect == SessionSpec => []SessionTypeOK
BY SessionInvariant, PTL DEF SessionInv

-----------------------------------------------------------------------------
(* Session implements FileFetch.                                              *)

\* The mapping, as an operator of the row, the library and the marked chunks.
StatusOf(said, inLibrary) ==
    IF said = "complete" THEN "complete"
    ELSE IF inLibrary THEN "published"
    ELSE IF said \in {"failed", "cancelled"} THEN "aborted"
    ELSE "active"
HeldOf(said, inLibrary, rows) ==
    IF said \in {"failed", "cancelled"} /\ ~inLibrary THEN {} ELSE rows

LEMMA FetchStep ==
    ASSUME SessionInv, SessionInv', [SessionNext]_sessionVars
    PROVE  [Single!Next]_(Single!vars)
<1> DEFINE st == StatusOf(drow, filed)
           st1 == StatusOf(drow', filed')
           hd == HeldOf(drow, filed, marked)
           hd1 == HeldOf(drow', filed', marked')
<1>0. SessionTypes /\ drow \in RowStates /\ emitter \in Emitters /\ filed \in BOOLEAN
  BY SessionTypesSplit DEF SessionInv, SessionTypes, RowTypes, ShownTypes
<1>1. [Single!Next]_(Single!vars) <=>
        \/ \E c \in Planned: st = "active" /\ hd1 = hd \cup {c} /\ st1 = st
        \/ st = "active" /\ hd = Planned /\ st1 = "published" /\ hd1 = hd
        \/ st = "published" /\ st1 = "complete" /\ hd1 = hd
        \/ st = "active" /\ st1 = "aborted" /\ hd1 = {}
        \/ hd1 = hd /\ st1 = st
  BY DEF Single!Next, Single!Fetch, Single!Publish, Single!Complete, Single!Abort,
     Single!vars, StatusOf, HeldOf
\* A row that a step leaves live or turns into failed or cancelled.
<1>2. ASSUME UNCHANGED <<marked, filed>>,
             drow' \in {drow} \cup (IF drow \in TerminalStates THEN {}
                                 ELSE {"connecting", "transferring", "verifying",
                                       "failed", "cancelled"})
      PROVE  [Single!Next]_(Single!vars)
  BY <1>1, <1>2, <1>0 DEF StatusOf, HeldOf, TerminalStates
<1>3. CASE UNCHANGED receiverVars
  BY <1>2, <1>3 DEF receiverVars
<1>4. CASE RunReceiver \/ StartTransfer \/ TakeOffer \/ ReRequest \/ AllArrived \/ StorePart
        \/ OtherFrame \/ ReceiverTimeout \/ Verify \/ Cleanup \/ CrashReceiver
  <2>1. UNCHANGED <<marked, filed>>
    BY <1>4 DEF RunReceiver, StartTransfer, TakeOffer, ReRequest, AllArrived, StorePart,
       OtherFrame, ReceiverTimeout, Verify, Cleanup, CrashReceiver
  <2>2. drow' \in {drow} \cup (IF drow \in TerminalStates THEN {}
                            ELSE {"connecting", "transferring", "verifying",
                                  "failed", "cancelled"})
    BY <1>4, <1>0 DEF RunReceiver, StartTransfer, TakeOffer, ReRequest, AllArrived, StorePart,
       OtherFrame, ReceiverTimeout, Verify, Cleanup, CrashReceiver, MayTransition,
       Transitioned, TerminalStates
  <2> QED BY <1>2, <2>1, <2>2
<1>5. CASE Hello \/ Fill \/ Unawaited \/ Damaged \/ PeerGone \/ CancelReceiver
  <2>1. UNCHANGED <<marked, filed>> /\ (UNCHANGED drow \/ EndFailed \/ EndCancelled)
    BY <1>5 DEF Hello, Fill, Unawaited, Damaged, PeerGone, CancelReceiver
  <2> QED BY <1>0, <1>2, <2>1, EndedFailed, EndedCancelled
<1>6. CASE MarkVerified
  <2>1. /\ chunkIn \in Planned /\ drow \in {"transferring", "verifying"}
        /\ marked' = marked \cup {chunkIn} /\ UNCHANGED filed
        /\ UNCHANGED drow \/ EndFailed
    BY <1>6 DEF MarkVerified, SessionInv, StoredIsPlanned, RowFollows
  <2>2. filed => marked = Planned
    BY DEF SessionInv, FiledIsWhole
  <2>3. drow' = drow \/ drow' = "failed"
    BY <1>0, <2>1, EndedFailed DEF TerminalStates
  <2> QED BY <1>1, <2>1, <2>2, <2>3 DEF StatusOf, HeldOf
<1>7. CASE FinalizeFile
  <2>1. /\ rpc = "assemble" /\ UNCHANGED marked
        /\ (filed' = TRUE /\ UNCHANGED drow) \/ (UNCHANGED filed /\ EndFailed)
    BY <1>7 DEF FinalizeFile
  <2>2. drow = "verifying" /\ marked = Planned
    BY <2>1 DEF SessionInv, RowFollows, FiledIsWhole
  <2>3. CASE filed' = TRUE /\ UNCHANGED drow
    BY <1>0, <1>1, <2>1, <2>2, <2>3 DEF StatusOf, HeldOf
  <2>4. CASE UNCHANGED filed /\ EndFailed
    BY <1>0, <1>2, <2>1, <2>4, EndedFailed
  <2> QED BY <2>1, <2>3, <2>4
<1>8. CASE Finish
  <2>1. filed /\ drow = "verifying" /\ drow' = "complete" /\ UNCHANGED <<marked, filed>>
    BY <1>8 DEF Finish, SessionInv, RowFollows, FiledIsWhole, Transitioned, MayTransition
  <2> QED BY <1>1, <2>1 DEF StatusOf, HeldOf
<1>9. HashStep \/ SenderStep \/ SenderReadFails \/ CancelSession => UNCHANGED receiverVars
  BY DEF HashStep, HashRead, HashEnd, SenderStep, SenderGetsHello, SenderServe, SenderAcked,
     SenderStops, SenderReadFails, CancelSession
<1>10. UNCHANGED sessionVars => UNCHANGED receiverVars
  BY DEF sessionVars
<1> QED
  BY <1>3, <1>4, <1>5, <1>6, <1>7, <1>8, <1>9, <1>10 DEF SessionNext, ReceiverStep

\* A session with one peer, run again as often as it likes over a transport
\* that loses and damages frames, is the atomic fetch: a chunk once marked is
\* not lost while the download lives, the file is put in the library only when
\* every chunk is held at once, the row says complete only after that, and one
\* that failed or was cancelled publishes nothing.
THEOREM SessionImplementsFetch == SessionSpec => SessionFetches
<1>1. SessionInit => Single!Init
  BY DEF SessionInit, Single!Init
<1>2. SessionInv /\ SessionInv' /\ [SessionNext]_sessionVars => [Single!Next]_(Single!vars)
  BY FetchStep
<1> QED BY <1>1, <1>2, SessionInvariant, PTL DEF SessionSpec, SessionFetches, Single!Spec

-----------------------------------------------------------------------------
(* FilesChannel: the inductive invariant.                                     *)
StreamTypes ==
    /\ segments \in [Ends -> Seq(Segments)] /\ assembly \in [Ends -> Assemblies]
    /\ \A p \in Ends: \A i \in 1..Len(segments[p]):
         segments[p][i].index < Count(segments[p][i].frame)
    /\ \A p \in Ends: assembly[p] # NoFrame =>
         /\ 0 < assembly[p].received
         /\ assembly[p].received < Count(assembly[p].frame)
WritingTypes ==
    /\ writing \in [Ends -> [Roles -> Writings]]
    /\ \A p \in Ends, r \in Roles: writing[p][r] # NoFrame =>
         writing[p][r].next < Count(writing[p][r].frame)
PumpTypes ==
    /\ pump \in [Ends -> {"off", "running", "ended"}]
    /\ holding \in [Ends -> ChannelFrames \cup {NoFrame}]
    /\ reader \in [Ends -> [Roles -> BOOLEAN]]
    /\ queue \in [Ends -> [Roles -> Seq(ChannelFrames)]]
    /\ \A p \in Ends, r \in Roles: Len(queue[p][r]) <= QUEUE_FRAMES
TaskTypes ==
    /\ server \in [Ends -> {"waiting", "hello", "serve", "gone"}]
    /\ client \in [Ends -> {"idle", "run", "done", "failed", "cancelled"}]
    /\ serverHas \in [Ends -> SUBSET FileChunks] /\ held \in [Ends -> SUBSET FileChunks]
    /\ asked \in [Ends -> SUBSET FileChunks] /\ tokens \in [Ends -> 0..BUCKET]
SceneTypes ==
    /\ wanted \in Scenarios /\ channel \in {"open", "closed", "violated"}
    /\ giveUps \in 0..MaxGiveUps /\ mishaps \subseteq {"mixed", "unheard"}
ChannelTypes == StreamTypes /\ WritingTypes /\ PumpTypes /\ TaskTypes /\ SceneTypes

\* On its way to an end, a segment that continues a frame comes right after the
\* segment before it of that frame.
Ordered(a, s) ==
    \A i \in 1..Len(s):
      s[i].index # 0 =>
        IF i = 1 THEN a = [frame |-> s[1].frame, received |-> s[1].index]
                 ELSE s[i - 1] = [frame |-> s[i].frame, index |-> s[i].index - 1]
InOrder(p) == Ordered(assembly[p], segments[p])

\* A frame that is half sent over an open channel was the last to send
\* anything, and no two frames of an end are.
EndsWith(a, s, w) ==
    IF s = <<>> THEN a = [frame |-> w.frame, received |-> w.next]
                ELSE s[Len(s)] = [frame |-> w.frame, index |-> w.next - 1]
LastSent(p, w) == EndsWith(assembly[p], segments[p], w)
HalfIsLast(p) ==
    \A r \in Roles:
      HalfSent(p, r) /\ channel = "open" => LastSent(Peer(p), writing[p][r])
OneHalf(p) == \A r, o \in Roles: HalfSent(p, r) /\ HalfSent(p, o) => r = o

StreamInv ==
    "mixed" \notin mishaps =>
      /\ channel # "violated"
      /\ \A p \in Ends: InOrder(p) /\ HalfIsLast(p) /\ OneHalf(p)
ChannelInv == ChannelTypes /\ StreamInv

-----------------------------------------------------------------------------
(* FilesChannel: lemmas about its operators.                                  *)
LEMMA TwoEnds ==
    \A p \in Ends: Peer(p) \in Ends /\ Peer(p) # p /\ Peer(Peer(p)) = p
<1>1. PICK a, b \in Ends: a # b /\ Ends = {a, b}
  BY ChannelAssumption
<1>2. \A p \in Ends: Peer(p) \in Ends /\ Peer(p) # p
  BY <1>1 DEF Peer
<1> QED BY <1>1, <1>2

LEMMA Bounds ==
    /\ SEGMENTS \in Nat \ {0} /\ QUEUE_FRAMES \in Nat \ {0} /\ SLOTS \in Nat \ {0}
    /\ BUCKET \in Nat \ {0} /\ MaxGiveUps \in Nat
    /\ \A f: Count(f) \in Nat \ {0}
BY ChannelAssumption DEF Count

LEMMA Frames ==
    /\ NoFrame \notin ChannelFrames
    /\ \A f \in ChannelFrames: RoleOf(f) \in Roles
    /\ [kind |-> "hello"] \in ChannelFrames /\ [kind |-> "offer"] \in ChannelFrames
    /\ \A c \in FileChunks, k \in {"request", "ack", "chunk"}:
         [kind |-> k, chunk |-> c] \in ChannelFrames
    /\ \A f \in ChannelFrames: f.kind \in {"request", "ack", "chunk"} => f.chunk \in FileChunks
BY DEF NoFrame, ChannelFrames, RoleOf, Roles

LEMMA NotNoFrame ==
    /\ \A f, n: [frame |-> f, next |-> n] # NoFrame
    /\ \A f, n: [frame |-> f, received |-> n] # NoFrame
    /\ NoFrame \notin [frame: ChannelFrames, next: Nat]
    /\ NoFrame \notin [frame: ChannelFrames, received: Nat]
BY DEF NoFrame

LEMMA WantedChunks ==
    ASSUME ChannelTypes, NEW p \in Ends
    PROVE  wanted[p] \subseteq FileChunks
BY DEF ChannelTypes, SceneTypes, FileChunks

LEMMA Appending ==
    ASSUME NEW S, NEW s \in Seq(S), NEW e \in S
    PROVE  /\ Append(s, e) \in Seq(S) /\ Append(s, e) # <<>>
           /\ Len(Append(s, e)) = Len(s) + 1 /\ Append(s, e)[Len(s) + 1] = e
           /\ \A i \in 1..Len(s): Append(s, e)[i] = s[i]
OBVIOUS

LEMMA Advancing ==
    ASSUME NEW S, NEW s \in Seq(S), s # <<>>
    PROVE  /\ Tail(s) \in Seq(S) /\ Len(Tail(s)) = Len(s) - 1 /\ Len(s) \in Nat \ {0}
           /\ Tail(s) = <<>> <=> Len(s) = 1
           /\ \A i \in 1..Len(Tail(s)): i + 1 \in 2..Len(s) /\ Tail(s)[i] = s[i + 1]
<1>1. Tail(s) \in Seq(S) /\ Len(Tail(s)) = Len(s) - 1 /\ Len(s) \in Nat \ {0}
  OBVIOUS
<1>2. \A i \in 1..Len(Tail(s)): i + 1 \in 2..Len(s) /\ Tail(s)[i] = s[i + 1]
  OBVIOUS
<1>3. Tail(s) = <<>> <=> Len(Tail(s)) = 0
  <2>1. ASSUME NEW t \in Seq(S) PROVE t = <<>> <=> Len(t) = 0
    OBVIOUS
  <2> QED BY <1>1, <2>1
<1>4. Len(Tail(s)) = 0 <=> Len(s) = 1
  BY <1>1
<1> QED BY <1>1, <1>2, <1>3, <1>4

\* What the four operators the tasks are built from do to the types.
LEMMA WriteTyped ==
    ASSUME WritingTypes, NEW p \in Ends, NEW r \in Roles, NEW f \in ChannelFrames,
           Write(p, r, f)
    PROVE  WritingTypes'
<1>1. [frame |-> f, next |-> 0] \in Writings /\ 0 < Count(f)
  BY Bounds DEF Writings
<1>2. writing' \in [Ends -> [Roles -> Writings]]
  BY <1>1 DEF Write, WritingTypes
<1>3. ASSUME NEW q \in Ends, NEW o \in Roles, writing'[q][o] # NoFrame
      PROVE  writing'[q][o].next < Count(writing'[q][o].frame)
  <2>1. CASE q = p /\ o = r
    BY <1>1, <2>1 DEF Write, WritingTypes
  <2>2. CASE ~(q = p /\ o = r)
    <3>1. writing'[q][o] = writing[q][o]
      BY <2>2 DEF Write, WritingTypes
    <3> QED BY <1>3, <3>1 DEF WritingTypes
  <2> QED BY <2>1, <2>2
<1> QED BY <1>2, <1>3 DEF WritingTypes

LEMMA DropTyped ==
    ASSUME WritingTypes, NEW p \in Ends, NEW r \in Roles,
           writing' = [writing EXCEPT ![p][r] = NoFrame]
    PROVE  WritingTypes'
<1>1. writing' \in [Ends -> [Roles -> Writings]]
  BY DEF WritingTypes, Writings
<1>2. \A q \in Ends, o \in Roles: writing'[q][o] \in {writing[q][o], NoFrame}
  BY DEF WritingTypes
<1> QED BY <1>1, <1>2 DEF WritingTypes

LEMMA AttachTyped ==
    ASSUME PumpTypes, NEW p \in Ends, NEW r \in Roles, Attach(p, r), UNCHANGED holding
    PROVE  PumpTypes'
<1>1. queue' \in [Ends -> [Roles -> Seq(ChannelFrames)]] /\ reader' \in [Ends -> [Roles -> BOOLEAN]]
  BY <<>> \in Seq(ChannelFrames) DEF Attach, PumpTypes
<1>2. pump' \in [Ends -> {"off", "running", "ended"}]
  BY DEF Attach, PumpTypes
<1>3. \A q \in Ends, o \in Roles: queue'[q][o] = queue[q][o] \/ queue'[q][o] = <<>>
  BY DEF Attach, PumpTypes
<1>4. Len(<<>>) <= QUEUE_FRAMES
  BY Bounds
<1> QED BY <1>1, <1>2, <1>3, <1>4 DEF PumpTypes

LEMMA TakeTyped ==
    ASSUME PumpTypes, NEW p \in Ends, NEW r \in Roles, Readable(p, r), Take(p, r)
    PROVE  /\ queue' \in [Ends -> [Roles -> Seq(ChannelFrames)]]
           /\ \A q \in Ends, o \in Roles: Len(queue'[q][o]) <= QUEUE_FRAMES
           /\ Head(queue[p][r]) \in ChannelFrames
<1>1. queue[p][r] \in Seq(ChannelFrames) /\ queue[p][r] # <<>>
  BY DEF PumpTypes, Readable
<1>2. /\ Tail(queue[p][r]) \in Seq(ChannelFrames) /\ Head(queue[p][r]) \in ChannelFrames
      /\ Len(Tail(queue[p][r])) <= Len(queue[p][r])
  BY <1>1
<1>3. queue' \in [Ends -> [Roles -> Seq(ChannelFrames)]]
  BY <1>2 DEF Take, PumpTypes
<1>4. ASSUME NEW q \in Ends, NEW o \in Roles PROVE Len(queue'[q][o]) <= QUEUE_FRAMES
  <2>1. CASE q = p /\ o = r
    <3>1. queue'[q][o] = Tail(queue[p][r])
      BY <2>1 DEF Take, PumpTypes
    <3>2. Len(queue[p][r]) <= QUEUE_FRAMES
      BY DEF PumpTypes
    <3> QED BY <1>1, <1>2, <3>1, <3>2, Bounds
  <2>2. CASE ~(q = p /\ o = r)
    <3>1. queue'[q][o] = queue[q][o]
      BY <2>2 DEF Take, PumpTypes
    <3> QED BY <3>1 DEF PumpTypes
  <2> QED BY <2>1, <2>2
<1> QED BY <1>2, <1>3, <1>4

LEMMA DetachTyped ==
    ASSUME PumpTypes, NEW p \in Ends, NEW r \in Roles, Detach(p, r)
    PROVE  reader' \in [Ends -> [Roles -> BOOLEAN]]
BY DEF PumpTypes, Detach

\* The groups a step leaves alone.
LEMMA ChannelUntouched ==
    /\ StreamTypes /\ UNCHANGED <<segments, assembly>> => StreamTypes'
    /\ WritingTypes /\ UNCHANGED writing => WritingTypes'
    /\ PumpTypes /\ UNCHANGED <<pump, holding, reader, queue>> => PumpTypes'
    /\ TaskTypes /\ UNCHANGED tasks => TaskTypes'
    /\ SceneTypes /\ UNCHANGED <<scene, giveUps, mishaps>> => SceneTypes'
BY DEF StreamTypes, WritingTypes, PumpTypes, TaskTypes, SceneTypes, tasks, scene

\* A step that sends nothing, takes no segment and refuses none: what was in
\* order stays so.
LEMMA StreamQuiet ==
    ASSUME StreamInv, UNCHANGED <<segments, assembly, mishaps>>,
           channel' = channel \/ channel' = "closed",
           \A p \in Ends, r \in Roles:
             HalfSent(p, r)' => HalfSent(p, r) /\ writing'[p][r] = writing[p][r]
    PROVE  StreamInv'
<1> SUFFICES ASSUME "mixed" \notin mishaps
             PROVE  /\ channel' # "violated"
                    /\ \A p \in Ends: InOrder(p)' /\ HalfIsLast(p)' /\ OneHalf(p)'
  BY DEF StreamInv
<1>1. channel # "violated" /\ \A p \in Ends: InOrder(p) /\ HalfIsLast(p) /\ OneHalf(p)
  BY DEF StreamInv
<1>2. ASSUME NEW p \in Ends PROVE InOrder(p)' /\ HalfIsLast(p)' /\ OneHalf(p)'
  <2>1. InOrder(p)'
    BY <1>1 DEF InOrder
  <2>2. HalfIsLast(p)'
    <3> SUFFICES ASSUME NEW r \in Roles, HalfSent(p, r)', channel' = "open"
                 PROVE  LastSent(Peer(p), writing[p][r])'
      BY DEF HalfIsLast
    <3>1. HalfSent(p, r) /\ writing'[p][r] = writing[p][r] /\ channel = "open"
      OBVIOUS
    <3>2. LastSent(Peer(p), writing[p][r])
      BY <1>1, <3>1 DEF HalfIsLast
    <3> QED BY <3>1, <3>2 DEF LastSent
  <2>3. OneHalf(p)'
    BY <1>1 DEF OneHalf
  <2> QED BY <2>1, <2>2, <2>3
<1> QED BY <1>1, <1>2

\* A frame that starts is not half sent yet, and one that is dropped no more.
LEMMA WriteQuiet ==
    ASSUME WritingTypes, NEW p \in Ends, NEW r \in Roles, NEW f, Write(p, r, f)
    PROVE  \A q \in Ends, o \in Roles:
             HalfSent(q, o)' => HalfSent(q, o) /\ writing'[q][o] = writing[q][o]
<1> TAKE q \in Ends, o \in Roles
<1>1. CASE q = p /\ o = r
  <2>1. writing'[q][o] = [frame |-> f, next |-> 0]
    BY <1>1 DEF Write, WritingTypes
  <2> QED BY <2>1 DEF HalfSent, Free
<1>2. CASE ~(q = p /\ o = r)
  <2>1. writing'[q][o] = writing[q][o]
    BY <1>2 DEF Write, WritingTypes
  <2> QED BY <2>1 DEF HalfSent, Free
<1> QED BY <1>1, <1>2

LEMMA DropQuiet ==
    ASSUME WritingTypes, NEW p \in Ends, NEW r \in Roles,
           writing' = [writing EXCEPT ![p][r] = NoFrame]
    PROVE  \A q \in Ends, o \in Roles:
             HalfSent(q, o)' => HalfSent(q, o) /\ writing'[q][o] = writing[q][o]
<1> TAKE q \in Ends, o \in Roles
<1>1. writing'[q][o] = NoFrame \/ writing'[q][o] = writing[q][o]
  BY DEF WritingTypes
<1> QED BY <1>1 DEF HalfSent, Free

LEMMA KeptQuiet ==
    ASSUME UNCHANGED writing
    PROVE  \A q \in Ends, o \in Roles:
             HalfSent(q, o)' => HalfSent(q, o) /\ writing'[q][o] = writing[q][o]
BY DEF HalfSent, Free

-----------------------------------------------------------------------------
(* FilesChannel: every step keeps the invariant.                              *)
LEMMA SendKeeps ==
    ASSUME ChannelInv, NEW p \in Ends, NEW r \in Roles, SendSegment(p, r)
    PROVE  ChannelInv'
<1> DEFINE w == writing[p][r]
           t == Peer(p)
           seg == [frame |-> w.frame, index |-> w.next]
           last == w.next + 1 = Count(w.frame)
<1>1. ChannelTypes /\ t \in Ends /\ t # p
  BY TwoEnds DEF ChannelInv
<1>2. /\ channel = "open" /\ w \in [frame: ChannelFrames, next: Nat] /\ w # NoFrame
      /\ w.next < Count(w.frame) /\ seg \in Segments
  BY <1>1 DEF SendSegment, Free, ChannelTypes, WritingTypes, Writings, Segments
<1>3. /\ segments \in [Ends -> Seq(Segments)] /\ writing \in [Ends -> [Roles -> Writings]]
      /\ segments' = [segments EXCEPT ![t] = Append(@, seg)]
      /\ writing' = [writing EXCEPT ![p][r] = IF last THEN NoFrame
                                              ELSE [w EXCEPT !.next = @ + 1]]
      /\ mishaps' = IF \E o \in Roles \ {r}: HalfSent(p, o)
                    THEN mishaps \cup {"mixed"} ELSE mishaps
      /\ UNCHANGED <<scene, ends, tasks, giveUps>>
  BY <1>1 DEF SendSegment, ChannelTypes, StreamTypes, WritingTypes
<1>4. /\ segments' \in [Ends -> Seq(Segments)]
      /\ segments'[t] = Append(segments[t], seg)
      /\ \A q \in Ends: q # t => segments'[q] = segments[q]
  BY <1>1, <1>2, <1>3
<1>5. /\ writing' \in [Ends -> [Roles -> Writings]]
      /\ writing'[p][r] = IF last THEN NoFrame ELSE [w EXCEPT !.next = @ + 1]
      /\ \A q \in Ends, o \in Roles: ~(q = p /\ o = r) => writing'[q][o] = writing[q][o]
  <2>1. [w EXCEPT !.next = @ + 1] \in Writings /\ NoFrame \in Writings
    BY <1>2 DEF Writings
  <2> QED BY <1>3, <2>1
<1>6. Count(w.frame) \in Nat \ {0}
  BY Bounds
<1> HIDE DEF last, seg, t
<1>7. StreamTypes'
  <2>1. ASSUME NEW q \in Ends, NEW i \in 1..Len(segments'[q])
        PROVE  segments'[q][i].index < Count(segments'[q][i].frame)
    <3>1. CASE q # t
      BY <1>1, <1>4, <3>1 DEF ChannelTypes, StreamTypes
    <3>2. CASE q = t /\ i <= Len(segments[t])
      BY <1>1, <1>3, <1>4, <3>2 DEF ChannelTypes, StreamTypes
    <3>3. CASE q = t /\ i = Len(segments[t]) + 1
      BY <1>1, <1>2, <1>3, <1>4, <3>3 DEF seg
    <3> QED BY <1>1, <1>2, <1>3, <1>4, <3>1, <3>2, <3>3
  <2> QED BY <1>1, <1>3, <1>4, <2>1 DEF ChannelTypes, StreamTypes, ends
<1>8. WritingTypes'
  <2>1. ASSUME NEW q \in Ends, NEW o \in Roles, writing'[q][o] # NoFrame
        PROVE  writing'[q][o].next < Count(writing'[q][o].frame)
    <3>1. CASE q = p /\ o = r
      <4>1. ~last /\ writing'[q][o] = [w EXCEPT !.next = @ + 1]
        BY <1>5, <2>1, <3>1
      <4>2. writing'[q][o].next = w.next + 1 /\ writing'[q][o].frame = w.frame
        BY <1>2, <4>1
      <4> QED BY <1>2, <1>6, <4>1, <4>2 DEF last
    <3>2. CASE ~(q = p /\ o = r)
      BY <1>1, <1>5, <2>1, <3>2 DEF ChannelTypes, WritingTypes
    <3> QED BY <3>1, <3>2
  <2> QED BY <1>5, <2>1 DEF WritingTypes
<1>9. PumpTypes' /\ TaskTypes' /\ SceneTypes'
  BY <1>1, <1>3 DEF ChannelTypes, PumpTypes, TaskTypes, SceneTypes, scene, ends, tasks
<1>10. StreamInv'
  <2> SUFFICES ASSUME "mixed" \notin mishaps'
               PROVE  /\ channel' # "violated"
                      /\ \A q \in Ends: InOrder(q)' /\ HalfIsLast(q)' /\ OneHalf(q)'
    BY DEF StreamInv
  <2>1. "mixed" \notin mishaps /\ \A o \in Roles: HalfSent(p, o) => o = r
    BY <1>3
  <2>2. \A q \in Ends: InOrder(q) /\ HalfIsLast(q) /\ OneHalf(q)
    BY <2>1 DEF ChannelInv, StreamInv
  <2>3. channel' = "open" /\ UNCHANGED assembly
    BY <1>2, <1>3 DEF scene, ends
  <2>4. ASSUME NEW q \in Ends, q # t PROVE InOrder(q)'
    BY <1>4, <2>2, <2>3, <2>4 DEF InOrder
  <2>5. InOrder(t)'
    <3> SUFFICES ASSUME NEW i \in 1..Len(segments'[t]), segments'[t][i].index # 0
                 PROVE  IF i = 1 THEN assembly[t] = [frame |-> segments'[t][1].frame,
                                                     received |-> segments'[t][1].index]
                      ELSE segments'[t][i - 1] = [frame |-> segments'[t][i].frame,
                                                  index |-> segments'[t][i].index - 1]
      BY <2>3 DEF InOrder, Ordered
    <3>0. segments[t] \in Seq(Segments)
      BY <1>1, <1>3
    <3>1. CASE i <= Len(segments[t])
      <4>1. segments'[t][i] = segments[t][i] /\ segments'[t][1] = segments[t][1]
            /\ (i # 1 => segments'[t][i - 1] = segments[t][i - 1])
        BY <1>2, <1>4, <3>0, <3>1
      <4>2. i \in 1..Len(segments[t])
        BY <3>0, <3>1
      <4>3. InOrder(t)
        BY <1>1, <2>2
      <4> QED BY <4>1, <4>2, <4>3 DEF InOrder, Ordered
    <3>2. CASE i = Len(segments[t]) + 1
      <4>1. segments'[t][i] = seg
        BY <1>2, <1>4, <3>0, <3>2
      <4>2. HalfSent(p, r)
        BY <1>2, <4>1 DEF HalfSent, Free, seg
      <4>3. LastSent(t, w)
        BY <1>2, <2>2, <4>2 DEF HalfIsLast, t
      <4>4. CASE segments[t] = <<>>
        <5>1. i = 1
          BY <3>2, <4>4
        <5> QED BY <4>1, <4>3, <4>4, <5>1 DEF LastSent, EndsWith, seg
      <4>5. CASE segments[t] # <<>>
        <5>1. i # 1 /\ segments'[t][i - 1] = segments[t][Len(segments[t])]
          BY <1>2, <1>4, <3>0, <3>2, <4>5
        <5> QED BY <4>1, <4>3, <4>5, <5>1 DEF LastSent, EndsWith, seg
      <4> QED BY <4>4, <4>5
    <3>3. i <= Len(segments[t]) \/ i = Len(segments[t]) + 1
      <4>1. segments'[t] = Append(segments[t], seg)
        BY <1>2, <1>4
      <4>2. Len(segments'[t]) = Len(segments[t]) + 1
        BY <3>0, <4>1
      <4>3. Len(segments[t]) \in Nat
        BY <3>0
      <4> QED BY <4>2, <4>3
    <3> QED BY <3>1, <3>2, <3>3
  <2>6. HalfIsLast(p)' /\ OneHalf(p)'
    <3>1. \A o \in Roles: o # r => ~HalfSent(p, o)'
      BY <1>5, <2>1 DEF HalfSent, Free
    <3>2. ASSUME HalfSent(p, r)' PROVE LastSent(Peer(p), writing[p][r])'
      <4>1. ~last /\ writing'[p][r] = [w EXCEPT !.next = @ + 1]
        BY <1>5, <3>2 DEF HalfSent, Free
      <4>2. writing'[p][r].next - 1 = w.next /\ writing'[p][r].frame = w.frame
        BY <1>2, <4>1
      <4>3. segments'[t] # <<>> /\ segments'[t][Len(segments'[t])] = seg
        <5>1. segments[t] \in Seq(Segments)
          BY <1>1, <1>3
        <5> QED BY <1>2, <1>4, <5>1, Appending
      <4> QED BY <4>2, <4>3 DEF LastSent, EndsWith, t, seg
    <3> QED BY <3>1, <3>2 DEF HalfIsLast, OneHalf
  <2>7. ASSUME NEW q \in Ends, q # p PROVE HalfIsLast(q)' /\ OneHalf(q)'
    <3>1. Peer(q) # t /\ Peer(q) \in Ends
      BY TwoEnds, <2>7 DEF t
    <3>2. \A o \in Roles: writing'[q][o] = writing[q][o]
      BY <1>5, <2>7
    <3>3. \A o \in Roles: HalfSent(q, o)' <=> HalfSent(q, o)
      BY <3>2 DEF HalfSent, Free
    <3>4. segments'[Peer(q)] = segments[Peer(q)]
      BY <1>4, <3>1
    <3> QED BY <1>2, <2>2, <2>3, <3>2, <3>3, <3>4 DEF HalfIsLast, OneHalf, LastSent
  <2> QED BY <2>3, <2>4, <2>5, <2>6, <2>7
<1> QED BY <1>7, <1>8, <1>9, <1>10 DEF ChannelInv, ChannelTypes

\* What the pump does with a segment it accepts.
LEMMA PumpTakeKeeps ==
    ASSUME ChannelInv, NEW p \in Ends, PumpTake(p)
    PROVE  ChannelInv'
<1> DEFINE s == Head(segments[p])
           o == Opened(p, s)
           more == o.received + 1 < Count(s.frame)
<1>1. ChannelTypes
  BY DEF ChannelInv
<1>2. /\ segments[p] \in Seq(Segments) /\ segments[p] # <<>> /\ s = segments[p][1]
      /\ s \in Segments /\ s.index \in Nat /\ s.index < Count(s.frame)
      /\ s.frame \in ChannelFrames
  <2>1. segments[p] \in Seq(Segments) /\ segments[p] # <<>>
    BY <1>1 DEF PumpTake, ChannelTypes, StreamTypes
  <2>2. s = segments[p][1] /\ s \in Segments /\ 1 \in 1..Len(segments[p])
    BY <2>1
  <2> QED BY <1>1, <2>1, <2>2 DEF ChannelTypes, StreamTypes, Segments
<1>3. /\ o \in [frame: ChannelFrames, received: Nat] /\ o.received = s.index
      /\ Count(o.frame) = Count(s.frame)
  BY <1>1, <1>2 DEF PumpTake, Acceptable, Opened, ChannelTypes, StreamTypes, Assemblies
<1>4. /\ segments' = [segments EXCEPT ![p] = Tail(@)]
      /\ assembly' = [assembly EXCEPT ![p] = IF more THEN [o EXCEPT !.received = @ + 1]
                                             ELSE NoFrame]
      /\ holding' \in [Ends -> ChannelFrames \cup {NoFrame}]
      /\ mishaps' \in {mishaps, mishaps \cup {"unheard"}}
      /\ UNCHANGED <<scene, pump, reader, queue, writing, tasks, giveUps>>
  BY <1>1, <1>2 DEF PumpTake, ChannelTypes, PumpTypes
<1>5. /\ segments' \in [Ends -> Seq(Segments)] /\ segments'[p] = Tail(segments[p])
      /\ \A q \in Ends: q # p => segments'[q] = segments[q]
  BY <1>1, <1>2, <1>4 DEF ChannelTypes, StreamTypes
<1>6. /\ assembly' \in [Ends -> Assemblies]
      /\ assembly'[p] = IF more THEN [o EXCEPT !.received = @ + 1] ELSE NoFrame
      /\ \A q \in Ends: q # p => assembly'[q] = assembly[q]
  <2>1. [o EXCEPT !.received = @ + 1] \in Assemblies /\ NoFrame \in Assemblies
    BY <1>3 DEF Assemblies
  <2> QED BY <1>1, <1>4, <2>1 DEF ChannelTypes, StreamTypes
<1>7. [o EXCEPT !.received = @ + 1] = [frame |-> o.frame, received |-> s.index + 1]
  BY <1>3
<1>8. Count(s.frame) \in Nat \ {0}
  BY Bounds
<1> HIDE DEF s, o, more
<1>9. \A i \in 1..Len(segments'[p]): i + 1 \in 2..Len(segments[p])
                                     /\ segments'[p][i] = segments[p][i + 1]
  BY <1>2, <1>5
<1>10. StreamTypes'
  <2>1. ASSUME NEW q \in Ends, NEW i \in 1..Len(segments'[q])
        PROVE  segments'[q][i].index < Count(segments'[q][i].frame)
    <3>1. CASE q # p
      BY <1>1, <1>5, <3>1 DEF ChannelTypes, StreamTypes
    <3>2. CASE q = p
      BY <1>1, <1>9, <3>2 DEF ChannelTypes, StreamTypes
    <3> QED BY <3>1, <3>2
  <2>2. ASSUME NEW q \in Ends, assembly'[q] # NoFrame
        PROVE  0 < assembly'[q].received /\ assembly'[q].received < Count(assembly'[q].frame)
    <3>1. CASE q # p
      BY <1>1, <1>6, <2>2, <3>1 DEF ChannelTypes, StreamTypes
    <3>2. CASE q = p
      <4>1. more /\ assembly'[q] = [frame |-> o.frame, received |-> s.index + 1]
        BY <1>6, <1>7, <2>2, <3>2
      <4> QED BY <1>2, <1>3, <1>8, <4>1 DEF more
    <3> QED BY <3>1, <3>2
  <2> QED BY <1>5, <1>6, <2>1, <2>2 DEF StreamTypes
<1>11. WritingTypes' /\ PumpTypes' /\ TaskTypes' /\ SceneTypes'
  BY <1>1, <1>4 DEF ChannelTypes, WritingTypes, PumpTypes, TaskTypes, SceneTypes, scene, tasks
<1>12. StreamInv'
  <2> SUFFICES ASSUME "mixed" \notin mishaps'
               PROVE  /\ channel' # "violated"
                      /\ \A q \in Ends: InOrder(q)' /\ HalfIsLast(q)' /\ OneHalf(q)'
    BY DEF StreamInv
  <2>1. "mixed" \notin mishaps
    BY <1>4
  <2>2. /\ channel # "violated"
        /\ \A q \in Ends: InOrder(q) /\ HalfIsLast(q) /\ OneHalf(q)
    BY <2>1 DEF ChannelInv, StreamInv
  <2>3. UNCHANGED channel
    BY <1>4 DEF scene
  <2>4. \A q \in Ends, e \in Roles: HalfSent(q, e)' <=> HalfSent(q, e)
    BY <1>4 DEF HalfSent, Free
  <2>5. s.index # 0 => o.frame = s.frame
    <3>1. s.index # 0 => assembly[p] = [frame |-> s.frame, received |-> s.index]
      <4>1. Ordered(assembly[p], segments[p]) /\ 1 \in 1..Len(segments[p])
        BY <1>2, <2>2 DEF InOrder
      <4>2. segments[p][1].index # 0 =>
              assembly[p] = [frame |-> segments[p][1].frame, received |-> segments[p][1].index]
        BY <4>1 DEF Ordered
      <4> QED BY <1>2, <4>2
    <3> QED BY <3>1 DEF o, Opened
  <2>6. s.index = 0 => o.frame = s.frame
    BY DEF o, Opened
  <2>7. ASSUME NEW q \in Ends PROVE InOrder(q)'
    <3>1. CASE q # p
      BY <1>5, <1>6, <2>2, <3>1 DEF InOrder
    <3>2. CASE q = p
      <4> SUFFICES ASSUME NEW i \in 1..Len(segments'[p]), segments'[p][i].index # 0
                   PROVE  IF i = 1 THEN assembly'[p] = [frame |-> segments'[p][1].frame,
                                                        received |-> segments'[p][1].index]
                        ELSE segments'[p][i - 1] = [frame |-> segments'[p][i].frame,
                                                    index |-> segments'[p][i].index - 1]
        BY <3>2 DEF InOrder, Ordered
      <4>1. i + 1 \in 1..Len(segments[p]) /\ i + 1 # 1 /\ segments'[p][i] = segments[p][i + 1]
        BY <1>2, <1>9
      <4>2. segments[p][i + 1].index # 0
        BY <4>1
      <4>3. Ordered(assembly[p], segments[p]) /\ (i + 1) - 1 = i
        BY <2>2, <4>1 DEF InOrder
      <4>4. segments[p][i] = [frame |-> segments'[p][i].frame,
                              index |-> segments'[p][i].index - 1]
        BY <4>1, <4>2, <4>3 DEF Ordered
      <4>5. CASE i = 1
        <5>1. s = [frame |-> segments'[p][1].frame, index |-> segments'[p][1].index - 1]
          BY <1>2, <4>4, <4>5
        <5>2. segments'[p][1] \in Segments /\ segments'[p][1].index < Count(segments'[p][1].frame)
          BY <1>10, <4>5 DEF StreamTypes
        <5>3. /\ segments'[p][1].index = s.index + 1 /\ segments'[p][1].frame = s.frame
              /\ segments'[p][1].index \in Nat
          BY <1>2, <5>1, <5>2 DEF Segments
        <5>4. more
          BY <1>3, <5>2, <5>3 DEF more
        <5> QED BY <1>6, <1>7, <2>5, <2>6, <4>5, <5>3, <5>4
      <4>6. CASE i # 1
        <5>1. i - 1 \in 1..Len(segments'[p]) /\ segments'[p][i - 1] = segments[p][i]
          <6>1. i - 1 \in 1..Len(segments'[p]) /\ (i - 1) + 1 = i
            BY <4>6, <1>5
          <6> QED BY <1>9, <6>1
        <5> QED BY <4>4, <4>6, <5>1
      <4> QED BY <4>5, <4>6
    <3> QED BY <3>1, <3>2
  <2>8. ASSUME NEW q \in Ends PROVE HalfIsLast(q)'
    <3> SUFFICES ASSUME NEW e \in Roles, HalfSent(q, e)', channel' = "open"
                 PROVE  LastSent(Peer(q), writing[q][e])'
      BY DEF HalfIsLast
    <3>1. HalfSent(q, e) /\ channel = "open" /\ UNCHANGED writing /\ Peer(q) \in Ends
      BY <1>4, <2>3, <2>4, TwoEnds
    <3>2. LastSent(Peer(q), writing[q][e])
      BY <2>2, <3>1 DEF HalfIsLast
    <3>3. CASE Peer(q) # p
      BY <1>5, <1>6, <3>1, <3>2, <3>3 DEF LastSent
    <3>4. CASE Peer(q) = p
      <4> DEFINE w == writing[q][e]
      <4>1. w.next \in Nat /\ w.next > 0 /\ w.next < Count(w.frame)
        BY <1>1, <3>1 DEF HalfSent, Free, ChannelTypes, WritingTypes, Writings
      <4>2. segments[p][Len(segments[p])] = [frame |-> w.frame, index |-> w.next - 1]
        BY <1>2, <3>2, <3>4 DEF LastSent, EndsWith
      <4>3. CASE Len(segments[p]) = 1
        <5>1. segments'[p] = <<>>
          BY <1>2, <1>5, <4>3, Advancing
        <5>2. s = [frame |-> w.frame, index |-> w.next - 1]
          BY <1>2, <4>2, <4>3
        <5>3. s.frame = w.frame /\ s.index + 1 = w.next
          BY <4>1, <5>2
        <5>4. more
          BY <1>3, <4>1, <5>3 DEF more
        <5>5. assembly'[p] = [frame |-> w.frame, received |-> w.next]
          BY <1>6, <1>7, <2>5, <2>6, <5>3, <5>4
        <5> QED BY <3>1, <3>4, <5>1, <5>5 DEF LastSent, EndsWith
      <4>4. CASE Len(segments[p]) # 1
        <5>1. segments'[p] # <<>> /\ Len(segments'[p]) = Len(segments[p]) - 1
              /\ Len(segments'[p]) \in 1..Len(segments'[p])
          <6>1. /\ Len(Tail(segments[p])) = Len(segments[p]) - 1
                /\ Len(segments[p]) \in Nat \ {0} /\ Tail(segments[p]) # <<>>
            BY <1>2, <4>4, Advancing
          <6> QED BY <1>5, <4>4, <6>1
        <5>2. segments'[p][Len(segments'[p])] = segments[p][Len(segments[p])]
          BY <1>2, <1>9, <5>1
        <5> QED BY <3>1, <3>4, <4>2, <5>1, <5>2 DEF LastSent, EndsWith
      <4> QED BY <4>3, <4>4
    <3> QED BY <3>3, <3>4
  <2>9. \A q \in Ends: OneHalf(q)'
    BY <2>2, <2>4 DEF OneHalf
  <2> QED BY <2>2, <2>3, <2>7, <2>8, <2>9
<1> QED BY <1>10, <1>11, <1>12 DEF ChannelInv, ChannelTypes

\* The pump hands a frame over, ends with the channel, or refuses a segment:
\* never one that came in order.
LEMMA PumpKeeps ==
    ASSUME ChannelInv, NEW p \in Ends, PumpRoute(p) \/ PumpRefuse(p) \/ PumpEnd(p)
    PROVE  ChannelInv'
<1>1. ChannelTypes /\ StreamInv
  BY DEF ChannelInv
<1>2. WritingTypes' /\ TaskTypes' /\ UNCHANGED <<segments, writing, mishaps>>
  BY <1>1, ChannelUntouched DEF PumpRoute, PumpRefuse, PumpEnd, ChannelTypes
<1>3. CASE PumpRoute(p)
  <2> DEFINE r == RoleOf(holding[p])
  <2>1. /\ holding[p] \in ChannelFrames /\ r \in Roles
        /\ Len(queue[p][r]) < QUEUE_FRAMES
        /\ queue' = [queue EXCEPT ![p][r] = Append(@, holding[p])]
        /\ holding' = [holding EXCEPT ![p] = NoFrame]
        /\ UNCHANGED <<scene, assembly, pump, reader, giveUps>>
    BY <1>1, <1>3, Frames DEF PumpRoute, ChannelTypes, PumpTypes
  <2> HIDE DEF r
  <2>2. /\ queue[p][r] \in Seq(ChannelFrames) /\ Len(queue[p][r]) \in Nat
        /\ Append(queue[p][r], holding[p]) \in Seq(ChannelFrames)
        /\ Len(Append(queue[p][r], holding[p])) = Len(queue[p][r]) + 1
    BY <1>1, <2>1, Appending DEF ChannelTypes, PumpTypes
  <2>3. queue' \in [Ends -> [Roles -> Seq(ChannelFrames)]]
    BY <1>1, <2>1, <2>2 DEF ChannelTypes, PumpTypes
  <2>4. ASSUME NEW q \in Ends, NEW o \in Roles PROVE Len(queue'[q][o]) <= QUEUE_FRAMES
    <3>1. CASE q = p /\ o = r
      <4>1. queue'[q][o] = Append(queue[p][r], holding[p])
        BY <1>1, <2>1, <3>1 DEF ChannelTypes, PumpTypes
      <4> QED BY <2>1, <2>2, <4>1, Bounds
    <3>2. CASE ~(q = p /\ o = r)
      <4>1. queue'[q][o] = queue[q][o]
        BY <1>1, <2>1, <3>2 DEF ChannelTypes, PumpTypes
      <4> QED BY <1>1, <4>1 DEF ChannelTypes, PumpTypes
    <3> QED BY <3>1, <3>2
  <2>5. PumpTypes'
    BY <1>1, <2>1, <2>3, <2>4 DEF ChannelTypes, PumpTypes
  <2>6. StreamTypes' /\ SceneTypes'
    BY <1>1, <1>2, <2>1, ChannelUntouched DEF ChannelTypes
  <2>7. StreamInv'
    BY <1>1, <1>2, <2>1, KeptQuiet, StreamQuiet DEF scene
  <2> QED BY <1>2, <2>5, <2>6, <2>7 DEF ChannelInv, ChannelTypes
<1>4. CASE PumpRefuse(p)
  <2>1. PumpTypes' /\ SceneTypes'
    BY <1>1, <1>2, <1>4 DEF PumpRefuse, ChannelTypes, PumpTypes, SceneTypes
  <2>2. assembly' = [assembly EXCEPT ![p] = NoFrame]
    BY <1>4 DEF PumpRefuse
  <2>3. StreamTypes'
    BY <1>1, <1>2, <2>2 DEF ChannelTypes, StreamTypes, Assemblies
  <2>4. ASSUME "mixed" \notin mishaps PROVE FALSE
    <3> DEFINE s == Head(segments[p])
    <3>1. segments[p] \in Seq(Segments) /\ segments[p] # <<>> /\ ~Acceptable(p, s)
      BY <1>1, <1>4 DEF PumpRefuse, ChannelTypes, StreamTypes
    <3>2. s = segments[p][1] /\ s \in Segments /\ 1 \in 1..Len(segments[p])
      BY <3>1
    <3>3. Ordered(assembly[p], segments[p])
      BY <1>1, <2>4 DEF StreamInv, InOrder
    <3>4. s.index # 0 => assembly[p] = [frame |-> s.frame, received |-> s.index]
      BY <3>2, <3>3 DEF Ordered
    <3> HIDE DEF s
    <3>5. CASE s.index = 0
      <4>1. Opened(p, s) = [frame |-> s.frame, received |-> 0]
        BY <3>5 DEF Opened
      <4> QED BY <3>1, <3>5, <4>1, NotNoFrame DEF Acceptable
    <3>6. CASE s.index # 0
      <4>1. Opened(p, s) = [frame |-> s.frame, received |-> s.index]
        BY <3>4, <3>6 DEF Opened
      <4> QED BY <3>1, <4>1, NotNoFrame DEF Acceptable
    <3> QED BY <3>5, <3>6
  <2>5. StreamInv'
    BY <1>2, <2>4 DEF StreamInv
  <2> QED BY <1>2, <2>1, <2>3, <2>5 DEF ChannelInv, ChannelTypes
<1>5. CASE PumpEnd(p)
  <2>1. PumpTypes' /\ UNCHANGED <<scene, assembly, giveUps>>
    BY <1>1, <1>5 DEF PumpEnd, ChannelTypes, PumpTypes
  <2>2. StreamTypes' /\ SceneTypes'
    BY <1>1, <1>2, <2>1, ChannelUntouched DEF ChannelTypes
  <2>3. StreamInv'
    BY <1>1, <1>2, <2>1, KeptQuiet, StreamQuiet DEF scene
  <2> QED BY <1>2, <2>1, <2>2, <2>3 DEF ChannelInv, ChannelTypes
<1> QED BY <1>3, <1>4, <1>5

LEMMA ServerKeeps ==
    ASSUME ChannelInv, NEW p \in Ends, ServerStep(p)
    PROVE  ChannelInv'
<1>0. "sender" \in Roles
  BY DEF Roles
<1>1. ChannelTypes /\ StreamInv
  BY DEF ChannelInv
<1>2. /\ StreamTypes' /\ SceneTypes' /\ UNCHANGED <<segments, assembly, mishaps, scene>>
  BY <1>1, ChannelUntouched
     DEF ServerStep, ServerAttach, ServerReads, ServerEnds, ChannelTypes
<1>3. CASE ServerAttach(p)
  <2>1. PumpTypes' /\ WritingTypes'
    BY <1>0, <1>1, <1>3, AttachTyped, ChannelUntouched DEF ServerAttach, ChannelTypes
  <2>2. TaskTypes'
    BY <1>1, <1>3 DEF ServerAttach, ChannelTypes, TaskTypes
  <2>3. StreamInv'
    BY <1>1, <1>2, <1>3, KeptQuiet, StreamQuiet DEF ServerAttach, scene
  <2> QED BY <1>2, <2>1, <2>2, <2>3 DEF ChannelInv, ChannelTypes
<1>4. CASE ServerReads(p)
  <2> DEFINE f == Head(queue[p]["sender"])
             has == serverHas[p] \cup (IF f.kind = "ack" THEN {f.chunk} ELSE {})
             over == \/ (server[p] = "hello") # (f.kind = "hello")
                     \/ has = wanted[Peer(p)]
  <2>1. /\ Readable(p, "sender") /\ Take(p, "sender")
        /\ serverHas' = [serverHas EXCEPT ![p] = has]
        /\ server' = [server EXCEPT ![p] = IF over THEN "gone" ELSE "serve"]
        /\ UNCHANGED <<pump, holding, client, held, asked, tokens>>
    BY <1>4 DEF ServerReads
  <2>2. Detach(p, "sender") \/ UNCHANGED reader
    BY <1>4 DEF ServerReads
  <2>3. \/ UNCHANGED writing
        \/ Write(p, "sender", [kind |-> "offer"])
        \/ /\ f.kind = "request"
           /\ \E k \in {"ack", "chunk"}:
                Write(p, "sender", [kind |-> k, chunk |-> f.chunk])
    BY <1>4 DEF ServerReads
  <2>4. f \in ChannelFrames /\ (f.kind \in {"ack", "request"} => f.chunk \in FileChunks)
    BY <1>0, <1>1, <2>1, TakeTyped, Frames DEF ChannelTypes
  <2>5. PumpTypes'
    BY <1>0, <1>1, <2>1, <2>2, TakeTyped, DetachTyped DEF ChannelTypes, PumpTypes
  <2>6. has \subseteq FileChunks
    BY <1>1, <2>4 DEF ChannelTypes, TaskTypes
  <2> HIDE DEF has, over, f
  <2>7. TaskTypes'
    BY <1>1, <2>1, <2>6 DEF ChannelTypes, TaskTypes
  <2>8. \/ UNCHANGED writing
        \/ \E g \in ChannelFrames: Write(p, "sender", g)
    BY <2>3, <2>4, Frames
  <2>9. WritingTypes'
    BY <1>0, <1>1, <2>8, WriteTyped, ChannelUntouched DEF ChannelTypes
  <2>10. StreamInv'
    BY <1>0, <1>1, <1>2, <2>8, WriteQuiet, KeptQuiet, StreamQuiet DEF ChannelTypes, scene
  <2> QED BY <1>2, <2>5, <2>7, <2>9, <2>10 DEF ChannelInv, ChannelTypes
<1>5. CASE ServerEnds(p)
  <2>1. /\ Detach(p, "sender") /\ writing' = [writing EXCEPT ![p]["sender"] = NoFrame]
        /\ server' = [server EXCEPT ![p] = "gone"]
        /\ UNCHANGED <<pump, holding, queue, serverHas, client, held, asked, tokens>>
    BY <1>5 DEF ServerEnds
  <2>2. PumpTypes' /\ WritingTypes'
    BY <1>0, <1>1, <2>1, DetachTyped, DropTyped DEF ChannelTypes, PumpTypes
  <2>3. TaskTypes'
    BY <1>1, <2>1 DEF ChannelTypes, TaskTypes
  <2>4. StreamInv'
    BY <1>0, <1>1, <1>2, <2>1, DropQuiet, StreamQuiet DEF ChannelTypes, scene
  <2> QED BY <1>2, <2>2, <2>3, <2>4 DEF ChannelInv, ChannelTypes
<1> QED BY <1>3, <1>4, <1>5 DEF ServerStep

LEMMA ClientKeeps ==
    ASSUME ChannelInv, NEW p \in Ends, ClientStep(p) \/ Refill(p) \/ ClientGivesUp(p)
    PROVE  ChannelInv'
<1>0. "requester" \in Roles
  BY DEF Roles
<1>1. ChannelTypes /\ StreamInv
  BY DEF ChannelInv
<1>2. /\ StreamTypes' /\ UNCHANGED <<segments, assembly, mishaps, wanted>>
      /\ channel' = channel \/ channel' = "closed"
  BY <1>1, ChannelUntouched
     DEF ClientStep, ClientStart, ClientAsks, ClientReads, ClientDone, ClientFails, Refill,
         ClientGivesUp, ChannelTypes, scene, ends
<1>3. SceneTypes'
  <2>1. UNCHANGED giveUps \/ (giveUps < MaxGiveUps /\ giveUps' = giveUps + 1)
    BY DEF ClientStep, ClientStart, ClientAsks, ClientReads, ClientDone, ClientFails, Refill,
       ClientGivesUp
  <2>2. giveUps' \in 0..MaxGiveUps
    BY <1>1, <2>1, Bounds DEF ChannelTypes, SceneTypes
  <2> QED BY <1>1, <1>2, <2>2 DEF ChannelTypes, SceneTypes
<1>4. ASSUME PumpTypes', TaskTypes',
             \/ UNCHANGED writing
             \/ \E g \in ChannelFrames: Write(p, "requester", g)
             \/ writing' = [writing EXCEPT ![p]["requester"] = NoFrame]
      PROVE  ChannelInv'
  <2>1. WritingTypes'
    BY <1>0, <1>1, <1>4, WriteTyped, DropTyped, ChannelUntouched DEF ChannelTypes
  <2>2. \A q \in Ends, o \in Roles:
          HalfSent(q, o)' => HalfSent(q, o) /\ writing'[q][o] = writing[q][o]
    BY <1>0, <1>1, <1>4, WriteQuiet, DropQuiet, KeptQuiet DEF ChannelTypes
  <2>3. StreamInv'
    BY <1>1, <1>2, <2>2, StreamQuiet
  <2> QED BY <1>2, <1>3, <1>4, <2>1, <2>3 DEF ChannelInv, ChannelTypes
<1>5. CASE ClientStart(p)
  <2>1. PumpTypes'
    BY <1>0, <1>1, <1>5, AttachTyped DEF ClientStart, ChannelTypes
  <2>2. TaskTypes'
    BY <1>1, <1>5 DEF ClientStart, ChannelTypes, TaskTypes
  <2> QED BY <1>4, <1>5, <2>1, <2>2, Frames DEF ClientStart
<1>6. ASSUME NEW c \in wanted[p], ClientAsks(p, c) PROVE ChannelInv'
  <2>1. c \in FileChunks
    BY <1>1, WantedChunks
  <2>2. PumpTypes'
    BY <1>1, <1>6, ChannelUntouched DEF ClientAsks, ChannelTypes, ends
  <2>3. tokens[p] \in 0..BUCKET /\ tokens[p] > 0 /\ tokens[p] - 1 \in 0..BUCKET
    BY <1>1, <1>6, Bounds DEF ClientAsks, ChannelTypes, TaskTypes
  <2>4. TaskTypes'
    BY <1>1, <1>6, <2>1, <2>3 DEF ClientAsks, ChannelTypes, TaskTypes
  <2>5. \E g \in ChannelFrames: Write(p, "requester", g)
    BY <1>6, <2>1, Frames DEF ClientAsks
  <2> QED BY <1>4, <2>2, <2>4, <2>5
<1>7. CASE Refill(p)
  <2>1. PumpTypes' /\ UNCHANGED writing
    BY <1>1, <1>7, ChannelUntouched DEF Refill, ChannelTypes, ends
  <2>2. tokens[p] \in 0..BUCKET /\ tokens[p] + 1 \in 0..BUCKET
    BY <1>1, <1>7, Bounds DEF Refill, ChannelTypes, TaskTypes
  <2>3. TaskTypes'
    BY <1>1, <1>7, <2>2 DEF Refill, ChannelTypes, TaskTypes
  <2> QED BY <1>4, <2>1, <2>3
<1>8. CASE ClientReads(p)
  <2> DEFINE f == Head(queue[p]["requester"])
  <2>1. /\ Readable(p, "requester") /\ Take(p, "requester")
        /\ UNCHANGED <<pump, holding, reader, server, serverHas, client, tokens>>
        /\ \/ /\ f.kind = "chunk"
              /\ held' = [held EXCEPT ![p] = @ \cup {f.chunk}]
              /\ asked' = [asked EXCEPT ![p] = @ \ {f.chunk}]
              /\ Write(p, "requester", [kind |-> "ack", chunk |-> f.chunk])
           \/ UNCHANGED <<held, asked, writing>>
    BY <1>8 DEF ClientReads
  <2>2. f \in ChannelFrames /\ (f.kind = "chunk" => f.chunk \in FileChunks)
    BY <1>0, <1>1, <2>1, TakeTyped, Frames DEF ChannelTypes
  <2>3. PumpTypes'
    BY <1>0, <1>1, <2>1, TakeTyped DEF ChannelTypes, PumpTypes
  <2> HIDE DEF f
  <2>4. TaskTypes'
    BY <1>1, <2>1, <2>2 DEF ChannelTypes, TaskTypes
  <2>5. UNCHANGED writing \/ \E g \in ChannelFrames: Write(p, "requester", g)
    BY <2>1, <2>2, Frames
  <2> QED BY <1>4, <2>3, <2>4, <2>5
<1>9. CASE ClientDone(p) \/ ClientFails(p) \/ ClientGivesUp(p)
  <2>1. /\ Detach(p, "requester")
        /\ \E s \in {"done", "failed", "cancelled"}: client' = [client EXCEPT ![p] = s]
        /\ UNCHANGED <<pump, holding, queue, server, serverHas, held, asked, tokens>>
        /\ \/ UNCHANGED writing
           \/ writing' = [writing EXCEPT ![p]["requester"] = NoFrame]
    BY <1>9 DEF ClientDone, ClientFails, ClientGivesUp
  <2>2. PumpTypes'
    BY <1>0, <1>1, <2>1, DetachTyped DEF ChannelTypes, PumpTypes
  <2>3. TaskTypes'
    BY <1>1, <2>1 DEF ChannelTypes, TaskTypes
  <2> QED BY <1>4, <2>1, <2>2, <2>3
<1> QED BY <1>5, <1>6, <1>7, <1>8, <1>9 DEF ClientStep

LEMMA ChannelInvariant == ChannelSpec => []ChannelInv
<1>1. ChannelInit => ChannelInv
  <2> SUFFICES ASSUME ChannelInit PROVE ChannelInv
    OBVIOUS
  <2>1. /\ segments = [p \in Ends |-> <<>>] /\ assembly = [p \in Ends |-> NoFrame]
        /\ writing = [p \in Ends |-> [r \in Roles |-> NoFrame]]
        /\ channel = "open" /\ wanted \in Scenarios /\ giveUps = 0 /\ mishaps = {}
    BY DEF ChannelInit
  <2>2. StreamTypes
    BY <2>1 DEF StreamTypes, Assemblies
  <2>3. WritingTypes /\ TaskTypes
    BY <2>1, Bounds DEF ChannelInit, WritingTypes, Writings, TaskTypes
  <2>4. PumpTypes
    BY Bounds DEF ChannelInit, PumpTypes
  <2>5. SceneTypes
    BY <2>1, Bounds DEF SceneTypes
  <2>6. \A p \in Ends: InOrder(p)
    BY <2>1 DEF InOrder, Ordered
  <2>7. \A p \in Ends, r \in Roles: ~HalfSent(p, r)
    BY <2>1 DEF HalfSent, Free
  <2>8. StreamInv
    BY <2>1, <2>6, <2>7 DEF StreamInv, HalfIsLast, OneHalf
  <2> QED BY <2>2, <2>3, <2>4, <2>5, <2>8 DEF ChannelInv, ChannelTypes
<1>2. ChannelInv /\ [ChannelNext]_channelVars => ChannelInv'
  <2> SUFFICES ASSUME ChannelInv, [ChannelNext]_channelVars PROVE ChannelInv'
    OBVIOUS
  <2>1. CASE UNCHANGED channelVars
    <3>1. ChannelTypes /\ StreamInv
      BY DEF ChannelInv
    <3>2. ChannelTypes'
      BY <2>1, <3>1, ChannelUntouched DEF channelVars, ChannelTypes, tasks, scene
    <3>3. StreamInv'
      BY <2>1, <3>1, KeptQuiet, StreamQuiet DEF channelVars
    <3> QED BY <3>2, <3>3 DEF ChannelInv
  <2>2. CASE ChannelNext
    BY <2>2, SendKeeps, PumpTakeKeeps, PumpKeeps, ServerKeeps, ClientKeeps
       DEF ChannelNext, PumpStep
  <2> QED BY <2>1, <2>2
<1> QED BY <1>1, <1>2, PTL DEF ChannelSpec

\* What an end holds and reads is of its types, its queues within their
\* capacity and its bucket within its burst, however the tasks interleave.
THEOREM ChannelTypeCorrect == ChannelSpec => []ChannelTypeOK
<1>1. ChannelInv => ChannelTypeOK
  <2> SUFFICES ASSUME ChannelInv PROVE ChannelTypeOK
    OBVIOUS
  <2>1. ChannelTypes
    BY DEF ChannelInv
  <2>2. ASSUME NEW p \in Ends, NEW i \in DOMAIN segments[p]
        PROVE  segments[p][i].frame \in ChannelFrames /\ segments[p][i].index \in Nat
    <3>1. segments[p] \in Seq(Segments)
      BY <2>1 DEF ChannelTypes, StreamTypes
    <3>2. segments[p][i] \in Segments
      BY <3>1
    <3> QED BY <3>2 DEF Segments
  <2>3. ASSUME NEW p \in Ends, assembly[p] # NoFrame
        PROVE  assembly[p].received \in 1..(Count(assembly[p].frame) - 1)
    BY <2>1, <2>3, Bounds DEF ChannelTypes, StreamTypes, Assemblies
  <2> QED BY <2>1, <2>2, <2>3
       DEF ChannelTypes, PumpTypes, TaskTypes, SceneTypes, ChannelTypeOK
<1> QED BY <1>1, ChannelInvariant, PTL

\* A segment is refused, and the channel closed for both roles of both ends,
\* only after an end let the frames of its two roles overlap on the wire: full
\* queues, readers that come and go and downloads given up never break a frame.
THEOREM RefusalMeansMixing == ChannelSpec => []RefusedOnlyMixed
<1>1. ChannelInv => RefusedOnlyMixed
  BY DEF ChannelInv, StreamInv, RefusedOnlyMixed
<1> QED BY <1>1, ChannelInvariant, PTL

-----------------------------------------------------------------------------
(* Downloads: a row that says complete.                                       *)

\* What makes the row's word good: whatever may still write "complete" has
\* seen the content in the library, and the content does not go.
FileInv ==
    /\ CompleteHasFile
    /\ \A o \in Opens : task[o].hit => local
    /\ \A o \in Opens : At(o, "mark") => task[o].hit
    /\ \A o \in Opens : /\ task[o].goal = "complete" => local
                       /\ task[o].goal \notin {"pending", "paused"}

DownloadsInv == TypeOK /\ FileInv

LEMMA NewTyped == ASSUME NEW o \in Opens PROVE NewTask(o) \in Task
BY SMT DEF NewTask, Task, Held, Active, Terminal

LEMMA DownloadsInit == Init => DownloadsInv
<1> SUFFICES ASSUME Init PROVE DownloadsInv  OBVIOUS
<1>1. \A o \in Opens : NewTask(o) \in Task  BY NewTyped
<1>2. TypeOK
  <2>1. <<>> \in Seq(Opens) /\ 0 \in 0 .. MaxTrouble  BY DownloadsAssumption, SMT DEF DownloadsAssumption
  <2>2. row \in [Opens -> Active \cup Terminal \cup {"absent"}] /\ task \in [Opens -> Task]
      BY <1>1 DEF Init
  <2> QED  BY <2>1, <2>2 DEF Init, TypeOK
<1>3. FileInv  BY SMT DEF Init, FileInv, CompleteHasFile, At, NewTask
<1> QED  BY <1>2, <1>3 DEF DownloadsInv

\* The guard of a call drops.
LEMMA GuardDrops ==
    ASSUME TypeOK, NEW o \in Opens, DropGuard(o)
    PROVE  claim' \in [Opens -> Opens \cup {Nobody}] /\ adopted' \subseteq Opens /\ cancelled' = cancelled
BY SMT DEF TypeOK, DropGuard

AtPlace(r, p) == [r EXCEPT !.pc = p]
WithGoal(r, g) == [r EXCEPT !.goal = g]
WithCheck(r, b) == [r EXCEPT !.checked = b]
WithHit(r, b) == [r EXCEPT !.hit = b]
WithMine(r, d) == [r EXCEPT !.mine = d]

LEMMA FieldSet ==
    ASSUME NEW r \in Task
    PROVE  /\ \A p \in Places : AtPlace(r, p) \in Task /\ AtPlace(r, p).pc = p
                /\ AtPlace(r, p).hit = r.hit /\ AtPlace(r, p).goal = r.goal
           /\ \A g \in Active \cup Terminal : WithGoal(r, g) \in Task /\ WithGoal(r, g).goal = g
                /\ WithGoal(r, g).hit = r.hit /\ WithGoal(r, g).pc = r.pc
           /\ \A b \in BOOLEAN : WithCheck(r, b) \in Task /\ WithCheck(r, b).goal = r.goal
                /\ WithCheck(r, b).hit = r.hit /\ WithCheck(r, b).pc = r.pc
           /\ \A b \in BOOLEAN : WithHit(r, b) \in Task /\ WithHit(r, b).goal = r.goal
                /\ WithHit(r, b).hit = b /\ WithHit(r, b).pc = r.pc
           /\ \A d \in Opens : WithMine(r, d) \in Task /\ WithMine(r, d).goal = r.goal
                /\ WithMine(r, d).hit = r.hit /\ WithMine(r, d).pc = r.pc
<1>1. \A p \in Places : AtPlace(r, p) \in Task /\ AtPlace(r, p).pc = p
                /\ AtPlace(r, p).hit = r.hit /\ AtPlace(r, p).goal = r.goal
    BY SMT DEF Task, AtPlace, Places
<1>2. \A g \in Active \cup Terminal : WithGoal(r, g) \in Task /\ WithGoal(r, g).goal = g
                /\ WithGoal(r, g).hit = r.hit /\ WithGoal(r, g).pc = r.pc
    BY SMT DEF Task, WithGoal
<1>3. \A b \in BOOLEAN : WithCheck(r, b) \in Task /\ WithCheck(r, b).goal = r.goal
                /\ WithCheck(r, b).hit = r.hit /\ WithCheck(r, b).pc = r.pc
    BY SMT DEF Task, WithCheck
<1>4. \A b \in BOOLEAN : WithHit(r, b) \in Task /\ WithHit(r, b).goal = r.goal
                /\ WithHit(r, b).hit = b /\ WithHit(r, b).pc = r.pc
    BY SMT DEF Task, WithHit
<1>5. \A d \in Opens : WithMine(r, d) \in Task /\ WithMine(r, d).goal = r.goal
                /\ WithMine(r, d).hit = r.hit /\ WithMine(r, d).pc = r.pc
    BY SMT DEF Task, WithMine
<1> QED  BY <1>1, <1>2, <1>3, <1>4, <1>5

\* Every step of a call or a task puts one record in the place of its own.
\* t is good when its goal and its hit are covered by what the library holds.
Good(t, here) == /\ t.hit => here
                 /\ t.pc = "mark" => t.hit
                 /\ t.goal = "complete" => here
                 /\ t.goal \notin {"pending", "paused"}

LEMMA OwnGood ==
    ASSUME DownloadsInv, NEW o \in Opens
    PROVE  task[o] \in Task /\ Good(task[o], local)
BY DEF DownloadsInv, TypeOK, FileInv, Good, At

\* A step of one call: its task becomes a good one, the others stay.
Becomes(o, here) ==
    /\ task' \in [Opens -> Task] /\ Good(task'[o], here)
    /\ \A p \in Opens : p # o => task'[p] = task[p]

LEMMA DoneGood ==
    ASSUME DownloadsInv, NEW o \in Opens, Done(o), NEW here \in BOOLEAN
    PROVE  Becomes(o, here)
<1> DEFINE r == NewTask(o)
           t == AtPlace(r, "done")
<1>1. r \in Task /\ ~r.hit /\ r.goal = "connecting"  BY NewTyped DEF NewTask
<1>2. task' = [task EXCEPT ![o] = t]  BY DEF Done, AtPlace
<1> HIDE DEF r
<1>3. t \in Task /\ ~t.hit /\ t.goal = "connecting" /\ t.pc = "done"  BY <1>1, FieldSet DEF Places
<1> HIDE DEF t
<1>4. Good(t, here)  BY <1>3 DEF Good
<1>5. task' \in [Opens -> Task] /\ task'[o] = t /\ \A p \in Opens : p # o => task'[p] = task[p]
    BY <1>2, <1>3 DEF DownloadsInv, TypeOK
<1> QED  BY <1>4, <1>5 DEF Becomes

LEMMA GotoGood ==
    ASSUME DownloadsInv, NEW o \in Opens, NEW next \in Places \ {"mark"}, Goto(o, next)
    PROVE  Becomes(o, local)
<1> DEFINE t == AtPlace(task[o], next)
<1>1. task[o] \in Task /\ Good(task[o], local)  BY OwnGood
<1>2. t \in Task /\ t.hit = task[o].hit /\ t.goal = task[o].goal /\ t.pc = next  BY <1>1, FieldSet
<1>3. task' = [task EXCEPT ![o] = t]  BY DEF Goto, AtPlace
<1> HIDE DEF t
<1>4. Good(t, local)  BY <1>1, <1>2 DEF Good
<1>5. task' \in [Opens -> Task] /\ task'[o] = t /\ \A p \in Opens : p # o => task'[p] = task[p]
    BY <1>2, <1>3 DEF DownloadsInv, TypeOK
<1> QED  BY <1>4, <1>5 DEF Becomes

LEMMA MoveGood ==
    ASSUME DownloadsInv, NEW o \in Opens, NEW to \in (Active \ {"pending", "paused"}) \cup Terminal, Move(o, to),
           NEW here \in BOOLEAN, local => here, to = "complete" => here
    PROVE  Becomes(o, here)
<1> DEFINE r == AtPlace(task[o], "move")
           t == WithGoal(r, to)
<1>1. task[o] \in Task /\ Good(task[o], local)  BY OwnGood
<1>2. t = [[task[o] EXCEPT !.pc = "move"] EXCEPT !.goal = to]  BY DEF AtPlace, WithGoal
<1>3. r \in Task /\ r.hit = task[o].hit /\ r.pc = "move"  BY <1>1, FieldSet DEF Places, Held
<1> HIDE DEF r
<1>4. t \in Task /\ t.hit = r.hit /\ t.goal = to /\ t.pc = r.pc
  <2>1. r \in Task  BY <1>3
  <2> QED  BY <2>1, FieldSet
<1> HIDE DEF t
<1>5. Good(t, here)
  <2>1. to \notin {"pending", "paused"}  BY DEF Terminal
  <2> QED  BY <1>1, <1>3, <1>4, <2>1 DEF Good
<1>6. task' \in [Opens -> Task] /\ task'[o] = t /\ \A p \in Opens : p # o => task'[p] = task[p]
  <2>1. task \in [Opens -> Task] /\ t \in Task  BY <1>4 DEF DownloadsInv, TypeOK
  <2> QED  BY <1>2, <2>1, SMT DEF Move
<1> QED  BY <1>5, <1>6 DEF Becomes

LEMMA RowGood ==
    ASSUME DownloadsInv, NEW o \in Opens, NEW d \in Opens, WithRow(o, d)
    PROVE  Becomes(o, local)
<1> DEFINE next == IF task[o].hit THEN "mark" ELSE "claim"
           r == WithMine(task[o], d)
           t == AtPlace(r, next)
<1>1. task[o] \in Task /\ Good(task[o], local)  BY OwnGood
<1>2. t = [[task[o] EXCEPT !.mine = d] EXCEPT !.pc = IF task[o].hit THEN "mark" ELSE "claim"]
    BY DEF AtPlace, WithMine
<1>3. r \in Task /\ r.hit = task[o].hit /\ r.goal = task[o].goal  BY <1>1, FieldSet
<1> HIDE DEF r
<1>4. t \in Task /\ t.hit = task[o].hit /\ t.goal = task[o].goal /\ t.pc = next
    BY <1>3, FieldSet DEF Places
<1>5. next = "mark" => task[o].hit  OBVIOUS
<1> HIDE DEF t, next
<1>6. Good(t, local)  BY <1>1, <1>4, <1>5 DEF Good
<1>7. task' \in [Opens -> Task] /\ task'[o] = t /\ \A p \in Opens : p # o => task'[p] = task[p]
  <2>1. task \in [Opens -> Task] /\ t \in Task  BY <1>4 DEF DownloadsInv, TypeOK
  <2> QED  BY <1>2, <2>1, SMT DEF WithRow
<1> QED  BY <1>6, <1>7 DEF Becomes

\* The invariant after a step that moves on the task of one call.
LEMMA StepGood ==
    ASSUME DownloadsInv, NEW o \in Opens, local' \in BOOLEAN, Becomes(o, local'), local => local',
           row' \in [Opens -> Active \cup Terminal \cup {"absent"}], born' \in Seq(Opens),
           scratch' \subseteq Opens, claim' \in [Opens -> Opens \cup {Nobody}], adopted' \subseteq Opens,
           cancelled' \subseteq Tokens, leaving' \subseteq Tokens,
           user' \in (Opens \X {"paused", "transferring"}) \cup {Nothing}, troubles' \in 0 .. MaxTrouble,
           \A d \in Opens : row'[d] = "complete" => row[d] = "complete" \/ local'
    PROVE  DownloadsInv'
<1>1. TypeOK'  BY DEF TypeOK, Becomes
<1>2. \A p \in Opens : Good(task'[p], local')
  <2> TAKE p \in Opens
  <2>1. CASE p = o  BY <2>1 DEF Becomes
  <2>2. CASE p # o
    <3>1. Good(task[p], local)  BY OwnGood
    <3> QED  BY <2>2, <3>1 DEF Good, Becomes
  <2> QED  BY <2>1, <2>2
<1>3. CompleteHasFile'  BY DEF DownloadsInv, FileInv, CompleteHasFile
<1> QED  BY <1>1, <1>2, <1>3 DEF DownloadsInv, FileInv, Good, At

\* The same when the step writes nothing but the task.
LEMMA SteadyGood ==
    ASSUME DownloadsInv, NEW o \in Opens, Becomes(o, local),
           UNCHANGED <<row, born, local, scratch, claim, adopted, cancelled, leaving, user>>,
           troubles' \in 0 .. MaxTrouble
    PROVE  DownloadsInv'
<1>1. TypeOK  BY DEF DownloadsInv
<1>2. /\ local' \in BOOLEAN /\ Becomes(o, local') /\ (local => local')
      /\ row' \in [Opens -> Active \cup Terminal \cup {"absent"}] /\ born' \in Seq(Opens)
      /\ scratch' \subseteq Opens /\ claim' \in [Opens -> Opens \cup {Nobody}] /\ adopted' \subseteq Opens
      /\ cancelled' \subseteq Tokens /\ leaving' \subseteq Tokens
      /\ user' \in (Opens \X {"paused", "transferring"}) \cup {Nothing} /\ row' = row
    BY <1>1 DEF TypeOK
<1> QED  BY <1>2, StepGood

\* download_open, up to the hand-over.
LEMMA OpenStepGood ==
    ASSUME DownloadsInv, NEW o \in Opens, OpenStep(o) \/ Refused(o) \/ SetupEnds(o)
    PROVE  DownloadsInv'
<1> DEFINE Kept == /\ row' \in [Opens -> Active \cup Terminal \cup {"absent"}] /\ born' \in Seq(Opens)
                   /\ scratch' \subseteq Opens /\ claim' \in [Opens -> Opens \cup {Nobody}]
                   /\ adopted' \subseteq Opens /\ cancelled' \subseteq Tokens /\ leaving' \subseteq Tokens
                   /\ user' \in (Opens \X {"paused", "transferring"}) \cup {Nothing}
                   /\ troubles' \in 0 .. MaxTrouble
                   /\ local' = local
<1>0. TypeOK /\ FileInv /\ task[o] \in Task /\ Good(task[o], local) /\ local \in BOOLEAN /\ troubles \in 0 .. MaxTrouble
    BY OwnGood DEF DownloadsInv, TypeOK
<1>k. ASSUME Kept, Becomes(o, local), \A d \in Opens : row'[d] = "complete" => row[d] = "complete" \/ local
      PROVE  DownloadsInv'
  <2>1. local' \in BOOLEAN /\ Becomes(o, local') /\ (local => local')  BY <1>0, <1>k
  <2> QED  BY <1>k, <2>1, StepGood
<1>1. CASE Refused(o)
  <2>1. Becomes(o, local)  BY <1>0, <1>1, DoneGood DEF Refused
  <2> QED  BY <1>0, <1>1, <2>1, SteadyGood DEF Refused, db, disk, registry, outside
<1>2. CASE Dedup(o)
  <2> DEFINE r == AtPlace(task[o], "find")
             t == WithHit(r, local)
  <2>1. r \in Task /\ r.goal = task[o].goal /\ r.pc = "find"  BY <1>0, FieldSet DEF Places
  <2>2. t = [[task[o] EXCEPT !.pc = "find"] EXCEPT !.hit = local]  BY DEF AtPlace, WithHit
  <2> HIDE DEF r
  <2>3. t \in Task /\ t.goal = r.goal /\ t.pc = r.pc /\ t.hit = local
    <3>1. r \in Task /\ local \in BOOLEAN  BY <1>0, <2>1
    <3> QED  BY <3>1, FieldSet
  <2> HIDE DEF t
  <2>4. Good(t, local)  BY <1>0, <2>1, <2>3 DEF Good
  <2>5. task' \in [Opens -> Task] /\ task'[o] = t /\ \A p \in Opens : p # o => task'[p] = task[p]
    <3>1. task \in [Opens -> Task] /\ t \in Task  BY <1>0, <2>3 DEF TypeOK
    <3> QED  BY <1>2, <2>2, <3>1, SMT DEF Dedup
  <2>6. Becomes(o, local)  BY <2>4, <2>5 DEF Becomes
  <2> QED  BY <1>0, <1>2, <2>6, SteadyGood DEF Dedup, db, disk, registry, outside
<1>3. CASE FindRow(o)
  <2>1. Becomes(o, local)
    <3>1. CASE Goto(o, "insert")  BY <3>1, GotoGood DEF Places
    <3>2. CASE \E d \in Reusable(o) : WithRow(o, d)  BY <3>2, RowGood DEF Reusable
    <3> QED  BY <1>3, <3>1, <3>2 DEF FindRow
  <2> QED  BY <1>0, <1>3, <2>1, SteadyGood DEF FindRow, db, disk, registry, outside
<1>4. CASE CreateRow(o)
  <2>1. Becomes(o, local)  BY <1>4, GotoGood, RowGood DEF CreateRow, Places
  <2>2. Kept
    <3>1. row' \in [Opens -> Active \cup Terminal \cup {"absent"}]
        BY <1>0, <1>4 DEF CreateRow, TypeOK, Active, db
    <3>2. born' \in Seq(Opens)
      <4>1. born' = born \/ born' = Append(born, o)  BY <1>4 DEF CreateRow, db
      <4> QED  BY <1>0, <4>1, SMT DEF TypeOK
    <3> QED  BY <1>0, <1>4, <3>1, <3>2 DEF CreateRow, TypeOK, disk, registry, outside
  <2>3. \A d \in Opens : row'[d] = "complete" => row[d] = "complete"
      BY <1>0, <1>4 DEF CreateRow, TypeOK, db
  <2> QED  BY <1>k, <2>1, <2>2, <2>3
<1>5. CASE RaceRow(o)
  <2>1. Becomes(o, local)
    <3>1. CASE Done(o)  BY <1>0, <3>1, DoneGood
    <3>2. CASE \E d \in ActiveRows : WithRow(o, d)  BY <3>2, RowGood DEF ActiveRows
    <3> QED  BY <1>5, <3>1, <3>2 DEF RaceRow
  <2> QED  BY <1>0, <1>5, <2>1, SteadyGood DEF RaceRow, db, disk, registry, outside
<1>6. CASE MarkComplete(o)
  <2>1. Becomes(o, local)  BY <1>0, <1>6, DoneGood DEF MarkComplete
  <2>2. local  BY <1>0, <1>6 DEF MarkComplete, At, Good
  <2>3. Kept  BY <1>0, <1>6 DEF MarkComplete, TypeOK, Terminal, MyRow, Task, disk, registry, outside
  <2> QED  BY <1>k, <2>1, <2>2, <2>3
<1>7. CASE TryRegister(o)
  <2>1. Becomes(o, local)  BY <1>0, <1>7, GotoGood, DoneGood DEF TryRegister, Places, Held
  <2>2. MyRow(o) \in Opens  BY <1>0 DEF MyRow, Task
  <2>3. Kept  BY <1>0, <1>7, <2>2 DEF TryRegister, TypeOK, db, disk, outside
  <2>4. row' = row  BY <1>7 DEF TryRegister, db
  <2> QED  BY <1>k, <2>1, <2>3, <2>4
<1>8. CASE SetupEnds(o)
  <2>1. Becomes(o, local)  BY <1>0, <1>8, DoneGood DEF SetupEnds
  <2>2. Kept  BY <1>0, <1>8, GuardDrops DEF SetupEnds, TypeOK, db, disk, outside
  <2>3. row' = row  BY <1>8 DEF SetupEnds, db
  <2> QED  BY <1>k, <2>1, <2>2, <2>3
<1>9. CASE AdoptToken(o)
  <2>1. Becomes(o, local)  BY <1>0, <1>9, GotoGood, DoneGood DEF AdoptToken, Places, Held
  <2>2. MyRow(o) \in Opens  BY <1>0 DEF MyRow, Task
  <2>3. Kept
    <3>1. claim' \in [Opens -> Opens \cup {Nobody}] /\ adopted' \subseteq Opens /\ cancelled' = cancelled
        BY <1>0, <1>9, <2>2, GuardDrops DEF AdoptToken, TypeOK
    <3> QED  BY <1>0, <1>9, <3>1 DEF AdoptToken, TypeOK, db, disk, outside
  <2>4. row' = row  BY <1>9 DEF AdoptToken, db
  <2> QED  BY <1>k, <2>1, <2>3, <2>4
<1> QED  BY <1>1, <1>2, <1>3, <1>4, <1>5, <1>6, <1>7, <1>8, <1>9 DEF OpenStep

\* The transfer task.
LEMMA RunStepGood ==
    ASSUME DownloadsInv, NEW o \in Opens,
           RunStep(o) \/ RunFails(o) \/ AssembleFails(o) \/ Panic(o)
    PROVE  DownloadsInv'
<1> DEFINE Kept == /\ row' \in [Opens -> Active \cup Terminal \cup {"absent"}] /\ born' \in Seq(Opens)
                   /\ scratch' \subseteq Opens /\ claim' \in [Opens -> Opens \cup {Nobody}]
                   /\ adopted' \subseteq Opens /\ cancelled' \subseteq Tokens /\ leaving' \subseteq Tokens
                   /\ user' \in (Opens \X {"paused", "transferring"}) \cup {Nothing}
                   /\ troubles' \in 0 .. MaxTrouble
                   /\ local' \in BOOLEAN /\ (local => local')
<1>0. TypeOK /\ FileInv /\ task[o] \in Task /\ Good(task[o], local) /\ local \in BOOLEAN
      /\ troubles \in 0 .. MaxTrouble /\ MyRow(o) \in Opens /\ task[o].goal \in Active \cup Terminal
    BY OwnGood DEF DownloadsInv, TypeOK, MyRow, Task
<1>k. ASSUME Kept, Becomes(o, local'), \A d \in Opens : row'[d] = "complete" => row[d] = "complete" \/ local'
      PROVE  DownloadsInv'
    BY <1>k, StepGood
<1>1. CASE StartRun(o)
  <2>1. Becomes(o, local)
      BY <1>0, <1>1, GotoGood, MoveGood DEF StartRun, Places, Held, Active
  <2> QED  BY <1>0, <1>1, <2>1, SteadyGood DEF StartRun, db, disk, registry, outside
<1>2. CASE ReadState(o)
  <2>1. Becomes(o, local)
    <3>1. CASE task' = [task EXCEPT ![o].checked = TRUE]
      <4> DEFINE t == WithCheck(task[o], TRUE)
      <4>1. t \in Task /\ t.goal = task[o].goal /\ t.hit = task[o].hit /\ t.pc = task[o].pc
          BY <1>0, FieldSet
      <4>2. task' = [task EXCEPT ![o] = t]  BY <3>1 DEF WithCheck
      <4> HIDE DEF t
      <4>3. Good(t, local)  BY <1>0, <4>1 DEF Good
      <4>4. task' \in [Opens -> Task] /\ task'[o] = t /\ \A p \in Opens : p # o => task'[p] = task[p]
          BY <1>0, <4>1, <4>2 DEF TypeOK
      <4> QED  BY <4>3, <4>4 DEF Becomes
    <3>2. CASE Done(o)  BY <1>0, <3>2, DoneGood
    <3>3. CASE Goto(o, AfterError(o))
      <4>1. AfterError(o) \in Places \ {"mark"}  BY DEF AfterError, Places, Held
      <4> QED  BY <3>3, <4>1, GotoGood
    <3> QED  BY <1>2, <3>1, <3>2, <3>3 DEF ReadState
  <2>2. Kept
    <3>1. claim' \in [Opens -> Opens \cup {Nobody}] /\ adopted' \subseteq Opens /\ cancelled' = cancelled
      <4>1. CASE UNCHANGED registry  BY <1>0, <4>1 DEF registry, TypeOK
      <4>2. CASE DropGuard(o)  BY <1>0, <4>2, GuardDrops
      <4> QED  BY <1>2, <4>1, <4>2 DEF ReadState
    <3> QED  BY <1>0, <1>2, <3>1 DEF ReadState, TypeOK, db, disk, outside
  <2>3. row' = row /\ local' = local  BY <1>2 DEF ReadState, db, disk
  <2> QED  BY <1>k, <2>1, <2>2, <2>3
<1>3. CASE WriteState(o)
  <2>1. Becomes(o, local)
    <3>1. CASE Done(o)  BY <1>0, <3>1, DoneGood
    <3>2. CASE Arrive(o)
      <4> DEFINE to == task[o].goal
                 next == CASE to = "connecting"   -> "move"
                           [] to = "transferring" -> "chunks"
                           [] to = "verifying"    -> "assemble"
                           [] to \in Terminal     -> "over"
                 goal == IF to = "connecting" THEN "transferring" ELSE to
                 q == WithCheck(task[o], FALSE)
                 r == AtPlace(q, next)
                 t == WithGoal(r, goal)
      <4>0. task' = [task EXCEPT ![o].checked = FALSE, ![o].pc = next, ![o].goal = goal]
          BY <3>2 DEF Arrive
      <4>1. t = [[[task[o] EXCEPT !.checked = FALSE] EXCEPT !.pc = next] EXCEPT !.goal = goal]
          BY DEF WithCheck, AtPlace, WithGoal
      <4>2. to \in (Active \ {"pending", "paused"}) \cup Terminal /\ (to = "complete" => local)
          BY <1>0 DEF Good
      <4>3. goal \in (Active \ {"pending", "paused"}) \cup Terminal /\ (goal = "complete" => to = "complete")
          BY <4>2 DEF Active, Terminal
      <4>4. next \in Places \ {"mark"}
        <5>1. CASE to \in Terminal  BY <5>1 DEF Places, Held, Terminal
        <5>2. CASE to \in {"connecting", "transferring", "verifying"}  BY <5>2 DEF Places, Held, Terminal
        <5> QED  BY <4>2, <5>1, <5>2 DEF Active
      <4> HIDE DEF goal, next
      <4>5. q \in Task /\ q.hit = task[o].hit  BY <1>0, FieldSet
      <4> HIDE DEF q
      <4>6. r \in Task /\ r.hit = task[o].hit /\ r.pc = next  BY <4>4, <4>5, FieldSet
      <4> HIDE DEF r
      <4>7. t \in Task /\ t.hit = r.hit /\ t.pc = r.pc /\ t.goal = goal
        <5>1. r \in Task /\ goal \in Active \cup Terminal  BY <4>3, <4>6
        <5> QED  BY <5>1, FieldSet
      <4> HIDE DEF t
      <4>8. Good(t, local)  BY <1>0, <4>2, <4>3, <4>4, <4>6, <4>7 DEF Good, Active, Terminal
      <4>9. task' \in [Opens -> Task] /\ task'[o] = t /\ \A p \in Opens : p # o => task'[p] = task[p]
        <5>1. task \in [Opens -> Task] /\ t \in Task  BY <1>0, <4>7 DEF TypeOK
        <5> QED  BY <4>0, <4>1, <5>1, SMT
      <4> QED  BY <4>8, <4>9 DEF Becomes
    <3>3. CASE task' = [task EXCEPT ![o].checked = FALSE, ![o].pc = AfterError(o)]
      <4> DEFINE next == AfterError(o)
                 q == WithCheck(task[o], FALSE)
                 t == AtPlace(q, next)
      <4>0. next \in Places \ {"mark"}  BY DEF AfterError, Places, Held
      <4>1. t = [[task[o] EXCEPT !.checked = FALSE] EXCEPT !.pc = next]  BY DEF WithCheck, AtPlace
      <4> HIDE DEF next
      <4>2. q \in Task /\ q.hit = task[o].hit /\ q.goal = task[o].goal  BY <1>0, FieldSet
      <4> HIDE DEF q
      <4>3. t \in Task /\ t.hit = task[o].hit /\ t.goal = task[o].goal /\ t.pc = next
          BY <4>0, <4>2, FieldSet
      <4> HIDE DEF t
      <4>4. Good(t, local)  BY <1>0, <4>0, <4>3 DEF Good
      <4>5. task' \in [Opens -> Task] /\ task'[o] = t /\ \A p \in Opens : p # o => task'[p] = task[p]
        <5>1. task \in [Opens -> Task] /\ t \in Task  BY <1>0, <4>3 DEF TypeOK
        <5>2. task' = [task EXCEPT ![o].checked = FALSE, ![o].pc = next]  BY <3>3 DEF next
        <5> QED  BY <4>1, <5>1, <5>2, SMT
      <4> QED  BY <4>4, <4>5 DEF Becomes
    <3> QED  BY <1>3, <3>1, <3>2, <3>3 DEF WriteState
  <2>2. Kept
    <3>1. claim' \in [Opens -> Opens \cup {Nobody}] /\ adopted' \subseteq Opens /\ cancelled' = cancelled
      <4>1. CASE UNCHANGED registry  BY <1>0, <4>1 DEF registry, TypeOK
      <4>2. CASE DropGuard(o)  BY <1>0, <4>2, GuardDrops
      <4> QED  BY <1>3, <4>1, <4>2 DEF WriteState
    <3>2. row' \in [Opens -> Active \cup Terminal \cup {"absent"}]
        BY <1>0, <1>3 DEF WriteState, TypeOK
    <3> QED  BY <1>0, <1>3, <3>1, <3>2 DEF WriteState, TypeOK, disk, outside
  <2>3. \A d \in Opens : row'[d] = "complete" => row[d] = "complete" \/ local
    <3>1. row' = row \/ row' = [row EXCEPT ![MyRow(o)] = task[o].goal]  BY <1>3 DEF WriteState
    <3> QED  BY <1>0, <3>1 DEF Good, TypeOK
  <2>4. local' = local  BY <1>3 DEF WriteState, disk
  <2> QED  BY <1>k, <2>1, <2>2, <2>3, <2>4
<1>4. CASE WriteChunk(o)
  <2>1. Becomes(o, local)  BY <1>0, <1>4 DEF WriteChunk, Becomes, TypeOK
  <2>2. Kept  BY <1>0, <1>4 DEF WriteChunk, TypeOK, db, registry, outside
  <2>3. row' = row /\ local' = local  BY <1>4 DEF WriteChunk, db
  <2> QED  BY <1>k, <2>1, <2>2, <2>3
<1>5. CASE AllVerified(o)
  <2>1. Becomes(o, local)  BY <1>0, <1>5, MoveGood DEF AllVerified, Active
  <2> QED  BY <1>0, <1>5, <2>1, SteadyGood DEF AllVerified, db, disk, registry, outside
<1>6. CASE Assemble(o)
  <2>1. Becomes(o, TRUE)  BY <1>0, <1>6, MoveGood DEF Assemble, Terminal
  <2>2. Kept  BY <1>0, <1>6 DEF Assemble, TypeOK, db, registry, outside
  <2>3. local' = TRUE  BY <1>6 DEF Assemble
  <2> QED  BY <1>k, <2>1, <2>2, <2>3
<1>7. CASE AssembleFails(o)
  <2>1. Becomes(o, local)  BY <1>0, <1>7, MoveGood DEF AssembleFails, Terminal
  <2> QED  BY <1>0, <1>7, <2>1, SteadyGood DEF AssembleFails, db, disk, registry, outside
<1>8. CASE RunFails(o)
  <2>1. Becomes(o, local)  BY <1>0, <1>8, GotoGood DEF RunFails, Places, Held
  <2> QED  BY <1>0, <1>8, <2>1, SteadyGood DEF RunFails, db, disk, registry, outside
<1>9. CASE RecordTerminal(o)
  <2>1. Becomes(o, local)
    <3>1. CASE Goto(o, "over")  BY <3>1, GotoGood DEF Places, Held
    <3>2. CASE Move(o, "cancelled")  BY <1>0, <3>2, MoveGood DEF Terminal
    <3>3. CASE Move(o, "failed")  BY <1>0, <3>3, MoveGood DEF Terminal
    <3> QED  BY <1>9, <3>1, <3>2, <3>3 DEF RecordTerminal
  <2> QED  BY <1>0, <1>9, <2>1, SteadyGood DEF RecordTerminal, db, disk, registry, outside
<1>10. CASE EndRun(o)
  <2>1. Becomes(o, local)  BY <1>0, <1>10, DoneGood DEF EndRun
  <2>2. Kept  BY <1>0, <1>10, GuardDrops DEF EndRun, TypeOK, db, outside
  <2>3. row' = row /\ local' = local  BY <1>10 DEF EndRun, db
  <2> QED  BY <1>k, <2>1, <2>2, <2>3
<1>11. CASE Panic(o)
  <2>1. Becomes(o, local)
    <3> DEFINE r == AtPlace(task[o], "panic")
               q == WithGoal(r, "failed")
               t == WithCheck(q, FALSE)
    <3>1. t = [[[task[o] EXCEPT !.pc = "panic"] EXCEPT !.goal = "failed"] EXCEPT !.checked = FALSE]
        BY DEF WithCheck, AtPlace, WithGoal
    <3>2. r \in Task /\ r.hit = task[o].hit /\ r.pc = "panic"  BY <1>0, FieldSet DEF Places, Held
    <3> HIDE DEF r
    <3>3. q \in Task /\ q.hit = r.hit /\ q.pc = r.pc /\ q.goal = "failed"
      <4>1. r \in Task /\ "failed" \in Active \cup Terminal  BY <3>2 DEF Terminal
      <4> QED  BY <4>1, FieldSet
    <3> HIDE DEF q
    <3>4. t \in Task /\ t.hit = q.hit /\ t.pc = q.pc /\ t.goal = q.goal  BY <3>3, FieldSet
    <3> HIDE DEF t
    <3>5. Good(t, local)  BY <1>0, <3>2, <3>3, <3>4 DEF Good
    <3>6. task' \in [Opens -> Task] /\ task'[o] = t /\ \A p \in Opens : p # o => task'[p] = task[p]
      <4>1. task \in [Opens -> Task] /\ t \in Task  BY <1>0, <3>4 DEF TypeOK
      <4> QED  BY <1>11, <3>1, <4>1, SMT DEF Panic
    <3> QED  BY <3>5, <3>6 DEF Becomes
  <2>2. troubles' \in 0 .. MaxTrouble  BY <1>0, <1>11, DownloadsAssumption DEF Panic, Trouble, DownloadsAssumption
  <2> QED  BY <1>0, <1>11, <2>1, <2>2, SteadyGood DEF Panic, db, disk, registry
<1> QED  BY <1>1, <1>2, <1>3, <1>4, <1>5, <1>6, <1>7, <1>8, <1>9, <1>10, <1>11 DEF RunStep

\* The room, the user, the disk and the process around them.
LEMMA OutsideGood ==
    ASSUME DownloadsInv,
           \/ \E d \in Opens, to \in {"paused", "transferring"} : PauseOrResume(d, to)
           \/ CancelAll \/ CancelToken \/ UserWrite \/ Import \/ Crash \/ UNCHANGED vars
    PROVE  DownloadsInv'
<1>0. TypeOK /\ FileInv  BY DEF DownloadsInv
<1>1. troubles' \in 0 .. MaxTrouble
    BY <1>0, DownloadsAssumption
       DEF DownloadsAssumption, TypeOK, PauseOrResume, CancelAll, CancelToken, UserWrite, Import, Crash,
           Trouble, outside, vars
<1>2. local' \in BOOLEAN /\ (local => local') /\ scratch' \subseteq Opens /\ born' \in Seq(Opens)
    BY <1>0 DEF TypeOK, PauseOrResume, CancelAll, CancelToken, UserWrite, Import, Crash, db, disk, vars
<1>3. claim' \in [Opens -> Opens \cup {Nobody}] /\ adopted' \subseteq Opens
    BY <1>0 DEF TypeOK, PauseOrResume, CancelAll, CancelToken, UserWrite, Import, Crash, registry, vars
<1>4. cancelled' \subseteq Tokens /\ leaving' \subseteq Tokens
  <2>1. CASE CancelAll
    <3>1. ASSUME NEW d \in {e \in Opens : claim[e] # Nobody}  PROVE TokenOf(d) \in Tokens
      <4>1. claim[d] \in Opens  BY <1>0 DEF TypeOK
      <4> QED  BY <4>1 DEF TokenOf, Tokens
    <3> QED  BY <1>0, <2>1, <3>1 DEF CancelAll, TypeOK, registry
  <2>2. CASE ~CancelAll
      BY <1>0, <2>2 DEF TypeOK, PauseOrResume, CancelToken, UserWrite, Import, Crash, registry, outside, vars
  <2> QED  BY <2>1, <2>2
<1>5. user' \in (Opens \X {"paused", "transferring"}) \cup {Nothing}
    BY <1>0 DEF TypeOK, PauseOrResume, CancelAll, CancelToken, UserWrite, Import, Crash, outside, vars
<1>6. /\ row' \in [Opens -> Active \cup Terminal \cup {"absent"}]
      /\ \A d \in Opens : row'[d] = "complete" => row[d] = "complete"
  <2>1. CASE UserWrite
    <3>1. user \in Opens \X {"paused", "transferring"}  BY <1>0, <2>1 DEF UserWrite, TypeOK
    <3>2. user[1] \in Opens /\ user[2] \in {"paused", "transferring"}  BY <3>1
    <3>3. row' = row \/ row' = [row EXCEPT ![user[1]] = user[2]]  BY <2>1 DEF UserWrite
    <3>4. row' \in [Opens -> Active \cup Terminal \cup {"absent"}]
        BY <1>0, <3>2, <3>3 DEF TypeOK, Active
    <3> QED  BY <1>0, <3>2, <3>3, <3>4 DEF TypeOK
  <2>2. CASE ~UserWrite
    <3>1. row' = row  BY <2>2 DEF PauseOrResume, CancelAll, CancelToken, Import, Crash, db, vars
    <3> QED  BY <1>0, <3>1 DEF TypeOK
  <2> QED  BY <2>1, <2>2
<1>7. task' \in [Opens -> Task] /\ \A p \in Opens : Good(task'[p], local')
  <2>1. CASE Crash
    <3> DEFINE t(p) == IF At(p, "idle") THEN task[p] ELSE [NewTask(p) EXCEPT !.pc = "done"]
    <3>1. ASSUME NEW p \in Opens  PROVE t(p) \in Task /\ Good(t(p), local)
      <4> DEFINE r == NewTask(p)
                 u == AtPlace(r, "done")
      <4>1. r \in Task /\ ~r.hit /\ r.goal = "connecting"  BY NewTyped DEF NewTask
      <4>2. [NewTask(p) EXCEPT !.pc = "done"] = u  BY DEF AtPlace
      <4> HIDE DEF r
      <4>3. u \in Task /\ ~u.hit /\ u.goal = "connecting" /\ u.pc = "done"  BY <4>1, FieldSet DEF Places
      <4> HIDE DEF u
      <4>4. Good(u, local)  BY <4>3 DEF Good
      <4>5. task[p] \in Task /\ Good(task[p], local)  BY OwnGood
      <4> QED  BY <4>2, <4>3, <4>4, <4>5
    <3>2. task' = [p \in Opens |-> t(p)] /\ local' = local  BY <2>1 DEF Crash, disk
    <3> HIDE DEF t
    <3> QED  BY <3>1, <3>2
  <2>2. CASE ~Crash
    <3>1. task' = task  BY <2>2 DEF PauseOrResume, CancelAll, CancelToken, UserWrite, Import, vars
    <3>2. \A p \in Opens : Good(task[p], local)  BY OwnGood
    <3> QED  BY <1>0, <1>2, <3>1, <3>2 DEF TypeOK, Good
  <2> QED  BY <2>1, <2>2
<1>8. TypeOK'  BY <1>1, <1>2, <1>3, <1>4, <1>5, <1>6, <1>7 DEF TypeOK
<1>9. CompleteHasFile'  BY <1>0, <1>2, <1>6 DEF FileInv, CompleteHasFile
<1> QED  BY <1>7, <1>8, <1>9 DEF DownloadsInv, FileInv, Good, At

\* DownloadsInv is an invariant of the downloads of one media.
THEOREM DownloadsInvariant == Spec => []DownloadsInv
<1>1. DownloadsInv /\ [Next]_vars => DownloadsInv'
  <2> SUFFICES ASSUME DownloadsInv, [Next]_vars  PROVE DownloadsInv'  OBVIOUS
  <2>1. CASE \E o \in Opens : OpenStep(o) \/ Refused(o) \/ SetupEnds(o)  BY <2>1, OpenStepGood
  <2>2. CASE \E o \in Opens : RunStep(o) \/ RunFails(o) \/ AssembleFails(o) \/ Panic(o)
      BY <2>2, RunStepGood
  <2>3. CASE \/ \E d \in Opens, to \in {"paused", "transferring"} : PauseOrResume(d, to)
             \/ CancelAll \/ CancelToken \/ UserWrite \/ Import \/ Crash \/ UNCHANGED vars
      BY <2>3, OutsideGood
  <2> QED  BY <2>1, <2>2, <2>3 DEF Next
<1> QED  BY <1>1, DownloadsInit, PTL DEF Spec

\* A row that says complete has its content in the library.
THEOREM CompleteMeansFile == Spec => []CompleteHasFile
<1>1. DownloadsInv => CompleteHasFile  BY DEF DownloadsInv, FileInv
<1> QED  BY <1>1, DownloadsInvariant, PTL

==============================================================================
