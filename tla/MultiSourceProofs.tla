-------------------------- MODULE MultiSourceProofs --------------------------
(* Theorems about MultiSource, for any file, any number of peers, any bounds  *)
(* and any number of troubles: what the rows call verified is on disk, a      *)
(* download is the atomic fetch of FileFetch, and one bad peer among several  *)
(* never costs a chunk its retry budget.                                      *)
EXTENDS MultiSource, FiniteSetTheorems, WellFoundedInduction, TLAPS

-----------------------------------------------------------------------------
(* The inductive invariant.                                                   *)

\* A run and its row end together.
RowFollowsRun == pc = "end" <=> row \notin Live

\* From the last chunk on every chunk is verified, and the file is in the
\* library from the assembly on.
AssemblyHasAll ==
    /\ pc \in {"assemble", "publish"} => row = "verifying" /\ verified = Chunks
    /\ pc = "publish" => library
    /\ library => pc \in {"publish", "down", "end"} /\ verified = Chunks
    /\ row = "complete" => library
    /\ library /\ row \notin Live => row = "complete"

\* A verified chunk is not asked for again.
AskedOnce == \A c \in Chunks : inflight[c] # NoSource => c \notin verified

\* What is being stored was asked of the peer it came from, and a chunk found
\* overdue is still in flight.
WorkIsInFlight ==
    /\ pc = "write" => writing # Idle /\ inflight[writing[1]] = writing[2]
    /\ pc = "stuck" => aged \subseteq InFlight

StoreInv == /\ TypeOK /\ RowFollowsRun /\ AssemblyHasAll /\ AskedOnce
            /\ WorkIsInFlight /\ VerifiedOnDisk

-----------------------------------------------------------------------------
(* The types, component by component.                                         *)

RunTypes ==
    /\ row \in Live \cup {"complete", "failed", "cancelled"}
    /\ why \in Reasons
    /\ verified \subseteq Chunks
    /\ file \in [Chunks -> {"none", "torn", "good"}]
    /\ library \in BOOLEAN
    /\ pc \in {"start", "refill", "stuck", "wait", "write", "assemble",
               "publish", "end", "down"}
    /\ aged \subseteq Chunks
    /\ writing \in (Chunks \X Sources) \cup {Idle}
    /\ unavailable \subseteq Sources

BudgetTypes ==
    /\ inflight \in [Chunks -> Sources \cup {NoSource}]
    /\ retries \in [Chunks -> Nat]
    /\ tried \in [Chunks -> SUBSET Sources]
    /\ nak \in [Chunks -> [Sources -> Nat]]
    /\ stuck \in [Chunks -> [Sources -> Nat]]
    /\ slots \in [Sources -> SUBSET Chunks]

WireTypes ==
    /\ closed \subseteq Sources
    /\ serving \in [Sources -> {"hello", "serve", "gone"}]
    /\ have \in [Sources -> SUBSET Chunks]
    /\ toSrc \in [Sources -> Seq(ToFrames)]
    /\ fromSrc \in [Sources -> Seq(FromFrames)]

CounterTypes == late \in 0..troubles /\ troubles \in 0..MaxTrouble

LEMMA TypesSplit == TypeOK <=> RunTypes /\ BudgetTypes /\ WireTypes /\ CounterTypes
BY DEF TypeOK, RunTypes, BudgetTypes, WireTypes, CounterTypes

LEMMA TypesSplitPrimed == TypeOK' <=> RunTypes' /\ BudgetTypes' /\ WireTypes' /\ CounterTypes'
BY DEF TypeOK, RunTypes, BudgetTypes, WireTypes, CounterTypes

\* A group of variables a step leaves alone keeps its types.
LEMMA Untouched ==
    /\ BudgetTypes /\ UNCHANGED budget => BudgetTypes'
    /\ WireTypes /\ UNCHANGED wire => WireTypes'
    /\ CounterTypes /\ UNCHANGED counters => CounterTypes'
BY DEF BudgetTypes, WireTypes, CounterTypes, budget, wire, counters

\* A trouble is counted within its bound.
LEMMA TroubleCounted ==
    /\ CounterTypes /\ Trouble /\ UNCHANGED late => CounterTypes'
    /\ CounterTypes /\ UNCHANGED counters => CounterTypes'
    /\ \A is \in BOOLEAN : CounterTypes /\ Late(is) => CounterTypes'
<1>1. MaxTrouble \in Nat
  BY BoundsAssumption DEF BoundsAssumption
<1>2. CounterTypes /\ Trouble /\ UNCHANGED late => CounterTypes'
  BY <1>1 DEF CounterTypes, Trouble
<1>4. CounterTypes /\ UNCHANGED counters => CounterTypes'
  BY DEF CounterTypes, counters
<1>3. ASSUME NEW is \in BOOLEAN, CounterTypes, Late(is) PROVE CounterTypes'
  <2>1. CASE is
    BY <1>1, <1>3, <2>1 DEF CounterTypes, Trouble, Late
  <2>2. CASE ~is
    BY <1>3, <2>2 DEF CounterTypes, Late, counters
  <2> QED
    BY <2>1, <2>2
<1> QED
  BY <1>2, <1>3, <1>4

\* Sending keeps a channel a sequence of frames.
LEMMA SentIsTyped ==
    ASSUME WireTypes, NEW s \in Sources, NEW f \in ToFrames
    PROVE  Sent(toSrc, s, f) \in [Sources -> Seq(ToFrames)]
<1>1. Append(toSrc[s], f) \in Seq(ToFrames)
  BY DEF WireTypes
<1> QED
  BY <1>1 DEF Sent, WireTypes

\* Frames are what their kind says.
LEMMA FramesToPeers ==
    /\ \A c \in Chunks, k \in {"request", "ack", "nak"} : [kind |-> k, chunk |-> c] \in ToFrames
    /\ \A H \in SUBSET Chunks : [kind |-> "hello", have |-> H] \in ToFrames
    /\ \A f \in ToFrames : f.kind \in {"request", "ack", "nak"} => f.chunk \in Chunks
    /\ \A f \in ToFrames : f.kind = "hello" => f.have \subseteq Chunks
BY DEF ToFrames

LEMMA FramesFromPeers ==
    /\ \A c \in Chunks, g \in BOOLEAN : [kind |-> "chunk", chunk |-> c, good |-> g] \in FromFrames
    /\ \A c \in Chunks : [kind |-> "nak", chunk |-> c] \in FromFrames
    /\ [kind |-> "error"] \in FromFrames /\ [kind |-> "cancel"] \in FromFrames
    /\ \A f \in FromFrames : f.kind \in {"chunk", "nak"} => f.chunk \in Chunks
BY DEF FromFrames

LEMMA HeadIsTyped ==
    ASSUME WireTypes, NEW s \in Sources
    PROVE  /\ fromSrc[s] # <<>> => Head(fromSrc[s]) \in FromFrames
           /\ Tail(fromSrc[s]) \in Seq(FromFrames) \/ fromSrc[s] = <<>>
           /\ toSrc[s] # <<>> => Head(toSrc[s]) \in ToFrames
           /\ Tail(toSrc[s]) \in Seq(ToFrames) \/ toSrc[s] = <<>>
BY DEF WireTypes

\* A frame received leaves the rest of its channel.
LEMMA ReceivedIsTyped ==
    ASSUME WireTypes, NEW s \in Sources, NEW k, Received(s, k)
    PROVE  /\ pc = "wait" /\ fromSrc' \in [Sources -> Seq(FromFrames)]
           /\ k \in {"chunk", "nak"} => Head(fromSrc[s]).chunk \in Chunks
BY HeadIsTyped, FramesFromPeers DEF WireTypes, Received

LEMMA HeardIsTyped ==
    ASSUME WireTypes, NEW s \in Sources, NEW k, Heard(s, k)
    PROVE  /\ pc \notin {"end", "down"} /\ toSrc' \in [Sources -> Seq(ToFrames)]
           /\ k \in {"request", "ack", "nak"} => Head(toSrc[s]).chunk \in Chunks
           /\ k = "hello" => Head(toSrc[s]).have \subseteq Chunks
BY HeadIsTyped, FramesToPeers DEF WireTypes, Heard

\* A NAK keeps the types, and takes nothing into flight.
LEMMA NakIsTyped ==
    ASSUME BudgetTypes, NEW c \in Chunks, NEW s \in Sources, NEW bad \in BOOLEAN,
           ApplyNak(c, s, bad)
    PROVE  /\ BudgetTypes'
           /\ \A d \in Chunks : inflight'[d] \in {inflight[d], NoSource}
           /\ \A d \in Chunks \ {c} : inflight'[d] = inflight[d]
<1>1. inflight' \in [Chunks -> Sources \cup {NoSource}]
      /\ (\A d \in Chunks : inflight'[d] \in {inflight[d], NoSource})
      /\ \A d \in Chunks \ {c} : inflight'[d] = inflight[d]
  BY DEF ApplyNak, BudgetTypes
<1>2. retries' \in [Chunks -> Nat]
  BY DEF ApplyNak, BudgetTypes
<1>3. tried' \in [Chunks -> SUBSET Sources]
  BY DEF ApplyNak, BudgetTypes
<1>4. nak' \in [Chunks -> [Sources -> Nat]]
  BY DEF ApplyNak, BudgetTypes
<1>5. stuck' \in [Chunks -> [Sources -> Nat]]
  BY DEF ApplyNak, BudgetTypes
<1>6. slots' \in [Sources -> SUBSET Chunks]
  BY DEF ApplyNak, BudgetTypes, Released
<1> QED
  BY <1>1, <1>2, <1>3, <1>4, <1>5, <1>6 DEF BudgetTypes

-----------------------------------------------------------------------------
(* What most steps do to the run: carry on, or end it.                        *)

Control == RowFollowsRun /\ AssemblyHasAll /\ AskedOnce /\ WorkIsInFlight /\ VerifiedOnDisk

\* The run, its row and its chunks are in order, and the step is one of the
\* promise's.
Good == RunTypes' /\ Control' /\ [Fetch!Next]_Fetch!vars

Working == {"start", "refill", "stuck", "wait", "write"}

LEMMA Controlled == StoreInv <=> RunTypes /\ BudgetTypes /\ WireTypes /\ CounterTypes /\ Control
BY TypesSplit DEF StoreInv, Control

LEMMA KeptRun ==
    ASSUME StoreInv, NEW p \in {"refill", "stuck", "wait"}, Keep(p), pc \in Working,
           UNCHANGED <<verified, library>>,
           aged' \subseteq Chunks, unavailable' \subseteq Sources,
           \A d \in Chunks : inflight'[d] # NoSource => d \notin verified,
           p = "stuck" => aged' \subseteq InFlight'
    PROVE  Good
<1>1. RunTypes'
  BY Controlled DEF Keep, RunTypes
<1>2. Control'
  BY DEF Control, StoreInv, Keep, RowFollowsRun, AssemblyHasAll, AskedOnce, WorkIsInFlight,
         VerifiedOnDisk, Working, Live
<1>3. UNCHANGED Fetch!vars
  BY DEF Keep, Fetch!vars
<1> QED
  BY <1>1, <1>2, <1>3 DEF Good

LEMMA EndedRun ==
    ASSUME StoreInv, NEW st \in {"failed", "cancelled"}, NEW r \in Reasons, EndRun(st, r),
           pc \in Working \cup {"assemble"},
           UNCHANGED <<verified, library>>, unavailable' \subseteq Sources,
           \A d \in Chunks : inflight'[d] # NoSource => d \notin verified
    PROVE  Good
<1>1. RunTypes'
  BY Controlled DEF EndRun, RunTypes
<1>2. ~library /\ row \in Live
  BY DEF StoreInv, RowFollowsRun, AssemblyHasAll, Working
<1>3. Control'
  BY <1>2 DEF Control, StoreInv, EndRun, RowFollowsRun, AssemblyHasAll, AskedOnce, WorkIsInFlight,
         VerifiedOnDisk, Live
<1>4. row' \in {"failed", "cancelled"} /\ row \notin {"complete", "failed", "cancelled"} /\ ~library
  BY <1>2 DEF EndRun, Live
<1>5. Fetch!Abort
  BY <1>4 DEF Fetch!Abort
<1> QED
  BY <1>1, <1>3, <1>5 DEF Good, Fetch!Next

\* A least pending chunk is a pending chunk.
LEMMA DispatchedIsPending == ASSUME Dispatchable # {} PROVE Min(Dispatchable) \in Pending
<1>1. Dispatchable \subseteq Nat /\ Dispatchable \subseteq Pending
  BY BoundsAssumption DEF BoundsAssumption, Dispatchable, Pending
<1>2. \E x \in Dispatchable : \A y \in Dispatchable : ~(<<y, x>> \in OpToRel(<, Nat))
  BY <1>1, NatLessThanWellFounded, WFMin
<1>3. PICK x \in Dispatchable : \A y \in Dispatchable : ~(<<y, x>> \in OpToRel(<, Nat))
  BY <1>2
<1>4. ASSUME NEW y \in Dispatchable PROVE x =< y
  <2>1. x \in Nat /\ y \in Nat
    BY <1>1
  <2>2. ~(y < x)
    BY <1>3, <2>1 DEF OpToRel
  <2> QED
    BY <2>1, <2>2
<1>5. Min(Dispatchable) \in Dispatchable
  BY <1>4 DEF Min
<1> QED
  BY <1>1, <1>5

-----------------------------------------------------------------------------
(* Every step of the system.                                                  *)

LEMMA StepIsGood == ASSUME StoreInv, [Next]_vars PROVE TypeOK' /\ Control' /\ [Fetch!Next]_Fetch!vars
<1> RunTypes /\ BudgetTypes /\ WireTypes /\ CounterTypes /\ Control
  BY Controlled
<1> DEFINE Budgeted == BudgetTypes' /\ WireTypes' /\ CounterTypes'
<1>0. \A d \in Chunks : inflight[d] # NoSource => d \notin verified
  BY DEF Control, AskedOnce
<1>1. CASE Start
  <2>1. CASE closed # {}
    <3>1. Budgeted
      BY <1>1, <2>1, Untouched DEF Start, wire
    <3>2. Good
      BY <1>0, <1>1, <2>1, EndedRun DEF Start, Working, Reasons, RunTypes, budget
    <3> QED
      BY <3>1, <3>2, TypesSplitPrimed DEF Good
  <2>2. CASE closed = {}
    <3>0. [kind |-> "hello", have |-> verified] \in ToFrames
      BY FramesToPeers DEF RunTypes
    <3> DEFINE h == [kind |-> "hello", have |-> verified]
    <3>8. \A s \in Sources : toSrc[s] \in Seq(ToFrames) /\ Append(toSrc[s], h) \in Seq(ToFrames)
      BY <3>0 DEF WireTypes
    <3>9. toSrc' = [s \in Sources |-> IF serving[s] = "gone" THEN toSrc[s] ELSE Append(toSrc[s], h)]
      BY <1>1, <2>2 DEF Start
    <3>1. toSrc' \in [Sources -> Seq(ToFrames)]
      BY <3>8, <3>9
    <3>2. Budgeted
      BY <1>1, <3>1, Untouched DEF Start, WireTypes
    <3>3. RunTypes'
      BY <1>1, <2>2 DEF Start, RunTypes, Live
    <3>4. Control'
      BY <1>1, <2>2 DEF Start, Control, RowFollowsRun, AssemblyHasAll, AskedOnce, WorkIsInFlight,
                        VerifiedOnDisk, Live, budget
    <3>5. row \in Live /\ row' \in Live /\ UNCHANGED <<verified, library>>
      BY <1>1, <2>2 DEF Start, Control, RowFollowsRun, Live
    <3>6. UNCHANGED Fetch!vars
      BY <3>5 DEF Fetch!vars, Live
    <3> QED
      BY <3>2, <3>3, <3>4, <3>6, TypesSplitPrimed
  <2> QED
    BY <2>1, <2>2
<1>2. CASE Recover
  <2>1. Budgeted
    BY <1>2, Untouched DEF Recover
  <2>2. RunTypes'
    BY <1>2 DEF Recover, RunTypes, durable
  <2>3. Control'
    BY <1>2 DEF Recover, Control, RowFollowsRun, AssemblyHasAll, AskedOnce, WorkIsInFlight,
                VerifiedOnDisk, budget, durable
  <2>4. UNCHANGED Fetch!vars
    BY <1>2 DEF Recover, durable, Fetch!vars
  <2> QED
    BY <2>1, <2>2, <2>3, <2>4, TypesSplitPrimed
<1>3. CASE Dispatch
  <2> DEFINE c == Min(Dispatchable)
  <2>1. c \in Chunks /\ c \notin verified /\ pc = "refill" /\ UNCHANGED <<verified, library, unavailable>>
    BY <1>3, DispatchedIsPending DEF Dispatch, Pending
  <2> HIDE DEF c
  <2>2. CASE EndRun("failed", "exhausted") /\ UNCHANGED <<inflight, slots, toSrc>>
    <3>1. Good
      BY <1>0, <1>3, <2>1, <2>2, EndedRun DEF Working, Reasons, RunTypes
    <3>2. Budgeted
      BY <1>3, <2>2, Untouched DEF Dispatch, budget, wire
    <3> QED
      BY <3>1, <3>2, TypesSplitPrimed DEF Good
  <2>3. CASE EndRun("cancelled", "transport") /\ UNCHANGED <<inflight, slots, toSrc>>
    <3>1. Good
      BY <1>0, <1>3, <2>1, <2>3, EndedRun DEF Working, Reasons, RunTypes
    <3>2. Budgeted
      BY <1>3, <2>3, Untouched DEF Dispatch, budget, wire
    <3> QED
      BY <3>1, <3>2, TypesSplitPrimed DEF Good
  <2>4. ASSUME NEW s \in Sources,
               slots' = [slots EXCEPT ![s] = @ \cup {c}],
               inflight' = [inflight EXCEPT ![c] = s],
               toSrc' = Sent(toSrc, s, [kind |-> "request", chunk |-> c]),
               Keep("refill"), UNCHANGED aged
        PROVE  Good /\ Budgeted
    <3>1. \A d \in Chunks : inflight'[d] # NoSource => d \notin verified
      BY <1>0, <2>1, <2>4 DEF BudgetTypes
    <3>2. Good
      BY <2>1, <2>4, <3>1, KeptRun DEF Working, RunTypes
    <3>3. toSrc' \in [Sources -> Seq(ToFrames)]
      BY <2>1, <2>4, SentIsTyped, FramesToPeers
    <3>4. Budgeted
      BY <1>3, <2>1, <2>4, <3>3, Untouched DEF Dispatch, BudgetTypes, WireTypes
    <3> QED
      BY <3>2, <3>4
  <2> QED
    BY <1>3, <2>2, <2>3, <2>4, TypesSplitPrimed DEF Dispatch, Good, c
<1>4. CASE EndRefill
  <2>1. PICK old \in SUBSET InFlight :
          /\ Late(old # aged) /\ aged' = old /\ Keep(IF old = {} THEN "wait" ELSE "stuck")
    BY <1>4 DEF EndRefill
  <2>2. Budgeted
    BY <1>4, <2>1, Untouched, TroubleCounted DEF EndRefill
  <2>3. InFlight' = InFlight /\ InFlight \subseteq Chunks
    BY <1>4 DEF EndRefill, InFlight, budget
  <2>4. Good
    BY <1>0, <1>4, <2>1, <2>3, KeptRun DEF EndRefill, Working, RunTypes, budget
  <2> QED
    BY <2>2, <2>4, TypesSplitPrimed DEF Good
<1>5. CASE Tick
  <2>1. Budgeted
    BY <1>5, Untouched, TroubleCounted DEF Tick
  <2>2. Good
    BY <1>0, <1>5, KeptRun DEF Tick, Working, RunTypes, budget, InFlight
  <2> QED
    BY <2>1, <2>2, TypesSplitPrimed DEF Good
<1>6. ASSUME NEW c \in Chunks, StuckChunk(c) PROVE Good /\ Budgeted
  <2> DEFINE s == inflight[c]
  <2>1. s \in Sources /\ pc = "stuck" /\ aged \subseteq InFlight /\ c \in aged
        /\ UNCHANGED <<verified, library, unavailable>>
    BY <1>6 DEF StuckChunk, Control, WorkIsInFlight, InFlight, BudgetTypes
  <2>2. toSrc' = Sent(toSrc, s, [kind |-> "request", chunk |-> c])
    BY <1>6 DEF StuckChunk
  <2>3. toSrc' \in [Sources -> Seq(ToFrames)]
    BY <2>1, <2>2, SentIsTyped, FramesToPeers
  <2>4. WireTypes' /\ CounterTypes'
    BY <1>6, <2>3, Untouched DEF StuckChunk, WireTypes
  <2>5. ASSUME BudgetTypes', \A d \in Chunks : inflight'[d] \in {inflight[d], NoSource},
               \A d \in Chunks \ {c} : inflight'[d] = inflight[d],
               Keep(IF aged = {c} THEN "wait" ELSE "stuck"), aged' = aged \ {c}
        PROVE  Good
    <3>1. aged' \subseteq InFlight'
      BY <2>1, <2>5 DEF InFlight
    <3>2. \A d \in Chunks : inflight'[d] # NoSource => d \notin verified
      BY <1>0, <2>5
    <3> QED
      BY <2>1, <2>5, <3>1, <3>2, KeptRun DEF Working, RunTypes
  <2>6. CASE /\ stuck' = [stuck EXCEPT ![c][s] = @ + 1]
             /\ Keep(IF aged = {c} THEN "wait" ELSE "stuck") /\ aged' = aged \ {c}
             /\ UNCHANGED <<retries, tried, nak, slots, inflight>>
    <3>1. BudgetTypes'
      BY <2>1, <2>6 DEF BudgetTypes
    <3>2. Good
      BY <2>5, <2>6, <3>1
    <3> QED
      BY <2>4, <3>1, <3>2
  <2>7. CASE ApplyNak(c, s, FALSE) /\ EndRun("failed", "exhausted")
    <3>1. BudgetTypes' /\ \A d \in Chunks : inflight'[d] \in {inflight[d], NoSource}
      BY <2>1, <2>7, NakIsTyped
    <3>2. Good
      BY <1>0, <2>1, <2>7, <3>1, EndedRun DEF Working, Reasons, RunTypes
    <3> QED
      BY <2>4, <3>1, <3>2
  <2>8. CASE ApplyNak(c, s, FALSE) /\ Keep(IF aged = {c} THEN "wait" ELSE "stuck") /\ aged' = aged \ {c}
    <3>1. BudgetTypes' /\ (\A d \in Chunks : inflight'[d] \in {inflight[d], NoSource})
          /\ \A d \in Chunks \ {c} : inflight'[d] = inflight[d]
      BY <2>1, <2>8, NakIsTyped
    <3>2. Good
      BY <2>5, <2>8, <3>1
    <3> QED
      BY <2>4, <3>1, <3>2
  <2> QED
    BY <1>6, <2>6, <2>7, <2>8 DEF StuckChunk
<1>7. ASSUME NEW s \in Sources, UnexpectedChunk(s) PROVE Good /\ Budgeted
  <2>1. /\ pc = "wait" /\ fromSrc' \in [Sources -> Seq(FromFrames)]
        /\ Head(fromSrc[s]).chunk \in Chunks
    BY <1>7, ReceivedIsTyped DEF UnexpectedChunk
  <2>2. toSrc' \in [Sources -> Seq(ToFrames)]
    BY <1>7, <2>1, SentIsTyped, FramesToPeers DEF UnexpectedChunk
  <2>3. Budgeted
    BY <1>7, <2>1, <2>2, Untouched DEF UnexpectedChunk, WireTypes
  <2>4. Good
    BY <1>0, <1>7, <2>1, KeptRun DEF UnexpectedChunk, Working, RunTypes, budget
  <2> QED
    BY <2>3, <2>4
<1>8. ASSUME NEW s \in Sources, BadChunk(s) PROVE Good /\ Budgeted
  <2> DEFINE c == Head(fromSrc[s]).chunk
  <2>1. /\ pc = "wait" /\ fromSrc' \in [Sources -> Seq(FromFrames)]
        /\ c \in Chunks
    BY <1>8, ReceivedIsTyped DEF BadChunk
  <2>2. ApplyNak(c, s, TRUE)
    BY <1>8 DEF BadChunk
  <2>3. BudgetTypes' /\ \A d \in Chunks : inflight'[d] \in {inflight[d], NoSource}
    BY <2>1, <2>2, NakIsTyped
  <2>4. Sent(toSrc, s, [kind |-> "nak", chunk |-> c]) \in [Sources -> Seq(ToFrames)]
    BY <2>1, SentIsTyped, FramesToPeers
  <2>5. toSrc' \in [Sources -> Seq(ToFrames)]
    BY <1>8, <2>4 DEF BadChunk, WireTypes
  <2>6. Budgeted
    BY <1>8, <2>1, <2>3, <2>5, Untouched DEF BadChunk, WireTypes
  <2>7. CASE EndRun("failed", "exhausted")
    BY <1>0, <1>8, <2>1, <2>3, <2>6, <2>7, EndedRun DEF BadChunk, Working, Reasons, RunTypes
  <2>8. CASE Keep("refill") /\ UNCHANGED aged
    BY <1>0, <1>8, <2>1, <2>3, <2>6, <2>8, KeptRun DEF BadChunk, Working, RunTypes
  <2> QED
    BY <1>8, <2>7, <2>8 DEF BadChunk
<1>9. ASSUME NEW s \in Sources, WriteChunk(s) PROVE Good /\ Budgeted
  <2> DEFINE c == Head(fromSrc[s]).chunk
  <2>1. /\ pc = "wait" /\ fromSrc' \in [Sources -> Seq(FromFrames)]
        /\ c \in Chunks /\ inflight[c] = s
    BY <1>9, ReceivedIsTyped DEF WriteChunk
  <2>2. /\ file' = [file EXCEPT ![c] = "torn"] /\ writing' = <<c, s>> /\ pc' = "write"
        /\ UNCHANGED <<row, why, verified, library, aged, inflight, unavailable>>
    BY <1>9 DEF WriteChunk, budget
  <2> HIDE DEF c
  <2>3. Budgeted
    BY <1>9, <2>1, Untouched DEF WriteChunk, WireTypes
  <2>4. RunTypes'
    BY <2>1, <2>2 DEF RunTypes
  <2>5. c \notin verified
    BY <1>0, <2>1, BoundsAssumption DEF BoundsAssumption, NoSource
  <2>6. RowFollowsRun' /\ AssemblyHasAll' /\ AskedOnce'
    BY <2>1, <2>2 DEF Control, RowFollowsRun, AssemblyHasAll, AskedOnce, Live
  <2>7. WorkIsInFlight'
    BY <2>1, <2>2 DEF WorkIsInFlight, Idle
  <2>8. VerifiedOnDisk'
    BY <2>1, <2>2, <2>5 DEF Control, VerifiedOnDisk, RunTypes
  <2>9. UNCHANGED Fetch!vars
    BY <2>2 DEF Fetch!vars
  <2> QED
    BY <2>3, <2>4, <2>6, <2>7, <2>8, <2>9 DEF Good, Control
<1>10. ASSUME NEW s \in Sources, NakFrame(s) PROVE Good /\ Budgeted
  <2> DEFINE c == Head(fromSrc[s]).chunk
  <2>1. /\ pc = "wait" /\ fromSrc' \in [Sources -> Seq(FromFrames)]
        /\ c \in Chunks
    BY <1>10, ReceivedIsTyped DEF NakFrame
  <2>2. ApplyNak(c, s, FALSE)
    BY <1>10 DEF NakFrame
  <2>3. BudgetTypes' /\ \A d \in Chunks : inflight'[d] \in {inflight[d], NoSource}
    BY <2>1, <2>2, NakIsTyped
  <2>4. Sent(toSrc, s, [kind |-> "nak", chunk |-> c]) \in [Sources -> Seq(ToFrames)]
    BY <2>1, SentIsTyped, FramesToPeers
  <2>5. toSrc' \in [Sources -> Seq(ToFrames)]
    BY <1>10, <2>4 DEF NakFrame, WireTypes
  <2>6. Budgeted
    BY <1>10, <2>1, <2>3, <2>5, Untouched DEF NakFrame, WireTypes
  <2>7. CASE EndRun("failed", "exhausted")
    BY <1>0, <1>10, <2>1, <2>3, <2>6, <2>7, EndedRun DEF NakFrame, Working, Reasons, RunTypes
  <2>8. CASE Keep("refill") /\ UNCHANGED aged
    BY <1>0, <1>10, <2>1, <2>3, <2>6, <2>8, KeptRun DEF NakFrame, Working, RunTypes
  <2> QED
    BY <1>10, <2>7, <2>8 DEF NakFrame
<1>11. ASSUME NEW s \in Sources, PeerEnds(s) PROVE Good /\ Budgeted
  <2>1. pc = "wait" /\ fromSrc' \in [Sources -> Seq(FromFrames)]
    BY <1>11, ReceivedIsTyped DEF PeerEnds
  <2>2. Budgeted
    BY <1>11, <2>1, Untouched DEF PeerEnds, WireTypes
  <2>3. Good
    BY <1>0, <1>11, <2>1, EndedRun DEF PeerEnds, Working, Reasons, RunTypes, budget
  <2> QED
    BY <2>2, <2>3
<1>12. CASE MarkChunk
  <2> DEFINE c == writing[1]
             s == writing[2]
  <2>1. pc = "write" /\ c \in Chunks /\ s \in Sources /\ inflight[c] = s
    BY <1>12 DEF MarkChunk, Control, WorkIsInFlight, RunTypes
  <2>2. /\ file' = [file EXCEPT ![c] = "good"] /\ verified' = verified \cup {c}
        /\ inflight' = [inflight EXCEPT ![c] = NoSource]
        /\ nak' = [nak EXCEPT ![c][s] = 0] /\ stuck' = [stuck EXCEPT ![c][s] = 0]
        /\ slots' = [slots EXCEPT ![s] = @ \ {c}]
        /\ toSrc' = Sent(toSrc, s, [kind |-> "ack", chunk |-> c])
        /\ (Late(FALSE) /\ UNCHANGED unavailable) \/ (Late(TRUE) /\ unavailable' = unavailable \cup {s})
        /\ writing' = Idle /\ pc' = "refill"
        /\ UNCHANGED <<row, why, library, aged, retries, tried, closed, serving, have, fromSrc>>
    BY <1>12 DEF MarkChunk
  <2> HIDE DEF c, s
  <2>3. toSrc' \in [Sources -> Seq(ToFrames)]
    BY <2>1, <2>2, SentIsTyped, FramesToPeers
  <2>4. BudgetTypes'
    BY <2>1, <2>2 DEF BudgetTypes
  <2>5. Budgeted
    BY <2>2, <2>3, <2>4, TroubleCounted DEF WireTypes
  <2>6. RunTypes'
    BY <2>1, <2>2 DEF RunTypes
  <2>7. ~library /\ row \in Live
    BY <2>1 DEF Control, RowFollowsRun, AssemblyHasAll
  <2>8. RowFollowsRun' /\ AssemblyHasAll' /\ WorkIsInFlight'
    BY <2>2, <2>7 DEF RowFollowsRun, AssemblyHasAll, WorkIsInFlight, Live
  <2>9. AskedOnce'
    BY <1>0, <2>1, <2>2 DEF AskedOnce, BudgetTypes
  <2>10. VerifiedOnDisk'
    BY <2>1, <2>2, <2>7 DEF Control, VerifiedOnDisk, RunTypes
  <2>11. Fetch!Fetch(c)
    BY <2>2, <2>7 DEF Fetch!Fetch, Live
  <2> QED
    BY <2>1, <2>5, <2>6, <2>8, <2>9, <2>10, <2>11, TypesSplitPrimed DEF Control, Fetch!Next
<1>13. CASE StoreFails \/ Cancel
  <2>1. Budgeted
    BY <1>13, Untouched, TroubleCounted DEF StoreFails, Cancel
  <2>2. Good
    BY <1>0, <1>13, EndedRun DEF StoreFails, Cancel, Working, Reasons, RunTypes, budget
  <2> QED
    BY <2>1, <2>2, TypesSplitPrimed DEF Good
<1>14. CASE AllSourcesGone
  <2>1. Budgeted
    BY <1>14, Untouched DEF AllSourcesGone
  <2>2. Good
    BY <1>0, <1>14, EndedRun DEF AllSourcesGone, Working, Reasons, RunTypes, budget
  <2> QED
    BY <2>1, <2>2, TypesSplitPrimed DEF Good
<1>15. CASE AllVerified
  <2>1. Budgeted
    BY <1>15, Untouched DEF AllVerified
  <2>2. RunTypes'
    BY <1>15 DEF AllVerified, RunTypes, Live
  <2>3. row \in Live /\ ~library /\ row' = "verifying" /\ UNCHANGED <<verified, library, file, inflight>>
    BY <1>15 DEF AllVerified, Control, RowFollowsRun, AssemblyHasAll, budget
  <2>4. Control'
    BY <1>15, <2>3 DEF AllVerified, Control, RowFollowsRun, AssemblyHasAll, AskedOnce, WorkIsInFlight,
                       VerifiedOnDisk, Live
  <2>5. UNCHANGED Fetch!vars
    BY <2>3 DEF Fetch!vars, Live
  <2> QED
    BY <2>1, <2>2, <2>4, <2>5, TypesSplitPrimed
<1>16. CASE Assemble
  <2>1. CASE EndRun("failed", "hash") /\ closed' = Sources /\ UNCHANGED <<library, serving, have, toSrc, fromSrc>>
    <3>1. Budgeted
      BY <1>16, <2>1, Untouched DEF Assemble, WireTypes
    <3>2. Good
      BY <1>0, <1>16, <2>1, EndedRun DEF Assemble, Reasons, RunTypes, budget
    <3> QED
      BY <3>1, <3>2, TypesSplitPrimed DEF Good
  <2>2. CASE library' = TRUE /\ pc' = "publish" /\ UNCHANGED <<row, why, file, writing, aged, wire>>
    <3>1. Budgeted
      BY <1>16, <2>2, Untouched DEF Assemble
    <3>2. RunTypes'
      BY <1>16, <2>2 DEF Assemble, RunTypes
    <3>3. row = "verifying" /\ verified = Chunks /\ ~library /\ UNCHANGED <<verified, inflight>>
      BY <1>16 DEF Assemble, Control, AssemblyHasAll, budget
    <3>4. Control'
      BY <1>16, <2>2, <3>3 DEF Control, RowFollowsRun, AssemblyHasAll, AskedOnce, WorkIsInFlight,
                               VerifiedOnDisk, Live
    <3>5. Fetch!Publish
      BY <2>2, <3>3 DEF Fetch!Publish
    <3> QED
      BY <3>1, <3>2, <3>4, <3>5, TypesSplitPrimed DEF Fetch!Next
  <2> QED
    BY <1>16, <2>1, <2>2 DEF Assemble
<1>17. CASE Publish
  <2>1. Budgeted
    BY <1>17, Untouched DEF Publish, WireTypes
  <2>2. RunTypes'
    BY <1>17 DEF Publish, EndRun, RunTypes, Reasons
  <2>3. /\ row = "verifying" /\ verified = Chunks /\ library
        /\ row' = "complete" /\ pc' = "end" /\ UNCHANGED <<verified, library, inflight>>
    BY <1>17 DEF Publish, EndRun, Control, AssemblyHasAll, budget
  <2>4. Control'
    BY <2>3 DEF Control, RowFollowsRun, AssemblyHasAll, AskedOnce, WorkIsInFlight, VerifiedOnDisk, Live
  <2>5. Fetch!Complete
    BY <2>3 DEF Fetch!Complete
  <2> QED
    BY <2>1, <2>2, <2>4, <2>5, TypesSplitPrimed DEF Fetch!Next
<1>18. CASE Crash
  <2>1. Budgeted
    BY <1>18, Untouched, TroubleCounted DEF Crash
  <2>2. RunTypes'
    BY <1>18 DEF Crash, RunTypes, durable
  <2>3. Control'
    BY <1>18 DEF Crash, Control, RowFollowsRun, AssemblyHasAll, AskedOnce, WorkIsInFlight, VerifiedOnDisk,
                 durable, budget
  <2>4. UNCHANGED Fetch!vars
    BY <1>18 DEF Crash, durable, Fetch!vars
  <2> QED
    BY <2>1, <2>2, <2>3, <2>4, TypesSplitPrimed
<1>19. CASE Reopen
  <2>1. /\ pc = "down" /\ aged' = {} /\ writing' = Idle /\ unavailable' = {}
        /\ inflight' = [c \in Chunks |-> NoSource] /\ UNCHANGED <<file, library, counters>>
        /\ \/ library /\ row' = "complete" /\ why' = "ok" /\ pc' = "end" /\ verified' = Chunks
           \/ ~library /\ pc' = "start" /\ UNCHANGED <<row, why, verified>>
    BY <1>19 DEF Reopen, AlreadyLocal
  <2>2. BudgetTypes'
    BY <1>19 DEF Reopen, BudgetTypes, Zero, NoChunks
  <2>3. WireTypes'
    BY <1>19 DEF Reopen, WireTypes, NoChunks, NoFrames
  <2>4. Budgeted
    BY <2>1, <2>2, <2>3, Untouched
  <2>5. RunTypes'
    BY <2>1 DEF RunTypes, Reasons
  <2>6. row \in Live /\ (library => verified = Chunks)
    BY <2>1 DEF Control, RowFollowsRun, AssemblyHasAll
  <2>7. AskedOnce' /\ WorkIsInFlight'
    BY <2>1 DEF AskedOnce, WorkIsInFlight
  <2>8. CASE library /\ row' = "complete" /\ pc' = "end" /\ verified' = Chunks
    <3>1. RowFollowsRun' /\ AssemblyHasAll' /\ VerifiedOnDisk'
      BY <2>1, <2>8 DEF RowFollowsRun, AssemblyHasAll, VerifiedOnDisk, Live
    <3>2. Fetch!Complete
      BY <2>1, <2>6, <2>8 DEF Fetch!Complete, Live
    <3> QED
      BY <2>4, <2>5, <2>7, <3>1, <3>2, TypesSplitPrimed DEF Control, Fetch!Next
  <2>9. CASE ~library /\ pc' = "start" /\ UNCHANGED <<row, verified>>
    <3>1. RowFollowsRun' /\ AssemblyHasAll' /\ VerifiedOnDisk'
      BY <2>1, <2>6, <2>9 DEF Control, RowFollowsRun, AssemblyHasAll, VerifiedOnDisk, Live
    <3>2. UNCHANGED Fetch!vars
      BY <2>1, <2>9 DEF Fetch!vars
    <3> QED
      BY <2>4, <2>5, <2>7, <3>1, <3>2, TypesSplitPrimed DEF Control
  <2> QED
    BY <2>1, <2>8, <2>9
<1>20. ASSUME UNCHANGED viewer, UNCHANGED budget PROVE RunTypes' /\ Control' /\ UNCHANGED Fetch!vars
  <2>1. UNCHANGED <<row, why, verified, file, library, pc, aged, writing, unavailable, inflight>>
    BY <1>20 DEF viewer, durable, budget
  <2>2. RunTypes'
    BY <2>1 DEF RunTypes
  <2>3. Control'
    BY <2>1 DEF Control, RowFollowsRun, AssemblyHasAll, AskedOnce, WorkIsInFlight, InFlight, VerifiedOnDisk
  <2>4. UNCHANGED Fetch!vars
    BY <2>1 DEF Fetch!vars
  <2> QED
    BY <2>2, <2>3, <2>4
<1>21. ASSUME NEW s \in Sources, Serve(s) \/ SenderFails(s)
       PROVE  WireTypes' /\ CounterTypes' /\ UNCHANGED <<viewer, budget>>
  <2>1. UNCHANGED viewer /\ UNCHANGED budget
    BY <1>21 DEF Serve, SenderHello, SenderRequest, SenderAck, SenderNak, SenderFails, viewer
  <2>2. CounterTypes'
    BY <1>21, Untouched, TroubleCounted DEF Serve, SenderHello, SenderRequest, SenderAck, SenderNak, SenderFails, viewer,
         counters
  <2>3. CASE SenderHello(s)
    <3>1. toSrc' \in [Sources -> Seq(ToFrames)] /\ Head(toSrc[s]).have \subseteq Chunks
      BY <2>3, HeardIsTyped DEF SenderHello
    <3>2. /\ serving' = [serving EXCEPT ![s] = "serve"]
          /\ have' = [have EXCEPT ![s] = Head(toSrc[s]).have]
          /\ UNCHANGED <<closed, fromSrc>>
      BY <2>3 DEF SenderHello
    <3> QED
      BY <2>1, <2>2, <3>1, <3>2 DEF WireTypes
  <2>4. CASE SenderRequest(s)
    <3> DEFINE c == Head(toSrc[s]).chunk
    <3>1. c \in Chunks /\ toSrc' \in [Sources -> Seq(ToFrames)]
      BY <2>4, HeardIsTyped DEF SenderRequest
    <3> HIDE DEF c
    <3>2. ASSUME NEW f \in FromFrames PROVE <<f>> \in Seq(FromFrames)
      OBVIOUS
    <3>3. ASSUME NEW a \in Answers(s, c) PROVE a \in Seq(FromFrames)
      <4>1. <<>> \in Seq(FromFrames)
        OBVIOUS
      <4> QED
        BY <3>1, <3>2, <3>3, <4>1, FramesFromPeers DEF Answers
    <3>4. \/ UNCHANGED fromSrc
          \/ \E a \in Answers(s, c) : fromSrc' = [fromSrc EXCEPT ![s] = @ \o a]
      BY <2>4 DEF SenderRequest, c
    <3>5. fromSrc' \in [Sources -> Seq(FromFrames)]
      <4>1. CASE UNCHANGED fromSrc
        BY <4>1 DEF WireTypes
      <4>2. ASSUME NEW a \in Answers(s, c), fromSrc' = [fromSrc EXCEPT ![s] = @ \o a]
            PROVE  fromSrc' \in [Sources -> Seq(FromFrames)]
        <5>1. fromSrc \in [Sources -> Seq(FromFrames)] /\ a \in Seq(FromFrames)
          BY <3>3 DEF WireTypes
        <5>2. fromSrc[s] \o a \in Seq(FromFrames)
          BY <5>1
        <5> QED
          BY <4>2, <5>1, <5>2
      <4> QED
        BY <3>4, <4>1, <4>2
    <3>6. UNCHANGED <<closed, serving, have>>
      BY <2>4 DEF SenderRequest
    <3> QED
      BY <2>1, <2>2, <3>1, <3>5, <3>6 DEF WireTypes
  <2>5. CASE SenderAck(s)
    <3>1. toSrc' \in [Sources -> Seq(ToFrames)] /\ Head(toSrc[s]).chunk \in Chunks
      BY <2>5, HeardIsTyped DEF SenderAck
    <3>2. /\ have' = [have EXCEPT ![s] = @ \cup {Head(toSrc[s]).chunk}]
          /\ serving' = [serving EXCEPT ![s] = IF have'[s] = Chunks THEN "gone" ELSE @]
          /\ UNCHANGED <<closed, fromSrc>>
      BY <2>5 DEF SenderAck
    <3> QED
      BY <2>1, <2>2, <3>1, <3>2 DEF WireTypes
  <2>6. CASE SenderNak(s)
    <3> DEFINE c == Head(toSrc[s]).chunk
    <3>1. c \in Chunks /\ toSrc' \in [Sources -> Seq(ToFrames)]
      BY <2>6, HeardIsTyped DEF SenderNak
    <3>2. ASSUME NEW g \in BOOLEAN PROVE Append(fromSrc[s], [kind |-> "chunk", chunk |-> c, good |-> g]) \in Seq(FromFrames)
      BY <3>1, FramesFromPeers DEF WireTypes
    <3>3. fromSrc' \in [Sources -> Seq(FromFrames)]
      BY <2>6, <3>2 DEF SenderNak, WireTypes
    <3>4. UNCHANGED <<closed, serving, have>>
      BY <2>6 DEF SenderNak
    <3> QED
      BY <2>1, <2>2, <3>1, <3>3, <3>4 DEF WireTypes
  <2>7. CASE SenderFails(s)
    <3>1. /\ serving' = [serving EXCEPT ![s] = "gone"] /\ toSrc' = [toSrc EXCEPT ![s] = <<>>]
          /\ UNCHANGED <<closed, have, fromSrc>>
      BY <2>7 DEF SenderFails
    <3> QED
      BY <2>1, <2>2, <3>1 DEF WireTypes
  <2> QED
    BY <1>21, <2>1, <2>2, <2>3, <2>4, <2>5, <2>6, <2>7 DEF Serve
<1>22. ASSUME NEW S \in SUBSET Sources, ChannelsClose(S)
       PROVE  WireTypes' /\ CounterTypes' /\ UNCHANGED <<viewer, budget>>
  <2>1. WireTypes'
    BY <1>22 DEF ChannelsClose, WireTypes
  <2>2. CounterTypes'
    BY <1>22, TroubleCounted DEF ChannelsClose, viewer
  <2> QED
    BY <1>22, <2>1, <2>2 DEF ChannelsClose, viewer
<1>23. CASE UNCHANGED vars
  <2>1. UNCHANGED viewer /\ UNCHANGED budget /\ UNCHANGED wire /\ UNCHANGED counters
    BY <1>23 DEF vars, viewer, durable, budget, wire, counters
  <2> QED
    BY <1>20, <2>1, Untouched, TypesSplitPrimed
<1>24. ASSUME Good /\ Budgeted PROVE TypeOK' /\ Control' /\ [Fetch!Next]_Fetch!vars
  BY <1>24, TypesSplitPrimed DEF Good
<1>25. ASSUME WireTypes', CounterTypes', UNCHANGED viewer, UNCHANGED budget
       PROVE  TypeOK' /\ Control' /\ [Fetch!Next]_Fetch!vars
  BY <1>20, <1>25, Untouched, TypesSplitPrimed
<1> QED
  BY <1>1, <1>2, <1>3, <1>4, <1>5, <1>6, <1>7, <1>8, <1>9, <1>10, <1>11, <1>12, <1>13, <1>14, <1>15,
     <1>16, <1>17, <1>18, <1>19, <1>21, <1>22, <1>23, <1>24, <1>25 DEF Next, Frame

LEMMA InitIsGood == ASSUME Init PROVE StoreInv /\ Fetch!Init
<1>1. RunTypes
  BY DEF Init, RunTypes, Live, Reasons
<1>6. CounterTypes
  BY BoundsAssumption DEF BoundsAssumption, Init, CounterTypes
<1>2. BudgetTypes
  BY DEF Init, BudgetTypes, Zero, NoChunks
<1>3. WireTypes
  BY DEF Init, WireTypes, NoChunks, NoFrames
<1>4. Control
  BY DEF Init, Control, RowFollowsRun, AssemblyHasAll, AskedOnce, WorkIsInFlight, VerifiedOnDisk, Live
<1>5. Fetch!Init
  BY DEF Init, Fetch!Init
<1> QED
  BY <1>1, <1>2, <1>3, <1>4, <1>5, <1>6, Controlled

-----------------------------------------------------------------------------
(* The theorems.                                                              *)

\* The inductive invariant holds throughout.
THEOREM StoreInvariant == Spec => []StoreInv
<1>1. Init => StoreInv
  BY InitIsGood
<1>2. StoreInv /\ [Next]_vars => StoreInv'
  BY StepIsGood DEF StoreInv, Control
<1> QED
  BY <1>1, <1>2, PTL DEF Spec

\* Every variable of the orchestrator, of the rows and of the peers' sessions
\* keeps its type: chunks in flight, counters and frames name chunks of the
\* file and peers of the download, whatever the peers send.
THEOREM SourcesTypeCorrect == Spec => []TypeOK
<1>1. StoreInv => TypeOK
  BY DEF StoreInv
<1> QED
  BY <1>1, StoreInvariant, PTL

\* handle_chunk marks a chunk row verified only once its part file is whole, and
\* never writes that file again: a download that is resumed after a crash, a
\* failed write or a lost peer misses nothing its Hello claims to have.
THEOREM MarkedIsStored == Spec => []VerifiedOnDisk
<1>1. StoreInv => VerifiedOnDisk
  BY DEF StoreInv
<1> QED
  BY <1>1, StoreInvariant, PTL

\* run_multi_source, its peers and its crashes implement the atomic fetch of
\* FileFetch: no chunk once held is lost while the download lives, the file
\* enters the library only with every chunk held, the row completes only after
\* that, and an abandoned download publishes nothing.
THEOREM FetchImplemented == Spec => ImplementsFetch
<1>1. Init => Fetch!Init
  BY InitIsGood
<1>2. StoreInv /\ [Next]_vars => [Fetch!Next]_Fetch!vars
  BY StepIsGood
<1> QED
  BY <1>1, <1>2, StoreInvariant, PTL DEF Spec, ImplementsFetch, Fetch!Spec

-----------------------------------------------------------------------------
(* One bad peer: the invariant.                                               *)

\* A peer that is not faulty sends good chunks only, and is sent no Nak.
HonestFrames ==
    \A s \in Sources \ Faulty :
        /\ \A f \in Range(fromSrc[s]) : f.kind = "chunk" /\ f.good
        /\ \A f \in Range(toSrc[s]) : f.kind # "nak"

\* No NAK counter stands at the threshold; a chunk is not in flight at a peer
\* that was rotated out for it.
CountersBelow ==
    /\ \A c \in Chunks, s \in Sources : nak[c][s] < NAK_THRESHOLD
    /\ \A c \in Chunks : inflight[c] \notin tried[c]

\* The requests found overdue are handled before anything else is awaited.
AgedHandled ==
    /\ pc \in {"refill", "stuck"} => aged \subseteq InFlight
    /\ pc \notin {"refill", "stuck", "down"} => aged = {}

\* What is under way to and from a peer is about chunks it was asked for or
\* that are held, and each chunk it was asked for is answered in the end: the
\* request, the chunk or its bytes are somewhere.
AskedOrHeld(c, s) == inflight[c] = s \/ c \in verified

WorthSending(f, s) ==
    /\ f.kind = "request" => AskedOrHeld(f.chunk, s)
    /\ f.kind = "ack" => f.chunk \in verified
    /\ f.kind = "hello" => f.have \subseteq verified

AnswerComes(c, s) ==
    \/ [kind |-> "request", chunk |-> c] \in Range(toSrc[s])
    \/ [kind |-> "chunk", chunk |-> c, good |-> TRUE] \in Range(fromSrc[s])
    \/ pc = "write" /\ writing = <<c, s>>

Serves(s) ==
    /\ have[s] \subseteq verified
    /\ \A f \in Range(toSrc[s]) : WorthSending(f, s)
    /\ \A f \in Range(fromSrc[s]) : AskedOrHeld(f.chunk, s)
    /\ \A c \in Chunks : inflight[c] = s => AnswerComes(c, s)

\* Only bad peers are rotated out or overdue, and with one bad peer the budget
\* of a chunk is spent on that peer alone, up to the threshold.
Spent(c, b) == IF b \in tried[c] THEN retries[c] <= NAK_THRESHOLD ELSE retries[c] <= nak[c][b]

Charged(c) ==
    /\ tried[c] \subseteq Bad
    /\ c \in aged => inflight[c] \in Bad
    /\ c \notin verified => \A b \in Sources : Bad \subseteq {b} => Spent(c, b)

Running == pc \notin {"end", "down"}

FaultInv ==
    /\ HonestFrames /\ CountersBelow /\ AgedHandled
    /\ why = "exhausted" => pc = "end"
    /\ late = 0 /\ Running => /\ \A s \in Sources \ Bad : Serves(s)
                              /\ \A c \in Chunks : Charged(c)

\* What a run is expected to survive.
Tolerable == late = 0 /\ Bad # Sources /\ \E b \in Sources : Bad \subseteq {b}

\* More than one bad peer is more than any single peer covers.
LEMMA ManyBad ==
    ASSUME NEW B \in SUBSET Sources PROVE Cardinality(B) > 1 <=> ~\E b \in Sources : B \subseteq {b}
<1>1. IsFiniteSet(B)
  BY FS_Subset, BoundsAssumption DEF BoundsAssumption
<1>2. Cardinality(B) \in Nat
  BY <1>1, FS_CardinalityType
<1>3. Cardinality(B) = 0 <=> B = {}
  BY <1>1, FS_EmptySet
<1>4. Cardinality(B) = 1 <=> \E b : B = {b}
  BY <1>1, FS_Singleton
<1>5. \E b : b \in Sources
  BY BoundsAssumption DEF BoundsAssumption
<1> QED
  BY <1>2, <1>3, <1>4, <1>5

LEMMA OneFaultIsTolerable ==
    /\ CounterTypes => (OneFaultSurvived <=> (why = "exhausted" => ~Tolerable))
    /\ CounterTypes' => (OneFaultSurvived' <=> (why' = "exhausted" => ~Tolerable'))
<1>1. Bad \subseteq Sources /\ Bad' \subseteq Sources
  BY DEF Bad
<1>2. (CounterTypes => late \in Nat) /\ (CounterTypes' => late' \in Nat)
  BY BoundsAssumption DEF BoundsAssumption, CounterTypes
<1>3. Cardinality(Bad) > 1 <=> ~\E b \in Sources : Bad \subseteq {b}
  BY <1>1, ManyBad
<1>4. Cardinality(Bad') > 1 <=> ~\E b \in Sources : Bad' \subseteq {b}
  BY <1>1, ManyBad
<1> QED
  BY <1>2, <1>3, <1>4 DEF OneFaultSurvived, Tolerable

-----------------------------------------------------------------------------
(* Channels as sets of frames.                                                *)

LEMMA FramesOf ==
    ASSUME NEW S, NEW q \in Seq(S)
    PROVE  /\ Range(q) \subseteq S
           /\ q # <<>> => /\ Head(q) \in Range(q) /\ Range(Tail(q)) \subseteq Range(q)
                          /\ Range(q) = {Head(q)} \cup Range(Tail(q))
           /\ \A f \in S : Range(Append(q, f)) = Range(q) \cup {f}
           /\ \A f \in S : Range(q \o <<f>>) = Range(q) \cup {f}
<1>1. DOMAIN q = 1..Len(q) /\ Len(q) \in Nat /\ Range(q) \subseteq S
  BY DEF Range
<1>2. ASSUME q # <<>>
      PROVE  /\ Head(q) \in Range(q) /\ Range(Tail(q)) \subseteq Range(q)
             /\ Range(q) = {Head(q)} \cup Range(Tail(q))
  <2>1. Head(q) = q[1] /\ 1 \in DOMAIN q
    BY <1>1, <1>2
  <2>2. Tail(q) \in Seq(S) /\ Len(Tail(q)) = Len(q) - 1 /\ DOMAIN Tail(q) = 1..(Len(q) - 1)
        /\ \A i \in 1..(Len(q) - 1) : Tail(q)[i] = q[i + 1]
    BY <1>2
  <2>3. Range(Tail(q)) \subseteq Range(q)
    BY <1>1, <2>2 DEF Range
  <2>4. ASSUME NEW i \in DOMAIN q PROVE q[i] \in {Head(q)} \cup Range(Tail(q))
    <3>1. CASE i = 1
      BY <2>1, <3>1
    <3>2. CASE i # 1
      <4>1. i - 1 \in 1..(Len(q) - 1) /\ q[i] = Tail(q)[i - 1]
        BY <1>1, <2>2, <3>2
      <4> QED
        BY <2>2, <4>1 DEF Range
    <3> QED
      BY <3>1, <3>2
  <2> QED
    BY <2>1, <2>3, <2>4 DEF Range
<1>3. ASSUME NEW f \in S PROVE Range(Append(q, f)) = Range(q) \cup {f}
  <2>1. DOMAIN Append(q, f) = 1..(Len(q) + 1) /\ Append(q, f)[Len(q) + 1] = f
        /\ \A i \in 1..Len(q) : Append(q, f)[i] = q[i]
    OBVIOUS
  <2>2. 1..(Len(q) + 1) = 1..Len(q) \cup {Len(q) + 1}
    BY <1>1
  <2> QED
    BY <1>1, <2>1, <2>2 DEF Range
<1>4. ASSUME NEW f \in S PROVE Range(q \o <<f>>) = Range(q) \cup {f}
  <2>1. q \o <<f>> = Append(q, f)
    OBVIOUS
  <2> QED
    BY <1>3, <2>1
<1> QED
  BY <1>1, <1>2, <1>3, <1>4

LEMMA NoFramesIn == Range(<<>>) = {}
BY DEF Range

\* What a send adds to a channel.
LEMMA SentAdds ==
    ASSUME WireTypes, NEW s \in Sources, NEW f \in ToFrames, toSrc' = Sent(toSrc, s, f)
    PROVE  /\ \A t \in Sources : t # s => toSrc'[t] = toSrc[t]
           /\ Range(toSrc'[s]) \subseteq Range(toSrc[s]) \cup {f}
           /\ s \notin Bad => Range(toSrc'[s]) = Range(toSrc[s]) \cup {f}
<1>1. toSrc[s] \in Seq(ToFrames) /\ toSrc \in [Sources -> Seq(ToFrames)]
  BY DEF WireTypes
<1>2. Range(Append(toSrc[s], f)) = Range(toSrc[s]) \cup {f}
  BY <1>1, FramesOf
<1> QED
  BY <1>1, <1>2 DEF Sent, Bad

LEMMA ReceivedTakes ==
    ASSUME WireTypes, NEW s \in Sources, NEW k, Received(s, k)
    PROVE  /\ \A t \in Sources : t # s => fromSrc'[t] = fromSrc[t]
           /\ Head(fromSrc[s]) \in Range(fromSrc[s])
           /\ Range(fromSrc[s]) = {Head(fromSrc[s])} \cup Range(fromSrc'[s])
           /\ Head(fromSrc[s]) \in FromFrames /\ Head(fromSrc[s]).kind = k
<1>1. fromSrc[s] \in Seq(FromFrames) /\ fromSrc[s] # <<>> /\ fromSrc' = [fromSrc EXCEPT ![s] = Tail(@)]
      /\ fromSrc \in [Sources -> Seq(FromFrames)]
  BY DEF WireTypes, Received
<1>2. fromSrc'[s] = Tail(fromSrc[s]) /\ \A t \in Sources : t # s => fromSrc'[t] = fromSrc[t]
  BY <1>1
<1>3. Range(fromSrc[s]) = {Head(fromSrc[s])} \cup Range(Tail(fromSrc[s])) /\ Head(fromSrc[s]) \in Range(fromSrc[s])
      /\ Range(fromSrc[s]) \subseteq FromFrames
  BY <1>1, FramesOf
<1> QED
  BY <1>2, <1>3 DEF Received

LEMMA HeardTakes ==
    ASSUME WireTypes, NEW s \in Sources, NEW k, Heard(s, k)
    PROVE  /\ \A t \in Sources : t # s => toSrc'[t] = toSrc[t]
           /\ Head(toSrc[s]) \in Range(toSrc[s])
           /\ Range(toSrc[s]) = {Head(toSrc[s])} \cup Range(toSrc'[s])
           /\ Head(toSrc[s]) \in ToFrames /\ Head(toSrc[s]).kind = k
<1>1. toSrc[s] \in Seq(ToFrames) /\ toSrc[s] # <<>> /\ toSrc' = [toSrc EXCEPT ![s] = Tail(@)]
      /\ toSrc \in [Sources -> Seq(ToFrames)]
  BY DEF WireTypes, Heard
<1>2. toSrc'[s] = Tail(toSrc[s]) /\ \A t \in Sources : t # s => toSrc'[t] = toSrc[t]
  BY <1>1
<1>3. Range(toSrc[s]) = {Head(toSrc[s])} \cup Range(Tail(toSrc[s])) /\ Head(toSrc[s]) \in Range(toSrc[s])
      /\ Range(toSrc[s]) \subseteq ToFrames
  BY <1>1, FramesOf
<1> QED
  BY <1>2, <1>3 DEF Heard

-----------------------------------------------------------------------------
(* What a step does to the frames, the counters and the overdue requests.     *)

\* The good chunks, and everything that is said to a peer but a Nak.
GoodChunks == {f \in FromFrames : f.kind = "chunk" /\ f.good}
NotNaks == {f \in ToFrames : f.kind # "nak"}

LEMMA PlainFrames ==
    /\ \A c \in Chunks : [kind |-> "chunk", chunk |-> c, good |-> TRUE] \in GoodChunks
    /\ \A c \in Chunks, k \in {"request", "ack"} : [kind |-> k, chunk |-> c] \in NotNaks
    /\ \A H \in SUBSET Chunks : [kind |-> "hello", have |-> H] \in NotNaks
BY DEF GoodChunks, NotNaks, FromFrames, ToFrames

LEMMA StaysHonest ==
    ASSUME StoreInv, HonestFrames, [Next]_vars PROVE HonestFrames'
<1> RunTypes /\ BudgetTypes /\ WireTypes /\ Control
  BY Controlled
<1> DEFINE From(s) == Range(fromSrc'[s]) \subseteq Range(fromSrc[s]) \cup GoodChunks
           To(s) == Range(toSrc'[s]) \subseteq Range(toSrc[s]) \cup NotNaks
<1> SUFFICES ASSUME NEW s \in Sources \ Faulty PROVE From(s) /\ To(s)
  BY DEF HonestFrames, GoodChunks, NotNaks
<1>0. HonestFrames!(s)
  BY DEF HonestFrames
<1>1. UNCHANGED <<toSrc, fromSrc>> => From(s) /\ To(s)
  OBVIOUS
<1>2. CASE Start
  <2>1. CASE closed = {} /\ serving[s] # "gone"
    <3>1. [kind |-> "hello", have |-> verified] \in NotNaks
      BY PlainFrames DEF RunTypes
    <3>2. toSrc'[s] = Append(toSrc[s], [kind |-> "hello", have |-> verified])
      BY <1>2, <2>1 DEF Start
    <3> HIDE DEF NotNaks
    <3>3. NotNaks \subseteq ToFrames
      BY DEF NotNaks
    <3>4. toSrc[s] \in Seq(ToFrames)
      BY DEF WireTypes
    <3>5. Range(toSrc'[s]) = Range(toSrc[s]) \cup {[kind |-> "hello", have |-> verified]}
      BY <3>1, <3>2, <3>3, <3>4, FramesOf
    <3> QED
      BY <1>2, <3>1, <3>5 DEF Start
  <2>2. CASE ~(closed = {} /\ serving[s] # "gone")
    BY <1>2, <2>2 DEF Start, wire
  <2> QED
    BY <2>1, <2>2
<1>3. ASSUME NEW t \in Sources, NEW f \in NotNaks, toSrc' = Sent(toSrc, t, f), UNCHANGED fromSrc
      PROVE  From(s) /\ To(s)
  <2>1. f \in ToFrames
    BY DEF NotNaks
  <2> QED
    BY <1>3, <2>1, SentAdds
<1>4. CASE Dispatch
  <2> DEFINE c == Min(Dispatchable)
  <2>1. c \in Chunks
    BY <1>4, DispatchedIsPending DEF Dispatch, Pending
  <2> HIDE DEF c
  <2>2. [kind |-> "request", chunk |-> c] \in NotNaks
    BY <2>1, PlainFrames
  <2>3. UNCHANGED fromSrc /\ (UNCHANGED toSrc \/ \E t \in Sources : toSrc' = Sent(toSrc, t, [kind |-> "request", chunk |-> c]))
    BY <1>4 DEF Dispatch, c
  <2> QED
    BY <1>1, <1>3, <2>2, <2>3
<1>5. ASSUME NEW c \in Chunks, StuckChunk(c) PROVE From(s) /\ To(s)
  <2>1. inflight[c] \in Sources /\ UNCHANGED fromSrc
        /\ toSrc' = Sent(toSrc, inflight[c], [kind |-> "request", chunk |-> c])
    BY <1>5 DEF StuckChunk, Control, WorkIsInFlight, InFlight, BudgetTypes
  <2> QED
    BY <1>3, <2>1, PlainFrames
<1>6. ASSUME NEW t \in Sources, NEW k, Received(t, k) PROVE From(s)
  BY <1>6, ReceivedTakes
<1>7. ASSUME NEW t \in Sources, Frame(t) PROVE From(s) /\ To(s)
  <2>1. From(s)
    BY <1>6, <1>7 DEF Frame, UnexpectedChunk, BadChunk, WriteChunk, NakFrame, PeerEnds
  <2>2. CASE UnexpectedChunk(t)
    <3> DEFINE c == Head(fromSrc[t]).chunk
    <3>1. c \in Chunks /\ toSrc' = Sent(toSrc, t, [kind |-> "ack", chunk |-> c])
      BY <2>2, ReceivedIsTyped DEF UnexpectedChunk
    <3>2. [kind |-> "ack", chunk |-> c] \in NotNaks
      BY <3>1, PlainFrames
    <3>3. [kind |-> "ack", chunk |-> c] \in ToFrames
      BY <3>2 DEF NotNaks
    <3> HIDE DEF c
    <3>4. To(s)
      BY <3>1, <3>2, <3>3, SentAdds
    <3> QED
      BY <2>1, <3>4
  <2>3. CASE BadChunk(t) \/ NakFrame(t)
    <3> DEFINE c == Head(fromSrc[t]).chunk
    <3>1. t # s
      BY <1>0, <2>3, ReceivedTakes DEF BadChunk, NakFrame
    <3>2. c \in Chunks /\ (UNCHANGED toSrc \/ toSrc' = Sent(toSrc, t, [kind |-> "nak", chunk |-> c]))
      BY <2>3, ReceivedIsTyped DEF BadChunk, NakFrame
    <3>3. [kind |-> "nak", chunk |-> c] \in ToFrames
      BY <3>2, FramesToPeers
    <3> HIDE DEF c
    <3>4. To(s)
      BY <3>1, <3>2, <3>3, SentAdds
    <3> QED
      BY <2>1, <3>4
  <2>4. CASE WriteChunk(t) \/ PeerEnds(t)
    <3>1. UNCHANGED toSrc
      BY <2>4 DEF WriteChunk, PeerEnds
    <3> QED
      BY <2>1, <3>1
  <2> QED
    BY <1>7, <2>2, <2>3, <2>4 DEF Frame
<1>8. CASE MarkChunk
  <2> DEFINE c == writing[1]
             t == writing[2]
  <2>1. c \in Chunks /\ t \in Sources
    BY <1>8 DEF MarkChunk, Control, WorkIsInFlight, RunTypes
  <2>2. toSrc' = Sent(toSrc, t, [kind |-> "ack", chunk |-> c]) /\ UNCHANGED fromSrc
    BY <1>8 DEF MarkChunk
  <2> HIDE DEF c, t
  <2> QED
    BY <1>3, <2>1, <2>2, PlainFrames
<1>9. CASE Reopen
  <2>1. toSrc'[s] = <<>> /\ fromSrc'[s] = <<>>
    BY <1>9 DEF Reopen, NoFrames
  <2> QED
    BY <2>1, NoFramesIn
<1>10. ASSUME NEW t \in Sources, NEW k, Heard(t, k) PROVE To(s)
  BY <1>10, HeardTakes
<1>11. ASSUME NEW t \in Sources, Serve(t) PROVE From(s) /\ To(s)
  <2>1. To(s)
    BY <1>10, <1>11 DEF Serve, SenderHello, SenderRequest, SenderAck, SenderNak
  <2>2. CASE SenderHello(t) \/ SenderAck(t)
    BY <2>1, <2>2 DEF SenderHello, SenderAck
  <2>3. CASE SenderRequest(t)
    <3> DEFINE c == Head(toSrc[t]).chunk
    <3>1. c \in Chunks
      BY <2>3, HeardIsTyped DEF SenderRequest
    <3>2. CASE t = s
      <4> DEFINE g == [kind |-> "chunk", chunk |-> c, good |-> TRUE]
      <4>1. g \in GoodChunks
        BY <3>1, PlainFrames
      <4>2. Answers(s, c) = {<<g>>}
        BY DEF Answers
      <4>3. UNCHANGED fromSrc \/ fromSrc' = [fromSrc EXCEPT ![s] = @ \o <<g>>]
        BY <2>3, <3>2, <4>2 DEF SenderRequest
      <4>4. fromSrc[s] \in Seq(FromFrames) /\ g \in FromFrames /\ fromSrc \in [Sources -> Seq(FromFrames)]
        BY <4>1 DEF WireTypes, GoodChunks
      <4> HIDE DEF g
      <4>5. Range(fromSrc[s] \o <<g>>) = Range(fromSrc[s]) \cup {g}
        BY <4>4, FramesOf
      <4>6. From(s)
        BY <4>1, <4>3, <4>4, <4>5
      <4> QED
        BY <2>1, <4>6
    <3>3. CASE t # s
      <4>1. fromSrc'[s] = fromSrc[s]
        BY <2>3, <3>3 DEF SenderRequest, WireTypes
      <4> QED
        BY <2>1, <4>1
    <3> QED
      BY <3>2, <3>3
  <2>4. CASE SenderNak(t)
    <3>1. t # s
      BY <1>0, <2>4, HeardTakes DEF SenderNak
    <3>2. fromSrc'[s] = fromSrc[s]
      BY <2>4, <3>1 DEF SenderNak, WireTypes
    <3> QED
      BY <2>1, <3>2
  <2> QED
    BY <1>11, <2>2, <2>3, <2>4 DEF Serve
<1>12. ASSUME NEW t \in Sources, SenderFails(t) PROVE From(s) /\ To(s)
  <2>1. UNCHANGED fromSrc /\ (toSrc'[s] = toSrc[s] \/ toSrc'[s] = <<>>)
    BY <1>12 DEF SenderFails, WireTypes
  <2> QED
    BY <2>1, NoFramesIn
<1>13. ASSUME NEW S \in SUBSET Sources, ChannelsClose(S) PROVE From(s) /\ To(s)
  <2>1. UNCHANGED fromSrc /\ (toSrc'[s] = toSrc[s] \/ toSrc'[s] = <<>>)
    BY <1>13 DEF ChannelsClose, WireTypes
  <2> QED
    BY <2>1, NoFramesIn
<1>14. CASE Recover \/ EndRefill \/ Tick \/ StoreFails \/ AllSourcesGone \/ Cancel
            \/ AllVerified \/ Assemble \/ Publish \/ Crash \/ UNCHANGED vars
  <2>1. UNCHANGED <<toSrc, fromSrc>>
    BY <1>14 DEF Recover, EndRefill, Tick, StoreFails, AllSourcesGone, Cancel, AllVerified, Assemble,
                 Publish, Crash, wire, vars
  <2> QED
    BY <1>1, <2>1
<1> QED
  BY <1>2, <1>4, <1>5, <1>7, <1>8, <1>9, <1>11, <1>12, <1>13, <1>14 DEF Next

LEMMA NakCounts ==
    ASSUME BudgetTypes, CountersBelow, NEW c \in Chunks, NEW s \in Sources, NEW bad \in BOOLEAN,
           ApplyNak(c, s, bad)
    PROVE  CountersBelow'
<1>1. nak \in [Chunks -> [Sources -> Nat]] /\ inflight \in [Chunks -> Sources \cup {NoSource}]
      /\ tried \in [Chunks -> SUBSET Sources]
  BY DEF BudgetTypes
<1>2. NAK_THRESHOLD \in Nat \ {0} /\ MAX_CHUNK_RETRIES \in Nat
  BY BoundsAssumption DEF BoundsAssumption
<1>3. ASSUME NEW d \in Chunks, NEW t \in Sources PROVE nak'[d][t] < NAK_THRESHOLD
  <2>1. nak[d][t] < NAK_THRESHOLD /\ nak[d][t] \in Nat
    BY <1>1 DEF CountersBelow
  <2>2. CASE d = c /\ t = s
    <3>1. nak'[c][s] = IF StaleNak(c, s) \/ NakExhausts(c, s) THEN nak[c][s]
                       ELSE IF NakDemotes(c, s) THEN 0 ELSE nak[c][s] + 1
      BY <1>1 DEF ApplyNak
    <3>2. NakDemotes(c, s) \/ StaleNak(c, s) \/ NakExhausts(c, s) \/ nak[c][s] + 1 < NAK_THRESHOLD
      BY <1>2, <2>1, <2>2 DEF NakDemotes
    <3> QED
      BY <1>2, <2>1, <2>2, <3>1, <3>2
  <2>3. CASE ~(d = c /\ t = s)
    <3>1. nak'[d][t] = nak[d][t]
      BY <1>1, <2>3 DEF ApplyNak
    <3> QED
      BY <2>1, <3>1
  <2> QED
    BY <2>2, <2>3
<1>4. ASSUME NEW d \in Chunks PROVE inflight'[d] \notin tried'[d]
  <2>0. NoSource \notin Sources /\ inflight[d] \notin tried[d]
    BY BoundsAssumption DEF BoundsAssumption, NoSource, CountersBelow
  <2>1. CASE d = c
    <3>1. tried'[c] = (IF NakDemotes(c, s) THEN tried[c] \cup {s} ELSE tried[c])
          /\ inflight'[c] = (IF NakDemotes(c, s) \/ (bad /\ ~StaleNak(c, s)) THEN NoSource ELSE inflight[c])
      BY <1>1 DEF ApplyNak
    <3> QED
      BY <1>1, <2>0, <2>1, <3>1
  <2>2. CASE d # c
    <3>1. tried'[d] = tried[d] /\ inflight'[d] = inflight[d]
      BY <1>1, <2>2 DEF ApplyNak
    <3> QED
      BY <2>0, <3>1
  <2> QED
    BY <2>1, <2>2
<1> QED
  BY <1>3, <1>4 DEF CountersBelow

LEMMA StaysBelow ==
    ASSUME StoreInv, CountersBelow, [Next]_vars PROVE CountersBelow'
<1> RunTypes /\ BudgetTypes /\ WireTypes /\ Control
  BY Controlled
<1>0. NoSource \notin Sources /\ NAK_THRESHOLD \in Nat \ {0}
  BY BoundsAssumption DEF BoundsAssumption, NoSource
<1>1. UNCHANGED <<nak, inflight, tried>> => CountersBelow'
  BY DEF CountersBelow
<1>2. CASE Dispatch
  <2> DEFINE c == Min(Dispatchable)
  <2>1. CASE UNCHANGED inflight
    BY <1>1, <1>2, <2>1 DEF Dispatch
  <2>2. ASSUME NEW s \in Sources, Picked(c, s), inflight' = [inflight EXCEPT ![c] = s] PROVE CountersBelow'
    <3>1. s \notin tried[c] /\ UNCHANGED <<nak, tried>>
      BY <1>2, <2>2 DEF Picked, Eligible, Dispatch
    <3> QED
      BY <2>2, <3>1 DEF CountersBelow, BudgetTypes
  <2> QED
    BY <1>2, <2>1, <2>2 DEF Dispatch
<1>3. ASSUME NEW c \in Chunks, StuckChunk(c) PROVE CountersBelow'
  <2>1. inflight[c] \in Sources
    BY <1>3 DEF StuckChunk, Control, WorkIsInFlight, InFlight, BudgetTypes
  <2>2. UNCHANGED <<nak, inflight, tried>> \/ ApplyNak(c, inflight[c], FALSE)
    BY <1>3 DEF StuckChunk
  <2> QED
    BY <1>1, <2>1, <2>2, NakCounts
<1>4. ASSUME NEW s \in Sources, Frame(s) PROVE CountersBelow'
  <2>1. CASE UnexpectedChunk(s) \/ WriteChunk(s) \/ PeerEnds(s)
    BY <1>1, <2>1 DEF UnexpectedChunk, WriteChunk, PeerEnds, budget
  <2>2. CASE BadChunk(s) \/ NakFrame(s)
    <3>1. Head(fromSrc[s]).chunk \in Chunks /\ \E bad \in BOOLEAN : ApplyNak(Head(fromSrc[s]).chunk, s, bad)
      BY <2>2, ReceivedIsTyped DEF BadChunk, NakFrame
    <3> QED
      BY <3>1, NakCounts
  <2> QED
    BY <1>4, <2>1, <2>2 DEF Frame
<1>5. CASE MarkChunk
  <2> DEFINE c == writing[1]
             s == writing[2]
  <2>1. c \in Chunks /\ s \in Sources
    BY <1>5 DEF MarkChunk, Control, WorkIsInFlight, RunTypes
  <2>2. inflight' = [inflight EXCEPT ![c] = NoSource] /\ nak' = [nak EXCEPT ![c][s] = 0] /\ UNCHANGED tried
    BY <1>5 DEF MarkChunk
  <2> HIDE DEF c, s
  <2>3. tried \in [Chunks -> SUBSET Sources]
    BY DEF BudgetTypes
  <2>4. \A d \in Chunks : inflight'[d] \notin tried'[d]
    BY <1>0, <2>1, <2>2, <2>3 DEF CountersBelow, BudgetTypes
  <2>5. \A d \in Chunks, t \in Sources : nak'[d][t] \in {nak[d][t], 0}
    BY <2>1, <2>2 DEF BudgetTypes
  <2> QED
    BY <1>0, <2>4, <2>5 DEF CountersBelow
<1>6. CASE Reopen
  <2>1. nak' = Zero /\ inflight' = [c \in Chunks |-> NoSource] /\ tried' = [c \in Chunks |-> {}]
    BY <1>6 DEF Reopen
  <2> QED
    BY <1>0, <2>1 DEF CountersBelow, Zero
<1>7. CASE Start \/ Recover \/ EndRefill \/ Tick \/ StoreFails \/ AllSourcesGone \/ Cancel
           \/ AllVerified \/ Assemble \/ Publish \/ Crash \/ UNCHANGED vars
  BY <1>1, <1>7 DEF Start, Recover, EndRefill, Tick, StoreFails, AllSourcesGone, Cancel, AllVerified,
                    Assemble, Publish, Crash, budget, vars
<1>8. ASSUME NEW s \in Sources, Serve(s) \/ SenderFails(s) PROVE CountersBelow'
  BY <1>1, <1>8 DEF Serve, SenderHello, SenderRequest, SenderAck, SenderNak, SenderFails, viewer, budget
<1>9. ASSUME NEW S \in SUBSET Sources, ChannelsClose(S) PROVE CountersBelow'
  BY <1>1, <1>9 DEF ChannelsClose, viewer, budget
<1> QED
  BY <1>2, <1>3, <1>4, <1>5, <1>6, <1>7, <1>8, <1>9 DEF Next

\* The overdue requests, and the reason of the end.
LEMMA StaysHandled ==
    ASSUME StoreInv, AgedHandled, why = "exhausted" => pc = "end", [Next]_vars
    PROVE  AgedHandled' /\ (why' = "exhausted" => pc' = "end")
<1> RunTypes /\ BudgetTypes /\ WireTypes /\ Control
  BY Controlled
<1> DEFINE Kept == AgedHandled' /\ (why' = "exhausted" => pc' = "end")
<1>1. ASSUME NEW st, NEW r, EndRun(st, r) PROVE Kept
  BY <1>1 DEF EndRun, AgedHandled
<1>2. ASSUME Keep("refill"), UNCHANGED aged, aged = {}, pc # "end" PROVE Kept
  BY <1>2 DEF Keep, AgedHandled
<1>3. CASE Start
  BY <1>1, <1>3 DEF Start, AgedHandled
<1>4. CASE Recover
  BY <1>4 DEF Recover, AgedHandled, budget, InFlight
<1>5. CASE Dispatch
  <2> DEFINE c == Min(Dispatchable)
  <2>1. c \in Chunks /\ inflight[c] = NoSource
    BY <1>5, DispatchedIsPending DEF Dispatch, Pending, InFlight
  <2> HIDE DEF c
  <2>2. ASSUME NEW s \in Sources, inflight' = [inflight EXCEPT ![c] = s], Keep("refill"), UNCHANGED aged PROVE Kept
    <3>1. s # NoSource
      BY <2>2, BoundsAssumption DEF BoundsAssumption, NoSource
    <3>2. InFlight \subseteq InFlight'
      BY <2>1, <2>2, <3>1 DEF InFlight, BudgetTypes
    <3> QED
      BY <1>5, <2>2, <3>2 DEF Keep, AgedHandled, Dispatch
  <2> QED
    BY <1>1, <1>5, <2>2 DEF Dispatch, c
<1>6. CASE EndRefill
  <2>1. PICK old \in SUBSET InFlight : aged' = old /\ Keep(IF old = {} THEN "wait" ELSE "stuck")
    BY <1>6 DEF EndRefill
  <2>2. InFlight' = InFlight /\ pc = "refill"
    BY <1>6 DEF EndRefill, InFlight, budget
  <2> QED
    BY <2>1, <2>2 DEF Keep, AgedHandled
<1>7. CASE Tick
  <2>1. InFlight' = InFlight /\ aged' = InFlight /\ Keep("refill") /\ pc = "wait"
    BY <1>7 DEF Tick, InFlight, budget
  <2> QED
    BY <2>1 DEF Keep, AgedHandled
<1>8. ASSUME NEW c \in Chunks, StuckChunk(c) PROVE Kept
  <2>1. pc = "stuck" /\ aged \subseteq InFlight /\ inflight[c] \in Sources
    BY <1>8 DEF StuckChunk, AgedHandled, Control, WorkIsInFlight, InFlight, BudgetTypes
  <2>2. CASE Keep(IF aged = {c} THEN "wait" ELSE "stuck") /\ aged' = aged \ {c}
    <3>1. \A d \in Chunks \ {c} : inflight'[d] = inflight[d]
      BY <1>8, <2>1, NakIsTyped DEF StuckChunk
    <3>2. aged' \subseteq InFlight'
      BY <2>1, <2>2, <3>1 DEF InFlight
    <3> QED
      BY <2>1, <2>2, <3>2 DEF Keep, AgedHandled
  <2> QED
    BY <1>1, <1>8, <2>2 DEF StuckChunk
<1>9. ASSUME NEW s \in Sources, Frame(s) PROVE Kept
  <2>1. pc = "wait" /\ aged = {}
    BY <1>9 DEF Frame, UnexpectedChunk, BadChunk, WriteChunk, NakFrame, PeerEnds, Received, AgedHandled
  <2>2. CASE UnexpectedChunk(s)
    BY <1>2, <2>1, <2>2 DEF UnexpectedChunk
  <2>3. CASE WriteChunk(s)
    BY <2>1, <2>3 DEF WriteChunk, AgedHandled
  <2>4. CASE BadChunk(s) \/ NakFrame(s) \/ PeerEnds(s)
    BY <1>1, <1>2, <2>1, <2>4 DEF BadChunk, NakFrame, PeerEnds
  <2> QED
    BY <1>9, <2>2, <2>3, <2>4 DEF Frame
<1>10. CASE MarkChunk
  <2>1. aged' = {} /\ pc' = "refill" /\ UNCHANGED why /\ pc = "write"
    BY <1>10 DEF MarkChunk, AgedHandled
  <2> QED
    BY <2>1 DEF AgedHandled
<1>11. CASE StoreFails \/ AllSourcesGone \/ Cancel
  BY <1>1, <1>11 DEF StoreFails, AllSourcesGone, Cancel
<1>12. CASE AllVerified
  <2>1. InFlight = {}
    BY <1>12 DEF AllVerified, InFlight, Control, AskedOnce
  <2> QED
    BY <1>12, <2>1 DEF AllVerified, AgedHandled
<1>13. CASE Assemble
  BY <1>1, <1>13 DEF Assemble, AgedHandled
<1>14. CASE Publish
  BY <1>1, <1>14 DEF Publish
<1>15. CASE Crash
  BY <1>15 DEF Crash, AgedHandled
<1>16. CASE Reopen
  BY <1>16 DEF Reopen, AgedHandled
<1>17. ASSUME UNCHANGED <<aged, pc, why, inflight>> PROVE Kept
  BY <1>17 DEF AgedHandled, InFlight
<1>18. ASSUME NEW s \in Sources, Serve(s) \/ SenderFails(s) PROVE Kept
  BY <1>17, <1>18 DEF Serve, SenderHello, SenderRequest, SenderAck, SenderNak, SenderFails, viewer, budget
<1>19. ASSUME NEW S \in SUBSET Sources, ChannelsClose(S) PROVE Kept
  BY <1>17, <1>19 DEF ChannelsClose, viewer, budget
<1>20. CASE UNCHANGED vars
  BY <1>17, <1>20 DEF vars
<1> QED
  BY <1>3, <1>4, <1>5, <1>6, <1>7, <1>8, <1>9, <1>10, <1>11, <1>12, <1>13, <1>14, <1>15, <1>16, <1>18,
     <1>19, <1>20 DEF Next

\* While the client is up, a peer that went bad stays bad.
LEMMA BadGrows ==
    ASSUME WireTypes, pc # "down", [Next]_vars PROVE Bad \subseteq Bad'
<1>1. ASSUME NEW s \in Sources, s \in closed => s \in closed', serving[s] = "gone" => serving'[s] = "gone"
      PROVE  s \in Bad => s \in Bad'
  BY <1>1 DEF Bad
<1>2. UNCHANGED <<closed, serving>> => Bad \subseteq Bad'
  BY DEF Bad
<1>3. CASE Start \/ Recover \/ Dispatch \/ EndRefill \/ Tick \/ MarkChunk \/ StoreFails \/ AllSourcesGone
           \/ Cancel \/ AllVerified \/ Crash \/ UNCHANGED vars \/ \E c \in Chunks : StuckChunk(c)
  BY <1>2, <1>3 DEF Start, Recover, Dispatch, EndRefill, Tick, MarkChunk, StoreFails, AllSourcesGone,
                    Cancel, AllVerified, Crash, StuckChunk, wire, vars
<1>4. ASSUME NEW s \in Sources, Frame(s) PROVE Bad \subseteq Bad'
  BY <1>2, <1>4 DEF Frame, UnexpectedChunk, BadChunk, WriteChunk, NakFrame, PeerEnds
<1>5. CASE Assemble \/ Publish
  BY <1>5, <1>1 DEF Assemble, Publish, wire, Bad
<1>6. ASSUME NEW t \in Sources, Serve(t) \/ SenderFails(t) PROVE Bad \subseteq Bad'
  <2>1. \A s \in Sources : (s \in closed => s \in closed') /\ (serving[s] = "gone" => serving'[s] = "gone")
    BY <1>6 DEF Serve, SenderHello, SenderRequest, SenderAck, SenderNak, SenderFails, Heard, WireTypes
  <2> QED
    BY <1>1, <2>1 DEF Bad
<1>7. ASSUME NEW S \in SUBSET Sources, ChannelsClose(S) PROVE Bad \subseteq Bad'
  BY <1>7 DEF ChannelsClose, Bad
<1> QED
  BY <1>3, <1>4, <1>5, <1>6, <1>7 DEF Next, Reopen

-----------------------------------------------------------------------------
(* A peer that is not bad keeps serving.                                      *)

LEMMA LateGrows ==
    ASSUME CounterTypes, [Next]_vars PROVE late' = late \/ late' = late + 1
<1>1. \A is \in BOOLEAN : Late(is) => late' = late \/ late' = late + 1
  BY DEF Late, counters
<1> QED
  BY <1>1 DEF Next, Frame, Serve, Start, Recover, Dispatch, EndRefill, Tick, StuckChunk, UnexpectedChunk,
     BadChunk, WriteChunk, NakFrame, PeerEnds, MarkChunk, StoreFails, AllSourcesGone, Cancel, AllVerified,
     Assemble, Publish, Crash, Reopen, SenderHello, SenderRequest, SenderAck, SenderNak, SenderFails,
     ChannelsClose, viewer, counters, vars

LEMMA InTime ==
    ASSUME CounterTypes, late' = 0
    PROVE  /\ [Next]_vars => late = 0
           /\ \A is \in BOOLEAN : Late(is) => ~is
<1>1. late \in Nat
  BY BoundsAssumption DEF BoundsAssumption, CounterTypes
<1>2. [Next]_vars => late = 0
  BY <1>1, LateGrows
<1>3. \A is \in BOOLEAN : Late(is) => ~is
  BY <1>1 DEF Late
<1> QED
  BY <1>2, <1>3

\* The frames of a peer that is not faulty.
LEMMA GoodPeersFrames ==
    ASSUME WireTypes, HonestFrames, NEW s \in Sources, s \notin Bad
    PROVE  /\ Range(toSrc[s]) \subseteq ToFrames
           /\ \A f \in Range(toSrc[s]) : f.kind # "nak"
           /\ \A f \in Range(toSrc[s]) : f.kind \in {"request", "ack"} => f.chunk \in Chunks
           /\ \A f \in Range(fromSrc[s]) : f.kind = "chunk" /\ f.good /\ f.chunk \in Chunks
           /\ \A f \in Range(fromSrc[s]) : f = [kind |-> "chunk", chunk |-> f.chunk, good |-> TRUE]
<1>1. s \notin Faulty /\ toSrc[s] \in Seq(ToFrames) /\ fromSrc[s] \in Seq(FromFrames)
  BY DEF Bad, WireTypes
<1>2. Range(toSrc[s]) \subseteq ToFrames /\ Range(fromSrc[s]) \subseteq FromFrames
  BY <1>1, FramesOf
<1>3. \A f \in Range(fromSrc[s]) : f.kind = "chunk" /\ f.good
  BY <1>1 DEF HonestFrames
<1>4. ASSUME NEW f \in FromFrames, f.kind = "chunk", f.good
      PROVE  f = [kind |-> "chunk", chunk |-> f.chunk, good |-> TRUE]
  <2>1. PICK c \in Chunks, g \in BOOLEAN : f = [kind |-> "chunk", chunk |-> c, good |-> g]
    BY <1>4 DEF FromFrames
  <2>2. g = TRUE
    BY <1>4, <2>1
  <2> QED
    BY <2>1, <2>2
<1> QED
  BY <1>1, <1>2, <1>3, <1>4, FramesToPeers, FramesFromPeers DEF HonestFrames

\* A step that has nothing to do with a peer.
LEMMA ServesApart ==
    ASSUME WireTypes, HonestFrames, NEW s \in Sources, s \notin Bad, Serves(s),
           have'[s] = have[s], toSrc'[s] = toSrc[s], fromSrc'[s] = fromSrc[s],
           verified \subseteq verified',
           \A c \in Chunks : inflight'[c] = s <=> inflight[c] = s,
           pc = "write" /\ writing[2] = s => pc' = "write" /\ writing' = writing
    PROVE  Serves(s)'
<1>1. ASSUME NEW f \in Range(toSrc'[s]) PROVE WorthSending(f, s)'
  BY <1>1, GoodPeersFrames DEF Serves, WorthSending, AskedOrHeld
<1>2. ASSUME NEW f \in Range(fromSrc'[s]) PROVE AskedOrHeld(f.chunk, s)'
  BY <1>2, GoodPeersFrames DEF Serves, AskedOrHeld
<1>3. ASSUME NEW c \in Chunks, inflight'[c] = s PROVE AnswerComes(c, s)'
  BY <1>3 DEF Serves, AnswerComes
<1> QED
  BY <1>1, <1>2, <1>3 DEF Serves

\* A step of the orchestrator that asks nothing new of a peer.
LEMMA ServesThrough ==
    ASSUME WireTypes, HonestFrames, NEW s \in Sources, s \notin Bad, Serves(s),
           have'[s] = have[s], fromSrc'[s] = fromSrc[s], UNCHANGED verified,
           UNCHANGED inflight, pc # "write",
           NEW f \in ToFrames, Range(toSrc'[s]) = Range(toSrc[s]) \cup {f}, WorthSending(f, s)
    PROVE  Serves(s)'
<1>1. ASSUME NEW g \in Range(toSrc'[s]) PROVE WorthSending(g, s)'
  BY <1>1 DEF Serves, WorthSending, AskedOrHeld
<1>2. ASSUME NEW g \in Range(fromSrc'[s]) PROVE AskedOrHeld(g.chunk, s)'
  BY <1>2 DEF Serves, AskedOrHeld
<1>3. ASSUME NEW c \in Chunks, inflight'[c] = s PROVE AnswerComes(c, s)'
  BY <1>3 DEF Serves, AnswerComes
<1> QED
  BY <1>1, <1>2, <1>3 DEF Serves

LEMMA StaysServing ==
    ASSUME StoreInv, HonestFrames, AgedHandled, NEW s \in Sources, s \notin Bad', Serves(s),
           \A c \in aged : inflight[c] \in Bad,
           late' = 0, Running, Running', [Next]_vars
    PROVE  Serves(s)'
<1> RunTypes /\ BudgetTypes /\ WireTypes /\ CounterTypes /\ Control
  BY Controlled
<1>0. s \notin Bad /\ s # NoSource /\ late = 0 /\ s \notin Faulty
  BY BadGrows, InTime, BoundsAssumption DEF BoundsAssumption, Running, NoSource, Bad
<1> DEFINE Apart == have'[s] = have[s] /\ toSrc'[s] = toSrc[s] /\ fromSrc'[s] = fromSrc[s]
<1>1. ASSUME Apart, UNCHANGED verified, \A c \in Chunks : inflight'[c] = s <=> inflight[c] = s, pc # "write"
      PROVE  Serves(s)'
  BY <1>0, <1>1, ServesApart
<1>2. CASE Start
  <2>1. closed = {} /\ serving[s] # "gone" /\ pc = "start" /\ UNCHANGED <<verified, inflight, have, fromSrc>>
    BY <1>0, <1>2 DEF Start, Running, EndRun, Bad, budget
  <2> DEFINE f == [kind |-> "hello", have |-> verified]
  <2>2. f \in ToFrames /\ WorthSending(f, s)
    BY FramesToPeers DEF RunTypes, WorthSending
  <2>3. toSrc'[s] = Append(toSrc[s], f) /\ toSrc[s] \in Seq(ToFrames)
    BY <1>2, <2>1 DEF Start, WireTypes
  <2> HIDE DEF f
  <2>4. Range(toSrc'[s]) = Range(toSrc[s]) \cup {f}
    BY <2>2, <2>3, FramesOf
  <2> QED
    BY <1>0, <2>1, <2>2, <2>4, ServesThrough
<1>3. CASE Dispatch
  <2> DEFINE c == Min(Dispatchable)
  <2>1. c \in Chunks /\ inflight[c] = NoSource /\ c \notin verified
    BY <1>3, DispatchedIsPending DEF Dispatch, Pending, InFlight
  <2>2. PICK t \in Sources :
          /\ inflight' = [inflight EXCEPT ![c] = t]
          /\ toSrc' = Sent(toSrc, t, [kind |-> "request", chunk |-> c])
    BY <1>3 DEF Dispatch, Running, EndRun
  <2>3. pc = "refill" /\ UNCHANGED <<verified, have, fromSrc>>
    BY <1>3 DEF Dispatch
  <2> HIDE DEF c
  <2> DEFINE r == [kind |-> "request", chunk |-> c]
  <2>4. r \in ToFrames
    BY <2>1, FramesToPeers
  <2>5. inflight'[c] = t /\ \A d \in Chunks : d # c => inflight'[d] = inflight[d]
    BY <2>1, <2>2 DEF BudgetTypes
  <2>6. CASE t # s
    <3>1. toSrc'[s] = toSrc[s]
      BY <2>2, <2>4, <2>6, SentAdds
    <3> QED
      BY <1>0, <1>1, <2>1, <2>3, <2>5, <2>6, <3>1
  <2>7. CASE t = s
    <3>1. Range(toSrc'[s]) = Range(toSrc[s]) \cup {r}
      BY <1>0, <2>2, <2>4, <2>7, SentAdds
    <3>2. ASSUME NEW f \in Range(toSrc'[s]) PROVE WorthSending(f, s)'
      <4>1. CASE f = r
        BY <2>5, <2>7, <4>1 DEF WorthSending, AskedOrHeld
      <4>2. CASE f \in Range(toSrc[s])
        BY <1>0, <2>1, <2>3, <2>5, <4>2, GoodPeersFrames DEF Serves, WorthSending, AskedOrHeld
      <4> QED
        BY <3>1, <3>2, <4>1, <4>2
    <3>3. ASSUME NEW f \in Range(fromSrc'[s]) PROVE AskedOrHeld(f.chunk, s)'
      BY <1>0, <2>1, <2>3, <2>5, <3>3, GoodPeersFrames DEF Serves, AskedOrHeld
    <3>4. ASSUME NEW d \in Chunks, inflight'[d] = s PROVE AnswerComes(d, s)'
      BY <2>3, <2>5, <3>1, <3>4 DEF Serves, AnswerComes
    <3> QED
      BY <2>3, <3>2, <3>3, <3>4 DEF Serves
  <2> QED
    BY <2>6, <2>7
<1>4. CASE Recover \/ EndRefill \/ Tick \/ AllVerified \/ Assemble \/ Publish \/ UNCHANGED vars
  <2>1. CASE UNCHANGED vars
    BY <1>0, <2>1, ServesApart DEF vars
  <2>2. CASE Recover \/ EndRefill \/ Tick \/ AllVerified \/ Assemble \/ Publish
    <3>1. Apart /\ UNCHANGED <<verified, inflight>> /\ pc # "write"
      BY <2>2 DEF Recover, EndRefill, Tick, AllVerified, Assemble, Publish, durable, wire, budget
    <3> QED
      BY <1>1, <3>1
  <2> QED
    BY <1>4, <2>1, <2>2
<1>5. ASSUME NEW c \in Chunks, NEW t \in Sources, t # s, inflight[c] = t,
             inflight' = [inflight EXCEPT ![c] = NoSource] \/ UNCHANGED inflight
      PROVE  \A d \in Chunks : inflight'[d] = s <=> inflight[d] = s
  BY <1>0, <1>5 DEF BudgetTypes
<1>6. ASSUME NEW c \in Chunks, NEW t \in Sources, t # s, NEW bad \in BOOLEAN, ApplyNak(c, t, bad)
      PROVE  \A d \in Chunks : inflight'[d] = s <=> inflight[d] = s
  BY <1>0, <1>6 DEF BudgetTypes, ApplyNak, NakDemotes, StaleNak
<1>7. ASSUME NEW c \in Chunks, StuckChunk(c) PROVE Serves(s)'
  <2> DEFINE t == inflight[c]
  <2>1. t \in Sources /\ t # s /\ pc = "stuck" /\ UNCHANGED <<verified, have, fromSrc>>
    BY <1>0, <1>7 DEF StuckChunk, Control, WorkIsInFlight, InFlight, BudgetTypes
  <2>2. [kind |-> "request", chunk |-> c] \in ToFrames
    BY FramesToPeers
  <2>3. toSrc'[s] = toSrc[s]
    BY <1>7, <2>1, <2>2, SentAdds DEF StuckChunk
  <2>4. UNCHANGED inflight \/ ApplyNak(c, t, FALSE)
    BY <1>7 DEF StuckChunk
  <2>5. \A d \in Chunks : inflight'[d] = s <=> inflight[d] = s
    BY <1>6, <2>1, <2>4
  <2> QED
    BY <1>1, <2>1, <2>3, <2>5
<1>8. ASSUME NEW t \in Sources, BadChunk(t) \/ NakFrame(t) PROVE Serves(s)'
  <2> DEFINE c == Head(fromSrc[t]).chunk
  <2>1. t # s
    BY <1>0, <1>8, ReceivedTakes, GoodPeersFrames DEF BadChunk, NakFrame
  <2>2. c \in Chunks /\ pc = "wait" /\ fromSrc'[s] = fromSrc[s] /\ UNCHANGED <<verified, have>>
    BY <1>8, <2>1, ReceivedIsTyped, ReceivedTakes DEF BadChunk, NakFrame
  <2>3. \E bad \in BOOLEAN : ApplyNak(c, t, bad)
    BY <1>8 DEF BadChunk, NakFrame
  <2>4. UNCHANGED toSrc \/ toSrc' = Sent(toSrc, t, [kind |-> "nak", chunk |-> c])
    BY <1>8 DEF BadChunk, NakFrame
  <2> HIDE DEF c
  <2>5. [kind |-> "nak", chunk |-> c] \in ToFrames
    BY <2>2, FramesToPeers
  <2>6. toSrc'[s] = toSrc[s]
    BY <2>1, <2>4, <2>5, SentAdds
  <2> QED
    BY <1>1, <1>6, <2>1, <2>2, <2>3, <2>6
<1>9. ASSUME NEW t \in Sources, UnexpectedChunk(t) PROVE Serves(s)'
  <2> DEFINE c == Head(fromSrc[t]).chunk
             a == [kind |-> "ack", chunk |-> c]
  <2>1. /\ c \in Chunks /\ pc = "wait" /\ inflight[c] # t /\ toSrc' = Sent(toSrc, t, a)
        /\ UNCHANGED <<verified, have, inflight>>
    BY <1>9, ReceivedIsTyped DEF UnexpectedChunk, budget
  <2>2. Received(t, "chunk")
    BY <1>9 DEF UnexpectedChunk
  <2>3. a \in ToFrames
    BY <2>1, FramesToPeers
  <2>4. CASE t # s
    <3>1. toSrc'[s] = toSrc[s] /\ fromSrc'[s] = fromSrc[s]
      BY <2>1, <2>2, <2>3, <2>4, SentAdds, ReceivedTakes
    <3> QED
      BY <1>1, <2>1, <3>1
  <2>5. CASE t = s
    <3>1. Head(fromSrc[s]) \in Range(fromSrc[s]) /\ Range(fromSrc[s]) = {Head(fromSrc[s])} \cup Range(fromSrc'[s])
      BY <2>2, <2>5, ReceivedTakes
    <3>2. c \in verified
      BY <2>1, <2>5, <3>1 DEF Serves, AskedOrHeld
    <3>3. Range(toSrc'[s]) = Range(toSrc[s]) \cup {a}
      BY <1>0, <2>1, <2>3, <2>5, SentAdds
    <3>4. ASSUME NEW f \in Range(toSrc'[s]) PROVE WorthSending(f, s)'
      BY <2>1, <3>2, <3>3, <3>4 DEF Serves, WorthSending, AskedOrHeld
    <3>5. ASSUME NEW f \in Range(fromSrc'[s]) PROVE AskedOrHeld(f.chunk, s)'
      BY <2>1, <3>1, <3>5 DEF Serves, AskedOrHeld
    <3>6. ASSUME NEW d \in Chunks, inflight'[d] = s PROVE AnswerComes(d, s)'
      <4>1. AnswerComes(d, s) /\ pc # "write" /\ inflight[d] = s
        BY <2>1, <3>6 DEF Serves
      <4>2. d # c
        BY <2>1, <2>5, <4>1
      <4>3. [kind |-> "chunk", chunk |-> d, good |-> TRUE] # Head(fromSrc[s])
        BY <2>5, <4>2
      <4> QED
        BY <3>1, <3>3, <4>1, <4>3 DEF AnswerComes
    <3> QED
      BY <2>1, <3>4, <3>5, <3>6 DEF Serves
  <2> QED
    BY <2>4, <2>5
<1>10. ASSUME NEW t \in Sources, WriteChunk(t) PROVE Serves(s)'
  <2> DEFINE c == Head(fromSrc[t]).chunk
  <2>1. /\ c \in Chunks /\ pc = "wait" /\ inflight[c] = t /\ writing' = <<c, t>> /\ pc' = "write"
        /\ UNCHANGED <<verified, have, inflight, toSrc>>
    BY <1>10, ReceivedIsTyped DEF WriteChunk, budget
  <2>2. Received(t, "chunk")
    BY <1>10 DEF WriteChunk
  <2>3. CASE t # s
    BY <1>1, <2>1, <2>2, <2>3, ReceivedTakes
  <2>4. CASE t = s
    <3>1. Head(fromSrc[s]) \in Range(fromSrc[s]) /\ Range(fromSrc[s]) = {Head(fromSrc[s])} \cup Range(fromSrc'[s])
      BY <2>2, <2>4, ReceivedTakes
    <3>2. ASSUME NEW f \in Range(toSrc'[s]) PROVE WorthSending(f, s)'
      BY <2>1, <3>2 DEF Serves, WorthSending, AskedOrHeld
    <3>3. ASSUME NEW f \in Range(fromSrc'[s]) PROVE AskedOrHeld(f.chunk, s)'
      BY <2>1, <3>1, <3>3 DEF Serves, AskedOrHeld
    <3>4. ASSUME NEW d \in Chunks, inflight'[d] = s PROVE AnswerComes(d, s)'
      <4>1. AnswerComes(d, s) /\ pc # "write"
        BY <2>1, <3>4 DEF Serves
      <4>2. CASE d = c
        BY <2>1, <2>4, <4>2 DEF AnswerComes
      <4>3. CASE d # c
        <5>1. [kind |-> "chunk", chunk |-> d, good |-> TRUE] # Head(fromSrc[s])
          BY <2>4, <4>3
        <5> QED
          BY <2>1, <3>1, <4>1, <5>1 DEF AnswerComes
      <4> QED
        BY <4>2, <4>3
    <3> QED
      BY <2>1, <3>2, <3>3, <3>4 DEF Serves
  <2> QED
    BY <2>3, <2>4
<1>11. CASE MarkChunk
  <2> DEFINE c == writing[1]
             t == writing[2]
             a == [kind |-> "ack", chunk |-> c]
  <2>1. /\ c \in Chunks /\ t \in Sources /\ inflight[c] = t /\ pc = "write" /\ writing = <<c, t>>
    BY <1>11 DEF MarkChunk, Control, WorkIsInFlight, RunTypes
  <2>2. /\ verified' = verified \cup {c} /\ inflight' = [inflight EXCEPT ![c] = NoSource]
        /\ toSrc' = Sent(toSrc, t, a) /\ UNCHANGED <<have, fromSrc>> /\ pc' = "refill"
    BY <1>11 DEF MarkChunk
  <2> HIDE DEF c, t
  <2>3. a \in ToFrames
    BY <2>1, FramesToPeers
  <2>4. inflight'[c] = NoSource /\ \A d \in Chunks : d # c => inflight'[d] = inflight[d]
    BY <2>1, <2>2 DEF BudgetTypes
  <2>5. CASE t # s
    <3>1. toSrc'[s] = toSrc[s]
      BY <2>1, <2>2, <2>3, <2>5, SentAdds
    <3> QED
      BY <1>0, <2>1, <2>2, <2>4, <2>5, <3>1, ServesApart
  <2>6. CASE t = s
    <3>1. Range(toSrc'[s]) = Range(toSrc[s]) \cup {a}
      BY <1>0, <2>1, <2>2, <2>3, <2>6, SentAdds
    <3>2. ASSUME NEW f \in Range(toSrc'[s]) PROVE WorthSending(f, s)'
      <4>1. CASE f = a
        BY <2>2, <4>1 DEF WorthSending
      <4>2. CASE f \in Range(toSrc[s])
        BY <1>0, <2>2, <2>4, <4>2, GoodPeersFrames DEF Serves, WorthSending, AskedOrHeld
      <4> QED
        BY <3>1, <3>2, <4>1, <4>2
    <3>3. ASSUME NEW f \in Range(fromSrc'[s]) PROVE AskedOrHeld(f.chunk, s)'
      BY <1>0, <2>2, <2>4, <3>3, GoodPeersFrames DEF Serves, AskedOrHeld
    <3>4. ASSUME NEW d \in Chunks, inflight'[d] = s PROVE AnswerComes(d, s)'
      <4>1. d # c /\ inflight[d] = s
        BY <1>0, <2>4, <3>4
      <4>2. AnswerComes(d, s) /\ writing # <<d, s>>
        BY <2>1, <4>1 DEF Serves
      <4> QED
        BY <2>2, <3>1, <4>2 DEF AnswerComes
    <3> QED
      BY <2>2, <3>2, <3>3, <3>4 DEF Serves
  <2> QED
    BY <2>5, <2>6
<1>12. ASSUME NEW t \in Sources, Serve(t) \/ SenderFails(t) PROVE Serves(s)'
  <2>1. UNCHANGED <<verified, inflight, pc, writing>>
    BY <1>12 DEF Serve, SenderHello, SenderRequest, SenderAck, SenderNak, SenderFails, viewer, durable, budget
  <2>2. CASE t # s
    <3>1. Apart
      BY <1>12, <2>2, HeardTakes DEF Serve, SenderHello, SenderRequest, SenderAck, SenderNak, SenderFails, WireTypes
    <3> QED
      BY <1>0, <2>1, <3>1, ServesApart
  <2>3. ASSUME t = s, NEW k, Heard(s, k), k # "request",
               UNCHANGED fromSrc, have'[s] \subseteq verified
        PROVE  Serves(s)'
    <3>1. Range(toSrc[s]) = {Head(toSrc[s])} \cup Range(toSrc'[s]) /\ Head(toSrc[s]).kind # "request"
      BY <2>3, HeardTakes
    <3>2. ASSUME NEW f \in Range(toSrc'[s]) PROVE WorthSending(f, s)'
      BY <2>1, <3>1, <3>2 DEF Serves, WorthSending, AskedOrHeld
    <3>3. ASSUME NEW f \in Range(fromSrc'[s]) PROVE AskedOrHeld(f.chunk, s)'
      BY <2>1, <2>3, <3>3 DEF Serves, AskedOrHeld
    <3>4. ASSUME NEW d \in Chunks, inflight'[d] = s PROVE AnswerComes(d, s)'
      <4>1. [kind |-> "request", chunk |-> d] # Head(toSrc[s])
        BY <3>1
      <4>2. AnswerComes(d, s)
        BY <2>1, <3>4 DEF Serves
      <4> QED
        BY <2>1, <2>3, <3>1, <4>1, <4>2 DEF AnswerComes
    <3> QED
      BY <2>1, <2>3, <3>2, <3>3, <3>4 DEF Serves
  <2>4. CASE t = s /\ SenderHello(s)
    <3>1. Heard(s, "hello") /\ have' = [have EXCEPT ![s] = Head(toSrc[s]).have] /\ UNCHANGED fromSrc
      BY <2>4 DEF SenderHello
    <3>2. Head(toSrc[s]).have \subseteq verified
      BY <3>1, HeardTakes DEF Serves, WorthSending
    <3>3. have'[s] \subseteq verified
      BY <3>1, <3>2 DEF WireTypes
    <3> QED
      BY <2>3, <2>4, <3>1, <3>3
  <2>5. CASE t = s /\ SenderAck(s)
    <3>1. Heard(s, "ack") /\ have' = [have EXCEPT ![s] = @ \cup {Head(toSrc[s]).chunk}] /\ UNCHANGED fromSrc
      BY <2>5 DEF SenderAck
    <3>2. Head(toSrc[s]).chunk \in verified
      BY <3>1, HeardTakes DEF Serves, WorthSending
    <3>3. have'[s] \subseteq verified
      BY <3>1, <3>2 DEF WireTypes, Serves
    <3> QED
      BY <2>3, <2>5, <3>1, <3>3
  <2>6. CASE t = s /\ SenderNak(s)
    BY <1>0, <2>6, HeardTakes, GoodPeersFrames DEF SenderNak
  <2>7. CASE t = s /\ SenderFails(s)
    BY <2>7 DEF SenderFails, Bad, WireTypes
  <2>8. CASE t = s /\ SenderRequest(s)
    <3> DEFINE c == Head(toSrc[s]).chunk
               g == [kind |-> "chunk", chunk |-> c, good |-> TRUE]
    <3>1. Heard(s, "request") /\ UNCHANGED have /\ c \in Chunks
      BY <2>8, HeardIsTyped DEF SenderRequest
    <3>2. /\ Range(toSrc[s]) = {Head(toSrc[s])} \cup Range(toSrc'[s])
          /\ Head(toSrc[s]) \in Range(toSrc[s]) /\ Head(toSrc[s]).kind = "request"
      BY <3>1, HeardTakes
    <3>3. AskedOrHeld(c, s)
      BY <3>2 DEF Serves, WorthSending
    <3>4. ASSUME NEW f \in Range(toSrc'[s]) PROVE WorthSending(f, s)'
      BY <2>1, <3>2, <3>4 DEF Serves, WorthSending, AskedOrHeld
    <3>5. CASE c \in have[s]
      <4>1. UNCHANGED fromSrc
        BY <2>8, <3>5 DEF SenderRequest
      <4>2. c \in verified
        BY <3>5 DEF Serves
      <4>3. ASSUME NEW f \in Range(fromSrc'[s]) PROVE AskedOrHeld(f.chunk, s)'
        BY <2>1, <4>1, <4>3 DEF Serves, AskedOrHeld
      <4>4. ASSUME NEW d \in Chunks, inflight'[d] = s PROVE AnswerComes(d, s)'
        <5>1. d # c
          BY <1>0, <2>1, <4>2, <4>4 DEF Control, AskedOnce
        <5>2. [kind |-> "request", chunk |-> d] # Head(toSrc[s])
          BY <5>1
        <5>3. AnswerComes(d, s)
          BY <2>1, <4>4 DEF Serves
        <5> QED
          BY <2>1, <3>2, <4>1, <5>2, <5>3 DEF AnswerComes
      <4> QED
        BY <2>1, <3>1, <3>4, <4>3, <4>4 DEF Serves
    <3>6. CASE c \notin have[s]
      <4>1. Answers(s, c) = {<<g>>}
        BY <1>0 DEF Answers
      <4>2. \E a \in Answers(s, c) : fromSrc' = [fromSrc EXCEPT ![s] = @ \o a]
        BY <2>8, <3>6 DEF SenderRequest
      <4>3. fromSrc[s] \in Seq(FromFrames) /\ g \in FromFrames /\ fromSrc \in [Sources -> Seq(FromFrames)]
        BY <3>1, FramesFromPeers DEF WireTypes
      <4>4. fromSrc'[s] = fromSrc[s] \o <<g>>
        BY <4>1, <4>2, <4>3
      <4>5. g.chunk = c
        OBVIOUS
      <4> HIDE DEF c, g
      <4>6. Range(fromSrc'[s]) = Range(fromSrc[s]) \cup {g}
        BY <4>3, <4>4, FramesOf
      <4>7. ASSUME NEW f \in Range(fromSrc'[s]) PROVE AskedOrHeld(f.chunk, s)'
        BY <2>1, <3>3, <4>5, <4>6, <4>7 DEF Serves, AskedOrHeld
      <4>8. ASSUME NEW d \in Chunks, inflight'[d] = s PROVE AnswerComes(d, s)'
        <5>1. AnswerComes(d, s)
          BY <2>1, <4>8 DEF Serves
        <5>2. CASE d = c
          BY <4>6, <5>2 DEF AnswerComes, g
        <5>3. CASE d # c
          <6>1. [kind |-> "request", chunk |-> d] # Head(toSrc[s])
            BY <5>3 DEF c
          <6> QED
            BY <2>1, <3>2, <4>6, <5>1, <6>1 DEF AnswerComes
        <5> QED
          BY <5>2, <5>3
      <4> QED
        BY <2>1, <3>1, <3>4, <4>7, <4>8 DEF Serves
    <3> QED
      BY <3>5, <3>6
  <2> QED
    BY <1>12, <2>2, <2>4, <2>5, <2>6, <2>7, <2>8 DEF Serve
<1>13. ASSUME NEW S \in SUBSET Sources, ChannelsClose(S) PROVE Serves(s)'
  <2>1. s \notin S
    BY <1>13 DEF ChannelsClose, Bad
  <2>2. Apart /\ UNCHANGED <<verified, inflight, pc, writing>>
    BY <1>13, <2>1 DEF ChannelsClose, WireTypes, viewer, durable, budget
  <2> QED
    BY <1>0, <2>2, ServesApart
<1>14. ~(StoreFails \/ AllSourcesGone \/ Cancel \/ Crash \/ Reopen)
  BY DEF StoreFails, AllSourcesGone, Cancel, Crash, Reopen, EndRun, Running
<1>15. ASSUME NEW t \in Sources, PeerEnds(t) PROVE FALSE
  BY <1>15 DEF PeerEnds, EndRun, Running
<1> QED
  BY <1>2, <1>3, <1>4, <1>7, <1>8, <1>9, <1>10, <1>11, <1>12, <1>13, <1>14, <1>15 DEF Next, Frame

-----------------------------------------------------------------------------
(* Nothing is charged to a peer that is not bad.                              *)

LEMMA ChargedApart ==
    ASSUME UNCHANGED <<retries, tried>>, \A c \in Chunks \ verified' : nak'[c] = nak[c],
           verified \subseteq verified', Bad \subseteq Bad',
           \A c \in aged' : inflight'[c] \in Bad',
           \A c \in Chunks : Charged(c)
    PROVE  \A c \in Chunks : Charged(c)'
<1> SUFFICES ASSUME NEW c \in Chunks PROVE Charged(c)'
  OBVIOUS
<1>1. ASSUME c \notin verified', NEW b \in Sources, Bad' \subseteq {b} PROVE Spent(c, b)'
  <2>1. Spent(c, b)
    BY <1>1 DEF Charged
  <2>2. nak'[c] = nak[c]
    BY <1>1
  <2> QED
    BY <2>1, <2>2 DEF Spent
<1>2. tried'[c] \subseteq Bad'
  BY DEF Charged
<1> QED
  BY <1>1, <1>2 DEF Charged

\* A NAK against a bad peer, before the budget is spent.
LEMMA NakCharged ==
    ASSUME BudgetTypes, CountersBelow, NEW c \in Chunks \ verified, NEW s \in Sources, NEW bad \in BOOLEAN,
           inflight[c] = s, s \in Bad, Charged(c)
    PROVE  /\ \A b \in Sources : Bad \subseteq {b} => b = s /\ retries[c] + 1 <= nak[c][s] + 1
                                                     /\ nak[c][s] + 1 <= NAK_THRESHOLD
           /\ ApplyNak(c, s, bad) /\ ~NakExhausts(c, s) =>
                 /\ tried'[c] \subseteq Bad
                 /\ \A b \in Sources : Bad \subseteq {b} => Spent(c, b)'
                 /\ \A d \in Chunks \ {c} : /\ retries'[d] = retries[d] /\ tried'[d] = tried[d]
                                          /\ nak'[d] = nak[d] /\ inflight'[d] = inflight[d]
<1>1. /\ nak \in [Chunks -> [Sources -> Nat]] /\ inflight \in [Chunks -> Sources \cup {NoSource}]
      /\ tried \in [Chunks -> SUBSET Sources] /\ retries \in [Chunks -> Nat]
  BY DEF BudgetTypes
<1>2. NAK_THRESHOLD \in Nat \ {0} /\ nak[c][s] \in Nat /\ retries[c] \in Nat
      /\ nak[c][s] < NAK_THRESHOLD /\ s \notin tried[c]
  BY <1>1, BoundsAssumption DEF BoundsAssumption, CountersBelow
<1>3. ASSUME NEW b \in Sources, Bad \subseteq {b}
      PROVE  b = s /\ retries[c] <= nak[c][s]
  <2>1. b = s /\ Spent(c, b)
    BY <1>3 DEF Charged
  <2> QED
    BY <1>2, <2>1 DEF Spent
<1>4. ASSUME ApplyNak(c, s, bad), ~NakExhausts(c, s)
      PROVE  /\ tried'[c] \subseteq Bad
             /\ \A b \in Sources : Bad \subseteq {b} => Spent(c, b)'
             /\ \A d \in Chunks \ {c} : /\ retries'[d] = retries[d] /\ tried'[d] = tried[d]
                                      /\ nak'[d] = nak[d] /\ inflight'[d] = inflight[d]
  <2>1. /\ retries'[c] = retries[c] + 1
        /\ tried'[c] = IF NakDemotes(c, s) THEN tried[c] \cup {s} ELSE tried[c]
        /\ nak'[c][s] = IF NakDemotes(c, s) THEN 0 ELSE nak[c][s] + 1
    BY <1>1, <1>4 DEF ApplyNak, StaleNak
  <2>2. tried'[c] \subseteq Bad
    BY <2>1 DEF Charged
  <2>3. ASSUME NEW b \in Sources, Bad \subseteq {b} PROVE Spent(c, b)'
    <3>1. b = s /\ retries[c] + 1 <= nak[c][s] + 1 /\ nak[c][s] + 1 <= NAK_THRESHOLD
      BY <1>2, <1>3, <2>3
    <3>2. CASE NakDemotes(c, s)
      BY <1>2, <2>1, <3>1, <3>2 DEF Spent
    <3>3. CASE ~NakDemotes(c, s)
      BY <1>2, <2>1, <3>1, <3>3 DEF Spent
    <3> QED
      BY <3>2, <3>3
  <2>4. \A d \in Chunks \ {c} : /\ retries'[d] = retries[d] /\ tried'[d] = tried[d]
                             /\ nak'[d] = nak[d] /\ inflight'[d] = inflight[d]
    BY <1>1, <1>4 DEF ApplyNak
  <2> QED
    BY <2>2, <2>3, <2>4
<1> QED
  BY <1>2, <1>3, <1>4

\* Who is charged is bad: an overdue request is one of a bad peer, and only a
\* faulty peer sends a bad chunk or a Nak.
LEMMA ChargedIsBad ==
    ASSUME StoreInv, HonestFrames, AgedHandled, \A c \in Chunks : Charged(c)
    PROVE  /\ \A c \in Chunks : StuckChunk(c) => inflight[c] \in Sources \cap Bad /\ c \notin verified
           /\ \A s \in Sources : BadChunk(s) \/ NakFrame(s) => s \in Bad /\ Head(fromSrc[s]).chunk \in Chunks
<1> RunTypes /\ BudgetTypes /\ WireTypes /\ CounterTypes /\ Control
  BY Controlled
<1>1. ASSUME NEW c \in Chunks, StuckChunk(c) PROVE inflight[c] \in Sources \cap Bad /\ c \notin verified
  <2>1. c \in aged /\ pc = "stuck" /\ aged \subseteq InFlight
    BY <1>1 DEF StuckChunk, AgedHandled
  <2> QED
    BY <2>1 DEF Charged, InFlight, BudgetTypes, Control, AskedOnce
<1>2. ASSUME NEW s \in Sources, BadChunk(s) \/ NakFrame(s) PROVE s \in Bad /\ Head(fromSrc[s]).chunk \in Chunks
  BY <1>2, ReceivedTakes, ReceivedIsTyped, GoodPeersFrames DEF BadChunk, NakFrame
<1> QED
  BY <1>1, <1>2

\* When nothing is under way, nothing is in flight at a peer that is not bad.
LEMMA QuietMeansBad ==
    ASSUME BudgetTypes, \A s \in Sources \ Bad : Serves(s), Quiet, pc = "wait", NEW c \in InFlight
    PROVE  inflight[c] \in Bad
<1>1. c \in Chunks /\ inflight[c] \in Sources
  BY DEF InFlight, BudgetTypes
<1> DEFINE s == inflight[c]
<1>2. SUFFICES ASSUME s \notin Bad PROVE FALSE
  OBVIOUS
<1>3. AnswerComes(c, s)
  BY <1>1, <1>2 DEF Serves
<1>4. s \notin closed
  BY <1>1, <1>2 DEF Bad
<1>5. toSrc[s] = <<>> /\ fromSrc[s] = <<>>
  BY <1>1, <1>4 DEF Quiet
<1> QED
  BY <1>3, <1>5, NoFramesIn DEF AnswerComes

LEMMA StaysCharged ==
    ASSUME StoreInv, HonestFrames, CountersBelow, AgedHandled, \A s \in Sources \ Bad : Serves(s),
           \A c \in Chunks : Charged(c), late' = 0, Running, Running', [Next]_vars
    PROVE  \A c \in Chunks : Charged(c)'
<1> RunTypes /\ BudgetTypes /\ WireTypes /\ CounterTypes /\ Control
  BY Controlled
<1>0. Bad \subseteq Bad' /\ (\A is \in BOOLEAN : Late(is) => ~is)
  BY BadGrows, InTime DEF Running
<1> DEFINE Kept == \A c \in Chunks : Charged(c)'
<1>1. \A c \in aged : c \in Chunks /\ inflight[c] \in Bad
  BY DEF Charged, RunTypes
<1>2. ASSUME UNCHANGED <<retries, tried, nak>>, verified \subseteq verified', aged' \subseteq aged,
             \A c \in aged' : inflight'[c] = inflight[c]
      PROVE  Kept
  BY <1>0, <1>1, <1>2, ChargedApart
<1>3. CASE Start \/ Recover \/ AllVerified \/ Assemble \/ Publish \/ UNCHANGED vars
  <2>1. UNCHANGED <<retries, tried, nak, verified, inflight>> /\ aged' \subseteq aged
    BY <1>3 DEF Start, EndRun, Recover, AllVerified, Assemble, Publish, durable, budget, vars
  <2> QED
    BY <1>2, <2>1
<1>4. CASE Dispatch
  <2> DEFINE c == Min(Dispatchable)
  <2>1. c \in Chunks /\ inflight[c] = NoSource
    BY <1>4, DispatchedIsPending DEF Dispatch, Pending, InFlight
  <2>2. PICK t \in Sources : inflight' = [inflight EXCEPT ![c] = t] /\ UNCHANGED aged
    BY <1>4 DEF Dispatch, Running, EndRun
  <2>3. aged \subseteq InFlight
    BY <1>4 DEF Dispatch, AgedHandled
  <2> HIDE DEF c
  <2>4. \A d \in aged : inflight'[d] = inflight[d]
    BY <2>1, <2>2, <2>3 DEF InFlight, BudgetTypes
  <2> QED
    BY <1>2, <1>4, <2>2, <2>4 DEF Dispatch
<1>5. CASE EndRefill
  <2>1. aged' = aged
    BY <1>0, <1>5 DEF EndRefill
  <2> QED
    BY <1>2, <1>5, <2>1 DEF EndRefill, budget
<1>6. CASE Tick
  <2>1. Quiet /\ aged' = InFlight /\ pc = "wait" /\ UNCHANGED <<retries, tried, nak, verified, inflight>>
    BY <1>0, <1>6 DEF Tick, budget
  <2>2. \A c \in aged' : inflight'[c] \in Bad'
    BY <1>0, <2>1, QuietMeansBad
  <2> QED
    BY <1>0, <2>1, <2>2, ChargedApart
<1>7. ASSUME NEW c \in Chunks, NEW s \in Sources \cap Bad, NEW bad \in BOOLEAN, inflight[c] = s,
             ApplyNak(c, s, bad), ~NakExhausts(c, s), UNCHANGED verified, aged' \subseteq aged \ {c}
      PROVE  Kept
  <2>1. c \notin verified
    BY <1>7, BoundsAssumption DEF BoundsAssumption, NoSource, Control, AskedOnce
  <2>2. /\ tried'[c] \subseteq Bad
        /\ \A b \in Sources : Bad \subseteq {b} => Spent(c, b)'
        /\ \A d \in Chunks \ {c} : /\ retries'[d] = retries[d] /\ tried'[d] = tried[d]
                                 /\ nak'[d] = nak[d] /\ inflight'[d] = inflight[d]
    BY <1>7, <2>1, NakCharged
  <2>3. Charged(c)'
    BY <1>0, <1>7, <2>2 DEF Charged
  <2>4. ASSUME NEW d \in Chunks \ {c} PROVE Charged(d)'
    <3>1. \A b \in Sources : Spent(d, b)' <=> Spent(d, b)
      BY <2>2 DEF Spent
    <3> QED
      BY <1>0, <1>7, <2>2, <3>1 DEF Charged
  <2> QED
    BY <2>3, <2>4
<1>8. ASSUME NEW c \in Chunks, StuckChunk(c) PROVE Kept
  <2> DEFINE s == inflight[c]
  <2>1. s \in Sources \cap Bad
    BY <1>8, ChargedIsBad
  <2>2. Keep(IF aged = {c} THEN "wait" ELSE "stuck") /\ aged' = aged \ {c} /\ UNCHANGED verified
        /\ \/ UNCHANGED <<retries, tried, nak, inflight>>
           \/ ApplyNak(c, s, FALSE) /\ ~NakExhausts(c, s)
    BY <1>8 DEF StuckChunk, Running, EndRun
  <2>3. CASE UNCHANGED <<retries, tried, nak, inflight>>
    BY <1>2, <2>2, <2>3
  <2>4. CASE ApplyNak(c, s, FALSE) /\ ~NakExhausts(c, s)
    BY <1>7, <2>1, <2>2, <2>4
  <2> QED
    BY <2>2, <2>3, <2>4
<1>9. ASSUME NEW s \in Sources, BadChunk(s) \/ NakFrame(s) PROVE Kept
  <2> DEFINE c == Head(fromSrc[s]).chunk
  <2>1. s \in Bad /\ c \in Chunks
    BY <1>9, ChargedIsBad
  <2>2. PICK bad \in BOOLEAN : ApplyNak(c, s, bad)
    BY <1>9 DEF BadChunk, NakFrame
  <2>3. ~NakExhausts(c, s) /\ UNCHANGED <<verified, aged>> /\ pc = "wait" /\ (BadChunk(s) => inflight[c] = s)
    BY <1>9 DEF BadChunk, NakFrame, Running, EndRun, Received
  <2>4. aged = {}
    BY <2>3 DEF AgedHandled
  <2>5. CASE inflight[c] = s
    BY <1>7, <2>1, <2>2, <2>3, <2>4, <2>5
  <2>6. CASE inflight[c] # s
    <3>1. NakFrame(s) /\ StaleNak(c, s) /\ ApplyNak(c, s, FALSE)
      BY <1>9, <2>3, <2>6 DEF NakFrame, StaleNak
    <3>2. UNCHANGED <<retries, tried, nak, inflight>>
      BY <2>1, <3>1 DEF ApplyNak, NakDemotes, NakExhausts, BudgetTypes
    <3> QED
      BY <1>2, <2>3, <3>2
  <2> QED
    BY <2>5, <2>6
<1>10. ASSUME NEW s \in Sources, UnexpectedChunk(s) \/ WriteChunk(s) PROVE Kept
  <2>1. UNCHANGED <<retries, tried, nak, verified, inflight, aged>>
    BY <1>10 DEF UnexpectedChunk, WriteChunk, budget
  <2> QED
    BY <1>2, <2>1
<1>11. CASE MarkChunk
  <2> DEFINE c == writing[1]
             s == writing[2]
  <2>1. /\ c \in Chunks /\ verified' = verified \cup {c} /\ nak' = [nak EXCEPT ![c][s] = 0]
        /\ UNCHANGED <<retries, tried, aged>> /\ pc = "write"
    BY <1>11 DEF MarkChunk, Control, WorkIsInFlight, RunTypes
  <2> HIDE DEF c, s
  <2>2. \A d \in Chunks \ verified' : nak'[d] = nak[d]
    BY <2>1 DEF BudgetTypes
  <2>3. aged' = {}
    BY <2>1 DEF AgedHandled
  <2> QED
    BY <1>0, <2>1, <2>2, <2>3, ChargedApart
<1>12. ASSUME NEW t \in Sources, Serve(t) \/ SenderFails(t) PROVE Kept
  <2>1. UNCHANGED <<retries, tried, nak, verified, inflight, aged>>
    BY <1>12 DEF Serve, SenderHello, SenderRequest, SenderAck, SenderNak, SenderFails, viewer, durable, budget
  <2> QED
    BY <1>2, <2>1
<1>13. ASSUME NEW S \in SUBSET Sources, ChannelsClose(S) PROVE Kept
  <2>1. UNCHANGED <<retries, tried, nak, verified, inflight, aged>>
    BY <1>13 DEF ChannelsClose, viewer, durable, budget
  <2> QED
    BY <1>2, <2>1
<1>14. ~(StoreFails \/ AllSourcesGone \/ Cancel \/ Crash \/ Reopen)
  BY DEF StoreFails, AllSourcesGone, Cancel, Crash, Reopen, EndRun, Running
<1>15. ASSUME NEW t \in Sources, PeerEnds(t) PROVE FALSE
  BY <1>15 DEF PeerEnds, EndRun, Running
<1> QED
  BY <1>3, <1>4, <1>5, <1>6, <1>8, <1>9, <1>10, <1>11, <1>12, <1>13, <1>14, <1>15 DEF Next, Frame


-----------------------------------------------------------------------------
(* A run begins, and ends.                                                    *)

LEMMA RunsBegin ==
    /\ Init => (\A s \in Sources : Serves(s)) /\ (\A c \in Chunks : Charged(c))
    /\ Reopen => (\A s \in Sources : Serves(s)') /\ (\A c \in Chunks : Charged(c)')
<1>0. NoSource \notin Sources
  BY BoundsAssumption DEF BoundsAssumption, NoSource
<1>1. ASSUME Init PROVE (\A s \in Sources : Serves(s)) /\ (\A c \in Chunks : Charged(c))
  <2>1. /\ aged = {} /\ retries = [c \in Chunks |-> 0] /\ tried = [c \in Chunks |-> {}] /\ nak = Zero
        /\ inflight = [c \in Chunks |-> NoSource] /\ have = NoChunks /\ toSrc = NoFrames /\ fromSrc = NoFrames
    BY <1>1 DEF Init
  <2>2. \A s \in Sources : Range(toSrc[s]) = {} /\ Range(fromSrc[s]) = {} /\ have[s] = {}
    BY <2>1, NoFramesIn DEF NoFrames, NoChunks
  <2>3. \A s \in Sources : Serves(s)
    BY <1>0, <2>1, <2>2 DEF Serves
  <2>4. \A c \in Chunks : Charged(c)
    BY <2>1 DEF Charged, Spent, Zero
  <2> QED
    BY <2>3, <2>4
<1>2. ASSUME Reopen PROVE (\A s \in Sources : Serves(s)') /\ (\A c \in Chunks : Charged(c)')
  <2>1. /\ aged' = {} /\ retries' = [c \in Chunks |-> 0] /\ tried' = [c \in Chunks |-> {}] /\ nak' = Zero
        /\ inflight' = [c \in Chunks |-> NoSource] /\ have' = NoChunks /\ toSrc' = NoFrames /\ fromSrc' = NoFrames
    BY <1>2 DEF Reopen
  <2>2. \A s \in Sources : Range(toSrc'[s]) = {} /\ Range(fromSrc'[s]) = {} /\ have'[s] = {}
    BY <2>1, NoFramesIn DEF NoFrames, NoChunks
  <2>3. \A s \in Sources : Serves(s)'
    BY <1>0, <2>1, <2>2 DEF Serves
  <2>4. \A c \in Chunks : Charged(c)'
    BY <2>1 DEF Charged, Spent, Zero
  <2> QED
    BY <2>3, <2>4
<1> QED
  BY <1>1, <1>2

\* Only a new run leaves the end of the last one.
LEMMA EndedStays == ASSUME ~Running, [Next]_vars PROVE Reopen \/ UNCHANGED vars
BY DEF Running, Next, Frame, Serve, Start, Recover, Dispatch, EndRefill, Tick, StuckChunk, UnexpectedChunk,
   BadChunk, WriteChunk, NakFrame, PeerEnds, Received, MarkChunk, StoreFails, AllSourcesGone, Cancel,
   AllVerified, Assemble, Publish, Crash, SenderHello, SenderRequest, SenderAck, SenderNak, SenderFails,
   Heard, ChannelsClose

\* With more retries than the threshold, the budget outlasts one bad peer.
LEMMA BudgetOutlasts ==
    ASSUME StoreInv, FaultInv, Running, why # "exhausted", Tolerable', NAK_THRESHOLD < MAX_CHUNK_RETRIES,
           [Next]_vars
    PROVE  why' # "exhausted"
<1> RunTypes /\ BudgetTypes /\ WireTypes /\ CounterTypes /\ Control
  BY Controlled
<1>1. late = 0 /\ Bad \subseteq Bad'
  BY BadGrows, InTime DEF Tolerable, Running
<1>2. HonestFrames /\ CountersBelow /\ AgedHandled /\ \A c \in Chunks : Charged(c)
  BY <1>1 DEF FaultInv
<1>3. PICK b \in Sources : Bad \subseteq {b} /\ Bad # Sources
  BY <1>1 DEF Tolerable, Bad
<1>4. NAK_THRESHOLD \in Nat \ {0} /\ MAX_CHUNK_RETRIES \in Nat
  BY BoundsAssumption DEF BoundsAssumption
<1>5. ASSUME NEW c \in Chunks \ verified PROVE ~Exhausted(c)
  <2>1. tried[c] # Sources /\ Spent(c, b) /\ retries[c] \in Nat
    BY <1>2, <1>3 DEF Charged, BudgetTypes, Bad
  <2>2. nak[c][b] < NAK_THRESHOLD /\ nak[c][b] \in Nat
    BY <1>2 DEF CountersBelow, BudgetTypes
  <2> QED
    BY <1>4, <2>1, <2>2 DEF Exhausted, Spent
<1>6. ASSUME NEW c \in Chunks, NEW s \in Sources \cap Bad, inflight[c] = s PROVE ~NakExhausts(c, s)
  <2>1. c \notin verified
    BY <1>6, BoundsAssumption DEF BoundsAssumption, NoSource, Control, AskedOnce
  <2>2. retries[c] + 1 <= nak[c][s] + 1 /\ nak[c][s] + 1 <= NAK_THRESHOLD
    BY <1>2, <1>3, <1>6, <2>1, NakCharged
  <2>3. retries[c] \in Nat /\ nak[c][s] \in Nat
    BY DEF BudgetTypes
  <2> QED
    BY <1>4, <2>2, <2>3 DEF NakExhausts
<1>7. CASE Dispatch
  <2>1. Min(Dispatchable) \in Chunks \ verified
    BY <1>7, DispatchedIsPending DEF Dispatch, Pending
  <2>2. ~Exhausted(Min(Dispatchable))
    BY <1>5, <2>1
  <2> QED
    BY <1>7, <2>2 DEF Dispatch, EndRun, Keep
<1>8. ASSUME NEW c \in Chunks, StuckChunk(c) PROVE why' # "exhausted"
  <2>1. ~NakExhausts(c, inflight[c])
    BY <1>2, <1>6, <1>8, ChargedIsBad
  <2> QED
    BY <1>8, <2>1 DEF StuckChunk, Keep
<1>9. ASSUME NEW s \in Sources, Frame(s) PROVE why' # "exhausted"
  <2>1. CASE BadChunk(s) \/ NakFrame(s)
    <3>1. s \in Bad /\ Head(fromSrc[s]).chunk \in Chunks
      BY <1>2, <2>1, ChargedIsBad
    <3>2. ~NakExhausts(Head(fromSrc[s]).chunk, s)
      BY <1>6, <3>1 DEF NakExhausts, StaleNak
    <3> QED
      BY <2>1, <3>2 DEF BadChunk, NakFrame, Keep
  <2>2. CASE UnexpectedChunk(s) \/ WriteChunk(s) \/ PeerEnds(s)
    BY <2>2 DEF UnexpectedChunk, WriteChunk, PeerEnds, EndRun, Keep
  <2> QED
    BY <1>9, <2>1, <2>2 DEF Frame
<1>10. ASSUME NEW s \in Sources, Serve(s) \/ SenderFails(s) PROVE why' # "exhausted"
  BY <1>10 DEF Serve, SenderHello, SenderRequest, SenderAck, SenderNak, SenderFails, viewer
<1>11. ASSUME NEW S \in SUBSET Sources, ChannelsClose(S) PROVE why' # "exhausted"
  BY <1>11 DEF ChannelsClose, viewer
<1>12. CASE Start \/ Recover \/ EndRefill \/ Tick \/ MarkChunk \/ StoreFails \/ AllSourcesGone \/ Cancel
            \/ AllVerified \/ Assemble \/ Publish \/ Crash \/ Reopen \/ UNCHANGED vars
  BY <1>12 DEF Start, Recover, EndRefill, Tick, MarkChunk, StoreFails, AllSourcesGone, Cancel, AllVerified,
               Assemble, Publish, Crash, Reopen, EndRun, Keep, vars
<1> QED
  BY <1>7, <1>8, <1>9, <1>10, <1>11, <1>12 DEF Next

\* One bad peer never costs a download its retry budget: while at most one peer
\* misbehaves, has stopped serving or has lost its channel, another is there
\* and nobody is slow, apply_nak and the dispatch find no chunk exhausted. It
\* holds for any number of peers and chunks, as long as a peer is rotated out
\* before the budget is gone (NAK_THRESHOLD is 3, MAX_CHUNK_RETRIES is 5).
THEOREM OneBadPeerSurvived ==
    ASSUME NAK_THRESHOLD < MAX_CHUNK_RETRIES PROVE Spec => []OneFaultSurvived
<1>1. Init => FaultInv /\ OneFaultSurvived
  <2> SUFFICES ASSUME Init PROVE FaultInv /\ OneFaultSurvived
    OBVIOUS
  <2>1. \A s \in Sources : Range(toSrc[s]) = {} /\ Range(fromSrc[s]) = {}
    BY NoFramesIn DEF Init, NoFrames
  <2>2. HonestFrames
    BY <2>1 DEF HonestFrames
  <2>3. NAK_THRESHOLD > 0
    BY BoundsAssumption DEF BoundsAssumption
  <2>4. CountersBelow /\ AgedHandled /\ why # "exhausted"
    BY <2>3 DEF Init, CountersBelow, AgedHandled, Zero
  <2> QED
    BY <2>2, <2>4, RunsBegin DEF FaultInv, OneFaultSurvived
<1>2. StoreInv /\ FaultInv /\ OneFaultSurvived /\ [Next]_vars /\ StoreInv' => FaultInv' /\ OneFaultSurvived'
  <2> SUFFICES ASSUME StoreInv, FaultInv, OneFaultSurvived, [Next]_vars, StoreInv'
               PROVE  FaultInv' /\ OneFaultSurvived'
    OBVIOUS
  <2> CounterTypes /\ CounterTypes' /\ WireTypes
    BY Controlled, TypesSplitPrimed DEF StoreInv
  <2>1. HonestFrames' /\ CountersBelow' /\ AgedHandled' /\ (why' = "exhausted" => pc' = "end")
    BY StaysHonest, StaysBelow, StaysHandled DEF FaultInv
  <2>2. ASSUME late' = 0, Running'
        PROVE  (\A s \in Sources \ Bad' : Serves(s)') /\ \A c \in Chunks : Charged(c)'
    <3>1. CASE Running
      <4>1. late = 0 /\ Bad \subseteq Bad'
        BY <2>2, <3>1, InTime, BadGrows DEF Running
      <4>2. (\A s \in Sources \ Bad : Serves(s)) /\ \A c \in Chunks : Charged(c)
        BY <3>1, <4>1 DEF FaultInv
      <4>3. \A c \in Chunks : Charged(c)'
        BY <2>2, <3>1, <4>2, StaysCharged DEF FaultInv
      <4>4. \A c \in aged : inflight[c] \in Bad
        BY <4>2, Controlled DEF Charged, RunTypes
      <4>5. \A s \in Sources \ Bad' : Serves(s)'
        BY <2>2, <3>1, <4>1, <4>2, <4>4, StaysServing DEF FaultInv
      <4> QED
        BY <4>3, <4>5
    <3>2. CASE ~Running
      <4>1. Reopen
        BY <2>2, <3>2, EndedStays DEF Running, vars
      <4> QED
        BY <4>1, RunsBegin
    <3> QED
      BY <3>1, <3>2
  <2>3. FaultInv'
    BY <2>1, <2>2 DEF FaultInv
  <2>4. OneFaultSurvived'
    <3>1. CASE Running
      <4>1. why # "exhausted"
        BY <3>1 DEF FaultInv, Running
      <4>2. why' = "exhausted" => ~Tolerable'
        BY <3>1, <4>1, BudgetOutlasts
      <4> QED
        BY <4>2, OneFaultIsTolerable
    <3>2. CASE ~Running /\ UNCHANGED vars
      BY <3>2 DEF vars, OneFaultSurvived, Bad
    <3>3. CASE Reopen
      <4>1. why' # "exhausted"
        BY <3>3 DEF Reopen, FaultInv
      <4> QED
        BY <4>1 DEF OneFaultSurvived
    <3> QED
      BY <3>1, <3>2, <3>3, EndedStays
  <2> QED
    BY <2>3, <2>4
<1> QED
  BY <1>1, <1>2, StoreInvariant, PTL DEF Spec
=============================================================================
