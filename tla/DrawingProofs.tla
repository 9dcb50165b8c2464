---------------------------- MODULE DrawingProofs ----------------------------
(***************************************************************************)
(* Theorems about what becomes of the frames of a room's members.           *)
(*                                                                         *)
(* Drawing, for any participants, strokes, caps and budgets, and any reuse *)
(* of stroke ids: whose strokes they are, who may begin one, how many may   *)
(* be open, that the books balance, and that a watcher's canvas is the      *)
(* room's.                                                                  *)
(*                                                                         *)
(* Admission, for every rate, burst, size of frame and movement of the      *)
(* clock: the token buckets are exact.                                     *)
(*                                                                         *)
(* PlaybackSend, for every replay window and any number of presses and      *)
(* losses: the room's order keeps the user's, and one answer repairs the    *)
(* numbering.                                                              *)
(*                                                                         *)
(* Laser, for every interval, keepalive, timeout, idle time, call time and  *)
(* wire time with the order LaserTiming names: where the newest position    *)
(* is, and how many ticks it needs at most to be on the watcher's screen    *)
(* (Due): on the wire, in the call in flight, behind the timer, or behind a *)
(* call that carries an older one.  While nothing goes wrong a tick brings  *)
(* it one nearer and no other step takes it back (TickDue, SettlesDue,      *)
(* FiresDue, ArrivesDue); once it is there, the next copy of it is due      *)
(* before the trail idles out (Kept).                                       *)
(***************************************************************************)
EXTENDS Drawing, PlaybackSend, Admission, Laser, FiniteSetTheorems, SequenceTheorems, WellFoundedInduction, TLAPS

-----------------------------------------------------------------------------
(* The inductive invariant.                                                *)

Fields == {"pending", "committed", "order", "content", "retained", "evict",
           "forgotten"}

\* A bookkeeping whose owners are well typed; its content, its order and its
\* queue may be anything.
IsBook(b) ==
    /\ b = [f \in Fields |-> b[f]]
    /\ b.pending \in [Strokes -> Pending]
    /\ b.committed \in [Strokes -> Users \cup {NoOne}]

\* No stroke is both open and committed.
Exclusive(b) == \A s \in Strokes : b.pending[s].owner = NoOne \/ b.committed[s] = NoOne

OwnInv == IsBook(book) /\ Exclusive(book) /\ mayDraw \subseteq Users

-----------------------------------------------------------------------------
(* The victim of the caps.                                                 *)

\* A non-empty set of naturals has a least element.
LEMMA LeastOfNat ==
    ASSUME NEW T, T \subseteq Nat, T # {}
    PROVE  \E x \in T : \A y \in T : x <= y
<1>1. \E x \in T : \A y \in T : ~(<<y, x>> \in OpToRel(<, Nat))
  BY NatLessThanWellFounded, WFMin
<1>2. PICK x \in T : \A y \in T : ~(<<y, x>> \in OpToRel(<, Nat))
  BY <1>1
<1>3. ASSUME NEW y \in T PROVE x <= y
  <2>1. x \in Nat /\ y \in Nat
    OBVIOUS
  <2>2. ~(y < x)
    BY <1>2, <2>1 DEF OpToRel
  <2> QED
    BY <2>1, <2>2
<1> QED
  BY <1>3

\* A non-empty finite set of naturals has a greatest element: if listing it
\* ever led to a set without one, some place in the list would be the first.
LEMMA MaxOfFinite ==
    ASSUME NEW S, S \subseteq Nat, S # {}, IsFiniteSet(S)
    PROVE  Max(S) \in S
<1> DEFINE n == Cardinality(S)
<1>1. n \in Nat /\ ExistsBijection(1..n, S)
  BY FS_CardinalityType
<1>2. PICK f \in [1..n -> S] : \A x \in S : \E i \in 1..n : f[i] = x
  BY <1>1 DEF ExistsBijection, Bijection, Surjection
<1> HIDE DEF n
<1> DEFINE HasMax(k) == \E x \in S : \A i \in 1..k : x >= f[i]
           Short == {k \in 0..n : ~HasMax(k)}
<1>3. HasMax(n)
  <2> SUFFICES ASSUME ~HasMax(n) PROVE FALSE
    OBVIOUS
  <2>1. Short \subseteq Nat /\ Short # {}
    <3>1. n \in 0..n /\ 0..n \subseteq Nat
      BY <1>1
    <3>2. n \in Short
      BY <3>1
    <3> QED
      BY <3>1, <3>2
  <2>2. PICK k \in Short : \A j \in Short : k <= j
    BY <2>1, LeastOfNat
  <2>3. k # 0
    <3>1. 1..0 = {}
      OBVIOUS
    <3>2. HasMax(0)
      BY <3>1
    <3> QED
      BY <3>2, <2>2
  <2>4. k \in 1..n /\ k - 1 \in 0..n /\ k - 1 \notin Short
    <3>1. k \in 0..n
      BY <2>2
    <3>2. k \in 1..n /\ k - 1 \in 0..n /\ ~(k <= k - 1)
      BY <1>1, <2>3, <3>1
    <3> QED
      BY <2>2, <3>2
  <2>5. PICK x \in S : \A i \in 1..(k - 1) : x >= f[i]
    BY <2>4
  <2>6. f[k] \in S /\ f[k] \in Nat /\ x \in Nat
    BY <1>2, <2>4
  <2>7. \A i \in 1..n : f[i] \in Nat
    BY <1>2
  <2>8. \A i \in 1..k : i = k \/ i \in 1..(k - 1)
    BY <2>4
  <2>9. CASE x >= f[k]
    BY <2>2, <2>5, <2>8, <2>9
  <2>10. CASE ~(x >= f[k])
    <3>1. ASSUME NEW i \in 1..k PROVE f[k] >= f[i]
      <4>1. f[i] \in Nat
        BY <1>1, <2>4, <2>7
      <4>2. i = k \/ x >= f[i]
        BY <2>5, <2>8
      <4> QED
        BY <2>6, <2>10, <4>1, <4>2
    <3> QED
      BY <2>2, <2>6, <3>1
  <2> QED
    BY <2>9, <2>10
<1>4. \E x \in S : \A y \in S : x >= y
  BY <1>2, <1>3
<1> QED
  BY <1>4 DEF Max

\* Every open stroke was begun at some time, so the clock is a number.
LEMMA LatestIsNat ==
    ASSUME NEW b, IsBook(b)
    PROVE  Latest(b) \in Nat
<1> DEFINE f == [s \in Open(b) |-> b.pending[s].started]
           J == {b.pending[s].started : s \in Open(b)}
<1>1. b.pending \in [Strokes -> Pending]
  BY DEF IsBook
<1>2. Open(b) \subseteq Strokes
  BY DEF Open
<1>3. IsFiniteSet(Open(b))
  BY <1>2, FS_Subset, DrawingAssumption
<1>4. J \subseteq Nat
  BY <1>1, <1>2 DEF Pending
<1>5. f \in Surjection(Open(b), J)
  BY DEF Surjection
<1>6. IsFiniteSet(J)
  BY <1>3, <1>5, FS_Surjection
<1>7. IsFiniteSet({0} \cup J)
  <2>1. IsFiniteSet(J \cup {0})
    BY <1>6, FS_AddElement
  <2>2. J \cup {0} = {0} \cup J
    OBVIOUS
  <2> QED
    BY <2>1, <2>2
<1> DEFINE K == {0} \cup J
<1>8. K \subseteq Nat /\ K # {} /\ IsFiniteSet(K)
  BY <1>4, <1>7
<1>9. Latest(b) = Max(K)
  BY Zenon DEF Latest
<1> HIDE DEF K
<1>10. Max(K) \in K
  BY <1>8, MaxOfFinite
<1> QED
  BY <1>8, <1>9, <1>10

\* The stroke that finish_oldest_open_strokes picks is one of its candidates:
\* (started_ms, stroke_id) has a least element among them.
LEMMA VictimIsCandidate ==
    ASSUME NEW b, IsBook(b), NEW u, Victims(b, u) # {}
    PROVE  Victim(b, u) \in Victims(b, u)
<1> DEFINE S == Victims(b, u)
           J == {b.pending[s].started : s \in S}
<1>1. S \subseteq Strokes
  BY DEF Victims, Open, OpenBy
<1>2. J \subseteq Nat /\ J # {}
  <2>1. b.pending \in [Strokes -> Pending]
    BY DEF IsBook
  <2>2. \A s \in Strokes : b.pending[s].started \in Nat
    BY <2>1 DEF Pending
  <2> QED
    BY <1>1, <2>2
<1>3. PICK j \in J : \A i \in J : j <= i
  BY <1>2, LeastOfNat
<1> DEFINE T == {s \in S : b.pending[s].started = j}
<1>4. T \subseteq Nat /\ T # {}
  BY <1>1, <1>3, DrawingAssumption
<1>5. PICK s \in T : \A t \in T : s <= t
  BY <1>4, LeastOfNat
<1>6. ASSUME NEW t \in S PROVE Older(b, s, t)
  <2>1. b.pending[t].started \in Nat /\ j \in Nat /\ j <= b.pending[t].started
    BY <1>2, <1>3
  <2>2. b.pending[s].started = j
    BY <1>5
  <2>3. CASE b.pending[t].started = j
    BY <1>5, <2>2, <2>3 DEF Older
  <2>4. CASE b.pending[t].started # j
    <3>1. j < b.pending[t].started
      BY <2>1, <2>4
    <3> QED
      BY <2>2, <3>1 DEF Older
  <2> QED
    BY <2>3, <2>4
<1>7. \E v \in S : \A t \in S : Older(b, v, t)
  BY <1>5, <1>6
<1> QED
  BY <1>7 DEF Victim

-----------------------------------------------------------------------------
(* What the bookkeeping's methods do to owners.                            *)

\* Content is not ownership.
LEMMA ForgetKeepsOwners ==
    ASSUME NEW b, IsBook(b), NEW s
    PROVE  LET c == ForgetContent(b, s)
           IN  IsBook(c) /\ c.pending = b.pending /\ c.committed = b.committed
BY DEF ForgetContent, IsBook, Fields

LEMMA DropKeepsOwners ==
    ASSUME NEW b, IsBook(b), NEW s
    PROVE  LET c == DropContent(b, s)
           IN  IsBook(c) /\ c.pending = b.pending /\ c.committed = b.committed
BY DEF DropContent, IsBook, Fields

LEMMA EndKeepsOwners ==
    ASSUME NEW b, IsBook(b), NEW s
    PROVE  LET c == RecordEnd(b, s)
           IN  IsBook(c) /\ c.pending = b.pending /\ c.committed = b.committed
BY DEF RecordEnd, IsBook, Fields

LEMMA BeginKeepsOwners ==
    ASSUME NEW b, IsBook(b), NEW s
    PROVE  LET c == RecordBegin(b, s)
           IN  IsBook(c) /\ c.pending = b.pending /\ c.committed = b.committed
<1> DEFINE c == ForgetContent(b, s)
<1>1. IsBook(c) /\ c.pending = b.pending /\ c.committed = b.committed
  BY ForgetKeepsOwners
<1> HIDE DEF c
<1> QED
  BY <1>1 DEF RecordBegin, IsBook, Fields, c

LEMMA PointKeepsOwners ==
    ASSUME NEW b, IsBook(b), NEW s
    PROVE  LET c == RecordPoint(b, s)
           IN  IsBook(c) /\ c.pending = b.pending /\ c.committed = b.committed
<1> DEFINE Same(c) == IsBook(c) /\ c.pending = b.pending /\ c.committed = b.committed
           freed == IF b.retained >= MaxRetained THEN MakeRoom(b, s) ELSE b
<1>1. Same(MakeRoom(b, s))
  <2>1. ASSUME NEW q PROVE Same([b EXCEPT !.evict = q])
    BY DEF IsBook, Fields
  <2>2. ASSUME NEW q, NEW t PROVE Same(DropContent([b EXCEPT !.evict = q], t))
    <3>1. Same([b EXCEPT !.evict = q])
      BY <2>1
    <3> QED
      BY <3>1, DropKeepsOwners
  <2> QED
    BY <2>2 DEF MakeRoom
<1>2. Same(freed)
  BY <1>1
<1>3. Same(DropContent(b, s))
  BY DropKeepsOwners
<1> HIDE DEF freed
<1>4. Same([freed EXCEPT !.content[s].points = @ + 1, !.retained = @ + 1])
  BY <1>2 DEF IsBook, Fields
<1> QED
  BY <1>2, <1>3, <1>4 DEF RecordPoint, freed

\* commit() gives the stroke to its owner and may forget one.
LEMMA CommitOwners ==
    ASSUME NEW b, IsBook(b), NEW s \in Strokes, NEW u \in Users
    PROVE  LET c == Commit(b, s, u)
           IN  /\ IsBook(c)
               /\ c.pending = b.pending
               /\ c.committed[s] \in {u, NoOne}
               /\ \A t \in Strokes \ {s} : c.committed[t] \in {b.committed[t], NoOne}
<1> DEFINE order == IF b.committed[s] = NoOne THEN Append(b.order, s) ELSE b.order
           oldest == Head(order)
           noted == [b EXCEPT !.committed[s] = u, !.order = order]
           less == [noted EXCEPT !.committed[oldest] = NoOne,
                                 !.order = Tail(order),
                                 !.forgotten = @ \cup {oldest}]
           Good(c) == /\ IsBook(c)
                      /\ c.pending = b.pending
                      /\ c.committed[s] \in {u, NoOne}
                      /\ \A t \in Strokes \ {s} : c.committed[t] \in {b.committed[t], NoOne}
<1> HIDE DEF order, oldest
<1>1. IsBook(noted) /\ noted.pending = b.pending
        /\ noted.committed = [b.committed EXCEPT ![s] = u]
  BY DEF IsBook, Fields
<1>2. Good(noted)
  BY <1>1 DEF IsBook
<1> HIDE DEF noted
<1>3. Good(less)
  <2>1. IsBook(less) /\ less.pending = noted.pending
          /\ less.committed = [noted.committed EXCEPT ![oldest] = NoOne]
    BY <1>1 DEF IsBook, Fields
  <2>2. noted.committed \in [Strokes -> Users \cup {NoOne}]
    BY <1>1 DEF IsBook
  <2>3. \A t \in Strokes : less.committed[t] \in {noted.committed[t], NoOne}
    BY <2>1, <2>2
  <2> QED
    BY <1>1, <1>2, <2>1, <2>3
<1> HIDE DEF less
<1>4. Good(ForgetContent(less, oldest))
  BY <1>3, ForgetKeepsOwners
<1> QED
  BY <1>2, <1>4 DEF Commit, order, oldest, noted, less

\* DRAW_END closes the stroke; if it is kept, it is kept for its owner.
LEMMA EndStrokeOwners ==
    ASSUME NEW b, IsBook(b), Exclusive(b), NEW s \in Strokes, s \in Open(b)
    PROVE  LET c == EndStroke(b, s)
           IN  /\ IsBook(c)
               /\ Exclusive(c)
               /\ c.pending = [b.pending EXCEPT ![s] = NotOpen]
               /\ c.committed[s] \in {b.pending[s].owner, NoOne}
               /\ \A t \in Strokes \ {s} : c.committed[t] \in {b.committed[t], NoOne}
<1> DEFINE closed == Unpend(b, s)
           u == b.pending[s].owner
           done == Commit(closed, s, u)
           Good(c) == /\ IsBook(c)
                      /\ c.pending = [b.pending EXCEPT ![s] = NotOpen]
                      /\ c.committed[s] \in {u, NoOne}
                      /\ \A t \in Strokes \ {s} : c.committed[t] \in {b.committed[t], NoOne}
<1>1. u \in Users
  BY DEF IsBook, Pending, Open
<1>2. NotOpen \in Pending /\ NotOpen.owner = NoOne
  BY DEF NotOpen, Pending
<1>3. IsBook(closed) /\ closed.pending = [b.pending EXCEPT ![s] = NotOpen]
        /\ closed.committed = b.committed
  BY <1>2 DEF Unpend, IsBook, Fields
<1>4. b.committed[s] = NoOne
  BY DEF Exclusive, Open
<1> HIDE DEF closed, u
<1>5. Good(done)
  BY <1>1, <1>3, CommitOwners
<1> HIDE DEF done
<1>6. Good(RecordEnd(done, s))
  BY <1>5, EndKeepsOwners
<1>7. Good(ForgetContent(closed, s))
  BY <1>3, <1>4, ForgetKeepsOwners
<1>8. Good(EndStroke(b, s))
  BY <1>6, <1>7 DEF EndStroke, closed, u, done
<1>9. ASSUME NEW c, Good(c) PROVE Exclusive(c)
  <2>1. ASSUME NEW t \in Strokes PROVE c.pending[t].owner = NoOne \/ c.committed[t] = NoOne
    <3>1. CASE t = s
      BY <1>2, <1>9, <3>1 DEF IsBook
    <3>2. CASE t # s
      <4>1. c.pending[t] = b.pending[t]
        BY <1>9, <3>2 DEF IsBook
      <4> QED
        BY <4>1, <1>9, <3>2 DEF Exclusive
    <3> QED
      BY <3>1, <3>2
  <2> QED
    BY <2>1 DEF Exclusive
<1> QED
  BY <1>8, <1>9 DEF u

\* DRAW_BEGIN's making room closes no stroke but the victim, for its owner.
LEMMA FinishOwners ==
    ASSUME NEW b, IsBook(b), Exclusive(b), NEW u \in Users
    PROVE  LET c == FinishOldestOpen(b, u)
           IN  /\ IsBook(c)
               /\ Exclusive(c)
               /\ \A t \in Strokes :
                    /\ c.pending[t] \in {b.pending[t], NotOpen}
                    /\ OwnerOf(c, t) \in {OwnerOf(b, t), NoOne}
<1>1. CASE Victims(b, u) = {}
  BY <1>1 DEF FinishOldestOpen, OwnerOf
<1>2. CASE Victims(b, u) # {}
  <2> DEFINE v == Victim(b, u)
             c == EndStroke(b, v)
  <2>1. v \in Strokes /\ v \in Open(b)
    <3>1. v \in Victims(b, u)
      BY <1>2, VictimIsCandidate
    <3> QED
      BY <3>1, DrawingAssumption DEF Victims, Open, OpenBy
  <2> HIDE DEF v
  <2>2. /\ IsBook(c) /\ Exclusive(c)
        /\ c.pending = [b.pending EXCEPT ![v] = NotOpen]
        /\ c.committed[v] \in {b.pending[v].owner, NoOne}
        /\ \A t \in Strokes \ {v} : c.committed[t] \in {b.committed[t], NoOne}
    BY <2>1, EndStrokeOwners
  <2>3. FinishOldestOpen(b, u) = c
    BY <1>2 DEF FinishOldestOpen, v
  <2> HIDE DEF c
  <2>4. b.pending \in [Strokes -> Pending] /\ NotOpen.owner = NoOne
    BY DEF IsBook, NotOpen
  <2>5. ASSUME NEW t \in Strokes
        PROVE  /\ c.pending[t] \in {b.pending[t], NotOpen}
               /\ OwnerOf(c, t) \in {OwnerOf(b, t), NoOne}
    <3>1. CASE t = v
      <4>1. c.pending[t] = NotOpen /\ b.pending[t].owner # NoOne
        BY <2>1, <2>2, <2>4, <3>1 DEF Open
      <4> QED
        BY <2>2, <2>4, <3>1, <4>1 DEF OwnerOf
    <3>2. CASE t # v
      <4>1. c.pending[t] = b.pending[t]
        BY <2>2, <2>4, <3>2
      <4> QED
        BY <2>2, <3>2, <4>1 DEF OwnerOf
    <3> QED
      BY <3>1, <3>2
  <2> QED
    BY <2>2, <2>3, <2>5
<1> QED
  BY <1>1, <1>2

\* RemoveCommitted and ClearAll take strokes away and give none.
LEMMA RemoveOwners ==
    ASSUME NEW b, IsBook(b), Exclusive(b), NEW s \in Strokes
    PROVE  LET c == RemoveCommitted(b, s)
           IN  /\ IsBook(c)
               /\ c.pending = b.pending
               /\ c.committed = [b.committed EXCEPT ![s] = NoOne]
<1> DEFINE q == Only(b.order, Strokes \ {s})
           d == [b EXCEPT !.committed[s] = NoOne, !.order = q]
<1> HIDE DEF q
<1>1. IsBook(d) /\ d.pending = b.pending
        /\ d.committed = [b.committed EXCEPT ![s] = NoOne]
  BY DEF IsBook, Fields
<1>2. RemoveCommitted(b, s) = ForgetContent(d, s)
  BY DEF RemoveCommitted, q
<1> HIDE DEF d
<1> QED
  BY <1>1, <1>2, ForgetKeepsOwners

LEMMA ClearOwners ==
    ASSUME NEW b, IsBook(b)
    PROVE  LET c == ClearAll(b)
           IN  /\ IsBook(c)
               /\ \A t \in Strokes : /\ c.committed[t] = NoOne
                                     /\ c.pending[t].owner = b.pending[t].owner
                                     /\ b.pending[t] = NotOpen => c.pending[t] = NotOpen
<1> DEFINE p == [s \in Strokes |-> [b.pending[s] EXCEPT !.cleared = s \in Open(b)]]
           c == ClearAll(b)
<1>1. b.pending \in [Strokes -> Pending]
  BY DEF IsBook
<1>2. ASSUME NEW t \in Strokes
      PROVE  /\ p[t] \in Pending
             /\ p[t].owner = b.pending[t].owner
             /\ b.pending[t] = NotOpen => p[t] = NotOpen
  <2>1. PICK o, st, cr : /\ b.pending[t] = [owner |-> o, started |-> st, cleared |-> cr]
                         /\ o \in Users \cup {NoOne} /\ st \in Nat
    BY <1>1 DEF Pending
  <2>2. p[t] = [owner |-> o, started |-> st, cleared |-> t \in Open(b)]
    BY <2>1
  <2>3. (t \in Open(b)) \in BOOLEAN
    OBVIOUS
  <2>4. p[t] \in Pending /\ p[t].owner = b.pending[t].owner
    BY <2>1, <2>2, <2>3 DEF Pending
  <2>5. ASSUME b.pending[t] = NotOpen PROVE p[t] = NotOpen
    <3>1. b.pending[t].owner = NoOne /\ b.pending[t].started = 0
      BY <2>5 DEF NotOpen
    <3>2. o = NoOne /\ st = 0 /\ (t \in Open(b)) = FALSE
      BY <2>1, <3>1 DEF Open
    <3> QED
      BY <2>2, <3>2 DEF NotOpen
  <2> QED
    BY <2>4, <2>5
<1>3. p \in [Strokes -> Pending]
  BY <1>2
<1> HIDE DEF p
<1>4. c = [EmptyBook EXCEPT !.pending = p]
  BY DEF ClearAll, p
<1>5. IsBook(c) /\ c.pending = p /\ c.committed = [s \in Strokes |-> NoOne]
  BY <1>3, <1>4 DEF EmptyBook, IsBook, Fields
<1> QED
  BY <1>2, <1>5

-----------------------------------------------------------------------------
(* What a step does to owners.                                             *)

\* What a step does: owners do not change hands, and a stroke that opens is
\* opened by a holder of DRAW.
OwnersStep ==
    \A s \in Strokes :
      /\ OwnerOf(book', s) # NoOne /\ OwnerOf(book, s) # NoOne
           => OwnerOf(book', s) = OwnerOf(book, s)
      /\ book.pending[s] = NotOpen /\ book'.pending[s] # NotOpen
           => book'.pending[s].owner \in mayDraw

\* A step that begins no stroke opens none, for anybody.
OnlyCloses ==
    \A s \in Strokes : book'.pending[s].owner \in {book.pending[s].owner, NoOne}

\* The initial bookkeeping owns nothing.
LEMMA OwnInvInit == Init => OwnInv
<1> SUFFICES ASSUME Init PROVE OwnInv
  OBVIOUS
<1>1. NotOpen \in Pending /\ NotOpen.owner = NoOne
  BY DEF NotOpen, Pending
<1>2. IsBook(EmptyBook) /\ Exclusive(EmptyBook)
  BY <1>1 DEF EmptyBook, IsBook, Fields, Exclusive
<1> QED
  BY <1>2, DrawingAssumption DEF Init, OwnInv

\* DRAW_BEGIN makes its sender the owner, of a stroke that nobody owned.
LEMMA BeginStep ==
    ASSUME OwnInv, NEW u \in Users, NEW s \in Strokes, StrokeBegin(u, s)
    PROVE  /\ OwnInv' /\ OwnersStep
           /\ \E p \in Pending :
                /\ p.owner = u
                /\ book'.pending = [FinishOldestOpen(book, u).pending EXCEPT ![s] = p]
<1> DEFINE freed == FinishOldestOpen(book, u)
<1>1. /\ IsBook(freed) /\ Exclusive(freed)
      /\ \A t \in Strokes : /\ freed.pending[t] \in {book.pending[t], NotOpen}
                            /\ OwnerOf(freed, t) \in {OwnerOf(book, t), NoOne}
  BY FinishOwners DEF OwnInv
<1>2. PICK tick \in Ticks :
        book' = RecordBegin([freed EXCEPT !.pending[s] =
                  [owner |-> u, started |-> Latest(book) + tick, cleared |-> FALSE]], s)
  BY DEF StrokeBegin
<1> DEFINE p == [owner |-> u, started |-> Latest(book) + tick, cleared |-> FALSE]
           d == [freed EXCEPT !.pending[s] = p]
<1>3. p \in Pending /\ p.owner = u
  <2>1. Latest(book) \in Nat
    BY LatestIsNat DEF OwnInv
  <2> QED
    BY <2>1, DrawingAssumption DEF Pending
<1> HIDE DEF freed, p
<1>4. IsBook(d) /\ d.pending = [freed.pending EXCEPT ![s] = p] /\ d.committed = freed.committed
  BY <1>1, <1>3 DEF IsBook, Fields
<1>5. book' = RecordBegin(d, s)
  BY <1>2 DEF p
<1> HIDE DEF d
<1>6. /\ IsBook(book') /\ book'.committed = freed.committed
      /\ book'.pending = [freed.pending EXCEPT ![s] = p]
  BY <1>4, <1>5, BeginKeepsOwners
<1>7. /\ u \in mayDraw /\ book.pending[s] = NotOpen /\ book.committed[s] = NoOne
      /\ mayDraw' = mayDraw
  BY DEF StrokeBegin, BeginAllowed
<1>8. freed.pending \in [Strokes -> Pending] /\ NotOpen.owner = NoOne
  BY <1>1 DEF IsBook, NotOpen
<1>9. OwnerOf(book, s) = NoOne /\ freed.committed[s] = NoOne
  <2>1. OwnerOf(book, s) = NoOne
    BY <1>7, <1>8 DEF OwnerOf
  <2>2. freed.pending[s] = NotOpen /\ OwnerOf(freed, s) = NoOne
    BY <1>1, <1>7, <2>1
  <2> QED
    BY <2>1, <2>2, <1>8 DEF OwnerOf
<1>10. ASSUME NEW t \in Strokes
       PROVE  /\ book'.pending[t].owner = NoOne \/ book'.committed[t] = NoOne
              /\ OwnerOf(book', t) # NoOne /\ OwnerOf(book, t) # NoOne
                   => OwnerOf(book', t) = OwnerOf(book, t)
              /\ book.pending[t] = NotOpen /\ book'.pending[t] # NotOpen
                   => book'.pending[t].owner \in mayDraw
  <2>1. CASE t = s
    <3>1. book'.pending[t] = p
      BY <1>6, <1>8, <2>1
    <3> QED
      BY <1>3, <1>6, <1>7, <1>9, <2>1, <3>1
  <2>2. CASE t # s
    <3>1. book'.pending[t] = freed.pending[t] /\ book'.committed[t] = freed.committed[t]
      BY <1>6, <1>8, <2>2
    <3>2. OwnerOf(book', t) = OwnerOf(freed, t)
      BY <3>1 DEF OwnerOf
    <3> QED
      BY <1>1, <3>1, <3>2 DEF Exclusive
  <2> QED
    BY <2>1, <2>2
<1>11. OwnInv' /\ OwnersStep
  BY <1>6, <1>7, <1>10 DEF OwnInv, OwnersStep, Exclusive
<1> QED
  BY <1>3, <1>6, <1>11 DEF freed

\* Every step.
LEMMA NextOwners ==
    ASSUME OwnInv, [Next]_vars
    PROVE  /\ OwnInv' /\ OwnersStep
           /\ OnlyCloses \/ \E u \in Users, s \in Strokes : StrokeBegin(u, s)
<1> DEFINE Goal == OwnInv' /\ OwnersStep /\ OnlyCloses
<1>0. book.pending \in [Strokes -> Pending] /\ book.committed \in [Strokes -> Users \cup {NoOne}]
  BY DEF OwnInv, IsBook
<1>a. ASSUME IsBook(book'), mayDraw' \subseteq Users, book'.pending = book.pending,
             \A t \in Strokes : book'.committed[t] \in {book.committed[t], NoOne}
      PROVE  Goal
  BY <1>a DEF OwnInv, Exclusive, OwnersStep, OwnerOf, OnlyCloses
<1>1. ASSUME book' = book, mayDraw' \subseteq Users PROVE Goal
  BY <1>1, <1>a DEF OwnInv
<1>2. ASSUME NEW u \in Users, NEW s \in Strokes, StrokePoint(u, s) PROVE Goal
  <2>1. book' = book \/ book' = RecordPoint(book, s)
    BY <1>2 DEF StrokePoint
  <2>2. mayDraw' \subseteq Users
    BY <1>2 DEF StrokePoint, OwnInv
  <2>3. CASE book' = RecordPoint(book, s)
    <3>1. IsBook(book') /\ book'.pending = book.pending /\ book'.committed = book.committed
      BY <2>3, PointKeepsOwners DEF OwnInv
    <3> QED
      BY <2>2, <3>1, <1>a
  <2> QED
    BY <2>1, <2>2, <2>3, <1>1
<1>3. ASSUME NEW u \in Users, NEW s \in Strokes, StrokeEnd(u, s) PROVE Goal
  <2>1. s \in Open(book) /\ book' = EndStroke(book, s) /\ mayDraw' \subseteq Users
    BY <1>3, DrawingAssumption DEF StrokeEnd, Open, OwnInv
  <2>2. /\ IsBook(book') /\ Exclusive(book')
        /\ book'.pending = [book.pending EXCEPT ![s] = NotOpen]
        /\ book'.committed[s] \in {book.pending[s].owner, NoOne}
        /\ \A t \in Strokes \ {s} : book'.committed[t] \in {book.committed[t], NoOne}
    BY <2>1, EndStrokeOwners DEF OwnInv
  <2>3. NotOpen.owner = NoOne
    BY DEF NotOpen
  <2>4. ASSUME NEW t \in Strokes
        PROVE  /\ OwnerOf(book', t) # NoOne /\ OwnerOf(book, t) # NoOne
                    => OwnerOf(book', t) = OwnerOf(book, t)
               /\ book.pending[t] = NotOpen => book'.pending[t] = NotOpen
               /\ book'.pending[t].owner \in {book.pending[t].owner, NoOne}
    <3>1. CASE t = s
      BY <1>0, <2>1, <2>2, <2>3, <3>1 DEF OwnerOf, Open
    <3>2. CASE t # s
      <4>1. book'.pending[t] = book.pending[t]
        BY <1>0, <2>2, <3>2
      <4> QED
        BY <2>2, <3>2, <4>1 DEF OwnerOf
    <3> QED
      BY <3>1, <3>2
  <2> QED
    BY <2>1, <2>2, <2>4 DEF OwnInv, OwnersStep, OnlyCloses
<1>4. ASSUME NEW u \in Users, NEW s \in Strokes, StrokeUndo(u, s) PROVE Goal
  <2>1. book' = RemoveCommitted(book, s) /\ mayDraw' \subseteq Users
    BY <1>4 DEF StrokeUndo, OwnInv
  <2>2. /\ IsBook(book') /\ book'.pending = book.pending
        /\ book'.committed = [book.committed EXCEPT ![s] = NoOne]
    BY <2>1, RemoveOwners DEF OwnInv
  <2>3. \A t \in Strokes : book'.committed[t] \in {book.committed[t], NoOne}
    BY <1>0, <2>2
  <2> QED
    BY <2>1, <2>2, <2>3, <1>a
<1>5. ASSUME NEW u \in Users, StrokeClear(u) PROVE Goal
  <2>1. book' = ClearAll(book) /\ mayDraw' \subseteq Users
    BY <1>5 DEF StrokeClear, OwnInv
  <2>2. /\ IsBook(book')
        /\ \A t \in Strokes : /\ book'.committed[t] = NoOne
                              /\ book'.pending[t].owner = book.pending[t].owner
                              /\ book.pending[t] = NotOpen => book'.pending[t] = NotOpen
    BY <2>1, ClearOwners DEF OwnInv
  <2> QED
    BY <2>1, <2>2 DEF OwnInv, OwnersStep, Exclusive, OwnerOf, OnlyCloses
<1>6. ASSUME NEW u \in Users, UserStep(u)
      PROVE  Goal \/ \E s \in Strokes : StrokeBegin(u, s)
  <2>1. ASSUME Grant(u) \/ Revoke(u) \/ Refused(u) PROVE Goal
    BY <2>1, <1>1 DEF Grant, Revoke, Refused, OwnInv
  <2> QED
    BY <1>6, <1>2, <1>3, <1>4, <1>5, <2>1 DEF UserStep
<1>7. ASSUME Lag \/ DrawSync PROVE Goal
  BY <1>7, <1>1 DEF Lag, DrawSync, OwnInv
<1>8. ASSUME UNCHANGED vars PROVE Goal
  BY <1>8, <1>1 DEF vars, OwnInv
<1> QED
  BY <1>6, <1>7, <1>8, BeginStep DEF Next

-----------------------------------------------------------------------------
(* The caps on open strokes.                                               *)

CapInv == OwnInv /\ OpenBounded

Small(S, n) == IsFiniteSet(S) /\ Cardinality(S) <= n

\* A part of a small set is small.
LEMMA SmallSubset ==
    ASSUME NEW S, NEW T, NEW n \in Nat, Small(S, n), T \subseteq S
    PROVE  Small(T, n)
<1>1. IsFiniteSet(S) /\ Cardinality(S) <= n
  BY DEF Small
<1>2. IsFiniteSet(T) /\ Cardinality(T) <= Cardinality(S)
  BY <1>1, FS_Subset
<1>3. Cardinality(S) \in Nat /\ Cardinality(T) \in Nat
  BY <1>1, <1>2, FS_CardinalityType
<1> QED
  BY <1>1, <1>2, <1>3 DEF Small

\* finish_oldest_open_strokes leaves room for one more stroke, of the user
\* and of the room; the strokes of others can only become fewer.
LEMMA FinishMakesRoom ==
    ASSUME NEW b, IsBook(b), Exclusive(b), NEW u \in Users,
           \A v \in Users : Small(OpenBy(b, v), MaxOpenPerUser),
           Small(Open(b), MaxOpenPerRoom)
    PROVE  LET c == FinishOldestOpen(b, u)
           IN  /\ Small(OpenBy(c, u), MaxOpenPerUser - 1)
               /\ Small(Open(c), MaxOpenPerRoom - 1)
               /\ \A v \in Users : OpenBy(c, v) \subseteq OpenBy(b, v)
<1>0. MaxOpenPerUser \in Nat \ {0} /\ MaxOpenPerRoom \in Nat \ {0} /\ NoOne \notin Users
  BY DrawingAssumption
<1> DEFINE mine == OpenBy(b, u)
           all == Open(b)
<1>1. /\ IsFiniteSet(mine) /\ Cardinality(mine) \in Nat /\ Cardinality(mine) <= MaxOpenPerUser
      /\ IsFiniteSet(all) /\ Cardinality(all) \in Nat /\ Cardinality(all) <= MaxOpenPerRoom
  BY FS_CardinalityType DEF Small
<1>2. mine \subseteq all
  BY <1>0 DEF OpenBy, Open
<1>3. CASE Victims(b, u) = {}
  <2>1. FinishOldestOpen(b, u) = b
    BY <1>3 DEF FinishOldestOpen
  <2>2. (mine = {} => Cardinality(mine) = 0) /\ (all = {} => Cardinality(all) = 0)
    BY FS_EmptySet
  <2>3. ~(Cardinality(mine) >= MaxOpenPerUser) /\ ~(Cardinality(all) >= MaxOpenPerRoom)
    BY <1>0, <1>3, <2>2 DEF Victims
  <2> QED
    BY <1>0, <1>1, <2>1, <2>3 DEF Small
<1>4. CASE Victims(b, u) # {}
  <2> DEFINE v == Victim(b, u)
             c == EndStroke(b, v)
  <2>1. v \in Victims(b, u)
    BY <1>4, VictimIsCandidate
  <2> HIDE DEF v
  <2>2. v \in all /\ v \in Strokes /\ (v \in mine \/ Cardinality(mine) < MaxOpenPerUser)
    BY <1>0, <1>1, <1>2, <2>1 DEF Victims, Open
  <2>3. FinishOldestOpen(b, u) = c
    BY <1>4 DEF FinishOldestOpen, v
  <2>4. c.pending = [b.pending EXCEPT ![v] = NotOpen]
    BY <2>2, EndStrokeOwners
  <2> HIDE DEF c
  <2>5. b.pending \in [Strokes -> Pending] /\ NotOpen.owner = NoOne
    BY DEF IsBook, NotOpen
  <2>6. \A t \in Strokes : c.pending[t].owner = IF t = v THEN NoOne ELSE b.pending[t].owner
    BY <2>4, <2>5
  <2>7. Open(c) = all \ {v}
    BY <2>6 DEF Open
  <2>8. \A w \in Users : OpenBy(c, w) = OpenBy(b, w) \ {v}
    BY <1>0, <2>6 DEF OpenBy
  <2>9. Small(Open(c), MaxOpenPerRoom - 1)
    <3>1. IsFiniteSet(all \ {v}) /\ Cardinality(all \ {v}) = Cardinality(all) - 1
      BY <1>1, <2>2, FS_RemoveElement
    <3> QED
      BY <1>0, <1>1, <2>7, <3>1 DEF Small
  <2>10. Small(OpenBy(c, u), MaxOpenPerUser - 1)
    <3>1. /\ IsFiniteSet(mine \ {v})
          /\ Cardinality(mine \ {v}) = IF v \in mine THEN Cardinality(mine) - 1
                                        ELSE Cardinality(mine)
      BY <1>1, FS_RemoveElement
    <3>2. Cardinality(mine \ {v}) <= MaxOpenPerUser - 1
      BY <1>0, <1>1, <2>2, <3>1
    <3> QED
      BY <2>8, <3>1, <3>2 DEF Small
  <2> QED
    BY <2>3, <2>8, <2>9, <2>10
<1> QED
  BY <1>3, <1>4

\* One stroke more fits where room was made for one.
LEMMA SmallAdd ==
    ASSUME NEW S, NEW x, NEW n \in Nat \ {0}, Small(S, n - 1)
    PROVE  Small(S \cup {x}, n)
<1>1. IsFiniteSet(S) /\ Cardinality(S) <= n - 1 /\ Cardinality(S) \in Nat
  BY FS_CardinalityType DEF Small
<1>2. /\ IsFiniteSet(S \cup {x})
      /\ Cardinality(S \cup {x}) = IF x \in S THEN Cardinality(S) ELSE Cardinality(S) + 1
  BY <1>1, FS_AddElement
<1> QED
  BY <1>1, <1>2 DEF Small

\* The caps hold initially, and a step keeps them.
LEMMA CapInvInit == Init => CapInv
<1> SUFFICES ASSUME Init PROVE CapInv
  OBVIOUS
<1>1. NotOpen.owner = NoOne
  BY DEF NotOpen
<1>2. \A s \in Strokes : book.pending[s].owner = NoOne
  BY <1>1 DEF Init, EmptyBook
<1>3. Open(book) = {} /\ \A u \in Users : OpenBy(book, u) = {}
  BY <1>2, DrawingAssumption DEF Open, OpenBy
<1>4. MaxOpenPerUser >= 0 /\ MaxOpenPerRoom >= 0
  BY DrawingAssumption
<1> QED
  BY <1>3, <1>4, OwnInvInit, FS_EmptySet DEF CapInv, OpenBounded

LEMMA NextCaps ==
    ASSUME CapInv, [Next]_vars
    PROVE  CapInv'
<1>0. MaxOpenPerUser \in Nat \ {0} /\ MaxOpenPerRoom \in Nat \ {0} /\ NoOne \notin Users
  BY DrawingAssumption
<1>1. OwnInv /\ OwnInv' /\ (OnlyCloses \/ \E u \in Users, s \in Strokes : StrokeBegin(u, s))
  BY NextOwners DEF CapInv
<1>2. \A b, u : IsFiniteSet(Open(b)) /\ IsFiniteSet(OpenBy(b, u))
  <2>1. \A b, u : Open(b) \subseteq Strokes /\ OpenBy(b, u) \subseteq Strokes
    BY DEF Open, OpenBy
  <2> QED
    BY <2>1, FS_Subset, DrawingAssumption
<1>3. /\ \A v \in Users : Small(OpenBy(book, v), MaxOpenPerUser)
      /\ Small(Open(book), MaxOpenPerRoom)
  BY <1>2 DEF CapInv, OpenBounded, Small
<1>4. ASSUME \A v \in Users : Small(OpenBy(book', v), MaxOpenPerUser),
             Small(Open(book'), MaxOpenPerRoom)
      PROVE  CapInv'
  BY <1>1, <1>4 DEF CapInv, OpenBounded, Small
<1>5. CASE OnlyCloses
  <2>1. /\ \A v \in Users : OpenBy(book', v) \subseteq OpenBy(book, v)
        /\ Open(book') \subseteq Open(book)
    BY <1>0, <1>5 DEF OnlyCloses, OpenBy, Open
  <2> QED
    BY <1>0, <1>3, <1>4, <2>1, SmallSubset
<1>6. ASSUME NEW u \in Users, NEW s \in Strokes, StrokeBegin(u, s) PROVE CapInv'
  <2> DEFINE c == FinishOldestOpen(book, u)
  <2>1. PICK p \in Pending : p.owner = u /\ book'.pending = [c.pending EXCEPT ![s] = p]
    BY <1>1, <1>6, BeginStep
  <2>2. /\ Small(OpenBy(c, u), MaxOpenPerUser - 1)
        /\ Small(Open(c), MaxOpenPerRoom - 1)
        /\ \A v \in Users : OpenBy(c, v) \subseteq OpenBy(book, v)
    BY <1>1, <1>3, FinishMakesRoom DEF OwnInv
  <2>3. c.pending \in [Strokes -> Pending]
    BY <1>1, FinishOwners DEF OwnInv, IsBook
  <2> HIDE DEF c
  <2>4. \A t \in Strokes : book'.pending[t].owner = IF t = s THEN u ELSE c.pending[t].owner
    BY <2>1, <2>3
  <2>5. Open(book') \subseteq Open(c) \cup {s}
    BY <2>4 DEF Open
  <2>6. OpenBy(book', u) \subseteq OpenBy(c, u) \cup {s}
    BY <2>4 DEF OpenBy
  <2>7. \A v \in Users \ {u} : OpenBy(book', v) \subseteq OpenBy(book, v)
    BY <2>2, <2>4 DEF OpenBy
  <2>8. Small(Open(book'), MaxOpenPerRoom)
    <3>1. Small(Open(c) \cup {s}, MaxOpenPerRoom)
      BY <1>0, <2>2, SmallAdd
    <3> QED
      BY <1>0, <2>5, <3>1, SmallSubset
  <2>9. Small(OpenBy(book', u), MaxOpenPerUser)
    <3>1. Small(OpenBy(c, u) \cup {s}, MaxOpenPerUser)
      BY <1>0, <2>2, SmallAdd
    <3> QED
      BY <1>0, <2>6, <3>1, SmallSubset
  <2>10. \A v \in Users \ {u} : Small(OpenBy(book', v), MaxOpenPerUser)
    BY <1>0, <1>3, <2>7, SmallSubset
  <2> QED
    BY <1>4, <2>8, <2>9, <2>10
<1> QED
  BY <1>1, <1>5, <1>6

-----------------------------------------------------------------------------
(* The theorems.                                                           *)

\* A stroke on the canvas never changes hands, whatever ids clients choose
\* or reuse: begin refuses an id that is open or committed, and end commits
\* for the one who began (drawing.rs, state.rs).
THEOREM OwnersKept == Spec => OwnerStable
<1>1. Init => OwnInv
  BY OwnInvInit
<1>2. OwnInv /\ [Next]_vars => OwnInv'
  BY NextOwners
<1>3. OwnInv /\ [Next]_vars
        => [\A s \in Strokes :
              OwnerOf(book, s) # NoOne /\ OwnerOf(book', s) # NoOne
                => OwnerOf(book', s) = OwnerOf(book, s)]_vars
  BY NextOwners DEF OwnersStep
<1> QED
  BY <1>1, <1>2, <1>3, PTL DEF Spec, OwnerStable

\* Only a holder of DRAW opens a stroke: caller_may_draw looks again under
\* the lock, so a revocation between the gate and the lock counts.
THEOREM OnlyPermittedBegin == Spec => RevokedCannotBegin
<1>1. Init => OwnInv
  BY OwnInvInit
<1>2. OwnInv /\ [Next]_vars => OwnInv'
  BY NextOwners
<1>3. OwnInv /\ [Next]_vars
        => [\A s \in Strokes :
              book.pending[s] = NotOpen /\ book'.pending[s] # NotOpen
                => book'.pending[s].owner \in mayDraw]_vars
  BY NextOwners DEF OwnersStep
<1> QED
  BY <1>1, <1>2, <1>3, PTL DEF Spec, RevokedCannotBegin

\* The open strokes of a user and of the room stay within their caps, for
\* any caps: one pass of finish_oldest_open_strokes is always enough.
THEOREM OpenWithinCaps == Spec => []OpenBounded
<1>1. Init => CapInv
  BY CapInvInit
<1>2. CapInv /\ [Next]_vars => CapInv'
  BY NextCaps
<1>3. CapInv => OpenBounded
  BY DEF CapInv
<1> QED
  BY <1>1, <1>2, <1>3, PTL DEF Spec

-----------------------------------------------------------------------------
(* Sequences, and what is left of one when some entries are kept.          *)

\* The numbers up to n are n.
LEMMA CountTo ==
    ASSUME NEW n \in Nat
    PROVE  IsFiniteSet(1 .. n) /\ Cardinality(1 .. n) = n
<1>1. IsFiniteSet(1 .. n) /\ Cardinality(1 .. n) = IF 1 > n THEN 0 ELSE n - 1 + 1
  BY FS_Interval
<1> QED BY <1>1

\* R puts the members of S in one order.
TotalOrder(S, R) ==
    /\ \A x \in S : <<x, x>> \in R
    /\ \A x, y \in S : x # y => (<<x, y>> \in R <=> <<y, x>> \notin R)
    /\ \A x, y, z \in S : <<x, y>> \in R /\ <<y, z>> \in R => <<x, z>> \in R

UpTo(S, R, x) == {y \in S : <<y, x>> \in R}
RankIn(S, R, x) == Cardinality(UpTo(S, R, x))

\* A member's place in the order.
LEMMA RankBounds ==
    ASSUME NEW S, IsFiniteSet(S), NEW R, TotalOrder(S, R), NEW x \in S
    PROVE  RankIn(S, R, x) \in 1 .. Cardinality(S)
<1> DEFINE U == UpTo(S, R, x)
<1>1. U \subseteq S /\ x \in U
  BY DEF UpTo, TotalOrder
<1> HIDE DEF U
<1>2. IsFiniteSet(U) /\ Cardinality(U) <= Cardinality(S)
  BY <1>1, FS_Subset
<1>3. Cardinality(U) \in Nat /\ Cardinality(S) \in Nat
  BY <1>2, FS_CardinalityType
<1>4. Cardinality(U) # 0
  BY <1>1, <1>2, FS_EmptySet
<1>5. Cardinality(U) \in 1 .. Cardinality(S)
  BY <1>2, <1>3, <1>4
<1> QED BY <1>5 DEF RankIn, U

\* Places rise with the order.
LEMMA RankRises ==
    ASSUME NEW S, IsFiniteSet(S), NEW R, TotalOrder(S, R), NEW x \in S, NEW y \in S,
           x # y, <<x, y>> \in R
    PROVE  RankIn(S, R, x) < RankIn(S, R, y)
<1> DEFINE U == UpTo(S, R, x)  V == UpTo(S, R, y)
<1>1. U \subseteq V /\ y \in V /\ y \notin U /\ V \subseteq S
  <2>1. \A z \in S : <<z, x>> \in R => <<z, y>> \in R
    BY DEF TotalOrder
  <2>2. <<y, x>> \notin R /\ <<y, y>> \in R
    BY DEF TotalOrder
  <2> QED BY <2>1, <2>2 DEF UpTo
<1> HIDE DEF U, V
<1>2. IsFiniteSet(V)
  BY <1>1, FS_Subset
<1>3. IsFiniteSet(U) /\ Cardinality(U) <= Cardinality(V) /\ (Cardinality(V) = Cardinality(U) => V = U)
  BY <1>1, <1>2, FS_Subset
<1>4. Cardinality(U) \in Nat /\ Cardinality(V) \in Nat
  BY <1>2, <1>3, FS_CardinalityType
<1>5. Cardinality(U) < Cardinality(V)
  BY <1>1, <1>3, <1>4
<1> QED BY <1>5 DEF RankIn, U, V

\* InOrder lists a finite set, each member once, in the order.
LEMMA InOrderLists ==
    ASSUME NEW S, IsFiniteSet(S), NEW R, TotalOrder(S, R)
    PROVE  /\ Cardinality(S) \in Nat
           /\ InOrder(S, R) \in [1 .. Cardinality(S) -> S]
           /\ \A x \in S : \E k \in 1 .. Cardinality(S) : InOrder(S, R)[k] = x
           /\ \A k, l \in 1 .. Cardinality(S) :
                k < l <=> /\ InOrder(S, R)[k] # InOrder(S, R)[l]
                          /\ <<InOrder(S, R)[k], InOrder(S, R)[l]>> \in R
<1> DEFINE n == Cardinality(S)
           r == [x \in S |-> RankIn(S, R, x)]
           q == InOrder(S, R)
<1>1. n \in Nat
  BY FS_CardinalityType
<1>2. \A x \in S : r[x] \in 1 .. n
  BY RankBounds
<1>3. \A x, y \in S : x # y /\ <<x, y>> \in R => r[x] < r[y]
  BY RankRises
<1>4. \A x, y \in S : r[x] = r[y] => x = y
  <2> TAKE x, y \in S
  <2>1. r[x] \in Nat /\ r[y] \in Nat
    BY <1>1, <1>2
  <2>2. x # y => <<x, y>> \in R \/ <<y, x>> \in R
    BY DEF TotalOrder
  <2>3. x # y => r[x] < r[y] \/ r[y] < r[x]
    BY <1>3, <2>2
  <2> HIDE DEF r
  <2> QED BY <2>1, <2>3
<1>5. \A k \in 1 .. n : \E x \in S : r[x] = k
  <2>1. r \in Injection(S, 1 .. n)
    BY <1>2, <1>4 DEF Injection, IsInjective
  <2>2. IsFiniteSet(1 .. n) /\ Cardinality(1 .. n) = n
    <3> HIDE DEF n
    <3> QED BY <1>1, CountTo
  <2> HIDE DEF r
  <2>3. r \in Surjection(S, 1 .. n)
    BY <2>1, <2>2, FS_Injection
  <2> QED BY <2>3 DEF Surjection
<1>6. \A k \in 1 .. n : q[k] \in S /\ r[q[k]] = k
  <2> TAKE k \in 1 .. n
  <2>1. q[k] = CHOOSE x \in S : Cardinality({y \in S : <<y, x>> \in R}) = k
    BY DEF InOrder
  <2>2. \E x \in S : Cardinality({y \in S : <<y, x>> \in R}) = k
    BY <1>5 DEF RankIn, UpTo
  <2>3. q[k] \in S /\ Cardinality({y \in S : <<y, q[k]>> \in R}) = k
    <3> HIDE DEF q
    <3> QED BY <2>1, <2>2
  <2> QED BY <2>3 DEF RankIn, UpTo
<1>7. q \in [1 .. n -> S]
  <2>1. q = [k \in 1 .. n |-> CHOOSE x \in S : Cardinality({y \in S : <<y, x>> \in R}) = k]
    BY DEF InOrder
  <2> HIDE DEF q, n
  <2> QED BY <1>6, <2>1
<1> HIDE DEF q, n, r
<1>8. \A x \in S : q[r[x]] = x
  BY <1>2, <1>4, <1>6
<1>9. ASSUME NEW k \in 1 .. n, NEW l \in 1 .. n
      PROVE  k < l <=> q[k] # q[l] /\ <<q[k], q[l]>> \in R
  <2>1. q[k] \in S /\ q[l] \in S /\ r[q[k]] = k /\ r[q[l]] = l /\ k \in Nat /\ l \in Nat
    BY <1>1, <1>6
  <2>2. q[k] # q[l] /\ <<q[k], q[l]>> \in R => k < l
    BY <1>3, <2>1
  <2>3. q[k] # q[l] /\ <<q[k], q[l]>> \notin R => l < k
    <3> HAVE q[k] # q[l] /\ <<q[k], q[l]>> \notin R
    <3>1. <<q[l], q[k]>> \in R
      BY <2>1 DEF TotalOrder
    <3> QED BY <1>3, <2>1, <3>1
  <2>4. q[k] = q[l] => k = l
    BY <2>1
  <2> QED BY <2>1, <2>2, <2>3, <2>4
<1> QED BY <1>1, <1>2, <1>7, <1>8, <1>9 DEF q, n

\* Only keeps the order of what it keeps.
LEMMA OnlyKeeps ==
    ASSUME NEW A, NEW q \in Seq(A), NEW S
    PROVE  /\ Only(q, S) \in Seq(A) /\ Len(Only(q, S)) <= Len(q)
           /\ Range(Only(q, S)) = Range(q) \cap S
           /\ \A s, t : Before(Only(q, S), s, t) <=> s \in S /\ t \in S /\ Before(q, s, t)
<1> DEFINE places == {i \in DOMAIN q : q[i] \in S}
           R == {p \in places \X places : p[1] <= p[2]}
           n == Cardinality(places)
           next == InOrder(places, R)
           o == Only(q, S)
<1>0. Len(q) \in Nat /\ DOMAIN q = 1 .. Len(q) /\ \A i \in 1 .. Len(q) : q[i] \in A
  OBVIOUS
<1>1. IsFiniteSet(places) /\ n <= Len(q)
  <2>1. IsFiniteSet(1 .. Len(q)) /\ Cardinality(1 .. Len(q)) = Len(q)
    <3> DEFINE m == Len(q)
    <3>1. m \in Nat  BY <1>0
    <3> HIDE DEF m
    <3>2. IsFiniteSet(1 .. m) /\ Cardinality(1 .. m) = m
      BY <3>1, CountTo
    <3> QED BY <3>2 DEF m
  <2>2. places \subseteq 1 .. Len(q)
    BY <1>0
  <2> HIDE DEF places
  <2>3. IsFiniteSet(places) /\ Cardinality(places) <= Cardinality(1 .. Len(q))
    BY <2>1, <2>2, FS_Subset
  <2> QED BY <2>1, <2>3
<1>2. \A i \in places : i \in Nat
  BY <1>0
<1>3. TotalOrder(places, R)
  <2>1. \A i, j \in places : <<i, j>> \in R <=> i <= j
    <3> HIDE DEF places
    <3> QED OBVIOUS
  <2> HIDE DEF places, R
  <2> QED BY <1>2, <2>1 DEF TotalOrder
<1>4. \A i, j \in places : (i # j /\ <<i, j>> \in R) <=> i < j
  <2>1. \A i, j \in places : <<i, j>> \in R <=> i <= j
    <3> HIDE DEF places
    <3> QED OBVIOUS
  <2> TAKE i, j \in places
  <2>2. i \in Nat /\ j \in Nat
    BY <1>2
  <2>3. <<i, j>> \in R <=> i <= j
    BY <2>1
  <2> HIDE DEF places, R
  <2> QED BY <2>2, <2>3
<1>5. o = [k \in 1 .. n |-> q[next[k]]]
  BY Zenon DEF Only, Retain
<1>6. \A i \in places : i \in 1 .. Len(q) /\ q[i] \in S
  BY <1>0
<1>7. \A i \in 1 .. Len(q) : q[i] \in S => i \in places
  BY <1>0
<1> HIDE DEF places, R
<1>8. /\ n \in Nat /\ next \in [1 .. n -> places]
      /\ \A i \in places : \E k \in 1 .. n : next[k] = i
      /\ \A k, l \in 1 .. n : k < l <=> next[k] < next[l]
  <2>1. /\ n \in Nat /\ next \in [1 .. n -> places]
        /\ \A i \in places : \E k \in 1 .. n : next[k] = i
        /\ \A k, l \in 1 .. n : k < l <=> next[k] # next[l] /\ <<next[k], next[l]>> \in R
    BY <1>1, <1>3, InOrderLists
  <2> HIDE DEF n, next
  <2> QED BY <1>4, <2>1
<1> HIDE DEF n, next, o
<1>9. o \in Seq(A) /\ Len(o) = n /\ DOMAIN o = 1 .. n
  <2>1. \A k \in 1 .. n : q[next[k]] \in A
    BY <1>0, <1>6, <1>8
  <2>2. o \in [1 .. n -> A]
    BY <1>5, <2>1
  <2> QED BY <1>8, <2>2
<1>10. Range(o) = Range(q) \cap S
  <2>1. \A k \in 1 .. n : o[k] = q[next[k]] /\ next[k] \in 1 .. Len(q) /\ o[k] \in S
    BY <1>5, <1>6, <1>8
  <2>2. \A i \in 1 .. Len(q) : q[i] \in S => \E k \in 1 .. n : o[k] = q[i]
    BY <1>5, <1>7, <1>8
  <2>3. Range(o) = {o[k] : k \in 1 .. n}
    BY <1>9 DEF Range
  <2>4. Range(q) = {q[i] : i \in 1 .. Len(q)}
    BY <1>0 DEF Range
  <2>5. \A x \in Range(o) : x \in Range(q) /\ x \in S
    BY <2>1, <2>3, <2>4
  <2>6. \A x \in Range(q) : x \in S => x \in Range(o)
    BY <2>2, <2>3, <2>4
  <2> QED BY <2>5, <2>6
<1>11. ASSUME NEW s, NEW t
       PROVE  Before(o, s, t) <=> s \in S /\ t \in S /\ Before(q, s, t)
  <2>1. ASSUME Before(o, s, t) PROVE s \in S /\ t \in S /\ Before(q, s, t)
    <3>1. PICK k, l \in 1 .. n : k < l /\ o[k] = s /\ o[l] = t
      BY <1>9, <2>1 DEF Before
    <3>2. /\ next[k] < next[l] /\ next[k] \in places /\ next[l] \in places
          /\ q[next[k]] = s /\ q[next[l]] = t
      BY <1>5, <1>8, <3>1
    <3> QED BY <1>0, <1>6, <3>2 DEF Before
  <2>2. ASSUME s \in S, t \in S, Before(q, s, t) PROVE Before(o, s, t)
    <3>1. PICK i, j \in 1 .. Len(q) : i < j /\ q[i] = s /\ q[j] = t
      BY <1>0, <2>2 DEF Before
    <3>2. PICK k \in 1 .. n : next[k] = i
      BY <1>7, <1>8, <2>2, <3>1
    <3>3. PICK l \in 1 .. n : next[l] = j
      BY <1>7, <1>8, <2>2, <3>1
    <3>4. k < l /\ o[k] = s /\ o[l] = t
      BY <1>5, <1>8, <3>1, <3>2, <3>3
    <3> QED BY <1>9, <3>4 DEF Before
  <2> QED BY <2>1, <2>2
<1> QED BY <1>1, <1>9, <1>10, <1>11 DEF o

\* Each entry of q is there once.
Once(q) == \A s : ~Before(q, s, s)

\* An appended entry comes after every other.
LEMMA AppendFacts ==
    ASSUME NEW A, NEW q \in Seq(A), NEW x \in A
    PROVE  /\ Append(q, x) \in Seq(A) /\ Len(Append(q, x)) = Len(q) + 1
           /\ Range(Append(q, x)) = Range(q) \cup {x}
           /\ \A s, t : Before(Append(q, x), s, t)
                          <=> Before(q, s, t) \/ (s \in Range(q) /\ t = x)
           /\ Head(Append(q, x)) = IF q = <<>> THEN x ELSE Head(q)
<1> DEFINE p == Append(q, x)  n == Len(q)
<1>1. /\ p \in Seq(A) /\ Len(p) = n + 1 /\ n \in Nat
      /\ \A i \in 1 .. n : p[i] = q[i]
      /\ p[n + 1] = x
  BY AppendProperties, LenProperties
<1>2. DOMAIN q = 1 .. n /\ DOMAIN p = 1 .. n + 1
  BY <1>1, LenProperties
<1>3. Head(p) = IF q = <<>> THEN x ELSE Head(q)
  BY HeadTailAppend
<1> HIDE DEF p, n
<1>4. Range(p) = {p[i] : i \in 1 .. n + 1} /\ Range(q) = {q[i] : i \in 1 .. n}
  BY <1>2 DEF Range
<1>5. n + 1 \in 1 .. n + 1 /\ \A i \in 1 .. n : i \in 1 .. n + 1 /\ i < n + 1
  BY <1>1
<1>6. \A i \in 1 .. n + 1 : i \in 1 .. n \/ i = n + 1
  BY <1>1
<1>7. Range(p) = Range(q) \cup {x}
  <2>1. \A y \in Range(p) : y \in Range(q) \cup {x}
    BY <1>1, <1>4, <1>6
  <2>2. \A y \in Range(q) \cup {x} : y \in Range(p)
    BY <1>1, <1>4, <1>5
  <2> QED BY <2>1, <2>2
<1>8. ASSUME NEW s, NEW t
      PROVE  Before(p, s, t) <=> Before(q, s, t) \/ (s \in Range(q) /\ t = x)
  <2>1. ASSUME Before(p, s, t) PROVE Before(q, s, t) \/ (s \in Range(q) /\ t = x)
    <3>1. PICK i, j \in 1 .. n + 1 : i < j /\ p[i] = s /\ p[j] = t
      BY <1>2, <2>1 DEF Before
    <3>2. i \in 1 .. n
      BY <1>1, <3>1
    <3>3. CASE j \in 1 .. n
      BY <1>1, <1>2, <3>1, <3>2, <3>3 DEF Before
    <3>4. CASE j = n + 1
      BY <1>1, <1>4, <3>1, <3>2, <3>4
    <3> QED BY <1>6, <3>3, <3>4
  <2>2. ASSUME Before(q, s, t) PROVE Before(p, s, t)
    <3>1. PICK i, j \in 1 .. n : i < j /\ q[i] = s /\ q[j] = t
      BY <1>2, <2>2 DEF Before
    <3> QED BY <1>1, <1>2, <1>5, <3>1 DEF Before
  <2>3. ASSUME s \in Range(q), t = x PROVE Before(p, s, t)
    <3>1. PICK i \in 1 .. n : q[i] = s
      BY <1>4, <2>3
    <3> QED BY <1>1, <1>2, <1>5, <2>3, <3>1 DEF Before
  <2> QED BY <2>1, <2>2, <2>3
<1> QED BY <1>1, <1>3, <1>7, <1>8 DEF p, n

\* Taking the head off takes away only what concerns it.
LEMMA TailFacts ==
    ASSUME NEW A, NEW q \in Seq(A), q # <<>>, Once(q)
    PROVE  /\ Tail(q) \in Seq(A) /\ Len(Tail(q)) = Len(q) - 1 /\ Head(q) \in A
           /\ Range(Tail(q)) = Range(q) \ {Head(q)} /\ Head(q) \in Range(q)
           /\ \A s, t : Before(Tail(q), s, t) <=> Before(q, s, t) /\ s # Head(q)
<1> DEFINE p == Tail(q)  n == Len(q)  h == Head(q)
<1>1. /\ p \in Seq(A) /\ Len(p) = n - 1 /\ n \in Nat /\ n # 0 /\ h \in A
      /\ \A i \in 1 .. n - 1 : p[i] = q[i + 1]
  BY HeadTailProperties, LenProperties, EmptySeq
<1>2. h = q[1]
  OBVIOUS
<1>3. DOMAIN q = 1 .. n /\ DOMAIN p = 1 .. n - 1
  BY <1>1, LenProperties
<1> HIDE DEF p, n, h
<1>4. Range(p) = {p[i] : i \in 1 .. n - 1} /\ Range(q) = {q[i] : i \in 1 .. n}
  BY <1>3 DEF Range
<1>5. 1 \in 1 .. n /\ \A i \in 1 .. n - 1 : i + 1 \in 1 .. n /\ 1 < i + 1
  BY <1>1
<1>6. \A i \in 1 .. n : i # 1 => i - 1 \in 1 .. n - 1 /\ i - 1 + 1 = i /\ 1 < i
  BY <1>1
<1>7. \A i \in 1 .. n : i # 1 => q[i] # h /\ p[i - 1] = q[i]
  <2> TAKE i \in 1 .. n
  <2> HAVE i # 1
  <2>1. 1 < i /\ i - 1 \in 1 .. n - 1 /\ (i - 1) + 1 = i
    BY <1>6
  <2>2. q[i] # h
    <3>1. ~Before(q, h, h)
      BY DEF Once
    <3> QED BY <1>2, <1>3, <1>5, <2>1, <3>1 DEF Before
  <2>3. p[i - 1] = q[i]
    BY <1>1, <2>1
  <2> QED BY <2>2, <2>3
<1>8. Range(p) = Range(q) \ {h} /\ h \in Range(q)
  <2>1. \A y \in Range(p) : y \in Range(q) /\ y # h
    <3> TAKE y \in Range(p)
    <3>1. PICK i \in 1 .. n - 1 : y = p[i]
      BY <1>4
    <3>2. i + 1 \in 1 .. n /\ i + 1 # 1 /\ y = q[i + 1]
      BY <1>1, <1>5, <3>1
    <3> QED BY <1>4, <1>7, <3>2
  <2>2. \A y \in Range(q) : y # h => y \in Range(p)
    <3> TAKE y \in Range(q)
    <3> HAVE y # h
    <3>1. PICK i \in 1 .. n : y = q[i]
      BY <1>4
    <3>2. i # 1
      BY <1>2, <3>1
    <3> QED BY <1>4, <1>6, <1>7, <3>1, <3>2
  <2>3. h \in Range(q)
    BY <1>2, <1>4, <1>5
  <2> QED BY <2>1, <2>2, <2>3
<1>9. ASSUME NEW s, NEW t
      PROVE  Before(p, s, t) <=> Before(q, s, t) /\ s # h
  <2>1. ASSUME Before(p, s, t) PROVE Before(q, s, t) /\ s # h
    <3>1. PICK i, j \in 1 .. n - 1 : i < j /\ p[i] = s /\ p[j] = t
      BY <1>3, <2>1 DEF Before
    <3>2. i + 1 \in 1 .. n /\ j + 1 \in 1 .. n /\ i + 1 < j + 1 /\ i + 1 # 1
      BY <1>1, <3>1
    <3>3. q[i + 1] = s /\ q[j + 1] = t
      BY <1>1, <3>1
    <3> QED BY <1>3, <1>7, <3>2, <3>3 DEF Before
  <2>2. ASSUME Before(q, s, t), s # h PROVE Before(p, s, t)
    <3>1. PICK i, j \in 1 .. n : i < j /\ q[i] = s /\ q[j] = t
      BY <1>3, <2>2 DEF Before
    <3>2. i # 1 /\ j # 1
      BY <1>1, <1>2, <2>2, <3>1
    <3>3. i - 1 \in 1 .. n - 1 /\ j - 1 \in 1 .. n - 1 /\ i - 1 < j - 1
      BY <1>1, <3>1, <3>2
    <3>4. p[i - 1] = s /\ p[j - 1] = t
      BY <1>7, <3>1, <3>2
    <3> QED BY <1>3, <3>3, <3>4 DEF Before
  <2> QED BY <2>1, <2>2
<1> QED BY <1>1, <1>8, <1>9 DEF p, n, h

\* In a concatenation each entry of the first comes before each of the second.
LEMMA ConcatFacts ==
    ASSUME NEW A, NEW q \in Seq(A), NEW p \in Seq(A)
    PROVE  /\ q \o p \in Seq(A)
           /\ Range(q \o p) = Range(q) \cup Range(p)
           /\ \A s, t : Before(q \o p, s, t)
                 <=> Before(q, s, t) \/ Before(p, s, t) \/ (s \in Range(q) /\ t \in Range(p))
<1> DEFINE r == q \o p  n == Len(q)  m == Len(p)
<1>1. /\ r \in Seq(A) /\ Len(r) = n + m /\ n \in Nat /\ m \in Nat
      /\ \A i \in 1 .. n + m : r[i] = IF i <= n THEN q[i] ELSE p[i - n]
  BY ConcatProperties, LenProperties
<1>2. DOMAIN q = 1 .. n /\ DOMAIN p = 1 .. m /\ DOMAIN r = 1 .. n + m
  BY <1>1, LenProperties
<1> HIDE DEF r, n, m
<1>3. Range(r) = {r[i] : i \in 1 .. n + m} /\ Range(q) = {q[i] : i \in 1 .. n}
        /\ Range(p) = {p[i] : i \in 1 .. m}
  BY <1>2 DEF Range
<1>4. \A i \in 1 .. n : i \in 1 .. n + m /\ r[i] = q[i]
  BY <1>1
<1>5. \A i \in 1 .. m : n + i \in 1 .. n + m /\ r[n + i] = p[i]
  <2> TAKE i \in 1 .. m
  <2>1. n + i \in 1 .. n + m /\ ~(n + i <= n) /\ (n + i) - n = i
    BY <1>1
  <2> QED BY <1>1, <2>1
<1>6. \A k \in 1 .. n + m : k \in 1 .. n \/ \E i \in 1 .. m : k = n + i
  <2> TAKE k \in 1 .. n + m
  <2>1. k \in 1 .. n \/ (k - n \in 1 .. m /\ k = n + (k - n))
    BY <1>1
  <2> QED BY <2>1
<1>7. Range(r) = Range(q) \cup Range(p)
  <2>1. \A y \in Range(r) : y \in Range(q) \cup Range(p)
    BY <1>3, <1>4, <1>5, <1>6
  <2>2. \A y \in Range(q) \cup Range(p) : y \in Range(r)
    BY <1>3, <1>4, <1>5
  <2> QED BY <2>1, <2>2
<1>8. ASSUME NEW s, NEW t
      PROVE  Before(r, s, t)
               <=> Before(q, s, t) \/ Before(p, s, t) \/ (s \in Range(q) /\ t \in Range(p))
  <2>1. ASSUME Before(r, s, t)
        PROVE Before(q, s, t) \/ Before(p, s, t) \/ (s \in Range(q) /\ t \in Range(p))
    <3>1. PICK k, l \in 1 .. n + m : k < l /\ r[k] = s /\ r[l] = t
      BY <1>2, <2>1 DEF Before
    <3>2. CASE k \in 1 .. n /\ l \in 1 .. n
      BY <1>2, <1>4, <3>1, <3>2 DEF Before
    <3>3. CASE k \in 1 .. n /\ \E j \in 1 .. m : l = n + j
      BY <1>3, <1>4, <1>5, <3>1, <3>3
    <3>4. CASE l \in 1 .. n /\ \E i \in 1 .. m : k = n + i
      BY <1>1, <3>1, <3>4
    <3>5. CASE (\E i \in 1 .. m : k = n + i) /\ \E j \in 1 .. m : l = n + j
      <4>1. PICK i \in 1 .. m, j \in 1 .. m : k = n + i /\ l = n + j
        BY <3>5
      <4>2. i < j
        BY <1>1, <3>1, <4>1
      <4> QED BY <1>2, <1>5, <3>1, <4>1, <4>2 DEF Before
    <3> QED BY <1>6, <3>2, <3>3, <3>4, <3>5
  <2>2. ASSUME Before(q, s, t) PROVE Before(r, s, t)
    BY <1>2, <1>4, <2>2 DEF Before
  <2>3. ASSUME Before(p, s, t) PROVE Before(r, s, t)
    <3>1. PICK i, j \in 1 .. m : i < j /\ p[i] = s /\ p[j] = t
      BY <1>2, <2>3 DEF Before
    <3>2. n + i < n + j
      BY <1>1, <3>1
    <3> QED BY <1>2, <1>5, <3>1, <3>2 DEF Before
  <2>4. ASSUME s \in Range(q), t \in Range(p) PROVE Before(r, s, t)
    <3>1. PICK i \in 1 .. n, j \in 1 .. m : q[i] = s /\ p[j] = t
      BY <1>3, <2>4
    <3>2. i < n + j
      BY <1>1, <3>1
    <3> QED BY <1>2, <1>4, <1>5, <3>1, <3>2 DEF Before
  <2> QED BY <2>1, <2>2, <2>3, <2>4
<1> QED BY <1>1, <1>7, <1>8 DEF r

\* A sequence without repetition is as long as the set it lists.
LEMMA OnceCounts ==
    ASSUME NEW A, NEW q \in Seq(A), Once(q)
    PROVE  IsFiniteSet(Range(q)) /\ Cardinality(Range(q)) = Len(q)
<1> DEFINE n == Len(q)
<1>1. n \in Nat /\ DOMAIN q = 1 .. n /\ q \in [1 .. n -> Range(q)]
  BY LenProperties DEF Range
<1> HIDE DEF n
<1>2. ASSUME NEW i \in 1 .. n, NEW j \in 1 .. n, q[i] = q[j] PROVE i = j
  <2>1. ~(i < j) /\ ~(j < i)
    BY <1>1, <1>2 DEF Once, Before
  <2>2. i \in Nat /\ j \in Nat
    BY <1>1
  <2> QED BY <2>1, <2>2
<1>3. \A y \in Range(q) : \E i \in 1 .. n : q[i] = y
  BY <1>1 DEF Range
<1>4. ExistsBijection(1 .. n, Range(q))
  BY <1>1, <1>2, <1>3 DEF ExistsBijection, Bijection, Injection, IsInjective, Surjection
<1>5. IsFiniteSet(1 .. n) /\ Cardinality(1 .. n) = n
  BY <1>1, CountTo
<1> QED BY <1>4, <1>5, FS_Bijection DEF n

-----------------------------------------------------------------------------
(* The points that content holds.                                          *)

\* The points are counted, and a stroke with points is kept.
Counted(b) ==
    /\ b.content \in [Strokes -> Content]
    /\ b.retained = Cardinality(PointsHeld(b))
    /\ b.retained <= MaxRetained
    /\ \A s \in Strokes : /\ b.content[s].points <= MaxPerStroke
                          /\ b.content[s].points # 0 => b.content[s].kept = "kept"

\* A book holds finitely many points.
LEMMA PointsFinite ==
    ASSUME NEW b
    PROVE  IsFiniteSet(PointsHeld(b)) /\ Cardinality(PointsHeld(b)) \in Nat
<1>1. IsFiniteSet(1 .. MaxPerStroke)
  BY FS_Interval, DrawingAssumption
<1>2. IsFiniteSet(Strokes \X (1 .. MaxPerStroke))
  BY <1>1, FS_Product, DrawingAssumption
<1>3. PointsHeld(b) \subseteq Strokes \X (1 .. MaxPerStroke)
  BY DEF PointsHeld
<1> QED BY <1>2, <1>3, FS_Subset, FS_CardinalityType

\* What one stroke holds is counted as much as it holds.
LEMMA CountChanges ==
    ASSUME NEW b, NEW d, NEW s \in Strokes,
           b.content \in [Strokes -> Content], d.content \in [Strokes -> Content],
           b.content[s].points <= MaxPerStroke, d.content[s].points <= MaxPerStroke,
           \A t \in Strokes \ {s} : d.content[t].points = b.content[t].points
    PROVE  Cardinality(PointsHeld(d)) + b.content[s].points
             = Cardinality(PointsHeld(b)) + d.content[s].points
<1> DEFINE R == {p \in PointsHeld(b) : p[1] # s}
           Col(m) == {s} \X (1 .. m)
           j == b.content[s].points
           k == d.content[s].points
<1>0. j \in 0 .. MaxPerStroke /\ k \in 0 .. MaxPerStroke /\ MaxPerStroke \in Nat
  BY DrawingAssumption DEF Content
<1>1. IsFiniteSet(R) /\ Cardinality(R) \in Nat
  <2>1. R \subseteq PointsHeld(b)
    OBVIOUS
  <2> QED BY <2>1, PointsFinite, FS_Subset, FS_CardinalityType
<1>2. ASSUME NEW n \in Nat
      PROVE  /\ IsFiniteSet(Col(n)) /\ Cardinality(Col(n)) = n
             /\ R \cap Col(n) = {}
             /\ Cardinality(R \cup Col(n)) = Cardinality(R) + n
  <2>1. IsFiniteSet(1 .. n) /\ Cardinality(1 .. n) = n
    BY CountTo
  <2>2. IsFiniteSet({s}) /\ Cardinality({s}) = 1
    BY FS_Singleton
  <2>3. IsFiniteSet(Col(n)) /\ Cardinality(Col(n)) = n
    <3> DEFINE one == {s}  upto == 1 .. n
    <3>1. IsFiniteSet(one) /\ IsFiniteSet(upto) /\ Cardinality(one) = 1 /\ Cardinality(upto) = n
      BY <2>1, <2>2
    <3> HIDE DEF one, upto
    <3>2. IsFiniteSet(one \X upto) /\ Cardinality(one \X upto) = Cardinality(one) * Cardinality(upto)
      BY <3>1, FS_Product
    <3>3. IsFiniteSet(one \X upto) /\ Cardinality(one \X upto) = n
      BY <3>1, <3>2
    <3> QED BY <3>3 DEF one, upto
  <2>4. R \cap Col(n) = {}
    OBVIOUS
  <2> HIDE DEF R, Col
  <2>5. Cardinality(R \cup Col(n)) = Cardinality(R) + Cardinality(Col(n)) - Cardinality({})
    BY <1>1, <2>3, <2>4, FS_Union
  <2>6. Cardinality({}) = 0
    BY FS_EmptySet
  <2> QED BY <1>1, <2>3, <2>4, <2>5, <2>6
<1>3. PointsHeld(b) = R \cup Col(j)
  <2>1. \A p \in PointsHeld(b) : p[1] = s => p \in Col(j)
    BY <1>0 DEF PointsHeld
  <2>2. \A p \in Col(j) : p \in PointsHeld(b)
    BY <1>0 DEF PointsHeld
  <2> HIDE DEF Col
  <2> QED BY <2>1, <2>2
<1>4. PointsHeld(d) = R \cup Col(k)
  <2>1. \A p \in PointsHeld(d) : p[1] = s => p \in Col(k)
    BY <1>0 DEF PointsHeld
  <2>2. \A p \in Col(k) : p \in PointsHeld(d)
    BY <1>0 DEF PointsHeld
  <2>3. \A p \in Strokes \X (1 .. MaxPerStroke) : p[1] # s =>
           (p \in PointsHeld(d) <=> p \in PointsHeld(b))
    BY DEF PointsHeld
  <2>4. /\ PointsHeld(b) \subseteq Strokes \X (1 .. MaxPerStroke)
        /\ PointsHeld(d) \subseteq Strokes \X (1 .. MaxPerStroke)
    BY DEF PointsHeld
  <2> HIDE DEF Col
  <2> QED BY <2>1, <2>2, <2>3, <2>4
<1> HIDE DEF R, Col, j, k
<1>5. Cardinality(R \cup Col(j)) = Cardinality(R) + j /\ Cardinality(R \cup Col(k)) = Cardinality(R) + k
  <2>1. j \in Nat /\ k \in Nat
    BY <1>0
  <2> QED BY <1>2, <2>1
<1>6. Cardinality(PointsHeld(d)) + j = Cardinality(PointsHeld(b)) + k
  BY <1>0, <1>1, <1>3, <1>4, <1>5
<1> QED BY <1>6 DEF j, k

\* A stroke's content is replaced, and the count with it.
LEMMA Recount ==
    ASSUME NEW b, Counted(b), NEW s \in Strokes, NEW k \in Content, NEW d,
           d.content = [b.content EXCEPT ![s] = k],
           d.retained = (b.retained - b.content[s].points) + k.points,
           d.retained <= MaxRetained,
           k.points <= MaxPerStroke, k.points # 0 => k.kept = "kept"
    PROVE  Counted(d)
<1>1. d.content \in [Strokes -> Content] /\ d.content[s] = k
        /\ \A t \in Strokes \ {s} : d.content[t] = b.content[t]
  BY DEF Counted
<1>2. Cardinality(PointsHeld(d)) + b.content[s].points
             = Cardinality(PointsHeld(b)) + k.points
  BY <1>1, CountChanges DEF Counted
<1>3. Cardinality(PointsHeld(d)) \in Nat /\ Cardinality(PointsHeld(b)) \in Nat
        /\ k.points \in Nat /\ b.content[s].points \in Nat
  BY PointsFinite DEF Counted, Content
<1>4. d.retained = Cardinality(PointsHeld(d))
  BY <1>2, <1>3 DEF Counted
<1> QED BY <1>1, <1>4 DEF Counted

\* A stroke holds no more than is held.
LEMMA HeldWithin ==
    ASSUME NEW b, Counted(b), NEW s \in Strokes
    PROVE  b.retained \in Nat /\ b.content[s].points \in 0 .. b.retained
<1> DEFINE d == [content |-> [b.content EXCEPT ![s] = NoContent]]
<1>1. d.content \in [Strokes -> Content] /\ d.content[s].points = 0
        /\ \A t \in Strokes \ {s} : d.content[t] = b.content[t]
  BY DEF Counted, Content, NoContent
<1> HIDE DEF d
<1>2. Cardinality(PointsHeld(d)) + b.content[s].points
             = Cardinality(PointsHeld(b)) + d.content[s].points
  BY <1>1, CountChanges, DrawingAssumption DEF Counted
<1>3. Cardinality(PointsHeld(d)) \in Nat /\ Cardinality(PointsHeld(b)) \in Nat
        /\ b.content[s].points \in Nat
  BY PointsFinite DEF Counted, Content
<1> QED BY <1>1, <1>2, <1>3 DEF Counted

Queued(b) == b.evict \in Seq(Strokes)

\* forget_content: the stroke's points are given back.
LEMMA ForgetFields ==
    ASSUME NEW b, IsBook(b), Counted(b), NEW s \in Strokes
    PROVE  LET c == ForgetContent(b, s)
           IN  /\ IsBook(c) /\ Counted(c)
               /\ c.content = [b.content EXCEPT ![s] = NoContent]
               /\ c.pending = b.pending /\ c.committed = b.committed
               /\ c.order = b.order /\ c.evict = b.evict /\ c.forgotten = b.forgotten
<1> DEFINE c == ForgetContent(b, s)
<1>1. /\ c.content = [b.content EXCEPT ![s] = NoContent]
      /\ c.retained = b.retained - b.content[s].points
      /\ c.order = b.order /\ c.evict = b.evict /\ c.forgotten = b.forgotten
  BY DEF ForgetContent, IsBook, Fields
<1>2. IsBook(c) /\ c.pending = b.pending /\ c.committed = b.committed
  BY ForgetKeepsOwners
<1> HIDE DEF c
<1>3. NoContent \in Content /\ NoContent.points = 0
  BY DEF NoContent, Content
<1>4. /\ b.retained \in Nat
      /\ b.content[s].points \in 0 .. b.retained
      /\ MaxRetained \in Nat
      /\ MaxPerStroke \in Nat
  BY HeldWithin, DrawingAssumption
<1>5. c.retained = (b.retained - b.content[s].points) + NoContent.points /\ c.retained <= MaxRetained
  BY <1>1, <1>3, <1>4 DEF Counted
<1>6. Counted(c)
  BY <1>1, <1>3, <1>4, <1>5, Recount
<1> QED BY <1>1, <1>2, <1>6 DEF c

\* Content that is no longer kept.
PointsLost(k) == [kept |-> "dropped", points |-> 0, ended |-> k.ended]

\* drop_content and mark_dropped: the same, but the stroke is remembered.
LEMMA DropFields ==
    ASSUME NEW b, IsBook(b), Counted(b), NEW s \in Strokes
    PROVE  LET c == DropContent(b, s)
           IN  /\ IsBook(c) /\ Counted(c)
               /\ c.content = [b.content EXCEPT ![s] = PointsLost(b.content[s])]
               /\ c.retained = b.retained - b.content[s].points
               /\ c.pending = b.pending /\ c.committed = b.committed
               /\ c.order = b.order /\ c.evict = b.evict /\ c.forgotten = b.forgotten
<1> DEFINE c == DropContent(b, s)
           k == b.content[s]
<1>0. k \in Content /\ b.content \in [Strokes -> Content]
  BY DEF Counted
<1>1. /\ c.retained = b.retained - b.content[s].points
      /\ c.order = b.order /\ c.evict = b.evict /\ c.forgotten = b.forgotten
  BY DEF DropContent, IsBook, Fields
<1>7. c.content = [b.content EXCEPT ![s] = PointsLost(k)]
  <2>1. c.content = [[b.content EXCEPT ![s].kept = "dropped"] EXCEPT ![s].points = 0]
    BY DEF DropContent, IsBook, Fields
  <2>2. [[k EXCEPT !.kept = "dropped"] EXCEPT !.points = 0] = PointsLost(k)
    <3>1. PICK a, n, e : k = [kept |-> a, points |-> n, ended |-> e]
      BY <1>0 DEF Content
    <3>2. [k EXCEPT !.kept = "dropped"] = [kept |-> "dropped", points |-> n, ended |-> e]
      BY <3>1
    <3>3. [[kept |-> "dropped", points |-> n, ended |-> e] EXCEPT !.points = 0]
            = [kept |-> "dropped", points |-> 0, ended |-> e]
      OBVIOUS
    <3>4. k.ended = e
      BY <3>1
    <3> HIDE DEF k
    <3> QED BY <3>2, <3>3, <3>4 DEF PointsLost
  <2>3. [[b.content EXCEPT ![s].kept = "dropped"] EXCEPT ![s].points = 0]
          = [b.content EXCEPT ![s] = [[k EXCEPT !.kept = "dropped"] EXCEPT !.points = 0]]
    BY <1>0
  <2> QED BY <2>1, <2>2, <2>3
<1>2. IsBook(c) /\ c.pending = b.pending /\ c.committed = b.committed
  BY DropKeepsOwners
<1> HIDE DEF c
<1>3. PointsLost(k) \in Content /\ PointsLost(k).points = 0
  BY <1>0 DEF PointsLost, Content
<1>4. /\ b.retained \in Nat
      /\ b.content[s].points \in 0 .. b.retained
      /\ MaxRetained \in Nat
      /\ MaxPerStroke \in Nat
  BY HeldWithin, DrawingAssumption
<1>5. c.retained = (b.retained - b.content[s].points) + PointsLost(k).points /\ c.retained <= MaxRetained
  BY <1>1, <1>3, <1>4 DEF Counted
<1>6. Counted(c)
  BY <1>1, <1>3, <1>4, <1>5, <1>7, Recount
<1> QED BY <1>1, <1>2, <1>6, <1>7 DEF c

-----------------------------------------------------------------------------
(* The bookkeeping is sound, method by method.                             *)

\* The commit order lists the committed strokes, each once.
Listed(b) ==
    /\ b.order \in Seq(Strokes)
    /\ Range(b.order) = Committed(b)
    /\ Once(b.order)
    /\ Len(b.order) <= MaxCommitted

\* commit() of a stroke appends it, and may forget the oldest.
LEMMA CommitFields ==
    ASSUME NEW b, IsBook(b), Counted(b), Queued(b), Listed(b),
           NEW s \in Strokes, s \notin Committed(b), NEW u \in Users
    PROVE  LET c == Commit(b, s, u)
           IN  /\ IsBook(c) /\ Counted(c) /\ Queued(c) /\ Listed(c)
               /\ c.pending = b.pending
               /\ \E purged \in SUBSET Committed(b) :
                    /\ s \notin purged /\ c.forgotten = b.forgotten \cup purged
                    /\ Committed(c) = (Committed(b) \cup {s}) \ purged
                    /\ \A t \in purged : c.content[t] = NoContent
                    /\ \A t \in Strokes \ purged : c.content[t] = b.content[t]
                    /\ \A x, y \in Committed(c) :
                         Before(c.order, x, y)
                           <=> Before(b.order, x, y) \/ (x \in Committed(b) /\ y = s)
<1> DEFINE order == IF b.committed[s] = NoOne THEN Append(b.order, s) ELSE b.order
           oldest == Head(order)
           noted == [b EXCEPT !.committed[s] = u, !.order = order]
           less == [noted EXCEPT !.committed[oldest] = NoOne,
                                 !.order = Tail(order),
                                 !.forgotten = @ \cup {oldest}]
           Good(c, purged) ==
               /\ IsBook(c) /\ Counted(c) /\ Queued(c) /\ Listed(c)
               /\ c.pending = b.pending
               /\ s \notin purged /\ c.forgotten = b.forgotten \cup purged
               /\ Committed(c) = (Committed(b) \cup {s}) \ purged
               /\ \A t \in purged : c.content[t] = NoContent
               /\ \A t \in Strokes \ purged : c.content[t] = b.content[t]
               /\ \A x, y \in Committed(c) :
                         Before(c.order, x, y)
                           <=> Before(b.order, x, y) \/ (x \in Committed(b) /\ y = s)
<1>0. order = Append(b.order, s)
  BY DEF Committed
<1>4. Commit(b, s, u) = IF Len(order) <= MaxCommitted THEN noted
                        ELSE ForgetContent(less, oldest)
  BY DEF Commit
<1>x. oldest = Head(order)
  OBVIOUS
<1> HIDE DEF order, oldest
<1>1. /\ order \in Seq(Strokes) /\ Len(order) = Len(b.order) + 1
      /\ Range(order) = Committed(b) \cup {s}
      /\ \A x, y : Before(order, x, y) <=> Before(b.order, x, y) \/ (x \in Committed(b) /\ y = s)
      /\ oldest = IF b.order = <<>> THEN s ELSE Head(b.order)
  BY <1>0, <1>x, AppendFacts DEF Listed
<1>2. Once(order)
  BY <1>1 DEF Once, Listed
<1>3. NoOne \notin Users /\ MaxCommitted \in Nat /\ MaxCommitted # 0
  BY DrawingAssumption
<1>5. /\ IsBook(noted) /\ noted.pending = b.pending /\ noted.order = order
      /\ noted.committed = [b.committed EXCEPT ![s] = u]
      /\ noted.content = b.content /\ noted.retained = b.retained
      /\ noted.evict = b.evict /\ noted.forgotten = b.forgotten
  BY DEF IsBook, Fields
<1> HIDE DEF noted
<1>6. Committed(noted) = Committed(b) \cup {s}
  <2>1. b.committed \in [Strokes -> Users \cup {NoOne}]
    BY DEF IsBook
  <2> QED BY <1>3, <1>5, <2>1 DEF Committed
<1>7. ASSUME Len(order) <= MaxCommitted PROVE Good(noted, {})
  <2>1. Counted(noted)
    BY <1>5 DEF Counted, PointsHeld
  <2>2. Listed(noted) /\ Queued(noted)
    BY <1>1, <1>2, <1>5, <1>6, <1>7 DEF Listed, Queued
  <2> QED BY <1>1, <1>5, <1>6, <2>1, <2>2
<1>8. ASSUME ~(Len(order) <= MaxCommitted)
      PROVE  Good(ForgetContent(less, oldest), {oldest}) /\ oldest \in Committed(b)
  <2>1. b.order # <<>> /\ order # <<>>
    <3>1. Len(b.order) \in Nat
      BY LenProperties DEF Listed
    <3>2. Len(<<>>) = 0
      OBVIOUS
    <3> QED BY <1>1, <1>3, <1>8, <3>1, <3>2
  <2>2. oldest = Head(b.order) /\ oldest \in Range(b.order) /\ oldest \in Strokes
    BY <1>1, <2>1, TailFacts DEF Listed
  <2>3. oldest # s /\ oldest \in Committed(b)
    BY <2>2 DEF Listed
  <2>4. /\ Tail(order) \in Seq(Strokes) /\ Len(Tail(order)) = Len(order) - 1
        /\ Range(Tail(order)) = Range(order) \ {oldest}
        /\ \A x, y : Before(Tail(order), x, y) <=> Before(order, x, y) /\ x # oldest
    BY <1>1, <1>2, <1>x, <2>1, TailFacts
  <2>5. /\ IsBook(less) /\ less.pending = b.pending /\ less.order = Tail(order)
        /\ less.committed = [noted.committed EXCEPT ![oldest] = NoOne]
        /\ less.content = b.content /\ less.retained = b.retained
        /\ less.evict = b.evict /\ less.forgotten = b.forgotten \cup {oldest}
    BY <1>5 DEF IsBook, Fields
  <2> HIDE DEF less
  <2>6. Committed(less) = (Committed(b) \cup {s}) \ {oldest}
    <3>1. noted.committed \in [Strokes -> Users \cup {NoOne}]
      BY <1>5 DEF IsBook
    <3>2. Committed(less) = Committed(noted) \ {oldest}
      BY <2>2, <2>5, <3>1 DEF Committed
    <3> QED BY <1>6, <3>2
  <2>7. Counted(less)
    BY <2>5 DEF Counted, PointsHeld
  <2> DEFINE c == ForgetContent(less, oldest)
  <2>8. /\ IsBook(c) /\ Counted(c)
        /\ c.content = [less.content EXCEPT ![oldest] = NoContent]
        /\ c.pending = less.pending /\ c.committed = less.committed
        /\ c.order = less.order /\ c.evict = less.evict /\ c.forgotten = less.forgotten
    BY <2>2, <2>5, <2>7, ForgetFields
  <2> HIDE DEF c
  <2>9. Committed(c) = (Committed(b) \cup {s}) \ {oldest}
    BY <2>6, <2>8 DEF Committed
  <2>10. Once(c.order)
    BY <1>2, <2>4, <2>5, <2>8 DEF Once
  <2>11. Len(c.order) <= MaxCommitted
    <3>1. Len(b.order) \in Nat /\ Len(b.order) <= MaxCommitted
      BY LenProperties DEF Listed
    <3> QED BY <1>1, <1>3, <2>4, <2>5, <2>8, <3>1
  <2>12. Listed(c) /\ Queued(c)
    BY <1>1, <2>4, <2>5, <2>8, <2>9, <2>10, <2>11 DEF Listed, Queued
  <2>13. \A x, y \in Committed(c) :
                         Before(c.order, x, y)
                           <=> Before(b.order, x, y) \/ (x \in Committed(b) /\ y = s)
    BY <1>1, <2>4, <2>5, <2>8, <2>9
  <2>14. /\ c.content[oldest] = NoContent
         /\ \A t \in Strokes \ {oldest} : c.content[t] = b.content[t]
    <3>1. less.content \in [Strokes -> Content] /\ less.content = b.content
      BY <2>5 DEF Counted
    <3> QED BY <2>2, <2>8, <3>1
  <2>15. s \notin {oldest} /\ c.forgotten = b.forgotten \cup {oldest} /\ c.pending = b.pending
    BY <2>3, <2>5, <2>8
  <2>16. Good(c, {oldest})
    BY <2>8, <2>9, <2>12, <2>13, <2>14, <2>15
  <2> QED BY <2>3, <2>16 DEF c
<1>9. CASE Len(order) <= MaxCommitted
  <2> DEFINE c == Commit(b, s, u)
  <2>1. Good(c, {})
    BY <1>4, <1>7, <1>9
  <2> HIDE DEF c
  <2>2. \E purged \in SUBSET Committed(b) : Good(c, purged)
    <3>1. {} \in SUBSET Committed(b)
      OBVIOUS
    <3> HIDE DEF Good
    <3> QED BY <2>1, <3>1
  <2> QED BY <2>1, <2>2 DEF c
<1>10. CASE ~(Len(order) <= MaxCommitted)
  <2> DEFINE c == Commit(b, s, u)
  <2>1. Good(c, {oldest})
    BY <1>4, <1>8, <1>10
  <2>2. {oldest} \in SUBSET Committed(b)
    BY <1>8, <1>10
  <2> HIDE DEF c
  <2>3. \E purged \in SUBSET Committed(b) : Good(c, purged)
    BY <2>1, <2>2
  <2> QED BY <2>1, <2>3 DEF c
<1> QED BY <1>9, <1>10

\* Content describes the strokes on the canvas, and only those.
Described(b) ==
    \A s \in Strokes :
      /\ b.content[s].kept # "none" <=> s \in Uncleared(b) \cup Committed(b)
      /\ b.content[s].ended <=> s \in Committed(b)

Sound(b) ==
    /\ IsBook(b) /\ Exclusive(b)
    /\ Counted(b) /\ Queued(b) /\ Listed(b) /\ Described(b)

Ended(k) == [kept |-> k.kept, points |-> k.points, ended |-> TRUE]

\* record_end: the content ends, and joins the queue for eviction.
LEMMA EndFields ==
    ASSUME NEW b, IsBook(b), Counted(b), Queued(b),
           NEW s \in Strokes, b.content[s].kept # "none"
    PROVE  LET c == RecordEnd(b, s)
           IN  /\ IsBook(c) /\ Counted(c) /\ Queued(c)
               /\ c.content = [b.content EXCEPT ![s] = Ended(b.content[s])]
               /\ c.pending = b.pending /\ c.committed = b.committed
               /\ c.order = b.order /\ c.forgotten = b.forgotten
<1> DEFINE c == RecordEnd(b, s)
           k == b.content[s]
           queue == IF b.content[s].kept = "none" THEN b.evict ELSE Append(b.evict, s)
<1>0. k \in Content /\ b.content \in [Strokes -> Content]
  BY DEF Counted
<1>1. /\ c.retained = b.retained
      /\ c.order = b.order /\ c.forgotten = b.forgotten
      /\ c.evict = IF Len(queue) <= 2 * MaxCommitted THEN queue ELSE Only(queue, Committed(b))
  BY DEF RecordEnd, IsBook, Fields
<1>2. c.content = [b.content EXCEPT ![s] = Ended(k)]
  <2>1. c.content = [b.content EXCEPT ![s].ended = (b.content[s].kept # "none")]
    BY DEF RecordEnd, IsBook, Fields
  <2>2. (b.content[s].kept # "none") = TRUE
    OBVIOUS
  <2>3. c.content = [b.content EXCEPT ![s].ended = TRUE]
    <3> HIDE DEF c
    <3> QED BY <2>1, <2>2
  <2>4. [k EXCEPT !.ended = TRUE] = Ended(k)
    <3>1. PICK a, n, e : k = [kept |-> a, points |-> n, ended |-> e]
      BY <1>0 DEF Content
    <3>2. [[kept |-> a, points |-> n, ended |-> e] EXCEPT !.ended = TRUE]
            = [kept |-> a, points |-> n, ended |-> TRUE]
      <4>1. ASSUME NEW x PROVE [[kept |-> a, points |-> n, ended |-> e] EXCEPT !.ended = x]
                                  = [kept |-> a, points |-> n, ended |-> x]
        OBVIOUS
      <4> QED BY Zenon, <4>1
    <3>3. k.kept = a /\ k.points = n
      BY <3>1
    <3> HIDE DEF k
    <3> QED BY <3>1, <3>2, <3>3 DEF Ended
  <2>5. [b.content EXCEPT ![s].ended = TRUE] = [b.content EXCEPT ![s] = [k EXCEPT !.ended = TRUE]]
    BY <1>0
  <2> QED BY <2>3, <2>4, <2>5
<1>3. IsBook(c) /\ c.pending = b.pending /\ c.committed = b.committed
  BY EndKeepsOwners
<1>4. c.evict \in Seq(Strokes)
  <2>1. queue \in Seq(Strokes)
    BY AppendProperties DEF Queued
  <2> HIDE DEF queue, c
  <2>2. Only(queue, Committed(b)) \in Seq(Strokes)
    BY <2>1, OnlyKeeps
  <2> QED BY <1>1, <2>1, <2>2
<1> HIDE DEF c
<1>5. /\ Ended(k) \in Content /\ Ended(k).points = k.points /\ Ended(k).kept = k.kept
  BY <1>0 DEF Ended, Content
<1>6. /\ b.retained \in Nat
      /\ b.content[s].points \in 0 .. b.retained
      /\ MaxRetained \in Nat
      /\ MaxPerStroke \in Nat
  BY HeldWithin, DrawingAssumption
<1>7. c.retained = (b.retained - b.content[s].points) + Ended(k).points /\ c.retained <= MaxRetained
  BY <1>1, <1>5, <1>6 DEF Counted
<1>8. Counted(c)
  <2>1. Ended(k).points <= MaxPerStroke /\ (Ended(k).points # 0 => Ended(k).kept = "kept")
    BY <1>5 DEF Counted
  <2> HIDE DEF k
  <2> QED BY <1>2, <1>5, <1>7, <2>1, Recount
<1> QED BY <1>1, <1>2, <1>3, <1>4, <1>8 DEF c, Queued

\* What a DRAW_END of s makes of b: s is committed unless it was cleared, and
\* the strokes in purged are forgotten.
Closes(b, c, s, purged) ==
    /\ Open(c) = Open(b) \ {s}
    /\ Uncleared(c) = Uncleared(b) \ {s}
    /\ Committed(c) = (Committed(b) \cup ({s} \cap Uncleared(b))) \ purged
    /\ s \notin purged
    /\ c.forgotten = b.forgotten \cup purged
    /\ \A t \in Strokes \ purged : /\ c.content[t].kept = b.content[t].kept
                                 /\ c.content[t].points = b.content[t].points
    /\ \A x, y \in Committed(c) :
         Before(c.order, x, y) <=> Before(b.order, x, y) \/ (x \in Committed(b) /\ y = s)

\* The strokes a book has open, once one of them is closed.
LEMMA CloseOpen ==
    ASSUME NEW b, IsBook(b), NEW s \in Strokes, NEW c,
           c.pending = [b.pending EXCEPT ![s] = NotOpen]
    PROVE  Open(c) = Open(b) \ {s} /\ Uncleared(c) = Uncleared(b) \ {s}
<1>1. b.pending \in [Strokes -> Pending] /\ NotOpen.owner = NoOne
  BY DEF IsBook, NotOpen
<1>2. \A t \in Strokes : c.pending[t] = IF t = s THEN NotOpen ELSE b.pending[t]
  BY <1>1
<1>3. Open(c) = Open(b) \ {s}
  BY <1>1, <1>2 DEF Open
<1> QED BY <1>2, <1>3 DEF Uncleared, Open

\* DRAW_END keeps the book sound, and Closes says what it changes.
LEMMA EndCloses ==
    ASSUME NEW b, Sound(b), NEW s \in Strokes, s \in Open(b)
    PROVE  LET c == EndStroke(b, s)
           IN  Sound(c) /\ \E purged \in SUBSET Committed(b) : Closes(b, c, s, purged)
<1> DEFINE closed == Unpend(b, s)
           u == b.pending[s].owner
           done == Commit(closed, s, u)
           c == EndStroke(b, s)
<1>1. /\ IsBook(b) /\ Exclusive(b) /\ Counted(b) /\ Queued(b) /\ Listed(b) /\ Described(b)
      /\ b.pending \in [Strokes -> Pending] /\ u \in Users /\ s \notin Committed(b)
  BY DEF Sound, IsBook, Pending, Open, Exclusive, Committed
<1>2. /\ IsBook(closed)
      /\ closed.pending = [b.pending EXCEPT ![s] = NotOpen]
      /\ closed.committed = b.committed /\ closed.order = b.order
      /\ closed.content = b.content /\ closed.retained = b.retained
      /\ closed.evict = b.evict /\ closed.forgotten = b.forgotten
  <2>1. NotOpen \in Pending
    BY DEF NotOpen, Pending
  <2> QED BY <1>1, <2>1 DEF Unpend, IsBook, Fields
<1>3. c = IF b.pending[s].cleared THEN ForgetContent(closed, s) ELSE RecordEnd(done, s)
  BY DEF EndStroke
<1>4. IsBook(c) /\ Exclusive(c) /\ c.pending = [b.pending EXCEPT ![s] = NotOpen]
  BY <1>1, EndStrokeOwners
<1> HIDE DEF closed, u, c
<1>5. Committed(closed) = Committed(b) /\ Counted(closed) /\ Queued(closed) /\ Listed(closed)
  BY <1>1, <1>2 DEF Committed, Counted, PointsHeld, Queued, Listed
<1>6. Open(c) = Open(b) \ {s} /\ Uncleared(c) = Uncleared(b) \ {s}
  BY <1>1, <1>4, CloseOpen
<1>7. CASE b.pending[s].cleared
  <2>1. /\ Counted(c) /\ c.content = [b.content EXCEPT ![s] = NoContent]
        /\ c.committed = b.committed /\ c.order = b.order
        /\ c.evict = b.evict /\ c.forgotten = b.forgotten
    BY <1>2, <1>3, <1>5, <1>7, ForgetFields
  <2>2. s \notin Uncleared(b)
    BY <1>7 DEF Uncleared
  <2>3. b.content[s].kept = "none" /\ b.content[s].points = 0
    BY <1>1, <2>2 DEF Described, Counted
  <2>4. Committed(c) = Committed(b)
    BY <2>1 DEF Committed
  <2>5. \A t \in Strokes : c.content[t] = IF t = s THEN NoContent ELSE b.content[t]
    BY <1>1, <2>1 DEF Counted
  <2>6. NoContent.kept = "none" /\ NoContent.points = 0 /\ NoContent.ended = FALSE
    BY DEF NoContent
  <2>7. Described(c)
    BY <1>1, <1>6, <2>2, <2>4, <2>5, <2>6 DEF Described
  <2>8. Listed(c) /\ Queued(c)
    BY <1>1, <2>1, <2>4 DEF Listed, Queued
  <2>9. Closes(b, c, s, {})
    <3>1. \A t \in Strokes : /\ c.content[t].kept = b.content[t].kept
                             /\ c.content[t].points = b.content[t].points
      BY <2>3, <2>5, <2>6
    <3>2. Committed(c) = (Committed(b) \cup ({s} \cap Uncleared(b))) \ {}
      BY <2>2, <2>4
    <3>3. \A x, y \in Committed(c) : y # s
      BY <1>1, <2>4
    <3> QED BY <1>6, <2>1, <3>1, <3>2, <3>3 DEF Closes
  <2>10. \E purged \in SUBSET Committed(b) : Closes(b, c, s, purged)
    <3>1. {} \in SUBSET Committed(b)
      OBVIOUS
    <3> QED BY <2>9, <3>1
  <2> QED BY <1>4, <2>1, <2>7, <2>8, <2>10 DEF Sound, c
<1>8. CASE ~b.pending[s].cleared
  <2>1. s \in Uncleared(b)
    BY <1>8 DEF Uncleared
  <2>2. /\ IsBook(done) /\ Counted(done) /\ Queued(done) /\ Listed(done)
        /\ \E purged \in SUBSET Committed(closed) :
                    /\ s \notin purged /\ done.forgotten = closed.forgotten \cup purged
                    /\ Committed(done) = (Committed(closed) \cup {s}) \ purged
                    /\ \A t \in purged : done.content[t] = NoContent
                    /\ \A t \in Strokes \ purged : done.content[t] = closed.content[t]
                    /\ \A x, y \in Committed(done) :
                         Before(done.order, x, y)
                           <=> Before(closed.order, x, y) \/ (x \in Committed(closed) /\ y = s)
    BY <1>1, <1>2, <1>5, CommitFields
  <2> HIDE DEF done
  <2>3. PICK purged \in SUBSET Committed(b) :
                    /\ s \notin purged /\ done.forgotten = b.forgotten \cup purged
                    /\ Committed(done) = (Committed(b) \cup {s}) \ purged
                    /\ \A t \in purged : done.content[t] = NoContent
                    /\ \A t \in Strokes \ purged : done.content[t] = b.content[t]
                    /\ \A x, y \in Committed(done) :
                         Before(done.order, x, y)
                           <=> Before(b.order, x, y) \/ (x \in Committed(b) /\ y = s)
    BY <1>2, <1>5, <2>2
  <2>4. done.content[s] = b.content[s] /\ b.content[s].kept # "none"
    BY <1>1, <2>1, <2>3 DEF Described
  <2>5. /\ Counted(c) /\ Queued(c)
        /\ c.content = [done.content EXCEPT ![s] = Ended(done.content[s])]
        /\ c.committed = done.committed /\ c.order = done.order /\ c.forgotten = done.forgotten
    BY <1>3, <1>8, <2>2, <2>4, EndFields
  <2>6. Committed(c) = Committed(done)
    BY <2>5 DEF Committed
  <2>7. Listed(c)
    BY <2>2, <2>5, <2>6 DEF Listed
  <2>8. \A t \in Strokes : c.content[t] = IF t = s THEN Ended(b.content[s])
                                          ELSE IF t \in purged THEN NoContent ELSE b.content[t]
    <3>1. done.content \in [Strokes -> Content]
      BY <2>2 DEF Counted
    <3> QED BY <2>3, <2>4, <2>5, <3>1
  <2>9. /\ Ended(b.content[s]).kept = b.content[s].kept
        /\ Ended(b.content[s]).points = b.content[s].points
        /\ Ended(b.content[s]).ended
    BY DEF Ended
  <2>10. NoContent.kept = "none" /\ NoContent.points = 0 /\ NoContent.ended = FALSE
    BY DEF NoContent
  <2>11. purged \cap (Uncleared(b) \ {s}) = {}
    <3>1. \A t \in purged : t \in Strokes /\ t \in Committed(b)
      BY <2>3 DEF Committed
    <3> QED BY <1>1, <3>1 DEF Exclusive, Committed, Uncleared, Open
  <2>12. Described(c)
    BY <1>1, <1>6, <2>1, <2>3, <2>4, <2>6, <2>8, <2>9, <2>10, <2>11 DEF Described
  <2>13. Closes(b, c, s, purged)
    <3>1. \A t \in Strokes \ purged : /\ c.content[t].kept = b.content[t].kept
                                    /\ c.content[t].points = b.content[t].points
      BY <2>8, <2>9
    <3>2. Committed(c) = (Committed(b) \cup ({s} \cap Uncleared(b))) \ purged
      BY <2>1, <2>3, <2>6
    <3> QED BY <1>6, <2>3, <2>5, <2>6, <3>1, <3>2 DEF Closes
  <2> QED BY <1>4, <2>5, <2>7, <2>12, <2>13 DEF Sound, c
<1> QED BY <1>7, <1>8

\* c is b but for the points of strokes it no longer keeps.
Sheds(b, c) ==
    /\ c.pending = b.pending /\ c.committed = b.committed
    /\ c.order = b.order /\ c.forgotten = b.forgotten
    /\ \A t \in Strokes :
         \/ c.content[t] = b.content[t]
         \/ c.content[t] = PointsLost(b.content[t]) /\ b.content[t].kept # "none"

\* What is left of dropped content.
LEMMA LostIs ==
    ASSUME NEW k
    PROVE  PointsLost(k).kept = "dropped" /\ PointsLost(k).points = 0 /\ PointsLost(k).ended = k.ended
BY DEF PointsLost

\* Dropping a stroke's content changes nothing else the canvas shows.
LEMMA DropSheds ==
    ASSUME NEW b, IsBook(b), Counted(b), Queued(b), NEW q \in Seq(Strokes),
           NEW t \in Strokes, b.content[t].kept # "none"
    PROVE  LET c == DropContent([b EXCEPT !.evict = q], t)
           IN  /\ IsBook(c) /\ Counted(c) /\ Queued(c) /\ Sheds(b, c)
               /\ c.content = [b.content EXCEPT ![t] = PointsLost(b.content[t])]
               /\ c.retained = b.retained - b.content[t].points
<1> DEFINE d == [b EXCEPT !.evict = q]
           c == DropContent(d, t)
<1>1. /\ IsBook(d) /\ d.pending = b.pending /\ d.committed = b.committed
      /\ d.order = b.order /\ d.forgotten = b.forgotten
      /\ d.content = b.content /\ d.retained = b.retained /\ d.evict = q
  BY DEF IsBook, Fields
<1> HIDE DEF d
<1>2. Counted(d)
  BY <1>1 DEF Counted, PointsHeld
<1>3. /\ IsBook(c) /\ Counted(c)
      /\ c.content = [d.content EXCEPT ![t] = PointsLost(d.content[t])]
      /\ c.retained = d.retained - d.content[t].points
      /\ c.pending = d.pending /\ c.committed = d.committed
      /\ c.order = d.order /\ c.evict = d.evict /\ c.forgotten = d.forgotten
  BY <1>1, <1>2, DropFields
<1> HIDE DEF c
<1>4. Sheds(b, c)
  <2>1. b.content \in [Strokes -> Content]
    BY DEF Counted
  <2> QED BY <1>1, <1>3, <2>1 DEF Sheds
<1>5. Queued(c)
  BY <1>1, <1>3 DEF Queued
<1> QED BY <1>1, <1>3, <1>4, <1>5 DEF c, d

\* Room for one more point of s, taken from the first stroke in the queue
\* that has any, or s is no longer kept.
LEMMA RoomMade ==
    ASSUME NEW b, Sound(b), NEW s \in Uncleared(b)
    PROVE  LET c == MakeRoom(b, s)
           IN  /\ IsBook(c) /\ Counted(c) /\ Queued(c) /\ Sheds(b, c)
               /\ c.content[s].kept = "kept"
                    => c.content[s] = b.content[s] /\ c.retained < MaxRetained
<1> DEFINE places == {i \in 1..Len(b.evict) : Evictable(b, b.evict[i])}
           first == Min(places)
           c == MakeRoom(b, s)
<1>1. /\ IsBook(b) /\ Exclusive(b) /\ Counted(b) /\ Queued(b) /\ Described(b)
      /\ s \in Strokes /\ s \in Open(b) /\ s \notin Committed(b)
      /\ b.content \in [Strokes -> Content]
  BY DEF Sound, Uncleared, Open, Exclusive, Committed, Counted
<1>2. c = IF places = {} THEN DropContent([b EXCEPT !.evict = <<>>], s)
          ELSE DropContent([b EXCEPT !.evict = SubSeq(b.evict, first + 1, Len(b.evict))], b.evict[first])
  BY DEF MakeRoom
<1>3. CASE places = {}
  <2>1. b.content[s].kept # "none"
    BY <1>1 DEF Described
  <2> DEFINE q == <<>>
  <2>2. q \in Seq(Strokes)
    OBVIOUS
  <2> HIDE DEF c, places, first
  <2>3. c = DropContent([b EXCEPT !.evict = q], s)
    BY <1>2, <1>3
  <2> HIDE DEF q
  <2>4. /\ IsBook(c) /\ Counted(c) /\ Queued(c) /\ Sheds(b, c)
        /\ c.content = [b.content EXCEPT ![s] = PointsLost(b.content[s])]
    BY <1>1, <2>1, <2>2, <2>3, DropSheds
  <2>5. c.content[s].kept = "dropped"
    BY <1>1, <2>4 DEF PointsLost
  <2> QED BY <2>4, <2>5 DEF c
<1>4. CASE places # {}
  <2>1. first \in places
    <3>1. places \subseteq Nat
      OBVIOUS
    <3>2. \E x \in places : \A y \in places : x <= y
      BY <1>4, <3>1, LeastOfNat
    <3> HIDE DEF places
    <3> QED BY <3>2 DEF Min
  <2> DEFINE v == b.evict[first]
             q == SubSeq(b.evict, first + 1, Len(b.evict))
  <2>2. v \in Strokes /\ Evictable(b, v) /\ first \in 1 .. Len(b.evict)
    <3>1. first \in 1 .. Len(b.evict) /\ Evictable(b, v)
      BY <2>1
    <3> QED BY <1>1, <3>1, ElementOfSeq DEF Queued
  <2>3. q \in Seq(Strokes)
    <3>1. Len(b.evict) \in Nat /\ \A i \in 1 .. Len(b.evict) : b.evict[i] \in Strokes
      BY <1>1, LenProperties, ElementOfSeq DEF Queued
    <3> HIDE DEF first
    <3>2. \A i \in first + 1 .. Len(b.evict) : b.evict[i] \in Strokes
      BY <2>2, <3>1
    <3>3. first + 1 \in Int /\ Len(b.evict) \in Int
      BY <2>2, <3>1
    <3> QED BY <3>2, <3>3, SubSeqProperties
  <2>4. c = DropContent([b EXCEPT !.evict = q], v)
    BY <1>2, <1>4
  <2> HIDE DEF c, places, first, v, q
  <2>5. b.content[v].kept = "kept" /\ b.content[v].points > 0 /\ v # s
    BY <1>1, <2>2 DEF Evictable, Committed
  <2>6. /\ IsBook(c) /\ Counted(c) /\ Queued(c) /\ Sheds(b, c)
        /\ c.content = [b.content EXCEPT ![v] = PointsLost(b.content[v])]
        /\ c.retained = b.retained - b.content[v].points
    BY <1>1, <2>2, <2>3, <2>4, <2>5, DropSheds
  <2>7. c.content[s] = b.content[s]
    BY <1>1, <2>5, <2>6
  <2>8. c.retained < MaxRetained
    <3>1. /\ b.retained \in Nat
          /\ b.content[v].points \in 0 .. b.retained
          /\ b.retained <= MaxRetained
          /\ MaxRetained \in Nat
      BY <1>1, <2>2, HeldWithin, DrawingAssumption DEF Counted
    <3> QED BY <2>5, <2>6, <3>1
  <2> QED BY <2>6, <2>7, <2>8 DEF c
<1> QED BY <1>3, <1>4

\* record_point: it adds a point to s or to nothing, and may take others away.
LEMMA PointCounts ==
    ASSUME NEW b, Sound(b), NEW s \in Uncleared(b)
    PROVE  LET c == RecordPoint(b, s)
           IN  /\ Sound(c)
               /\ c.pending = b.pending /\ c.committed = b.committed
               /\ c.order = b.order /\ c.forgotten = b.forgotten
               /\ \A t \in Strokes :
                    c.content[t].kept = "kept"
                      => /\ b.content[t].kept = "kept"
                         /\ c.content[t].points = IF t = s THEN b.content[t].points + 1
                                                  ELSE b.content[t].points
<1> DEFINE roomy == IF b.retained >= MaxRetained THEN MakeRoom(b, s) ELSE b
           more == [roomy EXCEPT !.content[s].points = @ + 1, !.retained = @ + 1]
           c == RecordPoint(b, s)
           Good(d) ==
               /\ Sound(d)
               /\ d.pending = b.pending /\ d.committed = b.committed
               /\ d.order = b.order /\ d.forgotten = b.forgotten
               /\ \A t \in Strokes :
                    d.content[t].kept = "kept"
                      => /\ b.content[t].kept = "kept"
                         /\ d.content[t].points = IF t = s THEN b.content[t].points + 1
                                                  ELSE b.content[t].points
<1>1. /\ IsBook(b) /\ Exclusive(b) /\ Counted(b) /\ Queued(b) /\ Listed(b) /\ Described(b)
      /\ s \in Strokes /\ b.content \in [Strokes -> Content] /\ b.content[s].kept # "none"
  <2>1. s \in Strokes
    BY DEF Uncleared, Open
  <2> QED BY <2>1 DEF Sound, Counted, Described
<1>2. c = IF b.content[s].kept # "kept" THEN b
          ELSE IF b.content[s].points >= MaxPerStroke THEN DropContent(b, s)
          ELSE IF roomy.content[s].kept # "kept" THEN roomy
          ELSE more
  BY DEF RecordPoint
<1>3. /\ IsBook(roomy) /\ Counted(roomy) /\ Queued(roomy) /\ Sheds(b, roomy)
      /\ roomy.content[s].kept = "kept"
           => roomy.content[s] = b.content[s] /\ roomy.retained < MaxRetained
  <2>1. CASE b.retained >= MaxRetained
    BY <2>1, RoomMade
  <2>2. CASE ~(b.retained >= MaxRetained)
    <3>1. b.retained \in Nat /\ MaxRetained \in Nat
      BY <1>1, HeldWithin, DrawingAssumption
    <3> QED BY <1>1, <2>2, <3>1 DEF Sheds
  <2> QED BY <2>1, <2>2
<1>4. /\ IsBook(DropContent(b, s)) /\ Counted(DropContent(b, s)) /\ Queued(DropContent(b, s))
      /\ Sheds(b, DropContent(b, s)) /\ DropContent(b, s).content[s] = PointsLost(b.content[s])
  <2>1. /\ IsBook(DropContent(b, s)) /\ Counted(DropContent(b, s))
        /\ DropContent(b, s).content = [b.content EXCEPT ![s] = PointsLost(b.content[s])]
        /\ DropContent(b, s).pending = b.pending /\ DropContent(b, s).committed = b.committed
        /\ DropContent(b, s).order = b.order /\ DropContent(b, s).evict = b.evict
        /\ DropContent(b, s).forgotten = b.forgotten
    BY <1>1, DropFields
  <2> QED BY <1>1, <2>1 DEF Sheds, Queued
<1>5. ASSUME NEW d, IsBook(d), Counted(d), Queued(d), Sheds(b, d)
      PROVE  Sound(d)
  <2>1. /\ Exclusive(d)
        /\ Listed(d)
        /\ Open(d) = Open(b)
        /\ Uncleared(d) = Uncleared(b)
        /\ Committed(d) = Committed(b)
    BY <1>1, <1>5 DEF Sheds, Exclusive, Listed, Open, Uncleared, Committed
  <2>2. Described(d)
    <3>1. ASSUME NEW t \in Strokes
          PROVE  (d.content[t].kept # "none" <=> b.content[t].kept # "none")
                   /\ d.content[t].ended = b.content[t].ended
      <4>1. CASE d.content[t] = b.content[t]
        BY <4>1
      <4>2. CASE d.content[t] = PointsLost(b.content[t]) /\ b.content[t].kept # "none"
        BY <4>2, LostIs
      <4> QED BY <1>5, <4>1, <4>2 DEF Sheds
    <3> QED BY <1>1, <2>1, <3>1 DEF Described
  <2> QED BY <1>5, <2>1, <2>2 DEF Sound
<1>6. ASSUME NEW d, IsBook(d), Counted(d), Queued(d), Sheds(b, d), d.content[s].kept # "kept"
      PROVE  Good(d)
  <2>1. Sound(d)
    BY <1>5, <1>6
  <2>2. ASSUME NEW t \in Strokes, d.content[t].kept = "kept" PROVE d.content[t] = b.content[t] /\ t # s
    <3>1. PointsLost(b.content[t]).kept = "dropped"
      BY LostIs
    <3> QED BY <1>6, <2>2, <3>1 DEF Sheds
  <2> QED BY <1>6, <2>1, <2>2 DEF Sheds
<1>7. CASE b.content[s].kept # "kept"
  <2>1. Sheds(b, b)
    BY DEF Sheds
  <2>2. Good(b)
    BY <1>1, <1>6, <1>7, <2>1
  <2> QED BY <1>2, <1>7, <2>2
<1>8. CASE b.content[s].kept = "kept" /\ b.content[s].points >= MaxPerStroke
  <2>1. Good(DropContent(b, s))
    BY <1>4, <1>6 DEF PointsLost
  <2> QED BY <1>2, <1>8, <2>1
<1>9. CASE b.content[s].kept = "kept" /\ ~(b.content[s].points >= MaxPerStroke)
             /\ roomy.content[s].kept # "kept"
  <2> HIDE DEF roomy
  <2>1. Good(roomy)
    BY <1>3, <1>6, <1>9
  <2> QED BY <1>2, <1>9, <2>1 DEF roomy
<1>10. CASE b.content[s].kept = "kept" /\ ~(b.content[s].points >= MaxPerStroke)
             /\ roomy.content[s].kept = "kept"
  <2> HIDE DEF roomy
  <2> DEFINE k == roomy.content[s]
             k1 == [kept |-> k.kept, points |-> k.points + 1, ended |-> k.ended]
  <2>0. k \in Content /\ roomy.content \in [Strokes -> Content] /\ k = b.content[s]
    BY <1>1, <1>3, <1>10 DEF Counted
  <2>1. /\ IsBook(more) /\ more.pending = roomy.pending /\ more.committed = roomy.committed
        /\ more.order = roomy.order /\ more.forgotten = roomy.forgotten
        /\ more.evict = roomy.evict /\ more.retained = roomy.retained + 1
    BY <1>3 DEF IsBook, Fields
  <2>2. more.content = [roomy.content EXCEPT ![s] = k1]
    <3>1. more.content = [roomy.content EXCEPT ![s].points = @ + 1]
      BY <1>3 DEF IsBook, Fields
    <3>2. [k EXCEPT !.points = @ + 1] = k1
      BY <2>0 DEF Content
    <3>3. [roomy.content EXCEPT ![s].points = @ + 1]
            = [roomy.content EXCEPT ![s] = [k EXCEPT !.points = @ + 1]]
      BY <2>0
    <3> QED BY <3>1, <3>2, <3>3
  <2> HIDE DEF more
  <2>3. k1 \in Content /\ k1.kept = k.kept /\ k1.points = k.points + 1 /\ k1.ended = k.ended
    BY <2>0 DEF Content
  <2>4. Counted(more)
    <3>1. /\ roomy.retained \in Nat
          /\ k.points \in 0 .. roomy.retained
          /\ MaxRetained \in Nat
          /\ MaxPerStroke \in Nat
      BY <1>1, <1>3, HeldWithin, DrawingAssumption
    <3>2. more.retained = (roomy.retained - roomy.content[s].points) + k1.points
      BY <2>1, <2>3, <3>1
    <3>3. more.retained <= MaxRetained /\ k1.points <= MaxPerStroke
      BY <1>3, <1>10, <2>0, <2>1, <2>3, <3>1
    <3>4. k1.kept = "kept"
      BY <1>10, <2>3
    <3> HIDE DEF k, k1
    <3> QED BY <1>1, <1>3, <2>2, <2>3, <3>2, <3>3, <3>4, Recount
  <2>5. \A t \in Strokes : more.content[t] = IF t = s THEN k1 ELSE roomy.content[t]
    BY <2>0, <2>2
  <2> HIDE DEF k, k1
  <2>6. Sound(roomy)
    BY <1>3, <1>5
  <2>7. Sound(more)
    <3>1. Exclusive(more) /\ Listed(more) /\ Queued(more) /\ Open(more) = Open(roomy)
            /\ Uncleared(more) = Uncleared(roomy) /\ Committed(more) = Committed(roomy)
      BY <2>1, <2>6 DEF Sound, Exclusive, Listed, Queued, Open, Uncleared, Committed
    <3>2. ASSUME NEW t \in Strokes
          PROVE  /\ more.content[t].kept = roomy.content[t].kept
                 /\ more.content[t].ended = roomy.content[t].ended
      BY <2>3, <2>5 DEF k
    <3>3. Described(more)
      BY <2>6, <3>1, <3>2 DEF Sound, Described
    <3> QED BY <2>1, <2>4, <3>1, <3>3 DEF Sound
  <2>8. ASSUME NEW t \in Strokes, more.content[t].kept = "kept"
        PROVE  /\ b.content[t].kept = "kept"
               /\ more.content[t].points = IF t = s THEN b.content[t].points + 1
                                           ELSE b.content[t].points
    <3>1. CASE t = s
      BY <1>10, <2>0, <2>3, <2>5, <3>1
    <3>2. CASE t # s
      <4>1. roomy.content[t].kept = "kept" /\ more.content[t] = roomy.content[t]
        BY <2>5, <2>8, <3>2
      <4>2. roomy.content[t] = b.content[t]
        <5>1. PointsLost(b.content[t]).kept = "dropped"
          BY LostIs
        <5> QED BY <1>3, <4>1, <5>1 DEF Sheds
      <4> QED BY <3>2, <4>1, <4>2
    <3> QED BY <3>1, <3>2
  <2>9. Good(more)
    BY <1>3, <2>1, <2>7, <2>8 DEF Sheds
  <2>10. c = more
    BY <1>2, <1>10 DEF more, roomy
  <2> HIDE DEF Good, c
  <2>11. Good(c)
    BY <2>9, <2>10
  <2> QED BY <2>11 DEF Good, c
<1> QED BY <1>7, <1>8, <1>9, <1>10

\* remove_committed: the stroke goes from the order and from the content.
LEMMA RemoveFields ==
    ASSUME NEW b, Sound(b), NEW s \in Committed(b)
    PROVE  LET c == RemoveCommitted(b, s)
           IN  /\ Sound(c)
               /\ c.pending = b.pending /\ c.forgotten = b.forgotten
               /\ Committed(c) = Committed(b) \ {s}
               /\ \A t \in Strokes \ {s} : c.content[t] = b.content[t]
               /\ c.content[s].kept = "none"
               /\ \A x, y \in Strokes :
                    Before(c.order, x, y) <=> Before(b.order, x, y) /\ x # s /\ y # s
<1> DEFINE q == Only(b.order, Strokes \ {s})
           d == [b EXCEPT !.committed[s] = NoOne, !.order = q]
           c == RemoveCommitted(b, s)
<1>1. /\ IsBook(b) /\ Exclusive(b) /\ Counted(b) /\ Queued(b) /\ Listed(b) /\ Described(b)
      /\ s \in Strokes /\ s \notin Open(b)
  BY DEF Sound, Committed, Exclusive, Open
<1>2. c = ForgetContent(d, s)
  BY DEF RemoveCommitted
<1>3. /\ q \in Seq(Strokes) /\ Len(q) <= Len(b.order)
      /\ Range(q) = Range(b.order) \cap (Strokes \ {s})
      /\ \A x, y : Before(q, x, y) <=>
            x \in Strokes \ {s} /\ y \in Strokes \ {s} /\ Before(b.order, x, y)
  BY <1>1, OnlyKeeps DEF Listed
<1> HIDE DEF q, c
<1>4. /\ IsBook(d) /\ d.pending = b.pending /\ d.order = q
      /\ d.committed = [b.committed EXCEPT ![s] = NoOne]
      /\ d.content = b.content /\ d.retained = b.retained
      /\ d.evict = b.evict /\ d.forgotten = b.forgotten
  BY <1>1 DEF IsBook, Fields
<1> HIDE DEF d
<1>5. Committed(d) = Committed(b) \ {s}
  <2>1. b.committed \in [Strokes -> Users \cup {NoOne}]
    BY <1>1 DEF IsBook
  <2> QED BY <1>1, <1>4, <2>1 DEF Committed
<1>6. Counted(d)
  BY <1>1, <1>4 DEF Counted, PointsHeld
<1>7. /\ IsBook(c) /\ Counted(c)
      /\ c.content = [d.content EXCEPT ![s] = NoContent]
      /\ c.pending = d.pending /\ c.committed = d.committed
      /\ c.order = d.order /\ c.evict = d.evict /\ c.forgotten = d.forgotten
  BY <1>1, <1>2, <1>4, <1>6, ForgetFields
<1>8. /\ Committed(c) = Committed(b) \ {s} /\ Open(c) = Open(b) /\ Uncleared(c) = Uncleared(b)
  BY <1>4, <1>5, <1>7 DEF Committed, Open, Uncleared
<1>9. Exclusive(c) /\ Queued(c)
  <2>1. \A t \in Strokes : t \in Open(c) => t \notin Committed(c)
    BY <1>1, <1>8 DEF Exclusive, Open, Committed
  <2> QED BY <1>1, <1>4, <1>7, <2>1 DEF Exclusive, Open, Committed, Queued
<1>10. Listed(c)
  <2>1. Range(q) = Committed(b) \ {s}
    <3>1. Committed(b) \subseteq Strokes
      BY DEF Committed
    <3> QED BY <1>1, <1>3, <3>1 DEF Listed
  <2>2. Once(q)
    BY <1>1, <1>3 DEF Listed, Once
  <2>3. Len(q) <= MaxCommitted
    <3>1. Len(q) \in Nat /\ Len(b.order) \in Nat /\ Len(b.order) <= MaxCommitted /\ MaxCommitted \in Nat
      BY <1>1, <1>3, LenProperties, DrawingAssumption DEF Listed
    <3> QED BY <1>3, <3>1
  <2> QED BY <1>3, <1>4, <1>7, <1>8, <2>1, <2>2, <2>3 DEF Listed
<1>11. \A t \in Strokes : c.content[t] = IF t = s THEN NoContent ELSE b.content[t]
  BY <1>1, <1>4, <1>7 DEF Counted
<1>12. NoContent.kept = "none" /\ NoContent.ended = FALSE
  BY DEF NoContent
<1>13. Described(c)
  <2>1. s \notin Uncleared(c) \cup Committed(c)
    BY <1>1, <1>8 DEF Uncleared
  <2> QED BY <1>1, <1>8, <1>11, <1>12, <2>1 DEF Described
<1>14. Sound(c)
  BY <1>7, <1>9, <1>10, <1>13 DEF Sound
<1>15. \A x, y \in Strokes : Before(c.order, x, y) <=> Before(b.order, x, y) /\ x # s /\ y # s
  BY <1>3, <1>4, <1>7
<1> QED BY <1>1, <1>4, <1>7, <1>8, <1>11, <1>12, <1>14, <1>15 DEF c

\* A book with nothing committed, nothing held and nothing open but what was
\* cleared.
LEMMA BareSound ==
    ASSUME NEW c, IsBook(c), Committed(c) = {}, Uncleared(c) = {},
           c.order = <<>>, c.evict = <<>>, c.retained = 0,
           c.content = [t \in Strokes |-> NoContent]
    PROVE  Sound(c) /\ \A t \in Strokes : c.content[t].kept = "none"
<1>1. NoContent \in Content /\ NoContent.kept = "none" /\ NoContent.points = 0 /\ NoContent.ended = FALSE
  BY DEF NoContent, Content
<1>2. \A t \in Strokes : c.content[t] = NoContent
  OBVIOUS
<1>3. Counted(c)
  <2>1. PointsHeld(c) = {}
    <3>1. ASSUME NEW x \in PointsHeld(c) PROVE FALSE
      <4>1. x[1] \in Strokes /\ x[2] \in 1 .. MaxPerStroke /\ x[2] <= c.content[x[1]].points
        BY DEF PointsHeld
      <4>2. x[2] <= 0 /\ MaxPerStroke \in Nat
        BY <1>1, <1>2, <4>1, DrawingAssumption
      <4> QED BY <4>1, <4>2
    <3> QED BY <3>1
  <2>2. c.retained = Cardinality(PointsHeld(c))
    BY <2>1, FS_EmptySet
  <2>3. c.content \in [Strokes -> Content]
    BY <1>1
  <2>4. 0 <= MaxRetained /\ 0 <= MaxPerStroke
    BY DrawingAssumption
  <2> QED BY <1>1, <1>2, <2>2, <2>3, <2>4 DEF Counted
<1>4. Listed(c) /\ Queued(c)
  <2>1. c.order \in Seq(Strokes) /\ c.evict \in Seq(Strokes) /\ Len(c.order) = 0
    OBVIOUS
  <2>2. Range(c.order) = {} /\ Once(c.order)
    <3>1. DOMAIN c.order = {}
      OBVIOUS
    <3> QED BY <3>1 DEF Range, Once, Before
  <2>3. 0 <= MaxCommitted
    BY DrawingAssumption
  <2> QED BY <2>1, <2>2, <2>3 DEF Listed, Queued
<1>5. Described(c)
  BY <1>1, <1>2 DEF Described
<1>6. Exclusive(c)
  BY DEF Exclusive, Committed
<1> QED BY <1>1, <1>2, <1>3, <1>4, <1>5, <1>6 DEF Sound

\* clear_all: nothing is left but the open strokes, which are cleared.
LEMMA ClearFields ==
    ASSUME NEW b, Sound(b)
    PROVE  LET c == ClearAll(b)
           IN  /\ Sound(c)
               /\ Open(c) = Open(b) /\ Uncleared(c) = {} /\ Committed(c) = {}
               /\ \A t \in Strokes : c.content[t].kept = "none"
<1> DEFINE p == [t \in Strokes |-> [b.pending[t] EXCEPT !.cleared = t \in Open(b)]]
           c == ClearAll(b)
<1>1. IsBook(b) /\ b.pending \in [Strokes -> Pending]
  BY DEF Sound, IsBook
<1>2. /\ IsBook(c)
      /\ \A t \in Strokes : c.committed[t] = NoOne /\ c.pending[t].owner = b.pending[t].owner
  BY <1>1, ClearOwners
<1>3. /\ c.pending = p /\ c.order = <<>> /\ c.evict = <<>> /\ c.retained = 0
      /\ c.content = [t \in Strokes |-> NoContent]
  BY DEF ClearAll, EmptyBook
<1>4. \A t \in Strokes : t \in Open(b) => p[t].cleared
  <2> TAKE t \in Strokes
  <2> HAVE t \in Open(b)
  <2>1. PICK o, st, cr : b.pending[t] = [owner |-> o, started |-> st, cleared |-> cr]
    BY <1>1 DEF Pending
  <2>2. p[t] = [owner |-> o, started |-> st, cleared |-> t \in Open(b)]
    BY <2>1
  <2> HIDE DEF p
  <2>3. p[t].cleared = (t \in Open(b))
    BY <2>2
  <2> QED BY <2>3
<1> HIDE DEF p, c
<1>5. Open(c) = Open(b) /\ Uncleared(c) = {} /\ Committed(c) = {}
  <2>1. Open(c) = Open(b)
    BY <1>2 DEF Open
  <2>2. \A t \in Open(c) : c.pending[t].cleared
    BY <1>3, <1>4, <2>1 DEF Open
  <2> QED BY <1>2, <2>1, <2>2 DEF Uncleared, Committed
<1>6. Sound(c) /\ \A t \in Strokes : c.content[t].kept = "none"
  BY <1>2, <1>3, <1>5, BareSound
<1> QED BY <1>5, <1>6 DEF c

\* A new room's book.
LEMMA EmptySound ==
    Sound(EmptyBook) /\ Open(EmptyBook) = {} /\ Committed(EmptyBook) = {}
<1> DEFINE c == EmptyBook
<1>1. NotOpen \in Pending /\ NotOpen.owner = NoOne
  BY DEF NotOpen, Pending
<1>2. /\ c.order = <<>> /\ c.evict = <<>> /\ c.retained = 0
      /\ c.content = [t \in Strokes |-> NoContent]
      /\ c.pending = [t \in Strokes |-> NotOpen] /\ c.committed = [t \in Strokes |-> NoOne]
  BY DEF EmptyBook
<1>3. IsBook(c)
  BY <1>1 DEF EmptyBook, IsBook, Fields
<1> HIDE DEF c
<1>4. Open(c) = {} /\ Committed(c) = {}
  BY <1>1, <1>2 DEF Open, Committed
<1>5. Uncleared(c) = {}
  BY <1>4 DEF Uncleared
<1>6. Sound(c)
  BY <1>2, <1>3, <1>4, <1>5, BareSound
<1> QED BY <1>4, <1>6 DEF c

\* record_begin of a stroke that is neither open nor committed.
LEMMA BeginFields ==
    ASSUME NEW b, Sound(b), NEW s \in Strokes, s \notin Open(b), s \notin Committed(b),
           NEW p \in Pending, p.owner \in Users, p.cleared = FALSE
    PROVE  LET c == RecordBegin([b EXCEPT !.pending[s] = p], s)
           IN  /\ Sound(c)
               /\ Open(c) = Open(b) \cup {s} /\ Uncleared(c) = Uncleared(b) \cup {s}
               /\ Committed(c) = Committed(b)
               /\ c.order = b.order /\ c.forgotten = b.forgotten
               /\ \A t \in Strokes \ {s} : c.content[t] = b.content[t]
               /\ c.content[s].points = 0
<1> DEFINE d == [b EXCEPT !.pending[s] = p]
           f == ForgetContent(d, s)
           k == [kept |-> IF s \in LongColour THEN "dropped" ELSE "kept", points |-> 0, ended |-> FALSE]
           c == RecordBegin(d, s)
<1>1. /\ IsBook(b) /\ Exclusive(b) /\ Counted(b) /\ Queued(b) /\ Listed(b) /\ Described(b)
      /\ b.pending \in [Strokes -> Pending]
  BY DEF Sound, IsBook
<1>2. c = [f EXCEPT !.content[s] = k]
  BY DEF RecordBegin
<1>3. /\ IsBook(d) /\ d.pending = [b.pending EXCEPT ![s] = p]
      /\ d.committed = b.committed /\ d.order = b.order
      /\ d.content = b.content /\ d.retained = b.retained
      /\ d.evict = b.evict /\ d.forgotten = b.forgotten
  BY <1>1 DEF IsBook, Fields
<1> HIDE DEF d
<1>4. Counted(d)
  BY <1>1, <1>3 DEF Counted, PointsHeld
<1>5. /\ IsBook(f) /\ Counted(f)
      /\ f.content = [d.content EXCEPT ![s] = NoContent]
      /\ f.pending = d.pending /\ f.committed = d.committed
      /\ f.order = d.order /\ f.evict = d.evict /\ f.forgotten = d.forgotten
  BY <1>3, <1>4, ForgetFields
<1> HIDE DEF f
<1>6. /\ IsBook(c) /\ c.content = [f.content EXCEPT ![s] = k] /\ c.retained = f.retained
      /\ c.pending = f.pending /\ c.committed = f.committed
      /\ c.order = f.order /\ c.evict = f.evict /\ c.forgotten = f.forgotten
  BY <1>2, <1>5 DEF IsBook, Fields
<1> HIDE DEF c
<1>7. k \in Content /\ k.points = 0 /\ k.kept # "none" /\ k.ended = FALSE
  BY DEF Content
<1> HIDE DEF k
<1>8. NoContent.points = 0
  BY DEF NoContent
<1>9. f.content[s].points = 0 /\ b.content \in [Strokes -> Content]
  BY <1>1, <1>3, <1>5, <1>8 DEF Counted
<1>10. Counted(c)
  <2>1. f.retained \in Nat /\ MaxPerStroke \in Nat
    BY <1>5, HeldWithin, DrawingAssumption
  <2>2. c.retained = (f.retained - f.content[s].points) + k.points /\ c.retained <= MaxRetained
    BY <1>5, <1>6, <1>7, <1>9, <2>1 DEF Counted
  <2>3. k.points <= MaxPerStroke /\ (k.points # 0 => k.kept = "kept")
    BY <1>7, <2>1
  <2> QED BY <1>5, <1>6, <1>7, <2>2, <2>3, Recount
<1>11. \A t \in Strokes : c.pending[t] = IF t = s THEN p ELSE b.pending[t]
  BY <1>1, <1>3, <1>5, <1>6
<1>12. p.owner # NoOne
  BY DrawingAssumption
<1>13. /\ Open(c) = Open(b) \cup {s} /\ Uncleared(c) = Uncleared(b) \cup {s}
       /\ Committed(c) = Committed(b)
  <2>1. Open(c) = Open(b) \cup {s}
    BY <1>11, <1>12 DEF Open
  <2>2. Committed(c) = Committed(b)
    BY <1>3, <1>5, <1>6 DEF Committed
  <2>3. \A t \in Strokes : t \in Uncleared(c) <=> t \in Uncleared(b) \cup {s}
    BY <1>11, <2>1 DEF Uncleared
  <2>4. Uncleared(b) \subseteq Strokes /\ Uncleared(c) \subseteq Strokes
    BY DEF Uncleared, Open
  <2> QED BY <2>1, <2>2, <2>3, <2>4
<1>14. \A t \in Strokes : c.content[t] = IF t = s THEN k ELSE b.content[t]
  BY <1>3, <1>5, <1>6, <1>9
<1>15. Described(c)
  BY <1>1, <1>7, <1>13, <1>14 DEF Described
<1>16. Exclusive(c) /\ Listed(c) /\ Queued(c)
  <2>1. \A t \in Strokes : t \in Open(c) => t \notin Committed(c)
    BY <1>1, <1>13 DEF Exclusive, Open, Committed
  <2> QED BY <1>1, <1>3, <1>5, <1>6, <1>13, <2>1 DEF Exclusive, Open, Committed, Listed, Queued
<1>17. Sound(c)
  BY <1>6, <1>10, <1>15, <1>16 DEF Sound
<1> QED BY <1>3, <1>5, <1>6, <1>7, <1>13, <1>14, <1>17 DEF c, d

-----------------------------------------------------------------------------
(* The screen of a watcher.                                                *)

Done(scr) == Range(scr.completed)

\* What DRAW_END does to a screen.
LEMMA OnEndFields ==
    ASSUME NEW scr \in Screens, NEW s \in Strokes
    PROVE  LET c == OnEnd(scr, s)
           IN  /\ c \in Screens
               /\ c.active = scr.active \ {s} /\ c.points = scr.points
               /\ Done(c) = Done(scr) \cup ({s} \cap scr.active)
               /\ \A x, y : Before(c.completed, x, y)
                    <=> Before(scr.completed, x, y) \/ (x \in Done(scr) /\ y = s /\ s \in scr.active)
<1> DEFINE c == OnEnd(scr, s)
<1>1. scr.active \subseteq Strokes /\ scr.completed \in Seq(Strokes) /\ scr.points \in [Strokes -> Nat]
  BY DEF Screens
<1>2. CASE s \notin scr.active
  BY <1>1, <1>2 DEF OnEnd
<1>3. CASE s \in scr.active
  <2>1. c = [scr EXCEPT !.active = scr.active \ {s}, !.completed = Append(scr.completed, s)]
    BY <1>3 DEF OnEnd
  <2>2. c = [active |-> scr.active \ {s}, completed |-> Append(scr.completed, s), points |-> scr.points]
    BY <2>1 DEF Screens
  <2> HIDE DEF c
  <2> DEFINE q == Append(scr.completed, s)
  <2>3. /\ q \in Seq(Strokes)
        /\ Range(q) = Range(scr.completed) \cup {s}
        /\ \A x, y : Before(q, x, y) <=>
              Before(scr.completed, x, y) \/ (x \in Range(scr.completed) /\ y = s)
    BY <1>1, AppendFacts
  <2>4. c.active = scr.active \ {s} /\ c.points = scr.points /\ c.completed = q
    BY <2>2
  <2> HIDE DEF q
  <2>5. c \in Screens
    <3>1. c = [active |-> c.active, completed |-> c.completed, points |-> c.points]
      BY <2>2, <2>4
    <3> QED BY <1>1, <2>3, <2>4, <3>1 DEF Screens
  <2> QED BY <1>3, <2>3, <2>4, <2>5 DEF Done, c
<1> QED BY <1>2, <1>3

\* What DRAW_BEGIN does to a screen.
LEMMA OnBeginFields ==
    ASSUME NEW scr \in Screens, NEW s \in Strokes
    PROVE  LET c == OnBegin(scr, s)
           IN  /\ c \in Screens /\ c.completed = scr.completed
               /\ Held(scr, s) => c = scr
               /\ ~Held(scr, s) => c.active = scr.active \cup {s} /\ c.points[s] = 0
               /\ \A t \in Strokes \ {s} :
                     c.points[t] = scr.points[t] /\ (t \in c.active <=> t \in scr.active)
<1> DEFINE c == OnBegin(scr, s)
<1>1. scr.active \subseteq Strokes /\ scr.completed \in Seq(Strokes) /\ scr.points \in [Strokes -> Nat]
  BY DEF Screens
<1>2. CASE Held(scr, s)
  BY <1>1, <1>2 DEF OnBegin
<1>3. CASE ~Held(scr, s)
  <2>1. c = [scr EXCEPT !.active = scr.active \cup {s}, !.points[s] = 0]
    BY <1>3 DEF OnBegin
  <2>2. c = [active |-> scr.active \cup {s}, completed |-> scr.completed,
          points |-> [scr.points EXCEPT ![s] = 0]]
    BY <2>1 DEF Screens
  <2> HIDE DEF c
  <2>3. /\ c.active = scr.active \cup {s}
        /\ c.points = [scr.points EXCEPT ![s] = 0]
        /\ c.completed = scr.completed
    BY <2>2
  <2>4. c \in Screens
    BY <1>1, <2>2 DEF Screens
  <2> QED BY <1>1, <1>3, <2>3, <2>4 DEF c
<1> QED BY <1>2, <1>3

\* What DRAW_POINT does to a screen.
LEMMA OnPointFields ==
    ASSUME NEW scr \in Screens, NEW s \in Strokes
    PROVE  LET c == OnPoint(scr, s)
           IN  /\ c \in Screens /\ c.completed = scr.completed /\ c.active = scr.active
               /\ \A t \in Strokes : c.points[t] = IF t = s /\ s \in scr.active THEN scr.points[t] + 1
                                                   ELSE scr.points[t]
<1> DEFINE c == OnPoint(scr, s)
<1>1. scr.active \subseteq Strokes /\ scr.completed \in Seq(Strokes) /\ scr.points \in [Strokes -> Nat]
  BY DEF Screens
<1>2. CASE s \notin scr.active
  BY <1>1, <1>2 DEF OnPoint
<1>3. CASE s \in scr.active
  <2>1. c = [scr EXCEPT !.points[s] = @ + 1]
    BY <1>3 DEF OnPoint
  <2>2. c = [active |-> scr.active, completed |-> scr.completed,
             points |-> [scr.points EXCEPT ![s] = scr.points[s] + 1]]
    BY <2>1 DEF Screens
  <2> HIDE DEF c
  <2>3. /\ c.active = scr.active /\ c.completed = scr.completed
        /\ c.points = [scr.points EXCEPT ![s] = scr.points[s] + 1]
    BY <2>2
  <2>4. c \in Screens
    BY <1>1, <2>2 DEF Screens
  <2> QED BY <1>1, <1>3, <2>3, <2>4 DEF c
<1> QED BY <1>2, <1>3

\* What DRAW_UNDO does to a screen.
LEMMA OnUndoFields ==
    ASSUME NEW scr \in Screens, NEW s \in Strokes
    PROVE  LET c == OnUndo(scr, s)
           IN  /\ c \in Screens /\ c.active = scr.active \ {s}
               /\ Done(c) = Done(scr) \ {s}
               /\ \A t \in Strokes \ {s} : c.points[t] = scr.points[t]
               /\ \A x, y \in Strokes :
                    Before(c.completed, x, y) <=> Before(scr.completed, x, y) /\ x # s /\ y # s
<1> DEFINE c == OnUndo(scr, s)
           q == Only(scr.completed, Strokes \ {s})
<1>1. scr.active \subseteq Strokes /\ scr.completed \in Seq(Strokes) /\ scr.points \in [Strokes -> Nat]
  BY DEF Screens
<1>2. c = [scr EXCEPT !.active = scr.active \ {s}, !.completed = q, !.points[s] = 0]
  BY DEF OnUndo
<1>3. /\ q \in Seq(Strokes)
      /\ Range(q) = Range(scr.completed) \cap (Strokes \ {s})
      /\ \A x, y : Before(q, x, y) <=>
            x \in Strokes \ {s} /\ y \in Strokes \ {s} /\ Before(scr.completed, x, y)
  BY <1>1, OnlyKeeps
<1> HIDE DEF c, q
<1>4. c = [active |-> scr.active \ {s}, completed |-> q, points |-> [scr.points EXCEPT ![s] = 0]]
  BY <1>2 DEF Screens
<1>5. c.active = scr.active \ {s} /\ c.completed = q /\ c.points = [scr.points EXCEPT ![s] = 0]
  BY <1>4
<1>6. c \in Screens
  BY <1>1, <1>3, <1>4 DEF Screens
<1>7. Range(scr.completed) \subseteq Strokes
  BY <1>1 DEF Range
<1> QED BY <1>1, <1>3, <1>5, <1>6, <1>7 DEF Done, c

\* The open strokes of a snapshot are listed oldest first, each once.
LEMMA OpenListed ==
    ASSUME NEW b, IsBook(b)
    PROVE  OpenByAge(b) \in Seq(Strokes) /\ Range(OpenByAge(b)) = Uncleared(b)
<1> DEFINE S == Uncleared(b)
           R == {p \in S \X S : Older(b, p[1], p[2])}
           q == InOrder(S, R)
<1>1. S \subseteq Strokes /\ IsFiniteSet(S)
  <2>1. S \subseteq Strokes
    BY DEF Uncleared, Open
  <2> QED BY <2>1, FS_Subset, DrawingAssumption
<1>2. \A x, y \in S : <<x, y>> \in R <=> Older(b, x, y)
  <2> HIDE DEF S
  <2> QED OBVIOUS
<1>3. \A x \in S : b.pending[x].started \in Nat /\ x \in Nat
  <2>1. b.pending \in [Strokes -> Pending]
    BY DEF IsBook
  <2> HIDE DEF S
  <2> QED BY <1>1, <2>1, DrawingAssumption DEF Pending
<1>4. TotalOrder(S, R)
  <2> HIDE DEF S, R
  <2>1. \A x \in S : <<x, x>> \in R
    BY <1>2, <1>3 DEF Older
  <2>2. \A x, y \in S : x # y => (<<x, y>> \in R <=> <<y, x>> \notin R)
    <3> TAKE x, y \in S
    <3>1. /\ b.pending[x].started \in Nat /\ x \in Nat /\ b.pending[y].started \in Nat /\ y \in Nat
          /\ <<x, y>> \in R <=> Older(b, x, y)
          /\ <<y, x>> \in R <=> Older(b, y, x)
      BY <1>2, <1>3
    <3> QED BY <3>1 DEF Older
  <2>3. \A x, y, z \in S : <<x, y>> \in R /\ <<y, z>> \in R => <<x, z>> \in R
    <3> TAKE x, y, z \in S
    <3>1. /\ b.pending[x].started \in Nat /\ x \in Nat /\ b.pending[y].started \in Nat /\ y \in Nat
          /\ b.pending[z].started \in Nat /\ z \in Nat
          /\ <<x, y>> \in R <=> Older(b, x, y)
          /\ <<y, z>> \in R <=> Older(b, y, z)
          /\ <<x, z>> \in R <=> Older(b, x, z)
      BY <1>2, <1>3
    <3> QED BY <3>1 DEF Older
  <2> QED BY <2>1, <2>2, <2>3 DEF TotalOrder
<1>5. OpenByAge(b) = q
  BY DEF OpenByAge
<1> HIDE DEF S, R, q
<1>6. /\ Cardinality(S) \in Nat /\ q \in [1 .. Cardinality(S) -> S]
      /\ \A x \in S : \E k \in 1 .. Cardinality(S) : q[k] = x
  BY <1>1, <1>4, InOrderLists DEF q
<1>7. q \in Seq(Strokes) /\ Range(q) = S
  <2>1. q \in Seq(Strokes)
    <3>1. \A k \in 1 .. Cardinality(S) : q[k] \in Strokes
      BY <1>1, <1>6
    <3>2. q \in [1 .. Cardinality(S) -> Strokes]
      BY <1>6, <3>1
    <3> QED BY <1>6, <3>2
  <2>2. \A x \in Range(q) : x \in S
    BY <1>6 DEF Range
  <2>3. \A x \in S : x \in Range(q)
    BY <1>6 DEF Range
  <2> QED BY <2>1, <2>2, <2>3
<1> QED BY <1>5, <1>7 DEF S

\* What a snapshot makes of a screen.
LEMMA SyncFields ==
    ASSUME NEW b, Sound(b), NEW scr \in Screens
    PROVE  LET c       == ApplySnapshot(scr, b)
               listed  == {s \in Committed(b) \cup Uncleared(b) :
                             b.content[s].kept = "kept" \/ Held(scr, s)}
               open(s) == ~b.content[s].ended /\ (b.content[s].kept = "kept" \/ s \in scr.active)
           IN  /\ c \in Screens
               /\ \A s \in Strokes : s \in c.active <=> s \in listed /\ open(s)
               /\ \A s \in Strokes : s \in Done(c) <=> s \in listed /\ ~open(s)
               /\ \A s \in listed : b.content[s].kept = "kept" => c.points[s] = b.content[s].points
               /\ \A x, y \in Committed(b) \cap Done(c) :
                    Before(c.completed, x, y) <=> Before(b.order, x, y)
<1> DEFINE full(s) == b.content[s].kept = "kept"
           shown(s) == full(s) \/ Held(scr, s)
           open(s) == ~b.content[s].ended /\ (full(s) \/ s \in scr.active)
           shownS == {s \in Strokes : shown(s)}
           closedS == {s \in Strokes : ~open(s)}
           list == Only(Snapshot(b), shownS)
           fin == Only(list, closedS)
           act == {s \in Range(list) : open(s)}
           pts == [s \in Strokes |-> IF s \notin Range(list) THEN 0
                                     ELSE IF full(s) THEN b.content[s].points ELSE scr.points[s]]
           c == ApplySnapshot(scr, b)
<1>1. c = [active |-> act, completed |-> fin, points |-> pts]
  BY DEF ApplySnapshot
<1>2. /\ IsBook(b) /\ Exclusive(b) /\ Listed(b) /\ Described(b) /\ b.content \in [Strokes -> Content]
      /\ scr.points \in [Strokes -> Nat]
      /\ Committed(b) \subseteq Strokes /\ Uncleared(b) \subseteq Strokes
      /\ Committed(b) \cap Uncleared(b) = {}
  BY DEF Sound, Counted, Screens, Committed, Uncleared, Open, Exclusive
<1>3. OpenByAge(b) \in Seq(Strokes) /\ Range(OpenByAge(b)) = Uncleared(b)
  BY <1>2, OpenListed
<1>4. /\ Snapshot(b) \in Seq(Strokes) /\ Range(Snapshot(b)) = Committed(b) \cup Uncleared(b)
      /\ \A x, y : Before(Snapshot(b), x, y)
           <=> Before(b.order, x, y) \/ Before(OpenByAge(b), x, y)
                 \/ (x \in Committed(b) /\ y \in Uncleared(b))
  BY <1>2, <1>3, ConcatFacts DEF Snapshot, Listed
<1>5. \A x, y \in Committed(b) : Before(Snapshot(b), x, y) <=> Before(b.order, x, y)
  <2>1. \A x, y : Before(OpenByAge(b), x, y) => x \in Range(OpenByAge(b))
    BY DEF Before, Range
  <2> QED BY <1>2, <1>3, <1>4, <2>1
<1> HIDE DEF c
<1>6. /\ list \in Seq(Strokes) /\ Range(list) = (Committed(b) \cup Uncleared(b)) \cap shownS
      /\ \A x, y : Before(list, x, y) <=> x \in shownS /\ y \in shownS /\ Before(Snapshot(b), x, y)
  <2> HIDE DEF shownS
  <2> QED BY <1>4, OnlyKeeps
<1> HIDE DEF list
<1>7. /\ fin \in Seq(Strokes) /\ Range(fin) = Range(list) \cap closedS
      /\ \A x, y : Before(fin, x, y) <=> x \in closedS /\ y \in closedS /\ Before(list, x, y)
  <2> HIDE DEF closedS
  <2> QED BY <1>6, OnlyKeeps
<1> HIDE DEF fin
<1>8. pts \in [Strokes -> Nat]
  BY <1>2 DEF Content
<1>9. act \subseteq Strokes
  BY <1>2, <1>6
<1>10. \A s \in Strokes : s \in act <=> s \in Range(list) /\ open(s)
  OBVIOUS
<1>11. \A s \in Strokes : s \in Range(fin) <=> s \in Range(list) /\ ~open(s)
  BY <1>7
<1>12. \A s \in Range(list) : full(s) => pts[s] = b.content[s].points
  BY <1>2, <1>6
<1> HIDE DEF pts, act
<1>13. c \in Screens /\ c.active = act /\ c.completed = fin /\ c.points = pts
  BY <1>1, <1>7, <1>8, <1>9 DEF Screens
<1>14. Range(list) = {s \in Committed(b) \cup Uncleared(b) : shown(s)}
  BY <1>2, <1>6
<1>15. \A x, y \in Committed(b) \cap Range(fin) : Before(fin, x, y) <=> Before(b.order, x, y)
  <2> TAKE x, y \in Committed(b) \cap Range(fin)
  <2>1. x \in closedS /\ y \in closedS /\ x \in shownS /\ y \in shownS
    BY <1>6, <1>7
  <2> QED BY <1>5, <1>6, <1>7, <2>1
<1> HIDE DEF shownS, closedS
<1> QED BY <1>10, <1>11, <1>12, <1>13, <1>14, <1>15 DEF c, Done

-----------------------------------------------------------------------------
(* The screen and the book agree, step by step.                            *)

\* The strokes CanvasAgrees speaks of, of a book b and uses n.
Promised(b, n) == {s \in Strokes \ b.forgotten : n[s] <= 1}

\* An id never used is nowhere, and one used once is not open again after it
\* has been finished on the screen.
Traced(b, scr, n) ==
    \A s \in Strokes :
      /\ n[s] = 0 => s \notin Open(b) \cup Committed(b) /\ ~Held(scr, s)
      /\ n[s] <= 1 /\ s \in Done(scr) => s \notin Open(b)

\* CanvasAgrees of a book b, a screen scr and uses n.
Agrees(b, scr, n, live) ==
    /\ \A s \in Promised(b, n) :
         /\ s \in scr.active => s \in Uncleared(b)
         /\ s \in Done(scr) => s \in Committed(b)
         /\ b.content[s].kept = "kept"
              => Held(scr, s) /\ scr.points[s] = b.content[s].points
         /\ live /\ s \in Uncleared(b) \cup Committed(b) => Held(scr, s)
    /\ \A s, t \in Promised(b, n) \cap Committed(b) \cap Done(scr) :
         Before(scr.completed, s, t) <=> Before(b.order, s, t)

\* Ends and clears only take away.
LEMMA TracedShrinks ==
    ASSUME NEW b, NEW scr, NEW n, Traced(b, scr, n), NEW c, NEW scr2,
           Open(c) \subseteq Open(b), Committed(c) \subseteq Open(b) \cup Committed(b),
           \A s \in Strokes : Held(scr2, s) => Held(scr, s),
           \A s \in Strokes : s \in Done(scr2) => s \in Done(scr) \/ s \notin Open(c)
    PROVE  Traced(c, scr2, n)
BY DEF Traced

\* A DRAW_END told to the watcher.
LEMMA EndAgrees ==
    ASSUME NEW b, Sound(b), NEW s \in Uncleared(b), NEW c, NEW purged \in SUBSET Committed(b),
           Closes(b, c, s, purged), NEW scr \in Screens, NEW n, NEW live, Agrees(b, scr, n, live)
    PROVE  Agrees(c, OnEnd(scr, s), n, live)
<1> DEFINE d == OnEnd(scr, s)
<1>1. s \in Strokes /\ s \in Open(b) /\ s \notin Committed(b)
  BY DEF Sound, Exclusive, Uncleared, Open, Committed
<1>2. /\ d.active = scr.active \ {s} /\ d.points = scr.points
      /\ Done(d) = Done(scr) \cup ({s} \cap scr.active)
      /\ \A x, y : Before(d.completed, x, y)
            <=> Before(scr.completed, x, y) \/ (x \in Done(scr) /\ y = s /\ s \in scr.active)
  BY <1>1, OnEndFields
<1> HIDE DEF d
<1>3. /\ Uncleared(c) = Uncleared(b) \ {s}
      /\ Committed(c) = (Committed(b) \cup {s}) \ purged
      /\ s \notin purged /\ c.forgotten = b.forgotten \cup purged
      /\ \A t \in Strokes \ purged : /\ c.content[t].kept = b.content[t].kept
                                   /\ c.content[t].points = b.content[t].points
      /\ \A x, y \in Committed(c) :
           Before(c.order, x, y) <=> Before(b.order, x, y) \/ (x \in Committed(b) /\ y = s)
  BY DEF Closes
<1>4. \A t \in Promised(c, n) : t \in Promised(b, n) /\ t \notin purged /\ t \in Strokes
  BY <1>3 DEF Promised
<1>5. \A t : Held(d, t) <=> Held(scr, t)
  BY <1>2 DEF Held, Done
<1>6. ASSUME NEW t \in Promised(c, n)
      PROVE  /\ t \in d.active => t \in Uncleared(c)
             /\ t \in Done(d) => t \in Committed(c)
             /\ c.content[t].kept = "kept" => Held(d, t) /\ d.points[t] = c.content[t].points
             /\ live /\ t \in Uncleared(c) \cup Committed(c) => Held(d, t)
  <2>1. /\ t \in scr.active => t \in Uncleared(b)
        /\ t \in Done(scr) => t \in Committed(b)
        /\ b.content[t].kept = "kept" => Held(scr, t) /\ scr.points[t] = b.content[t].points
        /\ live /\ t \in Uncleared(b) \cup Committed(b) => Held(scr, t)
    BY <1>4 DEF Agrees
  <2> QED BY <1>1, <1>2, <1>3, <1>4, <1>5, <2>1
<1>7. ASSUME NEW x \in Promised(c, n) \cap Committed(c) \cap Done(d),
             NEW y \in Promised(c, n) \cap Committed(c) \cap Done(d)
      PROVE  Before(d.completed, x, y) <=> Before(c.order, x, y)
  <2>1. /\ x \in Promised(b, n) /\ y \in Promised(b, n)
        /\ x \in Done(scr) => x \in Committed(b)
        /\ y \in Done(scr) => y \in Committed(b)
    BY <1>4 DEF Agrees
  <2>2. x \in Done(scr) <=> x \in Committed(b)
    BY <1>1, <1>2, <1>3, <2>1
  <2>3. ASSUME x \in Committed(b), y \in Committed(b)
        PROVE  Before(scr.completed, x, y) <=> Before(b.order, x, y)
    <3>1. x \in Done(scr) /\ y \in Done(scr)
      BY <1>1, <1>2, <2>3
    <3> QED BY <2>1, <2>3, <3>1 DEF Agrees
  <2>4. \A p, q : Before(scr.completed, p, q) => p \in Done(scr) /\ q \in Done(scr)
    BY DEF Before, Done, Range
  <2>5. \A p, q : Before(b.order, p, q) => p \in Committed(b) /\ q \in Committed(b)
    BY DEF Before, Range, Sound, Listed
  <2>6. Before(d.completed, x, y) <=>
          Before(scr.completed, x, y) \/ (x \in Done(scr) /\ y = s /\ s \in scr.active)
    BY <1>2
  <2>7. Before(c.order, x, y) <=> Before(b.order, x, y) \/ (x \in Committed(b) /\ y = s)
    BY <1>3
  <2>8. y = s => s \in scr.active
    BY <1>1, <1>2, <2>1
  <2>9. Before(scr.completed, x, y) <=> Before(b.order, x, y)
    BY <2>1, <2>3, <2>4, <2>5
  <2> QED BY <2>2, <2>6, <2>7, <2>8, <2>9
<1>8. Agrees(c, d, n, live)
  BY <1>6, <1>7 DEF Agrees
<1> QED BY <1>8 DEF d

\* A DRAW_END of a stroke that was cleared: the watcher is told nothing.
LEMMA SilentEndAgrees ==
    ASSUME NEW b, Sound(b), NEW s \in Strokes, s \notin Uncleared(b), NEW c,
            NEW purged \in SUBSET Committed(b),
           s \in Open(b),
           Closes(b, c, s, purged), NEW scr \in Screens, NEW n, NEW live, Agrees(b, scr, n, live)
    PROVE  purged \cap Done(scr) \cap Promised(c, n) = {} /\ Agrees(c, scr, n, live)
<1>1. s \notin Committed(b)
  BY DEF Sound, Exclusive, Open, Committed
<1>3. /\ Uncleared(c) = Uncleared(b)
      /\ Committed(c) = Committed(b) \ purged
      /\ c.forgotten = b.forgotten \cup purged
      /\ \A t \in Strokes \ purged : /\ c.content[t].kept = b.content[t].kept
                                   /\ c.content[t].points = b.content[t].points
      /\ \A x, y \in Committed(c) :
           Before(c.order, x, y) <=> Before(b.order, x, y) \/ (x \in Committed(b) /\ y = s)
  BY DEF Closes
<1>4. \A t \in Promised(c, n) : t \in Promised(b, n) /\ t \notin purged /\ t \in Strokes
  BY <1>3 DEF Promised
<1>6. ASSUME NEW t \in Promised(c, n)
      PROVE  /\ t \in scr.active => t \in Uncleared(c)
             /\ t \in Done(scr) => t \in Committed(c)
             /\ c.content[t].kept = "kept" => Held(scr, t) /\ scr.points[t] = c.content[t].points
             /\ live /\ t \in Uncleared(c) \cup Committed(c) => Held(scr, t)
  <2>1. /\ t \in scr.active => t \in Uncleared(b)
        /\ t \in Done(scr) => t \in Committed(b)
        /\ b.content[t].kept = "kept" => Held(scr, t) /\ scr.points[t] = b.content[t].points
        /\ live /\ t \in Uncleared(b) \cup Committed(b) => Held(scr, t)
    BY <1>4 DEF Agrees
  <2> QED BY <1>3, <1>4, <2>1
<1>7. ASSUME NEW x \in Promised(c, n) \cap Committed(c) \cap Done(scr),
             NEW y \in Promised(c, n) \cap Committed(c) \cap Done(scr)
      PROVE  Before(scr.completed, x, y) <=> Before(c.order, x, y)
  <2>1. Before(scr.completed, x, y) <=> Before(b.order, x, y)
    BY <1>3, <1>4 DEF Agrees
  <2>2. y # s
    BY <1>1, <1>3
  <2> QED BY <1>3, <2>1, <2>2
<1> QED BY <1>4, <1>6, <1>7 DEF Agrees

\* A point drawn, told to the watcher.
LEMMA PointAgrees ==
    ASSUME NEW b, Sound(b), NEW s \in Uncleared(b), NEW scr \in Screens, NEW n, NEW live,
           Agrees(b, scr, n, live)
    PROVE  Agrees(RecordPoint(b, s), OnPoint(scr, s), n, live)
<1> DEFINE c == RecordPoint(b, s)
           d == OnPoint(scr, s)
<1>1. s \in Strokes /\ s \notin Committed(b)
  BY DEF Sound, Exclusive, Uncleared, Open, Committed
<1>2. /\ d.completed = scr.completed /\ d.active = scr.active
      /\ \A t \in Strokes : d.points[t] = IF t = s /\ s \in scr.active THEN scr.points[t] + 1
                                          ELSE scr.points[t]
  BY <1>1, OnPointFields
<1>3. /\ c.pending = b.pending /\ c.committed = b.committed
      /\ c.order = b.order /\ c.forgotten = b.forgotten
      /\ \A t \in Strokes :
           c.content[t].kept = "kept"
             => /\ b.content[t].kept = "kept"
                /\ c.content[t].points = IF t = s THEN b.content[t].points + 1
                                         ELSE b.content[t].points
  BY PointCounts
<1> HIDE DEF c, d
<1>4. /\ Uncleared(c) = Uncleared(b) /\ Committed(c) = Committed(b) /\ Promised(c, n) = Promised(b, n)
      /\ Done(d) = Done(scr) /\ \A t : Held(d, t) <=> Held(scr, t)
  BY <1>2, <1>3 DEF Uncleared, Open, Committed, Promised, Done, Held
<1>5. ASSUME NEW t \in Promised(c, n), c.content[t].kept = "kept"
      PROVE  Held(d, t) /\ d.points[t] = c.content[t].points
  <2>1. /\ t \in Strokes /\ Held(scr, t) /\ scr.points[t] = b.content[t].points
        /\ t \in Done(scr) => t \in Committed(b)
    BY <1>3, <1>4, <1>5 DEF Agrees, Promised
  <2>2. t = s => s \in scr.active
    BY <1>1, <2>1 DEF Held, Done
  <2> QED BY <1>2, <1>3, <1>4, <1>5, <2>1, <2>2
<1>6. Agrees(c, d, n, live)
  BY <1>2, <1>3, <1>4, <1>5 DEF Agrees
<1> QED BY <1>6 DEF c, d

\* An undo, told to the watcher.
LEMMA UndoAgrees ==
    ASSUME NEW b, Sound(b), NEW s \in Committed(b), NEW scr \in Screens, NEW n, NEW live,
           Agrees(b, scr, n, live)
    PROVE  Agrees(RemoveCommitted(b, s), OnUndo(scr, s), n, live)
<1> DEFINE c == RemoveCommitted(b, s)
           d == OnUndo(scr, s)
<1>1. s \in Strokes
  BY DEF Committed
<1>2. /\ d.active = scr.active \ {s}
      /\ Done(d) = Done(scr) \ {s}
      /\ \A t \in Strokes \ {s} : d.points[t] = scr.points[t]
      /\ \A x, y \in Strokes :
           Before(d.completed, x, y) <=> Before(scr.completed, x, y) /\ x # s /\ y # s
  BY <1>1, OnUndoFields
<1>3. /\ c.pending = b.pending /\ c.forgotten = b.forgotten
      /\ Committed(c) = Committed(b) \ {s}
      /\ \A t \in Strokes \ {s} : c.content[t] = b.content[t]
      /\ c.content[s].kept = "none"
      /\ \A x, y \in Strokes :
           Before(c.order, x, y) <=> Before(b.order, x, y) /\ x # s /\ y # s
  BY RemoveFields
<1> HIDE DEF c, d
<1>4. /\ Uncleared(c) = Uncleared(b) /\ Promised(c, n) = Promised(b, n)
      /\ \A t : Held(d, t) <=> Held(scr, t) /\ t # s
  BY <1>2, <1>3 DEF Uncleared, Open, Promised, Done, Held
<1>5. s \notin Uncleared(b)
  BY DEF Sound, Exclusive, Uncleared, Open, Committed
<1>6. ASSUME NEW t \in Promised(c, n)
      PROVE  /\ t \in d.active => t \in Uncleared(c)
             /\ t \in Done(d) => t \in Committed(c)
             /\ c.content[t].kept = "kept" => Held(d, t) /\ d.points[t] = c.content[t].points
             /\ live /\ t \in Uncleared(c) \cup Committed(c) => Held(d, t)
  <2>1. /\ t \in Strokes
        /\ t \in scr.active => t \in Uncleared(b)
        /\ t \in Done(scr) => t \in Committed(b)
        /\ b.content[t].kept = "kept" => Held(scr, t) /\ scr.points[t] = b.content[t].points
        /\ live /\ t \in Uncleared(b) \cup Committed(b) => Held(scr, t)
    BY <1>4 DEF Agrees, Promised
  <2> QED BY <1>2, <1>3, <1>4, <1>5, <2>1
<1>7. ASSUME NEW x \in Promised(c, n) \cap Committed(c) \cap Done(d),
             NEW y \in Promised(c, n) \cap Committed(c) \cap Done(d)
      PROVE  Before(d.completed, x, y) <=> Before(c.order, x, y)
  <2>1. /\ x \in Strokes /\ y \in Strokes
        /\ Before(scr.completed, x, y) <=> Before(b.order, x, y)
    BY <1>2, <1>3, <1>4 DEF Agrees, Promised
  <2> QED BY <1>2, <1>3, <2>1
<1>8. Agrees(c, d, n, live)
  BY <1>6, <1>7 DEF Agrees
<1> QED BY <1>8 DEF c, d

\* A stroke begun whose id was never used, or was used before.
LEMMA BeginAgrees ==
    ASSUME NEW b, Sound(b), NEW s \in Strokes, NEW c,
           Uncleared(c) = Uncleared(b) \cup {s}, Committed(c) = Committed(b),
           c.order = b.order, c.forgotten = b.forgotten,
           \A t \in Strokes \ {s} : c.content[t] = b.content[t],
           c.content[s].points = 0, s \notin Committed(b),
           NEW scr \in Screens, NEW n, n \in [Strokes -> Nat], NEW live, Agrees(b, scr, n, live),
           n[s] = 0 => ~Held(scr, s)
    PROVE  Agrees(c, OnBegin(scr, s), [n EXCEPT ![s] = n[s] + 1], live)
<1> DEFINE d == OnBegin(scr, s)
           m == [n EXCEPT ![s] = n[s] + 1]
<1>2. /\ d.completed = scr.completed
      /\ Held(scr, s) => d = scr
      /\ ~Held(scr, s) => d.active = scr.active \cup {s} /\ d.points[s] = 0
      /\ \A t \in Strokes \ {s} : d.points[t] = scr.points[t] /\ (t \in d.active <=> t \in scr.active)
  BY OnBeginFields
<1>3. \A t \in Strokes : n[t] \in Nat /\ m[t] = IF t = s THEN n[t] + 1 ELSE n[t]
  OBVIOUS
<1> HIDE DEF d, m
<1>4. /\ \A t \in Promised(c, m) : t \in Promised(b, n) /\ t \in Strokes
      /\ s \in Promised(c, m) => n[s] = 0
  BY <1>3 DEF Promised
<1>5. Done(d) = Done(scr) /\ \A t \in Strokes \ {s} : Held(d, t) <=> Held(scr, t)
  BY <1>2 DEF Done, Held
<1>6. ASSUME NEW t \in Promised(c, m)
      PROVE  /\ t \in d.active => t \in Uncleared(c)
             /\ t \in Done(d) => t \in Committed(c)
             /\ c.content[t].kept = "kept" => Held(d, t) /\ d.points[t] = c.content[t].points
             /\ live /\ t \in Uncleared(c) \cup Committed(c) => Held(d, t)
  <2>1. CASE t = s
    <3>1. ~Held(scr, s)
      BY <1>4, <2>1
    <3>2. s \in d.active /\ d.points[s] = 0 /\ s \notin Done(scr)
      BY <1>2, <3>1 DEF Held, Done
    <3>3. Held(d, s)
      BY <3>2 DEF Held
    <3> QED BY <1>5, <2>1, <3>2, <3>3
  <2>2. CASE t # s
    <3>1. /\ t \in Strokes
          /\ t \in scr.active => t \in Uncleared(b)
          /\ t \in Done(scr) => t \in Committed(b)
          /\ b.content[t].kept = "kept" => Held(scr, t) /\ scr.points[t] = b.content[t].points
          /\ live /\ t \in Uncleared(b) \cup Committed(b) => Held(scr, t)
      BY <1>4 DEF Agrees
    <3> QED BY <1>2, <1>5, <2>2, <3>1
  <2> QED BY <2>1, <2>2
<1>7. ASSUME NEW x \in Promised(c, m) \cap Committed(c) \cap Done(d),
             NEW y \in Promised(c, m) \cap Committed(c) \cap Done(d)
      PROVE  Before(d.completed, x, y) <=> Before(c.order, x, y)
  BY <1>2, <1>4, <1>5 DEF Agrees
<1>8. Agrees(c, d, m, live)
  BY <1>6, <1>7 DEF Agrees
<1> QED BY <1>8 DEF d, m

\* A DRAW_SYNC.
LEMMA SyncAgrees ==
    ASSUME NEW b, Sound(b), NEW scr \in Screens, NEW n, Traced(b, scr, n)
    PROVE  LET d == ApplySnapshot(scr, b)
           IN  d \in Screens /\ Traced(b, d, n) /\ Agrees(b, d, n, FALSE)
<1> DEFINE d == ApplySnapshot(scr, b)
           listed == {s \in Committed(b) \cup Uncleared(b) :
                        b.content[s].kept = "kept" \/ Held(scr, s)}
           open(s) == ~b.content[s].ended /\ (b.content[s].kept = "kept" \/ s \in scr.active)
<1>1. /\ d \in Screens
      /\ \A s \in Strokes : s \in d.active <=> s \in listed /\ open(s)
      /\ \A s \in Strokes : s \in Done(d) <=> s \in listed /\ ~open(s)
      /\ \A s \in listed : b.content[s].kept = "kept" => d.points[s] = b.content[s].points
      /\ \A x, y \in Committed(b) \cap Done(d) :
           Before(d.completed, x, y) <=> Before(b.order, x, y)
  BY SyncFields
<1> HIDE DEF d
<1>2. \A s \in Strokes : /\ b.content[s].kept # "none" <=> s \in Uncleared(b) \cup Committed(b)
                         /\ b.content[s].ended <=> s \in Committed(b)
                         /\ s \in Committed(b) => s \notin Open(b)
                         /\ s \in Uncleared(b) => s \in Open(b)
  BY DEF Sound, Described, Exclusive, Open, Uncleared, Committed
<1>3. \A s : Held(d, s) <=> s \in d.active \/ s \in Done(d)
  BY DEF Held, Done
<1>4. \A s : Held(scr, s) <=> s \in scr.active \/ s \in Done(scr)
  BY DEF Held, Done
<1>5. ASSUME NEW s \in Strokes
      PROVE  /\ n[s] = 0 => s \notin Open(b) \cup Committed(b) /\ ~Held(d, s)
             /\ n[s] <= 1 /\ s \in Done(d) => s \notin Open(b)
  <2>1. /\ n[s] = 0 => s \notin Open(b) \cup Committed(b) /\ ~Held(scr, s)
        /\ n[s] <= 1 /\ s \in Done(scr) => s \notin Open(b)
    BY DEF Traced
  <2>2. n[s] = 0 => ~Held(d, s)
    BY <1>1, <1>2, <1>3, <2>1
  <2>3. ASSUME n[s] <= 1, s \in Done(d) PROVE s \notin Open(b)
    <3>1. s \in listed /\ ~open(s)
      BY <1>1, <2>3
    <3>2. CASE b.content[s].ended
      BY <1>2, <3>2
    <3>3. CASE ~b.content[s].ended
      <4>1. b.content[s].kept # "kept" /\ s \notin scr.active
        BY <3>1, <3>3
      <4>2. s \in Done(scr)
        BY <1>4, <3>1, <4>1
      <4> QED BY <2>1, <2>3, <4>2
    <3> QED BY <3>2, <3>3
  <2> QED BY <2>1, <2>2, <2>3
<1>6. Traced(b, d, n)
  BY <1>5 DEF Traced
<1>7. ASSUME NEW s \in Promised(b, n)
      PROVE  /\ s \in d.active => s \in Uncleared(b)
             /\ s \in Done(d) => s \in Committed(b)
             /\ b.content[s].kept = "kept" => Held(d, s) /\ d.points[s] = b.content[s].points
  <2>1. s \in Strokes /\ n[s] <= 1
    BY DEF Promised
  <2>2. s \in d.active => s \in Uncleared(b)
    BY <1>1, <1>2, <2>1
  <2>3. s \in Done(d) => s \in Committed(b)
    BY <1>1, <1>2, <1>5, <2>1
  <2>4. ASSUME b.content[s].kept = "kept" PROVE Held(d, s) /\ d.points[s] = b.content[s].points
    <3>1. s \in listed
      BY <1>2, <2>1, <2>4
    <3> HIDE DEF listed
    <3> QED BY <1>1, <1>3, <2>1, <2>4, <3>1
  <2> QED BY <2>2, <2>3, <2>4
<1>8. Agrees(b, d, n, FALSE)
  BY <1>1, <1>7 DEF Agrees
<1> QED BY <1>1, <1>6, <1>8 DEF d

-----------------------------------------------------------------------------
(* The invariant of the canvas.                                            *)

\* One DRAW_END, told or not told to the watcher.
LEMMA EndTraced ==
    ASSUME NEW b, Sound(b), NEW s \in Strokes, s \in Open(b), NEW c, NEW purged \in SUBSET Committed(b),
           Closes(b, c, s, purged), NEW scr \in Screens, NEW n, Traced(b, scr, n)
    PROVE  Traced(c, scr, n) /\ Traced(c, OnEnd(scr, s), n)
<1> DEFINE d == OnEnd(scr, s)
<1>1. /\ d.active = scr.active \ {s} /\ Done(d) = Done(scr) \cup ({s} \cap scr.active)
  BY OnEndFields
<1> HIDE DEF d
<1>2. Open(c) = Open(b) \ {s} /\ Committed(c) \subseteq Open(b) \cup Committed(b)
  BY DEF Closes
<1>3. \A t \in Strokes : Held(d, t) => Held(scr, t)
  BY <1>1 DEF Held, Done
<1>4. \A t \in Strokes : t \in Done(d) => t \in Done(scr) \/ t \notin Open(c)
  BY <1>1, <1>2
<1>5. Traced(c, scr, n)
  BY <1>2, TracedShrinks
<1>6. Traced(c, d, n)
  BY <1>2, <1>3, <1>4, TracedShrinks
<1> QED BY <1>5, <1>6 DEF d

\* Making room for a stroke of u.
LEMMA FinishAgrees ==
    ASSUME NEW b, Sound(b), NEW u \in Users, NEW scr \in Screens, NEW n, Traced(b, scr, n)
    PROVE  LET c == FinishOldestOpen(b, u)
               d == IF Finished(b, u) = {} THEN scr ELSE OnEnd(scr, Victim(b, u))
           IN  /\ Sound(c) /\ d \in Screens
               /\ Open(c) \subseteq Open(b) /\ Committed(c) \subseteq Open(b) \cup Committed(b)
               /\ \A s \in Strokes : Held(d, s) => Held(scr, s)
               /\ Traced(c, scr, n) /\ Traced(c, d, n)
               /\ \A live : Agrees(b, scr, n, live) => Agrees(c, d, n, live)
<1> DEFINE c == FinishOldestOpen(b, u)
           v == Victim(b, u)
           d == IF Finished(b, u) = {} THEN scr ELSE OnEnd(scr, v)
<1>1. CASE Victims(b, u) = {}
  <2>1. c = b /\ d = scr
    BY <1>1 DEF FinishOldestOpen, Finished
  <2> HIDE DEF c, d
  <2> QED BY <2>1 DEF c, d, v
<1>2. CASE Victims(b, u) # {}
  <2>1. v \in Strokes /\ v \in Open(b)
    <3>1. v \in Victims(b, u)
      BY <1>2, VictimIsCandidate DEF Sound
    <3> QED BY <3>1, DrawingAssumption DEF Victims, Open, OpenBy
  <2>2. c = EndStroke(b, v)
    BY <1>2 DEF FinishOldestOpen
  <2>3. d = IF v \in Uncleared(b) THEN OnEnd(scr, v) ELSE scr
    BY <1>2 DEF Finished
  <2> HIDE DEF c, d, v
  <2>4. Sound(c) /\ \E purged \in SUBSET Committed(b) : Closes(b, c, v, purged)
    BY <2>1, <2>2, EndCloses
  <2>5. PICK purged \in SUBSET Committed(b) : Closes(b, c, v, purged)
    BY <2>4
  <2>6. /\ OnEnd(scr, v) \in Screens
        /\ OnEnd(scr, v).active = scr.active \ {v}
        /\ Done(OnEnd(scr, v)) = Done(scr) \cup ({v} \cap scr.active)
    BY <2>1, OnEndFields
  <2>7. d \in Screens /\ \A s \in Strokes : Held(d, s) => Held(scr, s)
    BY <2>3, <2>6 DEF Held, Done
  <2>8. Traced(c, scr, n) /\ Traced(c, d, n)
    BY <2>1, <2>3, <2>5, EndTraced
  <2>9. ASSUME NEW live, Agrees(b, scr, n, live) PROVE Agrees(c, d, n, live)
    <3>1. CASE v \in Uncleared(b)
      BY <2>3, <2>5, <2>9, <3>1, EndAgrees
    <3>2. CASE v \notin Uncleared(b)
      BY <2>1, <2>3, <2>5, <2>9, <3>2, SilentEndAgrees
    <3> QED BY <3>1, <3>2
  <2>10. Open(c) \subseteq Open(b) /\ Committed(c) \subseteq Open(b) \cup Committed(b)
    BY <2>1, <2>5 DEF Closes
  <2> QED BY <2>4, <2>7, <2>8, <2>9, <2>10 DEF c, d, v
<1> QED BY <1>1, <1>2

\* The inductive invariant: the book is sound, and the screen of a watcher
\* who is not behind agrees with it.
CanvasInv ==
    /\ Sound(book) /\ mayDraw \subseteq Users
    /\ screen \in Screens /\ uses \in [Strokes -> Nat]
    /\ Traced(book, screen, uses)
    /\ feed # "behind" => Agrees(book, screen, uses, feed = "live")

\* A room without strokes and an empty screen agree.
LEMMA CanvasInvInit == Init => CanvasInv
<1> SUFFICES ASSUME Init PROVE CanvasInv
  OBVIOUS
<1>1. Sound(book) /\ Open(book) = {} /\ Committed(book) = {}
  BY EmptySound DEF Init
<1>2. screen = [active |-> {}, completed |-> <<>>, points |-> [s \in Strokes |-> 0]]
  BY DEF Init, EmptyScreen
<1>3. screen \in Screens /\ screen.active = {} /\ Done(screen) = {}
  BY <1>2 DEF Screens, Done, Range
<1>4. uses \in [Strokes -> Nat] /\ mayDraw \subseteq Users
  BY DrawingAssumption DEF Init
<1>5. \A s : ~Held(screen, s)
  BY <1>3 DEF Held, Done
<1>6. Traced(book, screen, uses)
  BY <1>1, <1>3, <1>5 DEF Traced
<1>7. Uncleared(book) = {} /\ \A s \in Strokes : book.content[s].kept = "none"
  BY <1>1 DEF Uncleared, Sound, Described
<1>8. \A live : Agrees(book, screen, uses, live)
  BY <1>1, <1>3, <1>7 DEF Agrees, Promised
<1> QED BY <1>1, <1>3, <1>4, <1>6, <1>8 DEF CanvasInv

\* DRAW_BEGIN, after the DRAW_END of the stroke that makes room for it.
LEMMA BeginCanvas ==
    ASSUME CanvasInv, NEW u \in Users, NEW s \in Strokes, StrokeBegin(u, s)
    PROVE  CanvasInv'
<1> DEFINE freed == FinishOldestOpen(book, u)
           scr == IF Finished(book, u) = {} THEN screen ELSE OnEnd(screen, Victim(book, u))
           m == [uses EXCEPT ![s] = uses[s] + 1]
<1>0. /\ Sound(book) /\ mayDraw \subseteq Users
      /\ screen \in Screens /\ uses \in [Strokes -> Nat]
      /\ Traced(book, screen, uses)
      /\ feed # "behind" => Agrees(book, screen, uses, feed = "live")
  BY DEF CanvasInv
<1>1. /\ Sound(freed) /\ scr \in Screens
      /\ Open(freed) \subseteq Open(book) /\ Committed(freed) \subseteq Open(book) \cup Committed(book)
      /\ \A t \in Strokes : Held(scr, t) => Held(screen, t)
      /\ Traced(freed, screen, uses) /\ Traced(freed, scr, uses)
      /\ \A live : Agrees(book, screen, uses, live) => Agrees(freed, scr, uses, live)
  BY <1>0, FinishAgrees
<1>2. /\ book.pending[s] = NotOpen /\ book.committed[s] = NoOne
      /\ uses' = m /\ mayDraw' = mayDraw /\ feed' = feed
      /\ screen' = IF feed = "behind" THEN screen ELSE OnBegin(scr, s)
  BY DEF StrokeBegin, BeginAllowed, Publish
<1>3. PICK tick \in Ticks :
        book' = RecordBegin([freed EXCEPT !.pending[s] =
                  [owner |-> u, started |-> Latest(book) + tick, cleared |-> FALSE]], s)
  BY DEF StrokeBegin
<1> DEFINE p == [owner |-> u, started |-> Latest(book) + tick, cleared |-> FALSE]
<1>4. p \in Pending /\ p.owner = u /\ p.cleared = FALSE
  <2>1. Latest(book) \in Nat
    BY <1>0, LatestIsNat DEF Sound
  <2>2. Latest(book) + tick \in Nat
    BY <2>1, DrawingAssumption
  <2> QED BY <2>2 DEF Pending
<1>5. book' = RecordBegin([freed EXCEPT !.pending[s] = p], s)
  BY <1>3
<1> HIDE DEF freed, scr, p
<1>6. s \notin Open(book) /\ s \notin Committed(book)
  BY <1>2 DEF NotOpen, Open, Committed
<1>7. s \notin Open(freed) /\ s \notin Committed(freed)
  BY <1>1, <1>6
<1>8. /\ Sound(book')
      /\ Open(book') = Open(freed) \cup {s} /\ Uncleared(book') = Uncleared(freed) \cup {s}
      /\ Committed(book') = Committed(freed)
      /\ book'.order = freed.order /\ book'.forgotten = freed.forgotten
      /\ \A t \in Strokes \ {s} : book'.content[t] = freed.content[t]
      /\ book'.content[s].points = 0
  <2> DEFINE c == RecordBegin([freed EXCEPT !.pending[s] = p], s)
  <2>1. p.owner \in Users
    BY <1>4
  <2>2. /\ Sound(c)
        /\ Open(c) = Open(freed) \cup {s} /\ Uncleared(c) = Uncleared(freed) \cup {s}
        /\ Committed(c) = Committed(freed)
        /\ c.order = freed.order /\ c.forgotten = freed.forgotten
        /\ \A t \in Strokes \ {s} : c.content[t] = freed.content[t]
        /\ c.content[s].points = 0
    BY <1>1, <1>4, <1>7, <2>1, BeginFields
  <2>3. book' = c
    BY <1>5
  <2> HIDE DEF c
  <2> QED BY <2>2, <2>3
<1>9. \A t \in Strokes : uses[t] \in Nat /\ m[t] = IF t = s THEN uses[t] + 1 ELSE uses[t]
  BY <1>0
<1>10. m \in [Strokes -> Nat]
  BY <1>0
<1>11. uses[s] = 0 => ~Held(screen, s) /\ ~Held(scr, s)
  BY <1>0, <1>1 DEF Traced
<1>12. /\ OnBegin(scr, s) \in Screens
       /\ Done(OnBegin(scr, s)) = Done(scr)
       /\ \A t \in Strokes \ {s} : Held(OnBegin(scr, s), t) <=> Held(scr, t)
  BY <1>1, OnBeginFields DEF Done, Held
<1> HIDE DEF m
<1>13. ASSUME NEW d, NEW e, Traced(freed, d, uses), uses[s] = 0 => ~Held(d, s),
              Done(e) = Done(d), \A t \in Strokes \ {s} : Held(e, t) <=> Held(d, t)
       PROVE  Traced(book', e, m)
  <2>1. ASSUME NEW t \in Strokes
        PROVE  /\ m[t] = 0 => t \notin Open(book') \cup Committed(book') /\ ~Held(e, t)
               /\ m[t] <= 1 /\ t \in Done(e) => t \notin Open(book')
    <3>1. CASE t = s
      <4>1. m[t] # 0 /\ (m[t] <= 1 => uses[s] = 0)
        BY <1>9, <3>1
      <4>2. uses[s] = 0 => t \notin Done(e)
        BY <1>13, <3>1 DEF Held, Done
      <4> QED BY <4>1, <4>2
    <3>2. CASE t # s
      <4>1. /\ m[t] = uses[t]
            /\ t \in Open(book') <=> t \in Open(freed)
            /\ t \in Committed(book') <=> t \in Committed(freed)
        BY <1>8, <1>9, <3>2
      <4> QED BY <1>13, <3>2, <4>1 DEF Traced
    <3> QED BY <3>1, <3>2
  <2> QED BY <2>1 DEF Traced
<1>14. CASE feed = "behind"
  <2>1. screen' = screen
    BY <1>2, <1>14
  <2>2. Traced(book', screen, m)
    BY <1>1, <1>11, <1>13
  <2> QED BY <1>0, <1>2, <1>8, <1>10, <1>14, <2>1, <2>2 DEF CanvasInv
<1>15. CASE feed # "behind"
  <2>1. screen' = OnBegin(scr, s)
    BY <1>2, <1>15
  <2>2. Traced(book', OnBegin(scr, s), m)
    BY <1>1, <1>11, <1>12, <1>13
  <2> DEFINE live == (feed = "live")
  <2>3. Agrees(freed, scr, uses, live)
    BY <1>0, <1>1, <1>15
  <2> HIDE DEF live
  <2>4. Agrees(book', OnBegin(scr, s), m, live)
    BY <1>0, <1>1, <1>7, <1>8, <1>11, <2>3, BeginAgrees DEF m
  <2>5. feed' # "behind" => Agrees(book', screen', uses', feed' = "live")
    BY <1>2, <2>1, <2>4 DEF live
  <2> QED BY <1>0, <1>2, <1>8, <1>10, <1>12, <2>1, <2>2, <2>5 DEF CanvasInv
<1> QED BY <1>14, <1>15

\* DRAW_POINT, of a stroke cleared or not.
LEMMA PointCanvas ==
    ASSUME CanvasInv, NEW u \in Users, NEW s \in Strokes, StrokePoint(u, s)
    PROVE  CanvasInv'
<1>0. /\ Sound(book) /\ mayDraw \subseteq Users
      /\ screen \in Screens /\ uses \in [Strokes -> Nat]
      /\ Traced(book, screen, uses)
      /\ feed # "behind" => Agrees(book, screen, uses, feed = "live")
  BY DEF CanvasInv
<1>1. /\ mayDraw' = mayDraw /\ uses' = uses /\ feed' = feed
      /\ s \in Open(book)
  BY DrawingAssumption DEF StrokePoint, Open
<1>2. CASE book.pending[s].cleared
  <2>1. book' = book /\ screen' = screen
    BY <1>2 DEF StrokePoint
  <2> QED BY <1>0, <1>1, <2>1 DEF CanvasInv
<1>3. CASE ~book.pending[s].cleared
  <2>1. /\ book' = RecordPoint(book, s)
        /\ screen' = IF feed = "behind" THEN screen ELSE OnPoint(screen, s)
    BY <1>3 DEF StrokePoint, Publish
  <2>2. s \in Uncleared(book)
    BY <1>1, <1>3 DEF Uncleared
  <2>3. Sound(book') /\ book'.pending = book.pending /\ book'.committed = book.committed
    BY <1>0, <2>1, <2>2, PointCounts
  <2>4. Open(book') = Open(book) /\ Committed(book') = Committed(book)
    BY <2>3 DEF Open, Committed
  <2>5. /\ OnPoint(screen, s) \in Screens /\ OnPoint(screen, s).completed = screen.completed
        /\ OnPoint(screen, s).active = screen.active
    BY <1>0, OnPointFields
  <2>6. screen' \in Screens /\ screen'.completed = screen.completed /\ screen'.active = screen.active
    BY <1>0, <2>1, <2>5
  <2>7. Traced(book', screen', uses)
    BY <1>0, <2>4, <2>6 DEF Traced, Held, Done
  <2>8. ASSUME feed # "behind" PROVE Agrees(book', screen', uses, feed = "live")
    BY <1>0, <2>1, <2>2, <2>8, PointAgrees
  <2> QED BY <1>0, <1>1, <2>3, <2>6, <2>7, <2>8 DEF CanvasInv
<1> QED BY <1>2, <1>3

\* DRAW_END by the owner.
LEMMA EndCanvas ==
    ASSUME CanvasInv, NEW u \in Users, NEW s \in Strokes, StrokeEnd(u, s)
    PROVE  CanvasInv'
<1>0. /\ Sound(book) /\ mayDraw \subseteq Users
      /\ screen \in Screens /\ uses \in [Strokes -> Nat]
      /\ Traced(book, screen, uses)
      /\ feed # "behind" => Agrees(book, screen, uses, feed = "live")
  BY DEF CanvasInv
<1>1. /\ mayDraw' = mayDraw /\ uses' = uses /\ feed' = feed
      /\ s \in Open(book) /\ book' = EndStroke(book, s)
      /\ screen' = IF book.pending[s].cleared \/ feed = "behind" THEN screen ELSE OnEnd(screen, s)
  BY DrawingAssumption DEF StrokeEnd, Open, Publish
<1>2. Sound(book') /\ \E purged \in SUBSET Committed(book) : Closes(book, book', s, purged)
  BY <1>0, <1>1, EndCloses
<1>3. PICK purged \in SUBSET Committed(book) : Closes(book, book', s, purged)
  BY <1>2
<1>4. s \in Uncleared(book) <=> ~book.pending[s].cleared
  BY <1>1 DEF Uncleared
<1>5. Traced(book', screen, uses) /\ Traced(book', OnEnd(screen, s), uses)
  BY <1>0, <1>1, <1>3, EndTraced
<1>6. OnEnd(screen, s) \in Screens
  BY <1>0, OnEndFields
<1>7. ASSUME feed # "behind" PROVE Agrees(book', screen', uses, feed = "live")
  <2>1. CASE s \in Uncleared(book)
    BY <1>0, <1>1, <1>3, <1>4, <1>7, <2>1, EndAgrees
  <2>2. CASE s \notin Uncleared(book)
    BY <1>0, <1>1, <1>3, <1>4, <1>7, <2>2, SilentEndAgrees
  <2> QED BY <2>1, <2>2
<1> QED BY <1>0, <1>1, <1>2, <1>5, <1>6, <1>7 DEF CanvasInv

\* DRAW_UNDO.
LEMMA UndoCanvas ==
    ASSUME CanvasInv, NEW u \in Users, NEW s \in Strokes, StrokeUndo(u, s)
    PROVE  CanvasInv'
<1>0. /\ Sound(book) /\ mayDraw \subseteq Users
      /\ screen \in Screens /\ uses \in [Strokes -> Nat]
      /\ Traced(book, screen, uses)
      /\ feed # "behind" => Agrees(book, screen, uses, feed = "live")
  BY DEF CanvasInv
<1> DEFINE d == OnUndo(screen, s)
<1>1. /\ mayDraw' = mayDraw /\ uses' = uses /\ feed' = feed
      /\ s \in Committed(book) /\ book' = RemoveCommitted(book, s)
      /\ screen' = IF feed = "behind" THEN screen ELSE d
  BY DEF StrokeUndo, Committed, Publish
<1>2. /\ Sound(book') /\ book'.pending = book.pending /\ Committed(book') = Committed(book) \ {s}
  BY <1>0, <1>1, RemoveFields
<1>3. Open(book') = Open(book)
  BY <1>2 DEF Open
<1>4. d \in Screens /\ d.active = screen.active \ {s} /\ Done(d) = Done(screen) \ {s}
  BY <1>0, OnUndoFields
<1>5. ASSUME feed # "behind" PROVE Agrees(book', d, uses, feed = "live")
  BY <1>0, <1>1, <1>5, UndoAgrees
<1> HIDE DEF d
<1>6. \A t \in Strokes : (Held(d, t) => Held(screen, t)) /\ (t \in Done(d) => t \in Done(screen))
  BY <1>4 DEF Held, Done
<1>7. Traced(book', screen, uses) /\ Traced(book', d, uses)
  BY <1>0, <1>2, <1>3, <1>6 DEF Traced
<1> QED BY <1>0, <1>1, <1>2, <1>4, <1>5, <1>7 DEF CanvasInv

\* DRAW_CLEAR.
LEMMA ClearCanvas ==
    ASSUME CanvasInv, NEW u \in Users, StrokeClear(u)
    PROVE  CanvasInv'
<1>0. /\ Sound(book) /\ mayDraw \subseteq Users
      /\ screen \in Screens /\ uses \in [Strokes -> Nat]
      /\ Traced(book, screen, uses)
  BY DEF CanvasInv
<1>1. /\ mayDraw' = mayDraw /\ uses' = uses /\ feed' = feed
      /\ book' = ClearAll(book)
      /\ screen' = IF feed = "behind" THEN screen ELSE EmptyScreen
  BY DEF StrokeClear, Publish
<1>2. /\ Sound(book') /\ Open(book') = Open(book) /\ Uncleared(book') = {} /\ Committed(book') = {}
      /\ \A t \in Strokes : book'.content[t].kept = "none"
  BY <1>0, <1>1, ClearFields
<1>3. EmptyScreen \in Screens /\ EmptyScreen.active = {} /\ Done(EmptyScreen) = {}
  BY DEF EmptyScreen, Screens, Done, Range
<1>4. \A s : ~Held(EmptyScreen, s)
  BY <1>3 DEF Held, Done
<1>5. Traced(book', screen, uses) /\ Traced(book', EmptyScreen, uses)
  BY <1>0, <1>2, <1>3, <1>4 DEF Traced
<1>6. \A live : Agrees(book', EmptyScreen, uses, live)
  BY <1>2, <1>3 DEF Agrees, Promised
<1> QED BY <1>0, <1>1, <1>2, <1>3, <1>5, <1>6 DEF CanvasInv

\* Every step of Next, one lemma for each that changes the book.
LEMMA CanvasStep == CanvasInv /\ [Next]_vars => CanvasInv'
<1> SUFFICES ASSUME CanvasInv, [Next]_vars PROVE CanvasInv'
  OBVIOUS
<1>0. /\ Sound(book) /\ mayDraw \subseteq Users
      /\ screen \in Screens /\ uses \in [Strokes -> Nat]
      /\ Traced(book, screen, uses)
      /\ feed # "behind" => Agrees(book, screen, uses, feed = "live")
  BY DEF CanvasInv
<1>1. ASSUME NEW u \in Users, Grant(u) \/ Revoke(u) \/ Refused(u) PROVE CanvasInv'
  <2>1. /\ book' = book /\ screen' = screen /\ uses' = uses /\ feed' = feed
        /\ mayDraw' \subseteq Users
    BY <1>0, <1>1 DEF Grant, Revoke, Refused
  <2> QED BY <1>0, <2>1 DEF CanvasInv
<1>2. CASE Lag
  <2>1. /\ book' = book /\ screen' = screen /\ uses' = uses /\ mayDraw' = mayDraw /\ feed' = "behind"
    BY <1>2 DEF Lag
  <2> QED BY <1>0, <2>1 DEF CanvasInv
<1>3. CASE DrawSync
  <2>1. /\ book' = book /\ uses' = uses /\ mayDraw' = mayDraw /\ feed' = "synced"
        /\ screen' = ApplySnapshot(screen, book)
    BY <1>3 DEF DrawSync
  <2>2. screen' \in Screens /\ Traced(book, screen', uses) /\ Agrees(book, screen', uses, FALSE)
    BY <1>0, <2>1, SyncAgrees
  <2>3. (feed' = "live") = FALSE
    BY <2>1
  <2>4. Agrees(book', screen', uses', feed' = "live")
    BY <2>1, <2>2, <2>3
  <2> QED BY <1>0, <2>1, <2>2, <2>4 DEF CanvasInv
<1>4. CASE UNCHANGED vars
  <2>1. /\ book' = book /\ screen' = screen /\ uses' = uses /\ mayDraw' = mayDraw /\ feed' = feed
    BY <1>4 DEF vars
  <2> QED BY <1>0, <2>1 DEF CanvasInv
<1> QED BY <1>1, <1>2, <1>3, <1>4, BeginCanvas, PointCanvas, EndCanvas, UndoCanvas, ClearCanvas
        DEF Next, UserStep

\* The invariant is as strong as the properties.
LEMMA CanvasImplies == CanvasInv => ContentMatches /\ CanvasAgrees
<1> SUFFICES ASSUME CanvasInv PROVE ContentMatches /\ CanvasAgrees
  OBVIOUS
<1>1. Counted(book) /\ Listed(book) /\ Described(book)
  BY DEF CanvasInv, Sound
<1>2. ContentMatches
  <2>1. /\ {s \in Strokes : book.content[s].kept # "none"} = Uncleared(book) \cup Committed(book)
        /\ {s \in Strokes : book.content[s].ended} = Committed(book)
    <3>1. Uncleared(book) \subseteq Strokes /\ Committed(book) \subseteq Strokes
      BY DEF Uncleared, Open, Committed
    <3> QED BY <1>1, <3>1 DEF Described
  <2>2. Len(book.order) = Cardinality(Committed(book))
    BY <1>1, OnceCounts DEF Listed
  <2> QED BY <1>1, <2>1, <2>2 DEF ContentMatches, Counted, Listed
<1>3. CanvasAgrees
  <2> SUFFICES ASSUME feed # "behind" PROVE CanvasAgrees
    BY DEF CanvasAgrees
  <2>1. Agrees(book, screen, uses, feed = "live") /\ FreshStrokes = Promised(book, uses)
    BY DEF CanvasInv, FreshStrokes, Promised
  <2>2. \A s \in FreshStrokes :
         /\ s \in Strokes
         /\ s \in screen.active => s \in Uncleared(book)
         /\ s \in Done(screen) => s \in Committed(book)
         /\ book.content[s].kept = "kept"
              => Held(screen, s) /\ screen.points[s] = book.content[s].points
         /\ feed = "live" /\ s \in Uncleared(book) \cup Committed(book) => Held(screen, s)
    BY <2>1 DEF Agrees, Promised
  <2>3. \A s, t \in FreshStrokes \cap Committed(book) \cap Done(screen) :
         Before(screen.completed, s, t) <=> Before(book.order, s, t)
    BY <2>1 DEF Agrees
  <2> QED BY <2>2, <2>3 DEF CanvasAgrees, Done, Held
<1> QED BY <1>2, <1>3

\* The books balance, for any caps and budgets and any reuse of ids:
\* retained_points is what content holds, content describes the strokes on the
\* canvas and those only, and commit order lists each committed stroke once
\* (state.rs commit, record_point, forget_content, clear_all).
THEOREM BooksBalance == Spec => []ContentMatches
<1>1. CanvasInv => ContentMatches
  BY CanvasImplies
<1> QED
  BY <1>1, CanvasInvInit, CanvasStep, PTL DEF Spec

\* What a watcher who is not behind sees is the room's canvas, in the order
\* strokes were committed, whether the events came one by one or a DRAW_SYNC
\* made up for some (drawing.rs, useDrawingStore.ts applySnapshot).
THEOREM ScreenFollows == Spec => []CanvasAgrees
<1>1. CanvasInv => CanvasAgrees
  BY CanvasImplies
<1> QED
  BY <1>1, CanvasInvInit, CanvasStep, PTL DEF Spec

-----------------------------------------------------------------------------
(* The token buckets of the limiter (module Admission).                    *)

\* The types the induction needs: of the clock and of the buckets.
BucketTypes ==
    /\ clock \in Int
    /\ bucket \in [Buckets -> [milli : Int, last : Int]]
    /\ mark \in [Buckets -> [at : Int, taken : Int]]

BucketInv == BucketTypes /\ BucketExact

\* One bucket and its history are in order.
Exact(k, b, m) ==
    /\ b \in [milli : Int, last : Int] /\ m \in [at : Int, taken : Int]
    /\ b.milli \in 0..Full(k)
    /\ b.milli = Full(k) + Rate[k] * (b.last - m.at) - 1000 * m.taken

LEMMA Products == ASSUME NEW r \in Int, NEW x \in Int, NEW y \in Int, NEW z \in Int
                  PROVE  r * (x - y) + (z - x) * r = r * (z - y)
<1>1. r * (x - y) = r * x - r * y  BY SMT
<1>2. (z - x) * r = r * z - r * x  BY SMT
<1>3. r * (z - y) = r * z - r * y  BY SMT
<1>4. r * x \in Int /\ r * y \in Int /\ r * z \in Int  BY SMT
<1> QED  BY <1>1, <1>2, <1>3, <1>4, SMT

\* A bucket and its history after the clock was read and before anything is
\* taken.
Remarked(b, k, m, now) ==
    LET r == Refilled(b, k, now) IN IF r.milli = Full(k) THEN [at |-> r.last, taken |-> 0] ELSE m

LEMMA Sizing == ASSUME NEW k \in Buckets
                PROVE  Rate[k] \in Nat /\ Burst[k] \in Nat /\ Full(k) \in Nat
BY AdmissionAssumption DEF AdmissionAssumption, Full

LEMMA FreshExact == ASSUME NEW now \in Int, NEW k \in Buckets
                    PROVE  Exact(k, Fresh(now)[k], FreshMark(now)[k])
<1> DEFINE b == [milli |-> Full(k), last |-> now]
           m == [at |-> now, taken |-> 0]
<1>1. Fresh(now)[k] = b /\ FreshMark(now)[k] = m  BY DEF Fresh, FreshMark
<1>2. b.last - m.at = 0 /\ b.milli = Full(k) /\ m.taken = 0
    BY SMT
<1>3. Rate[k] * 0 = 0  BY Sizing, SMT
<1>4. b.milli = Full(k) + Rate[k] * (b.last - m.at) - 1000 * m.taken
    BY <1>2, <1>3, Sizing, SMT
<1>5. b \in [milli : Int, last : Int] /\ m \in [at : Int, taken : Int] /\ b.milli \in 0..Full(k)
    BY Sizing, SMT
<1> QED  BY <1>1, <1>4, <1>5 DEF Exact

LEMMA RefilledExact ==
    ASSUME NEW now \in Int, NEW k \in Buckets, NEW b, NEW m, Exact(k, b, m)
    PROVE  Exact(k, Refilled(b, k, now), Remarked(b, k, m, now))
<1> DEFINE r == Refilled(b, k, now)
           more == Larger(0, now - b.last)
           seen == Larger(b.last, now)
           milli == b.milli + more * Rate[k]
<1>0. Rate[k] \in Int /\ Full(k) \in Int /\ Full(k) >= 0 /\ b.milli \in Int /\ b.last \in Int
      /\ m.at \in Int /\ m.taken \in Int /\ b.milli >= 0
    BY Sizing, SMT DEF Exact
<1>1. more \in Int /\ more >= 0 /\ seen \in Int /\ more = seen - b.last
    BY <1>0, SMT DEF Larger
<1>2. more * Rate[k] \in Int /\ more * Rate[k] >= 0
    BY <1>1, Sizing, SMT
<1>3. r = [milli |-> Smaller(Full(k), milli), last |-> seen]
    BY DEF Refilled
<1>4. r \in [milli : Int, last : Int] /\ r.milli \in 0..Full(k) /\ r.last = seen
    BY <1>0, <1>1, <1>2, <1>3, SMT DEF Smaller
<1>5. CASE r.milli = Full(k)
  <2>1. Remarked(b, k, m, now) = [at |-> r.last, taken |-> 0]
      BY <1>5 DEF Remarked
  <2>2. Rate[k] * (r.last - r.last) = 0
      BY <1>0, <1>1, <1>4, SMT
  <2>3. r.milli = Full(k) + Rate[k] * (r.last - r.last) - 1000 * 0
      BY <2>2, <1>5, <1>0, SMT
  <2> QED  BY <2>1, <2>3, <1>1, <1>4 DEF Exact
<1>6. CASE r.milli # Full(k)
  <2>1. Remarked(b, k, m, now) = m
      BY <1>6 DEF Remarked
  <2>2. r.milli = milli
      BY <1>3, <1>6, <1>0, <1>2, SMT DEF Smaller
  <2>3. Rate[k] * (b.last - m.at) + more * Rate[k] = Rate[k] * (seen - m.at)
      BY <1>0, <1>1, Products
  <2>4. Rate[k] * (b.last - m.at) \in Int /\ Rate[k] * (seen - m.at) \in Int
      BY <1>0, <1>1, SMT
  <2>5. b.milli = Full(k) + Rate[k] * (b.last - m.at) - 1000 * m.taken
      BY DEF Exact
  <2>6. r.milli = Full(k) + Rate[k] * (r.last - m.at) - 1000 * m.taken
      BY <2>2, <2>3, <2>4, <2>5, <1>0, <1>2, <1>4, SMT
  <2> QED  BY <2>1, <2>6, <1>4 DEF Exact
<1> QED  BY <1>5, <1>6

\* try_consume_n_at, with the history of what it grants.
LEMMA ConsumedExact ==
    ASSUME NEW k \in Buckets, NEW n \in Nat, clock \in Int, Exact(k, bucket[k], mark[k])
    PROVE  Exact(k, Consumed(k, n), Marked(k, n))
<1> DEFINE r == Refilled(bucket[k], k, clock)
           m == Remarked(bucket[k], k, mark[k], clock)
<1>1. Exact(k, r, m)  BY RefilledExact
<1>2. CASE ~Granted(k, n)
    BY <1>1, <1>2 DEF Consumed, Marked, Remarked
<1>3. CASE Granted(k, n)
  <2>1. Consumed(k, n) = [r EXCEPT !.milli = @ - 1000 * n] /\ Marked(k, n) = [m EXCEPT !.taken = @ + n]
      BY <1>3 DEF Consumed, Marked, Remarked
  <2>2. r.milli >= 1000 * n
      BY <1>3 DEF Granted
  <2>3. r \in [milli : Int, last : Int] /\ m \in [at : Int, taken : Int] /\ r.milli \in 0..Full(k)
        /\ r.milli = Full(k) + Rate[k] * (r.last - m.at) - 1000 * m.taken
      BY <1>1 DEF Exact
  <2> DEFINE c == Consumed(k, n)
             d == Marked(k, n)
  <2>4. c.milli = r.milli - 1000 * n /\ c.last = r.last /\ d.at = m.at /\ d.taken = m.taken + n
        /\ c \in [milli : Int, last : Int] /\ d \in [at : Int, taken : Int]
      BY <2>1, <2>3
  <2>5. Rate[k] * (r.last - m.at) \in Int /\ Full(k) \in Int
      BY <2>3, Sizing, SMT
  <2>6. c.milli \in 0..Full(k)
      BY <2>2, <2>3, <2>4, <2>5, SMT
  <2>7. c.milli = Full(k) + Rate[k] * (c.last - d.at) - 1000 * d.taken
      BY <2>3, <2>4, <2>5, SMT
  <2> QED  BY <2>4, <2>6, <2>7 DEF Exact
<1> QED  BY <1>2, <1>3

LEMMA Debits ==
    ASSUME BucketInv, NEW ns, DOMAIN ns \subseteq Buckets, \A k \in DOMAIN ns : ns[k] \in Nat,
           Debit(ns), UNCHANGED clock
    PROVE  BucketInv'
<1>1. \A k \in Buckets : Exact(k, bucket[k], mark[k])
    BY DEF BucketInv, BucketTypes, BucketExact, Exact
<1>2. ASSUME NEW k \in Buckets PROVE Exact(k, bucket'[k], mark'[k])
  <2>1. CASE k \in DOMAIN ns
    <3>1. bucket'[k] = Consumed(k, ns[k]) /\ mark'[k] = Marked(k, ns[k])
        BY <2>1 DEF Debit
    <3> QED  BY <3>1, <2>1, <1>1, ConsumedExact DEF BucketInv, BucketTypes
  <2>2. CASE k \notin DOMAIN ns
    <3>1. bucket'[k] = bucket[k] /\ mark'[k] = mark[k]
        BY <2>2 DEF Debit
    <3> QED  BY <3>1, <1>1
  <2> QED  BY <2>1, <2>2
<1>3. DOMAIN bucket' = Buckets /\ DOMAIN mark' = Buckets
      /\ bucket' = [k \in Buckets |-> bucket'[k]] /\ mark' = [k \in Buckets |-> mark'[k]]
    BY DEF Debit
<1>4. BucketTypes'
    BY <1>2, <1>3 DEF BucketInv, BucketTypes, Exact
<1>5. BucketExact'
    BY <1>2 DEF BucketExact, Exact, Full
<1> QED  BY <1>4, <1>5 DEF BucketInv

LEMMA Resets == ASSUME clock \in Int, bucket' = Fresh(clock), mark' = FreshMark(clock), UNCHANGED clock
                PROVE  BucketInv'
<1>1. \A k \in Buckets : Exact(k, bucket'[k], mark'[k])
    BY FreshExact
<1>2. BucketTypes'
    BY <1>1, Sizing DEF BucketTypes, Fresh, FreshMark
<1> QED  BY <1>1, <1>2 DEF BucketInv, BucketExact, Exact, Full

\* Every step of the read loop keeps the buckets exact.
LEMMA AdmissionStep == BucketInv /\ [AdmissionNext]_admissionVars => BucketInv'
<1> SUFFICES ASSUME BucketInv, [AdmissionNext]_admissionVars PROVE BucketInv'
  OBVIOUS
<1> USE DEF BucketInv
<1>0. clock \in Int /\ \A n \in Sizes : n \in Nat
    BY AdmissionAssumption DEF BucketTypes, AdmissionAssumption
<1>k. ASSUME bucket' = bucket, mark' = mark, clock' \in Int PROVE BucketInv'
    BY <1>k DEF BucketTypes, BucketExact
<1>1. ASSUME NEW d \in ClockSteps, ClockMoves(d) PROVE BucketInv'
    BY <1>0, <1>1, <1>k, AdmissionAssumption DEF ClockMoves, AdmissionAssumption
<1>2. CASE Dropped
    BY <1>0, <1>2, <1>k DEF Dropped
<1>3. CASE OverMessages
    BY <1>0, <1>3, Debits DEF OverMessages, Buckets
<1>4. CASE NotCounted
    BY <1>0, <1>4, Debits DEF NotCounted, Buckets
<1>5. CASE BadFrame
  <2>1. CASE Debit([k \in {"msg"} |-> 1])
      BY <2>1, <1>5, Debits DEF BadFrame, Buckets
  <2>2. CASE \E n \in Sizes : Debit([k \in {"msg", "bytes"} |-> IF k = "msg" THEN 1 ELSE n])
      BY <2>2, <1>0, <1>5, Debits DEF BadFrame, Buckets
  <2> QED  BY <2>1, <2>2, <1>5 DEF BadFrame
<1>6. ASSUME NEW n \in Sizes, OverBytes(n) PROVE BucketInv'
    BY <1>0, <1>6, Debits DEF OverBytes, Buckets
<1>7. ASSUME NEW n \in Sizes, LaserFrame(n) PROVE BucketInv'
    BY <1>0, <1>7, Debits DEF LaserFrame, Buckets
<1>8. ASSUME NEW n \in Sizes, Dispatched(n) PROVE BucketInv'
  <2>1. CASE Debit([k \in {"msg", "bytes"} |-> IF k = "msg" THEN 1 ELSE n])
      BY <2>1, <1>0, <1>8, Debits DEF Dispatched, Buckets
  <2>2. CASE bucket' = Fresh(clock) /\ mark' = FreshMark(clock)
      BY <2>2, <1>0, <1>8, Resets DEF Dispatched
  <2> QED  BY <2>1, <2>2, <1>8 DEF Dispatched
<1>9. CASE UNCHANGED admissionVars
    BY <1>0, <1>9, <1>k DEF admissionVars
<1> QED  BY <1>1, <1>2, <1>3, <1>4, <1>5, <1>6, <1>7, <1>8, <1>9 DEF AdmissionNext

\* The server's rate limiter: a bucket holds its burst, and its rate times the
\* time counted since it was last full, less what was taken, and nothing is
\* lost or gained, whatever the traffic and the clock do.
THEOREM RateExact == AdmissionSpec => []BucketExact
<1>1. AdmissionInit => BucketInv
  <2> SUFFICES ASSUME AdmissionInit PROVE BucketInv
    OBVIOUS
  <2>1. \A k \in Buckets : Exact(k, bucket[k], mark[k])
      BY FreshExact DEF AdmissionInit
  <2>2. BucketTypes
      BY <2>1, Sizing DEF AdmissionInit, BucketTypes, Fresh, FreshMark
  <2> QED  BY <2>1, <2>2 DEF BucketInv, BucketExact, Exact
<1>2. BucketInv => BucketExact
    BY DEF BucketInv
<1> QED  BY <1>1, <1>2, AdmissionStep, PTL DEF AdmissionSpec

-----------------------------------------------------------------------------
(* PlaybackSend: what a sequence keeps.                                     *)

\* Retain lists what stands at the places it keeps, in the order it stood.
LEMMA RetainLists ==
    ASSUME NEW A, NEW q \in Seq(A), NEW places, places \subseteq DOMAIN q
    PROVE  /\ Retain(q, places) \in Seq(A)
           /\ places # {} <=> Retain(q, places) # <<>>
           /\ \E f \in [DOMAIN Retain(q, places) -> places] :
                /\ \A k \in DOMAIN f : Retain(q, places)[k] = q[f[k]]
                /\ \A k, m \in DOMAIN f : k < m => f[k] < f[m]
           /\ Len(q) \in places => Last(Retain(q, places)) = q[Len(q)]
<1> DEFINE R == {p \in places \X places : p[1] <= p[2]}
           n == Cardinality(places)
           next == InOrder(places, R)
           o == Retain(q, places)
           l == Len(q)
<1>0. l \in Nat /\ DOMAIN q = 1 .. l /\ \A i \in 1 .. l : q[i] \in A
  OBVIOUS
<1>1. IsFiniteSet(places)
  <2>1. IsFiniteSet(1 .. l)
    <3> HIDE DEF l
    <3> QED BY <1>0, CountTo
  <2> QED BY <1>0, <2>1, FS_Subset
<1>2. \A i \in places : i \in 1 .. l /\ i \in Nat
  BY <1>0
<1>3. \A i, j \in places : <<i, j>> \in R <=> i <= j
  OBVIOUS
<1>4. o = [k \in 1 .. n |-> q[next[k]]]
  BY Zenon DEF Retain
<1> HIDE DEF R, l
<1>5. TotalOrder(places, R)
  BY <1>2, <1>3 DEF TotalOrder
<1>6. /\ n \in Nat /\ next \in [1 .. n -> places]
      /\ \A i \in places : \E k \in 1 .. n : next[k] = i
      /\ \A k, m \in 1 .. n : k < m <=> next[k] # next[m] /\ <<next[k], next[m]>> \in R
  BY <1>1, <1>5, InOrderLists
<1> HIDE DEF n, next, o
<1>7. o \in Seq(A) /\ Len(o) = n /\ DOMAIN o = 1 .. n
  <2>1. \A k \in 1 .. n : q[next[k]] \in A
    BY <1>0, <1>2, <1>6
  <2>2. o \in [1 .. n -> A]
    BY <1>4, <2>1
  <2> QED BY <1>6, <2>2
<1>8. places # {} <=> o # <<>>
  <2>1. places # {} <=> n # 0
    BY <1>1, FS_EmptySet DEF n
  <2> QED BY <1>6, <1>7, <2>1
<1>9. ASSUME l \in places PROVE Last(o) = q[l]
  <2>1. PICK k \in 1 .. n : next[k] = l
    BY <1>6, <1>9
  <2>2. n \in 1 .. n
    BY <1>6, <2>1
  <2>3. ASSUME k # n PROVE FALSE
    <3>1. k < n
      BY <1>6, <2>1, <2>2, <2>3
    <3>2. next[k] # next[n] /\ <<next[k], next[n]>> \in R
      BY <1>6, <2>1, <2>2, <3>1
    <3>3. next[n] \in places /\ next[k] \in places
      BY <1>6, <2>1, <2>2
    <3>4. next[n] \in 1 .. l /\ l <= next[n] /\ next[n] # l
      BY <1>2, <1>3, <2>1, <3>2, <3>3
    <3> QED BY <1>0, <3>4
  <2>4. o[n] = q[l]
    BY <1>4, <2>1, <2>2, <2>3
  <2> QED BY <1>7, <2>4 DEF Last
<1>10. /\ next \in [DOMAIN o -> places] /\ DOMAIN next = 1 .. n
       /\ \A k \in DOMAIN next : o[k] = q[next[k]]
       /\ \A k, m \in DOMAIN next : k < m => next[k] < next[m]
  <2>1. next \in [DOMAIN o -> places] /\ DOMAIN next = 1 .. n
    BY <1>6, <1>7
  <2>2. \A k \in 1 .. n : o[k] = q[next[k]]
    BY <1>4
  <2>3. ASSUME NEW k \in 1 .. n, NEW m \in 1 .. n, k < m PROVE next[k] < next[m]
    <3>1. next[k] # next[m] /\ <<next[k], next[m]>> \in R
      BY <1>6, <2>3
    <3>2. next[k] \in places /\ next[m] \in places
      BY <1>6
    <3>3. next[k] <= next[m] /\ next[k] \in Nat /\ next[m] \in Nat
      BY <1>2, <1>3, <3>1, <3>2
    <3> QED BY <3>1, <3>3
  <2> QED BY <2>1, <2>2, <2>3
<1>11. \E f \in [DOMAIN o -> places] :
         /\ \A k \in DOMAIN f : o[k] = q[f[k]]
         /\ \A k, m \in DOMAIN f : k < m => f[k] < f[m]
  BY <1>10
<1> QED BY <1>7, <1>8, <1>9, <1>11 DEF o, l

-----------------------------------------------------------------------------
(* PlaybackSend: the inductive invariant.                                   *)

SeqState == [next : Nat, sent : Seq(Sent), replayedFor : Nat, known : Nat]

RoomState == [started : BOOLEAN, acked : Nat, seat : BOOLEAN, may : BOOLEAN]

ClientTypes ==
    /\ cl \in SeqState /\ held \in BOOLEAN
    /\ presses \in Nat /\ pend \in Seq(Sent) /\ todo \in Seq(Sent)
    /\ waiters \in Nat /\ due \in BOOLEAN

NetTypes ==
    /\ link \in BOOLEAN /\ drops \in Nat
    /\ up \in Seq(Frame) /\ old \in Seq(Frame) /\ down \in Seq(Answer)

PlaybackTypes ==
    /\ room \in RoomState /\ ClientTypes /\ NetTypes
    /\ guest \in BOOLEAN /\ forgot \in BOOLEAN /\ astray \in BOOLEAN /\ last \in Nat

\* What the server said it expects it has not purged back on.
Expected(k) == k <= room.acked + 1
TellsTruth ==
    ~forgot => Expected(cl.known) /\ \A i \in DOMAIN down : Expected(down[i].expected)

\* If g is read after f and both are accepted, g is no older than f.
Apart(f, g) == f.seq < g.seq => f.press <= g.press

Ahead(f, t) == \A j \in DOMAIN t : Apart(f, t[j])
Apart2(s, t) == \A i \in DOMAIN s : Ahead(s[i], t)
Apart1(s) == \A i, j \in DOMAIN s : i < j => Apart(s[i], s[j])

\* What the server accepted last, as a frame.
Newest == [seq |-> room.acked, press |-> last]

\* The commands remembered ascend, in number and in press, up to the next.
Ascends(c) ==
    /\ \A i, j \in DOMAIN c.sent : i < j =>
          c.sent[i].seq < c.sent[j].seq /\ c.sent[i].press < c.sent[j].press
    /\ \A i \in DOMAIN c.sent : c.sent[i].seq < c.next

\* Nothing among these was pressed later than the n-th.
PressedBy(s, n) == \A i \in DOMAIN s : s[i].press <= n

\* The commands that wait were pressed in the order they wait.
Waits(p) == \A i, j \in DOMAIN p : i < j => p[i].press < p[j].press

\* A command sent again is numbered below the next one, except where its own
\* number was given back: then no remembered command waits any more.
AgainBelow(t, c, p) ==
    \A i \in DOMAIN t :
        /\ t[i].seq <= c.next
        /\ t[i].seq = c.next =>
              \A j \in DOMAIN c.sent, k \in DOMAIN p : c.sent[j].press # p[k].press

\* No answer under way says the sender has no seat.
Seated(d) == \A i \in DOMAIN d : d[i].code # "NotJoined"

\* The server knows the session and the client never took back a wrong number.
InStep == ~forgot /\ ~astray /\ room.seat

SessionInv ==
    /\ Ascends(cl) /\ Waits(pend) /\ AgainBelow(todo, cl, pend) /\ Seated(down)
    /\ \A s \in {cl.sent, pend, todo, up, old} : PressedBy(s, presses)
    /\ last <= presses

ChainInv ==
    /\ \A t \in {up, pend, todo, cl.sent} : Ahead(Newest, t) /\ Apart2(old, t)
    /\ \A t \in {pend, todo, cl.sent} : Apart2(up, t)
    /\ \A t \in {todo, cl.sent} : Apart2(pend, t)
    /\ Apart2(todo, cl.sent)
    /\ Apart1(up) /\ Apart1(pend) /\ Apart1(todo)

OrderInv == PlaybackTypes /\ TellsTruth /\ (InStep => SessionInv /\ ChainInv)

-----------------------------------------------------------------------------
(* PlaybackSeq.                                                             *)

Stamped(s) == \A i \in DOMAIN s : s[i].seq \in Nat /\ s[i].press \in Nat

\* Each entry of a is one of s with a number as low or lower.
Renumbers(a, s) ==
    \A j \in DOMAIN a : \E i \in DOMAIN s : a[j].press = s[i].press /\ a[j].seq <= s[i].seq

\* A command numbered.
LEMMA NumberFacts ==
    ASSUME SendAssumption, NEW c \in SeqState, NEW act \in PlaybackAction, NEW p \in Nat
    PROVE  LET d == Number(c, act, p)
               e == [seq |-> c.next, act |-> act, press |-> p]
           IN  /\ d \in SeqState /\ e \in Sent
               /\ d.next = c.next + 1 /\ d.known = c.known /\ d.replayedFor = 0
               /\ d.sent # <<>> /\ Last(d.sent) = e
               /\ \E k \in {0, 1} :
                    /\ Len(d.sent) = Len(c.sent) + 1 - k
                    /\ \A i \in DOMAIN d.sent :
                         d.sent[i] = IF i + k <= Len(c.sent) THEN c.sent[i + k] ELSE e
<1> DEFINE d == Number(c, act, p)
           e == [seq |-> c.next, act |-> act, press |-> p]
           s == Append(c.sent, e)
           k == IF Len(s) > Window THEN 1 ELSE 0
           t == SubSeq(s, 1 + k, Len(s))
           n == Len(c.sent)
<1>1. c.sent \in Seq(Sent) /\ c.next \in Nat /\ c.replayedFor \in Nat /\ c.known \in Nat
  BY DEF SeqState
<1>2. e \in Sent
  BY <1>1 DEF Sent
<1>3. /\ n \in Nat /\ s \in Seq(Sent) /\ Len(s) = n + 1 /\ s[n + 1] = e
      /\ \A i \in 1 .. n : s[i] = c.sent[i]
  <2> HIDE DEF e
  <2> QED BY <1>1, <1>2, AppendProperties, LenProperties
<1>4. k \in {0, 1} /\ k <= n
  BY <1>3 DEF SendAssumption
<1>5. d = [c EXCEPT !.next = @ + 1, !.sent = t, !.replayedFor = 0]
  BY Zenon DEF Number
<1> HIDE DEF k, e, s
<1>6. t \in Seq(Sent) /\ Len(t) = n + 1 - k /\ \A i \in 1 .. n + 1 - k : t[i] = s[i + k]
  <2>1. 1 + k \in 1 .. Len(s) + 1
    BY <1>3, <1>4
  <2>2. /\ t \in Seq(Sent) /\ Len(t) = IF 1 + k <= Len(s) THEN Len(s) - (1 + k) + 1 ELSE 0
        /\ \A i \in 1 .. Len(s) - (1 + k) + 1 : t[i] = s[(1 + k) + i - 1]
    BY <1>3, <1>4
  <2>3. Len(t) = n + 1 - k
    BY <1>3, <1>4, <2>2
  <2>4. ASSUME NEW i \in 1 .. n + 1 - k PROVE t[i] = s[i + k]
    <3>1. i \in 1 .. Len(s) - (1 + k) + 1 /\ (1 + k) + i - 1 = i + k
      BY <1>3, <1>4
    <3>2. t[i] = s[(1 + k) + i - 1]
      BY <2>2, <3>1
    <3> QED BY <3>1, <3>2
  <2> QED BY <2>2, <2>3, <2>4
<1> HIDE DEF t, d
<1>7. d \in SeqState /\ d.next = c.next + 1 /\ d.known = c.known /\ d.replayedFor = 0 /\ d.sent = t
  <2>1. d = [next |-> c.next + 1, sent |-> t, replayedFor |-> 0, known |-> c.known]
    BY <1>5 DEF SeqState
  <2> QED BY <1>1, <1>6, <2>1 DEF SeqState
<1>8. DOMAIN t = 1 .. n + 1 - k /\ n + 1 - k \in Nat /\ n + 1 - k >= 1
  BY <1>3, <1>4, <1>6
<1>9. t # <<>> /\ Last(t) = e
  <2>1. t[n + 1 - k] = s[n + 1]
    <3> DEFINE i == n + 1 - k
    <3>1. i \in 1 .. n + 1 - k /\ i + k = n + 1
      BY <1>3, <1>4, <1>8
    <3> HIDE DEF i
    <3>2. t[i] = s[i + k]
      BY <1>6, <3>1
    <3>3. t[i] = s[n + 1]
      BY <3>1, <3>2
    <3> QED BY <3>3 DEF i
  <2> QED BY <1>3, <1>6, <1>8, <2>1 DEF Last
<1>10. ASSUME NEW i \in DOMAIN t
       PROVE  t[i] = IF i + k <= n THEN c.sent[i + k] ELSE e
  <2>0. i \in 1 .. n + 1 - k
    BY <1>8, <1>10
  <2>1. t[i] = s[i + k] /\ i + k \in 1 .. n + 1
    <3>1. i + k \in 1 .. n + 1
      BY <1>3, <1>4, <2>0
    <3> QED BY <1>6, <2>0, <3>1
  <2>2. CASE i + k <= n
    BY <1>3, <1>4, <2>1, <2>2
  <2>3. CASE ~(i + k <= n)
    <3>1. i + k = n + 1
      BY <1>3, <1>4, <2>1, <2>3
    <3> QED BY <1>3, <2>1, <2>3, <3>1
  <2> QED BY <2>2, <2>3
<1>11. \E j \in {0, 1} :
         /\ Len(d.sent) = Len(c.sent) + 1 - j
         /\ \A i \in DOMAIN d.sent :
              d.sent[i] = IF i + j <= Len(c.sent) THEN c.sent[i + j] ELSE e
  <2>1. Len(d.sent) = Len(c.sent) + 1 - k
    BY <1>6, <1>7
  <2>2. \A i \in DOMAIN d.sent : d.sent[i] = IF i + k <= Len(c.sent) THEN c.sent[i + k] ELSE e
    BY <1>7, <1>10
  <2> HIDE DEF n
  <2> QED BY <1>4, <2>1, <2>2
<1> QED BY <1>2, <1>7, <1>9, <1>11 DEF d, e

\* It keeps the remembered commands ascending, and is the newest of them.
LEMMA NumberAscends ==
    ASSUME SendAssumption, NEW c \in SeqState, NEW act \in PlaybackAction, NEW p \in Nat,
           Ascends(c), \A i \in DOMAIN c.sent : c.sent[i].press < p
    PROVE  LET d == Number(c, act, p)
               e == [seq |-> c.next, act |-> act, press |-> p]
           IN  /\ Ascends(d)
               /\ \A i \in DOMAIN d.sent : d.sent[i] = e \/ \E j \in DOMAIN c.sent : d.sent[i] = c.sent[j]
<1> DEFINE d == Number(c, act, p)
           e == [seq |-> c.next, act |-> act, press |-> p]
           n == Len(c.sent)
<1>1. c.sent \in Seq(Sent) /\ c.next \in Nat /\ n \in Nat /\ DOMAIN c.sent = 1 .. n
  BY DEF SeqState
<1>2. PICK k \in {0, 1} :
        /\ Len(d.sent) = n + 1 - k
        /\ \A i \in DOMAIN d.sent : d.sent[i] = IF i + k <= n THEN c.sent[i + k] ELSE e
  BY NumberFacts
<1>3. d \in SeqState /\ d.next = c.next + 1 /\ e.seq = c.next /\ e.press = p
  BY NumberFacts
<1> HIDE DEF d, e
<1>4. DOMAIN d.sent = 1 .. n + 1 - k /\ n + 1 - k \in Nat
  BY <1>1, <1>2, <1>3 DEF SeqState
<1>5. ASSUME NEW i \in DOMAIN d.sent
      PROVE  \/ i + k = n + 1 /\ d.sent[i] = e
             \/ i + k \in DOMAIN c.sent /\ d.sent[i] = c.sent[i + k]
  <2>1. i \in 1 .. n + 1 - k /\ i + k \in 1 .. n + 1
    BY <1>1, <1>4
  <2>2. d.sent[i] = IF i + k <= n THEN c.sent[i + k] ELSE e
    BY <1>2
  <2> QED BY <1>1, <2>1, <2>2
<1>6. \A i \in DOMAIN c.sent : /\ c.sent[i].seq \in Nat /\ c.sent[i].press \in Nat
                              /\ c.sent[i].seq < c.next /\ c.sent[i].press < p
  <2> TAKE i \in DOMAIN c.sent
  <2>1. c.sent[i] \in Sent
    BY <1>1
  <2>2. c.sent[i].seq \in Nat /\ c.sent[i].press \in Nat
    BY <2>1 DEF Sent
  <2> QED BY <2>2 DEF Ascends
<1>7. ASSUME NEW i \in DOMAIN d.sent, NEW j \in DOMAIN d.sent, i < j
      PROVE  d.sent[i].seq < d.sent[j].seq /\ d.sent[i].press < d.sent[j].press
  <2>1. i \in Nat /\ j \in Nat /\ i + k < j + k /\ j + k <= n + 1 /\ i + k # n + 1
    BY <1>1, <1>4, <1>7
  <2>2. i + k \in DOMAIN c.sent /\ d.sent[i] = c.sent[i + k]
    BY <1>5, <2>1
  <2>3. CASE j + k \in DOMAIN c.sent /\ d.sent[j] = c.sent[j + k]
    BY <2>1, <2>2, <2>3 DEF Ascends
  <2>4. CASE d.sent[j] = e
    BY <1>3, <1>6, <2>2, <2>4
  <2> QED BY <1>5, <2>3, <2>4
<1>8. ASSUME NEW i \in DOMAIN d.sent PROVE d.sent[i].seq < d.next
  <2>1. CASE d.sent[i] = e
    BY <1>1, <1>3, <2>1
  <2>2. CASE i + k \in DOMAIN c.sent /\ d.sent[i] = c.sent[i + k]
    BY <1>1, <1>3, <1>6, <2>2
  <2> QED BY <1>5, <2>1, <2>2
<1>9. Ascends(d)
  BY <1>7, <1>8 DEF Ascends
<1>10. \A i \in DOMAIN d.sent : d.sent[i] = e \/ \E j \in DOMAIN c.sent : d.sent[i] = c.sent[j]
  BY <1>5
<1> QED BY <1>9, <1>10 DEF d, e

\* d is what c becomes when the number seq is given back.
GivenBack(c, seq, d) ==
    /\ d \in SeqState /\ d.known = c.known
    /\ DOMAIN d.sent \subseteq DOMAIN c.sent
    /\ \A i \in DOMAIN d.sent : d.sent[i] = c.sent[i]
    /\ c.next # seq + 1 => d = c
    /\ c.next = seq + 1 =>
         /\ d.next = seq
         /\ c.sent # <<>> => Len(c.sent) \in DOMAIN c.sent /\ Len(c.sent) \notin DOMAIN d.sent
    /\ Ascends(c) => Ascends(d)

LEMMA GiveBackFacts ==
    ASSUME NEW c \in SeqState, NEW seq \in Nat
    PROVE  GivenBack(c, seq, GiveBack(c, seq))
<1> DEFINE d == GiveBack(c, seq)
           s == IF c.sent = <<>> THEN c.sent ELSE Front(c.sent)
           n == Len(c.sent)
<1>1. c.sent \in Seq(Sent) /\ c.next \in Nat /\ n \in Nat /\ DOMAIN c.sent = 1 .. n /\ (c.sent # <<>> => n >= 1)
  BY DEF SeqState
<1>2. CASE c.next # seq + 1
  <2>1. d = c
    BY <1>2 DEF GiveBack
  <2> QED BY <1>2, <2>1 DEF GivenBack
<1>3. CASE c.next = seq + 1
  <2>1. d = [c EXCEPT !.next = seq, !.sent = s]
    BY <1>3 DEF GiveBack
  <2>2. d = [next |-> seq, sent |-> s, replayedFor |-> c.replayedFor, known |-> c.known]
    BY <2>1 DEF SeqState
  <2>3. s \in Seq(Sent) /\ DOMAIN s \subseteq 1 .. n /\ (\A i \in DOMAIN s : s[i] = c.sent[i])
        /\ (c.sent # <<>> => DOMAIN s = 1 .. n - 1)
    <3>1. CASE c.sent = <<>>
      BY <1>1, <3>1
    <3>2. CASE c.sent # <<>>
      <4>1. s = SubSeq(c.sent, 1, n - 1)
        BY <3>2 DEF Front
      <4>2. 1 \in 1 .. n + 1 /\ n - 1 \in 1 - 1 .. n
        BY <1>1, <3>2
      <4>3. s \in Seq(Sent) /\ Len(s) = n - 1 /\ \A i \in 1 .. n - 1 : s[i] = c.sent[i]
        BY <1>1, <3>2, <4>1, <4>2
      <4> QED BY <1>1, <3>2, <4>3
    <3> QED BY <3>1, <3>2
  <2> HIDE DEF s, d
  <2>4. d \in SeqState /\ d.known = c.known /\ d.next = seq /\ d.sent = s
    BY <1>1, <2>2, <2>3 DEF SeqState
  <2>5. c.sent # <<>> => n \in DOMAIN c.sent /\ n \notin DOMAIN d.sent
    BY <1>1, <2>3, <2>4
  <2>6. ASSUME Ascends(c) PROVE Ascends(d)
    <3>1. ASSUME NEW i \in DOMAIN d.sent PROVE d.sent[i].seq < d.next
      <4>1. c.sent # <<>> /\ i \in 1 .. n - 1 /\ d.sent[i] = c.sent[i]
        BY <1>1, <2>3, <2>4
      <4>2. i < n /\ i \in DOMAIN c.sent /\ n \in DOMAIN c.sent
        BY <1>1, <4>1
      <4>3. c.sent[i].seq < c.sent[n].seq /\ c.sent[n].seq < c.next
        BY <2>6, <4>2 DEF Ascends
      <4>4. c.sent[i].seq \in Nat /\ c.sent[n].seq \in Nat
        <5>1. c.sent[i] \in Sent /\ c.sent[n] \in Sent
          BY <1>1, <4>2
        <5> QED BY <5>1 DEF Sent
      <4> QED BY <1>3, <2>4, <4>1, <4>3, <4>4
    <3>2. ASSUME NEW i \in DOMAIN d.sent, NEW j \in DOMAIN d.sent, i < j
          PROVE  d.sent[i].seq < d.sent[j].seq /\ d.sent[i].press < d.sent[j].press
      BY <1>1, <2>3, <2>4, <2>6, <3>2 DEF Ascends
    <3> QED BY <3>1, <3>2 DEF Ascends
  <2>7. GivenBack(c, seq, d)
    BY <1>1, <1>3, <2>3, <2>4, <2>5, <2>6 DEF GivenBack
  <2> QED BY <2>7 DEF d
<1> QED BY <1>2, <1>3

Rises(s) == \A i, j \in DOMAIN s : i < j => s[i].seq < s[j].seq /\ s[i].press < s[j].press

\* Ascending numbers from `from` on leave no number out of reach: the k-th is
\* at least from + k - 1.  Otherwise some k would be the first that is not.
LEMMA RisesFrom ==
    ASSUME NEW m \in Seq(Sent), NEW from \in Nat, Rises(m), \A k \in DOMAIN m : m[k].seq >= from
    PROVE  \A k \in DOMAIN m : m[k].seq >= from + k - 1
<1> DEFINE Low == {k \in DOMAIN m : ~(m[k].seq >= from + k - 1)}
<1>1. Len(m) \in Nat /\ DOMAIN m = 1 .. Len(m)
  OBVIOUS
<1>2. \A k \in DOMAIN m : m[k].seq \in Nat
  <2> TAKE k \in DOMAIN m
  <2>1. m[k] \in Sent
    OBVIOUS
  <2> QED BY <2>1 DEF Sent
<1> SUFFICES ASSUME Low # {} PROVE FALSE
  BY <1>1
<1>3. PICK k \in Low : \A j \in Low : k <= j
  <2>1. Low \subseteq Nat
    BY <1>1
  <2> HIDE DEF Low
  <2> QED BY <2>1, LeastOfNat
<1>4. k \in DOMAIN m /\ k \in Nat /\ k >= 1 /\ m[k].seq < from + k - 1 /\ k # 1
  BY <1>1, <1>2, <1>3
<1>5. k - 1 \in DOMAIN m /\ k - 1 \notin Low /\ k - 1 < k
  <2>1. k - 1 \in DOMAIN m /\ k - 1 < k /\ ~(k <= k - 1)
    BY <1>1, <1>4
  <2> HIDE DEF Low
  <2> QED BY <1>3, <2>1
<1>6. m[k - 1].seq >= from + (k - 1) - 1
  BY <1>5
<1>7. m[k - 1].seq < m[k].seq
  BY <1>4, <1>5 DEF Rises
<1>8. m[k].seq \in Nat /\ m[k - 1].seq \in Nat
  BY <1>2, <1>4, <1>5
<1> HIDE DEF Low
<1> QED BY <1>4, <1>6, <1>7, <1>8

\* What is sent again: numbered from the number expected, starting with a PLAY
\* after a refusal for the room's state, and otherwise up to the newest.
LEMMA AgainFacts ==
    ASSUME NEW sent \in Seq(Sent), NEW expected \in Nat, NEW refusal \in BOOLEAN
    PROVE  LET a == Again(sent, expected, refusal)
           IN  /\ a \in Seq(Sent)
               /\ \A i \in DOMAIN a : a[i].seq = expected + i - 1
               /\ refusal /\ a # <<>> => a[1].act = "Play"
               /\ ~refusal /\ sent # <<>> /\ Last(sent).seq >= expected =>
                    a # <<>> /\ Last(a).press = Last(sent).press
               /\ Rises(sent) => Renumbers(a, sent) /\ Rises(a)
<1> DEFINE at == {i \in DOMAIN sent : sent[i].seq >= expected}
           m == Retain(sent, at)
           n == Len(m)
           plays == {i \in DOMAIN m : m[i].act = "Play"}
           first == IF ~refusal THEN 1
                    ELSE CHOOSE i \in 1 .. Len(m) + 1 :
                           /\ i \in plays \cup {Len(m) + 1}
                           /\ \A j \in plays : i <= j
           kept == SubSeq(m, first, Len(m))
           a == Again(sent, expected, refusal)
           l == n + 1 - first
<1>1. /\ m \in Seq(Sent) /\ (at # {} <=> m # <<>>)
      /\ Len(sent) \in at => Last(m) = sent[Len(sent)]
  <2>1. at \subseteq DOMAIN sent
    OBVIOUS
  <2> HIDE DEF at
  <2>2. m \in Seq(Sent)
    BY <2>1, RetainLists
  <2>3. at # {} <=> m # <<>>
    BY <2>1, RetainLists, Zenon
  <2>4. Len(sent) \in at => Last(m) = sent[Len(sent)]
    BY <2>1, RetainLists, Zenon
  <2> QED BY <2>2, <2>3, <2>4
<1>2. PICK f \in [DOMAIN m -> at] :
        /\ \A k \in DOMAIN f : m[k] = sent[f[k]]
        /\ \A k, j \in DOMAIN f : k < j => f[k] < f[j]
  <2>1. at \subseteq DOMAIN sent
    OBVIOUS
  <2> HIDE DEF at
  <2> QED BY <2>1, RetainLists, SMTT(30)
<1>3. a = [i \in DOMAIN kept |-> [kept[i] EXCEPT !.seq = expected + i - 1]]
  BY Zenon DEF Again, Missing
<1>4. \A i \in DOMAIN sent : sent[i] \in Sent /\ sent[i].seq \in Nat /\ sent[i].press \in Nat
  <2> TAKE i \in DOMAIN sent
  <2>1. sent[i] \in Sent
    OBVIOUS
  <2> QED BY <2>1 DEF Sent
<1>5. \A i \in at : i \in DOMAIN sent /\ sent[i].seq >= expected
  OBVIOUS
<1>6. sent # <<>> /\ Last(sent).seq >= expected => Len(sent) \in at
  <2> SUFFICES ASSUME sent # <<>>, Last(sent).seq >= expected PROVE Len(sent) \in at
    OBVIOUS
  <2>1. Len(sent) \in DOMAIN sent /\ Last(sent) = sent[Len(sent)]
    BY DEF Last
  <2> QED BY <2>1
<1>7. n \in Nat /\ DOMAIN m = 1 .. n
  <2> HIDE DEF m
  <2> QED BY <1>1
<1> HIDE DEF at, m, a
<1>8. /\ first \in 1 .. n + 1
      /\ ~refusal => first = 1
      /\ refusal /\ first <= n => m[first].act = "Play"
  <2>1. CASE ~refusal
    BY <1>7, <2>1
  <2>2. CASE refusal
    <3> DEFINE T == plays \cup {n + 1}
    <3>1. T \subseteq Nat /\ T # {} /\ T \subseteq 1 .. n + 1
      BY <1>7
    <3>2. PICK i \in T : \A j \in T : i <= j
      <4> HIDE DEF T
      <4> QED BY <3>1, LeastOfNat
    <3>3. i \in 1 .. n + 1 /\ i \in plays \cup {n + 1} /\ \A j \in plays : i <= j
      BY <3>1, <3>2
    <3>4. first = CHOOSE k \in 1 .. n + 1 : /\ k \in plays \cup {n + 1}
                                            /\ \A j \in plays : k <= j
      BY <2>2
    <3>5. first \in 1 .. n + 1 /\ first \in plays \cup {n + 1}
      <4> HIDE DEF first, plays
      <4> QED BY <3>3, <3>4
    <3>6. first <= n => first \in plays
      <4> HIDE DEF first, plays
      <4> QED BY <1>7, <3>5
    <3> HIDE DEF first
    <3> QED BY <2>2, <3>5, <3>6
  <2> QED BY <2>1, <2>2
<1> HIDE DEF plays, first
<1>9. /\ l \in Nat /\ kept \in Seq(Sent) /\ Len(kept) = l /\ DOMAIN kept = 1 .. l
      /\ \A i \in 1 .. l : first + i - 1 \in DOMAIN m /\ kept[i] = m[first + i - 1]
  <2>1. l \in Nat /\ n - first + 1 = l
    BY <1>7, <1>8
  <2>2. /\ kept \in Seq(Sent) /\ Len(kept) = IF first <= n THEN n - first + 1 ELSE 0
        /\ \A i \in 1 .. n - first + 1 : kept[i] = m[first + i - 1]
    <3>1. first \in 1 .. Len(m) + 1 /\ Len(m) \in first - 1 .. Len(m) /\ first \in Int /\ Len(m) \in Int
      BY <1>7, <1>8
    <3> QED BY <1>1, <1>7, <1>8, <3>1, SubSeqProperties
  <2>3. Len(kept) = l
    BY <1>7, <1>8, <2>1, <2>2
  <2>4. ASSUME NEW i \in 1 .. l PROVE first + i - 1 \in DOMAIN m /\ kept[i] = m[first + i - 1]
    BY <1>7, <1>8, <2>1, <2>2
  <2> HIDE DEF kept, l
  <2> QED BY <2>1, <2>2, <2>3, <2>4
<1> HIDE DEF kept, l
<1>10. \A i \in 1 .. l : kept[i] \in Sent
  BY <1>9
<1>11. ASSUME NEW i \in 1 .. l
       PROVE  /\ a[i] = [kept[i] EXCEPT !.seq = expected + i - 1]
              /\ a[i] \in Sent /\ a[i].seq = expected + i - 1
              /\ a[i].press = kept[i].press /\ a[i].act = kept[i].act
  <2>1. a[i] = [kept[i] EXCEPT !.seq = expected + i - 1]
    BY <1>3, <1>9
  <2>2. kept[i] \in Sent /\ expected + i - 1 \in Nat
    BY <1>9, <1>10
  <2> QED BY <2>1, <2>2 DEF Sent
<1>12. a \in Seq(Sent) /\ DOMAIN a = 1 .. l /\ Len(a) = l
  <2>1. a \in [1 .. l -> Sent]
    BY <1>3, <1>9, <1>11
  <2> QED BY <1>9, <2>1
<1>13. \A i \in DOMAIN a : a[i].seq = expected + i - 1
  BY <1>11, <1>12
<1>14. refusal /\ a # <<>> => a[1].act = "Play"
  <2> SUFFICES ASSUME refusal, a # <<>> PROVE a[1].act = "Play"
    OBVIOUS
  <2>1. l >= 1 /\ 1 \in 1 .. l /\ first <= n
    BY <1>7, <1>8, <1>9, <1>12 DEF l
  <2>2. first + 1 - 1 = first
    BY <1>8
  <2>3. kept[1] = m[first + 1 - 1]
    BY <1>9, <2>1
  <2>4. kept[1].act = "Play"
    BY <1>8, <2>1, <2>2, <2>3
  <2>5. a[1].act = kept[1].act
    BY <1>11, <2>1
  <2> QED BY <2>4, <2>5
<1>15. ASSUME ~refusal, sent # <<>>, Last(sent).seq >= expected
       PROVE  a # <<>> /\ Last(a).press = Last(sent).press
  <2>1. first = 1 /\ l = n
    BY <1>7, <1>8, <1>15 DEF l
  <2>2. m # <<>> /\ Last(m) = sent[Len(sent)]
    BY <1>1, <1>6, <1>15
  <2>3. n \in 1 .. l /\ Last(m) = m[n]
    BY <1>1, <1>7, <2>1, <2>2 DEF Last
  <2>4. kept[n] = m[n]
    <3>1. first + n - 1 = n
      BY <1>7, <2>1
    <3> QED BY <1>9, <2>3, <3>1
  <2>5. a # <<>> /\ Last(a) = a[n]
    BY <1>12, <2>1, <2>3 DEF Last
  <2>6. Last(sent) = sent[Len(sent)]
    BY DEF Last
  <2> QED BY <1>11, <2>2, <2>3, <2>4, <2>5, <2>6
<1>16. ASSUME Rises(sent) PROVE Renumbers(a, sent) /\ Rises(a)
  <2>1. \A k \in DOMAIN m : f[k] \in DOMAIN sent /\ sent[f[k]].seq >= expected /\ m[k] = sent[f[k]]
    BY <1>2, <1>5
  <2>2. Rises(m)
    <3>1. ASSUME NEW i \in DOMAIN m, NEW j \in DOMAIN m, i < j
          PROVE  m[i].seq < m[j].seq /\ m[i].press < m[j].press
      <4>1. f[i] < f[j]
        BY <1>2, <3>1
      <4> QED BY <1>16, <2>1, <4>1 DEF Rises
    <3> QED BY <3>1 DEF Rises
  <2>3. \A k \in DOMAIN m : m[k].seq >= expected
    BY <2>1
  <2>4. \A k \in DOMAIN m : m[k].seq >= expected + k - 1
    BY <1>1, <2>2, <2>3, RisesFrom
  <2>5. ASSUME NEW j \in DOMAIN a
        PROVE  \E i \in DOMAIN sent : a[j].press = sent[i].press /\ a[j].seq <= sent[i].seq
    <3> DEFINE k == first + j - 1
    <3>1. j \in 1 .. l
      BY <1>12
    <3>2. k \in DOMAIN m /\ kept[j] = m[k] /\ k >= j /\ j \in Nat /\ k \in Nat
      <4>1. k \in DOMAIN m /\ kept[j] = m[k]
        BY <1>9, <3>1
      <4>2. k >= j /\ j \in Nat /\ k \in Nat
        <5>1. first \in Nat /\ first >= 1 /\ l \in Nat
          BY <1>7, <1>8, <1>9
        <5>2. j \in Nat /\ j >= 1
          BY <3>1, <5>1
        <5> QED BY <5>1, <5>2
      <4> QED BY <4>1, <4>2
    <3> HIDE DEF k
    <3>3. a[j].seq = expected + j - 1 /\ a[j].press = m[k].press
      BY <1>11, <3>1, <3>2
    <3>4. m[k].seq >= expected + k - 1 /\ m[k] = sent[f[k]] /\ f[k] \in DOMAIN sent /\ m[k].seq \in Nat
      BY <1>4, <2>1, <2>4, <3>2
    <3>5. a[j].seq <= m[k].seq
      BY <3>2, <3>3, <3>4
    <3> QED BY <3>3, <3>4, <3>5
  <2>6. ASSUME NEW i \in DOMAIN a, NEW j \in DOMAIN a, i < j
        PROVE  a[i].seq < a[j].seq /\ a[i].press < a[j].press
    <3>1. i \in 1 .. l /\ j \in 1 .. l
      BY <1>12
    <3>2. a[i].seq < a[j].seq
      <4>1. a[i].seq = expected + i - 1 /\ a[j].seq = expected + j - 1
        BY <1>11, <3>1
      <4>2. i \in Nat /\ j \in Nat
        BY <1>9, <3>1
      <4> QED BY <2>6, <4>1, <4>2
    <3>3. first + i - 1 < first + j - 1
      BY <1>8, <1>9, <2>6, <3>1
    <3>4. m[first + i - 1].press < m[first + j - 1].press
      BY <1>9, <2>2, <3>1, <3>3 DEF Rises
    <3> QED BY <1>9, <1>11, <3>1, <3>2, <3>4
  <2> QED BY <2>5, <2>6 DEF Renumbers, Rises
<1> QED BY <1>12, <1>13, <1>14, <1>15, <1>16 DEF a

\* The numbering after a rejection: the commands sent again are the ones then
\* remembered, and each was remembered before with a number as high or higher.
LEMMA PlanFacts ==
    ASSUME NEW c \in SeqState, NEW expected \in Nat, NEW refusal \in BOOLEAN
    PROVE  LET p == PlanResync(c, expected, refusal)
           IN  /\ p.cl \in SeqState /\ p.resend \in Seq(Sent)
               /\ p.cl.known \in {c.known, expected}
               /\ p.resend = <<>> \/ p.resend = p.cl.sent
               /\ Ascends(c) => Ascends(p.cl) /\ Renumbers(p.cl.sent, c.sent)
<1> DEFINE p == PlanResync(c, expected, refusal)
           again == Again(c.sent, expected, refusal)
           told == [c EXCEPT !.known = expected]
           reset == [told EXCEPT !.next = expected]
           done == [told EXCEPT !.next = expected + Len(again), !.sent = again,
                                !.replayedFor = expected]
<1>1. /\ c.sent \in Seq(Sent) /\ c.next \in Nat /\ c.replayedFor \in Nat /\ c.known \in Nat
      /\ c = [next |-> c.next, sent |-> c.sent, replayedFor |-> c.replayedFor, known |-> c.known]
      /\ DOMAIN c.sent = 1 .. Len(c.sent) /\ Len(c.sent) \in Nat
  BY DEF SeqState
<1>2. \A i \in DOMAIN c.sent : c.sent[i].seq \in Nat
  <2> TAKE i \in DOMAIN c.sent
  <2>1. c.sent[i] \in Sent
    BY <1>1
  <2> QED BY <2>1 DEF Sent
<1>3. Renumbers(c.sent, c.sent)
  <2> SUFFICES ASSUME NEW j \in DOMAIN c.sent
               PROVE  \E i \in DOMAIN c.sent : c.sent[j].press = c.sent[i].press /\ c.sent[j].seq <= c.sent[i].seq
    BY DEF Renumbers
  <2>1. c.sent[j].seq <= c.sent[j].seq
    BY <1>2
  <2> QED BY <2>1
<1>4. told = [next |-> c.next, sent |-> c.sent, replayedFor |-> c.replayedFor, known |-> expected]
  BY <1>1
<1>5. told \in SeqState /\ told.sent = c.sent /\ told.next = c.next /\ told.known = expected
  BY <1>1, <1>4 DEF SeqState
<1> HIDE DEF told
<1>6. CASE expected < c.known
  <2>1. p.cl = c /\ p.resend = <<>>
    BY <1>6 DEF PlanResync
  <2> QED BY <1>3, <2>1
<1>7. CASE ~(expected < c.known) /\ (c.sent = <<>> \/ Last(c.sent).seq < expected)
  <2>1. p.cl = reset /\ p.resend = <<>>
    BY <1>7 DEF PlanResync, told
  <2>2. reset = [next |-> expected, sent |-> c.sent, replayedFor |-> c.replayedFor, known |-> expected]
    BY <1>4
  <2> HIDE DEF reset
  <2>3. reset \in SeqState /\ reset.sent = c.sent /\ reset.next = expected /\ reset.known = expected
    BY <1>1, <2>2 DEF SeqState
  <2>4. ASSUME Ascends(c) PROVE Ascends(reset)
    <3>1. ASSUME NEW i \in DOMAIN c.sent PROVE c.sent[i].seq < expected
      <4> DEFINE n == Len(c.sent)
      <4>1. c.sent # <<>> /\ n \in DOMAIN c.sent /\ Last(c.sent) = c.sent[n] /\ i <= n /\ i \in Nat
        BY <1>1 DEF Last
      <4>2. c.sent[n].seq < expected /\ c.sent[n].seq \in Nat /\ c.sent[i].seq \in Nat
        BY <1>2, <1>7, <4>1
      <4>3. i < n => c.sent[i].seq < c.sent[n].seq
        BY <2>4, <4>1 DEF Ascends
      <4> HIDE DEF n
      <4>4. i < n \/ i = n
        BY <1>1, <4>1 DEF n
      <4> QED BY <4>2, <4>3, <4>4
    <3> QED BY <2>3, <2>4, <3>1 DEF Ascends
  <2> HIDE DEF p
  <2>5. <<>> \in Seq(Sent)
    OBVIOUS
  <2> QED BY <1>3, <2>1, <2>3, <2>4, <2>5 DEF p
<1>8. CASE ~(expected < c.known) /\ ~(c.sent = <<>> \/ Last(c.sent).seq < expected)
           /\ c.replayedFor = expected
  <2>1. p.cl = told /\ p.resend = <<>>
    BY <1>8 DEF PlanResync, told
  <2>2. Ascends(c) => Ascends(told)
    BY <1>5 DEF Ascends
  <2>5. <<>> \in Seq(Sent)
    OBVIOUS
  <2> QED BY <1>3, <1>5, <2>1, <2>2, <2>5
<1>9. CASE ~(expected < c.known) /\ ~(c.sent = <<>> \/ Last(c.sent).seq < expected)
           /\ c.replayedFor # expected
  <2>1. p.cl = done /\ p.resend = again
    BY <1>9 DEF PlanResync, told
  <2>2. /\ again \in Seq(Sent)
        /\ \A i \in DOMAIN again : again[i].seq = expected + i - 1
        /\ Rises(c.sent) => Renumbers(again, c.sent) /\ Rises(again)
    BY <1>1, AgainFacts
  <2> HIDE DEF again
  <2>3. done = [next |-> expected + Len(again), sent |-> again, replayedFor |-> expected, known |-> expected]
    <3> DEFINE n == expected + Len(again)
               one == [told EXCEPT !.next = n]
               two == [one EXCEPT !.sent = again]
    <3>1. done = [two EXCEPT !.replayedFor = expected]
      OBVIOUS
    <3> HIDE DEF n, two
    <3>2. one = [next |-> n, sent |-> c.sent, replayedFor |-> c.replayedFor, known |-> expected]
      BY <1>4
    <3> HIDE DEF one
    <3>3. two = [next |-> n, sent |-> again, replayedFor |-> c.replayedFor, known |-> expected]
      BY <3>2 DEF two
    <3> QED BY <3>1, <3>3 DEF n
  <2> HIDE DEF done
  <2>4. Len(again) \in Nat /\ DOMAIN again = 1 .. Len(again)
    BY <2>2
  <2>5. done \in SeqState /\ done.sent = again /\ done.next = expected + Len(again) /\ done.known = expected
    BY <2>2, <2>3, <2>4 DEF SeqState
  <2>6. ASSUME Ascends(c) PROVE Ascends(done) /\ Renumbers(again, c.sent)
    <3>1. Rises(c.sent)
      BY <2>6 DEF Ascends, Rises
    <3>2. ASSUME NEW i \in DOMAIN again PROVE again[i].seq < expected + Len(again)
      <4>1. again[i].seq = expected + i - 1 /\ i \in 1 .. Len(again)
        BY <2>2, <2>4
      <4> QED BY <2>4, <4>1
    <3> QED BY <2>2, <2>5, <3>1, <3>2 DEF Ascends, Rises
  <2> QED BY <2>1, <2>2, <2>5, <2>6
<1> QED BY <1>6, <1>7, <1>8, <1>9

\* One answer puts the numbering right: the command it refuses is remembered,
\* nothing was sent again since, and the server's number is news.
LEMMA TruthRepairs ==
    ASSUME SendAssumption, PlaybackTypes, TellsTruth
    PROVE  OneAnswerRepairs
<1> SUFFICES ASSUME Quiet, ~forgot, NEW act \in PlaybackAction, room.started \/ act # "Play"
             PROVE  Repairs(act)
  BY DEF OneAnswerRepairs
<1> DEFINE c == Number(cl, act, presses + 1)
           e == [seq |-> cl.next, act |-> act, press |-> presses + 1]
           k == room.acked + 1
           refusal == ~Allowed(room.started, act)
           a == Answers(room, Last(c.sent))
           p == PlanResync(c, k, refusal)
           again == Again(c.sent, k, refusal)
<1>1. /\ room.acked \in Nat /\ room.started \in BOOLEAN /\ room.seat /\ room.may
      /\ cl \in SeqState /\ presses \in Nat /\ cl.next \in Nat /\ cl.known \in Nat
      /\ cl.known <= k /\ k \in Nat /\ k # 0
  BY DEF PlaybackTypes, RoomState, ClientTypes, SeqState, TellsTruth, Expected, Quiet
<1>2. /\ c \in SeqState /\ e \in Sent
      /\ c.known = cl.known /\ c.replayedFor = 0 /\ c.sent # <<>> /\ Last(c.sent) = e
  <2>1. presses + 1 \in Nat
    BY <1>1
  <2> QED BY <1>1, <2>1, NumberFacts
<1>3. e.seq = cl.next /\ e.act = act /\ e.press = presses + 1
  OBVIOUS
<1> HIDE DEF c, e, k
<1>4. ASSUME a # <<>>, ~refusal PROVE cl.next # k
  BY <1>1, <1>2, <1>3, <1>4 DEF Answers, k, PlaybackAction
<1>5. refusal \in BOOLEAN /\ (refusal <=> ~room.started)
  BY <1>1 DEF Allowed, PlaybackAction
<1>6. c.sent \in Seq(Sent) /\ ~(k < c.known) /\ c.replayedFor # k
  BY <1>1, <1>2 DEF SeqState
<1>7. /\ again \in Seq(Sent) /\ Len(again) \in Nat
      /\ \A i \in DOMAIN again : again[i].seq = k + i - 1
      /\ refusal /\ again # <<>> => again[1].act = "Play"
      /\ ~refusal /\ Last(c.sent).seq >= k => again # <<>> /\ Last(again).press = Last(c.sent).press
  <2> HIDE DEF refusal
  <2>1. /\ again \in Seq(Sent)
        /\ \A i \in DOMAIN again : again[i].seq = k + i - 1
        /\ refusal /\ again # <<>> => again[1].act = "Play"
        /\ ~refusal /\ c.sent # <<>> /\ Last(c.sent).seq >= k =>
             again # <<>> /\ Last(again).press = Last(c.sent).press
    <3>1. c.sent \in Seq(Sent) /\ k \in Nat /\ refusal \in BOOLEAN
      BY <1>1, <1>5, <1>6
    <3> QED BY <3>1, AgainFacts
  <2> HIDE DEF again
  <2> QED BY <1>2, <2>1
<1>8. Allowed(room.started, "Play")
  BY DEF Allowed
<1> HIDE DEF refusal, a, again
<1>9. a # <<>> =>
        /\ p.cl.next = k + Len(p.resend)
        /\ \A i \in DOMAIN p.resend : p.resend[i].seq = room.acked + i
        /\ p.resend # <<>> => Allowed(room.started, p.resend[1].act)
        /\ ~refusal /\ cl.next > k => p.resend # <<>> /\ Last(p.resend).press = presses + 1
  <2>1. CASE Last(c.sent).seq < k
    <3>1. p.cl.next = k /\ p.resend = <<>>
      <4>1. p.resend = <<>> /\ p.cl = [[c EXCEPT !.known = k] EXCEPT !.next = k]
        BY <1>2, <1>6, <2>1 DEF PlanResync
      <4> HIDE DEF p
      <4> QED BY <1>2, <4>1 DEF SeqState
    <3> HIDE DEF p
    <3> QED BY <1>1, <1>2, <1>3, <2>1, <3>1
  <2>2. CASE ~(Last(c.sent).seq < k)
    <3>1. p.resend = again /\ p.cl.next = k + Len(again)
      <4>1. /\ p.resend = again
            /\ p.cl = [[c EXCEPT !.known = k] EXCEPT !.next = k + Len(again), !.sent = again,
                                                     !.replayedFor = k]
        BY <1>2, <1>6, <2>2 DEF PlanResync, again
      <4> HIDE DEF p
      <4> QED BY <1>2, <4>1 DEF SeqState
    <3> HIDE DEF p
    <3>2. \A i \in DOMAIN again : again[i].seq = room.acked + i
      <4> TAKE i \in DOMAIN again
      <4>1. i \in 1 .. Len(again) /\ again[i].seq = k + i - 1
        BY <1>7
      <4>2. i \in Nat /\ room.acked \in Nat /\ k = room.acked + 1
        BY <1>1, <1>7, <4>1 DEF k
      <4> QED BY <4>1, <4>2
    <3>3. again # <<>> => Allowed(room.started, again[1].act)
      BY <1>5, <1>7, <1>8 DEF Allowed
    <3>4. ~refusal => again # <<>> /\ Last(again).press = presses + 1
      BY <1>1, <1>2, <1>3, <1>7, <2>2
    <3> QED BY <3>1, <3>2, <3>3, <3>4
  <2> QED BY <2>1, <2>2
<1> QED BY Zenon, <1>9 DEF Repairs, refusal, a, c, k

-----------------------------------------------------------------------------
(* PlaybackSend: commands in order.                                         *)

Within(a, s) == \A i \in DOMAIN a : \E j \in DOMAIN s : a[i] = s[j]
Adds(a, s, e) == \A i \in DOMAIN a : a[i] = e \/ \E j \in DOMAIN s : a[i] = s[j]

LEMMA AheadWithin ==
    ASSUME NEW f, NEW s, NEW a, Ahead(f, s), Within(a, s) PROVE Ahead(f, a)
BY DEF Ahead, Within

LEMMA AheadAdds ==
    ASSUME NEW f, NEW s, NEW a, NEW e, Ahead(f, s), Apart(f, e), Adds(a, s, e) PROVE Ahead(f, a)
BY DEF Ahead, Adds

LEMMA ApartWithin ==
    ASSUME NEW s, NEW t, NEW a, NEW b, Apart2(s, t), Within(a, s), Within(b, t) PROVE Apart2(a, b)
<1> SUFFICES ASSUME NEW i \in DOMAIN a PROVE Ahead(a[i], b)
  BY DEF Apart2
<1>1. PICK j \in DOMAIN s : a[i] = s[j]
  BY DEF Within
<1> QED BY <1>1, AheadWithin DEF Apart2

LEMMA ApartAdds ==
    ASSUME NEW s, NEW t, NEW a, NEW e, Apart2(s, t), Ahead(e, t), Adds(a, s, e) PROVE Apart2(a, t)
<1> SUFFICES ASSUME NEW i \in DOMAIN a PROVE Ahead(a[i], t)
  BY DEF Apart2
<1> QED BY DEF Apart2, Adds

Behind(s, e) == \A i \in DOMAIN s : Apart(s[i], e)

LEMMA ApartAddsRight ==
    ASSUME NEW s, NEW t, NEW b, NEW e, Apart2(s, t), Behind(s, e), Adds(b, t, e) PROVE Apart2(s, b)
BY AheadAdds DEF Apart2, Behind

\* A place further on in a sequence keeps the order of what is left of it.
LEMMA LaterApart ==
    ASSUME NEW s, DOMAIN s \subseteq Int, NEW a, DOMAIN a \subseteq Int, NEW k \in Int,
           \A i \in DOMAIN a : i + k \in DOMAIN s /\ a[i] = s[i + k], Apart1(s)
    PROVE  Apart1(a)
<1> SUFFICES ASSUME NEW i \in DOMAIN a, NEW j \in DOMAIN a, i < j PROVE Apart(a[i], a[j])
  BY DEF Apart1
<1>1. i + k < j + k
  OBVIOUS
<1> QED BY <1>1 DEF Apart1

\* Lower numbers for the same commands keep them behind what was ahead.
LEMMA AheadRenumbers ==
    ASSUME NEW f, f.seq \in Nat, f.press \in Nat, NEW s, Stamped(s), NEW a, Stamped(a),
           Ahead(f, s), Renumbers(a, s)
    PROVE  Ahead(f, a)
<1> SUFFICES ASSUME NEW j \in DOMAIN a, f.seq < a[j].seq PROVE f.press <= a[j].press
  BY DEF Ahead, Apart
<1>1. PICK i \in DOMAIN s : a[j].press = s[i].press /\ a[j].seq <= s[i].seq
  BY DEF Renumbers
<1>2. s[i].seq \in Nat /\ a[j].seq \in Nat
  BY DEF Stamped
<1>3. f.seq < s[i].seq
  BY <1>1, <1>2
<1> QED BY <1>1, <1>3 DEF Ahead, Apart

LEMMA ApartRenumbers ==
    ASSUME NEW r, Stamped(r), NEW s, Stamped(s), NEW a, Stamped(a), Apart2(r, s), Renumbers(a, s)
    PROVE  Apart2(r, a)
<1> SUFFICES ASSUME NEW i \in DOMAIN r PROVE Ahead(r[i], a)
  BY DEF Apart2
<1>1. r[i].seq \in Nat /\ r[i].press \in Nat /\ Ahead(r[i], s)
  BY DEF Stamped, Apart2
<1> QED BY <1>1, AheadRenumbers

\* The first of a sequence, and the rest.
LEMMA HeadAndTail ==
    ASSUME NEW A, NEW s \in Seq(A), s # <<>>
    PROVE  /\ Head(s) = s[1] /\ 1 \in DOMAIN s /\ Head(s) \in A /\ Tail(s) \in Seq(A)
           /\ DOMAIN s \subseteq Nat /\ DOMAIN Tail(s) \subseteq Nat
           /\ \A i \in DOMAIN Tail(s) : i >= 1 /\ i + 1 \in DOMAIN s /\ Tail(s)[i] = s[i + 1]
           /\ Within(Tail(s), s)
<1>1. /\ Len(s) \in Nat /\ Len(s) >= 1 /\ DOMAIN s = 1 .. Len(s)
      /\ Tail(s) \in Seq(A) /\ Len(Tail(s)) = Len(s) - 1
      /\ \A i \in 1 .. Len(s) - 1 : Tail(s)[i] = s[i + 1]
      /\ Head(s) = s[1] /\ s[1] \in A
  OBVIOUS
<1>2. DOMAIN Tail(s) = 1 .. Len(s) - 1
  BY <1>1
<1>3. \A i \in DOMAIN Tail(s) : i \in Nat /\ i >= 1 /\ i + 1 \in DOMAIN s /\ Tail(s)[i] = s[i + 1]
  BY <1>1, <1>2
<1> QED BY <1>1, <1>3 DEF Within

\* A sequence with one more at its end.
LEMMA OneMore ==
    ASSUME NEW A, NEW s \in Seq(A), NEW e \in A
    PROVE  LET a == Append(s, e)
           IN  /\ a \in Seq(A) /\ Adds(a, s, e) /\ DOMAIN a \subseteq Nat
               /\ \A i, j \in DOMAIN a : i < j => i \in DOMAIN s /\ a[i] = s[i]
               /\ \A i \in DOMAIN a : a[i] = e \/ (i \in DOMAIN s /\ a[i] = s[i])
<1> DEFINE a == Append(s, e)
           n == Len(s)
<1>1. n \in Nat /\ DOMAIN s = 1 .. n
  OBVIOUS
<1>2. a \in Seq(A) /\ Len(a) = n + 1 /\ a[n + 1] = e /\ \A i \in 1 .. n : a[i] = s[i]
  BY AppendProperties
<1> HIDE DEF a, n
<1>3. DOMAIN a = 1 .. n + 1
  BY <1>1, <1>2
<1>4. ASSUME NEW i \in DOMAIN a PROVE a[i] = e \/ (i \in DOMAIN s /\ a[i] = s[i])
  <2>1. i = n + 1 \/ i \in 1 .. n
    BY <1>1, <1>3
  <2>2. a[n + 1] = e /\ \A k \in 1 .. n : a[k] = s[k]
    BY <1>2
  <2>3. CASE i = n + 1
    BY <2>2, <2>3
  <2>4. CASE i \in 1 .. n
    BY <1>1, <2>2, <2>4
  <2> QED BY <2>1, <2>3, <2>4
<1>5. ASSUME NEW i \in DOMAIN a, NEW j \in DOMAIN a, i < j PROVE i \in DOMAIN s /\ a[i] = s[i]
  <2>1. i \in 1 .. n
    BY <1>1, <1>3, <1>5
  <2> QED BY <1>1, <1>2, <2>1
<1>6. DOMAIN a \subseteq Nat
  BY <1>1, <1>3
<1> QED BY <1>2, <1>4, <1>5, <1>6 DEF a, Adds

LEMMA MoreApart ==
    ASSUME NEW A, NEW s \in Seq(A), NEW e \in A, Apart1(s), Behind(s, e)
    PROVE  Apart1(Append(s, e))
<1> DEFINE a == Append(s, e)
<1>1. /\ \A i, j \in DOMAIN a : i < j => i \in DOMAIN s /\ a[i] = s[i]
      /\ \A i \in DOMAIN a : a[i] = e \/ (i \in DOMAIN s /\ a[i] = s[i])
  BY OneMore
<1> HIDE DEF a
<1>2. ASSUME NEW i \in DOMAIN a, NEW j \in DOMAIN a, i < j PROVE Apart(a[i], a[j])
  BY <1>1, <1>2 DEF Apart1, Behind
<1> QED BY <1>2 DEF Apart1, a

-----------------------------------------------------------------------------
(* PlaybackSend: types, and what the server does with a frame.              *)

LEMMA FrameFields ==
    /\ JoinRequest \in Frame
    /\ \A f \in Frame : /\ f.seq \in Nat /\ f.press \in Nat
                        /\ f.act # "Join" => f \in Sent
    /\ \A f \in Sent : f \in Frame /\ f.act # "Join" /\ f.seq \in Nat /\ f.press \in Nat
<1>1. \A f \in Sent : f.act # "Join" /\ f.seq \in Nat /\ f.press \in Nat /\ f \in Frame
  BY DEF Sent, PlaybackAction, Frame
<1>2. JoinRequest \in Frame
  BY DEF JoinRequest, Frame
<1>3. ASSUME NEW f \in [seq : {0}, act : {"Join"}, press : {0}]
      PROVE  f.seq \in Nat /\ f.press \in Nat /\ f.act = "Join"
  OBVIOUS
<1>4. \A f \in Frame : f \in Sent \/ f \in [seq : {0}, act : {"Join"}, press : {0}]
  BY DEF Frame
<1> QED BY <1>1, <1>2, <1>3, <1>4

LEMMA FramesStamped == ASSUME NEW s \in Seq(Frame) PROVE Stamped(s)
<1> SUFFICES ASSUME NEW i \in DOMAIN s PROVE s[i].seq \in Nat /\ s[i].press \in Nat
  BY DEF Stamped
<1>1. s[i] \in Frame
  OBVIOUS
<1> QED BY <1>1, FrameFields

LEMMA SentFrames == ASSUME NEW s \in Seq(Sent) PROVE s \in Seq(Frame) /\ Stamped(s)
<1>1. Sent \subseteq Frame
  BY FrameFields
<1>2. s \in Seq(Frame)
  <2> DEFINE n == Len(s)
  <2>1. n \in Nat /\ s \in [1 .. n -> Sent]
    OBVIOUS
  <2>2. s \in [1 .. n -> Frame]
    BY <1>1, <2>1
  <2> HIDE DEF n
  <2> QED BY <2>1, <2>2
<1> QED BY <1>2, FramesStamped

\* A frame moves the room's number up by one, if it is accepted, or back to
\* nought, if it is a join that makes a seat; its answer tells no other number.
LEMMA FrameEffect ==
    ASSUME NEW r \in RoomState, NEW f \in Frame
    PROVE  LET s == AfterFrame(r, f)
               a == Answers(r, f)
           IN  /\ s \in RoomState /\ a \in Seq(Answer)
               /\ \A i \in DOMAIN a : a[i].expected \in {0, r.acked + 1}
               /\ \A i \in DOMAIN a : r.seat => a[i].code # "NotJoined"
               /\ r.seat => s.seat
               /\ f.act # "Join" /\ a = <<>> => r.seat /\ s.acked = f.seq /\ f.seq = r.acked + 1
               /\ ~(f.act # "Join" /\ a = <<>>) => s.acked = r.acked \/ s.seat # r.seat
               /\ r.seat /\ ~(f.act # "Join" /\ a = <<>>) => s = r
<1> DEFINE s == AfterFrame(r, f)
           a == Answers(r, f)
<1>1. r.acked \in Nat /\ r.seat \in BOOLEAN /\ r.started \in BOOLEAN /\ r.may \in BOOLEAN
      /\ r = [started |-> r.started, acked |-> r.acked, seat |-> r.seat, may |-> r.may]
  BY DEF RoomState
<1>2. f.seq \in Nat
  BY FrameFields
<1>3. a = <<>> \/ \E c \in {"StaleCommand", "InvalidState", "NotHost", "NotJoined",
                            "AlreadyJoined", "RoomJoined"}, k \in {0, r.acked + 1} :
                     a = <<Reply(c, k)>> /\ (r.seat => c # "NotJoined")
  BY DEF Answers
<1>4. /\ a \in Seq(Answer)
      /\ \A i \in DOMAIN a : a[i].expected \in {0, r.acked + 1}
      /\ \A i \in DOMAIN a : r.seat => a[i].code # "NotJoined"
  <2>1. CASE a = <<>>
    BY <2>1
  <2>2. CASE a # <<>>
    <3>1. PICK c \in {"StaleCommand", "InvalidState", "NotHost", "NotJoined",
                      "AlreadyJoined", "RoomJoined"}, k \in {0, r.acked + 1} :
                 a = <<Reply(c, k)>> /\ (r.seat => c # "NotJoined")
      BY <1>3, <2>2
    <3> DEFINE y == Reply(c, k)
    <3>2. y \in Answer /\ y.code = c /\ y.expected = k
      BY <1>1 DEF Reply, Answer
    <3> HIDE DEF y, a
    <3>3. a = <<y>>
      BY <3>1 DEF y
    <3>4. a \in Seq(Answer) /\ \A i \in DOMAIN a : a[i] = y
      BY <3>2, <3>3
    <3> QED BY <3>1, <3>2, <3>4
  <2> QED BY <2>1, <2>2
<1>5. CASE f.act = "Join"
  <2>1. CASE r.seat
    <3>1. s = r
      BY <1>5, <2>1 DEF AfterFrame
    <3> HIDE DEF s, a
    <3> QED BY <1>4, <1>5, <2>1, <3>1 DEF s, a
  <2>2. CASE ~r.seat
    <3>1. s = [r EXCEPT !.seat = TRUE, !.may = FALSE, !.acked = 0]
      BY <1>5, <2>2 DEF AfterFrame
    <3>2. s = [started |-> r.started, acked |-> 0, seat |-> TRUE, may |-> FALSE]
      <4> HIDE DEF s
      <4> QED BY <1>1, <3>1
    <3> HIDE DEF s, a
    <3>3. s.seat = TRUE /\ s \in RoomState
      BY <1>1, <3>2 DEF RoomState
    <3> QED BY <1>1, <1>4, <1>5, <2>2, <3>3 DEF s, a
  <2> QED BY <2>1, <2>2
<1>6. CASE f.act # "Join" /\ a # <<>>
  <2>1. s = r
    BY <1>6 DEF AfterFrame
  <2> HIDE DEF s, a
  <2> QED BY <1>4, <1>6, <2>1 DEF s, a
<1>7. CASE f.act # "Join" /\ a = <<>>
  <2>1. s = [started |-> TRUE, acked |-> f.seq, seat |-> r.seat, may |-> r.may]
    BY <1>1, <1>7 DEF AfterFrame
  <2>2. f.seq = r.acked + 1 /\ r.seat
    BY <1>7 DEF Answers
  <2> HIDE DEF s, a
  <2>3. s \in RoomState /\ s.acked = f.seq /\ s.seat = r.seat
    BY <1>1, <1>2, <2>1 DEF RoomState
  <2> QED BY <1>1, <1>4, <1>7, <2>2, <2>3 DEF s, a
<1> QED BY <1>5, <1>6, <1>7

\* Answers that were under way, and the ones that join them.
LEMMA CutOff ==
    ASSUME NEW A, NEW s \in Seq(A), NEW k \in 0 .. Len(s)
    PROVE  SubSeq(s, 1, k) \in Seq(A) /\ Within(SubSeq(s, 1, k), s)
<1> DEFINE a == SubSeq(s, 1, k)
<1>1. /\ a \in Seq(A) /\ Len(a) = k /\ DOMAIN s = 1 .. Len(s) /\ Len(s) \in Nat /\ k \in Nat
      /\ \A i \in 1 .. k : a[i] = s[i]
  <2>1. 1 \in 1 .. Len(s) + 1 /\ k \in 1 - 1 .. Len(s) /\ Len(s) \in Nat
    OBVIOUS
  <2> QED BY <2>1, SubSeqProperties
<1> HIDE DEF a
<1>2. \A i \in DOMAIN a : i \in DOMAIN s /\ a[i] = s[i]
  BY <1>1
<1> QED BY <1>1, <1>2 DEF Within, a

Mixes(a, s, t) ==
    \A i \in DOMAIN a : (\E j \in DOMAIN s : a[i] = s[j]) \/ (\E j \in DOMAIN t : a[i] = t[j])

LEMMA Joined ==
    ASSUME NEW A, NEW s \in Seq(A), NEW t \in Seq(A)
    PROVE  s \o t \in Seq(A) /\ Mixes(s \o t, s, t)
<1> DEFINE a == s \o t
           n == Len(s)
           m == Len(t)
<1>1. n \in Nat /\ m \in Nat /\ DOMAIN s = 1 .. n /\ DOMAIN t = 1 .. m
  OBVIOUS
<1>2. /\ a \in Seq(A) /\ Len(a) = n + m
      /\ \A i \in 1 .. n : a[i] = s[i]
      /\ \A i \in 1 .. m : a[n + i] = t[i]
  BY ConcatProperties
<1>3. ASSUME NEW i \in DOMAIN a
      PROVE  (\E j \in DOMAIN s : a[i] = s[j]) \/ (\E j \in DOMAIN t : a[i] = t[j])
  <2> HIDE DEF a, n, m
  <2>0. i \in 1 .. n + m
    BY <1>1, <1>2
  <2>1. CASE i \in 1 .. n
    BY <1>1, <1>2, <2>1
  <2>2. CASE i \notin 1 .. n
    <3> DEFINE j == i - n
    <3>1. j \in 1 .. m /\ n + j = i
      BY <1>1, <2>0, <2>2
    <3> HIDE DEF j
    <3>2. a[n + j] = t[j]
      BY <1>2, <3>1
    <3> QED BY <1>1, <3>1, <3>2
  <2> QED BY <2>1, <2>2
<1> QED BY <1>2, <1>3 DEF Mixes

\* Whoever's frame it is, the room it leaves is a room.
LEMMA ProcessTypes ==
    ASSUME PlaybackTypes, NEW f \in Frame, Process(f)
    PROVE  room' \in RoomState /\ forgot' \in BOOLEAN /\ last' \in Nat
<1>1. AfterFrame(room, f) \in RoomState /\ f.press \in Nat
  BY FrameEffect, FrameFields DEF PlaybackTypes
<1> QED BY <1>1 DEF Process, PlaybackTypes

LEMMA NewNumbering == NewSeq \in SeqState /\ NewSeq.sent = <<>> /\ NewSeq.next = 1 /\ NewSeq.known = 0
BY DEF NewSeq, SeqState

\* An answer taken from the front of those under way, and the plan it makes.
LEMMA InboundPlan ==
    ASSUME PlaybackTypes, down # <<>>
    PROVE  LET a    == Head(down)
               plan == PlanResync(cl, a.expected, a.code = "InvalidState")
           IN  /\ a = down[1] /\ 1 \in DOMAIN down /\ a.expected \in Nat
               /\ Tail(down) \in Seq(Answer) /\ Within(Tail(down), down)
               /\ plan.cl \in SeqState /\ plan.resend \in Seq(Sent)
               /\ plan.cl.known \in {cl.known, a.expected}
               /\ plan.resend = <<>> \/ plan.resend = plan.cl.sent
               /\ Ascends(cl) => Ascends(plan.cl) /\ Renumbers(plan.cl.sent, cl.sent)
<1> DEFINE a == Head(down)
           refusal == a.code = "InvalidState"
<1>1. /\ a = down[1] /\ 1 \in DOMAIN down /\ a \in Answer
      /\ Tail(down) \in Seq(Answer) /\ Within(Tail(down), down)
  BY HeadAndTail DEF PlaybackTypes, NetTypes
<1>2. a.expected \in Nat /\ refusal \in BOOLEAN /\ cl \in SeqState
  BY <1>1 DEF Answer, PlaybackTypes, ClientTypes
<1> HIDE DEF a, refusal
<1>3. LET plan == PlanResync(cl, a.expected, refusal)
      IN  /\ plan.cl \in SeqState /\ plan.resend \in Seq(Sent)
          /\ plan.cl.known \in {cl.known, a.expected}
          /\ plan.resend = <<>> \/ plan.resend = plan.cl.sent
          /\ Ascends(cl) => Ascends(plan.cl) /\ Renumbers(plan.cl.sent, cl.sent)
  BY <1>2, PlanFacts
<1> QED BY <1>1, <1>2, <1>3 DEF a, refusal

LEMMA TypesStep ==
    ASSUME SendAssumption, PlaybackTypes, [PlaybackNext]_playbackVars
    PROVE  PlaybackTypes'
<1> USE DEF PlaybackTypes
<1>a. DEFINE Client == /\ cl' \in SeqState /\ held' \in BOOLEAN
                       /\ presses' \in Nat /\ pend' \in Seq(Sent) /\ todo' \in Seq(Sent)
                       /\ waiters' \in Nat /\ due' \in BOOLEAN
             Net == /\ link' \in BOOLEAN /\ drops' \in Nat
                    /\ up' \in Seq(Frame) /\ old' \in Seq(Frame) /\ down' \in Seq(Answer)
             Rest == /\ room' \in RoomState /\ guest' \in BOOLEAN
                     /\ forgot' \in BOOLEAN /\ astray' \in BOOLEAN /\ last' \in Nat
<1>b. SUFFICES Client /\ Net /\ Rest
  BY DEF ClientTypes, NetTypes
<1>c. UNCHANGED clientVars => Client
  BY DEF clientVars, ClientTypes
<1>d. UNCHANGED netVars => Net
  BY DEF netVars, NetTypes
<1>e. UNCHANGED <<room, guest, historyVars>> => Rest
  BY DEF historyVars
<1>f. <<>> \in Seq(Frame) /\ <<>> \in Seq(Sent)
  OBVIOUS
<1>1. CASE Serve
  <2>1. up # <<>> /\ Head(up) \in Frame /\ Tail(up) \in Seq(Frame)
    BY <1>1, HeadAndTail DEF Serve, NetTypes
  <2>2. Process(Head(up)) /\ UNCHANGED <<guest, clientVars, link, old, drops, astray>>
    BY <1>1 DEF Serve
  <2>3. up' = Tail(up) /\ down' = down \o Answers(room, Head(up))
    BY <1>1 DEF Serve
  <2>4. Rest
    BY <2>1, <2>2, ProcessTypes
  <2>5. Answers(room, Head(up)) \in Seq(Answer)
    BY <2>1, FrameEffect
  <2>6. down' \in Seq(Answer)
    BY <2>3, <2>5, Joined DEF NetTypes
  <2>7. Net
    BY <2>1, <2>2, <2>3, <2>6 DEF NetTypes
  <2> QED BY <1>c, <2>2, <2>4, <2>7
<1>2. CASE ServeLate
  <2>1. old # <<>> /\ Head(old) \in Frame /\ Tail(old) \in Seq(Frame)
    BY <1>2, HeadAndTail DEF ServeLate, NetTypes
  <2>2. /\ \/ Process(Head(old)) /\ old' = Tail(old)
           \/ old' = <<>> /\ UNCHANGED <<room, last, forgot>>
        /\ UNCHANGED <<guest, clientVars, link, up, down, drops, astray>>
    BY <1>2 DEF ServeLate
  <2>3. Rest
    BY <2>1, <2>2, ProcessTypes
  <2>4. old' \in Seq(Frame)
    BY <1>f, <2>1, <2>2
  <2>5. Net
    BY <2>2, <2>4 DEF NetTypes
  <2> QED BY <1>c, <2>2, <2>3, <2>5
<1>3. CASE SetPermission
  <2>1. room' \in RoomState
    <3>1. room' = [room EXCEPT !.may = ~@]
      BY <1>3 DEF SetPermission
    <3> QED BY <3>1 DEF RoomState
  <2> QED BY <1>3, <1>c, <1>d, <2>1 DEF SetPermission, historyVars
<1>4. CASE Reap
  <2>1. room' \in RoomState
    <3>1. room' = [room EXCEPT !.seat = FALSE]
      BY <1>4 DEF Reap
    <3> QED BY <3>1 DEF RoomState
  <2>2. Net
    BY <1>4 DEF Reap, NetTypes
  <2> QED BY <1>4, <1>c, <2>1, <2>2 DEF Reap, historyVars
<1>5. CASE OtherPlay
  <2>1. room' \in RoomState
    <3>1. room' = [room EXCEPT !.started = TRUE]
      BY <1>5 DEF OtherPlay
    <3> QED BY <3>1 DEF RoomState
  <2> QED BY <1>5, <1>c, <1>d, <2>1 DEF OtherPlay, historyVars
<1>6. CASE Drop
  <2>1. PICK k \in 0 .. Len(down) : down' = SubSeq(down, 1, k)
    BY <1>6 DEF Drop
  <2>2. down' \in Seq(Answer)
    BY <2>1, CutOff DEF NetTypes
  <2>3. Net
    <3>1. drops' = drops + 1 /\ drops \in Nat /\ link' = FALSE /\ old' = up /\ up' = <<>> /\ up \in Seq(Frame)
      BY <1>6 DEF Drop, NetTypes
    <3>2. drops' \in Nat
      BY <3>1
    <3> QED BY <1>f, <2>2, <3>1, <3>2
  <2> QED BY <1>6, <1>c, <1>e, <2>3 DEF Drop
<1>7. CASE Restart
  <2>1. PICK k \in 0 .. Len(down) : down' = SubSeq(down, 1, k)
    BY <1>7 DEF Restart
  <2>2. down' \in Seq(Answer)
    BY <2>1, CutOff DEF NetTypes
  <2>3. Net
    <3>1. drops' = drops + 1 /\ drops \in Nat /\ link' = FALSE /\ old' = <<>> /\ up' = <<>>
      BY <1>7 DEF Restart, NetTypes
    <3>2. drops' \in Nat
      BY <3>1
    <3> QED BY <1>f, <2>2, <3>1, <3>2
  <2>4. room' \in RoomState
    <3>1. room' = [room EXCEPT !.started = FALSE, !.acked = 0]
      BY <1>7 DEF Restart
    <3> QED BY <3>1 DEF RoomState
  <2> QED BY <1>7, <1>c, <2>3, <2>4 DEF Restart
<1>8. CASE Reconnect
  <2>1. old' \in Seq(Frame)
    BY <1>8, <1>f DEF Reconnect, NetTypes
  <2>2. Net
    BY <1>8, <2>1 DEF Reconnect, NetTypes
  <2>3. Client
    BY <1>8 DEF Reconnect, ClientTypes
  <2> QED BY <1>8, <1>e, <2>2, <2>3 DEF Reconnect
<1>9. CASE \E act \in PlaybackAction : Press(act)
  <2>1. PICK act \in PlaybackAction : Press(act)
    BY <1>9
  <2> DEFINE c == Number(cl, act, presses + 1)
             e == [seq |-> cl.next, act |-> act, press |-> presses + 1]
  <2>2. presses + 1 \in Nat /\ cl \in SeqState
    BY DEF ClientTypes
  <2>3. c \in SeqState /\ e \in Sent
    BY <2>2, NumberFacts
  <2>4. cl' = c /\ pend' = Append(pend, e) /\ presses' = presses + 1
    BY <2>1 DEF Press
  <2> HIDE DEF c, e
  <2>5. pend' \in Seq(Sent)
    BY <2>3, <2>4, OneMore DEF ClientTypes
  <2>6. Client
    BY <2>1, <2>2, <2>3, <2>4, <2>5 DEF Press, ClientTypes
  <2> QED BY <2>1, <1>d, <1>e, <2>6 DEF Press
<1>10. CASE Transmit
  <2>1. pend # <<>> /\ Head(pend) \in Sent /\ Head(pend) \in Frame /\ Tail(pend) \in Seq(Sent)
    BY <1>10, HeadAndTail, FrameFields DEF Transmit, ClientTypes
  <2>2. Head(pend).seq \in Nat /\ cl \in SeqState
    BY <2>1 DEF Sent, ClientTypes
  <2>3. cl' \in SeqState
    <3>1. GiveBack(cl, Head(pend).seq) \in SeqState
      BY <2>2, GiveBackFacts DEF GivenBack
    <3> QED BY <1>10, <2>2, <3>1 DEF Transmit
  <2>4. up' \in Seq(Frame)
    BY <1>10, <2>1, OneMore DEF Transmit, NetTypes
  <2>5. astray' \in BOOLEAN
    BY <1>10 DEF Transmit
  <2>6. Client
    BY <1>10, <2>1, <2>3 DEF Transmit, ClientTypes
  <2>7. Net
    BY <1>10, <2>4 DEF Transmit, NetTypes
  <2> QED BY <1>10, <2>5, <2>6, <2>7 DEF Transmit
<1>11. CASE SendRejoin
  <2>1. up' \in Seq(Frame)
    BY <1>11, FrameFields, OneMore DEF SendRejoin, NetTypes
  <2>2. Net
    BY <1>11, <2>1 DEF SendRejoin, NetTypes
  <2>3. Client
    <3>1. waiters' = waiters + 1 /\ waiters \in Nat /\ due' = FALSE /\ UNCHANGED <<held, cl, presses, pend, todo>>
      BY <1>11 DEF SendRejoin, ClientTypes
    <3>2. waiters' \in Nat
      BY <3>1
    <3> QED BY <3>1, <3>2 DEF ClientTypes
  <2> QED BY <1>11, <1>e, <2>2, <2>3 DEF SendRejoin
<1>12. CASE Timeout
  <2>1. Client
    BY <1>12 DEF Timeout, ClientTypes
  <2> QED BY <1>12, <1>d, <1>e, <2>1 DEF Timeout
<1>13. CASE Inbound
  <2> DEFINE a    == Head(down)
             plan == PlanResync(cl, a.expected, a.code = "InvalidState")
  <2>1. down # <<>> /\ todo = <<>>
    BY <1>13 DEF Inbound
  <2>2. Tail(down) \in Seq(Answer) /\ plan.cl \in SeqState /\ plan.resend \in Seq(Sent)
    BY <2>1, InboundPlan
  <2>3. /\ down' = Tail(down)
        /\ waiters' = IF waiters > 0 THEN waiters - 1 ELSE 0
        /\ cl' \in {cl, NewSeq, plan.cl} /\ todo' \in {<<>>, plan.resend}
        /\ held' \in {held, TRUE, FALSE}
        /\ UNCHANGED <<room, guest, presses, pend, due, link, up, old, drops, historyVars>>
    <3> HIDE DEF plan
    <3> QED BY <1>13, <2>1 DEF Inbound, plan
  <2> HIDE DEF plan, a
  <2>4. cl' \in SeqState /\ todo' \in Seq(Sent) /\ waiters' \in Nat /\ held' \in BOOLEAN
    <3>1. cl' \in SeqState
      BY <2>2, <2>3, NewNumbering DEF ClientTypes
    <3>2. todo' \in Seq(Sent) /\ held' \in BOOLEAN
      BY <1>f, <2>2, <2>3 DEF ClientTypes
    <3>3. waiters' \in Nat
      <4>1. waiters \in Nat /\ waiters' = IF waiters > 0 THEN waiters - 1 ELSE 0
        BY <2>3 DEF ClientTypes
      <4> QED BY <4>1
    <3> QED BY <3>1, <3>2, <3>3
  <2>5. Client
    BY <2>3, <2>4 DEF ClientTypes
  <2>6. Net
    BY <2>2, <2>3 DEF NetTypes
  <2> QED BY <1>e, <2>3, <2>5, <2>6
<1>14. CASE Resend
  <2>1. todo # <<>> /\ Head(todo) \in Frame /\ Tail(todo) \in Seq(Sent)
    BY <1>14, HeadAndTail, FrameFields DEF Resend, ClientTypes
  <2>2. up' \in Seq(Frame)
    BY <1>14, <2>1, OneMore DEF Resend, NetTypes
  <2>3. todo' \in Seq(Sent)
    BY <1>14, <1>f, <2>1 DEF Resend
  <2>4. Net
    BY <1>14, <2>2 DEF Resend, NetTypes
  <2>5. Client
    BY <1>14, <2>3 DEF Resend, ClientTypes
  <2> QED BY <1>14, <1>e, <2>4, <2>5 DEF Resend
<1>15. CASE UNCHANGED playbackVars
  BY <1>15, <1>c, <1>d, <1>e DEF playbackVars
<1> QED
  BY <1>1, <1>2, <1>3, <1>4, <1>5, <1>6, <1>7, <1>8, <1>9, <1>10, <1>11, <1>12, <1>13, <1>14, <1>15
     DEF PlaybackNext

-----------------------------------------------------------------------------
(* PlaybackSend: the server does not go back on what it expects.            *)

\* Of a frame, with the session not forgotten: the room's number stays, or
\* moves to the frame's; the sender's seat stays.
LEMMA ProcessFacts ==
    ASSUME PlaybackTypes, NEW f \in Frame, Process(f), ~forgot'
    PROVE  /\ ~forgot /\ room.acked <= room'.acked /\ room'.seat = room.seat
           /\ \/ UNCHANGED <<room.acked, last>>
              \/ /\ f.act # "Join" /\ room.seat /\ room'.acked = f.seq /\ f.seq = room.acked + 1
                 /\ last' = f.press
<1> DEFINE s == AfterFrame(room, f)
           a == Answers(room, f)
<1>1. /\ s \in RoomState
      /\ f.act # "Join" /\ a = <<>> => room.seat /\ s.acked = f.seq /\ f.seq = room.acked + 1
      /\ ~(f.act # "Join" /\ a = <<>>) => s.acked = room.acked \/ s.seat # room.seat
  BY FrameEffect DEF PlaybackTypes
<1>2. /\ room' = s /\ last' = IF f.act # "Join" /\ a = <<>> THEN f.press ELSE last
      /\ ~forgot /\ s.seat = room.seat
  BY DEF Process
<1>3. room.acked \in Nat
  BY DEF PlaybackTypes, RoomState
<1> HIDE DEF s, a
<1>4. CASE f.act # "Join" /\ a = <<>>
  BY <1>1, <1>2, <1>3, <1>4
<1>5. CASE ~(f.act # "Join" /\ a = <<>>)
  BY <1>1, <1>2, <1>3, <1>5
<1> QED BY <1>4, <1>5

\* Where the number only rises and no answer is added, nothing is purged back on.
LEMMA StillExpected ==
    ASSUME PlaybackTypes, PlaybackTypes', TellsTruth, ~forgot, room.acked <= room'.acked,
           cl'.known = cl.known, Within(down', down)
    PROVE  TellsTruth'
<1>1. room.acked \in Nat /\ room'.acked \in Nat /\ cl.known \in Nat
  BY DEF PlaybackTypes, RoomState, ClientTypes, SeqState
<1>2. cl'.known <= room'.acked + 1
  BY <1>1 DEF TellsTruth, Expected
<1>3. ASSUME NEW i \in DOMAIN down' PROVE down'[i].expected <= room'.acked + 1
  <2>1. PICK j \in DOMAIN down : down'[i] = down[j]
    BY DEF Within
  <2>2. down[j] \in Answer
    BY DEF PlaybackTypes, NetTypes
  <2>3. down[j].expected \in Nat
    BY <2>2 DEF Answer
  <2>4. down[j].expected <= room.acked + 1
    BY DEF TellsTruth, Expected
  <2> QED BY <1>1, <2>1, <2>3, <2>4
<1> QED BY <1>2, <1>3 DEF TellsTruth, Expected

LEMMA TruthStep ==
    ASSUME SendAssumption, PlaybackTypes, PlaybackTypes', TellsTruth, [PlaybackNext]_playbackVars
    PROVE  TellsTruth'
<1> SUFFICES ASSUME ~forgot' PROVE TellsTruth'
  BY DEF TellsTruth
<1>a. room.acked \in Nat /\ room'.acked \in Nat /\ cl \in SeqState
  BY DEF PlaybackTypes, RoomState, ClientTypes
<1>b. Within(down, down)
  BY DEF Within
<1>c. ASSUME UNCHANGED <<room, forgot>>, cl'.known = cl.known, down' = down PROVE TellsTruth'
  <2>1. ~forgot /\ room.acked <= room'.acked /\ Within(down', down)
    BY <1>a, <1>b, <1>c
  <2> QED BY <1>c, <2>1, StillExpected
<1>1. CASE Serve
  <2> DEFINE f == Head(up)
  <2>1. f \in Frame
    BY <1>1, HeadAndTail DEF Serve, PlaybackTypes, NetTypes
  <2>2. Process(f) /\ down' = down \o Answers(room, f) /\ cl' = cl
    BY <1>1 DEF Serve, clientVars
  <2> HIDE DEF f
  <2>3. ~forgot /\ room.acked <= room'.acked
    BY <2>1, <2>2, ProcessFacts
  <2>4. Answers(room, f) \in Seq(Answer)
        /\ \A i \in DOMAIN Answers(room, f) : Answers(room, f)[i].expected \in {0, room.acked + 1}
    BY <2>1, FrameEffect DEF PlaybackTypes
  <2>5. ASSUME NEW i \in DOMAIN down' PROVE down'[i].expected <= room'.acked + 1
    <3>1. (\E j \in DOMAIN down : down'[i] = down[j])
          \/ (\E j \in DOMAIN Answers(room, f) : down'[i] = Answers(room, f)[j])
      <4> DEFINE new == Answers(room, f)
      <4>1. down \in Seq(Answer) /\ new \in Seq(Answer) /\ down' = down \o new
        BY <2>2, <2>4 DEF PlaybackTypes, NetTypes
      <4> HIDE DEF new
      <4>2. Mixes(down', down, new)
        BY <4>1, Joined
      <4>3. (\E j \in DOMAIN down : down'[i] = down[j]) \/ (\E j \in DOMAIN new : down'[i] = new[j])
        BY <4>2 DEF Mixes
      <4> QED BY <4>3 DEF new
    <3>2. CASE \E j \in DOMAIN down : down'[i] = down[j]
      <4>1. PICK j \in DOMAIN down : down'[i] = down[j]
        BY <3>2
      <4>2. down[j] \in Answer
        BY DEF PlaybackTypes, NetTypes
      <4>3. down[j].expected \in Nat /\ down[j].expected <= room.acked + 1
        BY <2>3, <4>2 DEF Answer, TellsTruth, Expected
      <4> QED BY <1>a, <2>3, <4>1, <4>3
    <3>3. CASE \E j \in DOMAIN Answers(room, f) : down'[i] = Answers(room, f)[j]
      <4>1. down'[i].expected \in {0, room.acked + 1}
        BY <2>4, <3>3
      <4> QED BY <1>a, <2>3, <4>1
    <3> QED BY <3>1, <3>2, <3>3
  <2>6. cl'.known <= room'.acked + 1
    BY <1>a, <2>2, <2>3 DEF TellsTruth, Expected, SeqState
  <2> QED BY <2>5, <2>6 DEF TellsTruth, Expected
<1>2. CASE ServeLate
  <2>1. Head(old) \in Frame
    BY <1>2, HeadAndTail DEF ServeLate, PlaybackTypes, NetTypes
  <2>2. ~forgot /\ room.acked <= room'.acked
    <3>1. CASE Process(Head(old))
      BY <2>1, <3>1, ProcessFacts
    <3>2. CASE UNCHANGED <<room, last, forgot>>
      BY <1>a, <3>2
    <3> QED BY <1>2, <3>1, <3>2 DEF ServeLate
  <2>3. cl' = cl /\ down' = down
    BY <1>2 DEF ServeLate, clientVars
  <2> QED BY <1>b, <2>2, <2>3, StillExpected
<1>3. CASE SetPermission \/ OtherPlay
  <2>1. room'.acked = room.acked
    BY <1>3 DEF SetPermission, OtherPlay, PlaybackTypes, RoomState
  <2>2. cl' = cl /\ down' = down /\ forgot' = forgot
    BY <1>3 DEF SetPermission, OtherPlay, clientVars, netVars, historyVars
  <2>3. ~forgot /\ room.acked <= room'.acked
    BY <1>a, <2>1, <2>2
  <2> QED BY <1>b, <2>2, <2>3, StillExpected
<1>4. CASE Reap
  <2>1. room'.acked = room.acked
    BY <1>4 DEF Reap, PlaybackTypes, RoomState
  <2>2. cl' = cl /\ down' = down /\ forgot' = forgot
    BY <1>4 DEF Reap, clientVars, historyVars
  <2>3. ~forgot /\ room.acked <= room'.acked
    BY <1>a, <2>1, <2>2
  <2> QED BY <1>b, <2>2, <2>3, StillExpected
<1>5. CASE Drop
  <2>1. PICK k \in 0 .. Len(down) : down' = SubSeq(down, 1, k)
    BY <1>5 DEF Drop
  <2>2. Within(down', down)
    BY <2>1, CutOff DEF PlaybackTypes, NetTypes
  <2>3. cl' = cl /\ room' = room /\ forgot' = forgot
    BY <1>5 DEF Drop, clientVars, historyVars
  <2>4. ~forgot /\ room.acked <= room'.acked
    BY <1>a, <2>3
  <2> QED BY <2>2, <2>3, <2>4, StillExpected
<1>6. CASE Restart
  BY <1>6 DEF Restart
<1>7. CASE Reconnect \/ SendRejoin \/ Timeout \/ Resend
  <2>1. UNCHANGED <<room, forgot, cl, down>>
    BY <1>7 DEF Reconnect, SendRejoin, Timeout, Resend, netVars, historyVars
  <2> QED BY <1>c, <2>1
<1>8. CASE \E act \in PlaybackAction : Press(act)
  <2>1. PICK act \in PlaybackAction : Press(act)
    BY <1>8
  <2>2. presses + 1 \in Nat
    BY DEF PlaybackTypes, ClientTypes
  <2>3. cl'.known = cl.known
    BY <1>a, <2>1, <2>2, NumberFacts DEF Press
  <2> QED BY <1>c, <2>1, <2>3 DEF Press, netVars, historyVars
<1>9. CASE Transmit
  <2>1. Head(pend) \in Sent
    BY <1>9, HeadAndTail DEF Transmit, PlaybackTypes, ClientTypes
  <2>2. Head(pend).seq \in Nat
    BY <2>1 DEF Sent
  <2>3. GiveBack(cl, Head(pend).seq).known = cl.known
    BY <1>a, <2>2, GiveBackFacts DEF GivenBack
  <2>4. cl'.known = cl.known
    BY <1>9, <2>3 DEF Transmit
  <2> QED BY <1>9, <1>c, <2>4 DEF Transmit
<1>10. CASE Inbound
  <2> DEFINE a    == Head(down)
             plan == PlanResync(cl, a.expected, a.code = "InvalidState")
  <2>1. down # <<>>
    BY <1>10 DEF Inbound
  <2>2. /\ a = down[1] /\ 1 \in DOMAIN down /\ plan.cl.known \in {cl.known, a.expected}
        /\ Within(Tail(down), down)
    BY <2>1, InboundPlan
  <2>3. /\ down' = Tail(down) /\ cl' \in {cl, NewSeq, plan.cl} /\ room' = room /\ forgot' = forgot
    <3> HIDE DEF plan
    <3> QED BY <1>10 DEF Inbound, plan, historyVars
  <2> HIDE DEF a, plan
  <2>4. ~forgot /\ Expected(cl.known) /\ Expected(a.expected) /\ Expected(0)
    BY <1>a, <2>2, <2>3 DEF TellsTruth, Expected
  <2>5. cl'.known \in {cl.known, a.expected, 0}
    BY <2>2, <2>3, NewNumbering
  <2>6. Expected(cl'.known)
    BY <2>4, <2>5
  <2>7. ASSUME NEW i \in DOMAIN down' PROVE Expected(down'[i].expected)
    <3>1. PICK j \in DOMAIN down : down'[i] = down[j]
      BY <2>2, <2>3 DEF Within
    <3> QED BY <2>4, <3>1 DEF TellsTruth
  <2> QED BY <2>3, <2>6, <2>7 DEF TellsTruth, Expected
<1>11. CASE UNCHANGED playbackVars
  BY <1>11, <1>c DEF playbackVars, clientVars, netVars, historyVars
<1> QED
  BY <1>1, <1>2, <1>3, <1>4, <1>5, <1>6, <1>7, <1>8, <1>9, <1>10, <1>11 DEF PlaybackNext

-----------------------------------------------------------------------------
(* PlaybackSend: the order survives each step.                              *)

LEMMA WithinItself == ASSUME NEW s PROVE Within(s, s) /\ Within(<<>>, s)
BY DEF Within

LEMMA PressedWithin ==
    ASSUME NEW s, NEW a, NEW n, PressedBy(s, n), Within(a, s) PROVE PressedBy(a, n)
BY DEF PressedBy, Within

LEMMA PressedAdds ==
    ASSUME NEW s, NEW a, NEW e, NEW n, PressedBy(s, n), e.press <= n, Adds(a, s, e)
    PROVE  PressedBy(a, n)
BY DEF PressedBy, Adds

LEMMA AgainBelowWithin ==
    ASSUME NEW t, NEW c, NEW p, NEW a, NEW b, AgainBelow(t, c, p), Within(a, t), Within(b, p)
    PROVE  AgainBelow(a, c, b)
<1> SUFFICES ASSUME NEW i \in DOMAIN a
             PROVE  /\ a[i].seq <= c.next
                    /\ a[i].seq = c.next =>
                         \A j \in DOMAIN c.sent, k \in DOMAIN b : c.sent[j].press # b[k].press
  BY DEF AgainBelow
<1>1. PICK h \in DOMAIN t : a[i] = t[h]
  BY DEF Within
<1>2. ASSUME a[i].seq = c.next, NEW j \in DOMAIN c.sent, NEW k \in DOMAIN b
      PROVE  c.sent[j].press # b[k].press
  <2>1. PICK l \in DOMAIN p : b[k] = p[l]
    BY DEF Within
  <2> QED BY <1>1, <1>2, <2>1 DEF AgainBelow
<1> QED BY <1>1, <1>2 DEF AgainBelow

\* The first of those in order is ahead of the rest, and the rest in order.
LEMMA HeadFirst ==
    ASSUME NEW A, NEW s \in Seq(A), s # <<>>
    PROVE  /\ Apart1(s) => Ahead(Head(s), Tail(s)) /\ Apart1(Tail(s))
           /\ Waits(s) => /\ Waits(Tail(s))
                          /\ \A i \in DOMAIN Tail(s) : Head(s).press < Tail(s)[i].press
<1> DEFINE h == Head(s)
           t == Tail(s)
<1>1. /\ h = s[1] /\ 1 \in DOMAIN s /\ DOMAIN s \subseteq Nat /\ DOMAIN t \subseteq Nat
      /\ \A i \in DOMAIN t : i >= 1 /\ i + 1 \in DOMAIN s /\ t[i] = s[i + 1]
  BY HeadAndTail
<1> HIDE DEF h, t
<1>2. ASSUME Apart1(s) PROVE Ahead(h, t) /\ Apart1(t)
  <2>1. ASSUME NEW i \in DOMAIN t PROVE Apart(h, t[i])
    <3>1. 1 < i + 1 /\ i + 1 \in DOMAIN s /\ t[i] = s[i + 1]
      BY <1>1
    <3> QED BY <1>1, <1>2, <3>1 DEF Apart1
  <2>2. Apart1(t)
    BY <1>1, <1>2, LaterApart
  <2> QED BY <2>1, <2>2 DEF Ahead
<1>3. ASSUME Waits(s)
      PROVE  Waits(t) /\ \A i \in DOMAIN t : h.press < t[i].press
  <2>1. ASSUME NEW i \in DOMAIN t PROVE h.press < t[i].press
    <3>1. 1 < i + 1 /\ i + 1 \in DOMAIN s /\ t[i] = s[i + 1]
      BY <1>1
    <3> QED BY <1>1, <1>3, <3>1 DEF Waits
  <2>2. ASSUME NEW i \in DOMAIN t, NEW j \in DOMAIN t, i < j PROVE t[i].press < t[j].press
    <3>1. i + 1 < j + 1 /\ i + 1 \in DOMAIN s /\ j + 1 \in DOMAIN s
      BY <1>1, <2>2
    <3> QED BY <1>1, <1>3, <3>1 DEF Waits
  <2> QED BY <2>1, <2>2 DEF Waits
<1> QED BY <1>2, <1>3 DEF h, t

\* What a list is ahead of, each of it is; what follows a list, each of it does.
LEMMA OneApart ==
    ASSUME NEW s, NEW t, Apart2(s, t)
    PROVE  (\A i \in DOMAIN s : Ahead(s[i], t)) /\ (\A j \in DOMAIN t : Behind(s, t[j]))
BY DEF Apart2, Ahead, Behind

\* A frame that is accepted is ahead of whatever it was ahead of.
LEMMA ProcessAhead ==
    ASSUME PlaybackTypes, NEW f \in Frame, Process(f), ~forgot'
    PROVE  \A t : Ahead(Newest, t) /\ Ahead(f, t) => Ahead(Newest', t)
<1>1. \/ UNCHANGED <<room.acked, last>>
      \/ room'.acked = f.seq /\ last' = f.press
  BY ProcessFacts
<1>2. CASE UNCHANGED <<room.acked, last>>
  BY <1>2 DEF Newest
<1>3. CASE room'.acked = f.seq /\ last' = f.press
  <2>1. Newest'.seq = f.seq /\ Newest'.press = f.press
    BY <1>3 DEF Newest
  <2> QED BY <2>1 DEF Ahead, Apart
<1> QED BY <1>1, <1>2, <1>3

LEMMA ServeOrder ==
    ASSUME PlaybackTypes, SessionInv, ChainInv, room.seat, ~forgot', Serve
    PROVE  SessionInv' /\ ChainInv'
<1> DEFINE f == Head(up)
           rest == Tail(up)
           new == Answers(room, f)
<1>1. /\ f \in Frame /\ f = up[1] /\ 1 \in DOMAIN up /\ Within(rest, up)
      /\ Ahead(f, rest) /\ Apart1(rest)
  <2>1. up \in Seq(Frame) /\ up # <<>> /\ Apart1(up)
    BY DEF Serve, PlaybackTypes, NetTypes, ChainInv
  <2> QED BY <2>1, HeadAndTail, HeadFirst
<1>2. /\ Process(f) /\ up' = rest /\ down' = down \o new
      /\ UNCHANGED <<old, presses, pend, todo, cl>>
  BY DEF Serve, clientVars
<1>3. new \in Seq(Answer) /\ \A i \in DOMAIN new : new[i].code # "NotJoined"
  BY <1>1, FrameEffect DEF PlaybackTypes
<1> HIDE DEF f, rest, new
<1>4. \A t : Ahead(Newest, t) /\ Ahead(f, t) => Ahead(Newest', t)
  BY <1>1, <1>2, ProcessAhead
<1>5. \A t : Apart2(up, t) => Ahead(f, t) /\ Apart2(rest, t)
  <2> TAKE t
  <2>1. ASSUME Apart2(up, t) PROVE Ahead(f, t)
    BY <1>1, <2>1, OneApart
  <2>2. ASSUME Apart2(up, t) PROVE Apart2(rest, t)
    BY <1>1, <2>2, WithinItself, ApartWithin
  <2> QED BY <2>1, <2>2
<1>6. ChainInv'
  <2>1. Ahead(Newest', rest)
    BY <1>1, <1>4, AheadWithin DEF ChainInv
  <2>2. \A t \in {pend, todo, cl.sent} : Ahead(Newest', t) /\ Apart2(rest, t)
    BY <1>4, <1>5 DEF ChainInv
  <2>3. Apart2(old, rest)
    BY <1>1, WithinItself, ApartWithin DEF ChainInv
  <2> QED BY <1>1, <1>2, <2>1, <2>2, <2>3 DEF ChainInv
<1>7. SessionInv'
  <2>1. Seated(down')
    <3>1. Mixes(down', down, new)
      BY <1>2, <1>3, Joined DEF PlaybackTypes, NetTypes
    <3> QED BY <1>3, <3>1 DEF Mixes, Seated, SessionInv
  <2>2. PressedBy(rest, presses)
    BY <1>1, PressedWithin DEF SessionInv
  <2>3. last' <= presses
    <3>1. f.press <= presses
      BY <1>1 DEF SessionInv, PressedBy
    <3> QED BY <1>1, <1>2, <3>1, ProcessFacts DEF SessionInv
  <2> QED BY <1>2, <2>1, <2>2, <2>3 DEF SessionInv
<1> QED BY <1>6, <1>7

LEMMA ServeLateOrder ==
    ASSUME PlaybackTypes, SessionInv, ChainInv, room.seat, ~forgot', ServeLate
    PROVE  SessionInv' /\ ChainInv'
<1> DEFINE f == Head(old)
           rest == Tail(old)
<1>1. f \in Frame /\ f = old[1] /\ 1 \in DOMAIN old /\ Within(rest, old)
  <2>1. old \in Seq(Frame) /\ old # <<>>
    BY DEF ServeLate, PlaybackTypes, NetTypes
  <2> QED BY <2>1, HeadAndTail
<1>2. /\ \/ Process(f) /\ old' = rest
         \/ old' = <<>> /\ UNCHANGED <<room, last, forgot>>
      /\ UNCHANGED <<up, down, presses, pend, todo, cl>>
  BY DEF ServeLate, clientVars
<1> HIDE DEF f, rest
<1>3. Within(old', old)
  BY <1>1, <1>2, WithinItself
<1>4. \A t : Ahead(Newest, t) /\ Apart2(old, t) => Ahead(Newest', t) /\ Apart2(old', t)
  <2> TAKE t
  <2> SUFFICES ASSUME Ahead(Newest, t), Apart2(old, t) PROVE Ahead(Newest', t) /\ Apart2(old', t)
    OBVIOUS
  <2>1. Apart2(old', t)
    BY <1>3, WithinItself, ApartWithin
  <2>2. CASE Process(f)
    <3>1. Ahead(f, t)
      BY <1>1, OneApart
    <3> QED BY <1>1, <2>1, <2>2, <3>1, ProcessAhead
  <2>3. CASE UNCHANGED <<room, last>>
    BY <2>1, <2>3 DEF Newest
  <2> QED BY <1>2, <2>2, <2>3
<1>5. ChainInv'
  BY <1>2, <1>4 DEF ChainInv
<1>6. SessionInv'
  <2>1. PressedBy(old', presses)
    BY <1>3, PressedWithin DEF SessionInv
  <2>2. last' <= presses
    <3>1. f.press <= presses
      BY <1>1 DEF SessionInv, PressedBy
    <3> QED BY <1>1, <1>2, <3>1, ProcessFacts DEF SessionInv
  <2> QED BY <1>2, <2>1, <2>2 DEF SessionInv
<1> QED BY <1>5, <1>6

\* Steps that put nothing on its way and press nothing.
LEMMA NothingNew ==
    ASSUME SessionInv, ChainInv, UNCHANGED <<room.acked, last, presses, pend, todo, cl>>,
           \/ up' = up /\ Within(old', old)
           \/ up' = <<>> /\ old' = up,
           Within(down', down)
    PROVE  SessionInv' /\ ChainInv'
<1>1. Newest' = Newest
  BY DEF Newest
<1>2. Seated(down')
  BY DEF Seated, Within, SessionInv
<1>3. CASE up' = up /\ Within(old', old)
  <2>1. \A t : Apart2(old, t) => Apart2(old', t)
    BY <1>3, WithinItself, ApartWithin
  <2>2. PressedBy(old', presses)
    BY <1>3, PressedWithin DEF SessionInv
  <2> QED BY <1>1, <1>2, <1>3, <2>1, <2>2 DEF SessionInv, ChainInv
<1>4. CASE up' = <<>> /\ old' = up
  <2>1. \A t : Ahead(t, <<>>) /\ Apart2(<<>>, t) /\ Apart2(t, <<>>)
    BY DEF Ahead, Apart2
  <2>2. PressedBy(<<>>, presses) /\ Apart1(<<>>)
    BY DEF PressedBy, Apart1
  <2> QED BY <1>1, <1>2, <1>4, <2>1, <2>2 DEF SessionInv, ChainInv
<1> QED BY <1>3, <1>4

\* What is pressed next follows all that was pressed.
LEMMA NextPress ==
    ASSUME NEW s, Stamped(s), NEW n \in Nat, PressedBy(s, n)
    PROVE  PressedBy(s, n + 1) /\ \A e : e.press = n + 1 => Behind(s, e)
<1>1. \A i \in DOMAIN s : s[i].press \in Nat /\ s[i].press <= n /\ s[i].press <= n + 1
  BY DEF Stamped, PressedBy
<1> QED BY <1>1 DEF PressedBy, Behind, Apart

LEMMA PressOrder ==
    ASSUME SendAssumption, PlaybackTypes, SessionInv, ChainInv, NEW act \in PlaybackAction, Press(act)
    PROVE  SessionInv' /\ ChainInv'
<1> DEFINE c == Number(cl, act, presses + 1)
           e == [seq |-> cl.next, act |-> act, press |-> presses + 1]
           waiting == Append(pend, e)
<1>1. /\ cl \in SeqState /\ cl.next \in Nat /\ cl.sent \in Seq(Sent) /\ presses \in Nat /\ presses + 1 \in Nat
      /\ pend \in Seq(Sent) /\ last \in Nat /\ room.acked \in Nat
      /\ Stamped(up) /\ Stamped(old) /\ Stamped(pend) /\ Stamped(todo) /\ Stamped(cl.sent)
  <2>1. cl \in SeqState /\ presses \in Nat /\ pend \in Seq(Sent) /\ todo \in Seq(Sent)
        /\ up \in Seq(Frame) /\ old \in Seq(Frame) /\ last \in Nat /\ room.acked \in Nat
    BY DEF PlaybackTypes, ClientTypes, NetTypes, RoomState
  <2>2. cl.sent \in Seq(Sent) /\ cl.next \in Nat
    BY <2>1 DEF SeqState
  <2> QED BY <2>1, <2>2, SentFrames, FramesStamped
<1>2. /\ cl' = c /\ pend' = waiting /\ presses' = presses + 1
      /\ UNCHANGED <<up, old, down, todo, last, room>>
  BY DEF Press, netVars, historyVars
<1>3. /\ c \in SeqState /\ e \in Sent /\ c.next = cl.next + 1
  BY <1>1, NumberFacts
<1>4. e.seq = cl.next /\ e.press = presses + 1
  OBVIOUS
<1>5. Ascends(c) /\ Adds(c.sent, cl.sent, e)
  <2>1. \A i \in DOMAIN cl.sent : cl.sent[i].press < presses + 1
    BY <1>1 DEF SessionInv, PressedBy, Stamped
  <2>2. Ascends(cl)
    BY DEF SessionInv
  <2> QED BY <1>1, <2>1, <2>2, NumberAscends DEF Adds
<1>6. /\ Adds(waiting, pend, e)
      /\ \A i, j \in DOMAIN waiting : i < j => i \in DOMAIN pend /\ waiting[i] = pend[i]
      /\ \A i \in DOMAIN waiting : waiting[i] = e \/ (i \in DOMAIN pend /\ waiting[i] = pend[i])
  <2> HIDE DEF e
  <2> QED BY <1>1, <1>3, OneMore
<1>7. Stamped(c.sent)
  <2>1. c.sent \in Seq(Sent)
    BY <1>3 DEF SeqState
  <2> QED BY <2>1, SentFrames
<1> HIDE DEF c, e
<1>8. Behind(old, e) /\ Behind(up, e) /\ Behind(pend, e) /\ Behind(todo, e) /\ Apart(Newest, e)
  <2>1. \A s \in {pend, todo, up, old} : Behind(s, e)
    BY <1>1, <1>4, NextPress DEF SessionInv
  <2>2. last <= presses + 1
    BY <1>1 DEF SessionInv
  <2> QED BY <1>4, <2>1, <2>2 DEF Apart, Newest
<1>9. Ahead(e, todo) /\ Ahead(e, c.sent)
  <2>1. \A i \in DOMAIN todo : ~(e.seq < todo[i].seq)
    BY <1>1, <1>4 DEF SessionInv, AgainBelow, Stamped
  <2>2. \A i \in DOMAIN c.sent : ~(e.seq < c.sent[i].seq)
    BY <1>1, <1>3, <1>4, <1>5, <1>7 DEF Ascends, Stamped
  <2> QED BY <2>1, <2>2 DEF Ahead, Apart
<1>10. Apart1(waiting)
  BY <1>1, <1>3, <1>8, MoreApart DEF ChainInv
<1>11. Waits(waiting)
  <2> HIDE DEF waiting
  <2>1. ASSUME NEW i \in DOMAIN waiting, NEW j \in DOMAIN waiting, i < j
        PROVE  waiting[i].press < waiting[j].press
    <3>1. i \in DOMAIN pend /\ waiting[i] = pend[i] /\ pend[i].press < presses + 1
      <4>1. i \in DOMAIN pend /\ waiting[i] = pend[i]
        BY <1>6, <2>1
      <4>2. pend[i].press <= presses /\ pend[i].press \in Nat
        BY <1>1, <4>1 DEF SessionInv, PressedBy, Stamped
      <4> QED BY <1>1, <4>1, <4>2
    <3>2. CASE waiting[j] = e
      BY <1>4, <3>1, <3>2
    <3>3. CASE j \in DOMAIN pend /\ waiting[j] = pend[j]
      BY <2>1, <3>1, <3>3 DEF SessionInv, Waits
    <3> QED BY <1>6, <3>2, <3>3
  <2> QED BY <2>1 DEF Waits
<1> HIDE DEF waiting
<1>12. \A s : Apart2(s, cl.sent) /\ Behind(s, e) => Apart2(s, c.sent)
  BY <1>5, ApartAddsRight
<1>13. \A s : Apart2(s, pend) /\ Behind(s, e) => Apart2(s, waiting)
  BY <1>6, ApartAddsRight
<1>14. \A t : Apart2(pend, t) /\ Ahead(e, t) => Apart2(waiting, t)
  BY <1>6, ApartAdds
<1>15. ChainInv'
  <2>1. Newest' = Newest
    BY <1>2 DEF Newest
  <2>2. Ahead(Newest, waiting) /\ Ahead(Newest, c.sent)
    BY <1>5, <1>6, <1>8, AheadAdds DEF ChainInv
  <2>3. \A s \in {old, up} : Apart2(s, waiting) /\ Apart2(s, c.sent)
    BY <1>8, <1>12, <1>13 DEF ChainInv
  <2>4. Apart2(waiting, todo) /\ Apart2(waiting, c.sent) /\ Apart2(todo, c.sent)
    BY <1>8, <1>9, <1>12, <1>14 DEF ChainInv
  <2> QED BY <1>2, <1>10, <2>1, <2>2, <2>3, <2>4 DEF ChainInv
<1>16. SessionInv'
  <2>1. \A s \in {todo, up, old, pend, cl.sent} : PressedBy(s, presses + 1)
    BY <1>1, NextPress DEF SessionInv
  <2>2. PressedBy(c.sent, presses + 1) /\ PressedBy(waiting, presses + 1)
    <3>1. e.press <= presses + 1
      BY <1>1, <1>4
    <3> QED BY <1>5, <1>6, <2>1, <3>1, PressedAdds
  <2>3. AgainBelow(todo, c, waiting)
    <3>1. \A i \in DOMAIN todo : todo[i].seq <= cl.next /\ todo[i].seq \in Nat
      BY <1>1 DEF SessionInv, AgainBelow, Stamped
    <3>2. \A i \in DOMAIN todo : todo[i].seq <= c.next /\ todo[i].seq # c.next
      BY <1>1, <1>3, <3>1
    <3> QED BY <3>2 DEF AgainBelow
  <2>4. last <= presses + 1
    BY <1>1 DEF SessionInv
  <2> QED BY <1>2, <1>5, <1>11, <2>1, <2>2, <2>3, <2>4 DEF SessionInv
<1> QED BY <1>15, <1>16

\* The first of a list moves to the frames under way.
LEMMA MoveOn ==
    ASSUME NEW u \in Seq(Frame), NEW s \in Seq(Frame), s # <<>>,
           Apart1(u), Apart1(s), Apart2(u, s)
    PROVE  LET a == Append(u, Head(s))
           IN  /\ a \in Seq(Frame) /\ Apart1(a) /\ Apart2(a, Tail(s)) /\ Apart1(Tail(s))
               /\ Within(Tail(s), s)
               /\ \A f : Ahead(f, u) /\ Ahead(f, s) => Ahead(f, a)
               /\ \A r : Apart2(r, u) /\ Apart2(r, s) => Apart2(r, a)
               /\ \A t : Apart2(u, t) /\ Apart2(s, t) => Apart2(a, t)
               /\ \A n : PressedBy(u, n) /\ PressedBy(s, n) => PressedBy(a, n)
<1> DEFINE h == Head(s)
           rest == Tail(s)
           a == Append(u, h)
<1>1. /\ h \in Frame /\ h = s[1] /\ 1 \in DOMAIN s /\ Within(rest, s)
      /\ Ahead(h, rest) /\ Apart1(rest)
  BY HeadAndTail, HeadFirst
<1> HIDE DEF h, rest
<1>2. a \in Seq(Frame) /\ Adds(a, u, h)
  BY <1>1, OneMore
<1>3. Behind(u, h)
  BY <1>1, OneApart
<1>4. Apart1(a)
  BY <1>1, <1>3, MoreApart
<1> HIDE DEF a
<1>5. ASSUME NEW f, Ahead(f, u), Ahead(f, s) PROVE Ahead(f, a)
  <2>1. Apart(f, h)
    BY <1>1, <1>5 DEF Ahead
  <2> QED BY <1>2, <1>5, <2>1, AheadAdds
<1>6. ASSUME NEW r, Apart2(r, u), Apart2(r, s) PROVE Apart2(r, a)
  <2>1. Behind(r, h)
    BY <1>1, <1>6, OneApart
  <2> QED BY <1>2, <1>6, <2>1, ApartAddsRight
<1>7. ASSUME NEW t, Apart2(u, t), Apart2(s, t) PROVE Apart2(a, t)
  <2>1. Ahead(h, t)
    BY <1>1, <1>7, OneApart
  <2> QED BY <1>2, <1>7, <2>1, ApartAdds
<1>8. ASSUME NEW n, PressedBy(u, n), PressedBy(s, n) PROVE PressedBy(a, n)
  <2>1. h.press <= n
    BY <1>1, <1>8 DEF PressedBy
  <2> QED BY <1>2, <1>8, <2>1, PressedAdds
<1>9. Apart2(a, rest)
  <2>1. Apart2(u, rest)
    BY <1>1, WithinItself, ApartWithin
  <2> QED BY <1>1, <1>2, <2>1, ApartAdds
<1> QED BY <1>1, <1>2, <1>4, <1>5, <1>6, <1>7, <1>8, <1>9 DEF a, h, rest

LEMMA TransmitOrder ==
    ASSUME PlaybackTypes, SessionInv, ChainInv, Transmit, link
    PROVE  SessionInv' /\ ChainInv'
<1> DEFINE u == Append(up, Head(pend))
           rest == Tail(pend)
<1>1. /\ up \in Seq(Frame) /\ pend \in Seq(Sent) /\ pend \in Seq(Frame) /\ pend # <<>>
      /\ Apart1(up) /\ Apart1(pend) /\ Apart2(up, pend) /\ Waits(pend)
  BY SentFrames DEF PlaybackTypes, ClientTypes, NetTypes, Transmit, ChainInv, SessionInv
<1>2. /\ Apart1(u) /\ Apart2(u, rest) /\ Apart1(rest) /\ Within(rest, pend)
      /\ \A f : Ahead(f, up) /\ Ahead(f, pend) => Ahead(f, u)
      /\ \A r : Apart2(r, up) /\ Apart2(r, pend) => Apart2(r, u)
      /\ \A t : Apart2(up, t) /\ Apart2(pend, t) => Apart2(u, t)
      /\ \A n : PressedBy(up, n) /\ PressedBy(pend, n) => PressedBy(u, n)
  BY <1>1, MoveOn
<1>3. Waits(rest)
  BY <1>1, HeadFirst
<1>4. up' = u /\ pend' = rest /\ UNCHANGED <<cl, todo, old, down, presses, last, room>>
  BY DEF Transmit
<1> HIDE DEF u, rest
<1>5. ChainInv'
  <2>1. Newest' = Newest
    BY <1>4 DEF Newest
  <2>2. Ahead(Newest, u) /\ Ahead(Newest, rest)
    BY <1>2, AheadWithin DEF ChainInv
  <2>3. Apart2(old, u) /\ Apart2(old, rest)
    BY <1>2, WithinItself, ApartWithin DEF ChainInv
  <2>4. \A t \in {todo, cl.sent} : Apart2(u, t) /\ Apart2(rest, t)
    <3>1. \A t \in {todo, cl.sent} : Apart2(up, t) /\ Apart2(pend, t)
      BY DEF ChainInv
    <3> QED BY <1>2, <3>1, WithinItself, ApartWithin
  <2> QED BY <1>2, <1>4, <2>1, <2>2, <2>3, <2>4 DEF ChainInv
<1>6. SessionInv'
  <2>1. PressedBy(u, presses) /\ PressedBy(rest, presses)
    BY <1>2, PressedWithin DEF SessionInv
  <2>2. AgainBelow(todo, cl, rest)
    BY <1>2, WithinItself, AgainBelowWithin DEF SessionInv
  <2> QED BY <1>3, <1>4, <2>1, <2>2 DEF SessionInv
<1> QED BY <1>5, <1>6

\* A number is given back: with it goes the command it was for, and no
\* remembered one still waits.
LEMMA GiveBackOrder ==
    ASSUME PlaybackTypes, SessionInv, ChainInv, Transmit, ~link, ~astray'
    PROVE  SessionInv' /\ ChainInv'
<1> DEFINE h == Head(pend)
           rest == Tail(pend)
           d == GiveBack(cl, h.seq)
<1>1. /\ pend \in Seq(Sent) /\ pend # <<>> /\ Apart1(pend) /\ Waits(pend) /\ cl \in SeqState
      /\ todo \in Seq(Sent)
  BY DEF PlaybackTypes, ClientTypes, Transmit, ChainInv, SessionInv
<1>2. /\ h \in Sent /\ h = pend[1] /\ 1 \in DOMAIN pend /\ Within(rest, pend)
      /\ Apart1(rest) /\ Waits(rest) /\ \A i \in DOMAIN rest : h.press < rest[i].press
  BY <1>1, HeadAndTail, HeadFirst
<1>3. h.seq \in Nat /\ h.press \in Nat
  BY <1>2 DEF Sent
<1>4. /\ pend' = rest /\ cl' = d /\ UNCHANGED <<up, todo, old, down, presses, last, room>>
      /\ GivesBackOwn(h)
  BY DEF Transmit
<1> HIDE DEF h, rest
<1>5. /\ DOMAIN d.sent \subseteq DOMAIN cl.sent /\ \A i \in DOMAIN d.sent : d.sent[i] = cl.sent[i]
      /\ cl.next # h.seq + 1 => d = cl
      /\ cl.next = h.seq + 1 =>
           /\ d.next = h.seq
           /\ cl.sent # <<>> => Len(cl.sent) \in DOMAIN cl.sent /\ Len(cl.sent) \notin DOMAIN d.sent
      /\ Ascends(cl) => Ascends(d)
  <2>1. GivenBack(cl, h.seq, d)
    BY <1>1, <1>3, GiveBackFacts
  <2> HIDE DEF d
  <2> QED BY <2>1 DEF GivenBack
<1> HIDE DEF d
<1>6. Within(d.sent, cl.sent)
  BY <1>5 DEF Within
<1>7. ChainInv'
  <2>1. Newest' = Newest
    BY <1>4 DEF Newest
  <2>2. Ahead(Newest, rest) /\ Ahead(Newest, d.sent)
    BY <1>2, <1>6, AheadWithin DEF ChainInv
  <2>3. \A s \in {old, up} : Apart2(s, rest) /\ Apart2(s, d.sent)
    <3>1. \A s \in {old, up} : Apart2(s, pend) /\ Apart2(s, cl.sent)
      BY DEF ChainInv
    <3> QED BY <1>2, <1>6, <3>1, WithinItself, ApartWithin
  <2>4. Apart2(rest, todo) /\ Apart2(rest, d.sent) /\ Apart2(todo, d.sent)
    BY <1>2, <1>6, WithinItself, ApartWithin DEF ChainInv
  <2> QED BY <1>2, <1>4, <2>1, <2>2, <2>3, <2>4 DEF ChainInv
<1>8. AgainBelow(todo, d, rest)
  <2>1. CASE cl.next # h.seq + 1
    BY <1>2, <1>5, <2>1, WithinItself, AgainBelowWithin DEF SessionInv
  <2>2. CASE cl.next = h.seq + 1
    <3> DEFINE n == Len(cl.sent)
    <3>1. /\ cl.sent # <<>> /\ n \in DOMAIN cl.sent /\ n \notin DOMAIN d.sent /\ d.next = h.seq
          /\ cl.sent[n].press = h.press
      BY <1>4, <1>5, <2>2 DEF GivesBackOwn, Last
    <3>2. DOMAIN cl.sent = 1 .. n /\ n \in Nat /\ \A j \in DOMAIN cl.sent : cl.sent[j] \in Sent
      <4>1. cl.sent \in Seq(Sent)
        BY <1>1 DEF SeqState
      <4> QED BY <4>1
    <3> HIDE DEF n
    <3>3. ASSUME NEW i \in DOMAIN todo PROVE todo[i].seq <= d.next
      <4>1. todo[i].seq <= cl.next /\ todo[i].seq # cl.next
        BY <1>2, <3>1 DEF SessionInv, AgainBelow
      <4>2. todo[i] \in Sent
        BY <1>1
      <4>3. todo[i].seq \in Nat
        BY <4>2 DEF Sent
      <4> QED BY <1>3, <2>2, <3>1, <4>1, <4>3
    <3>4. ASSUME NEW j \in DOMAIN d.sent, NEW k \in DOMAIN rest
          PROVE  d.sent[j].press # rest[k].press
      <4>1. j \in DOMAIN cl.sent /\ d.sent[j] = cl.sent[j] /\ j < n
        BY <1>5, <3>1, <3>2
      <4>2. cl.sent[j].press < cl.sent[n].press
        BY <3>1, <4>1 DEF SessionInv, Ascends
      <4>3. cl.sent[j] \in Sent
        BY <3>2, <4>1
      <4>4. cl.sent[j].press \in Nat
        BY <4>3 DEF Sent
      <4>5. h.press < rest[k].press
        BY <1>2
      <4> QED BY <1>3, <3>1, <4>1, <4>2, <4>4, <4>5
    <3> QED BY <3>3, <3>4 DEF AgainBelow
  <2> QED BY <2>1, <2>2
<1>9. SessionInv'
  <2>1. PressedBy(d.sent, presses) /\ PressedBy(rest, presses)
    BY <1>2, <1>6, PressedWithin DEF SessionInv
  <2>2. Ascends(d)
    BY <1>5 DEF SessionInv
  <2> QED BY <1>2, <1>4, <1>8, <2>1, <2>2 DEF SessionInv
<1> QED BY <1>7, <1>9

LEMMA SendRejoinOrder ==
    ASSUME PlaybackTypes, SessionInv, ChainInv, SendRejoin
    PROVE  SessionInv' /\ ChainInv'
<1> DEFINE u == Append(up, JoinRequest)
<1>1. /\ up \in Seq(Frame) /\ JoinRequest \in Frame /\ room.acked \in Nat /\ presses \in Nat
      /\ Stamped(up) /\ Stamped(old) /\ Stamped(pend) /\ Stamped(todo) /\ Stamped(cl.sent)
  <2>1. cl \in SeqState /\ pend \in Seq(Sent) /\ todo \in Seq(Sent) /\ presses \in Nat
        /\ up \in Seq(Frame) /\ old \in Seq(Frame) /\ room.acked \in Nat
    BY DEF PlaybackTypes, ClientTypes, NetTypes, RoomState
  <2>2. cl.sent \in Seq(Sent)
    BY <2>1 DEF SeqState
  <2> QED BY <2>1, <2>2, SentFrames, FramesStamped, FrameFields
<1>2. JoinRequest.seq = 0 /\ JoinRequest.press = 0
  BY DEF JoinRequest
<1>3. \A s : Stamped(s) => Behind(s, JoinRequest) /\ Ahead(JoinRequest, s)
  <2> TAKE s
  <2> SUFFICES ASSUME Stamped(s) PROVE Behind(s, JoinRequest) /\ Ahead(JoinRequest, s)
    OBVIOUS
  <2>1. \A i \in DOMAIN s : ~(s[i].seq < 0) /\ 0 <= s[i].press
    BY DEF Stamped
  <2> QED BY <1>2, <2>1 DEF Behind, Ahead, Apart
<1>4. Adds(u, up, JoinRequest) /\ Apart1(u)
  <2>1. Behind(up, JoinRequest) /\ Apart1(up)
    BY <1>1, <1>3 DEF ChainInv
  <2> QED BY <1>1, <2>1, OneMore, MoreApart
<1>5. up' = u /\ UNCHANGED <<pend, cl, todo, old, down, presses, last, room>>
  BY DEF SendRejoin, historyVars
<1> HIDE DEF u
<1>6. ChainInv'
  <2>1. Newest' = Newest
    BY <1>5 DEF Newest
  <2>2. Ahead(Newest, u)
    <3>1. Apart(Newest, JoinRequest)
      BY <1>1, <1>2 DEF Apart, Newest
    <3> QED BY <1>4, <3>1, AheadAdds DEF ChainInv
  <2>3. Apart2(old, u)
    BY <1>1, <1>3, <1>4, ApartAddsRight DEF ChainInv
  <2>4. \A t \in {pend, todo, cl.sent} : Apart2(u, t)
    <3>1. \A t \in {pend, todo, cl.sent} : Apart2(up, t) /\ Ahead(JoinRequest, t)
      BY <1>1, <1>3 DEF ChainInv
    <3> QED BY <1>4, <3>1, ApartAdds
  <2> QED BY <1>4, <1>5, <2>1, <2>2, <2>3, <2>4 DEF ChainInv
<1>7. SessionInv'
  <2>1. PressedBy(u, presses)
    <3>1. JoinRequest.press <= presses
      BY <1>1, <1>2
    <3> QED BY <1>4, <3>1, PressedAdds DEF SessionInv
  <2> QED BY <1>5, <2>1 DEF SessionInv
<1> QED BY <1>6, <1>7

LEMMA ResendOrder ==
    ASSUME PlaybackTypes, SessionInv, ChainInv, Resend
    PROVE  SessionInv' /\ ChainInv'
<1> DEFINE u == Append(up, Head(todo))
           rest == Tail(todo)
<1>1. /\ up \in Seq(Frame) /\ todo \in Seq(Sent) /\ todo \in Seq(Frame) /\ todo # <<>> /\ pend = <<>>
      /\ Apart1(up) /\ Apart1(todo) /\ Apart2(up, todo)
  BY SentFrames DEF PlaybackTypes, ClientTypes, NetTypes, Resend, ChainInv
<1>2. /\ Apart1(u) /\ Apart2(u, rest) /\ Apart1(rest) /\ Within(rest, todo)
      /\ \A f : Ahead(f, up) /\ Ahead(f, todo) => Ahead(f, u)
      /\ \A r : Apart2(r, up) /\ Apart2(r, todo) => Apart2(r, u)
      /\ \A t : Apart2(up, t) /\ Apart2(todo, t) => Apart2(u, t)
      /\ \A n : PressedBy(up, n) /\ PressedBy(todo, n) => PressedBy(u, n)
  BY <1>1, MoveOn
<1>3. /\ \/ up' = u /\ todo' = rest
         \/ up' = up /\ todo' = <<>>
      /\ UNCHANGED <<cl, pend, old, down, presses, last, room>>
  BY DEF Resend, historyVars
<1> HIDE DEF u, rest
<1>4. \A s : Apart2(s, pend)
  BY <1>1 DEF Apart2, Ahead
<1>5. Apart1(<<>>)
  BY DEF Apart1
<1>6. Within(todo', todo) /\ Apart1(todo') /\ Newest' = Newest
  BY <1>2, <1>3, <1>5, WithinItself DEF Newest
<1>7. Ahead(Newest, up') /\ Apart2(old, up') /\ Apart1(up') /\ Apart2(up', cl.sent)
      /\ PressedBy(up', presses)
  <2>1. Ahead(Newest, u) /\ Apart2(old, u) /\ Apart2(u, cl.sent) /\ PressedBy(u, presses)
    BY <1>2 DEF ChainInv, SessionInv
  <2> QED BY <1>2, <1>3, <2>1 DEF ChainInv, SessionInv
<1>8. Apart2(up', todo')
  <2>1. Apart2(up, todo')
    BY <1>1, <1>6, WithinItself, ApartWithin
  <2> QED BY <1>2, <1>3, <2>1
<1>9. Ahead(Newest, todo') /\ Apart2(old, todo') /\ Apart2(pend, todo') /\ Apart2(todo', cl.sent)
  BY <1>6, WithinItself, AheadWithin, ApartWithin DEF ChainInv
<1>10. ChainInv'
  BY <1>3, <1>4, <1>6, <1>7, <1>8, <1>9 DEF ChainInv
<1>11. SessionInv'
  <2>1. PressedBy(todo', presses)
    BY <1>6, PressedWithin DEF SessionInv
  <2>2. AgainBelow(todo', cl, pend)
    BY <1>6, WithinItself, AgainBelowWithin DEF SessionInv
  <2> QED BY <1>3, <1>7, <2>1, <2>2 DEF SessionInv
<1> QED BY <1>10, <1>11

\* The commands remembered are, among themselves, in order.
LEMMA AscendsApart ==
    ASSUME NEW c \in SeqState, Ascends(c)
    PROVE  /\ Apart1(c.sent) /\ Apart2(c.sent, c.sent)
           /\ \A p : AgainBelow(c.sent, c, p)
<1>1. /\ DOMAIN c.sent \subseteq Int /\ c.next \in Nat
      /\ \A i \in DOMAIN c.sent : c.sent[i].seq \in Nat /\ c.sent[i].press \in Nat
  <2>1. c.sent \in Seq(Sent) /\ c.next \in Nat
    BY DEF SeqState
  <2>2. Stamped(c.sent) /\ DOMAIN c.sent = 1 .. Len(c.sent)
    BY <2>1, SentFrames
  <2> QED BY <2>1, <2>2 DEF Stamped
<1>2. ASSUME NEW i \in DOMAIN c.sent, NEW j \in DOMAIN c.sent, c.sent[i].seq < c.sent[j].seq
      PROVE  c.sent[i].press <= c.sent[j].press
  <2>1. i < j \/ i = j \/ j < i
    BY <1>1
  <2>2. CASE i < j
    BY <1>1, <2>2 DEF Ascends
  <2>3. CASE i = j \/ j < i
    BY <1>1, <1>2, <2>3 DEF Ascends
  <2> QED BY <2>1, <2>2, <2>3
<1>3. \A i \in DOMAIN c.sent : c.sent[i].seq <= c.next /\ c.sent[i].seq # c.next
  BY <1>1 DEF Ascends
<1> QED BY <1>2, <1>3 DEF Apart1, Apart2, Ahead, Apart, AgainBelow

LEMMA InboundOrder ==
    ASSUME PlaybackTypes, PlaybackTypes', SessionInv, ChainInv, Inbound
    PROVE  SessionInv' /\ ChainInv'
<1> DEFINE a    == Head(down)
           plan == PlanResync(cl, a.expected, a.code = "InvalidState")
<1>1. down # <<>> /\ todo = <<>> /\ Ascends(cl)
  BY DEF Inbound, SessionInv
<1>2. /\ a = down[1] /\ 1 \in DOMAIN down /\ Within(Tail(down), down)
      /\ plan.resend = <<>> \/ plan.resend = plan.cl.sent
      /\ plan.cl \in SeqState /\ Ascends(plan.cl) /\ Renumbers(plan.cl.sent, cl.sent)
  <2>1. Ascends(cl) => Ascends(plan.cl) /\ Renumbers(plan.cl.sent, cl.sent)
    BY <1>1, InboundPlan
  <2> QED BY <1>1, <2>1, InboundPlan
<1>3. /\ down' = Tail(down)
      /\ \/ UNCHANGED <<cl, todo>>
         \/ cl' = plan.cl /\ todo' \in {<<>>, plan.resend}
      /\ UNCHANGED <<room, presses, pend, up, old, last>>
  <2>1. a.code # "NotJoined"
    BY <1>2 DEF SessionInv, Seated
  <2> HIDE DEF plan
  <2> QED BY <1>1, <2>1 DEF Inbound, plan, historyVars
<1> HIDE DEF a, plan
<1>4. Newest' = Newest /\ Within(down', down)
  BY <1>2, <1>3 DEF Newest
<1>5. CASE UNCHANGED <<cl, todo>>
  BY <1>3, <1>4, <1>5, WithinItself, NothingNew
<1>6. CASE cl' = plan.cl /\ todo' \in {<<>>, plan.resend}
  <2> DEFINE s == plan.cl.sent
  <2>1. /\ Stamped(s) /\ Stamped(cl.sent) /\ Stamped(old) /\ Stamped(up) /\ Stamped(pend)
        /\ Newest.seq \in Nat /\ Newest.press \in Nat
    <3>1. /\ s \in Seq(Sent) /\ cl.sent \in Seq(Sent) /\ pend \in Seq(Sent)
          /\ up \in Seq(Frame) /\ old \in Seq(Frame)
      BY <1>2 DEF PlaybackTypes, ClientTypes, NetTypes, SeqState
    <3>2. Newest.seq \in Nat /\ Newest.press \in Nat
      BY DEF Newest, PlaybackTypes, RoomState
    <3> HIDE DEF s
    <3> QED BY <3>1, <3>2, SentFrames, FramesStamped
  <2>2. todo' = <<>> \/ todo' = s
    BY <1>2, <1>6
  <2> HIDE DEF s
  <2>3. Ahead(Newest, s)
    BY <1>2, <2>1, AheadRenumbers DEF ChainInv, s
  <2>4. \A r \in {old, up, pend} : Apart2(r, s)
    <3>1. \A r \in {old, up, pend} : Apart2(r, cl.sent) /\ Stamped(r)
      BY <2>1 DEF ChainInv
    <3>2. Renumbers(s, cl.sent)
      BY <1>2 DEF s
    <3> QED BY <2>1, <3>1, <3>2, ApartRenumbers
  <2>5. Apart1(s) /\ Apart2(s, s) /\ \A p : AgainBelow(s, plan.cl, p)
    BY <1>2, AscendsApart DEF s
  <2>6. PressedBy(s, presses)
    <3>1. PressedBy(cl.sent, presses)
      BY DEF SessionInv
    <3>2. Renumbers(s, cl.sent)
      BY <1>2 DEF s
    <3> QED BY <3>1, <3>2 DEF PressedBy, Renumbers
  <2>7. Within(todo', s)
    BY <2>2, WithinItself
  <2>8. Ahead(Newest, todo') /\ \A r \in {old, up, pend} : Apart2(r, todo')
    BY <2>3, <2>4, <2>7, WithinItself, AheadWithin, ApartWithin
  <2>9. Apart2(todo', s) /\ Apart1(todo') /\ PressedBy(todo', presses)
    <3>1. Apart2(todo', s) /\ PressedBy(todo', presses)
      BY <2>5, <2>6, <2>7, WithinItself, ApartWithin, PressedWithin
    <3>2. Apart1(<<>>)
      BY DEF Apart1
    <3> QED BY <2>2, <2>5, <3>1, <3>2
  <2>10. AgainBelow(todo', plan.cl, pend)
    BY <2>5, <2>7, WithinItself, AgainBelowWithin
  <2>11. cl' = plan.cl /\ cl'.sent = s
    BY <1>6 DEF s
  <2>12. ChainInv'
    BY <1>3, <1>4, <2>3, <2>4, <2>8, <2>9, <2>11 DEF ChainInv
  <2>13. Seated(down')
    BY <1>4 DEF Within, Seated, SessionInv
  <2>14. SessionInv'
    BY <1>2, <1>3, <2>6, <2>9, <2>10, <2>11, <2>13 DEF SessionInv
  <2> QED BY <2>12, <2>14
<1> QED BY <1>3, <1>5, <1>6

LEMMA OrderInit == PlaybackInit => OrderInv
<1> SUFFICES ASSUME PlaybackInit PROVE OrderInv
  OBVIOUS
<1> USE DEF PlaybackInit
<1>1. PlaybackTypes
  <2>1. room \in RoomState
    BY DEF RoomState
  <2>2. cl \in SeqState
    BY NewNumbering
  <2>3. <<>> \in Seq(Sent) /\ <<>> \in Seq(Frame) /\ <<>> \in Seq(Answer)
    OBVIOUS
  <2>4. ClientTypes
    BY <2>2, <2>3 DEF ClientTypes
  <2>5. NetTypes
    BY <2>3 DEF NetTypes
  <2> QED BY <2>1, <2>4, <2>5 DEF PlaybackTypes
<1>2. cl.sent = <<>> /\ cl.known = 0 /\ room.acked = 0
  BY NewNumbering
<1>3. TellsTruth
  BY <1>2 DEF TellsTruth, Expected
<1>4. \A f : Ahead(f, <<>>)
  BY DEF Ahead
<1>5. \A s : Apart2(<<>>, s)
  BY DEF Apart2
<1>6. Apart1(<<>>) /\ Waits(<<>>) /\ Seated(<<>>) /\ PressedBy(<<>>, presses)
  BY DEF Apart1, Waits, Seated, PressedBy
<1>7. ChainInv
  BY <1>2, <1>4, <1>5, <1>6 DEF ChainInv
<1>8. Ascends(cl) /\ AgainBelow(<<>>, cl, <<>>)
  BY <1>2 DEF Ascends, AgainBelow
<1>9. SessionInv
  BY <1>2, <1>6, <1>8 DEF SessionInv
<1> QED BY <1>1, <1>3, <1>7, <1>9 DEF OrderInv

LEMMA OrderStep ==
    ASSUME SendAssumption, OrderInv, [PlaybackNext]_playbackVars
    PROVE  OrderInv'
<1>a. PlaybackTypes /\ TellsTruth /\ (InStep => SessionInv /\ ChainInv)
  BY DEF OrderInv
<1>b. PlaybackTypes'
  BY <1>a, TypesStep
<1>c. TellsTruth'
  BY <1>a, <1>b, TruthStep
<1>d. SUFFICES ASSUME ~forgot', ~astray', room'.seat
               PROVE  SessionInv' /\ ChainInv'
  BY <1>b, <1>c DEF OrderInv, InStep
<1>e. ASSUME room'.seat = room.seat, ~forgot, ~astray PROVE SessionInv /\ ChainInv /\ room.seat
  BY <1>a, <1>d, <1>e DEF InStep
<1>f. ASSUME UNCHANGED <<room.acked, room.seat, forgot, astray>>,
             UNCHANGED <<last, presses, pend, todo, cl>>,
             \/ up' = up /\ Within(old', old)
             \/ up' = <<>> /\ old' = up,
             Within(down', down)
      PROVE  SessionInv' /\ ChainInv'
  BY <1>d, <1>e, <1>f, NothingNew
<1>g. Within(old, old) /\ Within(down, down) /\ Within(<<>>, old)
  BY WithinItself
<1>1. CASE Serve
  <2>1. Head(up) \in Frame
    BY <1>1, <1>a, HeadAndTail DEF Serve, PlaybackTypes, NetTypes
  <2>2. Process(Head(up)) /\ astray' = astray
    BY <1>1 DEF Serve
  <2>3. ~forgot /\ room'.seat = room.seat
    BY <1>a, <1>d, <2>1, <2>2, ProcessFacts
  <2> QED BY <1>1, <1>a, <1>d, <1>e, <2>2, <2>3, ServeOrder
<1>2. CASE ServeLate
  <2>1. Head(old) \in Frame
    BY <1>2, <1>a, HeadAndTail DEF ServeLate, PlaybackTypes, NetTypes
  <2>2. (Process(Head(old)) \/ UNCHANGED <<room, last, forgot>>) /\ astray' = astray
    BY <1>2 DEF ServeLate
  <2>3. ~forgot /\ room'.seat = room.seat
    <3>1. CASE Process(Head(old))
      BY <1>a, <1>d, <2>1, <3>1, ProcessFacts
    <3>2. CASE UNCHANGED <<room, last, forgot>>
      BY <1>d, <3>2
    <3> QED BY <2>2, <3>1, <3>2
  <2> QED BY <1>2, <1>a, <1>d, <1>e, <2>2, <2>3, ServeLateOrder
<1>3. CASE SetPermission \/ OtherPlay
  <2>1. UNCHANGED <<room.acked, room.seat>>
    BY <1>3, <1>a DEF SetPermission, OtherPlay, PlaybackTypes, RoomState
  <2>2. UNCHANGED <<forgot, astray, last, presses, pend, todo, cl, up, old, down>>
    BY <1>3 DEF SetPermission, OtherPlay, clientVars, netVars, historyVars
  <2> QED BY <1>f, <1>g, <2>1, <2>2
<1>4. CASE Reap
  <2>1. room' = [room EXCEPT !.seat = FALSE]
    BY <1>4 DEF Reap
  <2> QED BY <1>a, <1>d, <2>1 DEF PlaybackTypes, RoomState
<1>5. CASE Drop
  <2>1. PICK k \in 0 .. Len(down) : down' = SubSeq(down, 1, k)
    BY <1>5 DEF Drop
  <2>2. Within(down', down)
    BY <1>a, <2>1, CutOff DEF PlaybackTypes, NetTypes
  <2>3. UNCHANGED <<room, forgot, astray, last, presses, pend, todo, cl>> /\ up' = <<>> /\ old' = up
    BY <1>5 DEF Drop, clientVars, historyVars
  <2> QED BY <1>f, <2>2, <2>3
<1>6. CASE Restart
  BY <1>6, <1>d DEF Restart
<1>7. CASE Reconnect
  <2>1. UNCHANGED <<room, forgot, astray, last, presses, pend, todo, cl, up, down>> /\ old' \in {<<>>, old}
    BY <1>7 DEF Reconnect, historyVars
  <2>2. Within(old', old)
    BY <1>g, <2>1
  <2> QED BY <1>f, <1>g, <2>1, <2>2
<1>8. CASE \E act \in PlaybackAction : Press(act)
  <2>1. PICK act \in PlaybackAction : Press(act)
    BY <1>8
  <2>2. UNCHANGED <<room, forgot, astray>>
    BY <2>1 DEF Press, historyVars
  <2>3. SessionInv /\ ChainInv
    BY <1>d, <1>e, <2>2
  <2> QED BY <1>a, <2>1, <2>3, PressOrder
<1>9. CASE Transmit
  <2>1. UNCHANGED <<room, forgot>> /\ ~astray
    BY <1>9, <1>d DEF Transmit
  <2>2. SessionInv /\ ChainInv
    BY <1>d, <1>e, <2>1
  <2>3. CASE link
    BY <1>9, <1>a, <2>2, <2>3, TransmitOrder
  <2>4. CASE ~link
    BY <1>9, <1>a, <1>d, <2>2, <2>4, GiveBackOrder
  <2> QED BY <2>3, <2>4
<1>10. CASE SendRejoin
  <2>1. UNCHANGED <<room, forgot, astray>>
    BY <1>10 DEF SendRejoin, historyVars
  <2>2. SessionInv /\ ChainInv
    BY <1>d, <1>e, <2>1
  <2> QED BY <1>10, <1>a, <2>2, SendRejoinOrder
<1>11. CASE Timeout
  <2>1. UNCHANGED <<room, forgot, astray, last, presses, pend, todo, cl, up, old, down>>
    BY <1>11 DEF Timeout, netVars, historyVars
  <2> QED BY <1>f, <1>g, <2>1
<1>12. CASE Inbound
  <2>1. UNCHANGED <<room, forgot, astray>>
    BY <1>12 DEF Inbound, historyVars
  <2>2. SessionInv /\ ChainInv
    BY <1>d, <1>e, <2>1
  <2> QED BY <1>12, <1>a, <1>b, <2>2, InboundOrder
<1>13. CASE Resend
  <2>1. UNCHANGED <<room, forgot, astray>>
    BY <1>13 DEF Resend, historyVars
  <2>2. SessionInv /\ ChainInv
    BY <1>d, <1>e, <2>1
  <2> QED BY <1>13, <1>a, <2>2, ResendOrder
<1>14. CASE UNCHANGED playbackVars
  <2>1. UNCHANGED <<room, forgot, astray, last, presses, pend, todo, cl, up, old, down>>
    BY <1>14 DEF playbackVars, clientVars, netVars, historyVars
  <2> QED BY <1>f, <1>g, <2>1
<1> QED
  BY <1>1, <1>2, <1>3, <1>4, <1>5, <1>6, <1>7, <1>8, <1>9, <1>10, <1>11, <1>12, <1>13, <1>14
     DEF PlaybackNext

\* Only a frame read from the live connection can change what was accepted
\* last without a change of what is left of the lost one.
LEMMA KeptStep ==
    ASSUME OrderInv, [PlaybackNext]_playbackVars, ~forgot', ~astray', UNCHANGED old
    PROVE  last' >= last
<1>a. PlaybackTypes /\ (InStep => SessionInv /\ ChainInv) /\ last \in Nat
  BY DEF OrderInv, PlaybackTypes
<1>b. ASSUME last' = last PROVE last' >= last
  BY <1>a, <1>b
<1>1. CASE Serve
  <2> DEFINE f == Head(up)
  <2>1. f \in Frame /\ f = up[1] /\ 1 \in DOMAIN up
    BY <1>1, <1>a, HeadAndTail DEF Serve, PlaybackTypes, NetTypes
  <2>2. Process(f) /\ ~astray
    BY <1>1 DEF Serve
  <2> HIDE DEF f
  <2>3. /\ ~forgot
        /\ \/ last' = last
           \/ room.seat /\ f.seq = room.acked + 1 /\ last' = f.press
    BY <1>a, <2>1, <2>2, ProcessFacts
  <2>4. CASE room.seat /\ f.seq = room.acked + 1 /\ last' = f.press
    <3>1. Ahead(Newest, up)
      BY <1>a, <2>2, <2>3, <2>4 DEF InStep, ChainInv
    <3>2. Apart(Newest, f)
      BY <2>1, <3>1 DEF Ahead
    <3>3. room.acked \in Nat /\ f.press \in Nat
      BY <1>a, <2>1, FrameFields DEF PlaybackTypes, RoomState
    <3>4. room.acked < f.seq => last <= f.press
      BY <3>2 DEF Apart, Newest
    <3> QED BY <1>a, <2>4, <3>3, <3>4
  <2> QED BY <1>b, <2>3, <2>4
<1>2. CASE ServeLate
  <2>1. old # <<>> /\ old' \in {<<>>, Tail(old)}
    BY <1>2 DEF ServeLate
  <2>2. Len(Tail(old)) # Len(old)
    <3>1. old \in Seq(Frame)
      BY <1>a DEF PlaybackTypes, NetTypes
    <3> QED BY <2>1, <3>1
  <2>3. old' # old
    BY <2>1, <2>2
  <2> QED BY <2>3
<1>3. CASE ~Serve /\ ~ServeLate
  <2>1. last' = last
    BY <1>3 DEF PlaybackNext, SetPermission, Reap, OtherPlay, Drop, Restart, Reconnect, Press,
                Transmit, SendRejoin, Timeout, Inbound, Resend, historyVars, playbackVars
  <2> QED BY <1>b, <2>1
<1> QED BY <1>1, <1>2, <1>3

LEMMA OrderInvHolds == PlaybackSpec => []OrderInv
<1>1. OrderInv /\ [PlaybackNext]_playbackVars => OrderInv'
  BY SendAssumption, OrderStep
<1> QED BY <1>1, OrderInit, PTL DEF PlaybackSpec

\* The room's order keeps the user's order: for every replay window and any
\* number of presses, losses, refusals and repairs, no command accepted from
\* the live connection is older than one accepted before it, as long as the
\* server has not forgotten the session and no failed send took back another
\* command's number.
THEOREM OrderHolds == PlaybackSpec => OrderKept
<1>1. OrderInv /\ [PlaybackNext]_playbackVars
        => [~forgot' /\ ~astray' /\ UNCHANGED old => last' >= last]_playbackVars
  BY KeptStep
<1> QED BY <1>1, OrderInvHolds, PTL DEF PlaybackSpec, OrderKept

\* A lost command silences nobody: for every replay window, one answer to one
\* more command puts the numbering of a quiet session back in step.
THEOREM RepairsHold == PlaybackSpec => []OneAnswerRepairs
<1>1. OrderInv => OneAnswerRepairs
  BY SendAssumption, TruthRepairs DEF OrderInv
<1> QED BY <1>1, OrderInvHolds, PTL

-----------------------------------------------------------------------------
(* The laser: types.                                                          *)

\* The constants are positive.
LEMMA LaserBounds ==
    /\ MIN_LASER_SEND_INTERVAL \in Nat \ {0} /\ LASER_KEEPALIVE \in Nat \ {0}
    /\ LASER_SEND_TIMEOUT \in Nat \ {0} /\ REMOTE_LASER_IDLE \in Nat \ {0}
    /\ SlowSend \in Nat \ {0} /\ WireDelay \in Nat \ {0} /\ SettledBy \in Nat \ {0}
BY LaserAssumption DEF LaserAssumption

\* A counter that stops at its top.
LEMMA Ticking == \A n, top \in Nat : n <= top => /\ Upto(n, top) \in 0..top
                                               /\ Upto(n, top) = IF n < top THEN n + 1 ELSE top
BY DEF Upto

-----------------------------------------------------------------------------
(* The sender.                                                                *)

Novel(f) == f.kind = "move" /\ f.new

\* Before a pump: a timer runs to its moment, what is held has been or waits to
\* be sent, and the frame before was the last position if there is one.
Poised(s) ==
    /\ s.held => ~s.disposed /\ ~s.off /\ (s.pending \/ s.last)
    /\ s.timer = "gate" => s.left = MIN_LASER_SEND_INTERVAL - s.sinceSend
    /\ s.timer = "keepalive" => s.left = LASER_KEEPALIVE - s.sinceMove
    /\ s.last => \/ s.sinceSend = s.sinceMove
                 \/ s.sinceSend = MIN_LASER_SEND_INTERVAL /\ s.sinceMove >= MIN_LASER_SEND_INTERVAL

\* After it: one call or one timer, and a call carries the newest position
\* unless a newer one waits.
Ordered(s, c) ==
    /\ Poised(s)
    /\ c.kind # "none" => s.timer = "none"
    /\ s.held /\ c.kind = "none" => s.timer = IF s.pending THEN "gate" ELSE "keepalive"
    /\ s.held /\ c.kind # "none" => (Novel(c) <=> ~s.pending)
    /\ c.kind = "move" => s.sinceMove <= c.age

\* The call a pump makes.
Made(p) == IF p.sends = "none" THEN NoCall ELSE [kind |-> p.sends, new |-> TRUE, age |-> 0]

\* What a pump comes to, p being what it returns.
PumpOf(s, p) ==
    /\ p.sender \in Senders /\ p.sends \in {"none", "move", "off"}
    /\ Made(p) \in Calls /\ Ordered(p.sender, Made(p))
    /\ p.sender.held <=> s.held
    /\ p.sender.disposed <=> s.disposed
    /\ ~s.off => p.sends # "off"
    /\ s.held /\ ~s.pending => /\ p.sends = "none" /\ p.sender.timer = "keepalive"
                               /\ p.sender.left = LASER_KEEPALIVE - s.sinceMove
    /\ s.held /\ s.pending /\ s.sinceSend < MIN_LASER_SEND_INTERVAL =>
          p.sends = "none" /\ p.sender.left = MIN_LASER_SEND_INTERVAL - s.sinceSend
    /\ s.held /\ s.pending /\ s.sinceSend = MIN_LASER_SEND_INTERVAL =>
          p.sends = "move" /\ p.sender.sinceMove = 0

\* The sender that has just made a call.
LEMMA SentOut ==
    ASSUME NEW u \in Senders
    PROVE  LET t == [NoTimer(u) EXCEPT !.sinceSend = 0]
           IN  /\ t \in Senders /\ t.timer = "none" /\ t.held = u.held /\ t.pending = u.pending
               /\ t.off = u.off /\ t.last = u.last /\ t.disposed = u.disposed
               /\ t.sinceMove = u.sinceMove /\ t.sinceSend = 0
<1> DEFINE n == [u EXCEPT !.timer = "none", !.left = 0]
<1>1. /\ n \in Senders /\ n.timer = "none" /\ n.held = u.held /\ n.pending = u.pending
      /\ n.off = u.off /\ n.last = u.last /\ n.disposed = u.disposed /\ n.sinceMove = u.sinceMove
  BY DEF Senders
<1>2. NoTimer(u) = n
  BY DEF NoTimer
<1> HIDE DEF n
<1>3. MIN_LASER_SEND_INTERVAL \in Nat
  BY LaserBounds
<1>4. /\ [n EXCEPT !.sinceSend = 0] \in Senders
      /\ \A f \in {"timer", "held", "pending", "off", "last", "disposed", "sinceMove"} :
            [n EXCEPT !.sinceSend = 0][f] = n[f]
      /\ [n EXCEPT !.sinceSend = 0].sinceSend = 0
  BY <1>1, <1>3 DEF Senders
<1> QED
  BY <1>1, <1>2, <1>4

\* The pump keeps the sender's order and makes the call that is due.
LEMMA PumpedIs == ASSUME NEW s \in Senders, Poised(s) PROVE PumpOf(s, Pumped(s))
<1> DEFINE p == Pumped(s)
           w == MIN_LASER_SEND_INTERVAL - s.sinceSend
<1> SUFFICES PumpOf(s, p)
  OBVIOUS
<1>0. /\ MIN_LASER_SEND_INTERVAL \in Nat /\ LASER_KEEPALIVE \in Nat /\ LASER_SEND_TIMEOUT \in Nat
      /\ s.sinceSend \in 0..MIN_LASER_SEND_INTERVAL /\ s.sinceMove \in 0..LASER_KEEPALIVE
      /\ {s.pending, s.off, s.held, s.moved, s.last, s.disposed} \subseteq BOOLEAN
      /\ s.timer \in {"none", "gate", "keepalive"} /\ s.left \in Nat
  BY LaserBounds DEF Senders
<1>1. w \in Nat /\ LASER_KEEPALIVE - s.sinceMove \in Nat
  BY <1>0
<1>2. NoCall \in Calls /\ \A k \in {"move", "off"} : [kind |-> k, new |-> TRUE, age |-> 0] \in Calls
  BY <1>0 DEF NoCall, Calls
<1>3. CASE s.disposed
  <2>1. p = [sender |-> s, sends |-> "none"]
    BY <1>3 DEF Pumped
  <2>2. ~s.held
    BY <1>3 DEF Poised
  <2> HIDE DEF p
  <2> QED
    BY <1>2, <2>1, <2>2 DEF Made, Ordered, NoCall, PumpOf
<1>4. CASE ~s.disposed /\ (s.off \/ s.pending) /\ w > 0
  <2> DEFINE t == IF s.timer = "gate" THEN s ELSE Armed(s, "gate", w)
  <2>1. p = [sender |-> t, sends |-> "none"]
    BY <1>0, <1>1, <1>4 DEF Pumped
  <2>2. /\ t \in Senders /\ t.timer = "gate" /\ t.left = w /\ t.held = s.held /\ t.pending = s.pending
        /\ t.off = s.off /\ t.last = s.last /\ t.disposed = s.disposed
        /\ t.sinceMove = s.sinceMove /\ t.sinceSend = s.sinceSend
    BY <1>0, <1>1 DEF Armed, Senders, Poised
  <2> HIDE DEF p, t
  <2>3. s.held => s.pending
    BY <1>4 DEF Poised
  <2>4. Poised(t)
    BY <2>2 DEF Poised
  <2> QED
    BY <1>0, <1>2, <1>4, <2>1, <2>2, <2>3, <2>4 DEF Made, Ordered, NoCall, PumpOf
<1>5. CASE ~s.disposed /\ s.off /\ w <= 0
  <2> DEFINE u == [s EXCEPT !.off = FALSE, !.moved = FALSE, !.last = FALSE]
             t == [NoTimer(u) EXCEPT !.sinceSend = 0]
  <2>1. p = [sender |-> t, sends |-> "off"]
    BY <1>0, <1>5 DEF Pumped
  <2>2. /\ t \in Senders /\ t.timer = "none" /\ t.held = s.held /\ t.pending = s.pending
        /\ t.off = FALSE /\ t.last = FALSE /\ t.disposed = s.disposed
    <3>1. /\ u \in Senders /\ u.held = s.held /\ u.pending = s.pending
          /\ u.off = FALSE /\ u.last = FALSE /\ u.disposed = s.disposed
      BY <1>0 DEF Senders
    <3> HIDE DEF u
    <3> QED
      BY <1>0, <3>1, SentOut
  <2> HIDE DEF p, t
  <2>3. ~s.held
    BY <1>5 DEF Poised
  <2> QED
    BY <1>2, <1>5, <2>1, <2>2, <2>3 DEF Made, Ordered, Poised, PumpOf
<1>6. CASE ~s.disposed /\ ~s.off /\ s.pending /\ w <= 0
  <2> DEFINE u == [s EXCEPT !.pending = FALSE, !.last = TRUE, !.moved = TRUE, !.sinceMove = 0]
             t == [NoTimer(u) EXCEPT !.sinceSend = 0]
  <2>1. p = [sender |-> t, sends |-> "move"]
    BY <1>0, <1>6 DEF Pumped
  <2>2. /\ t \in Senders /\ t.timer = "none" /\ t.held = s.held /\ t.pending = FALSE
        /\ t.off = s.off /\ t.last = TRUE /\ t.disposed = s.disposed /\ t.sinceMove = 0 /\ t.sinceSend = 0
    <3>1. u \in Senders
      <4> DEFINE v == [s EXCEPT !.pending = FALSE, !.last = TRUE, !.moved = TRUE]
      <4>1. v \in Senders
        BY DEF Senders
      <4>2. u = [v EXCEPT !.sinceMove = 0]
        BY DEF Senders
      <4> HIDE DEF v
      <4> QED
        BY <1>0, <4>1, <4>2 DEF Senders
    <3>2. u.pending = FALSE /\ u.sinceMove = 0 /\ u.last = TRUE
      BY DEF Senders
    <3>3. u.held = s.held /\ u.off = s.off /\ u.disposed = s.disposed
      BY DEF Senders
    <3> HIDE DEF u
    <3> QED
      BY <3>1, <3>2, <3>3, SentOut
  <2> HIDE DEF p, t
  <2> QED
    BY <1>0, <1>2, <1>6, <2>1, <2>2 DEF Made, Ordered, Poised, Novel, PumpOf
<1>7. CASE ~s.disposed /\ ~s.off /\ ~s.pending
  <2> DEFINE t == IF s.held /\ s.last THEN Armed(s, "keepalive", LASER_KEEPALIVE - s.sinceMove) ELSE s
  <2>1. p = [sender |-> t, sends |-> "none"]
    BY <1>0, <1>1, <1>7 DEF Pumped
  <2>2. CASE s.held
    <3>1. s.last
      BY <1>7, <2>2 DEF Poised
    <3>2. /\ t \in Senders /\ t.timer = "keepalive" /\ t.left = LASER_KEEPALIVE - s.sinceMove
          /\ t.held = s.held /\ t.pending = s.pending
          /\ t.off = s.off /\ t.last = s.last /\ t.disposed = s.disposed
          /\ t.sinceMove = s.sinceMove /\ t.sinceSend = s.sinceSend
      BY <1>0, <1>1, <2>2, <3>1 DEF Armed, Senders
    <3> HIDE DEF p, t
    <3>3. Poised(t)
      BY <3>2 DEF Poised
    <3> QED
      BY <1>2, <1>7, <2>1, <3>2, <3>3 DEF Made, Ordered, NoCall, PumpOf
  <2>3. CASE ~s.held
    <3>1. t = s
      BY <2>3
    <3> HIDE DEF p, t
    <3> QED
      BY <1>2, <1>7, <2>1, <2>3, <3>1 DEF Made, Ordered, NoCall, PumpOf
  <2> QED
    BY <2>2, <2>3
<1> HIDE DEF p
<1> QED
  BY <1>0, <1>1, <1>3, <1>4, <1>5, <1>6, <1>7

\* Only the kind of no call matters.
LEMMA NoneOrdered ==
    ASSUME NEW s \in Senders, NEW c, NEW d, Ordered(s, c), c.kind = "none", d.kind = "none"
    PROVE  Ordered(s, d)
BY DEF Ordered

\* What pump() leaves behind, whatever call is in flight.
LEMMA PumpLeaves ==
    ASSUME NEW s \in Senders, Poised(s), NEW c \in Calls, stray \in Strays,
           c.kind # "none" => Ordered(s, c), Pump(s, c)
    PROVE  /\ laser' \in Senders /\ call' \in Calls /\ stray' \in Strays /\ Ordered(laser', call')
           /\ laser'.held <=> s.held
           /\ laser'.disposed <=> s.disposed
           /\ call' = c \/ call'.age = 0
<1>1. PumpOf(s, Pumped(s))
  BY PumpedIs
<1>2. CASE c.kind # "none"
  BY <1>2 DEF Pump
<1>3. CASE c.kind = "none"
  <2> DEFINE p == Pumped(s)
  <2>1. /\ laser' = p.sender
        /\ call' = IF p.sends = "none" THEN c ELSE [kind |-> p.sends, new |-> TRUE, age |-> 0]
        /\ stray' = IF p.sends = "none" THEN stray ELSE [stray EXCEPT !.latest = FALSE]
    BY <1>3 DEF Pump
  <2>2. PumpOf(s, p)
    BY <1>1
  <2> HIDE DEF p
  <2>3. [stray EXCEPT !.latest = FALSE] \in Strays
    BY DEF Strays
  <2>4. CASE p.sends = "none"
    <3>1. Made(p).kind = "none"
      BY <2>4 DEF Made, NoCall
    <3>2. Ordered(p.sender, c)
      BY <1>3, <2>2, <3>1, NoneOrdered DEF PumpOf
    <3> QED
      BY <2>1, <2>2, <2>4, <3>2 DEF PumpOf
  <2>5. CASE p.sends # "none"
    <3>1. call' = Made(p) /\ call'.age = 0
      BY <2>1, <2>5 DEF Made
    <3> QED
      BY <2>1, <2>2, <2>3, <2>5, <3>1 DEF PumpOf
  <2> QED
    BY <2>4, <2>5
<1> QED
  BY <1>2, <1>3

-----------------------------------------------------------------------------
(* Types and the sender's order.                                              *)

LaserInv ==
    /\ LaserTypeOK
    /\ Ordered(laser, call)
    /\ final => laser.disposed
    /\ calm > 0 /\ call.kind # "none" => call.age <= SlowSend

\* At the start.
LEMMA LaserInitInv == LaserInit => LaserInv
<1> SUFFICES ASSUME LaserInit PROVE LaserInv
  OBVIOUS
<1>1. laser \in Senders
  BY LaserBounds DEF LaserInit, Unused, Senders
<1>2. call \in Calls /\ call.kind = "none"
  BY LaserBounds DEF LaserInit, NoCall, Calls
<1>3. stray \in Strays /\ trail \in Trails /\ relay \in Seq(Frames) /\ final = FALSE /\ calm = 0 /\ gone = FALSE
  <2>1. NoStray \in Strays
    BY DEF NoStray, Strays
  <2>2. NoTrail \in Trails
    BY LaserBounds DEF NoTrail, Trails
  <2> QED
    BY <2>1, <2>2 DEF LaserInit
<1>4. laser.held = FALSE /\ laser.timer = "none" /\ laser.last = FALSE /\ laser.disposed = FALSE
  BY DEF LaserInit, Unused
<1>5. LaserTypeOK
  <2>1. calm \in 0..SettledBy
    BY <1>3, LaserBounds
  <2> QED
    BY <1>1, <1>2, <1>3, <2>1 DEF LaserTypeOK
<1>6. Poised(laser)
  BY <1>4 DEF Poised
<1>7. Ordered(laser, call)
  BY <1>2, <1>4, <1>6 DEF Ordered
<1> QED
  BY <1>2, <1>3, <1>5, <1>7 DEF LaserInv

\* A frame that goes out, and one that is no longer the newest.
LEMMA SendsType ==
    ASSUME LaserTypeOK, NEW f, f.kind \in {"move", "off"}, f.new \in BOOLEAN, Sends(f)
    PROVE  relay' \in Seq(Frames) /\ gone' = gone
<1>1. [kind |-> f.kind, new |-> f.new, age |-> 0] \in Frames
  BY LaserBounds DEF Frames
<1> QED
  BY <1>1, AppendProperties DEF Sends, LaserTypeOK

\* A copy that is not the newest any more.
LEMMA OldType ==
    /\ \A c \in Calls : Old(c) \in Calls /\ Old(c).kind = c.kind /\ Old(c).age = c.age /\ Old(c).new = FALSE
    /\ \A f \in Strays : Old(f) \in Strays
    /\ \A f \in Frames : Old(f) \in Frames
    /\ \A t \in Trails : Old(t) \in Trails
<1>1. \A c \in Calls : Old(c) \in Calls /\ Old(c).kind = c.kind /\ Old(c).age = c.age /\ Old(c).new = FALSE
  BY DEF Old, Calls
<1>2. \A f \in Strays : Old(f) \in Strays
  BY DEF Old, Strays
<1>3. \A f \in Frames : Old(f) \in Frames
  BY DEF Old, Frames
<1>4. \A t \in Trails : Old(t) \in Trails
  BY DEF Old, Trails
<1> QED
  BY <1>1, <1>2, <1>3, <1>4

\* The actions of the sender's user.
LEMMA LaserMovesKeeps == ASSUME LaserInv, LaserMoves PROVE LaserInv' /\ laser'.held = TRUE
<1> DEFINE s == Moved(laser)
           p == Pumped(s)
<1>1. /\ laser \in Senders /\ call \in Calls /\ stray \in Strays /\ trail \in Trails
      /\ relay \in Seq(Frames) /\ Ordered(laser, call)
  BY DEF LaserInv, LaserTypeOK
<1>2. /\ s \in Senders /\ s.pending = TRUE /\ s.held = TRUE /\ s.off = FALSE
      /\ s.timer = laser.timer /\ s.left = laser.left /\ s.disposed = laser.disposed /\ s.last = laser.last
      /\ s.sinceMove = laser.sinceMove /\ s.sinceSend = laser.sinceSend
  BY <1>1 DEF Moved, Senders
<1>3. Poised(s)
  <2> HIDE DEF s
  <2> QED
    BY <1>1, <1>2 DEF Poised, Ordered, LaserMoves
<1>4. PumpOf(s, p)
  BY <1>2, <1>3, PumpedIs
<1>5. /\ laser' = IF call.kind = "none" THEN p.sender ELSE s
      /\ call' = IF call.kind = "none" /\ p.sends = "move"
                 THEN [kind |-> "move", new |-> TRUE, age |-> 0] ELSE Old(call)
      /\ stray' \in {[Old(stray) EXCEPT !.latest = FALSE], Old(stray)}
      /\ relay' = [i \in DOMAIN relay |-> Old(relay[i])] /\ trail' = Old(trail) /\ calm' = 0
      /\ final' = final /\ gone' = gone /\ ~laser.disposed
  BY DEF LaserMoves
<1> HIDE DEF p, s
<1>6. laser' \in Senders /\ call' \in Calls /\ Ordered(laser', call') /\ laser'.held = TRUE
  <2>1. Old(call) \in Calls /\ Old(call).kind = call.kind /\ Old(call).age = call.age /\ Old(call).new = FALSE
    BY <1>1, OldType
  <2>2. CASE call.kind # "none"
    <3>1. ~Novel(Old(call)) /\ s.timer = "none"
      BY <1>1, <1>2, <2>1, <2>2 DEF Novel, Ordered
    <3> QED
      BY <1>1, <1>2, <1>3, <1>5, <2>1, <2>2, <3>1 DEF Ordered
  <2>3. CASE call.kind = "none" /\ p.sends = "move"
    <3>1. call' = Made(p)
      BY <1>5, <2>3 DEF Made
    <3> QED
      BY <1>2, <1>4, <1>5, <2>3, <3>1 DEF PumpOf
  <2>4. CASE call.kind = "none" /\ p.sends # "move"
    <3>1. Made(p).kind = "none"
      BY <1>2, <1>4, <2>4 DEF Made, PumpOf, NoCall
    <3>2. Ordered(p.sender, Old(call))
      BY <1>4, <2>1, <2>4, <3>1, NoneOrdered DEF PumpOf
    <3> QED
      BY <1>2, <1>4, <1>5, <2>1, <2>4, <3>2 DEF PumpOf
  <2> QED
    BY <2>2, <2>3, <2>4
<1>7. stray' \in Strays
  <2>1. Old(stray) \in Strays
    BY <1>1, OldType
  <2> DEFINE o == Old(stray)
  <2>2. o \in Strays /\ stray' \in {[o EXCEPT !.latest = FALSE], o}
    BY <1>5, <2>1
  <2> HIDE DEF o
  <2> QED
    BY <2>2 DEF Strays
<1>8. relay' \in Seq(Frames) /\ trail' \in Trails
  BY <1>1, <1>5, OldType
<1>9. final' = FALSE
  BY <1>5 DEF LaserInv, LaserTypeOK
<1> QED
  BY <1>5, <1>6, <1>7, <1>8, <1>9, LaserBounds DEF LaserInv, LaserTypeOK

\* A release.
LEMMA LaserReleasedKeeps == ASSUME LaserInv, LaserReleased PROVE LaserInv' /\ laser'.held = FALSE
<1> DEFINE s == [NoTimer(laser) EXCEPT !.pending = FALSE, !.held = FALSE]
           o == [s EXCEPT !.off = TRUE]
<1>1. laser \in Senders /\ call \in Calls /\ stray \in Strays /\ Ordered(laser, call)
  BY DEF LaserInv, LaserTypeOK
<1>2. /\ s \in Senders /\ s.pending = FALSE /\ s.held = FALSE /\ s.timer = "none" /\ s.disposed = laser.disposed
      /\ s.last = laser.last /\ s.sinceMove = laser.sinceMove /\ s.sinceSend = laser.sinceSend
  BY <1>1 DEF NoTimer, Senders
<1>3. /\ IF laser.moved THEN Pump(o, call) ELSE laser' = s /\ call' = call /\ stray' = stray
      /\ calm' = 0 /\ final' = final /\ relay' = relay /\ trail' = trail /\ gone' = gone /\ ~laser.disposed
  BY DEF LaserReleased
<1> HIDE DEF s
<1>4. /\ o \in Senders /\ o.held = FALSE /\ o.timer = "none" /\ o.disposed = laser.disposed
      /\ o.last = laser.last /\ o.sinceMove = laser.sinceMove /\ o.sinceSend = laser.sinceSend
  BY <1>2 DEF Senders
<1> HIDE DEF o
<1>5. Poised(s) /\ Poised(o) /\ Ordered(s, call) /\ (call.kind # "none" => Ordered(o, call))
  BY <1>1, <1>2, <1>4 DEF Ordered, Poised
<1>6. laser' \in Senders /\ call' \in Calls /\ stray' \in Strays /\ Ordered(laser', call') /\ laser'.held = FALSE
  <2>1. CASE laser.moved
    <3>1. Pump(o, call)
      BY <1>3, <2>1
    <3>2. laser' \in Senders /\ (laser'.held <=> o.held)
      BY <1>1, <1>4, <1>5, <3>1, PumpLeaves
    <3>3. call' \in Calls /\ stray' \in Strays /\ Ordered(laser', call')
      BY <1>1, <1>4, <1>5, <3>1, PumpLeaves
    <3>4. laser'.held \in BOOLEAN /\ ~o.held
      BY <1>4, <3>2 DEF Senders
    <3> QED
      BY <1>4, <3>2, <3>3, <3>4
  <2>2. CASE ~laser.moved
    BY <1>1, <1>2, <1>3, <1>5, <2>2
  <2> QED
    BY <2>1, <2>2
<1>7. final' = FALSE
  BY <1>3 DEF LaserInv, LaserTypeOK
<1> QED
  BY <1>3, <1>6, <1>7, LaserBounds DEF LaserInv, LaserTypeOK

\* The sender that close() leaves.
LEMMA DisposedIs ==
    ASSUME NEW s \in Senders
    PROVE  /\ Disposed(s) \in Senders /\ Disposed(s).held = FALSE /\ Disposed(s).disposed = TRUE
           /\ Disposed(s).timer = "none" /\ Disposed(s).last = s.last
           /\ Disposed(s).sinceMove = s.sinceMove /\ Disposed(s).sinceSend = s.sinceSend
BY DEF Disposed, NoTimer, Senders

\* Unmounted or crashed, the sender holds nothing.
LEMMA LaserStopsKeeps == ASSUME LaserInv, LaserCloses \/ LaserCrashes PROVE LaserInv' /\ laser'.held = FALSE
<1> DEFINE s == Disposed(laser)
<1>1. /\ laser \in Senders /\ call \in Calls /\ stray \in Strays /\ Ordered(laser, call)
      /\ laser.moved \in BOOLEAN /\ final \in BOOLEAN
  BY DEF LaserInv, LaserTypeOK, Senders
<1>2. /\ s \in Senders /\ s.held = FALSE /\ s.disposed = TRUE /\ s.timer = "none" /\ s.last = laser.last
      /\ s.sinceMove = laser.sinceMove /\ s.sinceSend = laser.sinceSend
  BY <1>1, DisposedIs
<1>3. /\ laser' = s /\ call' \in {call, NoCall} /\ stray' \in {stray, NoStray} /\ final' \in {laser.moved, FALSE}
      /\ relay' = relay /\ trail' = trail /\ calm' = calm /\ gone' = gone
  BY DEF LaserCloses, LaserCrashes
<1> HIDE DEF s
<1>4. NoCall \in Calls /\ NoCall.kind = "none" /\ NoStray \in Strays
  <2>1. NoCall \in Calls /\ NoCall.kind = "none"
    BY LaserBounds DEF NoCall, Calls
  <2>2. NoStray \in Strays
    BY DEF NoStray, Strays
  <2> QED
    BY <2>1, <2>2
<1>5. Poised(s) /\ Ordered(s, call) /\ Ordered(s, NoCall)
  BY <1>1, <1>2, <1>4 DEF Ordered, Poised
<1>6. call' \in Calls /\ stray' \in Strays /\ final' \in BOOLEAN /\ Ordered(laser', call')
  BY <1>1, <1>3, <1>4, <1>5
<1>7. calm' > 0 /\ call'.kind # "none" => call'.age <= SlowSend
  BY <1>3, <1>4 DEF LaserInv
<1>8. LaserTypeOK'
  BY <1>2, <1>3, <1>6 DEF LaserInv, LaserTypeOK
<1> QED
  BY <1>2, <1>3, <1>6, <1>7, <1>8 DEF LaserInv

\* The sender the timer leaves to the pump.
Woken(s) == [NoTimer(s) EXCEPT !.pending = @ \/ (s.timer = "keepalive" /\ s.held /\ s.last)]

\* A fired timer is off, and a keepalive's position waits in the pending slot.
LEMMA WokenIs ==
    ASSUME NEW s \in Senders
    PROVE  /\ Woken(s) \in Senders /\ Woken(s).held = s.held /\ Woken(s).disposed = s.disposed
           /\ Woken(s).timer = "none" /\ Woken(s).off = s.off /\ Woken(s).last = s.last
           /\ Woken(s).sinceMove = s.sinceMove /\ Woken(s).sinceSend = s.sinceSend
           /\ Woken(s).pending <=> s.pending \/ (s.timer = "keepalive" /\ s.held /\ s.last)
<1> DEFINE n == NoTimer(s)
<1>1. /\ n \in Senders /\ n.timer = "none" /\ n.held = s.held /\ n.pending = s.pending
      /\ n.off = s.off /\ n.last = s.last /\ n.disposed = s.disposed /\ n.sinceMove = s.sinceMove
      /\ n.sinceSend = s.sinceSend
  BY DEF NoTimer, Senders
<1> HIDE DEF n
<1>2. ASSUME NEW b \in BOOLEAN
      PROVE  /\ [n EXCEPT !.pending = b] \in Senders /\ [n EXCEPT !.pending = b].pending = b
             /\ \A f \in {"timer", "held", "off", "last", "disposed", "sinceMove", "sinceSend"} :
                   [n EXCEPT !.pending = b][f] = n[f]
  BY <1>1 DEF Senders
<1> DEFINE b == n.pending \/ (s.timer = "keepalive" /\ s.held /\ s.last)
<1>3. Woken(s) = [n EXCEPT !.pending = b] /\ b \in BOOLEAN
  BY DEF Woken, n
<1>4. b <=> s.pending \/ (s.timer = "keepalive" /\ s.held /\ s.last)
  BY <1>1
<1> HIDE DEF b
<1> QED
  BY <1>1, <1>2, <1>3, <1>4

\* The timer's pump.
LEMMA TimerFiresKeeps ==
    ASSUME LaserInv, TimerFires
    PROVE  LaserInv' /\ (laser'.held <=> laser.held) /\ Poised(Woken(laser))
<1> DEFINE s == Woken(laser)
<1>1. laser \in Senders /\ call \in Calls /\ stray \in Strays /\ Ordered(laser, call) /\ Poised(laser)
  BY DEF LaserInv, LaserTypeOK, Ordered
<1>2. /\ s \in Senders /\ s.held = laser.held /\ s.disposed = laser.disposed
      /\ s.timer = "none" /\ s.off = laser.off /\ s.last = laser.last
      /\ s.sinceMove = laser.sinceMove /\ s.sinceSend = laser.sinceSend
      /\ laser.pending => s.pending
  BY <1>1, WokenIs
<1>3. Pump(s, call) /\ laser.timer # "none"
  BY DEF TimerFires, Woken
<1> HIDE DEF s
<1>4. Poised(s)
  BY <1>1, <1>2 DEF Poised
<1>5. call.kind = "none"
  BY <1>1, <1>3 DEF Ordered
<1>6. /\ laser' \in Senders /\ call' \in Calls /\ stray' \in Strays /\ Ordered(laser', call')
      /\ laser'.held <=> s.held
      /\ laser'.disposed <=> s.disposed
      /\ call' = call \/ call'.age = 0
  BY <1>1, <1>2, <1>3, <1>4, <1>5, PumpLeaves
<1>7. relay' = relay /\ trail' = trail /\ calm' = calm /\ gone' = gone /\ final' = final
  BY DEF TimerFires
<1>8. calm' > 0 /\ call'.kind # "none" => call'.age <= SlowSend
  BY <1>5, <1>6, LaserBounds
<1>9. LaserTypeOK'
  BY <1>6, <1>7 DEF LaserInv, LaserTypeOK
<1>10. final' => laser'.disposed
  BY <1>2, <1>6, <1>7 DEF LaserInv
<1>11. laser'.held <=> laser.held
  BY <1>2, <1>6
<1> QED
  BY <1>4, <1>6, <1>8, <1>9, <1>10, <1>11 DEF LaserInv, s

-----------------------------------------------------------------------------
(* The call and the relay: types.                                             *)

\* A call that settles, sent or lost.
LEMMA CallSettlesKeeps ==
    ASSUME LaserInv, CallSettles
    PROVE  LaserInv' /\ (laser'.held <=> laser.held) /\ Pump(laser, NoCall)
<1>1. /\ laser \in Senders /\ call \in Calls /\ stray \in Strays /\ Ordered(laser, call) /\ Poised(laser)
      /\ LaserTypeOK
  BY DEF LaserInv, LaserTypeOK, Ordered
<1>2. NoCall \in Calls /\ NoCall.kind = "none"
  BY LaserBounds DEF NoCall, Calls
<1>3. Pump(laser, NoCall) /\ final' = final /\ trail' = trail /\ call.kind # "none"
  BY DEF CallSettles
<1>4. /\ laser' \in Senders /\ call' \in Calls /\ stray' \in Strays /\ Ordered(laser', call')
      /\ laser'.held <=> laser.held
      /\ laser'.disposed <=> laser.disposed
      /\ call' = NoCall \/ call'.age = 0
  BY <1>1, <1>2, <1>3, PumpLeaves
<1>5. relay' \in Seq(Frames) /\ gone' \in BOOLEAN /\ calm' \in 0..SettledBy
  <2>1. CASE Sends(call) /\ calm' = calm
    <3>1. call.kind \in {"move", "off"} /\ call.new \in BOOLEAN
      BY <1>1, <1>3 DEF Calls
    <3> QED
      BY <1>1, <2>1, <3>1, SendsType DEF LaserTypeOK
  <2>2. CASE relay' = relay /\ gone' = TRUE /\ calm' = IF gone THEN 0 ELSE calm
    BY <1>1, <2>2, LaserBounds DEF LaserTypeOK
  <2> QED
    BY <2>1, <2>2 DEF CallSettles
<1>6. call'.kind # "none" => call'.age <= SlowSend
  BY <1>2, <1>4, LaserBounds
<1>7. LaserTypeOK'
  BY <1>1, <1>3, <1>4, <1>5 DEF LaserTypeOK
<1>8. final' => laser'.disposed
  BY <1>3, <1>4 DEF LaserInv
<1> QED
  BY <1>3, <1>4, <1>6, <1>7, <1>8 DEF LaserInv

\* A call that is given up on.
LEMMA CallTimesOutKeeps ==
    ASSUME LaserInv, CallTimesOut
    PROVE  LaserInv' /\ (laser'.held <=> laser.held)
<1> DEFINE p == Pumped(laser)
           w == IF stray.kind = "none" THEN [kind |-> call.kind, new |-> call.new, latest |-> TRUE] ELSE stray
<1>1. /\ laser \in Senders /\ call \in Calls /\ stray \in Strays /\ Ordered(laser, call) /\ Poised(laser)
  BY DEF LaserInv, LaserTypeOK, Ordered
<1>2. PumpOf(laser, p)
  BY <1>1, PumpedIs
<1>3. w \in Strays
  BY <1>1 DEF Strays, Calls
<1>4. /\ laser' = p.sender /\ call' = Made(p) /\ stray' \in {w, [w EXCEPT !.latest = FALSE]}
      /\ calm' = 0 /\ final' = final /\ relay' = relay /\ trail' = trail /\ gone' = gone
  BY DEF CallTimesOut, Made
<1> HIDE DEF p, w
<1>5. stray' \in Strays
  BY <1>3, <1>4 DEF Strays
<1>6. /\ laser' \in Senders /\ call' \in Calls /\ Ordered(laser', call')
      /\ laser'.held <=> laser.held
      /\ laser'.disposed <=> laser.disposed
  BY <1>2, <1>4 DEF PumpOf
<1>7. LaserTypeOK'
  BY <1>4, <1>5, <1>6, LaserBounds DEF LaserInv, LaserTypeOK
<1>8. final' => laser'.disposed
  BY <1>4, <1>6 DEF LaserInv
<1> QED
  BY <1>4, <1>6, <1>7, <1>8, LaserBounds DEF LaserInv

\* What is sent by a call given up on, and at close().
LEMMA LateSendsKeeps ==
    ASSUME LaserInv, StraySends \/ FinalSends
    PROVE  LaserInv' /\ laser' = laser
<1>1. laser' = laser /\ call' = call /\ trail' = trail /\ LaserTypeOK
  BY DEF StraySends, FinalSends, LaserInv
<1>2. relay' \in Seq(Frames) /\ gone' \in BOOLEAN
  <2>1. CASE StraySends
    <3>1. stray.kind \in {"move", "off"} /\ stray.new \in BOOLEAN /\ Sends(stray)
      BY <1>1, <2>1 DEF StraySends, LaserTypeOK, Strays
    <3> QED
      BY <1>1, <3>1, SendsType DEF LaserTypeOK
  <2>2. CASE FinalSends
    <3> DEFINE f == [kind |-> "off", new |-> TRUE]
    <3>1. f.kind \in {"move", "off"} /\ f.new \in BOOLEAN
      OBVIOUS
    <3>2. Sends(f) \/ (relay' = relay /\ gone' = gone)
      BY <2>2 DEF FinalSends
    <3> HIDE DEF f
    <3> QED
      BY <1>1, <3>1, <3>2, SendsType DEF LaserTypeOK
  <2> QED
    BY <2>1, <2>2
<1>3. stray' \in Strays
  <2>1. NoStray \in Strays /\ stray' \in {stray, NoStray}
    BY DEF StraySends, FinalSends, NoStray, Strays
  <2> QED
    BY <1>1, <2>1 DEF LaserTypeOK
<1>4. final' \in BOOLEAN /\ (final' => final) /\ calm' \in {0, calm}
  <2>1. final' = final \/ final' = FALSE
    BY DEF StraySends, FinalSends
  <2>2. calm' \in {0, calm}
    BY DEF StraySends, FinalSends
  <2>3. final \in BOOLEAN
    BY <1>1 DEF LaserTypeOK
  <2>4. CASE final' = final
    BY <2>2, <2>3, <2>4
  <2>5. CASE final' = FALSE
    BY <2>2, <2>5
  <2> QED
    BY <2>1, <2>4, <2>5
<1>5. LaserTypeOK'
  BY <1>1, <1>2, <1>3, <1>4, LaserBounds DEF LaserTypeOK
<1> QED
  BY <1>1, <1>4, <1>5 DEF LaserInv

-----------------------------------------------------------------------------
(* The watcher and the clock: types.                                          *)

\* A trail that fades.
LEMMA FadingType == \A t \in Trails : [t EXCEPT !.seen = "fading", !.idle = 0] \in Trails
<1> SUFFICES ASSUME NEW t \in Trails PROVE [t EXCEPT !.seen = "fading", !.idle = 0] \in Trails
  OBVIOUS
<1> DEFINE u == [t EXCEPT !.seen = "fading"]
<1>1. u \in Trails
  BY DEF Trails
<1>2. [t EXCEPT !.seen = "fading", !.idle = 0] = [u EXCEPT !.idle = 0]
  BY DEF Trails
<1> HIDE DEF u
<1> QED
  BY <1>1, <1>2, LaserBounds DEF Trails

\* What the watcher's screen does leaves the sender alone.
LEMMA WatcherKeeps ==
    ASSUME LaserInv, Arrives \/ Expire \/ Faded
    PROVE  LaserInv' /\ laser' = laser
<1>1. /\ laser' = laser /\ call' = call /\ stray' = stray /\ final' = final /\ calm' = calm
      /\ LaserTypeOK
  BY DEF Arrives, Expire, Faded, LaserInv
<1>2. relay' \in Seq(Frames) /\ gone' \in BOOLEAN
  BY <1>1, HeadTailProperties DEF Arrives, Expire, Faded, LaserTypeOK
<1>3. trail' \in Trails
  <2>1. CASE Arrives
    <3> DEFINE f == Head(relay)
    <3>1. f \in Frames /\ trail' = Shown(f)
      BY <1>1, <2>1, HeadTailProperties DEF Arrives, LaserTypeOK
    <3> HIDE DEF f
    <3>2. trail \in Trails /\ f.kind \in {"move", "off"} /\ f.new \in BOOLEAN
      BY <1>1, <3>1 DEF LaserTypeOK, Frames
    <3>3. CASE f.kind = "move"
      <4>1. trail' = [seen |-> "shown", new |-> f.new, idle |-> 0]
        BY <3>1, <3>3 DEF Shown
      <4> QED
        BY <3>2, <4>1, LaserBounds DEF Trails
    <3>4. CASE f.kind = "off"
      BY <3>1, <3>2, <3>4, FadingType DEF Shown
    <3> QED
      BY <3>2, <3>3, <3>4
  <2>2. CASE Expire \/ Faded
    <3>1. NoTrail \in Trails /\ trail \in Trails
      BY <1>1, LaserBounds DEF NoTrail, Trails, LaserTypeOK
    <3>2. [trail EXCEPT !.seen = "fading", !.idle = 0] \in Trails
      BY <3>1, FadingType
    <3> QED
      BY <2>2, <3>1, <3>2 DEF Expire, Faded
  <2> QED
    BY <2>1, <2>2
<1>4. LaserTypeOK'
  BY <1>1, <1>2, <1>3 DEF LaserTypeOK
<1> QED
  BY <1>1, <1>4 DEF LaserInv

\* A tick, field by field.
LEMMA TickAges ==
    ASSUME LaserInv, Tick
    PROVE  /\ laser' \in Senders
           /\ \A f \in {"pending", "off", "held", "moved", "last", "timer", "disposed"} : laser'[f] = laser[f]
           /\ laser'.sinceMove = IF laser.sinceMove < LASER_KEEPALIVE THEN laser.sinceMove + 1 ELSE LASER_KEEPALIVE
           /\ laser'.sinceSend = IF laser.sinceSend < MIN_LASER_SEND_INTERVAL
                                 THEN laser.sinceSend + 1 ELSE MIN_LASER_SEND_INTERVAL
           /\ laser.timer # "none" => laser.left > 0 /\ laser'.left = laser.left - 1
           /\ call' \in Calls /\ call'.kind = call.kind /\ call'.new = call.new
           /\ call.kind # "none" => call'.age = call.age + 1
<1>1. laser \in Senders /\ call \in Calls
  BY DEF LaserInv, LaserTypeOK
<1> DEFINE m == Upto(laser.sinceMove, LASER_KEEPALIVE)
           n == Upto(laser.sinceSend, MIN_LASER_SEND_INTERVAL)
           l == IF laser.left > 0 THEN laser.left - 1 ELSE 0
<1>2. /\ m \in 0..LASER_KEEPALIVE /\ n \in 0..MIN_LASER_SEND_INTERVAL /\ l \in Nat
      /\ m = IF laser.sinceMove < LASER_KEEPALIVE THEN laser.sinceMove + 1 ELSE LASER_KEEPALIVE
      /\ n = IF laser.sinceSend < MIN_LASER_SEND_INTERVAL
             THEN laser.sinceSend + 1 ELSE MIN_LASER_SEND_INTERVAL
      /\ laser.left > 0 => l = laser.left - 1
  BY <1>1, LaserBounds, Ticking DEF Senders
<1>3. laser' = [laser EXCEPT !.sinceMove = m, !.sinceSend = n, !.left = l]
  BY DEF Tick
<1>4. laser.timer # "none" => laser.left > 0
  BY <1>1 DEF Tick, Senders
<1>5. /\ call' \in Calls /\ call'.kind = call.kind /\ call'.new = call.new
      /\ call.kind # "none" => call'.age = call.age + 1
  <2>1. CASE call.kind = "none"
    BY <1>1, <2>1 DEF Tick
  <2>2. CASE call.kind # "none"
    <3>1. call.age + 1 \in 0..LASER_SEND_TIMEOUT
      BY <1>1, <2>2, LaserBounds DEF Tick, Calls
    <3>2. call' = [call EXCEPT !.age = call.age + 1]
      BY <2>2 DEF Tick
    <3> QED
      BY <1>1, <3>1, <3>2 DEF Calls
  <2> QED
    BY <2>1, <2>2
<1> HIDE DEF m, n, l
<1>6. laser' \in Senders
  <2>1. ASSUME NEW s \in Senders, NEW i \in 0..LASER_KEEPALIVE PROVE [s EXCEPT !.sinceMove = i] \in Senders
    BY <2>1 DEF Senders
  <2>2. ASSUME NEW s \in Senders, NEW i \in 0..MIN_LASER_SEND_INTERVAL PROVE [s EXCEPT !.sinceSend = i] \in Senders
    BY <2>2 DEF Senders
  <2>3. ASSUME NEW s \in Senders, NEW i \in Nat PROVE [s EXCEPT !.left = i] \in Senders
    BY <2>3 DEF Senders
  <2>4. laser' = [[[laser EXCEPT !.sinceMove = m] EXCEPT !.sinceSend = n] EXCEPT !.left = l]
    BY <1>1, <1>3 DEF Senders
  <2> QED
    BY <1>1, <1>2, <2>1, <2>2, <2>3, <2>4
<1>7. /\ \A f \in {"pending", "off", "held", "moved", "last", "timer", "disposed"} : laser'[f] = laser[f]
      /\ laser'.sinceMove = m /\ laser'.sinceSend = n /\ laser'.left = l
  BY <1>1, <1>3 DEF Senders
<1> QED
  BY <1>2, <1>4, <1>5, <1>6, <1>7

\* A tick keeps the sender's order.
LEMMA TickKeeps == ASSUME LaserInv, LaserTiming, Tick PROVE LaserInv' /\ (laser'.held <=> laser.held)
<1>1. /\ laser \in Senders /\ call \in Calls /\ Ordered(laser, call) /\ Poised(laser)
  BY DEF LaserInv, LaserTypeOK, Ordered
<1>2. /\ laser' \in Senders
      /\ laser'.pending = laser.pending /\ laser'.off = laser.off /\ laser'.held = laser.held
      /\ laser'.last = laser.last /\ laser'.timer = laser.timer /\ laser'.disposed = laser.disposed
      /\ laser'.sinceMove = IF laser.sinceMove < LASER_KEEPALIVE THEN laser.sinceMove + 1 ELSE LASER_KEEPALIVE
      /\ laser'.sinceSend = IF laser.sinceSend < MIN_LASER_SEND_INTERVAL
                            THEN laser.sinceSend + 1 ELSE MIN_LASER_SEND_INTERVAL
      /\ laser.timer # "none" => laser.left > 0 /\ laser'.left = laser.left - 1
      /\ call' \in Calls /\ call'.kind = call.kind /\ call'.new = call.new
      /\ call.kind # "none" => call'.age = call.age + 1
  BY TickAges
<1>3. /\ laser.left \in Nat /\ laser.sinceMove \in 0..LASER_KEEPALIVE
      /\ laser.sinceSend \in 0..MIN_LASER_SEND_INTERVAL /\ call.age \in Nat
  BY <1>1, LaserBounds DEF Senders, Calls
<1>4. Poised(laser')
  <2>1. laser'.held => ~laser'.disposed /\ ~laser'.off /\ (laser'.pending \/ laser'.last)
    BY <1>1, <1>2 DEF Poised
  <2>2. laser'.timer = "gate" => laser'.left = MIN_LASER_SEND_INTERVAL - laser'.sinceSend
    BY <1>1, <1>2, <1>3, LaserBounds DEF Poised
  <2>3. laser'.timer = "keepalive" => laser'.left = LASER_KEEPALIVE - laser'.sinceMove
    BY <1>1, <1>2, <1>3, LaserBounds DEF Poised
  <2>4. laser'.last => \/ laser'.sinceSend = laser'.sinceMove
                       \/ /\ laser'.sinceSend = MIN_LASER_SEND_INTERVAL
                          /\ laser'.sinceMove >= MIN_LASER_SEND_INTERVAL
    BY <1>1, <1>2, <1>3, LaserBounds DEF Poised, LaserTiming
  <2> QED
    BY <2>1, <2>2, <2>3, <2>4 DEF Poised
<1>5. Ordered(laser', call')
  <2>1. Novel(call') <=> Novel(call)
    BY <1>2 DEF Novel
  <2>2. call'.kind = "move" => laser'.sinceMove <= call'.age
    BY <1>1, <1>2, <1>3, LaserBounds DEF Ordered
  <2> QED
    BY <1>1, <1>2, <1>4, <2>1, <2>2 DEF Ordered
<1>6. calm' \in 0..SettledBy /\ (calm' > 0 /\ call'.kind # "none" => call'.age <= SlowSend)
  <2>1. calm \in 0..SettledBy /\ Upto(calm, SettledBy) \in 0..SettledBy
    BY LaserBounds, Ticking DEF LaserInv, LaserTypeOK
  <2>2. calm' = IF call.kind # "none" /\ call.age >= SlowSend THEN 0 ELSE Upto(calm, SettledBy)
    BY DEF Tick
  <2> QED
    BY <1>2, <1>3, <2>1, <2>2, LaserBounds
<1>7. relay' \in Seq(Frames)
  <2>1. relay \in Seq(Frames) /\ relay' = [i \in DOMAIN relay |-> [relay[i] EXCEPT !.age = @ + 1]]
    BY DEF Tick, LaserInv, LaserTypeOK
  <2>2. ASSUME NEW i \in DOMAIN relay PROVE [relay[i] EXCEPT !.age = @ + 1] \in Frames
    <3>1. relay[i] \in Frames /\ relay[i].age < WireDelay
      BY <2>1, <2>2 DEF Tick
    <3>2. relay[i].age + 1 \in 0..WireDelay
      BY <3>1, LaserBounds DEF Frames
    <3> QED
      BY <3>1, <3>2 DEF Frames
  <2> QED
    BY <2>1, <2>2
<1>8. trail' \in Trails
  <2>1. trail \in Trails /\ trail' = IF trail.seen = "none" THEN trail ELSE [trail EXCEPT !.idle = Upto(@, REMOTE_LASER_IDLE)]
    BY DEF Tick, LaserInv, LaserTypeOK
  <2>2. Upto(trail.idle, REMOTE_LASER_IDLE) \in 0..REMOTE_LASER_IDLE
    BY <2>1, LaserBounds, Ticking DEF Trails
  <2> QED
    BY <2>1, <2>2 DEF Trails
<1>9. stray' = stray /\ final' = final /\ gone' = gone
  BY DEF Tick
<1>10. LaserTypeOK'
  BY <1>2, <1>6, <1>7, <1>8, <1>9 DEF LaserInv, LaserTypeOK
<1>11. final' => laser'.disposed
  BY <1>2, <1>9 DEF LaserInv
<1> QED
  BY <1>2, <1>5, <1>6, <1>10, <1>11 DEF LaserInv

\* The types and the order hold in every behaviour.
LEMMA LaserSafety == LaserSpec => []LaserInv
<1>1. ASSUME LaserInv, [LaserNext]_laserVars PROVE LaserInv'
  <2>1. CASE LaserNext
    BY <1>1, <2>1, LaserMovesKeeps, LaserReleasedKeeps, LaserStopsKeeps, TimerFiresKeeps, CallSettlesKeeps,
       CallTimesOutKeeps, LateSendsKeeps, WatcherKeeps, TickKeeps, LaserTimingAssumption DEF LaserNext
  <2>2. CASE UNCHANGED laserVars
    BY <1>1, <2>2 DEF laserVars, LaserInv, LaserTypeOK
  <2> QED
    BY <1>1, <2>1, <2>2
<1> QED
  BY <1>1, LaserInitInv, PTL DEF LaserSpec

\* Whatever the sender does, the types hold.
THEOREM LaserTypeCorrect == LaserSpec => []LaserTypeOK
<1>1. LaserInv => LaserTypeOK
  BY DEF LaserInv
<1> QED
  BY <1>1, LaserSafety, PTL

-----------------------------------------------------------------------------
(* How soon the newest position is on the screen: within n ticks.             *)

\* It is under way, and nothing older or other comes after it.
OnWire(c, r, n) ==
    /\ c.kind = "none" \/ Novel(c)
    /\ \E j \in 1..Len(r) : /\ WireDelay <= r[j].age + n
                            /\ \A i \in j..Len(r) : Novel(r[i])

\* The call in flight carries it, or the keepalive after it will.
InCall(s, c, r, g, n) ==
    /\ c.kind # "none" /\ Novel(c)
    /\ r # <<>> => n >= 2 * LASER_KEEPALIVE - s.sinceMove + Round
    /\ r = <<>> /\ ~g => n >= LASER_KEEPALIVE - s.sinceMove + Round
    /\ r = <<>> /\ g => n >= WireDelay /\ n + c.age >= Round

\* The call the timer makes will, or the keepalive after that.
Timed(s, c, r, g, n) ==
    /\ c.kind = "none"
    /\ n >= s.left + Round
    /\ r # <<>> \/ ~g => n >= s.left + Round + LASER_KEEPALIVE
    /\ r # <<>> /\ s.left + r[Len(r)].age <= WireDelay => n >= s.left + Round + 2 * LASER_KEEPALIVE

\* It waits for a call in flight that carries something else.
Gated(s, c, n) ==
    /\ c.kind # "none" /\ ~Novel(c)
    /\ n >= 2 * LASER_KEEPALIVE + Round
    /\ n >= 2 * LASER_KEEPALIVE + Round + SlowSend - c.age
    /\ n >= 2 * LASER_KEEPALIVE + Round + MIN_LASER_SEND_INTERVAL - s.sinceSend

Due(s, c, r, g, n) ==
    n >= 0 /\ (OnWire(c, r, n) \/ InCall(s, c, r, g, n) \/ Timed(s, c, r, g, n) \/ Gated(s, c, n))

\* Only the newest position can reach the screen.
Clean(c, r) == (c.kind = "none" \/ Novel(c)) /\ \A i \in 1..Len(r) : Novel(r[i])

\* The position on the screen is the newest, and is shown again in time.
Kept(s, c, r, g, t) ==
    /\ t.seen = "shown" /\ t.new
    /\ Clean(c, r)
    /\ Due(s, c, r, g, REMOTE_LASER_IDLE - 1 - t.idle)

Seen ==
    laser.held => \/ Kept(laser, call, relay, gone, trail)
                  \/ Due(laser, call, relay, gone, SettledBy - 1 - calm)

\* Arithmetic: two keepalives and a frame are enough.
LEMMA EarlyEnough ==
    ASSUME NEW f \in Int, NEW r \in Int, NEW w \in Int, NEW k \in Nat, NEW m \in Nat, NEW l \in Nat, NEW a \in Nat,
           f >= 2 * k + r + m, f >= 2 * k + r + w, l <= m \/ l <= k
    PROVE  f >= l + r + k /\ (l + a <= w => f >= l + r + 2 * k)
OBVIOUS

\* From anywhere, the newest position is due before the calm counts.
LEMMA DueFirst ==
    ASSUME NEW s \in Senders, NEW c \in Calls, NEW r \in Seq(Frames), NEW g \in BOOLEAN,
           s.held, Ordered(s, c), LaserTiming
    PROVE  Due(s, c, r, g, SettledBy - 1)
<1>1. /\ s.sinceMove \in 0..LASER_KEEPALIVE /\ s.sinceSend \in 0..MIN_LASER_SEND_INTERVAL
      /\ s.left \in Nat /\ c.age \in Nat
  BY LaserBounds DEF Senders, Calls
<1> DEFINE a == IF r # <<>> THEN r[Len(r)].age ELSE 0
<1>2. a \in Nat
  <2>1. r # <<>> => Len(r) \in 1..Len(r)
    BY EmptySeq, LenProperties
  <2>2. r # <<>> => r[Len(r)] \in Frames
    BY <2>1, ElementOfSeq
  <2> QED
    BY <2>2, LaserBounds DEF Frames
<1>3. /\ SettledBy - 1 >= 2 * LASER_KEEPALIVE + Round + SlowSend
      /\ SettledBy - 1 >= 2 * LASER_KEEPALIVE + Round + WireDelay
      /\ SettledBy - 1 >= 2 * LASER_KEEPALIVE + Round + MIN_LASER_SEND_INTERVAL
      /\ Round = SlowSend + WireDelay
  BY LaserBounds DEF LaserTiming, Round
<1>4. SettledBy - 1 >= 0
  BY LaserBounds
<1>8. ASSUME c.kind = "none", SettledBy - 1 >= s.left + Round + LASER_KEEPALIVE,
             s.left + a <= WireDelay => SettledBy - 1 >= s.left + Round + 2 * LASER_KEEPALIVE
      PROVE  Timed(s, c, r, g, SettledBy - 1)
  <2>1. SettledBy - 1 >= s.left + Round
    BY <1>1, <1>3, <1>8, LaserBounds
  <2> QED
    BY <1>8, <2>1 DEF Timed
<1> HIDE DEF a
<1>9. ASSUME s.left <= MIN_LASER_SEND_INTERVAL \/ s.left <= LASER_KEEPALIVE
      PROVE  /\ SettledBy - 1 >= s.left + Round + LASER_KEEPALIVE
             /\ s.left + a <= WireDelay => SettledBy - 1 >= s.left + Round + 2 * LASER_KEEPALIVE
  <2> DEFINE f == SettledBy - 1
             l == s.left
  <2>1. /\ f \in Int /\ Round \in Int /\ WireDelay \in Int /\ LASER_KEEPALIVE \in Nat
        /\ MIN_LASER_SEND_INTERVAL \in Nat /\ l \in Nat
        /\ f >= 2 * LASER_KEEPALIVE + Round + MIN_LASER_SEND_INTERVAL
        /\ f >= 2 * LASER_KEEPALIVE + Round + WireDelay
        /\ l <= MIN_LASER_SEND_INTERVAL \/ l <= LASER_KEEPALIVE
    BY <1>1, <1>3, <1>9, LaserBounds
  <2> HIDE DEF f, l
  <2>2. f >= l + Round + LASER_KEEPALIVE /\ (l + a <= WireDelay => f >= l + Round + 2 * LASER_KEEPALIVE)
    BY <1>2, <2>1, EarlyEnough
  <2> QED
    BY <2>2 DEF f, l
<1>5. CASE c.kind = "none"
  <2>1. s.timer = (IF s.pending THEN "gate" ELSE "keepalive") /\ Poised(s)
    BY <1>5 DEF Ordered
  <2>2. s.timer \in {"gate", "keepalive"}
    BY <2>1
  <2>3. CASE s.timer = "gate"
    <3>1. s.left = MIN_LASER_SEND_INTERVAL - s.sinceSend
      BY <2>1, <2>3 DEF Poised
    <3>2. /\ SettledBy - 1 >= s.left + Round + LASER_KEEPALIVE
          /\ s.left + a <= WireDelay => SettledBy - 1 >= s.left + Round + 2 * LASER_KEEPALIVE
      <4>1. s.left <= MIN_LASER_SEND_INTERVAL \/ s.left <= LASER_KEEPALIVE
        BY <1>1, <3>1, LaserBounds
      <4> QED
        BY <1>9, <4>1
    <3> QED
      BY <1>4, <1>5, <1>8, <3>2 DEF Due
  <2>4. CASE s.timer = "keepalive"
    <3>1. s.left = LASER_KEEPALIVE - s.sinceMove
      BY <2>1, <2>4 DEF Poised
    <3>2. /\ SettledBy - 1 >= s.left + Round + LASER_KEEPALIVE
          /\ s.left + a <= WireDelay => SettledBy - 1 >= s.left + Round + 2 * LASER_KEEPALIVE
      <4>1. s.left <= MIN_LASER_SEND_INTERVAL \/ s.left <= LASER_KEEPALIVE
        BY <1>1, <3>1, LaserBounds
      <4> QED
        BY <1>9, <4>1
    <3> QED
      BY <1>4, <1>5, <1>8, <3>2 DEF Due
  <2> QED
    BY <2>2, <2>3, <2>4
<1>6. CASE c.kind # "none" /\ Novel(c)
  <2>1. InCall(s, c, r, g, SettledBy - 1)
    BY <1>1, <1>3, <1>6, LaserBounds DEF InCall
  <2> QED
    BY <1>4, <2>1 DEF Due
<1>7. CASE c.kind # "none" /\ ~Novel(c)
  <2>1. Gated(s, c, SettledBy - 1)
    BY <1>1, <1>3, <1>7, LaserBounds DEF Gated
  <2> QED
    BY <1>4, <2>1 DEF Due
<1> QED
  BY <1>5, <1>6, <1>7

\* What the invariant says of the fields.
LEMMA Moments ==
    ASSUME LaserInv
    PROVE  /\ laser \in Senders /\ call \in Calls /\ relay \in Seq(Frames) /\ trail \in Trails /\ gone \in BOOLEAN
           /\ laser.sinceMove \in 0..LASER_KEEPALIVE /\ laser.sinceSend \in 0..MIN_LASER_SEND_INTERVAL
           /\ laser.left \in Nat /\ call.age \in Nat /\ trail.idle \in Nat /\ calm \in Nat
           /\ Ordered(laser, call) /\ Poised(laser)
           /\ call.kind \in {"none", "move", "off"} /\ laser.timer \in {"none", "gate", "keepalive"}
BY LaserBounds DEF LaserInv, LaserTypeOK, Ordered, Senders, Calls, Trails

\* The timer's call carries the newest position.
LEMMA FiresFresh ==
    ASSUME LaserInv, LaserTiming, TimerFires, laser.held
    PROVE  /\ call' = [kind |-> "move", new |-> TRUE, age |-> 0] /\ laser'.sinceMove = 0
           /\ relay' = relay /\ gone' = gone /\ trail' = trail /\ calm' = calm
           /\ call.kind = "none" /\ laser.left = 0
<1> DEFINE s == Woken(laser)
           p == Pumped(s)
<1>1. /\ laser \in Senders /\ Ordered(laser, call) /\ Poised(laser)
      /\ laser.sinceMove \in 0..LASER_KEEPALIVE /\ laser.sinceSend \in 0..MIN_LASER_SEND_INTERVAL
  BY Moments
<1>2. /\ s \in Senders /\ s.held = laser.held
      /\ s.sinceMove = laser.sinceMove /\ s.sinceSend = laser.sinceSend
      /\ s.pending <=> laser.pending \/ (laser.timer = "keepalive" /\ laser.held /\ laser.last)
  BY <1>1, WokenIs
<1>3. Poised(s)
  BY TimerFiresKeeps
<1>4. PumpOf(s, p)
  BY <1>2, <1>3, PumpedIs
<1>5. /\ Pump(s, call) /\ laser.timer # "none" /\ laser.left = 0
      /\ relay' = relay /\ gone' = gone /\ trail' = trail /\ calm' = calm
  BY DEF TimerFires, Woken
<1>6. call.kind = "none"
  BY <1>1, <1>5 DEF Ordered
<1>7. laser' = p.sender /\ call' = IF p.sends = "none" THEN call ELSE [kind |-> p.sends, new |-> TRUE, age |-> 0]
  BY <1>5, <1>6 DEF Pump
<1> HIDE DEF s, p
<1>8. /\ laser.timer = IF laser.pending THEN "gate" ELSE "keepalive"
      /\ laser.pending \/ laser.last
  BY <1>1, <1>6 DEF Ordered, Poised
<1>9. s.pending
  BY <1>2, <1>8
<1>10. s.sinceSend = MIN_LASER_SEND_INTERVAL
  <2>1. CASE laser.pending
    BY <1>1, <1>2, <1>5, <1>8, <2>1, LaserBounds DEF Poised
  <2>2. CASE ~laser.pending
    <3>1. laser.sinceMove = LASER_KEEPALIVE
      BY <1>1, <1>5, <1>8, <2>2, LaserBounds DEF Poised
    <3> QED
      BY <1>1, <1>2, <1>8, <2>2, <3>1, LaserBounds DEF Poised, LaserTiming
  <2> QED
    BY <2>1, <2>2
<1>11. p.sends = "move" /\ p.sender.sinceMove = 0
  BY <1>2, <1>4, <1>9, <1>10 DEF PumpOf
<1> QED
  BY <1>5, <1>6, <1>7, <1>11

\* Frames under way, and the last of them.
LEMMA FrameAges ==
    ASSUME NEW r \in Seq(Frames)
    PROVE  /\ \A i \in 1..Len(r) : r[i] \in Frames /\ r[i].age \in Nat /\ r[i].age <= WireDelay
           /\ r # <<>> => /\ Len(r) \in 1..Len(r)
                          /\ r[Len(r)].age \in Nat /\ r[Len(r)].age <= WireDelay
<1>1. \A i \in 1..Len(r) : r[i] \in Frames
  BY ElementOfSeq
<1>2. \A i \in 1..Len(r) : r[i] \in Frames /\ r[i].age \in Nat /\ r[i].age <= WireDelay
  BY <1>1, LaserBounds DEF Frames
<1>3. r # <<>> => Len(r) \in 1..Len(r)
  BY EmptySeq, LenProperties
<1> QED
  BY <1>2, <1>3

\* A fired timer's call takes the newest position on.
LEMMA FiresDue ==
    ASSUME LaserInv, LaserTiming, TimerFires, laser.held, NEW n \in Int, Due(laser, call, relay, gone, n)
    PROVE  Due(laser', call', relay', gone', n)
<1>1. /\ call'.kind = "move" /\ Novel(call') /\ call'.age = 0 /\ laser'.sinceMove = 0
      /\ relay' = relay /\ gone' = gone /\ call.kind = "none" /\ laser.left = 0
  BY FiresFresh DEF Novel
<1>2. Round = SlowSend + WireDelay /\ Round \in Nat
  BY LaserBounds DEF Round
<1>3. OnWire(call, relay, n) \/ Timed(laser, call, relay, gone, n)
  BY <1>1 DEF Due, InCall, Gated
<1>4. CASE OnWire(call, relay, n)
  BY <1>1, <1>4 DEF OnWire, Due
<1>5. CASE Timed(laser, call, relay, gone, n)
  <2>1. relay # <<>> => n >= Round + 2 * LASER_KEEPALIVE
    <3>1. ASSUME relay # <<>> PROVE relay[Len(relay)].age <= WireDelay /\ relay[Len(relay)].age \in Nat
      BY <3>1, Moments, FrameAges
    <3> QED
      BY <1>1, <1>2, <1>5, <3>1, LaserBounds DEF Timed
  <2>2. relay = <<>> /\ ~gone => n >= Round + LASER_KEEPALIVE
    BY <1>1, <1>2, <1>5, LaserBounds DEF Timed
  <2>3. n >= Round
    BY <1>1, <1>2, <1>5, LaserBounds DEF Timed
  <2>4. InCall(laser', call', relay', gone', n)
    BY <1>1, <1>2, <2>1, <2>2, <2>3, LaserBounds DEF InCall
  <2> QED
    BY <2>4 DEF Due
<1> QED
  BY <1>3, <1>4, <1>5

\* What a settled call leaves behind.
LEMMA SettlesTo ==
    ASSUME LaserInv, CallSettles, laser.held
    PROVE  /\ Novel(call) => call'.kind = "none" /\ laser'.left = LASER_KEEPALIVE - laser.sinceMove
           /\ ~Novel(call) => \/ call'.kind = "none" /\ laser'.left = MIN_LASER_SEND_INTERVAL - laser.sinceSend
                              \/ call' = [kind |-> "move", new |-> TRUE, age |-> 0] /\ laser'.sinceMove = 0
           /\ trail' = trail /\ call.kind # "none"
<1> DEFINE p == Pumped(laser)
<1>1. /\ laser \in Senders /\ Ordered(laser, call) /\ Poised(laser)
      /\ laser.sinceSend \in 0..MIN_LASER_SEND_INTERVAL
  BY Moments
<1>2. PumpOf(laser, p)
  BY <1>1, PumpedIs
<1>3. Pump(laser, NoCall) /\ trail' = trail /\ call.kind # "none" /\ NoCall.kind = "none"
  BY DEF CallSettles, NoCall
<1>4. laser' = p.sender /\ call' = IF p.sends = "none" THEN NoCall ELSE [kind |-> p.sends, new |-> TRUE, age |-> 0]
  BY <1>3 DEF Pump
<1> HIDE DEF p
<1>5. Novel(call) <=> ~laser.pending
  BY <1>1, <1>3 DEF Ordered
<1>6. CASE Novel(call)
  <2>1. p.sends = "none" /\ p.sender.left = LASER_KEEPALIVE - laser.sinceMove
    BY <1>2, <1>5, <1>6 DEF PumpOf
  <2> QED
    BY <1>3, <1>4, <1>6, <2>1
<1>7. CASE ~Novel(call) /\ laser.sinceSend < MIN_LASER_SEND_INTERVAL
  <2>1. p.sends = "none" /\ p.sender.left = MIN_LASER_SEND_INTERVAL - laser.sinceSend
    BY <1>2, <1>5, <1>7 DEF PumpOf
  <2> QED
    BY <1>3, <1>4, <1>7, <2>1
<1>8. CASE ~Novel(call) /\ laser.sinceSend = MIN_LASER_SEND_INTERVAL
  <2>1. p.sends = "move" /\ p.sender.sinceMove = 0
    BY <1>2, <1>5, <1>8 DEF PumpOf
  <2> QED
    BY <1>3, <1>4, <1>8, <2>1
<1> QED
  BY <1>1, <1>6, <1>7, <1>8, LaserBounds

\* The relay after a call that was sent.
LEMMA Went ==
    ASSUME LaserInv, Sends(call), call.kind # "none"
    PROVE  /\ relay' # <<>> /\ Len(relay') = Len(relay) + 1 /\ gone' = gone
           /\ \A i \in 1..Len(relay) : relay'[i] = relay[i]
           /\ relay'[Len(relay')] = [kind |-> call.kind, new |-> call.new, age |-> 0]
           /\ Len(relay) \in Nat
<1> DEFINE f == [kind |-> call.kind, new |-> call.new, age |-> 0]
<1>1. relay \in Seq(Frames)
  BY Moments
<1>2. f \in Frames
  BY Moments, LaserBounds DEF Frames, Calls
<1>3. relay' = Append(relay, f) /\ gone' = gone
  BY DEF Sends
<1> HIDE DEF f
<1>4. /\ relay' \in Seq(Frames) /\ Len(relay') = Len(relay) + 1 /\ relay'[Len(relay) + 1] = f
      /\ \A i \in 1..Len(relay) : relay'[i] = relay[i]
  BY <1>1, <1>2, <1>3, AppendProperties
<1>5. relay' # <<>> /\ Len(relay) \in Nat
  BY <1>1, <1>4, LenProperties, EmptySeq
<1> QED
  BY <1>3, <1>4, <1>5 DEF f

\* A settled call leaves the newest position on the wire, or to the timer or the next call.
LEMMA SettlesDue ==
    ASSUME LaserInv, LaserTiming, CallSettles, laser.held, calm' # 0,
           NEW n \in Int, Due(laser, call, relay, gone, n)
    PROVE  Due(laser', call', relay', gone', n)
<1>1. /\ laser.sinceMove \in 0..LASER_KEEPALIVE /\ laser.sinceSend \in 0..MIN_LASER_SEND_INTERVAL
      /\ call.age \in Nat /\ call.kind \in {"none", "move", "off"} /\ Ordered(laser, call)
      /\ relay \in Seq(Frames) /\ gone \in BOOLEAN
  BY Moments
<1>2. /\ Round = SlowSend + WireDelay /\ Round \in Nat /\ Round < LASER_KEEPALIVE
      /\ LASER_KEEPALIVE \in Nat /\ WireDelay \in Nat /\ SlowSend \in Nat /\ MIN_LASER_SEND_INTERVAL \in Nat
  BY LaserBounds DEF Round, LaserTiming
<1>3. /\ Novel(call) => call'.kind = "none" /\ laser'.left = LASER_KEEPALIVE - laser.sinceMove
      /\ ~Novel(call) => \/ call'.kind = "none" /\ laser'.left = MIN_LASER_SEND_INTERVAL - laser.sinceSend
                         \/ call' = [kind |-> "move", new |-> TRUE, age |-> 0] /\ laser'.sinceMove = 0
      /\ call.kind # "none"
  BY SettlesTo
<1>4. n >= 0 /\ (OnWire(call, relay, n) \/ InCall(laser, call, relay, gone, n) \/ Gated(laser, call, n))
  BY <1>3 DEF Due, Timed
<1>5. Novel(call) => laser.sinceMove <= call.age
  BY <1>1 DEF Ordered, Novel
<1>6. \/ Sends(call) /\ calm' = calm
      \/ relay' = relay /\ gone' = TRUE /\ ~gone /\ calm' = calm
  BY DEF CallSettles
<1>7. call.age <= SlowSend
  <2>1. calm > 0
    BY <1>6, Moments
  <2> QED
    BY <1>3, <2>1 DEF LaserInv
<1>8. ASSUME ~Novel(call), relay' = <<>> => gone' PROVE Due(laser', call', relay', gone', n)
  <2>1. Gated(laser, call, n)
    BY <1>4, <1>8, <1>3 DEF OnWire, InCall
  <2>2. /\ n >= 2 * LASER_KEEPALIVE + Round
        /\ n >= 2 * LASER_KEEPALIVE + Round + (MIN_LASER_SEND_INTERVAL - laser.sinceSend)
    BY <1>1, <1>2, <2>1 DEF Gated
  <2>3. CASE call'.kind = "none" /\ laser'.left = MIN_LASER_SEND_INTERVAL - laser.sinceSend
    <3>1. laser'.left \in Nat
      BY <1>1, <1>2, <2>3
    <3>2. /\ n >= laser'.left + Round /\ n >= laser'.left + Round + LASER_KEEPALIVE
          /\ n >= laser'.left + Round + 2 * LASER_KEEPALIVE
      <4> DEFINE l == laser'.left
      <4>1. l \in Nat /\ n >= 2 * LASER_KEEPALIVE + Round + l
        BY <2>2, <2>3, <3>1
      <4> HIDE DEF l
      <4>2. n >= l + Round /\ n >= l + Round + LASER_KEEPALIVE /\ n >= l + Round + 2 * LASER_KEEPALIVE
        BY <1>2, <4>1
      <4> QED
        BY <4>2 DEF l
    <3>3. Timed(laser', call', relay', gone', n)
      BY <2>3, <3>2 DEF Timed
    <3> QED
      BY <1>4, <3>3 DEF Due
  <2>4. CASE call' = [kind |-> "move", new |-> TRUE, age |-> 0] /\ laser'.sinceMove = 0
    <3>1. call'.kind # "none" /\ Novel(call') /\ call'.age = 0
      BY <2>4 DEF Novel
    <3>2. n >= 2 * LASER_KEEPALIVE - laser'.sinceMove + Round /\ n >= WireDelay /\ n + call'.age >= Round
      BY <1>2, <2>2, <2>4, <3>1
    <3>3. InCall(laser', call', relay', gone', n)
      BY <1>8, <3>1, <3>2 DEF InCall
    <3> QED
      BY <1>4, <3>3 DEF Due
  <2> QED
    BY <1>3, <1>8, <2>3, <2>4
<1>9. CASE Sends(call) /\ ~Novel(call)
  BY <1>3, <1>8, <1>9, Went
<1>10. CASE relay' = relay /\ gone' = TRUE /\ ~Novel(call)
  BY <1>8, <1>10
<1>11. CASE Sends(call) /\ Novel(call)
  <2>1. /\ Len(relay') = Len(relay) + 1 /\ Len(relay) \in Nat
        /\ \A i \in 1..Len(relay) : relay'[i] = relay[i]
        /\ relay'[Len(relay')] = [kind |-> call.kind, new |-> call.new, age |-> 0]
    BY <1>3, <1>11, Went
  <2>2. Novel(relay'[Len(relay')]) /\ relay'[Len(relay')].age = 0
    BY <1>11, <2>1 DEF Novel
  <2>3. ASSUME NEW j \in 1..Len(relay'), WireDelay <= relay'[j].age + n,
               \A i \in j..Len(relay') : Novel(relay'[i])
        PROVE  Due(laser', call', relay', gone', n)
    BY <1>3, <1>4, <1>11, <2>3 DEF Due, OnWire
  <2>4. CASE OnWire(call, relay, n)
    <3>1. PICK j \in 1..Len(relay) : /\ WireDelay <= relay[j].age + n
                                     /\ \A i \in j..Len(relay) : Novel(relay[i])
      BY <2>4 DEF OnWire
    <3>2. j \in 1..Len(relay') /\ relay'[j] = relay[j]
      BY <2>1
    <3>3. ASSUME NEW i \in j..Len(relay') PROVE Novel(relay'[i])
      <4>1. CASE i = Len(relay')
        BY <2>2, <4>1
      <4>2. CASE i # Len(relay')
        <5>1. i \in j..Len(relay) /\ i \in 1..Len(relay)
          BY <2>1, <4>2
        <5> QED
          BY <2>1, <3>1, <5>1
      <4> QED
        BY <4>1, <4>2
    <3> QED
      BY <2>3, <3>1, <3>2, <3>3
  <2>5. CASE InCall(laser, call, relay, gone, n)
    <3>1. n >= WireDelay
      BY <1>1, <1>2, <2>5 DEF InCall
    <3>2. Len(relay') \in 1..Len(relay') /\ \A i \in Len(relay')..Len(relay') : i = Len(relay')
      BY <2>1
    <3>3. WireDelay <= relay'[Len(relay')].age + n
      BY <1>2, <2>2, <3>1
    <3>4. \A i \in Len(relay')..Len(relay') : Novel(relay'[i])
      BY <2>2, <3>2
    <3> QED
      BY <2>3, <3>2, <3>3, <3>4
  <2> QED
    BY <1>4, <1>11, <2>4, <2>5 DEF Gated
<1>12. CASE relay' = relay /\ gone' = TRUE /\ ~gone /\ Novel(call)
  <2>1. CASE OnWire(call, relay, n)
    BY <1>3, <1>4, <1>12, <2>1 DEF OnWire, Due
  <2>2. CASE InCall(laser, call, relay, gone, n)
    <3> DEFINE l == laser'.left
    <3>1. l = LASER_KEEPALIVE - laser.sinceMove /\ l \in Nat /\ l > WireDelay
      BY <1>1, <1>2, <1>3, <1>5, <1>7, <1>12
    <3>2. /\ relay # <<>> => n >= l + Round + LASER_KEEPALIVE
          /\ relay = <<>> => n >= l + Round
      BY <1>1, <1>2, <1>12, <2>2, <3>1 DEF InCall
    <3>3. n >= l + Round
      BY <1>2, <3>1, <3>2
    <3>4. relay # <<>> => relay[Len(relay)].age \in Nat
      BY <1>1, FrameAges
    <3>5. relay # <<>> => ~(l + relay[Len(relay)].age <= WireDelay)
      BY <1>2, <3>1, <3>4
    <3>6. Timed(laser', call', relay', gone', n)
      BY <1>3, <1>12, <3>2, <3>3, <3>5 DEF Timed
    <3> QED
      BY <1>4, <3>6 DEF Due
  <2> QED
    BY <1>4, <1>12, <2>1, <2>2 DEF Gated
<1> QED
  BY <1>6, <1>9, <1>10, <1>11, <1>12

\* A fired timer adds nothing old.
LEMMA FiresClean ==
    ASSUME LaserInv, LaserTiming, TimerFires, laser.held, Clean(call, relay)
    PROVE  Clean(call', relay')
BY FiresFresh DEF Clean, Novel

\* A settled call adds nothing old.
LEMMA SettlesClean ==
    ASSUME LaserInv, LaserTiming, CallSettles, laser.held, Clean(call, relay)
    PROVE  Clean(call', relay')
<1>1. Novel(call) /\ call'.kind = "none" /\ call.kind # "none"
  BY SettlesTo DEF Clean
<1>2. CASE relay' = relay
  BY <1>1, <1>2 DEF Clean
<1>3. CASE Sends(call)
  <2>1. /\ Len(relay') = Len(relay) + 1 /\ Len(relay) \in Nat
        /\ \A i \in 1..Len(relay) : relay'[i] = relay[i]
        /\ relay'[Len(relay')] = [kind |-> call.kind, new |-> call.new, age |-> 0]
    BY <1>1, <1>3, Went
  <2>2. Novel(relay'[Len(relay')])
    BY <1>1, <2>1 DEF Novel
  <2>3. ASSUME NEW i \in 1..Len(relay') PROVE Novel(relay'[i])
    <3>1. i = Len(relay') \/ i \in 1..Len(relay)
      BY <2>1
    <3> QED
      BY <2>1, <2>2, <3>1 DEF Clean
  <2> QED
    BY <1>1, <2>3 DEF Clean
<1> QED
  BY <1>2, <1>3 DEF CallSettles

\* A frame after a tick.
LEMMA AgedFrame ==
    ASSUME NEW f \in Frames
    PROVE  LET a == [f EXCEPT !.age = @ + 1] IN a.kind = f.kind /\ a.new = f.new /\ a.age = f.age + 1
BY DEF Frames

\* A tick brings it one nearer.
LEMMA TickDue ==
    ASSUME LaserInv, LaserTiming, Tick, laser.held, calm' # 0,
           NEW n \in Int, Due(laser, call, relay, gone, n)
    PROVE  Due(laser', call', relay', gone', n - 1)
<1>1. /\ laser.sinceMove \in 0..LASER_KEEPALIVE /\ laser.sinceSend \in 0..MIN_LASER_SEND_INTERVAL
      /\ laser.left \in Nat /\ call.age \in Nat /\ Ordered(laser, call)
      /\ relay \in Seq(Frames) /\ gone \in BOOLEAN
  BY Moments
<1>2. /\ Round = SlowSend + WireDelay /\ Round \in Nat /\ Round < LASER_KEEPALIVE
      /\ LASER_KEEPALIVE \in Nat /\ WireDelay \in Nat \ {0} /\ SlowSend \in Nat \ {0}
      /\ MIN_LASER_SEND_INTERVAL \in Nat
  BY LaserBounds DEF Round, LaserTiming
<1>3. /\ laser'.sinceMove = IF laser.sinceMove < LASER_KEEPALIVE THEN laser.sinceMove + 1 ELSE LASER_KEEPALIVE
      /\ laser'.sinceSend = IF laser.sinceSend < MIN_LASER_SEND_INTERVAL
                            THEN laser.sinceSend + 1 ELSE MIN_LASER_SEND_INTERVAL
      /\ laser.timer # "none" => laser.left > 0 /\ laser'.left = laser.left - 1
      /\ call'.kind = call.kind /\ call'.new = call.new
      /\ call.kind # "none" => call'.age = call.age + 1
  BY TickAges
<1>4. Novel(call') <=> Novel(call)
  BY <1>3 DEF Novel
<1>5. call.kind # "none" => call.age < SlowSend
  BY <1>1, <1>2 DEF Tick
<1>6. /\ gone' = gone /\ DOMAIN relay' = DOMAIN relay
      /\ \A i \in DOMAIN relay : relay'[i] = [relay[i] EXCEPT !.age = @ + 1]
      /\ \A i \in DOMAIN relay : relay[i].age < WireDelay
  BY DEF Tick
<1>7. /\ relay' \in Seq(Frames) /\ Len(relay') = Len(relay) /\ (relay' = <<>> <=> relay = <<>>)
      /\ DOMAIN relay = 1..Len(relay)
  <2>1. relay' \in Seq(Frames)
    BY TickKeeps DEF LaserInv, LaserTypeOK
  <2> QED
    BY <1>1, <1>6, <2>1, LenProperties, EmptySeq
<1>8. \A i \in 1..Len(relay) : /\ relay'[i].kind = relay[i].kind /\ relay'[i].new = relay[i].new
                              /\ relay[i].age \in Nat /\ relay'[i].age = relay[i].age + 1
                              /\ relay[i].age < WireDelay
  <2> SUFFICES ASSUME NEW i \in 1..Len(relay)
               PROVE  /\ relay'[i].kind = relay[i].kind /\ relay'[i].new = relay[i].new
                      /\ relay[i].age \in Nat /\ relay'[i].age = relay[i].age + 1
                      /\ relay[i].age < WireDelay
    OBVIOUS
  <2>1. relay[i] \in Frames /\ relay[i].age \in Nat
    BY <1>1, FrameAges
  <2>2. relay'[i] = [relay[i] EXCEPT !.age = @ + 1] /\ relay[i].age < WireDelay
    BY <1>6, <1>7
  <2> QED
    BY <2>1, <2>2, AgedFrame
<1>9. CASE OnWire(call, relay, n)
  <2>1. PICK j \in 1..Len(relay) : /\ WireDelay <= relay[j].age + n
                                   /\ \A i \in j..Len(relay) : Novel(relay[i])
    BY <1>9 DEF OnWire
  <2>2. WireDelay <= relay'[j].age + (n - 1) /\ n - 1 >= 0
    BY <1>2, <1>8, <2>1
  <2>3. \A i \in j..Len(relay') : Novel(relay'[i])
    BY <1>7, <1>8, <2>1 DEF Novel
  <2>4. OnWire(call', relay', n - 1)
    BY <1>3, <1>4, <1>7, <1>9, <2>2, <2>3 DEF OnWire
  <2> QED
    BY <2>2, <2>4 DEF Due
<1>10. CASE InCall(laser, call, relay, gone, n)
  <2>1. call.kind # "none" /\ Novel(call) /\ call.age < SlowSend /\ laser.sinceMove <= call.age
    BY <1>1, <1>5, <1>10 DEF InCall, Ordered, Novel
  <2>2. laser'.sinceMove = laser.sinceMove + 1 /\ call'.age = call.age + 1
    BY <1>1, <1>2, <1>3, <2>1
  <2>3. /\ relay' # <<>> => n - 1 >= 2 * LASER_KEEPALIVE - laser'.sinceMove + Round
        /\ relay' = <<>> /\ ~gone' => n - 1 >= LASER_KEEPALIVE - laser'.sinceMove + Round
        /\ relay' = <<>> /\ gone' => n - 1 >= WireDelay /\ (n - 1) + call'.age >= Round
    <3> DEFINE m == laser.sinceMove
               a == call.age
    <3>1. /\ relay # <<>> => n >= 2 * LASER_KEEPALIVE - m + Round
          /\ relay = <<>> /\ ~gone => n >= LASER_KEEPALIVE - m + Round
          /\ relay = <<>> /\ gone => n >= WireDelay /\ n + a >= Round
      BY <1>10 DEF InCall
    <3>2. m \in Nat /\ a \in Nat /\ a < SlowSend /\ m <= a
      BY <1>1, <1>2, <2>1
    <3>3. laser'.sinceMove = m + 1 /\ call'.age = a + 1
      BY <2>2
    <3> HIDE DEF m, a
    <3>4. CASE relay # <<>>
      BY <1>2, <1>7, <3>1, <3>2, <3>3, <3>4
    <3>5. CASE relay = <<>> /\ ~gone
      BY <1>2, <1>6, <1>7, <3>1, <3>2, <3>3, <3>5
    <3>6. CASE relay = <<>> /\ gone
      BY <1>2, <1>6, <1>7, <3>1, <3>2, <3>3, <3>6
    <3> QED
      BY <3>4, <3>5, <3>6
  <2>4. n - 1 >= 0
    BY <1>1, <1>2, <2>2, <2>3, TickKeeps, Moments
  <2> QED
    BY <1>3, <1>4, <2>1, <2>3, <2>4 DEF Due, InCall
<1>11. CASE Timed(laser, call, relay, gone, n)
  <2>1. laser.timer # "none"
    BY <1>1, <1>11 DEF Timed, Ordered
  <2> DEFINE l == laser'.left
  <2>2. l \in Nat /\ laser.left = l + 1
    BY <1>1, <1>3, <2>1
  <2>3. n - 1 >= l + Round /\ (relay' # <<>> \/ ~gone' => n - 1 >= l + Round + LASER_KEEPALIVE)
    <3>1. n >= laser.left + Round /\ (relay # <<>> \/ ~gone => n >= laser.left + Round + LASER_KEEPALIVE)
      BY <1>11 DEF Timed
    <3>2. n - 1 >= l + Round
      BY <1>2, <2>2, <3>1
    <3>3. relay # <<>> \/ ~gone => n - 1 >= l + Round + LASER_KEEPALIVE
      BY <1>2, <2>2, <3>1
    <3> QED
      BY <1>6, <1>7, <3>2, <3>3
  <2>4. ASSUME relay' # <<>>, l + relay'[Len(relay')].age <= WireDelay
        PROVE  n - 1 >= l + Round + 2 * LASER_KEEPALIVE
    <3>1. Len(relay) \in 1..Len(relay)
      BY <1>1, <1>7, <2>4, FrameAges
    <3>2. relay'[Len(relay')].age = relay[Len(relay)].age + 1 /\ relay[Len(relay)].age \in Nat
      BY <1>7, <1>8, <3>1
    <3>3. laser.left + relay[Len(relay)].age <= WireDelay
      BY <1>2, <2>2, <2>4, <3>2
    <3>4. n >= laser.left + Round + 2 * LASER_KEEPALIVE
      BY <1>7, <1>11, <2>4, <3>3 DEF Timed
    <3> QED
      BY <1>2, <2>2, <3>4
  <2>5. n - 1 >= 0
    BY <1>2, <2>2, <2>3
  <2> QED
    BY <1>3, <1>11, <2>3, <2>4, <2>5 DEF Due, Timed
<1>12. CASE Gated(laser, call, n)
  <2>1. call.kind # "none" /\ ~Novel(call) /\ call.age < SlowSend /\ call'.age = call.age + 1
    BY <1>3, <1>5, <1>12 DEF Gated
  <2>2. /\ n - 1 >= 2 * LASER_KEEPALIVE + Round
        /\ n - 1 >= 2 * LASER_KEEPALIVE + Round + SlowSend - call'.age
        /\ n - 1 >= 2 * LASER_KEEPALIVE + Round + MIN_LASER_SEND_INTERVAL - laser'.sinceSend
    <3> DEFINE m == laser.sinceSend
               a == call.age
    <3>1. /\ n >= 2 * LASER_KEEPALIVE + Round
          /\ n >= 2 * LASER_KEEPALIVE + Round + SlowSend - a
          /\ n >= 2 * LASER_KEEPALIVE + Round + MIN_LASER_SEND_INTERVAL - m
      BY <1>12 DEF Gated
    <3>2. m \in Nat /\ m <= MIN_LASER_SEND_INTERVAL /\ a \in Nat /\ a < SlowSend
      BY <1>1, <1>2, <2>1
    <3>3. call'.age = a + 1 /\ laser'.sinceSend = IF m < MIN_LASER_SEND_INTERVAL THEN m + 1 ELSE MIN_LASER_SEND_INTERVAL
      BY <1>3, <2>1
    <3> HIDE DEF m, a
    <3>4. n - 1 >= 2 * LASER_KEEPALIVE + Round
      BY <1>2, <3>1, <3>2
    <3>5. n - 1 >= 2 * LASER_KEEPALIVE + Round + SlowSend - call'.age
      BY <1>2, <3>1, <3>2, <3>3
    <3>6. n - 1 >= 2 * LASER_KEEPALIVE + Round + MIN_LASER_SEND_INTERVAL - laser'.sinceSend
      BY <1>2, <3>1, <3>2, <3>3, <3>4
    <3> QED
      BY <3>4, <3>5, <3>6
  <2> QED
    BY <1>2, <1>3, <1>4, <2>1, <2>2 DEF Due, Gated
<1> QED
  BY <1>9, <1>10, <1>11, <1>12 DEF Due

\* A tick adds nothing.
LEMMA TickClean == ASSUME LaserInv, LaserTiming, Tick, Clean(call, relay) PROVE Clean(call', relay')
<1>1. call'.kind = call.kind /\ call'.new = call.new
  BY TickAges
<1>2. relay \in Seq(Frames) /\ relay' = [i \in DOMAIN relay |-> [relay[i] EXCEPT !.age = @ + 1]]
  BY Moments DEF Tick
<1>3. relay' \in Seq(Frames) /\ DOMAIN relay' = DOMAIN relay /\ DOMAIN relay = 1..Len(relay)
  BY <1>2, TickKeeps, LenProperties DEF LaserInv, LaserTypeOK
<1>4. Len(relay') = Len(relay)
  BY <1>2, <1>3, LenProperties
<1>5. \A i \in 1..Len(relay) : relay'[i].kind = relay[i].kind /\ relay'[i].new = relay[i].new
  BY <1>2, <1>3, FrameAges DEF Frames
<1> QED
  BY <1>1, <1>4, <1>5 DEF Clean, Novel

\* The relay after a frame arrived.
LEMMA Taken ==
    ASSUME LaserInv, Arrives
    PROVE  /\ relay # <<>> /\ Len(relay) \in 1..Len(relay) /\ relay' \in Seq(Frames)
           /\ Len(relay') = Len(relay) - 1
           /\ \A i \in 1..Len(relay') : relay'[i] = relay[i + 1]
           /\ gone' = FALSE /\ laser' = laser /\ call' = call /\ calm' = calm
           /\ Novel(relay[1]) => trail' = [seen |-> "shown", new |-> relay[1].new, idle |-> 0]
<1>1. relay # <<>> /\ trail' = Shown(Head(relay)) /\ relay' = Tail(relay)
  BY DEF Arrives
<1>2. relay \in Seq(Frames)
  BY Moments
<1>3. Head(relay) = relay[1] /\ relay' \in Seq(Frames) /\ Len(relay') = Len(relay) - 1
      /\ \A i \in 1..Len(relay') : relay'[i] = relay[i + 1]
  BY <1>1, <1>2, HeadTailProperties
<1>4. Len(relay) \in 1..Len(relay)
  BY <1>1, <1>2, FrameAges
<1>5. Novel(relay[1]) => trail' = [seen |-> "shown", new |-> relay[1].new, idle |-> 0]
  BY <1>1, <1>3 DEF Novel, Shown
<1> QED
  BY <1>1, <1>3, <1>4, <1>5 DEF Arrives

\* The newest position arrives, and nothing else is under way.
LEMMA ArrivesKept ==
    ASSUME LaserInv, LaserTiming, Arrives, laser.held, Clean(call, relay)
    PROVE  Kept(laser', call', relay', gone', trail')
<1>1. /\ laser.sinceMove \in 0..LASER_KEEPALIVE /\ laser.sinceSend \in 0..MIN_LASER_SEND_INTERVAL
      /\ laser.left \in Nat /\ call.age \in Nat /\ Ordered(laser, call) /\ Poised(laser)
      /\ relay \in Seq(Frames)
  BY Moments
<1>2. /\ Round = SlowSend + WireDelay /\ Round \in Nat
      /\ LASER_KEEPALIVE \in Nat /\ WireDelay \in Nat /\ SlowSend \in Nat
      /\ MIN_LASER_SEND_INTERVAL \in Nat /\ MIN_LASER_SEND_INTERVAL <= LASER_KEEPALIVE
      /\ REMOTE_LASER_IDLE \in Nat /\ REMOTE_LASER_IDLE - 1 >= 2 * LASER_KEEPALIVE + Round
  BY LaserBounds DEF Round, LaserTiming
<1>3. /\ Len(relay) \in 1..Len(relay) /\ relay' \in Seq(Frames)
      /\ Len(relay') = Len(relay) - 1
      /\ \A i \in 1..Len(relay') : relay'[i] = relay[i + 1]
      /\ gone' = FALSE /\ laser' = laser /\ call' = call
      /\ Novel(relay[1]) => trail' = [seen |-> "shown", new |-> relay[1].new, idle |-> 0]
  BY Taken
<1>4. /\ call.kind = "none" \/ Novel(call)
      /\ \A i \in 1..Len(relay) : Novel(relay[i])
  BY DEF Clean
<1>5. 1 \in 1..Len(relay) /\ Novel(relay[1])
  BY <1>3, <1>4
<1>6. trail'.seen = "shown" /\ trail'.new /\ trail'.idle = 0
  BY <1>3, <1>5 DEF Novel
<1>7. \A i \in 1..Len(relay') : Novel(relay'[i])
  BY <1>3, <1>4
<1>8. Clean(call', relay')
  BY <1>3, <1>4, <1>7 DEF Clean
<1> DEFINE n == REMOTE_LASER_IDLE - 1
<1>9. n \in Nat /\ n >= 2 * LASER_KEEPALIVE + Round
  BY <1>2
<1> HIDE DEF n
<1>10. ASSUME relay' # <<>> PROVE Due(laser', call', relay', gone', n)
  <2>1. Len(relay') \in 1..Len(relay') /\ relay'[Len(relay')].age \in Nat
    BY <1>3, <1>10, FrameAges
  <2>2. \A i \in Len(relay')..Len(relay') : Novel(relay'[i])
    BY <1>7, <2>1
  <2>3. WireDelay <= relay'[Len(relay')].age + n
    BY <1>2, <1>9, <2>1
  <2>4. OnWire(call', relay', n)
    BY <1>3, <1>4, <2>1, <2>2, <2>3 DEF OnWire
  <2> QED
    BY <1>9, <2>4 DEF Due
<1>11. ASSUME relay' = <<>>, call.kind = "none" PROVE Due(laser', call', relay', gone', n)
  <2>1. laser.timer = IF laser.pending THEN "gate" ELSE "keepalive"
    BY <1>1, <1>11 DEF Ordered
  <2>2. laser.left <= LASER_KEEPALIVE
    <3>1. CASE laser.pending
      BY <1>1, <1>2, <2>1, <3>1 DEF Poised
    <3>2. CASE ~laser.pending
      BY <1>1, <1>2, <2>1, <3>2 DEF Poised
    <3> QED
      BY <3>1, <3>2
  <2>3. n >= laser.left + Round /\ n >= laser.left + Round + LASER_KEEPALIVE
    BY <1>1, <1>2, <1>9, <2>2
  <2>4. Timed(laser', call', relay', gone', n)
    BY <1>3, <1>11, <2>3 DEF Timed
  <2> QED
    BY <1>9, <2>4 DEF Due
<1>12. ASSUME relay' = <<>>, call.kind # "none" PROVE Due(laser', call', relay', gone', n)
  <2>1. n >= LASER_KEEPALIVE - laser.sinceMove + Round
    BY <1>1, <1>2, <1>9
  <2>2. InCall(laser', call', relay', gone', n)
    BY <1>3, <1>4, <1>12, <2>1 DEF InCall
  <2> QED
    BY <1>9, <2>2 DEF Due
<1>13. Due(laser', call', relay', gone', n)
  BY <1>10, <1>11, <1>12
<1>14. REMOTE_LASER_IDLE - 1 - trail'.idle = n
  BY <1>2, <1>6 DEF n
<1> QED
  BY <1>6, <1>8, <1>13, <1>14 DEF Kept

\* A frame that arrives does not take the newest position back.
LEMMA ArrivesDue ==
    ASSUME LaserInv, LaserTiming, Arrives, laser.held, NEW n \in Int, Due(laser, call, relay, gone, n)
    PROVE  Due(laser', call', relay', gone', n) \/ Kept(laser', call', relay', gone', trail')
<1>1. laser.sinceMove \in 0..LASER_KEEPALIVE /\ laser.left \in Nat /\ relay \in Seq(Frames)
  BY Moments
<1>2. LASER_KEEPALIVE \in Nat /\ Round \in Nat
  BY LaserBounds DEF Round
<1>3. /\ relay # <<>> /\ Len(relay) \in 1..Len(relay) /\ relay' \in Seq(Frames)
      /\ Len(relay') = Len(relay) - 1
      /\ \A i \in 1..Len(relay') : relay'[i] = relay[i + 1]
      /\ gone' = FALSE /\ laser' = laser /\ call' = call
  BY Taken
<1>4. CASE OnWire(call, relay, n)
  <2>1. PICK j \in 1..Len(relay) : /\ WireDelay <= relay[j].age + n
                                   /\ \A i \in j..Len(relay) : Novel(relay[i])
    BY <1>4 DEF OnWire
  <2>2. CASE j = 1
    BY <1>4, <2>1, <2>2, ArrivesKept DEF OnWire, Clean
  <2>3. CASE j # 1
    <3>1. j - 1 \in 1..Len(relay') /\ relay'[j - 1] = relay[j]
      BY <1>3, <2>3
    <3>2. ASSUME NEW i \in (j - 1)..Len(relay') PROVE Novel(relay'[i])
      <4>1. i \in 1..Len(relay') /\ i + 1 \in j..Len(relay)
        BY <1>3, <3>1
      <4> QED
        BY <1>3, <2>1, <4>1
    <3>3. OnWire(call', relay', n)
      BY <1>3, <1>4, <2>1, <3>1, <3>2 DEF OnWire
    <3> QED
      BY <3>3 DEF Due
  <2> QED
    BY <2>2, <2>3
<1>5. CASE InCall(laser, call, relay, gone, n)
  <2>1. n >= 2 * LASER_KEEPALIVE - laser.sinceMove + Round
    BY <1>3, <1>5 DEF InCall
  <2>2. n >= LASER_KEEPALIVE - laser.sinceMove + Round
    BY <1>1, <1>2, <2>1
  <2>3. InCall(laser', call', relay', gone', n)
    BY <1>3, <1>5, <2>1, <2>2 DEF InCall
  <2> QED
    BY <2>3 DEF Due
<1>6. CASE Timed(laser, call, relay, gone, n)
  <2>1. /\ n >= laser.left + Round /\ n >= laser.left + Round + LASER_KEEPALIVE
        /\ laser.left + relay[Len(relay)].age <= WireDelay => n >= laser.left + Round + 2 * LASER_KEEPALIVE
    BY <1>3, <1>6 DEF Timed
  <2>2. relay' # <<>> => relay'[Len(relay')] = relay[Len(relay)]
    <3>1. relay' # <<>> => Len(relay') \in 1..Len(relay') /\ Len(relay') + 1 = Len(relay)
      BY <1>3, FrameAges
    <3> QED
      BY <1>3, <3>1
  <2>3. Timed(laser', call', relay', gone', n)
    BY <1>3, <1>6, <2>1, <2>2 DEF Timed
  <2> QED
    BY <2>3 DEF Due
<1>7. CASE Gated(laser, call, n)
  BY <1>3, <1>7 DEF Gated, Due
<1> QED
  BY <1>4, <1>5, <1>6, <1>7 DEF Due

-----------------------------------------------------------------------------
(* The laser stays.                                                           *)

\* Every step keeps the newest position on the screen or due in time.
LEMMA SeenNext == ASSUME LaserInv, LaserTiming, Seen, LaserNext, LaserInv' PROVE Seen'
<1> SUFFICES ASSUME laser'.held
             PROVE  \/ Kept(laser', call', relay', gone', trail')
                    \/ Due(laser', call', relay', gone', SettledBy - 1 - calm')
  BY DEF Seen
<1>1. calm \in 0..SettledBy /\ calm' \in 0..SettledBy /\ SettledBy \in Nat
  BY LaserBounds DEF LaserInv, LaserTypeOK
<1>2. CASE calm' = 0
  <2>1. Due(laser', call', relay', gone', SettledBy - 1)
    BY DueFirst DEF LaserInv, LaserTypeOK
  <2>2. SettledBy - 1 - calm' = SettledBy - 1
    BY <1>1, <1>2
  <2> QED
    BY <2>1, <2>2
<1>3. CASE calm' # 0 /\ laser.held
  <2> DEFINE n == SettledBy - 1 - calm
             k == REMOTE_LASER_IDLE - 1 - trail.idle
  <2>1. n \in Int /\ k \in Int
    BY <1>1, Moments, LaserBounds
  <2>2. \/ /\ trail.seen = "shown" /\ trail.new /\ Clean(call, relay)
           /\ Due(laser, call, relay, gone, k)
        \/ Due(laser, call, relay, gone, n)
    BY <1>3 DEF Seen, Kept
  <2>3. CASE TimerFires
    <3>1. trail' = trail /\ calm' = calm
      BY <1>3, <2>3, FiresFresh
    <3>2. Due(laser, call, relay, gone, n) => Due(laser', call', relay', gone', n)
      BY <1>3, <2>1, <2>3, FiresDue
    <3>3. Due(laser, call, relay, gone, k) => Due(laser', call', relay', gone', k)
      BY <1>3, <2>1, <2>3, FiresDue
    <3>4. Clean(call, relay) => Clean(call', relay')
      BY <1>3, <2>3, FiresClean
    <3> QED
      BY <2>2, <3>1, <3>2, <3>3, <3>4 DEF Kept
  <2>4. CASE CallSettles
    <3>1. trail' = trail /\ calm' = calm
      BY <1>3, <2>4 DEF CallSettles
    <3>2. Due(laser, call, relay, gone, n) => Due(laser', call', relay', gone', n)
      BY <1>3, <2>1, <2>4, SettlesDue
    <3>3. Due(laser, call, relay, gone, k) => Due(laser', call', relay', gone', k)
      BY <1>3, <2>1, <2>4, SettlesDue
    <3>4. Clean(call, relay) => Clean(call', relay')
      BY <1>3, <2>4, SettlesClean
    <3> QED
      BY <2>2, <3>1, <3>2, <3>3, <3>4 DEF Kept
  <2>5. CASE Tick
    <3>1. CASE Due(laser, call, relay, gone, n)
      <4>1. Due(laser', call', relay', gone', n - 1)
        BY <1>3, <2>1, <2>5, <3>1, TickDue
      <4>2. calm' = Upto(calm, SettledBy) /\ calm < SettledBy
        BY <1>1, <1>3, <2>5, <3>1 DEF Tick, Due
      <4>3. SettledBy - 1 - calm' = n - 1
        BY <1>1, <4>2, Ticking
      <4> QED
        BY <4>1, <4>3
    <3>2. CASE trail.seen = "shown" /\ trail.new /\ Clean(call, relay) /\ Due(laser, call, relay, gone, k)
      <4>1. Due(laser', call', relay', gone', k - 1)
        BY <1>3, <2>1, <2>5, <3>2, TickDue
      <4>2. Clean(call', relay')
        BY <2>5, <3>2, TickClean
      <4>3. trail \in Trails /\ trail.idle \in Nat /\ trail.idle < REMOTE_LASER_IDLE
        BY <2>5, <3>2, Moments, LaserBounds DEF Tick
      <4>4. Upto(trail.idle, REMOTE_LASER_IDLE) = trail.idle + 1
        BY <4>3, LaserBounds, Ticking
      <4>5. trail' = [trail EXCEPT !.idle = trail.idle + 1]
        BY <2>5, <3>2, <4>4 DEF Tick
      <4>6. trail'.seen = "shown" /\ trail'.new /\ trail'.idle = trail.idle + 1
        BY <3>2, <4>3, <4>5 DEF Trails
      <4>7. REMOTE_LASER_IDLE - 1 - trail'.idle = k - 1
        BY <4>3, <4>6, LaserBounds
      <4> QED
        BY <4>1, <4>2, <4>6, <4>7 DEF Kept
    <3> QED
      BY <2>2, <3>1, <3>2
  <2>6. CASE Arrives
    <3>1. calm' = calm
      BY <2>6 DEF Arrives
    <3>2. Due(laser, call, relay, gone, n) => \/ Due(laser', call', relay', gone', n)
                                             \/ Kept(laser', call', relay', gone', trail')
      BY <1>3, <2>1, <2>6, ArrivesDue
    <3>3. Clean(call, relay) => Kept(laser', call', relay', gone', trail')
      BY <1>3, <2>6, ArrivesKept
    <3> QED
      BY <2>2, <3>1, <3>2, <3>3
  <2>7. CASE Expire \/ Faded
    <3>1. laser' = laser /\ call' = call /\ relay' = relay /\ gone' = gone /\ calm' = calm
      BY <2>7 DEF Expire, Faded
    <3>2. ~(trail.seen = "shown" /\ Due(laser, call, relay, gone, k))
      <4>1. CASE Expire
        <5>1. k < 0
          BY <4>1, Moments, LaserBounds DEF Expire
        <5> HIDE DEF k
        <5> QED
          BY <2>1, <5>1 DEF Due
      <4>2. CASE Faded
        BY <4>2 DEF Faded
      <4> QED
        BY <2>7, <4>1, <4>2
    <3> QED
      BY <2>2, <3>1, <3>2
  <2>8. CASE LaserMoves \/ LaserReleased \/ CallTimesOut \/ StraySends
    BY <1>3, <2>8 DEF LaserMoves, LaserReleased, CallTimesOut, StraySends
  <2>9. CASE LaserCloses \/ LaserCrashes
    BY <2>9, LaserStopsKeeps
  <2>10. CASE FinalSends
    BY <1>3, <2>10, Moments DEF FinalSends, LaserInv, Poised
  <2> QED
    BY <2>3, <2>4, <2>5, <2>6, <2>7, <2>8, <2>9, <2>10 DEF LaserNext
<1>4. CASE calm' # 0 /\ ~laser.held
  BY <1>4, LaserMovesKeeps, LaserReleasedKeeps, LaserStopsKeeps, TimerFiresKeeps, CallSettlesKeeps,
     CallTimesOutKeeps, LateSendsKeeps, WatcherKeeps, TickKeeps DEF LaserNext, LaserMoves
<1> QED
  BY <1>2, <1>3, <1>4

\* A laser held still is on the watcher's screen, at the newest position, once
\* no call was slow and no two frames in a row were lost for long enough.
THEOREM LaserStaysOn == LaserSpec => []LaserStays
<1>1. LaserInit => Seen
  BY DEF LaserInit, Unused, Seen
<1>2. ASSUME LaserInv, Seen, LaserInv', [LaserNext]_laserVars PROVE Seen'
  <2>1. CASE LaserNext
    BY <1>2, <2>1, SeenNext, LaserTimingAssumption
  <2>2. CASE UNCHANGED laserVars
    BY <1>2, <2>2 DEF laserVars, Seen
  <2> QED
    BY <1>2, <2>1, <2>2
<1>3. ASSUME LaserInv, Seen PROVE LaserStays
  <2> SUFFICES ASSUME laser.held, calm >= SettledBy PROVE trail.seen = "shown" /\ trail.new
    BY DEF LaserStays
  <2> DEFINE n == SettledBy - 1 - calm
  <2>1. n \in Int /\ n < 0
    BY <1>3, Moments, LaserBounds
  <2>2. \/ Kept(laser, call, relay, gone, trail)
        \/ Due(laser, call, relay, gone, n)
    BY <1>3 DEF Seen
  <2> HIDE DEF n
  <2>3. ~Due(laser, call, relay, gone, n)
    BY <2>1 DEF Due
  <2> QED
    BY <2>2, <2>3 DEF Kept
<1> QED
  BY <1>1, <1>2, <1>3, LaserSafety, PTL DEF LaserSpec
=============================================================================
