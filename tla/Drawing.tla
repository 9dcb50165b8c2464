------------------------------- MODULE Drawing -------------------------------
(***************************************************************************)
(* The drawing canvas of one room: the server's StrokeBookkeeping          *)
(* (rooms/state.rs), the DRAW_* handlers that change it under the room's    *)
(* write lock (rooms/drawing.rs, dispatch.rs), and the canvas of one        *)
(* participant who watches (stores/useDrawingStore.ts).                     *)
(*                                                                         *)
(* Every event is published under the lock that applied it, so a watcher   *)
(* sees the server's order.  A watcher whose subscription lagged sees       *)
(* nothing until a DRAW_SYNC snapshot: module RoomFeed shows that delivery  *)
(* is one or the other, this module shows what is then on the screen.       *)
(*                                                                         *)
(* A point is told apart by its place in its stroke only, so a stroke's     *)
(* points are a number; the point carried by DRAW_BEGIN is not counted.     *)
(***************************************************************************)
EXTENDS Integers, Sequences, FiniteSets, SequencesExt, FiniteSetsExt, Orders

CONSTANTS
    Users,           \* participants who may draw
    Host,            \* the room's host, who holds every capability
    NoOne,           \* no owner
    Strokes,         \* stroke ids; UUIDs are compared bytewise, so numbers
    LongColour,      \* the strokes whose colour is too long to retain
    UndoOwn,         \* holders of UNDO_OWN besides the host
    UndoAny,         \* holders of UNDO_ANY besides the host
    ClearAllowed,    \* holders of CLEAR_ALL besides the host
    MaxCommitted,    \* MAX_COMMITTED_STROKES
    MaxRetained,     \* MAX_RETAINED_POINTS
    MaxPerStroke,    \* MAX_RETAINED_POINTS_PER_STROKE
    MaxOpenPerUser,  \* MAX_OPEN_STROKES_PER_USER
    MaxOpenPerRoom,  \* MAX_OPEN_STROKES_PER_ROOM
    Ticks,           \* bound: how far the clock moves on between DRAW_BEGINs
    MaxUses,         \* bound: strokes begun with the same id
    MaxPoints        \* bound: points of one stroke on the watcher's screen

ASSUME DrawingAssumption ==
    /\ Host \in Users
    /\ NoOne \notin Users
    /\ LongColour \subseteq Strokes
    /\ Strokes \subseteq Nat
    /\ IsFiniteSet(Strokes)
    /\ UndoOwn \cup UndoAny \cup ClearAllowed \subseteq Users
    /\ {MaxCommitted, MaxRetained, MaxPerStroke, MaxOpenPerUser,
        MaxOpenPerRoom} \subseteq Nat \ {0}
    /\ {MaxUses, MaxPoints} \cup Ticks \subseteq Nat

VARIABLES
    book,     \* StrokeBookkeeping
    mayDraw,  \* the live participants who hold DRAW, the host among them
    late,     \* users revoked who may have a message between gate and lock
    uses,     \* history: the strokes begun with each id
    screen,   \* the watcher's useDrawingStore
    feed      \* the watcher: "live", "behind" (lagged), "synced" (has lagged)

\* The capability gate (check_capability) reads the room before the handler
\* locks it.  A message whose sender still holds DRAW when it is handled may
\* as well have passed the gate just then; what is left is the one message a
\* connection can have in between when its user loses DRAW.
vars == <<book, mayDraw, late, uses, screen, feed>>

NotOpen == [owner |-> NoOne, started |-> 0, cleared |-> FALSE]
NoContent == [kept |-> "none", points |-> 0, ended |-> FALSE]

\* An open stroke; what is retained of a stroke; a screen.
Pending == [owner : Users \cup {NoOne}, started : Nat, cleared : BOOLEAN]
Content == [kept : {"none", "kept", "dropped"}, points : Nat, ended : BOOLEAN]
Screens == [active : SUBSET Strokes, completed : Seq(Strokes), points : [Strokes -> Nat]]
EmptyScreen == [active |-> {}, completed |-> <<>>,
                points |-> [s \in Strokes |-> 0]]

\* `forgotten' is history: what commit() has returned since the last clear.
Book == [pending   : [Strokes -> [owner : Users \cup {NoOne}, started : Nat,
                                  cleared : BOOLEAN]],
         committed : [Strokes -> Users \cup {NoOne}],
         order     : Seq(Strokes),
         content   : [Strokes -> [kept : {"none", "kept", "dropped"},
                                  points : Nat, ended : BOOLEAN]],
         retained  : Nat,
         evict     : Seq(Strokes),
         forgotten : SUBSET Strokes]

EmptyBook == [pending   |-> [s \in Strokes |-> NotOpen],
              committed |-> [s \in Strokes |-> NoOne],
              order     |-> <<>>,
              content   |-> [s \in Strokes |-> NoContent],
              retained  |-> 0,
              evict     |-> <<>>,
              forgotten |-> {}]

-----------------------------------------------------------------------------
(* StrokeBookkeeping: its methods as functions from a book to a book.      *)

Open(b) == {s \in Strokes : b.pending[s].owner # NoOne}
OpenBy(b, u) == {s \in Strokes : b.pending[s].owner = u}
Committed(b) == {s \in Strokes : b.committed[s] # NoOne}

\* Open strokes a DRAW_CLEAR did not hit.
Uncleared(b) == {s \in Open(b) : ~b.pending[s].cleared}

\* (started_ms, stroke_id): the order of the snapshot and of the caps.
Older(b, s, t) ==
    \/ b.pending[s].started < b.pending[t].started
    \/ b.pending[s].started = b.pending[t].started /\ s <= t

ForgetContent(b, s) ==
    [b EXCEPT !.content[s] = NoContent,
              !.retained = @ - b.content[s].points]

\* drop_content, then mark_dropped.
DropContent(b, s) ==
    [b EXCEPT !.content[s].kept = "dropped",
              !.content[s].points = 0,
              !.retained = @ - b.content[s].points]

\* The while loop runs at most once: before, order is within the cap.
Commit(b, s, u) ==
    LET order == IF b.committed[s] = NoOne THEN Append(b.order, s) ELSE b.order
        oldest == Head(order)
        noted == [b EXCEPT !.committed[s] = u, !.order = order]
    IN  IF Len(order) <= MaxCommitted THEN noted
        ELSE ForgetContent([noted EXCEPT !.committed[oldest] = NoOne,
                                         !.order = Tail(order),
                                         !.forgotten = @ \cup {oldest}],
                           oldest)

\* The content of a stroke DRAW_BEGIN opens; forget_content comes first.
RecordBegin(b, s) ==
    [ForgetContent(b, s) EXCEPT
       !.content[s] = [kept |-> IF s \in LongColour THEN "dropped" ELSE "kept",
                       points |-> 0, ended |-> FALSE]]

\* A committed stroke that still holds points.
Evictable(b, s) ==
    /\ b.committed[s] # NoOne
    /\ b.content[s].kept = "kept"
    /\ b.content[s].points > 0

\* Pop the queue up to the first stroke that can be evicted, and evict it;
\* with none the stroke the point belongs to is no longer kept.
MakeRoom(b, s) ==
    LET places == {i \in 1..Len(b.evict) : Evictable(b, b.evict[i])}
        first  == Min(places)
    IN  IF places = {} THEN DropContent([b EXCEPT !.evict = <<>>], s)
        ELSE DropContent([b EXCEPT !.evict = SubSeq(@, first + 1, Len(@))],
                         b.evict[first])

\* The budget loop too runs at most once: its victim holds a point.
RecordPoint(b, s) ==
    LET roomy == IF b.retained >= MaxRetained THEN MakeRoom(b, s) ELSE b IN
    IF b.content[s].kept # "kept" THEN b
    ELSE IF b.content[s].points >= MaxPerStroke THEN DropContent(b, s)
    ELSE IF roomy.content[s].kept # "kept" THEN roomy
    ELSE [roomy EXCEPT !.content[s].points = @ + 1, !.retained = @ + 1]

RecordEnd(b, s) ==
    LET queue == IF b.content[s].kept = "none" THEN b.evict
                 ELSE Append(b.evict, s)
    IN  [b EXCEPT !.content[s].ended = (b.content[s].kept # "none"),
                  !.evict = IF Len(queue) <= 2 * MaxCommitted THEN queue
                            ELSE Only(queue, Committed(b))]

Unpend(b, s) == [b EXCEPT !.pending[s] = NotOpen]

\* Mutant: a DRAW_END commits a stroke that was cleared while open.
EndStrokeCommittingCleared(b, s) ==
    RecordEnd(Commit(Unpend(b, s), s, b.pending[s].owner), s)

\* DRAW_END of an open stroke, by its owner or by the caps.
EndStroke(b, s) ==
    LET closed == Unpend(b, s) IN
    IF b.pending[s].cleared THEN ForgetContent(closed, s)
    ELSE RecordEnd(Commit(closed, s, b.pending[s].owner), s)

\* Who must make room for a stroke of u: one of u's, or one of the room's.
Victims(b, u) ==
    IF Cardinality(OpenBy(b, u)) >= MaxOpenPerUser THEN OpenBy(b, u)
    ELSE IF Cardinality(Open(b)) >= MaxOpenPerRoom THEN Open(b)
    ELSE {}

\* The victim is the oldest; the loop runs at most once, as the caps hold
\* before (OpenBounded, which a second pass would be needed to restore).
Victim(b, u) == CHOOSE s \in Victims(b, u) : \A t \in Victims(b, u) : Older(b, s, t)

FinishOldestOpen(b, u) ==
    IF Victims(b, u) = {} THEN b ELSE EndStroke(b, Victim(b, u))

\* The strokes it committed, whose DRAW_END the room is told.
Finished(b, u) ==
    IF Victims(b, u) = {} THEN {} ELSE {Victim(b, u)} \cap Uncleared(b)

\* Mutant: an undone stroke's content is not forgotten.
RemoveCommittedKeepingContent(b, s) ==
    [b EXCEPT !.committed[s] = NoOne,
              !.order = Only(@, Strokes \ {s})]

RemoveCommitted(b, s) ==
    ForgetContent([b EXCEPT !.committed[s] = NoOne,
                            !.order = Only(@, Strokes \ {s})], s)

\* Mutant: retained_points is not reset.
ClearAllKeepingCount(b) ==
    [EmptyBook EXCEPT !.pending = [s \in Strokes |->
                                     [b.pending[s] EXCEPT !.cleared = s \in Open(b)]],
                      !.retained = b.retained]

ClearAll(b) ==
    [EmptyBook EXCEPT !.pending = [s \in Strokes |->
                                     [b.pending[s] EXCEPT !.cleared = s \in Open(b)]]]

\* Mutant: the snapshot walks the committed map, not the commit order.
SnapshotUnordered(b) ==
    SetToSortSeq(Committed(b), >=) \o SetToSortSeq(Uncleared(b), >=)

\* The open strokes a DRAW_SYNC lists, oldest first.
OpenByAge(b) ==
    InOrder(Uncleared(b),
            {p \in Uncleared(b) \X Uncleared(b) : Older(b, p[1], p[2])})

\* The ids of a DRAW_SYNC: committed in commit order, then the open ones.
Snapshot(b) == b.order \o OpenByAge(b)

-----------------------------------------------------------------------------
(* The watcher's store, a screen to a screen.                              *)

Held(scr, s) == s \in scr.active \/ s \in Range(scr.completed)

OnBegin(scr, s) ==
    IF Held(scr, s) THEN scr
    ELSE [scr EXCEPT !.active = @ \cup {s}, !.points[s] = 0]

OnPoint(scr, s) ==
    IF s \notin scr.active THEN scr ELSE [scr EXCEPT !.points[s] = @ + 1]

OnEnd(scr, s) ==
    IF s \notin scr.active THEN scr
    ELSE [scr EXCEPT !.active = @ \ {s}, !.completed = Append(@, s)]

OnUndo(scr, s) ==
    [scr EXCEPT !.active = @ \ {s},
                !.completed = Only(@, Strokes \ {s}),
                !.points[s] = 0]

\* applySnapshot: a stroke listed with content replaces the copy; one listed
\* without it keeps the copy, if there is one; every other stroke goes.
ApplySnapshot(scr, b) ==
    LET full(s)  == b.content[s].kept = "kept"
        shown(s) == full(s) \/ Held(scr, s)
        open(s)  == ~b.content[s].ended /\ (full(s) \/ s \in scr.active)
        listed   == Only(Snapshot(b), {s \in Strokes : shown(s)})
    IN  [active    |-> {s \in Range(listed) : open(s)},
         completed |-> Only(listed, {s \in Strokes : ~open(s)}),
         points    |-> [s \in Strokes |->
                          IF s \notin Range(listed) THEN 0
                          ELSE IF full(s) THEN b.content[s].points
                          ELSE scr.points[s]]]

\* An event, or events, published under the lock.
Publish(scr) == screen' = IF feed = "behind" THEN screen ELSE scr

-----------------------------------------------------------------------------
(* The handlers.                                                           *)

Init ==
    /\ book = EmptyBook
    /\ mayDraw = {Host}
    /\ late = {}
    /\ uses = [s \in Strokes |-> 0]
    /\ screen = EmptyScreen
    /\ feed = "live"

\* PERMISSION_SET on DRAW (permissions.rs), or a participant coming or going.
Grant(u) ==
    /\ u \notin mayDraw
    /\ mayDraw' = mayDraw \cup {u}
    /\ late' = late \ {u}
    /\ UNCHANGED <<book, uses, screen, feed>>

Revoke(u) ==
    /\ u \in mayDraw \ {Host}
    /\ mayDraw' = mayDraw \ {u}
    /\ late' = late \cup {u}
    /\ UNCHANGED <<book, uses, screen, feed>>

\* u's connection handles a DRAW_* message that passed the gate.
Handles(u) == u \in mayDraw \cup late /\ late' = late \ {u}

\* caller_may_draw, and an id that is neither open nor committed.
BeginAllowed(u, s) ==
    /\ u \in mayDraw
    /\ book.pending[s] = NotOpen
    /\ book.committed[s] = NoOne

\* The clock is not behind the latest stroke that is open.
Latest(b) == Max({0} \cup {b.pending[s].started : s \in Open(b)})

\* DRAW_BEGIN, after the DRAW_END of a stroke that had to make room.
\* Clients give a stroke a fresh UUID (MaxUses = 1); an id used before comes
\* again only as a duplicate of a stroke the room holds.
StrokeBegin(u, s) ==
    LET room == FinishOldestOpen(book, u)
        ends == Finished(book, u)
        scr  == IF ends = {} THEN screen ELSE OnEnd(screen, Victim(book, u))
    IN
    /\ uses[s] < MaxUses \/ s \in Open(book) \cup Committed(book)
    /\ Handles(u)
    /\ BeginAllowed(u, s)
    /\ \E t \in Ticks :
         book' = RecordBegin([room EXCEPT !.pending[s] =
                   [owner |-> u, started |-> Latest(book) + t, cleared |-> FALSE]], s)
    /\ uses' = [uses EXCEPT ![s] = @ + 1]
    /\ Publish(OnBegin(scr, s))
    /\ UNCHANGED <<mayDraw, feed>>

\* DRAW_POINT by the owner; after a clear it is accepted and goes nowhere.
StrokePoint(u, s) ==
    /\ screen.points[s] < MaxPoints
    /\ Handles(u)
    /\ book.pending[s].owner = u
    /\ IF book.pending[s].cleared THEN UNCHANGED <<book, screen>>
       ELSE book' = RecordPoint(book, s) /\ Publish(OnPoint(screen, s))
    /\ UNCHANGED <<mayDraw, uses, feed>>

\* DRAW_END by the owner; after a clear it only closes the stroke.
StrokeEnd(u, s) ==
    /\ Handles(u)
    /\ book.pending[s].owner = u
    /\ book' = EndStroke(book, s)
    /\ IF book.pending[s].cleared THEN UNCHANGED screen
       ELSE Publish(OnEnd(screen, s))
    /\ UNCHANGED <<mayDraw, uses, feed>>

\* There was no late message, or the handler answers it with an error: it is
\* a DRAW_BEGIN, or names a stroke that is not open or not the sender's.
Refused(u) ==
    /\ u \in late
    /\ late' = late \ {u}
    /\ UNCHANGED <<book, mayDraw, uses, screen, feed>>

\* DRAW_UNDO: the right depends on whose stroke it is.
StrokeUndo(u, s) ==
    /\ book.committed[s] # NoOne
    /\ u \in {Host} \cup UndoAny
              \cup (IF book.committed[s] = u THEN UndoOwn ELSE {})
    /\ book' = RemoveCommitted(book, s)
    /\ Publish(OnUndo(screen, s))
    /\ UNCHANGED <<mayDraw, late, uses, feed>>

StrokeClear(u) ==
    /\ u \in {Host} \cup ClearAllowed
    /\ book' = ClearAll(book)
    /\ Publish(EmptyScreen)
    /\ UNCHANGED <<mayDraw, late, uses, feed>>

\* The watcher's subscription drops events (feed.rs, module RoomFeed) ...
Lag ==
    /\ feed # "behind"
    /\ feed' = "behind"
    /\ UNCHANGED <<book, mayDraw, late, uses, screen>>

\* ... and a DRAW_SYNC taken under the room's read lock makes up for them.
DrawSync ==
    /\ feed = "behind"
    /\ screen' = ApplySnapshot(screen, book)
    /\ feed' = "synced"
    /\ UNCHANGED <<book, mayDraw, late, uses>>

UserStep(u) ==
    \/ Grant(u) \/ Revoke(u) \/ Refused(u) \/ StrokeClear(u)
    \/ \E s \in Strokes : \/ StrokeBegin(u, s) \/ StrokePoint(u, s)
                          \/ StrokeEnd(u, s) \/ StrokeUndo(u, s)

Next == (\E u \in Users : UserStep(u)) \/ Lag \/ DrawSync

Spec == Init /\ [][Next]_vars

-----------------------------------------------------------------------------
(* Properties.                                                             *)

\* The points a book holds.
PointsHeld(b) == {p \in Strokes \X (1..MaxPerStroke) : p[2] <= b.content[p[1]].points}

\* The books balance: retained_points is the number of points content holds,
\* within MAX_RETAINED_POINTS and each stroke's limit, and content describes
\* exactly the strokes on the canvas: open and uncleared, or committed and
\* ended; commit order lists each committed stroke once and no more than the
\* cap (state.rs commit, remove_committed, clear_all).
ContentMatches ==
    /\ {s \in Strokes : book.content[s].kept # "none"}
         = Uncleared(book) \cup Committed(book)
    /\ {s \in Strokes : book.content[s].ended} = Committed(book)
    /\ Range(book.order) = Committed(book)
    /\ Len(book.order) = Cardinality(Committed(book))
    /\ Len(book.order) <= MaxCommitted
    /\ book.retained = Cardinality(PointsHeld(book))
    /\ book.retained <= MaxRetained
    /\ \A s \in Strokes : book.content[s].points <= MaxPerStroke

\* s comes before t in q.
Before(q, s, t) == \E i, j \in DOMAIN q : i < j /\ q[i] = s /\ q[j] = t

FreshStrokes == {s \in Strokes \ book.forgotten : uses[s] <= 1}

\* What a watcher who is not behind has on the screen is the room's canvas:
\* a stroke in progress there is open and uncleared here, a finished one is
\* committed, every stroke the server holds the content of is shown with
\* exactly its points, and a watcher who never lagged misses no stroke.
\* Strokes cover one another, so their order shows: the finished ones are in
\* commit order, whether they came one by one or in a snapshot.
\* Outside the promise are strokes that commit() forgot, and ids used twice.
CanvasAgrees ==
    LET fresh == FreshStrokes
        done  == Range(screen.completed)
        kept  == {s \in fresh : book.content[s].kept = "kept"}
        both  == Committed(book) \cap done \cap fresh
    IN  feed # "behind" =>
          /\ screen.active \cap fresh \subseteq Uncleared(book)
          /\ done \cap fresh \subseteq Committed(book)
          /\ kept \subseteq screen.active \cup done
          /\ \A s \in kept : screen.points[s] = book.content[s].points
          /\ feed = "live" => (Uncleared(book) \cup Committed(book)) \cap fresh
                                \subseteq screen.active \cup done
          /\ \A s, t \in both :
                Before(screen.completed, s, t) <=> Before(book.order, s, t)

\* The open strokes of a user and of the room stay within their caps, though
\* only a DRAW_END or a later DRAW_BEGIN closes the stroke of one who left
\* (state.rs finish_oldest_open_strokes).
OpenBounded ==
    /\ \A u \in Users : Cardinality(OpenBy(book, u)) <= MaxOpenPerUser
    /\ Cardinality(Open(book)) <= MaxOpenPerRoom

OwnerOf(b, s) == IF b.pending[s].owner # NoOne THEN b.pending[s].owner
                 ELSE b.committed[s]

\* A stroke on the canvas never changes hands: DRAW_UNDO is authorised
\* against its owner, so nobody may become the owner of another's stroke.
OwnerStable ==
    [][\A s \in Strokes :
         OwnerOf(book, s) # NoOne /\ OwnerOf(book', s) # NoOne
           => OwnerOf(book', s) = OwnerOf(book, s)]_vars

\* A stroke is opened only by someone who holds DRAW at that moment, though
\* the gate that let the message in read an older state.
RevokedCannotBegin ==
    [][\A s \in Strokes :
         book.pending[s] = NotOpen /\ book'.pending[s] # NotOpen
           => book'.pending[s].owner \in mayDraw]_vars

=============================================================================
