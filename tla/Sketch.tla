-------------------------------- MODULE Sketch --------------------------------
(***************************************************************************)
(* One participant who draws: the pointer events on the canvas             *)
(* (components/DrawingLayer.tsx, drawing/pointerPipeline.ts), the stroke    *)
(* history behind it (hooks/useDrawingCanvas.ts), the ordered send queue    *)
(* with its timeout and its bounded points (drawing/drawingSession.ts), the *)
(* Tauri command each send runs (commands/drawing.rs), Ctrl+Z and its       *)
(* tracker (drawing/undoPolicy.ts), and what the server makes of this       *)
(* participant's frames (rooms/drawing.rs).                                 *)
(*                                                                         *)
(* The server does not echo a stroke to its author, so the author's canvas  *)
(* and the room's agree only if every frame of a stroke arrives, in order,  *)
(* and if undo, clear and DRAW_SYNC take off the author's canvas what they  *)
(* took off the room's.  Module Drawing has the room with its caps and its  *)
(* other artists; here the room is this participant's strokes.              *)
(*                                                                         *)
(* The k-th position of a stroke is the number k.                           *)
(***************************************************************************)
EXTENDS Integers, Sequences, FiniteSets, SequencesExt

CONSTANTS
    MAX_QUEUED_POINTS,  \* DRAW_POINTs that may wait in the send queue
    MaxSketches,        \* bound: strokes begun
    MaxSamples,         \* bound: positions of one stroke
    MaxExtras           \* bound: presses of Ctrl+Z, clears, snapshots, grants
                        \* and revokes of DRAW, calls that hang or fail,
                        \* connections lost

ASSUME SketchAssumption ==
    {MAX_QUEUED_POINTS, MaxSketches, MaxSamples, MaxExtras} \subseteq Nat

VARIABLES
    ui,        \* the drawing client: canvas, pipeline and session, see UI
    flight,    \* the drawing_send in progress
    stuck,     \* calls given up on that may still reach the server
    tracker,   \* UndoTracker
    canDraw,   \* the DRAW bit of useCapabilityStore
    ink,       \* from the client: its frames, in the connection's order
    easel,     \* the server: each stroke's state and newest position
    license,   \* the server: this participant holds DRAW
    undoCap,   \* this participant holds UNDO_OWN, which stays
    news,      \* to the client: undo, clear, snapshot and capability events
    excused,   \* history: strokes that lost a frame, or their right to one
    refused,   \* history: strokes with a frame answered by ROOM_ERROR
    extras     \* bound: the extras so far

clientVars == <<ui, flight, stuck, tracker, canDraw>>
sketchVars == <<clientVars, ink, easel, license, undoCap, news, excused,
                refused, extras>>

Sketches == 1..MaxSketches
NoSketch == 0
Idle == [do |-> "none", id |-> NoSketch, at |-> 0, sent |-> FALSE, hung |-> FALSE]
Send(do, id, at) == [do |-> do, id |-> id, at |-> at]

UI == [drawn   : 0..MaxSketches,           \* strokes begun
       canvas  : Seq(Sketches),            \* strokesRef, oldest first
       ended   : SUBSET Sketches,          \* strokes with an endedAt
       samples : [Sketches -> Nat],        \* positions of the pointer
       live    : 0..MaxSketches,           \* activeRef of the canvas
       pen     : 0..MaxSketches,           \* activeId of the pipeline
       wired   : BOOLEAN,                  \* networked, of the pipeline
       active  : 0..MaxSketches,           \* the session's active stroke
       pending : Nat,                      \* its pendingPoint, 0 is null
       failed  : SUBSET Sketches,          \* strokes whose DRAW_BEGIN failed
       cut     : SUBSET Sketches,          \* history: lost the last position
       tasks   : Seq([do : {"begin", "point", "end", "undo", "clear"},
                      id : 0..MaxSketches, at : Nat])]

-----------------------------------------------------------------------------
(* The send queue and the session, a client to a client.                   *)

\* Mutant: a full queue drops the newest position.
EnqueueDroppingNewest(u, t) ==
    LET points == SelectSeq(u.tasks, LAMBDA x : x.do = "point") IN
    IF t.do = "point" /\ Len(points) >= MAX_QUEUED_POINTS THEN u
    ELSE [u EXCEPT !.tasks = Append(@, t)]

\* enqueue: a DRAW_POINT that finds the queue full drops the oldest one.
Enqueue(u, t) ==
    LET points == SelectSeq(u.tasks, LAMBDA x : x.do = "point")
        oldest == SelectInSeq(u.tasks, LAMBDA x : x.do = "point")
        full   == t.do = "point" /\ Len(points) >= MAX_QUEUED_POINTS /\ oldest > 0
        kept   == Append(IF full THEN RemoveAt(u.tasks, oldest) ELSE u.tasks, t)
        loser  == u.tasks[oldest].id
    IN  [u EXCEPT !.tasks = kept,
                  !.cut = IF full /\ \A i \in 1..Len(kept) : kept[i].do = "point" => kept[i].id # loser
                          THEN @ \cup {loser} ELSE @]

\* flushPending, past the rate gate.
Flush(u) ==
    IF u.active = NoSketch \/ u.pending = 0 THEN u
    ELSE [Enqueue(u, Send("point", u.active, u.pending)) EXCEPT !.pending = 0]

\* Mutant: endStroke does not flush.
EndActiveUnflushed(u) ==
    IF u.active = NoSketch THEN u
    ELSE [Enqueue(u, Send("end", u.active, 0)) EXCEPT !.active = NoSketch,
                                                      !.pending = 0]

\* endStroke of the session: the newest position goes out whatever the gate.
EndActive(u) ==
    IF u.active = NoSketch THEN u
    ELSE [Enqueue(Flush(u), Send("end", u.active, 0)) EXCEPT
            !.active = NoSketch, !.pending = 0]

\* beginStroke of the session.
BeginActive(u, id) ==
    [Enqueue(EndActive(u), Send("begin", id, 0)) EXCEPT
        !.active = id, !.pending = 0]

\* cancelStroke: nothing is sent, and what is queued stays queued.
CancelActive(u) == [u EXCEPT !.active = NoSketch, !.pending = 0]

-----------------------------------------------------------------------------
(* The canvas and the pipeline.                                            *)

\* endStroke of the canvas; a DRAW_CLEAR may have taken its stroke away.
EndLocal(u) ==
    IF u.live = NoSketch THEN u
    ELSE [u EXCEPT !.ended = @ \cup {u.live}, !.live = NoSketch]

\* finish: after DRAW is revoked the stroke is closed without a DRAW_END.
Finish(u, sendEnd) ==
    IF u.pen = NoSketch THEN u
    ELSE LET local == [EndLocal(u) EXCEPT !.pen = NoSketch, !.wired = FALSE] IN
         IF ~u.wired THEN local
         ELSE IF sendEnd THEN EndActive(local) ELSE CancelActive(local)

\* A position of the pen: the canvas draws it, and the session keeps the
\* newest for the next frame.
Sample(u) ==
    LET k == u.samples[u.pen] + 1
        more == [u EXCEPT !.samples[u.pen] = k]
    IN  IF u.wired /\ u.active # NoSketch THEN [more EXCEPT !.pending = k] ELSE more

\* removeStroke of the canvas.
RemoveLocal(u, ids) ==
    [u EXCEPT !.canvas = SelectSeq(@, LAMBDA s : s \notin ids),
              !.live = IF @ \in ids THEN NoSketch ELSE @]

\* clear of the canvas.
ClearLocal(u) == [u EXCEPT !.canvas = <<>>, !.live = NoSketch]

\* pickUndoTarget: the newest finished stroke not asked for already.
UndoTarget(u) ==
    LET may(s) == s \in u.ended /\ s \notin tracker.pending \cup tracker.gaveUp
        i == SelectLastInSeq(u.canvas, may)
    IN  IF i = 0 THEN NoSketch ELSE u.canvas[i]

-----------------------------------------------------------------------------
(* Pointer and keyboard.                                                   *)

SketchInit ==
    /\ ui = [drawn |-> 0, canvas |-> <<>>, ended |-> {},
             samples |-> [s \in Sketches |-> 0], live |-> NoSketch,
             pen |-> NoSketch, wired |-> FALSE, active |-> NoSketch,
             pending |-> 0, failed |-> {}, cut |-> {}, tasks |-> <<>>]
    /\ flight = Idle /\ stuck = {}
    /\ tracker = [pending |-> {}, gaveUp |-> {}]
    /\ canDraw \in BOOLEAN /\ license = canDraw /\ undoCap \in BOOLEAN
    /\ ink = <<>> /\ news = <<>>
    /\ easel = [s \in Sketches |-> [is |-> "new", at |-> 0]]
    /\ excused = {} /\ refused = {}
    /\ extras = 0

Extra == extras < MaxExtras /\ extras' = extras + 1

\* Pointer down, with a pen that may still be down from another pointer.  A
\* participant without DRAW draws on the own canvas only.
PointerDown ==
    LET id  == ui.drawn + 1
        u   == Finish(ui, TRUE)
        new == [u EXCEPT !.drawn = id, !.canvas = Append(@, id), !.live = id,
                         !.pen = id, !.wired = canDraw, !.samples[id] = 1]
    IN
    /\ id \in Sketches
    /\ ui' = IF canDraw THEN BeginActive(new, id) ELSE new
    /\ excused' = IF canDraw THEN excused ELSE excused \cup {id}
    /\ UNCHANGED <<flight, stuck, tracker, canDraw, ink, easel, license, undoCap, news,
                   refused, extras>>

\* Pointer move; those of another pointer are ignored.
PointerMove ==
    /\ ui.pen # NoSketch /\ ui.samples[ui.pen] < MaxSamples
    /\ ui' = Sample(ui)
    /\ UNCHANGED <<flight, stuck, tracker, canDraw, ink, easel, license, undoCap, news,
                   excused, refused, extras>>

\* Pointer up or leave (with its position), cancel, or the end of the
\* drawing mode (without).
PointerUp ==
    /\ ui.pen # NoSketch
    /\ \/ ui' = Finish(ui, TRUE)
       \/ ui.samples[ui.pen] < MaxSamples /\ ui' = Finish(Sample(ui), TRUE)
    /\ UNCHANGED <<flight, stuck, tracker, canDraw, ink, easel, license, undoCap, news,
                   excused, refused, extras>>

\* A frame that finds the minimum interval over; one that does not schedules
\* the next and leaves the rest alone.
Frame ==
    /\ ui.pending # 0
    /\ ui' = Flush(ui)
    /\ UNCHANGED <<flight, stuck, tracker, canDraw, ink, easel, license, undoCap, news,
                   excused, refused, extras>>

\* Ctrl+Z of a participant with UNDO_OWN: the stroke stays until the server
\* says it is gone.
Undo ==
    LET s == UndoTarget(ui) IN
    /\ undoCap /\ s # NoSketch /\ Extra
    /\ tracker' = [tracker EXCEPT !.pending = @ \cup {s}]
    /\ ui' = Enqueue(ui, Send("undo", s, 0))
    /\ UNCHANGED <<flight, stuck, canDraw, ink, easel, license, undoCap, news, excused,
                   refused>>

\* Ctrl+Z of one without it: the newest stroke leaves the own canvas only.
UndoLocally ==
    /\ ~undoCap /\ ui.canvas # <<>> /\ Extra
    /\ ui' = [ui EXCEPT !.canvas = Front(@)]
    /\ excused' = excused \cup {Last(ui.canvas)}
    /\ UNCHANGED <<flight, stuck, tracker, canDraw, ink, easel, license, undoCap,
                   news, refused>>

\* UNDO_PENDING_MS without an answer: refused and lost look the same.
UndoGivenUp(s) ==
    /\ s \in tracker.pending
    /\ tracker' = [pending |-> tracker.pending \ {s},
                   gaveUp |-> tracker.gaveUp \cup {s}]
    /\ UNCHANGED <<ui, flight, stuck, canDraw, ink, easel, license, undoCap, news,
                   excused, refused, extras>>

-----------------------------------------------------------------------------
(* The pump: one drawing_send at a time.                                   *)

StartSend ==
    /\ flight = Idle /\ ui.tasks # <<>>
    /\ LET t == Head(ui.tasks) IN
         \* The rest of a stroke whose DRAW_BEGIN failed is not sent.
         flight' = IF t.id \in ui.failed /\ t.do \in {"point", "end"} THEN Idle
                   ELSE [do |-> t.do, id |-> t.id, at |-> t.at,
                         sent |-> FALSE, hung |-> FALSE]
    /\ ui' = [ui EXCEPT !.tasks = Tail(@)]
    /\ UNCHANGED <<stuck, tracker, canDraw, ink, easel, license, undoCap, news,
                   excused, refused, extras>>

\* send_drawing puts the envelope on the connection's queue and returns, in
\* time unless it hangs.
CommandSends ==
    /\ flight # Idle /\ ~flight.sent
    /\ ink' = Append(ink, Send(flight.do, flight.id, flight.at))
    /\ flight' = IF flight.hung THEN [flight EXCEPT !.sent = TRUE] ELSE Idle
    /\ UNCHANGED <<ui, stuck, tracker, canDraw, easel, license, undoCap, news,
                   excused, refused, extras>>

\* The call does not come back in time: the keyring, or the IPC, is slow.
CommandHangs ==
    /\ flight # Idle /\ ~flight.hung /\ Extra
    /\ flight' = [flight EXCEPT !.hung = TRUE]
    /\ excused' = excused \cup {flight.id}
    /\ UNCHANGED <<ui, stuck, tracker, canDraw, ink, easel, license, undoCap, news,
                   refused>>

\* run's catch: a failed DRAW_BEGIN fails its stroke, a failed undo may be
\* asked for again.
SendFailed ==
    /\ ui' = IF flight.do = "begin" THEN [ui EXCEPT !.failed = @ \cup {flight.id}] ELSE ui
    /\ tracker' = IF flight.do = "undo"
                  THEN [tracker EXCEPT !.pending = @ \ {flight.id}] ELSE tracker
    /\ flight' = Idle

\* Not in a room, no key, the connection's queue refuses.
CommandFails ==
    /\ flight # Idle /\ ~flight.hung /\ Extra
    /\ SendFailed
    /\ excused' = excused \cup {flight.id}
    /\ UNCHANGED <<stuck, canDraw, ink, easel, license, undoCap, news, refused>>

\* Mutant: a send has no timeout.
SendNeverTimesOut == FALSE /\ UNCHANGED sketchVars

\* sendTimeoutMs: the queue moves on; the call may still go through.
SendTimesOut ==
    /\ flight.hung
    /\ SendFailed
    /\ stuck' = IF flight.sent THEN stuck
                ELSE stuck \cup {Send(flight.do, flight.id, flight.at)}
    /\ UNCHANGED <<canDraw, ink, easel, license, undoCap, news, excused, refused, extras>>

StuckSends(t) ==
    /\ stuck' = stuck \ {t} /\ ink' = Append(ink, t)
    /\ UNCHANGED <<ui, flight, tracker, canDraw, easel, license, undoCap, news,
                   excused, refused, extras>>

\* The connection is lost with the frames on it.
InkLost ==
    /\ ink # <<>> /\ Extra
    /\ excused' = excused \cup {ink[i].id : i \in 1..Len(ink)}
    /\ ink' = <<>>
    /\ UNCHANGED <<clientVars, easel, license, undoCap, news, refused>>

-----------------------------------------------------------------------------
(* The server.                                                             *)

\* A frame with the gates of its kind: DRAW for a stroke's frames, UNDO_OWN
\* for an undo, whose refusal is silent.
ServerDraws ==
    LET t == Head(ink)  e == easel[t.id] IN
    /\ ink # <<>> /\ ink' = Tail(ink)
    /\ \/ /\ t.do = "begin" /\ license /\ e.is = "new"
          /\ easel' = [easel EXCEPT ![t.id].is = "open"]
          /\ UNCHANGED <<news, refused, excused>>
       \/ /\ t.do = "point" /\ license /\ e.is \in {"open", "cleared"}
          /\ easel' = IF e.is = "open" THEN [easel EXCEPT ![t.id].at = t.at] ELSE easel
          /\ UNCHANGED <<news, refused, excused>>
       \/ /\ t.do = "end" /\ license /\ e.is \in {"open", "cleared"}
          /\ easel' = [easel EXCEPT ![t.id].is = IF e.is = "open" THEN "done" ELSE "gone"]
          /\ UNCHANGED <<news, refused, excused>>
       \/ /\ t.do = "undo" /\ undoCap /\ e.is = "done"
          /\ easel' = [easel EXCEPT ![t.id].is = "gone"]
          /\ news' = Append(news, [kind |-> "undo", ids |-> {t.id}])
          /\ UNCHANGED <<refused, excused>>
       \/ /\ t.do = "undo" /\ ~(undoCap /\ e.is = "done")
          /\ UNCHANGED <<easel, news, refused, excused>>
       \/ /\ t.do \in {"begin", "point", "end"}
          /\ \/ ~license
             \/ t.do = "begin" /\ e.is # "new"
             \/ t.do # "begin" /\ e.is \notin {"open", "cleared"}
          /\ excused' = IF license THEN excused ELSE excused \cup {t.id}
          /\ refused' = refused \cup {t.id}
          /\ UNCHANGED <<easel, news>>
    /\ UNCHANGED <<clientVars, license, undoCap, extras>>

\* DRAW_CLEAR, this participant's or another's.
RoomCleared ==
    /\ Extra
    /\ easel' = [s \in Sketches |->
                   [easel[s] EXCEPT !.is = IF @ \in {"open", "cleared"} THEN "cleared"
                                           ELSE IF @ = "done" THEN "gone" ELSE @]]
    /\ news' = Append(news, [kind |-> "clear", ids |-> {}])
    /\ UNCHANGED <<clientVars, ink, license, undoCap, excused, refused>>

\* DRAW_SYNC after the forwarder fell behind; it lists the open strokes too.
SnapshotSent ==
    /\ Extra
    /\ news' = Append(news, [kind |-> "sync",
                             ids |-> {s \in Sketches : easel[s].is \in {"open", "done"}}])
    /\ UNCHANGED <<clientVars, ink, easel, license, undoCap, excused, refused>>

\* PERMISSION_SET on DRAW.
DrawSet ==
    /\ Extra
    /\ license' = ~license
    /\ news' = Append(news, [kind |-> IF license THEN "revoked" ELSE "granted", ids |-> {}])
    /\ UNCHANGED <<clientVars, ink, easel, undoCap, excused, refused>>

-----------------------------------------------------------------------------
(* The room's events at the client.                                        *)

Heard(kind) == news # <<>> /\ Head(news).kind = kind /\ news' = Tail(news)

\* onUndo.
UndoHeard ==
    /\ Heard("undo")
    /\ ui' = RemoveLocal(ui, Head(news).ids)
    /\ tracker' = [pending |-> tracker.pending \ Head(news).ids,
                   gaveUp |-> tracker.gaveUp \ Head(news).ids]
    /\ UNCHANGED <<flight, stuck, canDraw, ink, easel, license, undoCap, excused,
                   refused, extras>>

NothingTracked == [pending |-> {}, gaveUp |-> {}]

\* Mutant: onClear keeps the canvas.
ClearIgnored ==
    /\ Heard("clear") /\ tracker' = NothingTracked
    /\ UNCHANGED <<ui, flight, stuck, canDraw, ink, easel, license, undoCap, excused,
                   refused, extras>>

\* onClear: the whole canvas goes, with the strokes begun since the server
\* cleared its own, which the others keep.
ClearHeard ==
    /\ Heard("clear") /\ tracker' = NothingTracked
    /\ ui' = ClearLocal(ui)
    /\ excused' = excused \cup
         {s \in Range(ui.canvas) : easel[s].is \in {"new", "open", "done"}}
    /\ UNCHANGED <<flight, stuck, canDraw, ink, easel, license, undoCap, refused, extras>>

\* Strokes finished RECENT_LOCAL_STROKE_MS ago or more, and those of them on
\* which the snapshot and the room differ by now: slower than that.
Settled == {E \in SUBSET ui.ended : \A s \in E, t \in ui.ended : t < s => t \in E}
Slow(E) == {s \in E \ Head(news).ids : easel[s].is # "gone"}

\* Mutant: onSync does not spare the recent strokes.
SyncTakesRecent ==
    /\ Heard("sync") /\ tracker' = NothingTracked
    /\ ui' = RemoveLocal(ui, ui.ended \ Head(news).ids)
    /\ \E old \in Settled : excused' = excused \cup Slow(old)
    /\ UNCHANGED <<flight, stuck, canDraw, ink, easel, license, undoCap, refused, extras>>

\* onSync: settled strokes that the server does not list leave the canvas.
SyncHeard ==
    /\ Heard("sync") /\ tracker' = NothingTracked
    /\ \E old \in Settled :
         /\ ui' = RemoveLocal(ui, old \ Head(news).ids)
         /\ excused' = excused \cup Slow(old)
    /\ UNCHANGED <<flight, stuck, canDraw, ink, easel, license, undoCap, refused, extras>>

GrantHeard ==
    /\ Heard("granted")
    /\ canDraw' = TRUE
    /\ UNCHANGED <<ui, flight, stuck, tracker, ink, easel, license, undoCap, excused,
                   refused, extras>>

\* The effect on canDraw: the pen goes up and no DRAW_END follows.
RevokeHeard ==
    /\ Heard("revoked")
    /\ canDraw' = FALSE
    /\ ui' = Finish(ui, FALSE)
    /\ excused' = excused \cup ({ui.active} \ {NoSketch})
    /\ UNCHANGED <<flight, stuck, tracker, ink, easel, license, undoCap, refused, extras>>

SketchNext ==
    \/ PointerDown \/ PointerMove \/ PointerUp \/ Frame \/ Undo \/ UndoLocally
    \/ \E s \in Sketches : UndoGivenUp(s)
    \/ StartSend \/ CommandSends \/ CommandHangs
    \/ CommandFails \/ SendTimesOut \/ InkLost
    \/ \E t \in stuck : StuckSends(t)
    \/ ServerDraws \/ RoomCleared \/ SnapshotSent \/ DrawSet
    \/ UndoHeard \/ ClearHeard \/ SyncHeard \/ GrantHeard \/ RevokeHeard

\* The pump and the timer of a send run on their own, and a call that does
\* not hang comes back.
SketchFairness ==
    /\ WF_sketchVars(StartSend) /\ WF_sketchVars(CommandSends)
    /\ WF_sketchVars(SendTimesOut)

SketchSpec == SketchInit /\ [][SketchNext]_sketchVars /\ SketchFairness

-----------------------------------------------------------------------------
(* Properties.                                                             *)

\* When nothing is under way the author's canvas and the room agree on every
\* stroke that met no trouble: what is on the one is on the other, closed,
\* and ends where the pointer went up; what an undo, a clear or a snapshot
\* took from the room has left the canvas (drawingSession.ts guarantees 3
\* and 6, DrawingLayer.tsx onUndo, onClear, onSync).
SketchAgrees ==
    (ui.pen = NoSketch /\ ui.tasks = <<>> /\ flight = Idle /\ ink = <<>> /\ news = <<>>) =>
        \A s \in (1..ui.drawn) \ excused :
            IF s \in Range(ui.canvas)
            THEN /\ easel[s].is = "done"
                 /\ easel[s].at = ui.samples[s] \/ ui.samples[s] = 1 \/ s \in ui.cut
            ELSE easel[s].is = "gone"

\* One call that never returns does not stop the strokes after it: the queue
\* empties (drawingSession.ts guarantee 5).
SketchDrains == []<>(ui.tasks = <<>> /\ flight = Idle)

=============================================================================
