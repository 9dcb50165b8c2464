------------------------------- MODULE Viewer -------------------------------
(***************************************************************************)
(* A viewer following a room's playback: the server accepts and numbers     *)
(* commands of the people who may control playback (rooms/playback.rs),     *)
(* the viewer's playback store orders, deduplicates and parks what reaches  *)
(* it (usePlaybackStore.ts, drift/dedup.ts), catches up from the snapshot   *)
(* in the room summary, and the Player component moves its <video>          *)
(* (Player.tsx).                                                           *)
(*                                                                         *)
(* The link is in order; it loses what is under way when it drops, and one  *)
(* command at a time when the room's feed lags (only drawings are resent).  *)
(* Media positions are abstracted to the server_seq of the command that     *)
(* set them.                                                               *)
(***************************************************************************)
EXTENDS Integers, Sequences, FiniteSets

CONSTANTS
    Senders,     \* the participants who may control playback
    MaxCmds,     \* bound on accepted commands
    MaxMishaps   \* bound on drops, lags, rejoins, leaves, remounts, file switches

ASSUME ViewerAssumption == MaxCmds \in Nat /\ MaxMishaps \in Nat

Kinds == {"play", "pause", "seek"}
NoEvent == [s |-> "none", n |-> 0, q |-> 0, kind |-> "none", pos |-> 0]
NoSender == [seen |-> FALSE, last |-> 0, pend |-> NoEvent]

VARIABLES
    life,         \* RoomState.state: "Open", "Playing" or "Paused"
    lastCmd,         \* PlaybackBookkeeping: the last accepted command, as an event
    acked,        \* last_acked_seq, per sender
    joined,           \* the viewer's connection is subscribed to the room
    carried,         \* what is on its way to the viewer
    lastApplied, hostPaused, pending, lastQ, ready,  \* usePlaybackStore (lastQ: lastAppliedServerSeq)
    dedup,        \* dedupState.bySender
    mounted,      \* a <video> element is on the page
    handled,      \* handledEventRef of the mounted Player
    drainDue,     \* its mediaReady effect has yet to run
    video,        \* the element: [paused, pos]
    issuers,      \* history: senders of accepted commands
    renumbered,   \* history: some sender's numbers started over
    lost,         \* history: a lag swallowed a command
    buffered,     \* history: some event had to wait in the dedup buffer
    mishaps

serverVars   == <<life, lastCmd, acked, issuers, renumbered>>
deliveryVars   == <<joined, carried, lost>>
store  == <<lastApplied, hostPaused, pending, lastQ, ready, dedup, buffered>>
player == <<mounted, handled, drainDue, video>>
viewerVars   == <<serverVars, deliveryVars, store, player, mishaps>>

Events == [s : Senders, n : 1 .. MaxCmds, q : 0 .. MaxCmds, kind : Kinds, pos : 1 .. MaxCmds]

\* An event as it is heard of: MaxCmds is no matter here.
Heard == [s : Senders, n : Nat \ {0}, q : Nat \ {0}, kind : Kinds, pos : Nat]
\* What is on its way to the viewer: summaries with a snapshot, and events.
Items == [snap : BOOLEAN, e : Heard]

ViewerTypeOK ==
    /\ life \in {"Open", "Playing", "Paused"}
    /\ {lastCmd, lastApplied, pending, handled} \subseteq Events \cup {NoEvent}
    /\ acked \in [Senders -> 0 .. MaxCmds]
    /\ lastQ \in 0 .. MaxCmds
    /\ \A s \in Senders : dedup[s].pend \in Events \cup {NoEvent}
    /\ {joined, hostPaused, ready, mounted, drainDue, lost, buffered} \subseteq BOOLEAN
    /\ video \in [paused : BOOLEAN, pos : 0 .. MaxCmds]

FreshVideo == [paused |-> TRUE, pos |-> 0]

ViewerInit ==
    /\ life = "Open" /\ lastCmd = NoEvent /\ acked = [s \in Senders |-> 0]
    /\ issuers = {} /\ renumbered = FALSE
    /\ joined = FALSE /\ carried = <<>> /\ lost = FALSE
    /\ lastApplied = NoEvent /\ hostPaused = FALSE /\ pending = NoEvent
    /\ lastQ = 0 /\ ready = FALSE /\ dedup = [s \in Senders |-> NoSender] /\ buffered = FALSE
    /\ mounted = FALSE /\ handled = NoEvent /\ drainDue = FALSE /\ video = FreshVideo
    /\ mishaps = 0

Mishap == mishaps < MaxMishaps /\ mishaps' = mishaps + 1

-----------------------------------------------------------------------------
(* The server                                                              *)

\* The lifecycle precondition of handle_playback_cmd.
KindAllowed(kind) == kind = "play" \/ life \in {"Playing", "Paused"}

\* Accept the sender's next command, number it, publish it under the lock.
\* (A gap or a duplicate is refused and changes nothing.)
HandlePlaybackCmd(s, kind) ==
    /\ lastCmd.q < MaxCmds /\ KindAllowed(kind)
    /\ lastCmd' = [s |-> s, n |-> acked[s] + 1, q |-> lastCmd.q + 1, kind |-> kind, pos |-> lastCmd.q + 1]
    /\ acked' = [acked EXCEPT ![s] = @ + 1]
    /\ life' = CASE kind = "play" -> "Playing" [] kind = "pause" -> "Paused" [] OTHER -> life
    /\ issuers' = issuers \cup {s}
    /\ carried' = IF joined THEN Append(carried, [snap |-> FALSE, e |-> lastCmd']) ELSE carried
    /\ UNCHANGED <<renumbered, joined, lost, store, player, mishaps>>

\* A sender leaves and joins again: its numbers start over.
SenderRejoins(s) ==
    /\ Mishap /\ acked[s] > 0
    /\ acked' = [acked EXCEPT ![s] = 0] /\ renumbered' = TRUE
    /\ UNCHANGED <<life, lastCmd, issuers, deliveryVars, store, player>>

\* playback_snapshot: the play state and the last command's place.
Snapshot == [snap |-> TRUE, e |-> [lastCmd EXCEPT !.kind = IF life = "Paused" THEN "pause" ELSE "play"]]

\* The viewer joins or reconnects: it is subscribed, then sent the room.
Connect ==
    /\ ~joined /\ joined' = TRUE
    /\ carried' = IF life = "Open" THEN <<>> ELSE <<Snapshot>>
    /\ UNCHANGED <<lost, serverVars, store, player, mishaps>>

Disconnect ==
    /\ joined /\ Mishap
    /\ joined' = FALSE /\ carried' = <<>>
    /\ UNCHANGED <<lost, serverVars, store, player>>

Lag ==
    /\ carried # <<>> /\ ~Head(carried).snap /\ Mishap
    /\ carried' = Tail(carried) /\ lost' = TRUE
    /\ UNCHANGED <<joined, serverVars, store, player>>

-----------------------------------------------------------------------------
(* The playback store                                                      *)

NextHostPaused(paused, kind) ==
    CASE kind = "play" -> FALSE [] kind = "pause" -> TRUE [] OTHER -> paused

\* evaluateDedup: the decision, the event the buffer gives up with it, and the
\* sender's next state.
EvaluateDedup(d, e) ==
    LET applied(m)  == [seen |-> TRUE, last |-> m, pend |-> NoEvent]
        verdict(k, drain, next) == [kind |-> k, drain |-> drain, next |-> next]
    IN  CASE e.n = 1 /\ (~d.seen \/ d.last > 1) -> verdict("apply", NoEvent, applied(1))
          [] d.seen /\ e.n <= d.last -> verdict("drop", NoEvent, d)
          [] d.seen /\ e.n = d.last + 1 /\ d.pend # NoEvent /\ d.pend.n = e.n + 1 ->
               verdict("apply", d.pend, applied(e.n + 1))
          [] d.seen /\ e.n = d.last + 1 -> verdict("apply", NoEvent, applied(e.n))
          [] d.pend # NoEvent /\ d.pend.n >= e.n -> verdict("drop", NoEvent, d)
          [] OTHER -> verdict("buffer", NoEvent, [seen |-> TRUE, last |-> d.last, pend |-> e])

MaxOf(a, b) == IF a >= b THEN a ELSE b

\* A drained SEEK takes over the play state of the PLAY or PAUSE before it.
MergeGapFill(e, drained) ==
    IF drained = NoEvent THEN e
    ELSE [drained EXCEPT !.q = MaxOf(e.q, @),
            !.kind = IF @ = "seek" /\ e.kind # "seek" THEN e.kind ELSE @]

\* Hand an event to the player, or park it until the media is ready.
Present(e) ==
    IF ready THEN lastApplied' = e /\ UNCHANGED pending
             ELSE pending' = e /\ UNCHANGED lastApplied

AcceptEvent(e) ==
    LET v == EvaluateDedup(dedup[e.s], e)
        merged == MergeGapFill(e, v.drain)
    IN  IF e.q <= lastQ THEN UNCHANGED store
        ELSE /\ dedup' = [dedup EXCEPT ![e.s] = v.next]
             /\ buffered' = (buffered \/ v.kind = "buffer")
             /\ IF v.kind = "apply"
                THEN /\ hostPaused' = NextHostPaused(NextHostPaused(hostPaused, e.kind), merged.kind)
                     /\ Present(merged)
                ELSE UNCHANGED <<hostPaused, lastApplied, pending>>
             /\ UNCHANGED <<lastQ, ready>>

\* The snapshot stands in for the sender's commands up to its own.
Baseline(e) == [seen |-> TRUE, last |-> MaxOf(dedup[e.s].last, e.n), pend |-> NoEvent]

\* Mutant of Passed: any parked event outranks the snapshot.
PassedByParked(e) == e.q <= lastQ \/ pending # NoEvent

\* The live stream is at least as new as the snapshot.
Passed(e) == e.q <= lastQ \/ (pending # NoEvent /\ pending.q >= e.q)

SeedFromSnapshot(e) ==
    IF Passed(e) \/ dedup[e.s].pend # NoEvent THEN UNCHANGED store
    ELSE /\ dedup' = [dedup EXCEPT ![e.s] = Baseline(e)]
         /\ hostPaused' = (e.kind = "pause")
         /\ Present(e)
         /\ UNCHANGED <<lastQ, ready, buffered>>

\* usePlaybackEventBridge: the next event or summary.
Deliver ==
    /\ carried # <<>>
    /\ carried' = Tail(carried)
    /\ IF Head(carried).snap THEN SeedFromSnapshot(Head(carried).e) ELSE AcceptEvent(Head(carried).e)
    /\ UNCHANGED <<joined, lost, serverVars, player, mishaps>>

Newest(es) == CHOOSE e \in es : \A f \in es : f.q <= e.q

\* tickDedup: the buffered events of `out` have outlived their 5 s; they are
\* replayed in server order and the newest is handed to the player.
TickDedup(out) ==
    LET es  == {dedup[s].pend : s \in out}
        set == {e \in es : e.kind # "seek"}
    IN  /\ out # {} /\ \A s \in out : dedup[s].pend # NoEvent
        /\ dedup' = [s \in Senders |->
                       IF s \in out THEN [seen |-> TRUE, last |-> dedup[s].pend.n, pend |-> NoEvent]
                                    ELSE dedup[s]]
        /\ hostPaused' = IF set = {} THEN hostPaused ELSE Newest(set).kind = "pause"
        /\ Present(Newest(es))
        /\ UNCHANGED <<lastQ, ready, buffered, serverVars, deliveryVars, player, mishaps>>

\* setRoomId on leaving and entering: everything but the media starts over.
LeaveAndJoin ==
    /\ joined /\ Mishap
    /\ joined' = FALSE /\ carried' = <<>>
    /\ lastApplied' = NoEvent /\ hostPaused' = FALSE /\ pending' = NoEvent
    /\ lastQ' = 0 /\ dedup' = [s \in Senders |-> NoSender]
    /\ UNCHANGED <<lost, ready, buffered, serverVars, player>>

-----------------------------------------------------------------------------
(* The Player component and its element                                    *)

\* The page with the player comes up: a new element, and effects that run.
Mount ==
    /\ ~mounted
    /\ mounted' = TRUE /\ handled' = NoEvent /\ drainDue' = ready /\ video' = FreshVideo
    /\ UNCHANGED <<serverVars, deliveryVars, store, mishaps>>

Unmount ==
    /\ mounted /\ Mishap
    /\ mounted' = FALSE /\ drainDue' = FALSE
    /\ UNCHANGED <<handled, video, serverVars, deliveryVars, store>>

\* canplay / loadedmetadata.
MediaReady ==
    /\ mounted /\ ~ready
    /\ ready' = TRUE /\ drainDue' = TRUE
    /\ UNCHANGED <<lastApplied, hostPaused, pending, lastQ, dedup, buffered,
                   mounted, handled, video, serverVars, deliveryVars, mishaps>>

\* setLocalMedia: another file; the element starts over paused.
SwitchFile ==
    /\ ready /\ Mishap
    /\ ready' = FALSE /\ drainDue' = FALSE /\ video' = FreshVideo
    /\ UNCHANGED <<lastApplied, hostPaused, pending, lastQ, dedup, buffered,
                   mounted, handled, serverVars, deliveryVars>>

\* applyPlaybackToVideo: a SEEK keeps the element's play state.
Shown(e) == [paused |-> NextHostPaused(video.paused, e.kind), pos |-> e.pos]

\* The apply effect: each event once, then markApplied.
ApplyEffect ==
    /\ mounted /\ lastApplied # NoEvent /\ handled # lastApplied
    /\ handled' = lastApplied
    /\ video' = Shown(lastApplied)
    /\ lastQ' = lastApplied.q
    /\ UNCHANGED <<lastApplied, hostPaused, pending, ready, dedup, buffered,
                   mounted, drainDue, serverVars, deliveryVars, mishaps>>

\* Mutant of Promotable: only the first event ever is promoted.
PromotableOnce == lastApplied = NoEvent

\* A parked event newer than what was applied still has to land.
Promotable == lastApplied = NoEvent \/ pending.q > lastApplied.q

\* The drain effect of a mediaReady flip.
DrainEffect ==
    /\ mounted /\ ready /\ drainDue
    /\ drainDue' = FALSE
    /\ lastApplied' = IF pending # NoEvent /\ Promotable THEN pending ELSE lastApplied
    /\ pending' = NoEvent
    /\ UNCHANGED <<hostPaused, lastQ, ready, dedup, buffered, mounted, handled, video,
                   serverVars, deliveryVars, mishaps>>

\* The user presses Sync: position and play state follow the store; a PAUSE
\* shown last is never resumed.
LocalSeek ==
    /\ mounted /\ ready /\ lastApplied # NoEvent /\ handled = lastApplied
    /\ video' = [paused |-> hostPaused \/ (video.paused /\ lastApplied.kind = "pause"),
                  pos |-> lastApplied.pos]
    /\ UNCHANGED <<mounted, handled, drainDue, serverVars, deliveryVars, store, mishaps>>

-----------------------------------------------------------------------------
ViewerNext ==
    \/ \E s \in Senders, kind \in Kinds : HandlePlaybackCmd(s, kind)
    \/ \E s \in Senders : SenderRejoins(s)
    \/ Connect \/ Disconnect \/ Lag \/ Deliver
    \/ \E out \in SUBSET Senders : TickDedup(out)
    \/ LeaveAndJoin
    \/ Mount \/ Unmount \/ MediaReady \/ SwitchFile
    \/ ApplyEffect \/ DrainEffect \/ LocalSeek

\* The server answers a reconnect, events are delivered, the 1 s ticker and
\* React's effects run, the page comes back and its media loads.
ViewerSpec ==
    /\ ViewerInit /\ [][ViewerNext]_viewerVars
    /\ WF_viewerVars(Connect) /\ WF_viewerVars(Deliver)
    /\ \A s \in Senders : WF_viewerVars(\E out \in SUBSET Senders : s \in out /\ TickDedup(out))
    /\ WF_viewerVars(Mount) /\ WF_viewerVars(MediaReady)
    /\ WF_viewerVars(ApplyEffect) /\ WF_viewerVars(DrainEffect)

-----------------------------------------------------------------------------
(* Properties                                                              *)

Held == {s \in Senders : dedup[s].pend # NoEvent}

Caught == joined /\ carried = <<>> /\ lastCmd # NoEvent

\* The store's play state and newest position are the room's.
InStep ==
    /\ hostPaused = (life = "Paused")
    /\ Newest({lastApplied, pending}).pos = lastCmd.pos

(* A viewer that has received everything sent to it knows whether the room  *)
(* is paused and where it last moved to, across reconnects that lost        *)
(* commands (the snapshot), commands delivered both ways, leaves, remounts  *)
(* and media that was not ready - as long as no command was lost to a lag   *)
(* or had to wait in the gap buffer and no sender's numbers started over.   *)
StoreFollows == Caught /\ ~lost /\ ~buffered /\ ~renumbered => InStep

(* What the room did last reaches the element in the end: whatever was      *)
(* parked while media loaded, a page was away or the link was down is       *)
(* promoted by the drain effect or covered by the snapshot, and applied.    *)
PlayerCatchesUp ==
    []<>(lost \/ buffered \/ renumbered \/ lastCmd = NoEvent \/ handled.pos = lastCmd.pos)
=============================================================================
