------------------------------- MODULE Drift -------------------------------
(***************************************************************************)
(* Where a viewer's video stands beside the room's: the clock skew probes   *)
(* of useClockSkew.ts over the request and reply matching of net/room.rs,   *)
(* the skew they leave in useClockSkewStore.ts, and the three places that   *)
(* project a host command to "now" with it: the apply effect and the raw    *)
(* correction of Player.tsx, and Sync (useManualSync.ts).                   *)
(*                                                                         *)
(* Time is counted in quarters of MAX_RTT's 500 ms or more; the viewer's    *)
(* clock reads `now`, the server's now + ahead.  Media plays one position   *)
(* a tick.  Which event the store keeps is Viewer's subject: here the       *)
(* newest one delivered is shown, when the media is ready for it.           *)
(***************************************************************************)
EXTENDS Integers, Sequences, FiniteSets, SequencesExt

CONSTANTS
    Aheads,           \* what the server's clock may be ahead by
    Positions,        \* media positions the host goes to
    MAX_RTT,          \* a sample with a longer round trip is rejected
    REQUEST_TIMEOUT,  \* net/room.rs
    SAMPLE_COUNT,     \* SAMPLE_COUNT_PER_BURST
    MaxNow, MaxBursts, MaxCommands, MaxExcursions   \* bounds

ASSUME DriftAssumption ==
    /\ Aheads \subseteq Int /\ Positions \subseteq Nat
    /\ {MAX_RTT, REQUEST_TIMEOUT, SAMPLE_COUNT, MaxNow} \subseteq Nat \ {0}
    /\ {MaxBursts, MaxCommands, MaxExcursions} \subseteq Nat

VARIABLES
    now, ahead,
    hostAt,      \* the room: the last command, its number, and when it was accepted
    outward,     \* SKEW_PROBEs on their way to the server: their client_send_ms
    inward,      \* SKEW_REPLYs and playback events on their way back, in order
    waiters,     \* pending[SkewReply]: open requests, oldest first
    burst,       \* the burst under way: id, probes left, accepted offsets
    skew,        \* useClockSkewStore: skewMs, and whether it rests on a wrong pair
    shown,       \* lastApplied, hostPaused
    video,       \* the element, and rawAppliedRef beside it
    excursions

driftVars == <<now, ahead, hostAt, outward, inward, waiters, burst, skew, shown,
               video, excursions>>

NoCommand == [n |-> 0, kind |-> "none", pos |-> 0, ts |-> 0]
FreshElement == [playing |-> FALSE, pos |-> 0, handled |-> 0, raw |-> 0,
                 moved |-> FALSE, paired |-> TRUE]
\* null in the store reads as 0 where the code writes `?? 0`.
Unmeasured == [known |-> FALSE, ms |-> 0, paired |-> TRUE]
IdleBurst(id) == [id |-> id, running |-> FALSE, left |-> 0, offsets |-> <<>>,
                  paired |-> TRUE]

\* What comes back: the answers to probes, which echo the time of the probe, and
\* the commands the room has accepted, with the server's time.
Replies == [kind : {"reply"}, ts : Int, echo : Nat]
Events == [kind : {"play", "pause", "seek"}, n : Nat \ {0}, pos : Int, ts : Int]
\* The room; an open request; a burst of probes; the offset; what the store
\* shows; the element and what the Player keeps beside it.
HostRec == [n : Nat, paused : BOOLEAN, pos : Int, at : Nat,
            kind : {"play", "pause", "seek", "none"}]
Waiter == [t0 : Nat, burst : Nat]
Burst == [id : Nat, running : BOOLEAN, left : Int, offsets : Seq(Int), paired : BOOLEAN]
Skew == [known : BOOLEAN, ms : Int, paired : BOOLEAN]
Shown == [e : Events \cup {NoCommand}, hostPaused : BOOLEAN]
Element == [playing : BOOLEAN, pos : Int, handled : Nat, raw : Nat, moved : BOOLEAN, paired : BOOLEAN]

DriftTypeOK ==
    /\ now \in 0..MaxNow /\ ahead \in Aheads
    /\ hostAt.n \in 0..MaxCommands /\ hostAt.at \in 0..now
    /\ outward \in Seq(0..now)
    /\ \A i \in DOMAIN waiters : waiters[i].t0 \in 0..now
    /\ skew.known \in BOOLEAN /\ skew.ms \in Int
    /\ shown.e.n \in 0..MaxCommands /\ shown.hostPaused \in BOOLEAN
    /\ video.pos \in Int /\ video.handled \in 0..MaxCommands

DriftInit ==
    /\ now = 0 /\ ahead \in Aheads
    /\ hostAt = [n |-> 0, paused |-> TRUE, pos |-> 0, at |-> 0, kind |-> "none"]
    /\ outward = <<>> /\ inward = <<>> /\ waiters = <<>>
    /\ burst = IdleBurst(0) /\ skew = Unmeasured
    /\ shown = [e |-> NoCommand, hostPaused |-> FALSE]
    /\ video = FreshElement
    /\ excursions = 0

-----------------------------------------------------------------------------
(* The host and the server                                                  *)

\* clock.now_ms().
ServerNow == now + ahead

Excursion == excursions < MaxExcursions /\ excursions' = excursions + 1

\* nextHostPaused: a SEEK leaves the room playing or paused as it was.
PausedBy(paused, kind) ==
    CASE kind = "play" -> FALSE [] kind = "pause" -> TRUE [] OTHER -> paused

\* The server accepts a command and stamps it with its own clock.
HostMoves(kind, pos) ==
    /\ hostAt.n < MaxCommands /\ (hostAt.n = 0 => kind = "play")
    /\ hostAt' = [n |-> hostAt.n + 1, paused |-> PausedBy(hostAt.paused, kind),
                  pos |-> pos, at |-> now, kind |-> kind]
    /\ inward' = Append(inward, [kind |-> kind, n |-> hostAt.n + 1, pos |-> pos,
                                 ts |-> ServerNow])
    /\ UNCHANGED <<now, ahead, outward, waiters, burst, skew, shown, video, excursions>>

\* handle_skew_probe: its own clock, and the sender's stamp echoed.
HandleSkewProbe ==
    /\ outward # <<>> /\ outward' = Tail(outward)
    /\ inward' = Append(inward, [kind |-> "reply", ts |-> ServerNow, echo |-> Head(outward)])
    /\ UNCHANGED <<now, ahead, hostAt, waiters, burst, skew, shown, video, excursions>>

\* The connection drops and comes back: what was under way is lost, and the
\* room's summary carries where its playback stands.
Break ==
    /\ Excursion
    /\ outward' = <<>>
    /\ inward' = IF hostAt.n = 0 THEN <<>>
                 ELSE <<[kind |-> IF hostAt.paused THEN "pause" ELSE "play", n |-> hostAt.n,
                         pos |-> hostAt.pos, ts |-> hostAt.at + ahead]>>
    /\ UNCHANGED <<now, ahead, hostAt, waiters, burst, skew, shown, video>>

-----------------------------------------------------------------------------
(* Probes                                                                   *)

\* The first burst, and one a minute: no two bursts of a room overlap, as a
\* minute is longer than SAMPLE_COUNT_PER_BURST timeouts.
StartBurst ==
    /\ ~burst.running /\ burst.id < MaxBursts
    /\ burst' = [IdleBurst(burst.id + 1) EXCEPT !.running = TRUE, !.left = SAMPLE_COUNT]
    /\ UNCHANGED <<now, ahead, hostAt, outward, inward, waiters, skew, shown, video, excursions>>

\* probeOnce is awaited.
Awaiting == \E i \in DOMAIN waiters : waiters[i].burst = burst.id

\* probeOnce, clock_skew_probe: a waiter, then the probe.
SkewProbe ==
    /\ burst.running /\ burst.left > 0 /\ ~Awaiting
    /\ burst' = [burst EXCEPT !.left = @ - 1]
    /\ waiters' = Append(waiters, [t0 |-> now, burst |-> burst.id])
    /\ outward' = Append(outward, now)
    /\ UNCHANGED <<now, ahead, hostAt, inward, skew, shown, video, excursions>>

\* request_within: the timeout drops the waiter; the sample is missing.
ProbeTimeout ==
    /\ waiters # <<>> /\ now >= Head(waiters).t0 + REQUEST_TIMEOUT
    /\ waiters' = Tail(waiters)
    /\ UNCHANGED <<now, ahead, hostAt, outward, inward, burst, skew, shown, video, excursions>>

\* Mutant: the send time for the midpoint.
OffsetFromSend(ts, t0, t3) == ts - t0

Accepted(t0, t3) == t3 - t0 \in 0..MAX_RTT
Offset(ts, t0, t3) == ts - (t0 + t3) \div 2

\* The k-th of the offsets once they are sorted.
AtRank(offsets, k) ==
    CHOOSE x \in Range(offsets) :
        /\ Cardinality({i \in DOMAIN offsets : offsets[i] < x}) < k
        /\ k <= Cardinality({i \in DOMAIN offsets : offsets[i] <= x})

\* The middle one, or the floored mean of the two.
Median(offsets) ==
    LET mid == Len(offsets) \div 2
    IN  IF Len(offsets) % 2 = 1 THEN AtRank(offsets, mid + 1)
        ELSE (AtRank(offsets, mid) + AtRank(offsets, mid + 1)) \div 2

\* The end of a burst: without a sample the stored skew stays.
EndBurst ==
    /\ burst.running /\ burst.left = 0 /\ ~Awaiting
    /\ burst' = IdleBurst(burst.id)
    /\ skew' = IF burst.offsets = <<>> THEN skew
               ELSE [known |-> TRUE, ms |-> Median(burst.offsets),
                     paired |-> burst.paired]
    /\ UNCHANGED <<now, ahead, hostAt, outward, inward, waiters, shown, video, excursions>>

\* deliver_to_pending: the reply goes to the oldest request still waiting,
\* whatever it echoes; with nobody waiting it is dropped.
DeliverReply(m) ==
    IF waiters = <<>> THEN UNCHANGED <<waiters, burst>>
    ELSE LET w == Head(waiters) IN
         /\ waiters' = Tail(waiters)
         /\ burst' = IF w.burst # burst.id \/ ~Accepted(w.t0, now) THEN burst
                     ELSE [burst EXCEPT
                             !.offsets = Append(@, Offset(m.ts, w.t0, now)),
                             !.paired = @ /\ m.echo = w.t0]

\* The store: an event that is not newer than the one shown changes nothing.
DeliverEvent(m) ==
    shown' = IF m.n <= shown.e.n THEN shown
             ELSE [e |-> m, hostPaused |-> PausedBy(shown.hostPaused, m.kind)]

DeliverInward ==
    /\ inward # <<>> /\ inward' = Tail(inward)
    /\ IF Head(inward).kind = "reply"
       THEN DeliverReply(Head(inward)) /\ UNCHANGED shown
       ELSE DeliverEvent(Head(inward)) /\ UNCHANGED <<waiters, burst>>
    /\ UNCHANGED <<now, ahead, hostAt, outward, skew, video, excursions>>

-----------------------------------------------------------------------------
(* The video                                                                *)

NotBelowZero(x) == IF x < 0 THEN 0 ELSE x

\* expectedPositionMs: frozen while paused, else moved on by the command's age.
ExpectedPosition(e, paused) ==
    IF paused THEN e.pos ELSE e.pos + NotBelowZero(now - (e.ts - skew.ms))

\* appliedPositionMs: without a skew the raw position.
AppliedPosition(e, hostPaused) ==
    IF ~skew.known THEN e.pos
    ELSE ExpectedPosition(e, e.kind = "pause" \/ (e.kind = "seek" /\ hostPaused))

PlayingAfter(kind) ==
    CASE kind = "play" -> TRUE [] kind = "pause" -> FALSE [] OTHER -> video.playing

\* The skew that lands is projected to the event that went in raw, before
\* anything else happens in the page.
RawDue == skew.known /\ video.raw # 0

\* The apply effect: each event once, as soon as the media is ready for it.
ApplyEvent ==
    /\ shown.e.n # 0 /\ video.handled # shown.e.n /\ ~RawDue
    /\ video' = [playing |-> PlayingAfter(shown.e.kind),
                 pos |-> AppliedPosition(shown.e, shown.hostPaused),
                 handled |-> shown.e.n,
                 raw |-> IF ~skew.known /\ shown.e.kind # "pause" THEN shown.e.n ELSE 0,
                 moved |-> FALSE, paired |-> skew.paired]
    /\ UNCHANGED <<now, ahead, hostAt, outward, inward, waiters, burst, skew, shown, excursions>>

\* The skew effect: an event that went in raw is projected, position only.
CorrectRaw ==
    /\ RawDue
    /\ video' = IF video.raw # shown.e.n THEN [video EXCEPT !.raw = 0]
                ELSE [video EXCEPT
                        !.raw = 0, !.moved = FALSE, !.paired = skew.paired,
                        !.pos = AppliedPosition(shown.e, shown.hostPaused)]
    /\ UNCHANGED <<now, ahead, hostAt, outward, inward, waiters, burst, skew, shown, excursions>>

\* localSeek: an unmeasured skew counts as 0; the play state follows the room.
Sync ==
    /\ shown.e.n # 0 /\ video.handled = shown.e.n /\ ~RawDue
    /\ video' = [video EXCEPT
                   !.pos = ExpectedPosition(shown.e, shown.hostPaused),
                   !.playing = ~shown.hostPaused,
                   !.moved = FALSE, !.paired = skew.paired]
    /\ UNCHANGED <<now, ahead, hostAt, outward, inward, waiters, burst, skew, shown,
                   excursions>>

\* The viewer pauses or resumes its own element, or it stalls.
UserToggles ==
    /\ Excursion
    /\ video' = [video EXCEPT !.playing = ~@, !.moved = TRUE]
    /\ UNCHANGED <<now, ahead, hostAt, outward, inward, waiters, burst, skew, shown>>

\* A tick: the steps of the hook between two awaits, timeouts that are due and
\* the raw correction do not wait for it.
Tick ==
    /\ now < MaxNow /\ ~RawDue /\ (burst.running => Awaiting)
    /\ waiters # <<>> => now < Head(waiters).t0 + REQUEST_TIMEOUT
    /\ now' = now + 1
    /\ video' = [video EXCEPT !.pos = IF video.playing THEN @ + 1 ELSE @]
    /\ UNCHANGED <<ahead, hostAt, outward, inward, waiters, burst, skew, shown, excursions>>

DriftNext ==
    \/ \E kind \in {"play", "pause", "seek"}, pos \in Positions : HostMoves(kind, pos)
    \/ HandleSkewProbe \/ Break
    \/ StartBurst \/ SkewProbe \/ ProbeTimeout \/ EndBurst \/ DeliverInward
    \/ ApplyEvent \/ CorrectRaw \/ Sync \/ UserToggles
    \/ Tick

DriftSpec == DriftInit /\ [][DriftNext]_driftVars

-----------------------------------------------------------------------------
\* Where the room stands: its last command, moved on while it plays.
RoomPosition == hostAt.pos + IF hostAt.paused THEN 0 ELSE now - hostAt.at

Distance(a, b) == IF a >= b THEN a - b ELSE b - a

\* The viewer shows the room's last command, in the room's play state, has a
\* measured skew and has not moved the element since it was placed.
Following ==
    /\ hostAt.n # 0 /\ video.handled = hostAt.n /\ video.playing = ~hostAt.paused
    /\ skew.known /\ ~RawDue /\ ~video.moved

\* A viewer that follows is where the room is, to half the longest round trip
\* a probe may take (the midpoint is floored), however late the events reached
\* it, whatever the clocks say and whether the skew landed before or after
\* them; exactly there while the room is paused.  Outside the promise is a skew
\* that rests on a reply which answered another probe than the one it was
\* handed to (net/room.rs deliver_to_pending).
PlayerOnTime ==
    Following /\ (video.paired \/ hostAt.paused) =>
        Distance(video.pos, RoomPosition) <= IF hostAt.paused THEN 0 ELSE (MAX_RTT + 1) \div 2

\* A reply is measured against the probe that asked for it: handle_skew_probe
\* echoes client_send_ms "so the client can pair the round trip
\* deterministically" (ws/mod.rs).
RepliesPaired == burst.paired
=============================================================================
