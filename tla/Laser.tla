-------------------------------- MODULE Laser --------------------------------
(***************************************************************************)
(* One participant's laser pointer and the trail another one sees: the      *)
(* LaserSender (laser/laserTransport.ts) and the hook that drives it, the   *)
(* laser_send command (commands/laser.rs), the server's relay               *)
(* (rooms/laser.rs) and the remote trail (hooks/useLaserTrail.ts).          *)
(*                                                                         *)
(* Time passes in ticks; a timer fires in the tick it is due.  A position   *)
(* is only told apart as the newest or not.                                 *)
(***************************************************************************)
EXTENDS Integers, Sequences, SequencesExt

CONSTANTS
    MIN_LASER_SEND_INTERVAL,  \* in ticks, as all of the next
    LASER_KEEPALIVE,
    LASER_SEND_TIMEOUT,
    REMOTE_LASER_IDLE,
    SlowSend,                 \* a call that takes longer is a mishap
    WireDelay,                \* bound: how long a frame is under way
    SettledBy                   \* calm time after which the trail must be right

ASSUME LaserAssumption ==
    {MIN_LASER_SEND_INTERVAL, LASER_KEEPALIVE, LASER_SEND_TIMEOUT, REMOTE_LASER_IDLE,
     SlowSend, WireDelay, SettledBy} \subseteq Nat \ {0}

\* What a frame takes, from the call that is made for it to the watcher.
Round == SlowSend + WireDelay

\* The timings among themselves: frames are quicker than the keepalive, two
\* keepalives and a frame fit into a trail's life ("more than twice" the
\* keepalive, laserTransport.ts), and the calm is counted from after that.
LaserTiming ==
    /\ MIN_LASER_SEND_INTERVAL <= LASER_KEEPALIVE
    /\ Round < LASER_KEEPALIVE
    /\ 2 * LASER_KEEPALIVE + Round < REMOTE_LASER_IDLE
    /\ \A d \in {SlowSend, WireDelay, MIN_LASER_SEND_INTERVAL} :
          2 * LASER_KEEPALIVE + Round + d < SettledBy

ASSUME LaserTimingAssumption == LaserTiming

VARIABLES
    laser,  \* the LaserSender
    call,   \* its laser_send in flight
    stray,  \* a call that was given up on and has not settled
    final,  \* close() has its LASER_OFF yet to send
    relay,  \* frames under way to the watcher
    trail,  \* the watcher's trail of this sender
    calm,   \* history: ticks since a move, a release or a mishap
    gone    \* history: the last frame was lost

laserVars == <<laser, call, stray, final, relay, trail, calm, gone>>

NoCall == [kind |-> "none", new |-> FALSE, age |-> 0]
NoStray == [kind |-> "none", new |-> FALSE, latest |-> FALSE]
NoTrail == [seen |-> "none", new |-> FALSE, idle |-> 0]

Unused == [pending |-> FALSE, off |-> FALSE, held |-> FALSE, moved |-> FALSE, last |-> FALSE,
         sinceMove |-> LASER_KEEPALIVE, sinceSend |-> MIN_LASER_SEND_INTERVAL,
         timer |-> "none", left |-> 0, disposed |-> FALSE]

\* The sender, its call, a call that was given up on, a frame and a trail.
Senders == [pending : BOOLEAN, off : BOOLEAN, held : BOOLEAN, moved : BOOLEAN, last : BOOLEAN,
            sinceMove : 0..LASER_KEEPALIVE, sinceSend : 0..MIN_LASER_SEND_INTERVAL,
            timer : {"none", "gate", "keepalive"}, left : Nat, disposed : BOOLEAN]
Calls == [kind : {"none", "move", "off"}, new : BOOLEAN, age : 0..LASER_SEND_TIMEOUT]
Strays == [kind : {"none", "move", "off"}, new : BOOLEAN, latest : BOOLEAN]
Frames == [kind : {"move", "off"}, new : BOOLEAN, age : 0..WireDelay]
Trails == [seen : {"none", "shown", "fading"}, new : BOOLEAN, idle : 0..REMOTE_LASER_IDLE]

\* The sender, what it has sent and the watcher's trail.
LaserTypeOK ==
    /\ laser \in Senders /\ call \in Calls /\ stray \in Strays /\ final \in BOOLEAN
    /\ relay \in Seq(Frames) /\ trail \in Trails
    /\ calm \in 0..SettledBy /\ gone \in BOOLEAN

LaserInit ==
    /\ laser = Unused /\ call = NoCall /\ stray = NoStray /\ final = FALSE
    /\ relay = <<>> /\ trail = NoTrail /\ calm = 0 /\ gone = FALSE

-----------------------------------------------------------------------------
(* LaserSender.  The operators take the sender to the sender and the kind   *)
(* of frame it dispatches.                                                  *)

NoTimer(s) == [s EXCEPT !.timer = "none", !.left = 0]
Armed(s, k, n) == [s EXCEPT !.timer = k, !.left = n]

\* What pump() does when no call is in flight.
Pumped(s) ==
    LET wait == MIN_LASER_SEND_INTERVAL - s.sinceSend
        stays(t) == [sender |-> t, sends |-> "none"]
        sent(t, k) == [sender |-> [NoTimer(t) EXCEPT !.sinceSend = 0], sends |-> k]
    IN  CASE s.disposed -> stays(s)
          [] ~s.disposed /\ (s.off \/ s.pending) /\ wait > 0 ->
                stays(IF s.timer = "gate" THEN s ELSE Armed(s, "gate", wait))
          [] ~s.disposed /\ s.off /\ wait <= 0 ->
                sent([s EXCEPT !.off = FALSE, !.moved = FALSE, !.last = FALSE], "off")
          [] ~s.disposed /\ ~s.off /\ s.pending /\ wait <= 0 ->
                sent([s EXCEPT !.pending = FALSE, !.last = TRUE, !.moved = TRUE, !.sinceMove = 0],
                     "move")
          [] ~s.disposed /\ ~s.off /\ ~s.pending ->
                stays(IF s.held /\ s.last
                      THEN Armed(s, "keepalive", LASER_KEEPALIVE - s.sinceMove) ELSE s)

\* pump(), with c the call in flight.
Pump(s, c) ==
    IF c.kind # "none" THEN laser' = s /\ call' = c /\ UNCHANGED stray
    ELSE LET p == Pumped(s) IN
         /\ laser' = p.sender
         /\ call' = IF p.sends = "none" THEN c ELSE [kind |-> p.sends, new |-> TRUE, age |-> 0]
         /\ stray' = IF p.sends = "none" THEN stray ELSE [stray EXCEPT !.latest = FALSE]

\* move(): the newest position replaces the pending one, and an off that has
\* not gone out.
Moved(s) == [s EXCEPT !.pending = TRUE, !.held = TRUE, !.off = FALSE]

Old(f) == [f EXCEPT !.new = FALSE]

LaserMoves ==
    /\ ~laser.disposed
    /\ LET s == Moved(laser)
           p == Pumped(s)
           sends == call.kind = "none" /\ p.sends = "move"
       IN  /\ laser' = IF call.kind = "none" THEN p.sender ELSE s
           /\ call' = IF sends THEN [kind |-> "move", new |-> TRUE, age |-> 0] ELSE Old(call)
           /\ stray' = IF sends THEN [Old(stray) EXCEPT !.latest = FALSE] ELSE Old(stray)
    /\ relay' = [i \in DOMAIN relay |-> Old(relay[i])]
    /\ trail' = Old(trail)
    /\ calm' = 0
    /\ UNCHANGED <<final, gone>>

\* off(): nothing to release unless a move went out since the last off.
LaserReleased ==
    /\ ~laser.disposed
    /\ LET s == [NoTimer(laser) EXCEPT !.pending = FALSE, !.held = FALSE]
       IN  IF laser.moved THEN Pump([s EXCEPT !.off = TRUE], call)
           ELSE laser' = s /\ UNCHANGED <<call, stray>>
    /\ calm' = 0
    /\ UNCHANGED <<final, relay, trail, gone>>

Disposed(s) == [NoTimer(s) EXCEPT !.disposed = TRUE, !.pending = FALSE, !.off = FALSE, !.held = FALSE]

\* close(): unmount, room change.
LaserCloses ==
    /\ ~laser.disposed
    /\ laser' = Disposed(laser) /\ final' = laser.moved
    /\ UNCHANGED <<call, stray, relay, trail, calm, gone>>

\* The app is gone, without a word.
LaserCrashes ==
    /\ laser' = Disposed(laser) /\ laser' # laser
    /\ call' = NoCall /\ stray' = NoStray /\ final' = FALSE
    /\ UNCHANGED <<relay, trail, calm, gone>>

\* A keepalive puts the last position in the pending slot.
TimerFires ==
    /\ laser.timer # "none" /\ laser.left = 0
    /\ Pump([NoTimer(laser) EXCEPT
                !.pending = @ \/ (laser.timer = "keepalive" /\ laser.held /\ laser.last)], call)
    /\ UNCHANGED <<final, relay, trail, calm, gone>>

-----------------------------------------------------------------------------
(* laser_send and the relay.                                               *)

\* The frame goes out, or is refused (not connected, not in a room), dropped
\* by the server (its rate, a capability lost) or skipped by a watcher who
\* lags.
Sends(f) == relay' = Append(relay, [kind |-> f.kind, new |-> f.new, age |-> 0]) /\ UNCHANGED gone

\* Mutant: a settled call is not followed by a pump.
CallSettlesUnpumped ==
    /\ call.kind # "none"
    /\ Sends(call)
    /\ laser' = laser /\ call' = NoCall
    /\ UNCHANGED <<stray, final, trail, calm>>

CallSettles ==
    /\ call.kind # "none"
    /\ \/ Sends(call) /\ UNCHANGED calm
       \/ /\ UNCHANGED relay /\ gone' = TRUE
          /\ calm' = IF gone THEN 0 ELSE calm
    /\ Pump(laser, NoCall)
    /\ UNCHANGED <<final, trail>>

\* After the timeout the sender goes on; the command may still run.
CallTimesOut ==
    /\ call.kind # "none" /\ call.age = LASER_SEND_TIMEOUT
    /\ LET s == IF stray.kind = "none" THEN [kind |-> call.kind, new |-> call.new, latest |-> TRUE]
                ELSE stray
           p == Pumped(laser)
       IN  /\ laser' = p.sender
           /\ call' = IF p.sends = "none" THEN NoCall ELSE [kind |-> p.sends, new |-> TRUE, age |-> 0]
           /\ stray' = IF p.sends = "none" THEN s ELSE [s EXCEPT !.latest = FALSE]
    /\ calm' = 0
    /\ UNCHANGED <<final, relay, trail, gone>>

StraySends ==
    /\ stray.kind # "none" /\ Sends(stray)
    /\ stray' = NoStray /\ calm' = 0
    /\ UNCHANGED <<laser, call, final, trail>>

\* close() waits for the latest call to settle, not for the timeout.
FinalSends ==
    /\ final /\ call.kind = "none" /\ ~stray.latest
    /\ final' = FALSE
    /\ \/ Sends([kind |-> "off", new |-> TRUE])
       \/ UNCHANGED <<relay, gone>>
    /\ UNCHANGED <<laser, call, stray, trail, calm>>

-----------------------------------------------------------------------------
(* The watcher.                                                            *)

\* addRemotePosition and removeTrail.
Shown(f) ==
    CASE f.kind = "move" -> [seen |-> "shown", new |-> f.new, idle |-> 0]
      [] f.kind = "off" /\ trail.seen = "shown" -> [trail EXCEPT !.seen = "fading", !.idle = 0]
      [] f.kind = "off" /\ trail.seen # "shown" -> trail

Arrives ==
    /\ relay # <<>>
    /\ trail' = Shown(Head(relay)) /\ relay' = Tail(relay) /\ gone' = FALSE
    /\ UNCHANGED <<laser, call, stray, final, calm>>

\* Mutant: trails never idle out.
ExpireNever == FALSE /\ UNCHANGED laserVars

\* expireIdle, on the next frame of the screen.
Expire ==
    /\ trail.seen = "shown" /\ trail.idle >= REMOTE_LASER_IDLE
    /\ trail' = [trail EXCEPT !.seen = "fading", !.idle = 0]
    /\ UNCHANGED <<laser, call, stray, final, relay, calm, gone>>

\* A faded trail leaves the map.
Faded ==
    /\ trail.seen = "fading" /\ trail.idle > 0
    /\ trail' = NoTrail
    /\ UNCHANGED <<laser, call, stray, final, relay, calm, gone>>

Upto(n, top) == IF n < top THEN n + 1 ELSE top

Tick ==
    /\ laser.timer = "none" \/ laser.left > 0
    /\ call.kind = "none" \/ call.age < LASER_SEND_TIMEOUT
    /\ \A i \in DOMAIN relay : relay[i].age < WireDelay
    /\ ~(trail.seen = "shown" /\ trail.idle >= REMOTE_LASER_IDLE)
    /\ laser' = [laser EXCEPT !.sinceMove = Upto(@, LASER_KEEPALIVE),
                              !.sinceSend = Upto(@, MIN_LASER_SEND_INTERVAL),
                              !.left = IF @ > 0 THEN @ - 1 ELSE 0]
    /\ call' = IF call.kind = "none" THEN call ELSE [call EXCEPT !.age = @ + 1]
    /\ relay' = [i \in DOMAIN relay |-> [relay[i] EXCEPT !.age = @ + 1]]
    /\ trail' = IF trail.seen = "none" THEN trail ELSE [trail EXCEPT !.idle = Upto(@, REMOTE_LASER_IDLE)]
    /\ calm' = IF call.kind # "none" /\ call.age >= SlowSend THEN 0 ELSE Upto(calm, SettledBy)
    /\ UNCHANGED <<stray, final, gone>>

LaserNext ==
    \/ LaserMoves \/ LaserReleased \/ LaserCloses \/ LaserCrashes \/ TimerFires
    \/ CallSettles \/ CallTimesOut \/ StraySends \/ FinalSends
    \/ Arrives \/ Expire \/ Faded \/ Tick

\* Time passes, timers fire, screens are redrawn and a frame that was sent
\* arrives.  Nothing is asked of the user or of a command that hangs.
LaserFairness ==
    /\ WF_laserVars(Tick) /\ WF_laserVars(TimerFires) /\ WF_laserVars(CallTimesOut)
    /\ WF_laserVars(Arrives) /\ WF_laserVars(Expire) /\ WF_laserVars(Faded)

LaserSpec == LaserInit /\ [][LaserNext]_laserVars /\ LaserFairness

-----------------------------------------------------------------------------
(* Properties.                                                             *)

\* A laser held still is on the watcher's screen, at the newest position, for
\* as long as no call is slow and no two frames in a row are lost ("one lost
\* keepalive does not fade a stationary pointer", laserTransport.ts).
LaserStays ==
    laser.held /\ calm >= SettledBy => trail.seen = "shown" /\ trail.new

\* A laser that is not held any more leaves the screen, however its sender
\* stopped: released, torn down, crashed, its last frames lost or late.
LaserFades == []<>(trail.seen = "none" \/ laser.held)

=============================================================================
