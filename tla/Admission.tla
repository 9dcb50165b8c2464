------------------------------ MODULE Admission ------------------------------
(***************************************************************************)
(* What the server reads from one connection: the token buckets of its      *)
(* limiter (ws/mod.rs TokenBucket, ratelimit/mod.rs), the cooldown after a  *)
(* rate hit, the window of bad messages that closes it, and the order of    *)
(* those checks in the read loop (ws/mod.rs), before a frame is dispatched. *)
(* The clock is the wall clock and may step backwards.                      *)
(*                                                                         *)
(* Tokens are counted in thousandths, times in milliseconds; the run takes  *)
(* a coarser unit of time.                                                  *)
(***************************************************************************)
EXTENDS Integers, Sequences, SequencesExt

CONSTANTS
    Rate,               \* per bucket, tokens a second
    Burst,              \* per bucket, its capacity
    RATE_THROTTLE_MS,   \* cooldown after a rate hit
    BAD_MSG_THRESHOLD,  \* bad messages that close the connection
    BAD_MSG_WINDOW_MS,  \* within this time
    PRE_AUTH_MAX_FRAME_BYTES,
    Sizes,              \* the sizes of frames
    ClockSteps,         \* how the clock moves, backwards included
    MaxClock,           \* bound: the clock's last reading
    MaxFrames           \* bound: frames

Buckets == {"msg", "bytes", "laser"}

ASSUME AdmissionAssumption ==
    /\ Rate \in [Buckets -> Nat] /\ Burst \in [Buckets -> Nat]
    /\ Sizes \subseteq Nat /\ ClockSteps \subseteq Int
    /\ {RATE_THROTTLE_MS, BAD_MSG_THRESHOLD, BAD_MSG_WINDOW_MS,
        PRE_AUTH_MAX_FRAME_BYTES, MaxClock, MaxFrames} \subseteq Nat

VARIABLES
    clock,     \* now_ms()
    bucket,    \* per bucket: [milli, last], as TokenBucket
    mark,      \* history, per bucket: when it was last full, and the tokens
               \* taken since: [at, taken]
    cooldown,  \* `throttle': frames are dropped until then
    badMsgs,   \* bad_msgs, times in order of arrival
    known,     \* authed
    shut,      \* the connection is closed
    frames     \* bound: frames read

admissionVars == <<clock, bucket, mark, cooldown, badMsgs, known, shut, frames>>

Larger(a, b) == IF a >= b THEN a ELSE b
Smaller(a, b) == IF a <= b THEN a ELSE b

Full(k) == 1000 * Burst[k]

\* TokenBucket::new_at, and what PerConnLimiter::reset puts in place.
Fresh(now) == [k \in Buckets |-> [milli |-> Full(k), last |-> now]]
FreshMark(now) == [k \in Buckets |-> [at |-> now, taken |-> 0]]

-----------------------------------------------------------------------------
(* TokenBucket.                                                            *)

\* Mutant: whole tokens are refilled and the clock of the bucket moves on.
RefilledByWholeTokens(b, k, now) ==
    [milli |-> Smaller(Full(k), b.milli + 1000 * ((Larger(0, now - b.last) * Rate[k]) \div 1000)),
     last  |-> Larger(b.last, now)]

\* A step backwards credits nothing and does not move the bucket's clock.
Refilled(b, k, now) ==
    [milli |-> Smaller(Full(k), b.milli + Larger(0, now - b.last) * Rate[k]),
     last  |-> Larger(b.last, now)]

\* try_consume_n_at.
Granted(k, n) == Refilled(bucket[k], k, clock).milli >= 1000 * n

Consumed(k, n) ==
    LET b == Refilled(bucket[k], k, clock) IN
    IF Granted(k, n) THEN [b EXCEPT !.milli = @ - 1000 * n] ELSE b

\* The history of a bucket that is debited n tokens, or refuses them.
Marked(k, n) ==
    LET b == Refilled(bucket[k], k, clock)
        m == IF b.milli = Full(k) THEN [at |-> b.last, taken |-> 0] ELSE mark[k]
    IN  IF Granted(k, n) THEN [m EXCEPT !.taken = @ + n] ELSE m

\* n tokens asked of each bucket in ns.
Debit(ns) ==
    /\ bucket' = [k \in Buckets |-> IF k \in DOMAIN ns THEN Consumed(k, ns[k]) ELSE bucket[k]]
    /\ mark'   = [k \in Buckets |-> IF k \in DOMAIN ns THEN Marked(k, ns[k]) ELSE mark[k]]

-----------------------------------------------------------------------------
(* The connection.                                                         *)

AdmissionInit ==
    /\ clock = 0 /\ bucket = Fresh(0) /\ mark = FreshMark(0)
    /\ cooldown = 0 /\ badMsgs = <<>> /\ known = FALSE /\ shut = FALSE
    /\ frames = 0

ClockMoves(d) ==
    /\ clock + d \in 0..MaxClock
    /\ clock' = clock + d
    /\ UNCHANGED <<bucket, mark, cooldown, badMsgs, known, shut, frames>>

Reads == ~shut /\ frames < MaxFrames /\ frames' = frames + 1

\* In the cooldown a frame is dropped, and no bucket is asked.
Dropped ==
    /\ Reads /\ cooldown > clock
    /\ UNCHANGED <<clock, bucket, mark, cooldown, badMsgs, known, shut>>

\* A rate hit: the client is told, the connection stays.
Hit == cooldown' = clock + RATE_THROTTLE_MS

\* The msg bucket is asked first, whatever the frame.
OverMessages ==
    /\ Reads /\ cooldown <= clock /\ ~Granted("msg", 1)
    /\ Debit([k \in {"msg"} |-> 1]) /\ Hit
    /\ UNCHANGED <<clock, badMsgs, known, shut>>

\* Past the msg bucket.
Passed == Reads /\ cooldown <= clock /\ Granted("msg", 1)

\* A ping, a pong, or before authentication a frame too large: no byte is
\* counted; the last closes the connection.
NotCounted ==
    /\ Passed /\ Debit([k \in {"msg"} |-> 1])
    /\ \/ UNCHANGED shut
       \/ /\ ~known /\ \E n \in Sizes : n > PRE_AUTH_MAX_FRAME_BYTES
          /\ shut' = TRUE
    /\ UNCHANGED <<clock, cooldown, badMsgs, known>>

\* A binary frame that may be decoded.
Binary(n) == Passed /\ (known \/ n <= PRE_AUTH_MAX_FRAME_BYTES)

OverBytes(n) ==
    /\ Binary(n) /\ ~Granted("bytes", n)
    /\ Debit([k \in {"msg", "bytes"} |-> IF k = "msg" THEN 1 ELSE n]) /\ Hit
    /\ UNCHANGED <<clock, badMsgs, known, shut>>

\* record_bad_msg: times older than the window leave from the front.
Recorded(q) ==
    LET young == SelectInSeq(q, LAMBDA t : clock - t <= BAD_MSG_WINDOW_MS)
    IN  Append(IF young = 0 THEN <<>> ELSE SubSeq(q, young, Len(q)), clock)

Bad == /\ badMsgs' = Recorded(badMsgs)
       /\ shut' = (Len(badMsgs') >= BAD_MSG_THRESHOLD)

\* A text frame; one that does not decode, has another version, or names a
\* room its sender is not in.
BadFrame ==
    /\ \/ Passed /\ Debit([k \in {"msg"} |-> 1])
       \/ \E n \in Sizes : /\ Binary(n) /\ Granted("bytes", n)
                           /\ Debit([k \in {"msg", "bytes"} |-> IF k = "msg" THEN 1 ELSE n])
    /\ Bad
    /\ UNCHANGED <<clock, cooldown, known>>

\* A laser frame over its own rate, or from outside a room, is dropped and
\* held against nobody.
LaserFrame(n) ==
    /\ Binary(n) /\ Granted("bytes", n)
    /\ Debit([k \in Buckets |-> IF k = "bytes" THEN n ELSE 1])
    /\ UNCHANGED <<clock, cooldown, badMsgs, known, shut>>

\* Any other frame is dispatched.  AUTH_OK resets the limiter and leaves the
\* cooldown alone.
Dispatched(n) ==
    /\ Binary(n) /\ Granted("bytes", n)
    /\ \/ /\ Debit([k \in {"msg", "bytes"} |-> IF k = "msg" THEN 1 ELSE n])
          /\ UNCHANGED known
       \/ /\ ~known /\ known' = TRUE
          /\ bucket' = Fresh(clock) /\ mark' = FreshMark(clock)
    /\ UNCHANGED <<clock, cooldown, badMsgs, shut>>

AdmissionNext ==
    \/ \E d \in ClockSteps : ClockMoves(d)
    \/ Dropped \/ OverMessages \/ NotCounted \/ BadFrame
    \/ \E n \in Sizes : OverBytes(n) \/ LaserFrame(n) \/ Dispatched(n)

AdmissionSpec == AdmissionInit /\ [][AdmissionNext]_admissionVars

-----------------------------------------------------------------------------
(* Properties.                                                             *)

\* Since it was last full a bucket has been credited exactly its rate times
\* the time its clock counted, nothing lost to rounding and nothing gained by
\* a clock that steps back, and holds what was not taken (the promise of
\* TokenBucket's comment).  So no second admits more than the burst and the
\* rate, and a sender within the rate is never refused.
BucketExact ==
    \A k \in Buckets :
        /\ bucket[k].milli \in 0..Full(k)
        /\ bucket[k].milli = Full(k) + Rate[k] * (bucket[k].last - mark[k].at) - 1000 * mark[k].taken

=============================================================================
