------------------------------ MODULE RoomFeed ------------------------------
(***************************************************************************)
(* One connection's subscription to its room's broadcast channel           *)
(* (apps/server/src/rooms/feed.rs), the forwarder that drains it           *)
(* (ws/mod.rs room_bcast_forwarder, sync_room_subscription), the room that *)
(* publishes into it (rooms/dispatch.rs, registry.rs publish) and the      *)
(* client's store that applies what arrives (useDrawingStore.ts).          *)
(*                                                                         *)
(* A drawing event is only its number: what the room's canvas holds after  *)
(* event n is the first n numbers, a snapshot at n stands for all of them, *)
(* and the client's canvas is the set of numbers it reflects.              *)
(***************************************************************************)
EXTENDS Integers, Sequences

CONSTANTS
    Base,      \* StrokeBookkeeping::new: the clock, not 0, seeds the sequence
    Capacity,  \* slots of the broadcast ring
    MaxItems,  \* bound: items published in one behaviour
    MaxAway    \* bound: presence timeouts in one behaviour

ASSUME FeedAssumption ==
    /\ {Base, MaxItems, MaxAway} \subseteq Nat
    /\ Capacity \in Nat \ {0}

VARIABLES
    open,        \* the room is in by_id and its channel exists
    seq,         \* StrokeBookkeeping::seq
    log,         \* everything sent to the channel; the ring is its end
    member,      \* is_user_in_room: Connected or Reconnecting
    away,        \* presence timeouts so far
    subscribed,  \* the connection loop's last_room is set
    mail,        \* sub_tx: a subscription the forwarder has not taken yet
    feedOn,      \* the forwarder holds a RoomFeed
    since,       \* the drawing sequence when its receiver was made
    pos,         \* the receiver's next index in log
    floor,       \* RoomFeed::draw_floor
    lastSeen,    \* RoomFeed::last_seen
    lagged,      \* RoomFeed::lagged
    syncPending, \* RoomFeed::sync_pending
    held,        \* RoomFeed::held, an index of log; 0 is None
    cooling,     \* the last DRAW_SYNC is less than min_sync_interval ago
    hand,        \* what next() returned and the forwarder still filters
    canvas,      \* the drawing events the client's canvas reflects
    clientSeq,   \* useDrawingStore lastSeq
    withheld     \* history: drawing events refused by the member filter

roomVars   == <<open, seq, log>>
subVars    == <<member, away, subscribed, mail>>
feedVars   == <<feedOn, since, pos, floor, lastSeen, lagged, syncPending, held, cooling>>
clientVars == <<canvas, clientSeq, withheld>>
vars       == <<roomVars, subVars, feedVars, hand, clientVars>>

\* A channel item: drawing or not, published by this user, and the room's
\* drawing sequence once it was published.
Item == [draw : BOOLEAN, own : BOOLEAN, at : Nat]

NoMail == [kind |-> "none", pos |-> 1, since |-> 0]
NoHand == [kind |-> "none", n |-> 0]

TypeOK ==
    /\ open \in BOOLEAN /\ seq \in Nat /\ log \in Seq(Item)
    /\ member \in BOOLEAN /\ away \in Nat /\ subscribed \in BOOLEAN
    /\ mail \in [kind : {"none", "drop", "rx"}, pos : 1 .. Len(log) + 1, since : Nat]
    /\ feedOn \in BOOLEAN /\ since \in Nat /\ floor \in Nat /\ lastSeen \in Nat
    /\ lagged \in BOOLEAN /\ syncPending \in BOOLEAN /\ cooling \in BOOLEAN
    /\ pos \in 1 .. Len(log) + 1
    /\ held \in 0 .. Len(log)
    /\ hand \in [kind : {"none", "event", "sync"}, n : Nat]
    /\ canvas \subseteq Nat /\ clientSeq \in Nat /\ withheld \subseteq Nat

-----------------------------------------------------------------------------
(* The room.                                                               *)

\* A handler publishes one item under the room's write lock.  What this
\* user draws is on its own canvas first; only a member may draw.
Publish(draw, own) ==
    LET at == IF draw THEN seq + 1 ELSE seq IN
    /\ open
    /\ Len(log) < MaxItems
    /\ own => draw /\ member
    /\ seq' = at
    /\ log' = Append(log, [draw |-> draw, own |-> own, at |-> at])
    /\ canvas' = IF own THEN canvas \cup {at} ELSE canvas
    /\ UNCHANGED <<open, subVars, feedVars, hand, clientSeq, withheld>>

\* remove_room.
CloseRoom ==
    /\ open
    /\ open' = FALSE
    /\ UNCHANGED <<seq, log, subVars, feedVars, hand, clientVars>>

-----------------------------------------------------------------------------
(* Membership and the subscription (the connection loop).                  *)

\* tick_presence_timeout marks the silent viewer Disconnected.
PresenceTimeout ==
    /\ open /\ member
    /\ away < MaxAway
    /\ away' = away + 1
    /\ member' = FALSE
    /\ UNCHANGED <<roomVars, subscribed, mail, feedVars, hand, clientVars>>

\* PRESENCE: RoomRegistry::touch revives it.
Revive ==
    /\ open /\ ~member
    /\ member' = TRUE
    /\ UNCHANGED <<roomVars, away, subscribed, mail, feedVars, hand, clientVars>>

\* sync_room_subscription, after each inbound message.  It is sticky: a
\* member keeps the receiver it has.
SyncSubscription ==
    /\ \/ /\ subscribed /\ ~(member /\ open)
          /\ subscribed' = FALSE
          /\ mail' = [NoMail EXCEPT !.kind = "drop"]
       \/ /\ ~subscribed /\ member /\ open
          /\ subscribed' = TRUE
          /\ mail' = [kind |-> "rx", pos |-> Len(log) + 1, since |-> seq]
    /\ UNCHANGED <<roomVars, member, away, feedVars, hand, clientVars>>

\* The forwarder's select is biased: a new subscription replaces the feed
\* before anything else is taken from the old one.
TakeSubscription ==
    /\ hand.kind = "none"
    /\ mail.kind # "none"
    /\ feedOn' = (mail.kind = "rx")
    /\ since' = mail.since
    /\ pos' = mail.pos
    /\ floor' = 0
    /\ lastSeen' = 0
    /\ lagged' = FALSE
    /\ syncPending' = FALSE
    /\ held' = 0
    /\ cooling' = FALSE
    /\ mail' = NoMail
    /\ UNCHANGED <<roomVars, member, away, subscribed, hand, clientVars>>

-----------------------------------------------------------------------------
(* RoomFeed::next, from await to await.                                    *)

Larger(a, b) == IF a >= b THEN a ELSE b

\* What the client has, as far as the feed knows.
Have == Larger(floor, lastSeen)

\* BroadcastItem::seq.
Wire(i) == IF log[i].draw THEN log[i].at ELSE 0

\* tokio broadcast: the receiver's next slot was overwritten.
Overrun == Len(log) >= pos + Capacity

FeedReady == feedOn /\ hand.kind = "none" /\ mail.kind = "none"

\* Mutant: sync_pending is not reset.
FeedSyncForever ==
    /\ FeedReady
    /\ syncPending
    /\ ~cooling
    /\ cooling' = TRUE
    /\ floor' = Larger(floor, seq)
    /\ lastSeen' = Larger(lastSeen, seq)
    /\ hand' = [kind |-> "sync", n |-> seq]
    /\ UNCHANGED <<roomVars, subVars, feedOn, since, pos, lagged, syncPending, held,
                   clientVars>>

\* The rate limit has passed and drawing_snapshot has the read lock.
FeedSync ==
    /\ FeedReady
    /\ syncPending
    /\ ~cooling
    /\ syncPending' = FALSE
    /\ cooling' = TRUE
    /\ IF open
       THEN /\ floor' = Larger(floor, seq)
            /\ lastSeen' = Larger(lastSeen, seq)
            /\ hand' = [kind |-> "sync", n |-> seq]
       ELSE UNCHANGED <<floor, lastSeen, hand>>
    /\ UNCHANGED <<roomVars, subVars, feedOn, since, pos, lagged, held, clientVars>>

\* Mutant: a lag is logged and forgotten.
FeedLaggedIgnored ==
    /\ FeedReady
    /\ ~syncPending
    /\ held = 0
    /\ Overrun
    /\ pos' = Len(log) + 1 - Capacity
    /\ UNCHANGED <<roomVars, subVars, feedOn, since, floor, lastSeen, lagged, syncPending,
                   held, cooling, hand, clientVars>>

\* RecvError::Lagged: the receiver moves to the oldest item still there.
FeedLagged ==
    /\ FeedReady
    /\ ~syncPending
    /\ held = 0
    /\ Overrun
    /\ lagged' = TRUE
    /\ pos' = Len(log) + 1 - Capacity
    /\ UNCHANGED <<roomVars, subVars, feedOn, since, floor, lastSeen, syncPending,
                   held, cooling, hand, clientVars>>

\* The end of the loop body: an item a DRAW_SYNC covers is skipped.
Emit(i) ==
    IF Wire(i) # 0 /\ Wire(i) <= floor
    THEN UNCHANGED <<lastSeen, hand>>
    ELSE /\ hand' = [kind |-> "event", n |-> i]
         /\ lastSeen' = Larger(lastSeen, Wire(i))

\* After a lag: a loss asks for a snapshot and keeps the item for later.
Judge(i, lost) ==
    /\ lagged' = FALSE
    /\ syncPending' = lost
    /\ held' = IF lost THEN i ELSE 0
    /\ IF lost THEN UNCHANGED <<lastSeen, hand>> ELSE Emit(i)

\* recv() returned the next item, or next() resumes with the one it parked
\* before its snapshot.
FeedItem(i) ==
    \/ /\ ~lagged
       /\ held' = 0
       /\ Emit(i)
       /\ UNCHANGED <<lagged, syncPending>>
    \/ /\ lagged
       /\ log[i].draw
       /\ Judge(i, Wire(i) > Have + 1)
    \/ /\ lagged
       /\ ~log[i].draw
       /\ held' = i
       /\ UNCHANGED <<lagged, syncPending, lastSeen, hand>>

FeedRecv ==
    /\ FeedReady
    /\ ~syncPending
    /\ held = 0
    /\ ~Overrun
    /\ pos <= Len(log)
    /\ pos' = pos + 1
    /\ FeedItem(pos)
    /\ UNCHANGED <<roomVars, subVars, feedOn, since, floor, cooling, clientVars>>

FeedHeld ==
    /\ FeedReady
    /\ ~syncPending
    /\ held # 0
    /\ ~lagged
    /\ FeedItem(held)
    /\ UNCHANGED <<roomVars, subVars, feedOn, since, pos, floor, cooling, clientVars>>

\* Mutant: off by one, one trailing drawing event may be missing.
FeedDecideLate ==
    /\ FeedReady
    /\ ~syncPending
    /\ held # 0
    /\ lagged
    /\ Judge(held, open /\ seq > Have + 1)
    /\ UNCHANGED <<roomVars, subVars, feedOn, since, pos, floor, cooling, clientVars>>

\* The item that ended a lag is not a drawing event and is parked while
\* drawing_seq waits for the room lock; the room may go on publishing.
FeedDecide ==
    /\ FeedReady
    /\ ~syncPending
    /\ held # 0
    /\ lagged
    /\ Judge(held, open /\ seq > Have)
    /\ UNCHANGED <<roomVars, subVars, feedOn, since, pos, floor, cooling, clientVars>>

\* RecvError::Closed, once the queue is drained.
FeedClosed ==
    /\ FeedReady
    /\ ~open
    /\ ~syncPending
    /\ held = 0
    /\ pos > Len(log)
    /\ feedOn' = FALSE
    /\ UNCHANGED <<roomVars, subVars, since, pos, floor, lastSeen, lagged, syncPending,
                   held, cooling, hand, clientVars>>

CoolDown ==
    /\ cooling
    /\ cooling' = FALSE
    /\ UNCHANGED <<roomVars, subVars, feedOn, since, pos, floor, lastSeen, lagged,
                   syncPending, held, hand, clientVars>>

-----------------------------------------------------------------------------
(* The client's bridge and store, then the forwarder that feeds them.      *)

\* useDrawingStore acceptSeq.
AcceptSeq(n) == n > clientSeq

\* useDrawingEventBridge: an event the store admits is applied.
BridgeEvent(n) ==
    /\ canvas' = IF AcceptSeq(n) THEN canvas \cup {n} ELSE canvas
    /\ clientSeq' = IF AcceptSeq(n) THEN n ELSE clientSeq

\* useDrawingStore applySnapshot: what the room drew up to n replaces what
\* the client had; its own strokes stay.
ApplySnapshot(n) ==
    /\ canvas' = canvas \cup (0 .. n)
    /\ clientSeq' = Larger(clientSeq, n)

\* The originator has the event already; a non-member is refused.
ForwardEvent ==
    LET i == hand.n IN
    /\ hand.kind = "event"
    /\ hand' = NoHand
    /\ \/ /\ log[i].own \/ ~log[i].draw
          /\ UNCHANGED clientVars
       \/ /\ log[i].draw /\ ~log[i].own
          /\ member /\ open
          /\ BridgeEvent(log[i].at)
          /\ UNCHANGED withheld
       \/ /\ log[i].draw /\ ~log[i].own
          /\ ~(member /\ open)
          /\ withheld' = withheld \cup {log[i].at}
          /\ UNCHANGED <<canvas, clientSeq>>
    /\ UNCHANGED <<roomVars, subVars, feedVars>>

ForwardSync ==
    /\ hand.kind = "sync"
    /\ hand' = NoHand
    /\ \/ /\ member /\ open
          /\ ApplySnapshot(hand.n)
          /\ UNCHANGED withheld
       \/ /\ ~(member /\ open)
          /\ withheld' = withheld \cup (0 .. hand.n)
          /\ UNCHANGED <<canvas, clientSeq>>
    /\ UNCHANGED <<roomVars, subVars, feedVars>>

-----------------------------------------------------------------------------

\* A member of a room some of whose drawing happened before, not yet
\* subscribed.
Init ==
    /\ open = TRUE
    /\ seq = Base
    /\ log = <<>>
    /\ member = TRUE
    /\ away = 0
    /\ subscribed = FALSE
    /\ mail = NoMail
    /\ feedOn = FALSE
    /\ since = 0
    /\ pos = 1
    /\ floor = 0
    /\ lastSeen = 0
    /\ lagged = FALSE
    /\ syncPending = FALSE
    /\ held = 0
    /\ cooling = FALSE
    /\ hand = NoHand
    /\ canvas = {}
    /\ clientSeq = 0
    /\ withheld = {}

FeedStep == FeedSync \/ FeedLagged \/ FeedRecv \/ FeedHeld \/ FeedDecide \/ FeedClosed

Forward == ForwardEvent \/ ForwardSync

Next ==
    \/ \E draw, own \in BOOLEAN : Publish(draw, own)
    \/ CloseRoom \/ PresenceTimeout \/ Revive
    \/ SyncSubscription \/ TakeSubscription
    \/ FeedStep \/ CoolDown \/ Forward

\* The forwarder task runs and the sleep of the rate limit ends.  Clients,
\* viewers and the room owe nothing.
Fairness ==
    /\ WF_vars(TakeSubscription)
    /\ WF_vars(FeedStep)
    /\ WF_vars(CoolDown)
    /\ WF_vars(Forward)

Spec == Init /\ [][Next]_vars /\ Fairness

-----------------------------------------------------------------------------
(* Properties.                                                             *)

\* The feed has nothing left to hand to the forwarder.
Drained ==
    /\ FeedReady
    /\ pos > Len(log)
    /\ ~lagged /\ ~syncPending /\ held = 0

\* The client never applies an event on top of a hole: everything below the
\* last event it applied since it subscribed was delivered, snapshotted or
\* refused first, so an undo cannot overtake its stroke (feed.rs next).
NoHole ==
    FeedReady => \A e \in since + 1 .. clientSeq : e \in canvas \cup withheld

\* No lag loses a drawing event, not for a while and not for good: besides
\* NoHole, a drained subscriber's canvas has every event since its
\* subscription, except those the member filter refused it (feed.rs next: the
\* harmless-lag tests and the snapshot).
NothingLost ==
    /\ NoHole
    /\ Drained /\ open => \A e \in since + 1 .. seq : e \in canvas \cup withheld

\* The client is never sent a drawing event its canvas already reflects by
\* a snapshot: a point would be appended twice (feed.rs draw_floor).
NoReplay ==
    hand.kind = "event" /\ log[hand.n].draw /\ ~log[hand.n].own =>
        log[hand.n].at > clientSeq

\* A subscriber that fell behind catches up when the room goes quiet,
\* whatever lags and snapshots it takes (feed.rs next, sync_pending).
CatchesUp == <>[](feedOn => Drained)

=============================================================================
