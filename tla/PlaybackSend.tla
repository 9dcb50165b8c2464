---------------------------- MODULE PlaybackSend ----------------------------
(***************************************************************************)
(* One sender's playback commands, from the press of a button to the       *)
(* room's order: the client's numbering and its repair after a loss        *)
(* (apps/client/src-tauri/src/net/room.rs, PlaybackSeq), the connection    *)
(* that drops and comes back, and the server's check of the number         *)
(* (apps/server/src/rooms/playback.rs).                                    *)
(*                                                                         *)
(* A command is its action, its number and the press it came from; a       *)
(* number can change when commands are sent again, the press cannot.       *)
(* PAUSE and SEEK are one action, and Playing and Paused one state:        *)
(* nothing here tells them apart.  Positions and clocks are left out.      *)
(*                                                                         *)
(* A behaviour is one session of the client in a room that stays open: it  *)
(* ends when the client leaves or is told that it has no seat, and a later *)
(* room_join starts both counters over, which is Init again.               *)
(***************************************************************************)
EXTENDS Integers, Sequences, SequencesExt, Orders

CONSTANTS
    Window,      \* PLAYBACK_REPLAY_WINDOW
    MaxPresses,  \* bound: commands the user issues
    MaxDrops     \* bound: connections lost, a server restart included

ASSUME SendAssumption ==
    /\ Window \in Nat \ {0}
    /\ {MaxPresses, MaxDrops} \subseteq Nat

VARIABLES
    room,     \* server: started or still Open, last_acked_seq, seat and capability of the sender
    guest,    \* the client joined by code (active_room_code); a creator did not
    held,     \* client: the cached room summary is Some
    cl,       \* client: PlaybackSeq
    presses,  \* commands issued so far
    pend,     \* commands of send_playback that wait for the signaling lock, in order
    todo,     \* what resync_playback_seq still has to send again
    waiters,  \* rejoin requests in the pending map
    due,      \* the post-AUTH_OK hook has not sent its ROOM_JOIN_REQUEST yet
    link,     \* the signaling phase is Authenticated
    up,       \* frames under way to the server
    old,      \* frames of the lost connection its server task still reads
    down,     \* answers under way to the client's inbound loop
    drops,    \* connections lost so far
    forgot,   \* history: the server has forgotten this session's numbers
    astray,   \* history: a failed send took back another command's number
    last      \* history: the press of the command accepted last

clientVars == <<held, cl, presses, pend, todo, waiters, due>>
netVars    == <<link, up, old, down, drops>>
historyVars == <<forgot, astray, last>>
playbackVars == <<room, guest, clientVars, netVars, historyVars>>

PlaybackAction == {"Play", "PauseOrSeek"}
Sent    == [seq : Nat, act : PlaybackAction, press : Nat]
Frame   == Sent \cup [seq : {0}, act : {"Join"}, press : {0}]
Answer  == [code : {"StaleCommand", "InvalidState", "NotHost", "NotJoined",
                    "AlreadyJoined", "RoomJoined"},
            expected : Nat]

JoinRequest == [seq |-> 0, act |-> "Join", press |-> 0]
Reply(code, expected) == [code |-> code, expected |-> expected]

-----------------------------------------------------------------------------
(* PlaybackSeq: operators from a numbering to a numbering.  An expected    *)
(* number is at least 1, so replayedFor = 0 is None.                       *)

NewSeq == [next |-> 1, sent |-> <<>>, replayedFor |-> 0, known |-> 0]

\* Mutant: a new command does not allow the next replay.
NumberOnce(c, act, press) ==
    LET s == Append(c.sent, [seq |-> c.next, act |-> act, press |-> press]) IN
    [c EXCEPT !.next = @ + 1,
              !.sent = SubSeq(s, 1 + (IF Len(s) > Window THEN 1 ELSE 0), Len(s))]

\* PlaybackSeq::number: the commands remembered after one more.
Number(c, act, press) ==
    LET s == Append(c.sent, [seq |-> c.next, act |-> act, press |-> press]) IN
    [c EXCEPT !.next = @ + 1,
              !.sent = SubSeq(s, 1 + (IF Len(s) > Window THEN 1 ELSE 0), Len(s)),
              !.replayedFor = 0]

\* PlaybackSeq::give_back.
GiveBack(c, seq) ==
    IF c.next = seq + 1
    THEN [c EXCEPT !.next = seq,
                   !.sent = IF @ = <<>> THEN @ ELSE Front(@)]
    ELSE c

\* The remembered commands numbered `from` or later, in their order.
Missing(sent, from) == Retain(sent, {i \in DOMAIN sent : sent[i].seq >= from})

\* Mutant: the commands are sent again newest first.
AgainBackwards(sent, expected, stateRefusal) ==
    LET back == Reverse(Missing(sent, expected))
    IN  [i \in DOMAIN back |-> [back[i] EXCEPT !.seq = expected + i - 1]]

\* What plan_resync keeps of the remembered commands: those the server has
\* not taken, from the first PLAY on if the room's state was the reason,
\* numbered again from the number it expects.
Again(sent, expected, stateRefusal) ==
    LET missing == Missing(sent, expected)
        plays   == {i \in DOMAIN missing : missing[i].act = "Play"}
        first   == IF ~stateRefusal THEN 1
                   ELSE CHOOSE i \in 1 .. Len(missing) + 1 :
                          /\ i \in plays \cup {Len(missing) + 1}
                          /\ \A j \in plays : i <= j
        kept    == SubSeq(missing, first, Len(missing))
    IN  [i \in DOMAIN kept |-> [kept[i] EXCEPT !.seq = expected + i - 1]]

\* PlaybackSeq::plan_resync: the numbering after a rejection and what is
\* sent again.
PlanResync(c, expected, stateRefusal) ==
    LET told == [c EXCEPT !.known = expected] IN
    IF expected < c.known
    THEN [cl |-> c, resend |-> <<>>]
    ELSE IF c.sent = <<>> \/ Last(c.sent).seq < expected
    THEN [cl |-> [told EXCEPT !.next = expected], resend |-> <<>>]
    ELSE IF c.replayedFor = expected
    THEN [cl |-> told, resend |-> <<>>]
    ELSE LET again == Again(c.sent, expected, stateRefusal) IN
         [cl |-> [told EXCEPT !.next = expected + Len(again), !.sent = again,
                              !.replayedFor = expected],
          resend |-> again]

-----------------------------------------------------------------------------
(* The server: handle_playback_cmd and join, both under the room lock.     *)

\* The room's lifecycle lets the action through: PAUSE and SEEK need a room
\* that a PLAY has started, Playing or Paused.
Allowed(started, act) == started \/ act = "Play"

\* The answer to a frame; a command that is accepted has none.
Answers(r, f) ==
    IF f.act = "Join"
    THEN <<Reply(IF r.seat THEN "AlreadyJoined" ELSE "RoomJoined", 0)>>
    ELSE IF ~r.seat THEN <<Reply("NotJoined", 0)>>
    ELSE IF ~r.may THEN <<Reply("NotHost", 0)>>
    ELSE IF ~Allowed(r.started, f.act) THEN <<Reply("InvalidState", r.acked + 1)>>
    ELSE IF f.seq # r.acked + 1 THEN <<Reply("StaleCommand", r.acked + 1)>>
    ELSE <<>>

\* The room after a frame.  A join gives a seat with chat only and forgets
\* the sender's number; a refusal changes nothing.
AfterFrame(r, f) ==
    IF f.act = "Join"
    THEN IF r.seat THEN r
         ELSE [r EXCEPT !.seat = TRUE, !.may = FALSE, !.acked = 0]
    ELSE IF Answers(r, f) # <<>> THEN r
    ELSE [r EXCEPT !.started = TRUE, !.acked = f.seq]

Process(f) ==
    /\ room' = AfterFrame(room, f)
    /\ last' = IF f.act # "Join" /\ Answers(room, f) = <<>> THEN f.press ELSE last
    /\ forgot' = (forgot \/ room'.seat # room.seat)

\* The connection's task handles the next frame.
Serve ==
    /\ up # <<>>
    /\ Process(Head(up))
    /\ up' = Tail(up)
    /\ down' = down \o Answers(room, Head(up))
    /\ UNCHANGED <<guest, clientVars, link, old, drops, astray>>

\* The task of a lost connection still has frames to read; its answers go
\* nowhere.  It stops when it sees the close.
ServeLate ==
    /\ old # <<>>
    /\ \/ Process(Head(old)) /\ old' = Tail(old)
       \/ old' = <<>> /\ UNCHANGED <<room, last, forgot>>
    /\ UNCHANGED <<guest, clientVars, link, up, down, drops, astray>>

\* Somebody else's PLAY is accepted.
OtherPlay ==
    /\ ~room.started
    /\ room' = [room EXCEPT !.started = TRUE]
    /\ UNCHANGED <<guest, clientVars, netVars, historyVars>>

\* PERMISSION_SET gives or takes PLAYBACK_CONTROL; the host always has it.
SetPermission ==
    /\ guest /\ room.seat
    /\ room' = [room EXCEPT !.may = ~@]
    /\ UNCHANGED <<guest, clientVars, netVars, historyVars>>

\* The cleanup gives up on a guest who stays away.
Reap ==
    /\ guest /\ ~link /\ room.seat
    /\ room' = [room EXCEPT !.seat = FALSE]
    /\ old' = <<>>
    /\ UNCHANGED <<guest, clientVars, link, up, down, drops, historyVars>>

-----------------------------------------------------------------------------
(* The connection.                                                         *)

\* It drops: answers the client has not read yet are lost from some point on.
Drop ==
    /\ link /\ drops < MaxDrops
    /\ drops' = drops + 1
    /\ link' = FALSE
    /\ old' = up /\ up' = <<>>
    /\ \E k \in 0 .. Len(down) : down' = SubSeq(down, 1, k)
    /\ UNCHANGED <<room, guest, clientVars, historyVars>>

\* The server restarts: rehydration keeps seats and capabilities, and starts
\* every room Open with no sequence numbers.
Restart ==
    /\ drops < MaxDrops
    /\ drops' = drops + 1
    /\ link' = FALSE
    /\ old' = <<>> /\ up' = <<>>
    /\ \E k \in 0 .. Len(down) : down' = SubSeq(down, 1, k)
    /\ room' = [room EXCEPT !.started = FALSE, !.acked = 0]
    /\ forgot' = TRUE
    /\ UNCHANGED <<guest, clientVars, astray, last>>

\* AUTH_OK; the hook is spawned if there are credentials to join with.  A
\* resume retires the bearer that frames of the lost connection carry, and
\* they are refused; AUTH from scratch leaves it valid.
Reconnect ==
    /\ ~link
    /\ link' = TRUE
    /\ due' = (due \/ (guest /\ held))
    /\ old' \in {<<>>, old}
    /\ UNCHANGED <<room, guest, held, cl, presses, pend, todo, waiters,
                   up, down, drops, historyVars>>

-----------------------------------------------------------------------------
(* The client.                                                             *)

\* send_playback numbers the command ...
Press(act) ==
    /\ held /\ presses < MaxPresses
    /\ presses' = presses + 1
    /\ cl' = Number(cl, act, presses + 1)
    /\ pend' = Append(pend, [seq |-> cl.next, act |-> act, press |-> presses + 1])
    /\ UNCHANGED <<room, guest, held, todo, waiters, due, netVars, historyVars>>

\* Taking back the number of a command takes back that command.
GivesBackOwn(f) ==
    cl.next = f.seq + 1 => cl.sent # <<>> /\ Last(cl.sent).press = f.press

\* ... and hands it to the connection, or takes the number back.
Transmit ==
    /\ pend # <<>>
    /\ pend' = Tail(pend)
    /\ \/ link /\ up' = Append(up, Head(pend)) /\ UNCHANGED cl
       \/ ~link /\ cl' = GiveBack(cl, Head(pend).seq) /\ UNCHANGED up
    /\ astray' = (astray \/ (~link /\ ~GivesBackOwn(Head(pend))))
    /\ UNCHANGED <<room, guest, held, presses, todo, waiters, due,
                   link, old, down, drops, forgot, last>>

\* rejoin_active_room asks to join again.
SendRejoin ==
    /\ due /\ link /\ pend = <<>>
    /\ due' = FALSE
    /\ up' = Append(up, JoinRequest)
    /\ waiters' = waiters + 1
    /\ UNCHANGED <<room, guest, held, cl, presses, pend, todo,
                   link, old, down, drops, historyVars>>

\* A rejoin request times out.
Timeout ==
    /\ waiters > 0
    /\ waiters' = waiters - 1
    /\ UNCHANGED <<room, guest, held, cl, presses, pend, todo, due, netVars, historyVars>>

\* handle_inbound.  Any answer goes to a waiting rejoin first, whatever it
\* answers; only one nobody waits for reaches resync_playback_seq.
Inbound ==
    LET a    == Head(down)
        plan == PlanResync(cl, a.expected, a.code = "InvalidState")
    IN
    /\ todo = <<>> /\ down # <<>>
    /\ down' = Tail(down)
    /\ waiters' = IF waiters > 0 THEN waiters - 1 ELSE 0
    /\ \/ /\ a.code = "NotJoined"
          /\ held' = FALSE /\ cl' = NewSeq /\ UNCHANGED todo
       \/ /\ a.code \in {"StaleCommand", "InvalidState"} /\ waiters = 0
          /\ cl' = plan.cl
          /\ todo' = IF held THEN plan.resend ELSE <<>>
          /\ UNCHANGED held
       \/ /\ a.code \in {"StaleCommand", "InvalidState"} /\ waiters > 0
          /\ UNCHANGED <<held, cl, todo>>
       \/ /\ a.code \in {"NotHost", "AlreadyJoined"}
          /\ UNCHANGED <<held, cl, todo>>
       \/ /\ a.code = "RoomJoined"
          /\ held' = TRUE /\ UNCHANGED <<cl, todo>>
    /\ UNCHANGED <<room, guest, presses, pend, due, link, up, old, drops, historyVars>>

\* The loop of resync_playback_seq: one command sent again once the lock is
\* free, or the rest given up.
Resend ==
    /\ todo # <<>> /\ pend = <<>>
    /\ \/ link /\ up' = Append(up, Head(todo)) /\ todo' = Tail(todo)
       \/ ~link /\ todo' = <<>> /\ UNCHANGED up
    /\ UNCHANGED <<room, guest, held, cl, presses, pend, waiters, due,
                   link, old, down, drops, historyVars>>

-----------------------------------------------------------------------------
PlaybackInit ==
    /\ guest \in BOOLEAN
    /\ room = [started |-> FALSE, acked |-> 0, seat |-> TRUE, may |-> ~guest]
    /\ held = TRUE /\ cl = NewSeq /\ presses = 0 /\ pend = <<>> /\ todo = <<>>
    /\ waiters = 0 /\ due = FALSE
    /\ link = TRUE /\ up = <<>> /\ old = <<>> /\ down = <<>> /\ drops = 0
    /\ forgot = FALSE /\ astray = FALSE /\ last = 0

PlaybackNext ==
    \/ Serve \/ ServeLate \/ SetPermission \/ Reap
    \/ OtherPlay \/ Drop \/ Restart \/ Reconnect
    \/ \E act \in PlaybackAction : Press(act)
    \/ Transmit \/ SendRejoin \/ Timeout \/ Inbound \/ Resend

PlaybackSpec == PlaybackInit /\ [][PlaybackNext]_playbackVars

-----------------------------------------------------------------------------

\* The room's order keeps the user's order: as long as the server has not
\* forgotten the session and no failed send took back another command's
\* number, no command it accepts from the live connection is older than one
\* accepted before it, whatever was lost, refused or sent again with another
\* number.  A frame that is still read from a lost connection is excluded: its
\* number may have been given to a newer command since.
OrderKept == [][~forgot' /\ ~astray' /\ UNCHANGED old => last' >= last]_playbackVars

\* give_back (room.rs) says it takes back the number of a command that never
\* reached the wire.
TakesBackOwn == ~astray

\* Nothing is under way and the sender may send.
Quiet ==
    /\ link /\ held /\ up = <<>> /\ old = <<>> /\ down = <<>> /\ todo = <<>>
    /\ pend = <<>> /\ ~due /\ waiters = 0
    /\ room.seat /\ room.may

\* The answer to one more command, if it is refused, puts the numbering back
\* in step: what is sent again starts at the number the room expects with a
\* command it accepts, the next number follows, and a command refused for a
\* gap is among those sent again.
Repairs(act) ==
    LET c == Number(cl, act, presses + 1)
        a == Answers(room, Last(c.sent))
        p == PlanResync(c, room.acked + 1, ~Allowed(room.started, act))
    IN  a # <<>> =>
          /\ p.cl.next = room.acked + 1 + Len(p.resend)
          /\ \A i \in DOMAIN p.resend : p.resend[i].seq = room.acked + i
          /\ p.resend # <<>> => Allowed(room.started, p.resend[1].act)
          /\ Allowed(room.started, act) /\ cl.next > room.acked + 1 =>
                p.resend # <<>> /\ Last(p.resend).press = presses + 1

\* A lost command silences nobody: in a quiet session whose numbers the
\* server remembers, one more command of any kind repairs the numbering; in a
\* room that has not started, one more PAUSE or SEEK does.
OneAnswerRepairs ==
    Quiet /\ ~forgot =>
        \A act \in PlaybackAction : (~room.started /\ act = "Play") \/ Repairs(act)

=============================================================================
