------------------------------- MODULE PeerLink -------------------------------
(* The WebRTC connection between the host and one viewer, as WebRtcManager of  *)
(* each side negotiates it, and the host's dispatcher that serves the `files`  *)
(* channel: the 200 ms poll of the room state, signals relayed by the server,  *)
(* signals stashed until the peer is known, the pump of each peer connection,  *)
(* one ICE restart, members leaving and rejoining, and the sender slot.        *)
(*                                                                             *)
(* A signal names the peer connection it comes from: what the SDP carries. The *)
(* candidates of a description follow it on the same ordered path, and only    *)
(* the description is modelled. The peer connection itself is external: it     *)
(* connects two ends that hold each other's description.                       *)
EXTENDS Integers, Sequences, FiniteSets

CONSTANTS Host, Viewer,            \* user ids, naturals
          EARLY_SIGNALS_PER_PEER,
          ICE_RESTART_LIMIT,
          MaxPcs,                  \* peer connections built in all
          MaxLosses                \* leaves, lost signals, lost links and waits
                                   \* that outlast their 30 s, in all

Users == {Host, Viewer}

ASSUME PeerLinkAssumption ==
    /\ Users \subseteq Nat /\ Host # Viewer
    /\ {EARLY_SIGNALS_PER_PEER, ICE_RESTART_LIMIT, MaxPcs, MaxLosses} \subseteq Nat

Other(u) == IF u = Host THEN Viewer ELSE Host
Initiator(u) == u < Other(u)
NoPc == 0
NoEntry == [pc |-> NoPc, restarts |-> 0, dc |-> FALSE]

VARIABLES
    member,    \* room members at the server
    seen,      \* last_signature of each side's poll: out, alone or both
    entry,     \* ManagerState.peers: the entry for the other side
    early,     \* ManagerState.early
    rx,        \* signals relayed and not yet read
    pcs,       \* every peer connection built so far
    linked,    \* peer connections whose `files` channel is open
    manifest,  \* the host has a verified manifest for its room
    waiting,   \* spawn_for_dc calls of the host, by peer connection and stage
    live,      \* the viewer has an entry in the dispatcher's `live` map
    senders,   \* run_sender tasks, by peer connection
    halted,    \* those whose cancel token has fired
    losses,
    settled    \* auxiliary: how many of the losses no trace is left of

manager == <<seen, entry, early>>
dispatch == <<manifest, waiting, live, senders, halted>>
peerVars == <<member, seen, entry, early, rx, pcs, linked, manifest, waiting,
          live, senders, halted, losses>>

PcIds == 1..MaxPcs
Signals == [kind: {"offer", "answer"}, pc: PcIds]
Pcs == [owner: Users, remote: PcIds \cup {NoPc}, closed: BOOLEAN,
        events: SUBSET {"failed", "closed", "channel"}, pump: BOOLEAN]
Stages == {"open", "manifest", "reserve"}

PeerTypeOK ==
    /\ member \subseteq Users
    /\ seen \in [Users -> {"out", "alone", "both"}]
    /\ entry \in [Users -> [pc: PcIds \cup {NoPc}, restarts: Nat, dc: BOOLEAN]]
    /\ early \in [Users -> Seq(Signals)]
    /\ rx \in [Users -> Seq(Signals)]
    /\ pcs \in Seq(Pcs) /\ Len(pcs) <= MaxPcs
    /\ linked \subseteq PcIds
    /\ manifest \in BOOLEAN
    /\ waiting \subseteq (PcIds \X Stages)
    /\ live \in BOOLEAN /\ senders \subseteq PcIds /\ halted \subseteq PcIds
    /\ losses \in 0..MaxLosses /\ settled \in 0..losses

PeerInit ==
    /\ member = {} /\ seen = [u \in Users |-> "out"]
    /\ entry = [u \in Users |-> NoEntry]
    /\ early = [u \in Users |-> <<>>] /\ rx = early
    /\ pcs = <<>> /\ linked = {}
    /\ manifest = FALSE /\ waiting = {} /\ live = FALSE /\ senders = {} /\ halted = {}
    /\ losses = 0 /\ settled = 0

Loss == losses < MaxLosses /\ losses' = losses + 1

Signal(kind, pc) == [kind |-> kind, pc |-> pc]

(* handle_signal and SignalRelay: both ends must be members, or the signal is *)
(* dropped; the sender only logs it.                                          *)
Relayed(queues, from, signal) ==
    IF Users \subseteq member
    THEN [queues EXCEPT ![Other(from)] = Append(@, signal)] ELSE queues

(* close(): the channel goes with the connection, and the pump of the         *)
(* connection is told.                                                        *)
Closed(table, pc) ==
    IF pc = NoPc THEN table
    ELSE [table EXCEPT ![pc].closed = TRUE, ![pc].events = @ \cup {"closed"}]
Unlinked(pc) == IF pc = NoPc THEN linked ELSE linked \ {pc, pcs[pc].remote}

-----------------------------------------------------------------------------
(* Membership. What RoomClient::state() shows follows it; a poll that lags    *)
(* stands for the delay of both.                                              *)
Join(u) ==
    /\ u \notin member
    /\ member' = member \cup {u}
    /\ UNCHANGED <<manager, rx, pcs, linked, dispatch, losses>>

Leave(u) ==
    /\ u \in member /\ Loss
    /\ member' = member \ {u}
    /\ manifest' = (manifest /\ u # Host)
    /\ UNCHANGED <<manager, rx, pcs, linked, waiting, live, senders, halted>>

Actual(u) == IF u \notin member THEN "out"
             ELSE IF Users \subseteq member THEN "both" ELSE "alone"

-----------------------------------------------------------------------------
(* A description, applied to the entry's connection: the table of connections *)
(* after it and the signals sent. An offer to the initiator (glare), an       *)
(* answer to the answerer and an answer nobody waits for are errors: logged,  *)
(* and nothing changes.                                                       *)
Apply(u, pc, signal, st) ==
    CASE signal.kind = "offer" /\ ~Initiator(u) ->
             [table |-> [st.table EXCEPT ![pc].remote = signal.pc],
              out |-> Append(st.out, Signal("answer", pc))]
      [] signal.kind = "answer" /\ Initiator(u) /\ st.table[pc].remote = NoPc ->
             [st EXCEPT !.table[pc].remote = signal.pc]
      [] OTHER -> st

ApplyAll(u, pc, signals, table) ==
    LET f[n \in 0..Len(signals)] ==
            IF n = 0 THEN [table |-> table, out |-> <<>>]
            ELSE Apply(u, pc, signals[n], f[n - 1])
    IN  f[Len(signals)]

(* add_peer: the initiator creates the channel, hands it to the dispatcher    *)
(* and offers; then the entry is inserted and the stash is replayed.          *)
NewPc(u) == [owner |-> u, remote |-> NoPc, closed |-> FALSE, events |-> {},
             pump |-> TRUE]

AddPeer(u, table) ==
    LET pc == Len(table) + 1
        st == ApplyAll(u, pc, early[u], Append(table, NewPc(u)))
        out == (IF Initiator(u) THEN <<Signal("offer", pc)>> ELSE <<>>) \o st.out
    IN  /\ pcs' = st.table
        /\ entry' = [entry EXCEPT ![u] = [pc |-> pc, restarts |-> 0,
                                          dc |-> Initiator(u)]]
        /\ early' = [early EXCEPT ![u] = <<>>]
        /\ rx' = IF Users \subseteq member
                 THEN [rx EXCEPT ![Other(u)] = @ \o out] ELSE rx
        /\ waiting' = IF Initiator(u) /\ u = Host
                      THEN waiting \cup {<<pc, "open">>} ELSE waiting

(* on_room_left: pumps stop, senders are cancelled, the table is drained.     *)
RoomLeft(u) ==
    LET table == Closed(pcs, entry[u].pc)
    IN  /\ pcs' = [i \in DOMAIN table |->
                      IF table[i].owner = u THEN [table[i] EXCEPT !.pump = FALSE]
                      ELSE table[i]]
        /\ linked' = Unlinked(entry[u].pc)
        /\ entry' = [entry EXCEPT ![u] = NoEntry]
        /\ early' = [early EXCEPT ![u] = <<>>]
        /\ halted' = IF u = Host THEN senders ELSE halted
        /\ UNCHANGED <<rx, waiting>>

(* on_room_state_changed: drop who left, add who is new.                      *)
StateChanged(u) ==
    /\ UNCHANGED halted
    /\ \/ /\ Actual(u) = "alone" /\ entry[u].pc # NoPc
          /\ pcs' = Closed(pcs, entry[u].pc) /\ linked' = Unlinked(entry[u].pc)
          /\ entry' = [entry EXCEPT ![u] = NoEntry]
          /\ UNCHANGED <<early, rx, waiting>>
       \/ /\ Actual(u) = "both" /\ entry[u].pc = NoPc
          /\ Len(pcs) < MaxPcs
          /\ AddPeer(u, pcs) /\ UNCHANGED linked
       \/ /\ IF Actual(u) = "alone" THEN entry[u].pc = NoPc ELSE entry[u].pc # NoPc
          /\ UNCHANGED <<pcs, linked, entry, early, rx, waiting>>

Poll(u) ==
    /\ Actual(u) # seen[u]
    /\ seen' = [seen EXCEPT ![u] = Actual(u)]
    /\ IF Actual(u) = "out" THEN RoomLeft(u) ELSE StateChanged(u)
    /\ UNCHANGED <<member, manifest, live, senders, losses>>

(* handle_inbound_signal: one of a peer without an entry is stashed, checked  *)
(* under the lock that inserts entries.                                       *)
Inbound(u) ==
    /\ rx[u] # <<>>
    /\ LET signal == Head(rx[u])
           read == [rx EXCEPT ![u] = Tail(@)]
           st == Apply(u, entry[u].pc, signal, [table |-> pcs, out |-> <<>>])
       IN  IF entry[u].pc = NoPc
           THEN /\ early' = IF Len(early[u]) < EARLY_SIGNALS_PER_PEER
                            THEN [early EXCEPT ![u] = Append(@, signal)] ELSE early
                /\ rx' = read /\ UNCHANGED pcs
           ELSE /\ pcs' = st.table
                /\ rx' = IF st.out = <<>> THEN read
                         ELSE Relayed(read, u, Head(st.out))
                /\ UNCHANGED early
    /\ UNCHANGED <<member, seen, entry, linked, dispatch, losses>>

(* The recipient's connection is down or its queue full: the signal is lost,  *)
(* and nobody sends it again.                                                 *)
LoseSignal(u) ==
    /\ rx[u] # <<>> /\ Loss
    /\ rx' = [rx EXCEPT ![u] = Tail(@)]
    /\ UNCHANGED <<member, manager, pcs, linked, dispatch>>

(* EARLY_SIGNAL_TTL: a stash that outlives its 30 s is dropped, by the next   *)
(* one to be stashed or by add_peer. Nobody looks at it in between, so it is  *)
(* gone when its time is up.                                                  *)
EarlyExpires(u) ==
    /\ early[u] # <<>> /\ Loss
    /\ early' = [early EXCEPT ![u] = <<>>]
    /\ UNCHANGED <<member, seen, entry, rx, pcs, linked, dispatch>>

-----------------------------------------------------------------------------
(* The connection (external) and its events, forwarded by the pump of the     *)
(* connection to whatever entry the peer has then.                            *)
Connect(i) ==
    LET j == pcs[i].remote
    IN  /\ i \notin linked /\ j # NoPc /\ pcs[j].remote = i
        /\ Initiator(pcs[i].owner)
        /\ ~pcs[i].closed /\ ~pcs[j].closed
        /\ "failed" \notin pcs[i].events \cup pcs[j].events
        /\ linked' = linked \cup {i, j}
        /\ pcs' = [pcs EXCEPT ![j].events = @ \cup {"channel"}]
        /\ UNCHANGED <<member, manager, rx, dispatch, losses>>

(* The network, or the other end's close, breaks a link.                      *)
LinkFails(i) ==
    /\ pcs[i].remote # NoPc /\ ~pcs[i].closed /\ i \notin linked
    /\ "failed" \notin pcs[i].events
    /\ pcs[pcs[i].remote].closed
    /\ pcs' = [pcs EXCEPT ![i].events = @ \cup {"failed"}]
    /\ UNCHANGED <<member, manager, rx, linked, dispatch, losses>>

NetworkFails(i) ==
    /\ i \in linked /\ Loss
    /\ linked' = linked \ {i, pcs[i].remote}
    /\ pcs' = [j \in DOMAIN pcs |->
                  IF j \in {i, pcs[i].remote}
                  THEN [pcs[j] EXCEPT !.events = @ \cup {"failed"}] ELSE pcs[j]]
    /\ UNCHANGED <<member, manager, rx, dispatch>>

(* on_inbound_data_channel.                                                   *)
Channel(i) ==
    LET u == pcs[i].owner
    IN  /\ "channel" \in pcs[i].events /\ pcs[i].pump
        /\ pcs' = [pcs EXCEPT ![i].events = @ \ {"channel"}]
        /\ entry' = IF entry[u].pc = NoPc THEN entry ELSE [entry EXCEPT ![u].dc = TRUE]
        /\ waiting' = IF u = Host THEN waiting \cup {<<i, "open">>} ELSE waiting
        /\ UNCHANGED <<member, seen, early, rx, linked, manifest, live,
                       senders, halted, losses>>

(* on_connection_state: Failed restarts ICE once and then closes, Closed      *)
(* removes. A restart sends no offer.                                         *)
RemoveEntry(u, table) ==
    /\ pcs' = Closed(table, entry[u].pc)
    /\ linked' = Unlinked(entry[u].pc)
    /\ entry' = [entry EXCEPT ![u] = NoEntry]

StateEvent(i, event) ==
    LET u == pcs[i].owner
        rest == [pcs EXCEPT ![i].events = @ \ {event}]
    IN  /\ event \in pcs[i].events \cap {"failed", "closed"} /\ pcs[i].pump
        /\ \/ /\ entry[u].pc = NoPc
              /\ pcs' = rest /\ UNCHANGED <<entry, linked>>
           \/ /\ entry[u].pc # NoPc /\ event = "failed"
              /\ entry[u].restarts < ICE_RESTART_LIMIT
              /\ pcs' = rest /\ entry' = [entry EXCEPT ![u].restarts = @ + 1]
              /\ UNCHANGED linked
           \/ /\ entry[u].pc # NoPc
              /\ event = "closed" \/ entry[u].restarts >= ICE_RESTART_LIMIT
              /\ RemoveEntry(u, rest)
        /\ UNCHANGED <<member, seen, early, rx, dispatch, losses>>

-----------------------------------------------------------------------------
(* The host's dispatcher.                                                     *)
Share ==
    /\ Host \in member /\ ~manifest /\ manifest' = TRUE
    /\ UNCHANGED <<member, manager, rx, pcs, linked, waiting, live, senders, halted, losses>>

Moved(i, from, to) == waiting' = (waiting \ {<<i, from>>}) \cup {<<i, to>>}
Gone(i, from) == waiting' = waiting \ {<<i, from>>}

(* Wait for Open, then drop a channel whose peer already has a live sender.   *)
ChannelOpens(i) ==
    /\ <<i, "open">> \in waiting
    /\ \/ i \in linked /\ ~live /\ Moved(i, "open", "manifest")
       \/ i \in linked /\ live /\ Gone(i, "open")
       \/ pcs[i].closed /\ Gone(i, "open")
    /\ UNCHANGED <<member, manager, rx, pcs, linked, manifest, live, senders,
                   halted, losses>>

(* open_deadline: a channel that is still connecting after 30 s is given up.  *)
(* The call returns, and no other one looks at this channel again, though it  *)
(* may open later.                                                            *)
OpenTimesOut(i) ==
    /\ <<i, "open">> \in waiting /\ i \notin linked /\ ~pcs[i].closed /\ Loss
    /\ Gone(i, "open")
    /\ UNCHANGED <<member, manager, rx, pcs, linked, manifest, live, senders, halted>>

(* Mutant: a channel that opens before there is a manifest is dropped.        *)
ManifestReadyNow(i) ==
    /\ <<i, "manifest">> \in waiting
    /\ \/ manifest /\ Moved(i, "manifest", "reserve")
       \/ ~manifest /\ Gone(i, "manifest")
    /\ UNCHANGED <<member, manager, rx, pcs, linked, manifest, live, senders,
                   halted, losses>>

(* Hold the channel until a manifest is cached; the recheck looks at the      *)
(* channel, the wake-up does not.                                             *)
ManifestReady(i) ==
    /\ <<i, "manifest">> \in waiting
    /\ \/ manifest /\ Moved(i, "manifest", "reserve")
       \/ ~manifest /\ i \notin linked /\ Gone(i, "manifest")
    /\ UNCHANGED <<member, manager, rx, pcs, linked, manifest, live, senders,
                   halted, losses>>

(* Look again under the lock, take the slot, start the sender.                *)
Reserve(i) ==
    /\ <<i, "reserve">> \in waiting /\ Gone(i, "reserve")
    /\ \/ ~live /\ live' = TRUE /\ senders' = senders \cup {i}
       \/ live /\ UNCHANGED <<live, senders>>
    /\ UNCHANGED <<member, manager, rx, pcs, linked, manifest, halted, losses>>

(* run_sender ends: its channel is closed or its token fired. The slot goes   *)
(* by the peer's name.                                                        *)
SenderEnds(i) ==
    /\ i \in senders /\ (i \notin linked \/ i \in halted)
    /\ senders' = senders \ {i} /\ halted' = halted \ {i}
    /\ live' = FALSE
    /\ UNCHANGED <<member, manager, rx, pcs, linked, manifest, waiting, losses>>

-----------------------------------------------------------------------------
LoopStep(u) == Poll(u) \/ Inbound(u)
ConnectionStep(i) ==
    \/ Connect(i) \/ Channel(i)
    \/ \E event \in {"failed", "closed"}: StateEvent(i, event)
    \/ ChannelOpens(i) \/ ManifestReady(i) \/ Reserve(i) \/ SenderEnds(i)

PeerStep ==
    \/ Share
    \/ \E u \in Users:
        LoopStep(u) \/ Join(u) \/ Leave(u) \/ LoseSignal(u) \/ EarlyExpires(u)
    \/ \E i \in DOMAIN pcs:
        ConnectionStep(i) \/ LinkFails(i) \/ NetworkFails(i) \/ OpenTimesOut(i)

(* Both sides have noticed that they were apart: no entry is left and nothing *)
(* is on its way, neither a signal nor an event of a pump that still runs nor *)
(* a call of the dispatcher. What was lost before is then over.               *)
Apart ==
    /\ \A u \in Users: /\ seen[u] # "both" /\ entry[u] = NoEntry
                      /\ rx[u] = <<>> /\ early[u] = <<>>
    /\ \A i \in DOMAIN pcs: pcs[i].pump => pcs[i].events = {}
    /\ waiting = {} /\ senders = {}

PeerNext == PeerStep /\ settled' = IF Apart' THEN losses' ELSE settled

(* Each inbound loop, and the pump and the dispatcher calls of a connection,  *)
(* are tasks the runtime polls; the host and the viewer do not have to do     *)
(* anything. A connection makes finitely many steps, so that one condition    *)
(* for all of them is enough.                                                 *)
PeerFairness ==
    /\ \A u \in Users: WF_peerVars(LoopStep(u))
    /\ \A i \in PcIds: WF_peerVars(i \in DOMAIN pcs /\ ConnectionStep(i))

PeerSpec == PeerInit /\ [][PeerNext]_<<peerVars, settled>> /\ PeerFairness

-----------------------------------------------------------------------------
Serves(i) ==
    /\ i \in senders \cap linked
    /\ entry[Host].pc = i /\ entry[Viewer].pc = pcs[i].remote /\ entry[Viewer].dc

(* Whichever side polls first, in whatever order the joins, the offer, the    *)
(* answer, the channel and the host's manifest come, a viewer that stays ends *)
(* up with an open channel that a sender serves. A leave, a lost signal or    *)
(* link, or a wait of more than 30 s excuses the host until both sides have   *)
(* noticed that they were apart, and no longer: after a rejoin, and a manifest *)
(* published anew, the viewer is served again.                                *)
Served == \E i \in PcIds: Serves(i)
Expected == Users \subseteq member /\ manifest

ViewerIsServed == Expected ~> (Served \/ ~Expected \/ losses > settled)

=============================================================================
