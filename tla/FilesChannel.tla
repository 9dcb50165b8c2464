----------------------------- MODULE FilesChannel -----------------------------
(* The `files` data channel of two connected peers. Each end runs one receive *)
(* pump that reassembles segments into frames and routes a frame to the role  *)
(* that consumes its kind: the sender (serves this peer's library) or the     *)
(* requester (downloads from the other peer). Both roles of a peer write to   *)
(* the channel, one dc.send() per segment, each from a task of its own.       *)
(*                                                                            *)
(* The channel is reliable and ordered. A chunk frame takes SEGMENTS          *)
(* segments, any other frame one. What a frame says is left to MultiSource    *)
(* and Session; here it is its kind and its chunk.                            *)
EXTENDS Integers, Sequences, FiniteSets

CONSTANTS Ends,                     \* the two ends of the channel
          Scenarios,                \* per end, the chunks of the file it downloads
          SEGMENTS,                 \* segments of a chunk frame
          QUEUE_FRAMES,             \* INBOUND_QUEUE_FRAMES
          SLOTS,                    \* WINDOW_SIZE of the scheduler
          BUCKET,                   \* PER_PEER_BUCKET_CAPACITY
          MaxGiveUps                \* downloads their user cancels

ASSUME ChannelAssumption ==
    /\ \E p, q \in Ends: p # q /\ Ends = {p, q}
    /\ Scenarios \subseteq [Ends -> SUBSET Nat]
    /\ {SEGMENTS, QUEUE_FRAMES, SLOTS, BUCKET} \subseteq Nat \ {0}
    /\ MaxGiveUps \in Nat

FileChunks == UNION {UNION {w[p]: p \in Ends}: w \in Scenarios}
Roles == {"sender", "requester"}
Peer(p) == CHOOSE q \in Ends: q # p
NoFrame == [kind |-> "none"]

VARIABLES
    wanted,      \* what each end downloads
    channel,     \* open or closed
    segments,    \* segments on their way to each end
    assembly,    \* Reassembler.open of each end: [frame, received] or Nothing
    pump,        \* off, running, ended
    holding,     \* the frame route() waits to hand over, or Nothing
    reader,      \* per end and role: a transport reads it (is_taken)
    queue,       \* per end and role: its bounded queue
    writing,     \* per end and role: [frame, next] being sent, or Nothing
    server,      \* the sender task: waiting, hello, serve, gone
    serverHas,   \* its `have`
    client,      \* the download: idle, run, done, failed, cancelled
    held,        \* chunks it holds
    asked,       \* its scheduler's in_flight
    tokens,      \* its token bucket
    giveUps,
    mishaps      \* history: "mixed" once a segment went out while the other
                 \* role of its end had sent a part of a frame only, "unheard"
                 \* once a Hello came before the sender that should read it

channelVars == <<wanted, channel, segments, assembly, pump, holding, reader,
                 queue, writing, server, serverHas, client, held, asked, tokens,
                 giveUps, mishaps>>
scene == <<wanted, channel>>
ends == <<pump, holding, reader, queue, assembly>>
tasks == <<server, serverHas, client, held, asked, tokens>>

ChannelFrames == [kind: {"hello", "offer"}]
                 \cup [kind: {"request", "ack", "chunk"}, chunk: FileChunks]
Count(f) == IF f.kind = "chunk" THEN SEGMENTS ELSE 1
(* role_of_frame *)
RoleOf(f) == IF f.kind \in {"hello", "request", "ack"} THEN "sender"
                                                       ELSE "requester"

\* A segment on its way, a frame being put together, a frame being sent.
Segments == [frame: ChannelFrames, index: Nat]
Assemblies == [frame: ChannelFrames, received: Nat] \cup {NoFrame}
Writings == [frame: ChannelFrames, next: Nat] \cup {NoFrame}

ChannelTypeOK ==
    /\ wanted \in Scenarios /\ channel \in {"open", "closed", "violated"}
    /\ \A p \in Ends:
        /\ \A i \in DOMAIN segments[p]:
             segments[p][i].frame \in ChannelFrames /\ segments[p][i].index \in Nat
        /\ assembly[p] # NoFrame =>
             assembly[p].received \in 1..(Count(assembly[p].frame) - 1)
        /\ pump[p] \in {"off", "running", "ended"}
        /\ holding[p] \in ChannelFrames \cup {NoFrame}
        /\ reader[p] \in [Roles -> BOOLEAN]
        /\ \A r \in Roles: queue[p][r] \in Seq(ChannelFrames)
                           /\ Len(queue[p][r]) <= QUEUE_FRAMES
        /\ server[p] \in {"waiting", "hello", "serve", "gone"}
        /\ client[p] \in {"idle", "run", "done", "failed", "cancelled"}
        /\ serverHas[p] \subseteq FileChunks /\ held[p] \subseteq FileChunks
        /\ asked[p] \subseteq FileChunks /\ tokens[p] \in 0..BUCKET
    /\ giveUps \in 0..MaxGiveUps /\ mishaps \subseteq {"mixed", "unheard"}

-----------------------------------------------------------------------------
ChannelInit ==
    /\ wanted \in Scenarios
    /\ channel = "open" /\ giveUps = 0 /\ mishaps = {}
    /\ segments = [p \in Ends |-> <<>>]
    /\ assembly = [p \in Ends |-> NoFrame]
    /\ pump = [p \in Ends |-> "off"] /\ holding = [p \in Ends |-> NoFrame]
    /\ reader = [p \in Ends |-> [r \in Roles |-> FALSE]]
    /\ queue = [p \in Ends |-> [r \in Roles |-> <<>>]]
    /\ writing = [p \in Ends |-> [r \in Roles |-> NoFrame]]
    /\ server = [p \in Ends |-> "waiting"]
    /\ client = [p \in Ends |-> "idle"]
    /\ serverHas = [p \in Ends |-> {}] /\ held = [p \in Ends |-> {}]
    /\ asked = [p \in Ends |-> {}] /\ tokens = [p \in Ends |-> BUCKET]

(* WebRtcTransport::new_for: join the end's pump, starting it if it is the    *)
(* first; what an earlier reader of the role left is discarded.               *)
Attach(p, r) ==
    /\ pump' = [pump EXCEPT ![p] = IF @ = "off" THEN "running" ELSE @]
    /\ reader' = [reader EXCEPT ![p][r] = TRUE]
    /\ queue' = [queue EXCEPT ![p][r] = <<>>]
(* The transport is dropped; its queue stays.                                 *)
Detach(p, r) == reader' = [reader EXCEPT ![p][r] = FALSE]

(* Transport::send starts; the task goes on once the last segment is out.     *)
Write(p, r, f) == writing' = [writing EXCEPT ![p][r] = [frame |-> f, next |-> 0]]
Free(p, r) == writing[p][r] = NoFrame
Readable(p, r) == reader[p][r] /\ queue[p][r] # <<>> /\ Free(p, r)
Take(p, r) == queue' = [queue EXCEPT ![p][r] = Tail(@)]

HalfSent(p, r) == ~Free(p, r) /\ writing[p][r].next > 0

(* One dc.send(): segments of the two roles' frames go out in any order.      *)
SendSegment(p, r) ==
    /\ channel = "open" /\ ~Free(p, r)
    /\ LET w == writing[p][r] IN
       /\ segments' = [segments EXCEPT ![Peer(p)] =
                         Append(@, [frame |-> w.frame, index |-> w.next])]
       /\ writing' = [writing EXCEPT ![p][r] =
                        IF w.next + 1 = Count(w.frame) THEN NoFrame
                        ELSE [w EXCEPT !.next = @ + 1]]
    /\ mishaps' = IF \E o \in Roles \ {r}: HalfSent(p, o)
                  THEN mishaps \cup {"mixed"} ELSE mishaps
    /\ UNCHANGED <<scene, ends, tasks, giveUps>>

-----------------------------------------------------------------------------
(* Reassembler::push_inner: index 0 opens a frame and abandons an unfinished  *)
(* one; a continuation must be the next one of the open frame.                *)
Opened(p, s) == IF s.index = 0 THEN [frame |-> s.frame, received |-> 0]
                               ELSE assembly[p]
(* Mutant: a continuation is counted one too far.                             *)
AcceptableOff(p, s) ==
    LET o == Opened(p, s) IN
    /\ o # NoFrame
    /\ Count(o.frame) = Count(s.frame) /\ s.index \in {0, o.received + 1}
Acceptable(p, s) ==
    LET o == Opened(p, s) IN
    /\ o # NoFrame
    /\ Count(o.frame) = Count(s.frame) /\ o.received = s.index

(* The pump takes a segment. route() hands a whole frame to its role: skipped *)
(* without a reader, waited for while the queue is full.                      *)
PumpTake(p) ==
    /\ pump[p] = "running" /\ holding[p] = NoFrame /\ segments[p] # <<>>
    /\ LET s == Head(segments[p])
           o == Opened(p, s)
           r == RoleOf(s.frame) IN
       /\ Acceptable(p, s)
       /\ segments' = [segments EXCEPT ![p] = Tail(@)]
       /\ IF o.received + 1 < Count(s.frame)
          THEN /\ assembly' = [assembly EXCEPT ![p] = [o EXCEPT !.received = @ + 1]]
               /\ UNCHANGED holding
          ELSE /\ assembly' = [assembly EXCEPT ![p] = NoFrame]
               /\ holding' = [holding EXCEPT ![p] =
                                IF reader[p][r] THEN s.frame ELSE NoFrame]
       /\ mishaps' = IF s.frame.kind = "hello" /\ ~reader[p][r]
                     THEN mishaps \cup {"unheard"} ELSE mishaps
    /\ UNCHANGED <<scene, pump, reader, queue, writing, tasks, giveUps>>
PumpRoute(p) ==
    /\ pump[p] = "running" /\ holding[p] # NoFrame
    /\ LET r == RoleOf(holding[p]) IN
       /\ Len(queue[p][r]) < QUEUE_FRAMES
       /\ queue' = [queue EXCEPT ![p][r] = Append(@, holding[p])]
    /\ holding' = [holding EXCEPT ![p] = NoFrame]
    /\ UNCHANGED <<scene, segments, assembly, pump, reader, writing, tasks,
                   giveUps, mishaps>>

(* A segment that is refused closes the channel for everybody.                *)
PumpRefuse(p) ==
    /\ pump[p] = "running" /\ holding[p] = NoFrame /\ segments[p] # <<>>
    /\ ~Acceptable(p, Head(segments[p]))
    /\ channel' = "violated"
    /\ pump' = [pump EXCEPT ![p] = "ended"]
    /\ assembly' = [assembly EXCEPT ![p] = NoFrame]
    /\ UNCHANGED <<wanted, segments, holding, reader, queue, writing, tasks,
                   giveUps, mishaps>>
PumpEnd(p) ==
    /\ pump[p] = "running" /\ channel # "open" /\ holding[p] = NoFrame
    /\ pump' = [pump EXCEPT ![p] = "ended"]
    /\ UNCHANGED <<scene, segments, assembly, holding, reader, queue, writing,
                   tasks, giveUps, mishaps>>

-----------------------------------------------------------------------------
(* spawn_for_dc: the manifest is there, the sender attaches. run_sender and   *)
(* run_after_hello then answer what they read, one frame at a time.           *)
ServerAttach(p) ==
    /\ server[p] = "waiting" /\ channel = "open"
    /\ Attach(p, "sender") /\ server' = [server EXCEPT ![p] = "hello"]
    /\ UNCHANGED <<scene, segments, assembly, holding, writing, serverHas,
                   client, held, asked, tokens, giveUps, mishaps>>
ServerReads(p) ==
    /\ server[p] \in {"hello", "serve"} /\ Readable(p, "sender")
    /\ Take(p, "sender")
    /\ LET f == Head(queue[p]["sender"])
           has == serverHas[p] \cup (IF f.kind = "ack" THEN {f.chunk} ELSE {})
           over == \/ (server[p] = "hello") # (f.kind = "hello")
                    \/ has = wanted[Peer(p)] IN
       /\ serverHas' = [serverHas EXCEPT ![p] = has]
       /\ server' = [server EXCEPT ![p] = IF over THEN "gone" ELSE "serve"]
       /\ IF over THEN Detach(p, "sender") ELSE UNCHANGED reader
       /\ CASE f.kind = "hello" /\ ~over -> Write(p, "sender", [kind |-> "offer"])
            [] f.kind = "request" /\ ~over ->
                 Write(p, "sender",
                       [kind |-> IF f.chunk \in has THEN "ack" ELSE "chunk",
                        chunk |-> f.chunk])
            [] OTHER -> UNCHANGED writing
    /\ UNCHANGED <<scene, segments, assembly, pump, holding, client, held,
                   asked, tokens, giveUps, mishaps>>
(* The channel closed under it: recv() ends or a segment cannot be sent.      *)
ServerEnds(p) ==
    /\ server[p] # "gone" /\ channel # "open"
    /\ \/ server[p] = "waiting" \/ ~Free(p, "sender")
       \/ pump[p] = "ended" /\ queue[p]["sender"] = <<>>
    /\ server' = [server EXCEPT ![p] = "gone"] /\ Detach(p, "sender")
    /\ writing' = [writing EXCEPT ![p]["sender"] = NoFrame]
    /\ UNCHANGED <<scene, segments, assembly, pump, holding, queue, serverHas,
                   client, held, asked, tokens, giveUps, mishaps>>

-----------------------------------------------------------------------------
(* A download over the channel: Hello, then Requests as the scheduler's       *)
(* window and token bucket allow, an Ack for each chunk, and the channel is   *)
(* closed when the file is complete.                                          *)
ClientStart(p) ==
    /\ wanted[p] # {} /\ client[p] = "idle" /\ channel = "open"
    /\ Attach(p, "requester") /\ Write(p, "requester", [kind |-> "hello"])
    /\ client' = [client EXCEPT ![p] = "run"]
    /\ UNCHANGED <<scene, segments, assembly, holding, server, serverHas, held,
                   asked, tokens, giveUps, mishaps>>
(* try_acquire_slot and the Request it lets through.                          *)
ClientAsks(p, c) ==
    /\ client[p] = "run" /\ Free(p, "requester")
    /\ c \notin held[p] \cup asked[p]
    /\ Cardinality(asked[p]) < SLOTS /\ tokens[p] > 0
    /\ asked' = [asked EXCEPT ![p] = @ \cup {c}]
    /\ tokens' = [tokens EXCEPT ![p] = @ - 1]
    /\ Write(p, "requester", [kind |-> "request", chunk |-> c])
    /\ UNCHANGED <<scene, segments, ends, server, serverHas, client, held,
                   giveUps, mishaps>>
(* TokenBucket: a token per 1/16 s, up to its capacity.                       *)
Refill(p) ==
    /\ client[p] = "run" /\ tokens[p] < BUCKET
    /\ tokens' = [tokens EXCEPT ![p] = @ + 1]
    /\ UNCHANGED <<scene, segments, ends, writing, server, serverHas, client,
                   held, asked, giveUps, mishaps>>
(* Mutant: the slot of a chunk that arrived is not released.                  *)
ClientReadsHolds(p) ==
    /\ client[p] = "run" /\ Readable(p, "requester")
    /\ Take(p, "requester")
    /\ LET f == Head(queue[p]["requester"]) IN
       IF f.kind = "chunk"
       THEN /\ held' = [held EXCEPT ![p] = @ \cup {f.chunk}]
            /\ Write(p, "requester", [kind |-> "ack", chunk |-> f.chunk])
       ELSE UNCHANGED <<held, writing>>
    /\ UNCHANGED <<scene, segments, assembly, pump, holding, reader, server,
                   serverHas, client, asked, tokens, giveUps, mishaps>>

(* A chunk is stored, its slot released, and it is acknowledged.              *)
ClientReads(p) ==
    /\ client[p] = "run" /\ Readable(p, "requester")
    /\ Take(p, "requester")
    /\ LET f == Head(queue[p]["requester"]) IN
       IF f.kind = "chunk"
       THEN /\ held' = [held EXCEPT ![p] = @ \cup {f.chunk}]
            /\ asked' = [asked EXCEPT ![p] = @ \ {f.chunk}]
            /\ Write(p, "requester", [kind |-> "ack", chunk |-> f.chunk])
       ELSE UNCHANGED <<held, asked, writing>>
    /\ UNCHANGED <<scene, segments, assembly, pump, holding, reader, server,
                   serverHas, client, tokens, giveUps, mishaps>>
ClientDone(p) ==
    /\ client[p] = "run" /\ held[p] = wanted[p] /\ Free(p, "requester")
    /\ client' = [client EXCEPT ![p] = "done"] /\ Detach(p, "requester")
    /\ channel' = IF channel = "open" THEN "closed" ELSE channel
    /\ UNCHANGED <<wanted, segments, assembly, pump, holding, queue, writing, server,
                   serverHas, held, asked, tokens, giveUps, mishaps>>
ClientFails(p) ==
    /\ client[p] = "run" /\ channel # "open" /\ held[p] # wanted[p]
    /\ ~Free(p, "requester") \/ (pump[p] = "ended" /\ queue[p]["requester"] = <<>>)
    /\ client' = [client EXCEPT ![p] = "failed"] /\ Detach(p, "requester")
    /\ writing' = [writing EXCEPT ![p]["requester"] = NoFrame]
    /\ UNCHANGED <<scene, segments, assembly, pump, holding, queue, server,
                   serverHas, held, asked, tokens, giveUps, mishaps>>
(* Its user cancels: the transport is dropped, the channel stays.             *)
ClientGivesUp(p) ==
    /\ client[p] = "run" /\ Free(p, "requester") /\ held[p] # wanted[p]
    /\ giveUps < MaxGiveUps /\ giveUps' = giveUps + 1
    /\ client' = [client EXCEPT ![p] = "cancelled"] /\ Detach(p, "requester")
    /\ UNCHANGED <<scene, segments, assembly, pump, holding, queue, writing,
                   server, serverHas, held, asked, tokens, mishaps>>

-----------------------------------------------------------------------------
PumpStep(p) == PumpTake(p) \/ PumpRoute(p) \/ PumpRefuse(p) \/ PumpEnd(p)
ServerStep(p) == ServerAttach(p) \/ ServerReads(p) \/ ServerEnds(p)
ClientStep(p) ==
    \/ ClientStart(p) \/ (\E c \in wanted[p]: ClientAsks(p, c))
    \/ ClientReads(p) \/ ClientDone(p) \/ ClientFails(p)
ChannelNext ==
    \E p \in Ends: \/ PumpStep(p) \/ ServerStep(p) \/ ClientStep(p)
                   \/ Refill(p) \/ ClientGivesUp(p)
                   \/ \E r \in Roles: SendSegment(p, r)

(* Every task is polled by the runtime, and tokens come back with time.       *)
ChannelFairness ==
    \A p \in Ends: /\ WF_channelVars(PumpStep(p)) /\ WF_channelVars(ServerStep(p))
                   /\ WF_channelVars(ClientStep(p)) /\ WF_channelVars(Refill(p))
                   /\ \A r \in Roles: WF_channelVars(SendSegment(p, r))
ChannelSpec == ChannelInit /\ [][ChannelNext]_channelVars /\ ChannelFairness

-----------------------------------------------------------------------------
(* A segment is refused, and the channel closed for both roles of both ends,  *)
(* only after the two roles of one end mixed the segments of their frames:    *)
(* attaching, abandoned downloads and full queues never break a frame up.     *)
RefusedOnlyMixed == channel = "violated" => "mixed" \in mishaps

(* webrtc_transport.rs says of a refused segment that it is a violation by    *)
(* the peer and that "an honest sender never produces one".                   *)
HonestNeverRefused == channel # "violated"

(* One of the downloads is completed over the channel, however the queues,    *)
(* the window and the token bucket hold it up, as long as nobody cancels, no  *)
(* end mixed its segments and no Hello came before its reader.                *)
DownloadArrives ==
    <>(mishaps # {} \/ giveUps > 0 \/ \E p \in Ends: client[p] = "done")
=============================================================================
