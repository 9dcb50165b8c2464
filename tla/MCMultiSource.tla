---------------------------- MODULE MCMultiSource ----------------------------
(* How one file is fetched, in three parts checked side by side: the          *)
(* connection of the host and a viewer that it comes over (PeerLink), the     *)
(* fetch from several peers (MultiSource), with two chunks, a window of two,  *)
(* a faulty first choice and an honest second, and from one over the loopback *)
(* pair (Session).  A behaviour belongs to the part its first state names and *)
(* leaves the variables of the others as they began.                          *)
EXTENDS MultiSource, Session, PeerLink

MCPriority == [s \in Sources |-> 0]

VARIABLE part

linkVars == <<peerVars, settled>>
fetchVars == <<part, vars, sessionVars, linkVars>>

FetchInit ==
    /\ part \in {"peer", "several", "one"}
    /\ PeerInit /\ Init /\ SessionInit
    /\ part # "one" => hash.size = Size                  \* not theirs to vary

PeerPart    == part = "peer" /\ PeerNext /\ UNCHANGED <<part, vars, sessionVars>>
SeveralPart == part = "several" /\ Next /\ UNCHANGED <<part, sessionVars, linkVars>>
OnePart     == part = "one" /\ SessionNext /\ UNCHANGED <<part, vars, linkVars>>

(* The fairness of each part, in the behaviours that are its own.             *)
FetchFairness ==
    /\ \A u \in Users: WF_peerVars(part = "peer" /\ LoopStep(u))
    /\ \A i \in PcIds:
        WF_peerVars(part = "peer" /\ i \in DOMAIN pcs /\ ConnectionStep(i))
    /\ WF_vars(part = "several" /\ Start)
    /\ WF_vars(part = "several" /\ Dispatch)
    /\ WF_vars(part = "several" /\ EndRefill)
    /\ WF_vars(part = "several" /\ Tick)
    /\ WF_vars(part = "several" /\ \E c \in Chunks: StuckChunk(c))
    /\ WF_vars(part = "several" /\ \E s \in Sources: Frame(s))
    /\ WF_vars(part = "several" /\ (MarkChunk \/ AllVerified \/ Assemble \/ Publish))
    /\ WF_vars(part = "several" /\ Reopen)
    /\ SF_vars(part = "several" /\ Recover)
    /\ \A s \in Sources: WF_vars(part = "several" /\ Serve(s))
    /\ WF_sessionVars(part = "one" /\ HashStep)
    /\ WF_sessionVars(part = "one" /\ RunReceiver)
    /\ WF_sessionVars(part = "one" /\ ReceiverStep)
    /\ WF_sessionVars(part = "one" /\ SenderStep)

FetchSpec == FetchInit /\ [][PeerPart \/ SeveralPart \/ OnePart]_fetchVars /\ FetchFairness

(* A viewer that stays ends up with an open channel that a sender serves,     *)
(* unless a leave, a lost signal or link or a wait of more than 30 s has left *)
(* a trace; and again after a rejoin, once no trace is left (host_dispatch.rs *)
(* and net/webrtc.rs).                                                        *)
ViewerServed == part = "peer" => ViewerIsServed

(* However the peers behave, a run of several sources comes to an end.        *)
RunEnds == part = "several" => Ends
=============================================================================
