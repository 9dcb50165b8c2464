------------------------------ MODULE MCFollower ------------------------------
(* A client that follows a room, in three parts checked side by side: its     *)
(* signaling link (Link), what the room's feed brings it (RoomFeed) and what  *)
(* its playback store and player make of it (Viewer).  A behaviour belongs to *)
(* the part its first state names and leaves the variables of the others as   *)
(* they began.                                                                *)
EXTENDS Link, RoomFeed, Viewer

VARIABLE part

partVars == <<part, linkVars, vars, viewerVars>>

PartsInit ==
    /\ part \in {"link", "feed", "viewer"}
    /\ LinkInit /\ Init /\ ViewerInit

LinkPart   == part = "link" /\ LinkNext /\ UNCHANGED <<part, vars, viewerVars>>
FeedPart   == part = "feed" /\ Next /\ UNCHANGED <<part, linkVars, viewerVars>>
ViewerPart == part = "viewer" /\ ViewerNext /\ UNCHANGED <<part, linkVars, vars>>

(* The fairness of each part, in the behaviours that are its own.             *)
PartsFairness ==
    /\ WF_linkVars(part = "link" /\ LoopStep)
    /\ WF_linkVars(part = "link" /\ WriteQueued)
    /\ WF_linkVars(part = "link" /\ IdleEnds)
    /\ WF_linkVars(part = "link" /\ Put)
    /\ \A c \in Conns : WF_linkVars(part = "link" /\ TaskStep(c))
    /\ WF_vars(part = "feed" /\ TakeSubscription)
    /\ WF_vars(part = "feed" /\ FeedStep)
    /\ WF_vars(part = "feed" /\ CoolDown)
    /\ WF_vars(part = "feed" /\ Forward)
    /\ WF_viewerVars(part = "viewer" /\ Connect)
    /\ WF_viewerVars(part = "viewer" /\ Deliver)
    /\ \A s \in Senders :
         WF_viewerVars(/\ part = "viewer"
                       /\ \E out \in SUBSET Senders : s \in out /\ TickDedup(out))
    /\ WF_viewerVars(part = "viewer" /\ Mount)
    /\ WF_viewerVars(part = "viewer" /\ MediaReady)
    /\ WF_viewerVars(part = "viewer" /\ ApplyEffect)
    /\ WF_viewerVars(part = "viewer" /\ DrainEffect)

PartsSpec == PartsInit /\ [][LinkPart \/ FeedPart \/ ViewerPart]_partVars /\ PartsFairness

(* Link: a client that keeps trying is authenticated again.                   *)
LinkComesBack == part = "link" => Reauthenticates

(* RoomFeed: a subscriber that fell behind catches up when the room is quiet. *)
FeedCatchesUp == part = "feed" => CatchesUp

(* Viewer: what the room did last reaches the video element in the end.       *)
ViewerCatchesUp == part = "viewer" => PlayerCatchesUp
=============================================================================
