------------------------------- MODULE MCClient -------------------------------
(* The client's room, in parts checked side by side: its calls, tasks and     *)
(* waiters over a failing connection (ClientRoom), the manifests it publishes *)
(* and accepts (Manifests) and the clock skew its video is placed by (Drift). *)
(* A behaviour belongs to the part its first state names and leaves the       *)
(* variables of the others as they began.                                     *)
EXTENDS ClientRoom, Manifests, Drift

VARIABLE part

clientVars == <<part, vars, manifestVars, driftVars>>

ClientInit ==
    /\ part \in {"room", "manifests", "drift"}
    /\ Init /\ ManifestsInit /\ DriftInit
    /\ part # "room" => \A r \in Own : order[r] = 1  \* not theirs to vary

RoomPart      == part = "room" /\ Next /\ UNCHANGED <<part, manifestVars, driftVars>>
ManifestsPart == part = "manifests" /\ ManifestsNext /\ UNCHANGED <<part, vars, driftVars>>
DriftPart     == part = "drift" /\ DriftNext /\ UNCHANGED <<part, vars, manifestVars>>

ClientSpec == ClientInit /\ [][RoomPart \/ ManifestsPart \/ DriftPart]_clientVars

(* Rooms of other people are interchangeable.                                 *)
RoomSymmetry == Permutations(Joinable)
=============================================================================
