--------------------------- MODULE MCRoomRegistry ---------------------------
(* A host and a viewer, one connection slot each, for TLC.                 *)
EXTENDS RoomRegistry, TLC

CONSTANTS c1, c3

OwnerTwo == c1 :> 1 @@ c3 :> 2
=============================================================================
