-------------------------------- MODULE MCFiles --------------------------------
(* Instance of FilesChannel: two ends, and the downloads they want.           *)
EXTENDS FilesChannel, TLC

CONSTANTS p1, p2

(* Three chunks one way, and one chunk each way.                              *)
MCScenarios == {(p1 :> {0, 1, 2}) @@ (p2 :> {}), (p1 :> {0}) @@ (p2 :> {0})}
=============================================================================
