----------------------------- MODULE MCOverlay -----------------------------
(***************************************************************************)
(* What one participant puts over the film: strokes (Sketch) and the laser   *)
(* pointer (Laser), checked side by side.  A behaviour belongs to the part   *)
(* its first state names and leaves the variables of the other as they       *)
(* began.                                                                    *)
(***************************************************************************)
EXTENDS Sketch, Laser

VARIABLE part

overlayVars == <<part, sketchVars, laserVars>>

OverlayInit ==
    /\ part \in {"sketch", "laser"} /\ SketchInit /\ LaserInit
    /\ part # "sketch" => canDraw /\ undoCap

SketchPart == part = "sketch" /\ SketchNext /\ UNCHANGED <<part, laserVars>>
LaserPart == part = "laser" /\ LaserNext /\ UNCHANGED <<part, sketchVars>>

\* The fairness of each part, in the behaviours that are its own.
OverlayFairness ==
    /\ WF_sketchVars(part = "sketch" /\ StartSend)
    /\ WF_sketchVars(part = "sketch" /\ CommandSends)
    /\ WF_sketchVars(part = "sketch" /\ SendTimesOut)
    /\ WF_laserVars(part = "laser" /\ Tick)
    /\ WF_laserVars(part = "laser" /\ TimerFires)
    /\ WF_laserVars(part = "laser" /\ CallTimesOut)
    /\ WF_laserVars(part = "laser" /\ Arrives)
    /\ WF_laserVars(part = "laser" /\ Expire)
    /\ WF_laserVars(part = "laser" /\ Faded)

\* One call that never returns does not stop the strokes after it, and a laser
\* that is not held any more leaves the screen.
OverlaySettles == SketchDrains /\ LaserFades

OverlaySpec == OverlayInit /\ [][SketchPart \/ LaserPart]_overlayVars /\ OverlayFairness
=============================================================================
