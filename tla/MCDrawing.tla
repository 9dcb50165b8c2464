----------------------------- MODULE MCDrawing -----------------------------
(***************************************************************************)
(* What the members of a room send and the server puts in order, in three    *)
(* parts checked side by side: the strokes and a watcher's canvas (Drawing), *)
(* one sender's playback commands (PlaybackSend), and the limiter every      *)
(* frame of a connection passes first (Admission).  A behaviour belongs to   *)
(* the part its first state names and leaves the variables of the others as  *)
(* they began.                                                               *)
(***************************************************************************)
EXTENDS Drawing, PlaybackSend, Admission

\* Rates and bursts of a few frames, so that a short run reaches their limits.
SmallRate == [k \in Buckets |-> CASE k = "msg" -> 400 [] k = "bytes" -> 700 [] k = "laser" -> 300]
SmallBurst == [k \in Buckets |-> CASE k = "msg" -> 2 [] k = "bytes" -> 3 [] k = "laser" -> 1]
\* The clock is the wall clock and may be set back.
SmallSteps == {1, 3, -1}

VARIABLE part

sentVars == <<part, vars, playbackVars, admissionVars>>

SentInit ==
    /\ part \in {"drawing", "playback", "admission"}
    /\ Init /\ PlaybackInit /\ AdmissionInit
    /\ part # "playback" => ~guest

DrawingPart == part = "drawing" /\ Next /\ UNCHANGED <<part, playbackVars, admissionVars>>
PlaybackPart == part = "playback" /\ PlaybackNext /\ UNCHANGED <<part, vars, admissionVars>>
AdmissionPart == part = "admission" /\ AdmissionNext /\ UNCHANGED <<part, vars, playbackVars>>

SentSpec == SentInit /\ [][DrawingPart \/ PlaybackPart \/ AdmissionPart]_sentVars
=============================================================================
