----------------------------- MODULE Lifecycle ------------------------------
(***************************************************************************)
(* What the deletion machinery promises of one transfer, whatever requests  *)
(* and sweeps act on it: it goes forward through its phases and never back, *)
(* a finalised transfer is not lost without having been ended, and the      *)
(* quota it holds is given back at most once, after its end.                *)
(***************************************************************************)
VARIABLES phase, credited

lvars == <<phase, credited>>

LInit == phase = "uploading" /\ credited = FALSE

Finalise == phase = "uploading" /\ phase' = "complete" /\ UNCHANGED credited

\* The live -> consumed transition.
End == phase \in {"uploading", "complete"} /\ phase' = "ending" /\ UNCHANGED credited

Credit == phase \in {"ending", "ended", "forgotten"} /\ ~credited /\ credited' = TRUE /\ UNCHANGED phase

\* The leftover record is written; one writer may come after a stale upload's
\* manifest was swept away under it.
Finish == phase \in {"ending", "forgotten"} /\ phase' = "ended" /\ UNCHANGED credited

\* The record goes: never that of a finalised transfer that is still live.
Forget == phase \in {"uploading", "ending", "ended"} /\ phase' = "forgotten" /\ UNCHANGED credited

LNext == Finalise \/ End \/ Credit \/ Finish \/ Forget

LSpec == LInit /\ [][LNext]_lvars
=============================================================================
