----------------------------- MODULE Allowance -----------------------------
(***************************************************************************)
(* What the quota promises a storage account: one number of chunks left,    *)
(* from which a transfer takes its own when its initiate is granted, and to *)
(* which it gives them back once, when it is given up or ends.  A transfer  *)
(* that is over is not granted again.                                       *)
(***************************************************************************)
EXTENDS Integers

CONSTANTS Sessions, Chunks, Limit

VARIABLES standing, left

avars == <<standing, left>>

AInit == standing = [t \in Sessions |-> "none"] /\ left = Limit

Goes(t, s) == standing' = [standing EXCEPT ![t] = s]

Grant(t) == standing[t] = "none" /\ Chunks[t] <= left /\ Goes(t, "granted") /\ left' = left - Chunks[t]

Withdraw(t) == standing[t] = "granted" /\ Goes(t, "none") /\ left' = left + Chunks[t]

Store(t) == standing[t] = "granted" /\ Goes(t, "stored") /\ UNCHANGED left

\* It is deleted, or the session it would be uploaded in passes.
End(t) ==
  /\ standing[t] # "over" /\ Goes(t, "over")
  /\ left' = IF standing[t] = "none" THEN left ELSE left + Chunks[t]

ANext == \E t \in Sessions : Grant(t) \/ Withdraw(t) \/ Store(t) \/ End(t)

ASpec == AInit /\ [][ANext]_avars
=============================================================================
