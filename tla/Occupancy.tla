----------------------------- MODULE Occupancy ------------------------------
(***************************************************************************)
(* A quota account over the life of its transfers.  The transfer's manifest *)
(* lives in R2 and the account in Supabase, so every change of the one is   *)
(* followed, a call later, by the change of the other: initiate reserves    *)
(* before it creates, finalise completes before it converts, a deletion     *)
(* latches before it releases.  The nightly reconcile recomputes the        *)
(* account from a scan of the manifests.                                    *)
(***************************************************************************)
EXTENDS Ledger

CONSTANTS
  Tries,   \* quota conversions finalise tries (4 in the code)
  Slow,    \* calls that may be overtaken: a "release" by the reconcile's write, a
           \* "convert" by the end of the upload session
  Lossy    \* calls that may be lost: "release", "convert", "create"

ASSUME OccupancyAssumption ==
  /\ Tries \in Nat \ {0}
  /\ Slow \subseteq {"release", "convert"}
  /\ Lossy \subseteq {"release", "convert", "create"}

VARIABLES
  man,         \* man[t]: the manifest of t in R2
  acc,         \* the account in Supabase
  fresh,       \* whether updated_at is the present second
  expired,     \* sessions past session_exp
  creating,    \* initiates between the reservation and the manifest
  converting,  \* converting[t]: tries left to finalise's conversion of t
  releasing,   \* releasing[t]: the latch winner's release still to be made
  recon        \* the reconcile: touched = the account was written at or after t0

vars == <<man, acc, fresh, expired, creating, converting, releasing, recon>>
jobs == <<creating, converting, releasing>>

Uploading == {t \in Sessions : man[t] = "uploading"}
Complete == {t \in Sessions : man[t] = "complete"}
Converting == {t \in Sessions : converting[t] > 0}
Releasing == {t \in Sessions : releasing[t] # "none"}

NoRecon == [pc |-> "idle", todo |-> {}, done |-> {}, touched |-> FALSE]

Init ==
  /\ man = [t \in Sessions |-> "none"]
  /\ acc = NewAccount(TRUE) /\ fresh = FALSE
  /\ expired = {} /\ creating = {}
  /\ converting = [t \in Sessions |-> 0]
  /\ releasing = [t \in Sessions |-> "none"]
  /\ recon = NoRecon

\* A function of the migration that writes the account stamps updated_at.
Stamp(a) ==
  /\ acc' = a
  /\ fresh' = TRUE
  /\ recon' = [recon EXCEPT !.touched = recon.pc # "idle"]

\* A call that may have changed nothing: then nothing is stamped.
Call(a) == IF a = acc THEN UNCHANGED <<acc, fresh, recon>> ELSE Stamp(a)

-----------------------------------------------------------------------------
(* Initiate                                                                 *)

Reserve(t) ==
  /\ man[t] = "none" /\ t \notin creating \cup expired
  /\ ReserveCode(acc, t, expired) = "ok"
  /\ Stamp(Reserved(acc, t, expired))
  /\ creating' = creating \cup {t}
  /\ UNCHANGED <<man, expired, converting, releasing>>

\* A refusal does not stamp the account.
ReserveRefused(t) ==
  /\ man[t] = "none" /\ t \notin creating \cup expired
  /\ ReserveCode(acc, t, expired) \in {"too_many_in_flight", "quota_exceeded"}
  /\ acc' = Reserved(acc, t, expired)
  /\ UNCHANGED <<man, fresh, expired, jobs, recon>>

Create(t) ==
  /\ t \in creating
  /\ man' = [man EXCEPT ![t] = "uploading"]
  /\ creating' = creating \ {t}
  /\ UNCHANGED <<acc, fresh, expired, converting, releasing, recon>>

\* The spend was refused: cancelReservation.
Cancel(t) ==
  /\ t \in creating
  /\ Call(Released(acc, t, FALSE))
  /\ creating' = creating \ {t}
  /\ UNCHANGED <<man, expired, converting, releasing>>

\* The Worker dies, or the cancellation fails: the reservation is left to expire.
InitiateDies(t) ==
  /\ t \in creating /\ "create" \in Lossy
  /\ creating' = creating \ {t}
  /\ UNCHANGED <<man, acc, fresh, expired, converting, releasing, recon>>

-----------------------------------------------------------------------------
(* The upload session, finalise and its conversion off the response path    *)

\* session_exp passes: no initiate lasts that long.
Expire(t) ==
  /\ t \notin expired \cup creating
  /\ converting[t] > 0 => "convert" \in Slow
  /\ expired' = expired \cup {t}
  /\ UNCHANGED <<man, acc, fresh, jobs, recon>>

\* Mutant: a session that has passed may still be finalised.
FinaliseLate(t) ==
  /\ man[t] = "uploading"
  /\ man' = [man EXCEPT ![t] = "complete"]
  /\ converting' = [converting EXCEPT ![t] = Tries]
  /\ UNCHANGED <<acc, fresh, expired, creating, releasing, recon>>

Finalise(t) ==
  /\ man[t] = "uploading" /\ t \notin expired
  /\ man' = [man EXCEPT ![t] = "complete"]
  /\ converting' = [converting EXCEPT ![t] = Tries]
  /\ UNCHANGED <<acc, fresh, expired, creating, releasing, recon>>

Convert(t) ==
  /\ converting[t] > 0
  /\ Call(Converted(acc, t))
  /\ converting' = [converting EXCEPT ![t] = 0]
  /\ UNCHANGED <<man, expired, creating, releasing>>

\* The call fails, before the database ran it or after.
ConvertFails(t) ==
  /\ converting[t] > 0
  /\ converting[t] = 1 => "convert" \in Lossy
  /\ \E a \in {acc, Converted(acc, t)} : Call(a)
  /\ converting' = [converting EXCEPT ![t] = @ - 1]
  /\ UNCHANGED <<man, expired, creating, releasing>>

-----------------------------------------------------------------------------
(* The end of a transfer                                                    *)

\* Some deletion path wins the latch; it holds the manifest from before.
Latch(t) ==
  /\ man[t] \in {"uploading", "complete"}
  /\ man' = [man EXCEPT ![t] = "consumed"]
  /\ releasing' = [releasing EXCEPT ![t] = man[t]]
  /\ UNCHANGED <<acc, fresh, expired, creating, converting, recon>>

Release(t) ==
  /\ releasing[t] # "none"
  /\ IF t \in acc.rows \/ releasing[t] = "complete"
     THEN Stamp(Released(acc, t, releasing[t] = "complete"))
     ELSE UNCHANGED <<acc, fresh, recon>>
  /\ releasing' = [releasing EXCEPT ![t] = "none"]
  /\ UNCHANGED <<man, expired, creating, converting>>

\* The winner dies, or the call fails: releaseHeld logs it and goes on.
ReleaseLost(t) ==
  /\ releasing[t] # "none" /\ "release" \in Lossy
  /\ releasing' = [releasing EXCEPT ![t] = "none"]
  /\ UNCHANGED <<man, acc, fresh, expired, creating, converting, recon>>

\* The orphan sweep removes an upload nobody finalised; nothing is released.
RemoveStale(t) ==
  /\ man[t] = "uploading" /\ t \in expired
  /\ man' = [man EXCEPT ![t] = "gone"]
  /\ UNCHANGED <<acc, fresh, expired, jobs, recon>>

-----------------------------------------------------------------------------
(* The nightly reconcile                                                    *)

\* quota_now: an account written earlier in this very second counts as touched.
ReconcileClock ==
  /\ recon.pc = "idle"
  /\ recon' = [recon EXCEPT !.pc = "list", !.touched = fresh]
  /\ UNCHANGED <<man, acc, fresh, expired, jobs>>

ReconcileList ==
  /\ recon.pc = "list"
  /\ recon' = [recon EXCEPT !.pc = "scan", !.todo = {t \in Sessions : man[t] \notin {"none", "gone"}}]
  /\ UNCHANGED <<man, acc, fresh, expired, jobs>>

ReconcileRead(t) ==
  /\ recon.pc = "scan" /\ t \in recon.todo
  /\ recon' = [recon EXCEPT !.todo = @ \ {t},
                            !.done = IF man[t] = "complete" THEN @ \cup {t} ELSE @]
  /\ UNCHANGED <<man, acc, fresh, expired, jobs>>

\* A read that fails, a seal that will not open: nothing is written.
ReconcileAbort ==
  /\ recon.pc = "scan" /\ recon.todo # {}
  /\ recon' = NoRecon
  /\ UNCHANGED <<man, acc, fresh, expired, jobs>>

\* Mutants: an account touched since t0 is overwritten all the same; only the
\* reservations are ever put right.
ReconcileWriteBlind ==
  /\ recon.pc = "scan" /\ recon.todo = {}
  /\ Releasing # {} => "release" \in Slow
  /\ acc' = Reconciled(acc, recon.done, expired)
  /\ recon' = NoRecon
  /\ UNCHANGED <<man, fresh, expired, jobs>>

ReconcileWriteRefreshes ==
  /\ recon.pc = "scan" /\ recon.todo = {}
  /\ Releasing # {} => "release" \in Slow
  /\ acc' = Refreshed(acc, expired)
  /\ recon' = NoRecon
  /\ UNCHANGED <<man, fresh, expired, jobs>>

\* quota_reconcile.  It does not stamp updated_at.
ReconcileWrite ==
  /\ recon.pc = "scan" /\ recon.todo = {}
  /\ Releasing # {} => "release" \in Slow
  /\ acc' = IF recon.touched THEN Refreshed(acc, expired) ELSE Reconciled(acc, recon.done, expired)
  /\ recon' = NoRecon
  /\ UNCHANGED <<man, fresh, expired, jobs>>

Tick ==
  /\ fresh
  /\ fresh' = FALSE
  /\ UNCHANGED <<man, acc, expired, jobs, recon>>

-----------------------------------------------------------------------------
Handler(t) ==
  \/ Create(t) \/ Cancel(t) \/ InitiateDies(t)
  \/ Convert(t) \/ ConvertFails(t)
  \/ Release(t) \/ ReleaseLost(t)

User(t) == Reserve(t) \/ ReserveRefused(t) \/ Finalise(t) \/ Latch(t)

ReconcileStep == ReconcileList \/ (\E t \in Sessions : ReconcileRead(t)) \/ ReconcileWrite

Next ==
  \/ \E t \in Sessions : User(t) \/ Handler(t) \/ Expire(t) \/ RemoveStale(t)
  \/ ReconcileClock \/ ReconcileStep \/ ReconcileAbort
  \/ Tick

Spec == Init /\ [][Next]_vars

\* Handlers run on, seconds pass, a session ends at the time its hash is made of
\* however often it is initiated, and the cron job runs every night: after any
\* night there is one whose scan is not cut short.
Fairness ==
  /\ \A t \in Sessions : WF_vars(Handler(t)) /\ SF_vars(Expire(t))
  /\ WF_vars(ReconcileClock) /\ WF_vars(ReconcileStep)
  /\ []<><<ReconcileWrite>>_vars
  /\ WF_vars(Tick)

FairSpec == Spec /\ Fairness

-----------------------------------------------------------------------------
(* Properties                                                               *)

\* Every variable has its type; in particular no meter goes below zero.
TypeOK ==
  /\ man \in [Sessions -> {"none", "uploading", "complete", "consumed", "gone"}]
  /\ acc \in Account /\ fresh \in BOOLEAN
  /\ expired \subseteq Sessions /\ creating \subseteq Sessions
  /\ converting \in [Sessions -> 0..Tries]
  /\ releasing \in [Sessions -> {"none", "uploading", "complete"}]
  /\ recon \in [pc : {"idle", "list", "scan"}, todo : SUBSET Sessions,
                done : SUBSET Sessions, touched : BOOLEAN]

\* The stored reserved_chunks is the sum of the reservations, whichever of the
\* five functions that delete or add one ran last.
ReservedMatchesRows == acc.reserved = Held(acc.rows)

\* What the account counts covers what R2 holds: each finalised transfer that is
\* not ended is in used_chunks, or its reservation is still there to convert.
Covered == Held(Complete) <= acc.used + Held(acc.rows \cap Complete)

\* "A reservation cannot expire under a live upload": an upload whose session is
\* open keeps its reservation until it is finalised, whatever the reconcile,
\* other initiates and failed initiates do meanwhile.
SessionBacked == Uploading \ expired \subseteq acc.rows

\* The finalised transfers and the uploads that can still finish never hold more
\* than the account's limit.
HeldWithinLimit == Held(Complete) + Held(Uploading \ expired) <= Limit

\* What R2 and the initiates under way make of a transfer, the account left aside.
Standing(t) ==
  IF man[t] = "complete" THEN "stored"
  ELSE IF man[t] \in {"consumed", "gone"} \/ t \in expired THEN "over"
  ELSE IF man[t] = "uploading" \/ t \in creating THEN "granted" ELSE "none"

Charging == {t \in Sessions : Standing(t) \in {"granted", "stored"}}

\* Reservations, conversions, releases and the reconcile, each a call away from the
\* change in R2 it follows, implement one number of chunks left, in which a
\* transfer is counted once.
A == INSTANCE Allowance WITH standing <- [t \in Sessions |-> Standing(t)], left <- Limit - Held(Charging)
ImplementsAllowance == A!ASpec

\* Once the account is left alone, the meters come to agree with R2 for good,
\* whatever calls were lost or overtaken.
DriftIsRepaired == <>[](acc.used = Held(Complete) /\ acc.reserved = 0)

\* Does not hold (README, 6.5): "No identified path drifts in the user's favour" (B12-SR S1, tolerable drift):
\* with nothing in flight, used_chunks is at least what R2 holds.
NoUserFavour ==
  creating \cup Converting \cup Releasing = {} /\ recon.pc = "idle"
    => Held(Complete) <= acc.used
=============================================================================
