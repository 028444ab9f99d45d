------------------------------- MODULE Ledger -------------------------------
(***************************************************************************)
(* One storage-quota account as the Postgres functions of the b12_3 quota   *)
(* migration keep it.  Each function is one transaction that holds the      *)
(* account's row lock, so it is one step: an operator from the account      *)
(* before to the account after.  A reservation is known by the hash of the  *)
(* upload session it was made for; the token behind the hash carries the    *)
(* chunk count, so a session always asks for the same number of chunks.     *)
(***************************************************************************)
EXTENDS Integers, FiniteSets, FiniteSetsExt

CONSTANTS
  Sessions,      \* session hashes
  Chunks,        \* Chunks[s]: the chunks session s asks for
  Limit,         \* limit_chunks
  MaxInFlight    \* max_in_flight

ASSUME LedgerAssumption ==
  /\ IsFiniteSet(Sessions)
  /\ Chunks \in [Sessions -> Nat \ {0}]
  /\ Limit \in Nat /\ MaxInFlight \in Nat \ {0}

\* The chunks of a set of sessions.
Held(S) == MapThenSumSet(LAMBDA s : Chunks[s], S)

Account ==
  [provisioned : BOOLEAN,      \* the quota_accounts row exists
   used : Nat, reserved : Nat, \* used_chunks, reserved_chunks
   rows : SUBSET Sessions]     \* quota_reservations

NewAccount(provisioned) ==
  [provisioned |-> provisioned, used |-> 0, reserved |-> 0, rows |-> {}]

Clamp(n) == IF n < 0 THEN 0 ELSE n

\* _quota_refresh_reserved
Refreshed(a, expired) ==
  LET left == a.rows \ expired IN [a EXCEPT !.rows = left, !.reserved = Held(left)]

\* Mutant: what is reserved already does not count against the limit.
ReserveCodeUsedOnly(a, s, expired) ==
  LET r == Refreshed(a, expired) IN
  CASE ~a.provisioned -> "quota_not_provisioned"
    [] a.provisioned /\ Cardinality(r.rows) >= MaxInFlight -> "too_many_in_flight"
    [] a.provisioned /\ Cardinality(r.rows) < MaxInFlight
         /\ r.used + Chunks[s] > Limit -> "quota_exceeded"
    [] OTHER -> IF s \in r.rows THEN "error" ELSE "ok"

\* What quota_reserve answers.  "error": the insert meets a reservation of the
\* same session, and the whole transaction is undone.
ReserveCode(a, s, expired) ==
  LET r == Refreshed(a, expired) IN
  CASE ~a.provisioned -> "quota_not_provisioned"
    [] a.provisioned /\ Cardinality(r.rows) >= MaxInFlight -> "too_many_in_flight"
    [] a.provisioned /\ Cardinality(r.rows) < MaxInFlight
         /\ r.used + r.reserved + Chunks[s] > Limit -> "quota_exceeded"
    [] OTHER -> IF s \in r.rows THEN "error" ELSE "ok"

\* quota_reserve.  A refusal still drops the expired reservations.
Reserved(a, s, expired) ==
  LET r == Refreshed(a, expired)
      code == ReserveCode(a, s, expired) IN
  CASE code = "ok" -> [r EXCEPT !.rows = @ \cup {s}, !.reserved = @ + Chunks[s]]
    [] code \in {"too_many_in_flight", "quota_exceeded"} -> r
    [] code \in {"quota_not_provisioned", "error"} -> a

\* quota_finalise: the reservation, expired or not, is the once-only token.
Converted(a, s) ==
  IF s \in a.rows
  THEN [a EXCEPT !.rows = @ \ {s}, !.reserved = Clamp(@ - Chunks[s]), !.used = @ + Chunks[s]]
  ELSE a

\* Mutant: greatest(..., 0) is missing.
ReleasedUnclamped(a, s, complete) ==
  IF s \in a.rows
  THEN [a EXCEPT !.rows = @ \ {s}, !.reserved = @ - Chunks[s]]
  ELSE IF complete THEN [a EXCEPT !.used = @ - Chunks[s]]
  ELSE a

\* quota_release: the reservation if it is still there, else what was converted.
Released(a, s, complete) ==
  IF s \in a.rows
  THEN [a EXCEPT !.rows = @ \ {s}, !.reserved = Clamp(@ - Chunks[s])]
  ELSE IF complete THEN [a EXCEPT !.used = Clamp(@ - Chunks[s])]
  ELSE a

\* Mutants: reserved_chunks is not recomputed once the done sessions' reservations
\* are gone; the scan's sessions are the only ones kept.
ReconciledUnrefreshed(a, done, expired) ==
  [Refreshed(a, expired) EXCEPT !.rows = @ \ done, !.used = Held(done)]

ReconciledKeepsDone(a, done, expired) ==
  [Refreshed([a EXCEPT !.rows = @ \cap done], expired) EXCEPT !.used = Held(done)]

\* quota_reconcile for an account untouched since t0: the sessions in done are
\* the transfers the scan counted.
Reconciled(a, done, expired) ==
  [Refreshed([a EXCEPT !.rows = @ \ done], expired) EXCEPT !.used = Held(done)]
=============================================================================
