------------------------------ MODULE Initiate ------------------------------
(***************************************************************************)
(* POST /upload/:uuid/initiate, several at a time.  One request touches, in *)
(* this order and each by an awaited call of its own: the transfer's        *)
(* manifest (is there one?), the soak flag in KV, the credit pool, the      *)
(* storage quota, the ledger of spent credentials, the credit pool again,   *)
(* and the manifest it creates.  What a refusal undoes, it undoes one call  *)
(* at a time.  No upload session expires here: Occupancy has that.          *)
(***************************************************************************)
EXTENDS Ledger

CONSTANTS
  Reqs,        \* slots for concurrent requests, each reused when its handler returns
  Uuids,       \* transfer ids
  Uuid,        \* Uuid[s]: the transfer session s is for (its token is a MAC over
               \* uuid, chunk count and end, so a retry can meet the same hash)
  Serials,     \* credential serials; a credential is not bound to one transfer
  Kinds,       \* the kinds of request exercised
  Pool,        \* credits in the Chartered pool; a transfer costs one
  Faults,      \* the faults exercised: "crash", "throw", "store"
  MaxFaults    \* bound: faults in a behaviour

ASSUME InitiateAssumption ==
  /\ Uuid \in [Sessions -> Uuids]
  /\ Kinds \subseteq {"bearer", "citizen", "chartered", "soak"}
  /\ Pool \in Nat /\ MaxFaults \in Nat
  /\ Faults \subseteq {"crash", "throw", "store"}

VARIABLES
  man,       \* man[u]: {u}/manifest.json, or NoManifest
  acc,       \* acc[k]: the quota account of the principal of kind k
  spent,     \* spent_tokens
  credits,   \* the Chartered pool's remaining credits
  flags,     \* KV testcred_used:{uuid}
  faults,
  req        \* the state of each handler in flight

vars == <<man, acc, spent, credits, flags, faults, req>>

\* The kinds of principal that have a quota account.
Rails == {"citizen", "chartered"}

NoManifest == [kind |-> "none"]
Created == {u \in Uuids : man[u] # NoManifest}
Idle == [pc |-> "idle"]
Request(pc, s, c, k) == [pc |-> pc, s |-> s, c |-> c, k |-> k]

Init ==
  /\ man = [u \in Uuids |-> NoManifest]
  /\ \E provisioned \in BOOLEAN :       \* an org's account is made when it signs up
       acc = [k \in Rails |-> NewAccount(k = "chartered" /\ provisioned)]
  /\ spent = {} /\ credits = Pool /\ flags = {} /\ faults = 0
  /\ req = [p \in Reqs |-> Idle]

At(p, label) == req[p].pc = label
Goto(p, label) == req' = [req EXCEPT ![p].pc = label]
Done(p) == req' = [req EXCEPT ![p] = Idle]

Fail(fault) == fault \in Faults /\ faults < MaxFaults /\ faults' = faults + 1

\* A refusal after the reservation cancels it.
Refuse(p) == IF req[p].k \in Rails THEN Goto(p, "cancel") ELSE Done(p)

-----------------------------------------------------------------------------
\* The first await: a transfer that has a manifest is not initiated again.
Start(p, s, c, k) ==
  /\ At(p, "idle")
  /\ man[Uuid[s]] = NoManifest
  /\ req' = [req EXCEPT ![p] = Request(CASE k = "soak" -> "flag" [] k = "chartered" -> "pool"
                                         [] k = "citizen" -> "reserve" [] k = "bearer" -> "spend",
                                       s, c, k)]
  /\ UNCHANGED <<man, acc, spent, credits, flags, faults>>

\* A soak credential whose flag is set is not one; what is left of the request
\* is a Chartered initiate without a signature.
ReadFlag(p) ==
  /\ At(p, "flag")
  /\ IF Uuid[req[p].s] \in flags THEN Done(p) ELSE Goto(p, "put_flag")
  /\ UNCHANGED <<man, acc, spent, credits, flags, faults>>

\* The advisory look at the pool.
ReadPool(p) ==
  /\ At(p, "pool")
  /\ IF credits > 0 THEN Goto(p, "reserve") ELSE Done(p)
  /\ UNCHANGED <<man, acc, spent, credits, flags, faults>>

\* session_hash is the key of the whole reservations table, whosever account.
Answer(p) ==
  LET s == req[p].s
      k == req[p].k
      code == ReserveCode(acc[k], s, {}) IN
  IF code = "ok" /\ (\E o \in Rails : s \in acc[o].rows) THEN "error" ELSE code

AfterAnswer(p, code) ==
  CASE code = "ok" -> Goto(p, "spend")
    [] code = "quota_not_provisioned" /\ req[p].k = "citizen" /\ At(p, "reserve") ->
         Goto(p, "provision")
    [] OTHER -> Done(p)

\* Mutant: a reservation that meets an error is cancelled too.
ReserveCancelsError(p) ==
  /\ req[p].pc \in {"reserve", "reserve_again"}
  /\ acc' = IF Answer(p) = "error" THEN acc
            ELSE [acc EXCEPT ![req[p].k] = Reserved(@, req[p].s, {})]
  /\ IF Answer(p) = "error" THEN Refuse(p) ELSE AfterAnswer(p, Answer(p))
  /\ UNCHANGED <<man, spent, credits, flags, faults>>

Reserve(p) ==
  /\ req[p].pc \in {"reserve", "reserve_again"}
  /\ acc' = IF Answer(p) = "error" THEN acc
            ELSE [acc EXCEPT ![req[p].k] = Reserved(@, req[p].s, {})]
  /\ AfterAnswer(p, Answer(p))
  /\ UNCHANGED <<man, spent, credits, flags, faults>>

\* A Citizen's account is made on the first upload, then the reservation retried.
Provision(p) ==
  /\ At(p, "provision")
  /\ acc' = [acc EXCEPT !["citizen"].provisioned = TRUE]
  /\ Goto(p, "reserve_again")
  /\ UNCHANGED <<man, spent, credits, flags, faults>>

-----------------------------------------------------------------------------
(* The spend: INSERT on the credential's serial, then the debit.            *)

PutFlag(p) ==
  /\ At(p, "put_flag")
  /\ flags' = flags \cup {Uuid[req[p].s]}
  /\ Goto(p, "create")
  /\ UNCHANGED <<man, acc, spent, credits, faults>>

AfterSpend(p) == Goto(p, IF req[p].k = "chartered" THEN "debit" ELSE "create")

\* Mutant: a serial that is there already is taken for a retry of this request.
SpendAgain(p) ==
  /\ At(p, "spend")
  /\ spent' = spent \cup {req[p].c}
  /\ AfterSpend(p)
  /\ UNCHANGED <<man, acc, credits, flags, faults>>

Spend(p) ==
  /\ At(p, "spend")
  /\ IF req[p].c \in spent THEN Refuse(p) ELSE AfterSpend(p)
  /\ spent' = spent \cup {req[p].c}
  /\ UNCHANGED <<man, acc, credits, flags, faults>>

\* Supabase answers with an error, before the INSERT ran or after.
SpendFails(p) ==
  /\ At(p, "spend")
  /\ Fail("store")
  /\ spent' \in {spent, spent \cup {req[p].c}}
  /\ Refuse(p)
  /\ UNCHANGED <<man, acc, credits, flags>>

\* Mutant: the debit trusts the look at the pool the request began with.
DebitUnchecked(p) ==
  /\ At(p, "debit")
  /\ credits' = credits - 1
  /\ Goto(p, "create")
  /\ UNCHANGED <<man, acc, spent, flags, faults>>

\* api_credits_spend holds the pool's row lock.
Debit(p) ==
  /\ At(p, "debit")
  /\ credits' = IF credits > 0 THEN credits - 1 ELSE credits
  /\ Goto(p, IF credits > 0 THEN "create" ELSE "unspend")
  /\ UNCHANGED <<man, acc, spent, flags, faults>>

\* Mutant: a debit whose answer is an error is let through.
DebitFailsOpen(p) ==
  /\ At(p, "debit")
  /\ Fail("store")
  /\ credits' \in {credits, IF credits > 0 THEN credits - 1 ELSE credits}
  /\ Goto(p, "create")
  /\ UNCHANGED <<man, acc, spent, flags>>

DebitFails(p) ==
  /\ At(p, "debit")
  /\ Fail("store")
  /\ credits' \in {credits, IF credits > 0 THEN credits - 1 ELSE credits}
  /\ Goto(p, "unspend")
  /\ UNCHANGED <<man, acc, spent, flags>>

\* The credential is not burnt for a debit that was refused.
Unspend(p) ==
  /\ At(p, "unspend")
  /\ spent' = spent \ {req[p].c}
  /\ Refuse(p)
  /\ UNCHANGED <<man, acc, credits, flags, faults>>

UnspendFails(p) ==
  /\ At(p, "unspend")
  /\ Fail("store")
  /\ Refuse(p)
  /\ UNCHANGED <<man, acc, spent, credits, flags>>

\* cancelReservation: releaseQuota of an upload that is not complete.
Cancel(p) ==
  /\ At(p, "cancel")
  /\ acc' = [acc EXCEPT ![req[p].k] = Released(@, req[p].s, FALSE)]
  /\ Done(p)
  /\ UNCHANGED <<man, spent, credits, flags, faults>>

CancelFails(p) ==
  /\ At(p, "cancel")
  /\ Fail("store")
  /\ Done(p)
  /\ UNCHANGED <<man, acc, spent, credits, flags>>

-----------------------------------------------------------------------------
\* Mutant: the loser of the race returns as the early check does.
CreateForgetsCancel(p) ==
  LET u == Uuid[req[p].s] IN
  /\ At(p, "create")
  /\ man' = IF man[u] = NoManifest
            THEN [man EXCEPT ![u] = [kind |-> req[p].k, s |-> req[p].s, c |-> req[p].c]]
            ELSE man
  /\ Done(p)
  /\ UNCHANGED <<acc, spent, credits, flags, faults>>

\* putManifestIfAbsent; what follows (dock entry, presigned URLs) undoes nothing.
Create(p) ==
  LET u == Uuid[req[p].s] IN
  /\ At(p, "create")
  /\ IF man[u] = NoManifest
     THEN /\ man' = [man EXCEPT ![u] = [kind |-> req[p].k, s |-> req[p].s, c |-> req[p].c]]
          /\ Done(p)
     ELSE Refuse(p) /\ UNCHANGED man
  /\ UNCHANGED <<acc, spent, credits, flags, faults>>

\* The fetch of the spend, or R2's put, throws: nothing catches it.
Throw(p) ==
  /\ req[p].pc \in {"spend", "create"}
  /\ Fail("throw")
  /\ Done(p)
  /\ UNCHANGED <<man, acc, spent, credits, flags>>

\* The isolate goes; so does a request whose quota call gets no answer.
Crash(p) ==
  /\ ~At(p, "idle")
  /\ Fail("crash")
  /\ Done(p)
  /\ UNCHANGED <<man, acc, spent, credits, flags>>

-----------------------------------------------------------------------------
Handle(p) ==
  \/ ReadFlag(p) \/ ReadPool(p) \/ Reserve(p) \/ Provision(p)
  \/ PutFlag(p) \/ Spend(p) \/ SpendFails(p)
  \/ Debit(p) \/ DebitFails(p) \/ Unspend(p) \/ UnspendFails(p)
  \/ Cancel(p) \/ CancelFails(p) \/ Create(p)
  \/ Throw(p) \/ Crash(p)

Next ==
  \E p \in Reqs :
    \/ \E s \in Sessions, c \in Serials, k \in Kinds : Start(p, s, c, k)
    \/ Handle(p)

Spec == Init /\ [][Next]_vars

-----------------------------------------------------------------------------
(* Properties                                                               *)

Labels == {"flag", "pool", "reserve", "provision", "reserve_again", "put_flag", "spend",
           "debit", "unspend", "cancel", "create"}

\* Every variable has its type; in particular the pool is never overdrawn.
TypeOK ==
  /\ man \in [Uuids -> {NoManifest} \cup [kind : Kinds, s : Sessions, c : Serials]]
  /\ acc \in [Rails -> Account]
  /\ spent \subseteq Serials /\ credits \in Nat
  /\ flags \subseteq Uuids /\ faults \in Nat
  /\ req \in [Reqs -> {Idle} \cup [pc : Labels, s : Sessions, c : Serials, k : Kinds]]

Paid == {u \in Created : man[u].kind # "soak"}

\* One credential pays for one transfer: whatever is retried, refused, un-spent
\* or lost on the way, no two transfers were created with the same serial.
PaidOnce == \A u, v \in Paid : man[u].c = man[v].c => u = v

\* A created transfer stays paid for: no other request's un-spend gives its
\* credential back, and every Chartered transfer has a credit of its own.
CreatedIsPaid ==
  /\ \A u \in Paid : man[u].c \in spent
  /\ Cardinality({u \in Created : man[u].kind = "chartered"}) <= Pool - credits

\* The reservation of a created transfer is still there: no request that lost
\* the race for the transfer, or met the same session, cancelled it.
OwnerKeepsReservation ==
  \A u \in Created : man[u].kind \in Rails => man[u].s \in acc[man[u].kind].rows

\* Every reservation belongs to a request in flight or to a created transfer.
Accounted ==
  \A k \in Rails : \A s \in acc[k].rows :
    \/ \E p \in Reqs : ~At(p, "idle") /\ req[p].s = s /\ req[p].k = k
    \/ \E u \in Created : man[u].kind = k /\ man[u].s = s

\* A refusal, at whatever step and in whatever race, leaves no reservation behind.
RefusalReleases == faults = 0 => Accounted

\* Does not hold (README, 6.6): "Every failure below releases it" (handleInitiate, of the reservation).
FailureReleases == Accounted
=============================================================================
