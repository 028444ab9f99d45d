------------------------------ MODULE Credits ------------------------------
(***************************************************************************)
(* The accounts of the API tier: api_keys and api_credit_pools in Supabase, *)
(* the copy of a key each isolate keeps in memory, the admin and sandbox    *)
(* routes that write them, and the requests that authenticate and pay: the  *)
(* API credential issue, an API initiate (its debit; Initiate has the rest) *)
(* and the sandbox spend.  An org has one key, as onboarding makes it; a    *)
(* sandbox key may be of the anonymous rail, which has no pool.             *)
(***************************************************************************)
EXTENDS Integers, FiniteSets

CONSTANTS
  Orgs,        \* the orgs that may be opened, by onboarding or by the sandbox
  Isolates,    \* each with a key cache of its own
  Reqs,        \* slots for concurrent API requests
  Costs,       \* credits a transfer costs at initiate
  Allocation,  \* PLAN_DEFAULTS: plan -> credits in a period
  Ceilings,    \* overage ceilings the admin sets
  Month,       \* the length of a billing period
  Ttl,         \* KEY_CACHE_TTL_MS
  Life,        \* SANDBOX_TTL_SECONDS
  Horizon,     \* bound: the clock
  MaxAdmin,    \* bound: admin operations
  MaxArrivals, \* bound: API requests
  MaxFaults    \* bound: lost answers and crashes

HardStop == {"personal_api", "sandbox"}
Plans == HardStop \cup {"identity_api"}

ASSUME CreditsAssumption ==
  /\ Costs \subseteq Nat \ {0} /\ Ceilings \subseteq Nat
  /\ Allocation \in [Plans -> Nat]
  /\ Month \in Nat \ {0} /\ Ttl \in Nat \ {0} /\ Life \in Nat \ {0}
  /\ Horizon \in Nat /\ MaxAdmin \in Nat /\ MaxArrivals \in Nat /\ MaxFaults \in Nat

VARIABLES
  now,
  keys,     \* api_keys, one row per org, or NoKey
  pools,    \* api_credit_pools, or NoPool
  cache,    \* cache[i][o]: keyCache of isolate i: [row, at], or Unknown
  req,      \* the API requests in flight
  adm,      \* the admin operation in flight
  gen,      \* history: how often the pool was filled
  granted,  \* history: credits whose work was done, since the pool was filled
  carried,  \* history: credits of an earlier filling given back into this one
  lost,     \* history: credits charged to nobody: an answer lost, a balance forfeited
  count     \* [admin, arrivals, faults]: what the bounds count

store == <<keys, pools>>
history == <<gen, granted, carried, lost>>
vars == <<now, keys, pools, cache, req, adm, gen, granted, carried, lost, count>>

Never == Horizon + Life + Ttl + 1
NoKey == [made |-> FALSE]
NoPool == [plan |-> "none"]
Unknown == [at |-> -1]
Idle == [pc |-> "idle"]

Init ==
  /\ now = 0
  /\ keys = [o \in Orgs |-> NoKey] /\ pools = [o \in Orgs |-> NoPool]
  /\ cache = [i \in Isolates |-> [o \in Orgs |-> Unknown]]
  /\ req = [p \in Reqs |-> Idle] /\ adm = Idle
  /\ gen = [o \in Orgs |-> 0] /\ granted = [o \in Orgs |-> 0]
  /\ carried = [o \in Orgs |-> 0] /\ lost = [o \in Orgs |-> 0]
  /\ count = [admin |-> 0, arrivals |-> 0, faults |-> 0]

Tick == now < Horizon /\ now' = now + 1 /\ UNCHANGED <<store, cache, req, adm, history, count>>

Counted(what, bound) == count[what] < bound /\ count' = [count EXCEPT ![what] = @ + 1]
Fail == Counted("faults", MaxFaults)

-----------------------------------------------------------------------------
(* The rules of a pool, twice: as SQL has them and as quota.js has them.    *)

AddMonth(t) == t + Month

Cancelled(r) == r.status = "cancelled"

\* Mutant: every pool rolls over, the sandbox's too.
RolledSandbox(r) ==
  IF ~Cancelled(r) /\ now >= r.end
  THEN [r EXCEPT !.remaining = r.allocation, !.overage = 0, !.end = AddMonth(@)]
  ELSE r

\* The lazy reset: one step, whatever time has passed.
Rolled(r) ==
  IF ~Cancelled(r) /\ now >= r.end /\ r.plan # "sandbox"
  THEN [r EXCEPT !.remaining = r.allocation, !.overage = 0, !.end = AddMonth(@)]
  ELSE r

Spendable(r, cost) ==
  /\ ~(Cancelled(r) /\ (now >= r.end \/ r.remaining <= 0))
  /\ LET s == Rolled(r) IN
       \/ s.remaining >= cost
       \/ s.plan \notin HardStop /\ s.overage + (cost - s.remaining) <= s.ceiling

Spent(r, cost) ==
  LET s == Rolled(r)
      short == IF s.remaining >= cost THEN 0 ELSE cost - s.remaining IN
  [s EXCEPT !.remaining = @ - (cost - short), !.overage = @ + short]

\* applyQuotaSpend of quota.js; NoPool stands for an answer of 402.
ApplyQuotaSpend(record, cost) ==
  LET rolls == record.status # "cancelled" /\ now >= record.end /\ record.plan # "sandbox"
      mutated == IF rolls THEN [record EXCEPT !.remaining = record.allocation, !.overage = 0,
                                              !.end = AddMonth(record.end)]
                          ELSE record
      newOverage == mutated.overage + (cost - mutated.remaining) IN
  CASE record.status = "cancelled" /\ (now >= record.end \/ record.remaining <= 0) -> NoPool
    [] OTHER ->
       IF mutated.plan \in HardStop
       THEN IF mutated.remaining < cost THEN NoPool
            ELSE [mutated EXCEPT !.remaining = @ - cost]
       ELSE IF mutated.remaining >= cost THEN [mutated EXCEPT !.remaining = @ - cost]
       ELSE IF newOverage > mutated.ceiling THEN NoPool
       ELSE [mutated EXCEPT !.remaining = 0, !.overage = newOverage]

Min2(a, b) == IF a <= b THEN a ELSE b

\* Overage first, then the balance, which stops at the allocation.
Refunded(r, cost) ==
  LET over == Min2(r.overage, cost) IN
  [r EXCEPT !.overage = @ - over, !.remaining = Min2(r.allocation, @ + (cost - over))]

Provisioned(plan, ceiling, start, length) ==
  [plan |-> plan, allocation |-> Allocation[plan], remaining |-> Allocation[plan],
   overage |-> 0, ceiling |-> IF plan = "identity_api" THEN ceiling ELSE 0,
   end |-> start + length, status |-> "active"]

\* What is charged on a pool since it was filled.
Used(o) == pools[o].allocation - pools[o].remaining + pools[o].overage

\* History: pool o is filled anew.
Refill(o, g, c, l) ==
  /\ gen' = [gen EXCEPT ![o] = @ + 1]
  /\ granted' = [granted EXCEPT ![o] = g] /\ carried' = [carried EXCEPT ![o] = c]
  /\ lost' = [lost EXCEPT ![o] = l]

-----------------------------------------------------------------------------
(* Keys: the lookup in SQL and the isolate's copy of its answer.            *)

\* revoked, when it was revoked first, is history.
Key(plan, rail) ==
  [made |-> TRUE, rail |-> rail, sandbox |-> plan = "sandbox", active |-> TRUE, revoked |-> Never,
   expires |-> IF plan = "sandbox" THEN now + Life ELSE Never]

\* api_key_lookup answers with the row.
KeyValid(k) == k.made /\ k.active /\ k.expires > now

\* From when api_key_lookup no longer answers with the row.
DeadSince(o) == Min2(keys[o].revoked, keys[o].expires)

At(p, label) == req[p].pc = label
Goto(p, label) == req' = [req EXCEPT ![p].pc = label]
Done(p) == req' = [req EXCEPT ![p] = Idle]

\* Past authentication: an initiate looks at the pool first.
Admitted(r) == [r EXCEPT !.pc = IF r.kind = "initiate" THEN "check" ELSE "spend", !.row = FALSE]

\* requireApiAuth as far as the cache: a fresh entry answers, a row or its absence.
Arrive(p, i, o, kind, cost) ==
  LET hit == cache[i][o]
      fresh == hit # Unknown /\ now - hit.at < Ttl
      asking == [pc |-> "ask", i |-> i, o |-> o, kind |-> kind, cost |-> cost,
                 since |-> now, row |-> FALSE, gen |-> 0] IN
  /\ At(p, "idle") /\ keys[o].made
  /\ (kind = "sandbox") <=> keys[o].sandbox
  /\ kind # "initiate" => cost = 1
  /\ Counted("arrivals", MaxArrivals)
  /\ req' = [req EXCEPT ![p] = IF ~fresh THEN asking ELSE IF hit.row THEN Admitted(asking) ELSE @]
  /\ UNCHANGED <<now, store, cache, adm, history>>

Ask(p) ==
  /\ At(p, "ask")
  /\ req' = [req EXCEPT ![p].pc = "answered", ![p].row = KeyValid(keys[req[p].o])]
  /\ UNCHANGED <<now, store, cache, adm, history, count>>

Admit(p) == IF req[p].row THEN req' = [req EXCEPT ![p] = Admitted(@)] ELSE Done(p)

\* Mutant: the entry is as old as its answer, not as its question.
CacheAnswerLate(p) ==
  /\ At(p, "answered")
  /\ cache' = [cache EXCEPT ![req[p].i][req[p].o] = [at |-> now, row |-> req[p].row]]
  /\ Admit(p)
  /\ UNCHANGED <<now, store, adm, history, count>>

\* keyCache.set, even over a forgetApiKey that came in between.
CacheAnswer(p) ==
  /\ At(p, "answered")
  /\ cache' = [cache EXCEPT ![req[p].i][req[p].o] = [at |-> req[p].since, row |-> req[p].row]]
  /\ Admit(p)
  /\ UNCHANGED <<now, store, adm, history, count>>

\* An isolate is replaced, or its cache reaches KEY_CACHE_MAX.
Evict(i) ==
  /\ \E o \in Orgs : cache[i][o] # Unknown
  /\ cache' = [cache EXCEPT ![i] = [o \in Orgs |-> Unknown]]
  /\ UNCHANGED <<now, store, req, adm, history, count>>

-----------------------------------------------------------------------------
(* Spending: api_credits_spend and api_credits_refund hold the row's lock.  *)

\* Initiate's look at the pool, which saves a credential an empty pool would burn.
Check(p) ==
  /\ At(p, "check")
  /\ IF pools[req[p].o] = NoPool \/ ApplyQuotaSpend(pools[req[p].o], req[p].cost) = NoPool
     THEN Done(p) ELSE Goto(p, "spend")
  /\ UNCHANGED <<now, store, cache, adm, history, count>>

\* The sandbox answers a key of the anonymous rail 422 before it asks for a pool.
CanSpend(p) ==
  /\ keys[req[p].o].rail = "identity"
  /\ pools[req[p].o] # NoPool /\ Spendable(pools[req[p].o], req[p].cost)
Rolls(o) == Rolled(pools[o]) # pools[o]

\* The pool after p's spend; g of it is granted, l of it lost.
Charge(p, g, l) ==
  LET o == req[p].o IN
  /\ pools' = [pools EXCEPT ![o] = Spent(@, req[p].cost)]
  /\ IF Rolls(o) THEN Refill(o, g, 0, l)
     ELSE /\ granted' = [granted EXCEPT ![o] = @ + g] /\ lost' = [lost EXCEPT ![o] = @ + l]
          /\ UNCHANGED <<gen, carried>>

SpendRefused(p) ==
  /\ At(p, "spend") /\ ~CanSpend(p)
  /\ Done(p)
  /\ UNCHANGED <<now, store, cache, adm, history, count>>

\* A sandbox spend is its own answer; so, here, is the debit of an initiate.
Spend(p) ==
  /\ At(p, "spend") /\ CanSpend(p)
  /\ IF req[p].kind = "issue"
     THEN /\ Charge(p, 0, 0)
          /\ req' = [req EXCEPT ![p].pc = "sign", ![p].gen = gen'[req[p].o]]
     ELSE Charge(p, req[p].cost, 0) /\ Done(p)
  /\ UNCHANGED <<now, keys, cache, adm, count>>

\* Mutant: the spend is asked again when its answer is lost.
SpendLostRetried(p) ==
  /\ At(p, "spend") /\ CanSpend(p)
  /\ Fail
  /\ Charge(p, 0, 0)
  /\ UNCHANGED <<now, keys, cache, req, adm>>

\* StoreUnavailable after the row was written: 503, and nothing gives it back.
SpendLost(p) ==
  /\ At(p, "spend") /\ CanSpend(p)
  /\ Fail
  /\ Charge(p, 0, req[p].cost)
  /\ Done(p)
  /\ UNCHANGED <<now, keys, cache, adm>>

\* The credit a signature was charged to is of this filling of the pool.
Current(p) == req[p].gen = gen[req[p].o]

Sign(p) ==
  /\ At(p, "sign")
  /\ granted' = IF Current(p) THEN [granted EXCEPT ![req[p].o] = @ + 1] ELSE granted
  /\ Done(p)
  /\ UNCHANGED <<now, store, cache, adm, gen, carried, lost, count>>

\* issueBlindSignature throws: the caller's point is not one.
SignFails(p) == At(p, "sign") /\ Goto(p, "refund") /\ UNCHANGED <<now, store, cache, adm, history, count>>

GiveBack(p) ==
  LET o == req[p].o IN
  /\ pools' = [pools EXCEPT ![o] = Refunded(@, 1)]
  /\ carried' = IF Current(p) THEN carried ELSE [carried EXCEPT ![o] = @ + 1]

Refund(p) ==
  /\ At(p, "refund")
  /\ GiveBack(p)
  /\ Done(p)
  /\ UNCHANGED <<now, keys, cache, adm, gen, granted, lost, count>>

\* Mutant: a refund whose answer is lost is asked again.
RefundLostRetried(p) ==
  /\ At(p, "refund")
  /\ Fail
  /\ GiveBack(p)
  /\ UNCHANGED <<now, keys, cache, req, adm, gen, granted, lost>>

\* The answer is lost; the row was written.
RefundLost(p) ==
  /\ At(p, "refund")
  /\ Fail
  /\ GiveBack(p)
  /\ Done(p)
  /\ UNCHANGED <<now, keys, cache, adm, gen, granted, lost>>

\* A credit held for a signature that is not made is lost.
Drop(p) ==
  /\ lost' = IF req[p].pc \in {"sign", "refund"} /\ Current(p)
             THEN [lost EXCEPT ![req[p].o] = @ + 1] ELSE lost
  /\ Done(p)
  /\ UNCHANGED <<now, store, cache, adm, gen, granted, carried>>

\* The store does not answer, with nothing written, or the isolate goes.
Crash(p) == ~At(p, "idle") /\ Fail /\ Drop(p)

-----------------------------------------------------------------------------
(* The admin and sandbox routes: the pool and the key in an awaited call    *)
(* each (the storage account that onboarding opens in between is not here). *)

Begin(pc, o, plan, ceiling, i) ==
  /\ adm = Idle
  /\ Counted("admin", MaxAdmin)
  /\ adm' = [pc |-> pc, o |-> o, plan |-> plan, ceiling |-> ceiling, i |-> i]

Fill(o, plan, ceiling) ==
  /\ pools' = [pools EXCEPT ![o] = Provisioned(plan, ceiling, now, IF plan = "sandbox" THEN Life ELSE Month)]
  /\ Refill(o, 0, 0, 0)

\* Mutant: the key is made before the pool it draws on.
CreateKeyFirst(o, plan, ceiling) ==
  /\ pools[o] = NoPool /\ ~keys[o].made
  /\ Begin("provision", o, plan, ceiling, "none")
  /\ keys' = [keys EXCEPT ![o] = Key(plan, "identity")]
  /\ UNCHANGED <<now, pools, cache, req, history>>

\* handleAdminApiClientCreate, and handleSandboxActivate on the identity rail: the pool first.
Create(o, plan, ceiling) ==
  /\ pools[o] = NoPool /\ ~keys[o].made
  /\ Begin("create_key", o, plan, ceiling, "none")
  /\ Fill(o, plan, ceiling)
  /\ UNCHANGED <<now, keys, cache, req>>

CreateKey ==
  /\ adm.pc = "create_key"
  /\ keys' = [keys EXCEPT ![adm.o] = Key(adm.plan, "identity")]
  /\ adm' = Idle
  /\ UNCHANGED <<now, pools, cache, req, history, count>>

\* handleSandboxActivate on the anonymous rail: the key alone, its tokens are the client's.
CreateAnonymous(o) ==
  /\ pools[o] = NoPool /\ ~keys[o].made
  /\ adm = Idle /\ Counted("admin", MaxAdmin)
  /\ keys' = [keys EXCEPT ![o] = Key("sandbox", "anonymous")]
  /\ UNCHANGED <<now, pools, cache, req, adm, history>>

\* api_key_revoke, then the forgetting, in the isolate that served it only.
Revoke(o, i) ==
  /\ keys[o].made
  /\ Begin("forget", o, "none", 0, i)
  /\ keys' = [keys EXCEPT ![o].active = FALSE, ![o].revoked = Min2(@, now)]
  /\ UNCHANGED <<now, pools, cache, req, history>>

Forget ==
  /\ adm.pc = "forget"
  /\ cache' = [cache EXCEPT ![adm.i][adm.o] = Unknown]
  /\ adm' = Idle
  /\ UNCHANGED <<now, store, req, history, count>>

\* handleAdminQuotaProvision, handleAdminQuotaCancel, handleSandboxReset: first the
\* key's org; the reset alone asks that the key be active, and writes nothing for one of
\* the anonymous rail.
Find(pc, o, plan, ceiling) ==
  /\ keys[o].made /\ keys[o].rail = "identity"
  /\ pc = "cancel" => ~keys[o].sandbox
  /\ pc = "provision" => keys[o].sandbox = (plan = "sandbox")
  /\ keys[o].sandbox => keys[o].active
  /\ Begin(pc, o, plan, ceiling, "none")
  /\ UNCHANGED <<now, store, cache, req, history>>

Provision ==
  /\ adm.pc = "provision"
  /\ Fill(adm.o, adm.plan, adm.ceiling)
  /\ adm' = Idle
  /\ UNCHANGED <<now, keys, cache, req, count>>

Cancel(immediate) ==
  /\ adm.pc = "cancel"
  /\ pools' = IF Cancelled(pools[adm.o]) THEN pools
              ELSE [pools EXCEPT ![adm.o].status = "cancelled",
                                 ![adm.o].remaining = IF immediate THEN 0 ELSE @]
  /\ lost' = IF Cancelled(pools[adm.o]) \/ ~immediate THEN lost
             ELSE [lost EXCEPT ![adm.o] = @ + pools[adm.o].remaining]
  /\ adm' = Idle
  /\ UNCHANGED <<now, keys, cache, req, gen, granted, carried, count>>

AdminCrash == adm # Idle /\ Fail /\ adm' = Idle /\ UNCHANGED <<now, store, cache, req, history>>

-----------------------------------------------------------------------------
Kinds == {"issue", "initiate", "sandbox"}

Request(p) ==
  \/ Ask(p) \/ CacheAnswer(p) \/ Check(p)
  \/ SpendRefused(p) \/ Spend(p) \/ SpendLost(p)
  \/ Sign(p) \/ SignFails(p) \/ Refund(p) \/ RefundLost(p) \/ Crash(p)

Admin ==
  \/ \E o \in Orgs, plan \in Plans, ceiling \in Ceilings :
       Create(o, plan, ceiling) \/ Find("provision", o, plan, ceiling)
  \/ \E o \in Orgs : CreateAnonymous(o) \/ Find("cancel", o, "none", 0) \/ \E i \in Isolates : Revoke(o, i)
  \/ CreateKey \/ Forget \/ Provision \/ AdminCrash
  \/ \E immediate \in BOOLEAN : Cancel(immediate)

Next ==
  \/ Tick \/ Admin
  \/ \E p \in Reqs : Request(p)
  \/ \E p \in Reqs, i \in Isolates, o \in Orgs, kind \in Kinds, cost \in Costs \cup {1} :
       Arrive(p, i, o, kind, cost)
  \/ \E i \in Isolates : Evict(i)

Spec == Init /\ [][Next]_vars

-----------------------------------------------------------------------------
(* Properties                                                               *)

PoolRecord ==
  [plan : Plans, allocation : Nat, remaining : Nat, overage : Nat, ceiling : Nat, end : Nat,
   status : {"active", "cancelled"}]
Rails == {"identity", "anonymous"}
KeyRecord == [made : {TRUE}, rail : Rails, sandbox : BOOLEAN, active : BOOLEAN, revoked : Nat, expires : Nat]
Past == {"check", "spend", "sign", "refund"}

\* Every variable has its type; no pool holds more than its allocation or meters
\* more than its ceiling.
TypeOK ==
  /\ now \in 0..Horizon
  /\ keys \in [Orgs -> {NoKey} \cup KeyRecord]
  /\ pools \in [Orgs -> {NoPool} \cup PoolRecord]
  /\ \A o \in Orgs : pools[o] # NoPool =>
       pools[o].remaining <= pools[o].allocation /\ pools[o].overage <= pools[o].ceiling
  /\ cache \in [Isolates -> [Orgs -> {Unknown} \cup [at : 0..Horizon, row : BOOLEAN]]]
  /\ req \in [Reqs -> {Idle} \cup [pc : Past \cup {"ask", "answered"}, i : Isolates, o : Orgs,
                                   kind : Kinds, cost : Costs \cup {1}, since : 0..Horizon,
                                   row : BOOLEAN, gen : Nat]]
  /\ adm \in {Idle} \cup [pc : {"create_key", "forget", "provision", "cancel"}, o : Orgs,
                          plan : Plans \cup {"none"}, ceiling : Ceilings \cup {0},
                          i : Isolates \cup {"none"}]
  /\ \A h \in {gen, granted, carried, lost} : h \in [Orgs -> Nat]

\* The credentials being signed on a charge to this filling of o's pool.
Held(o) == Cardinality({p \in Reqs : req[p].pc \in {"sign", "refund"} /\ req[p].o = o /\ Current(p)})
Open == {o \in Orgs : pools[o] # NoPool}

\* Nothing is free: whatever is spent at once, refunded late or answered by an
\* error, every credit of work done or under way is charged on the pool, but for
\* the credits a refund carried over from the period before.
NothingFree == \A o \in Open : granted[o] + Held(o) <= Used(o) + carried[o]

\* Nothing is charged twice: the pool is short only of work done, work under way
\* and what a lost answer or an immediate cancellation forfeited.
ChargedOnce == \A o \in Open : Used(o) <= granted[o] + Held(o) + lost[o]

\* A request that arrives KEY_CACHE_TTL after its key was revoked, or expired, is
\* refused by every isolate, also where the lookup was on its way meanwhile.
RevokedWithinTtl ==
  \A p \in Reqs : req[p].pc \in Past => req[p].since < DeadSince(req[p].o) + Ttl

\* A key of the identity rail never authorises without a pool, though onboarding and the
\* sandbox make the two by two calls and may stop in between; one of the anonymous rail
\* never comes to have one (api_auth.js:37-38), whatever is reset, provisioned or cancelled.
KeyHasPool ==
  \A o \in Orgs : keys[o].made => (keys[o].rail = "identity" <=> pools[o] # NoPool)

\* The SQL that binds and the JavaScript initiate asks first give the same answer
\* and the same pool, for every pool that comes about.
RulesAgree ==
  \A o \in Open : \A cost \in Costs \cup {1} :
    ApplyQuotaSpend(pools[o], cost) = IF Spendable(pools[o], cost) THEN Spent(pools[o], cost) ELSE NoPool
=============================================================================
