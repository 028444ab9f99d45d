--------------------------- MODULE CreditsProofs ---------------------------
(* Machine-checked facts about Credits, for every number of orgs, isolates, *)
(* requests, admin operations and faults, and every cost, allocation,       *)
(* ceiling and length of time.                                              *)
EXTENDS Credits, FiniteSetTheorems, TLAPS

Entry == [at : 0..Horizon, row : BOOLEAN]
Handler == [pc : Past \cup {"ask", "answered"}, i : Isolates, o : Orgs, kind : Kinds,
            cost : Costs \cup {1}, since : 0..Horizon, row : BOOLEAN, gen : Nat]
Operation == [pc : {"create_key", "forget", "provision", "cancel"}, o : Orgs, plan : Plans \cup {"none"},
              ceiling : Ceilings \cup {0}, i : Isolates \cup {"none"}]

\* A pool that is within its own limits.
IsPool(r) == r \in PoolRecord /\ r.remaining <= r.allocation /\ r.overage <= r.ceiling

KeyRow == {NoKey} \cup KeyRecord
PoolsOK == pools = [o \in Orgs |-> pools[o]] /\ \A o \in Orgs : pools[o] = NoPool \/ IsPool(pools[o])
HistoryOK == gen \in [Orgs -> Nat] /\ granted \in [Orgs -> Nat] /\ carried \in [Orgs -> Nat] /\ lost \in [Orgs -> Nat]

AdminOK ==
  /\ adm \in {Idle} \cup Operation
  /\ adm.pc \in {"create_key", "provision"} => adm.plan \in Plans
  /\ adm.pc = "forget" => adm.i \in Isolates

\* TypeOK variable by variable, with what is fixed when an admin operation begins.
TypeInv ==
  /\ now \in 0..Horizon
  /\ keys \in [Orgs -> KeyRow] /\ PoolsOK
  /\ cache \in [Isolates -> [Orgs -> {Unknown} \cup Entry]]
  /\ req \in [Reqs -> {Idle} \cup Handler]
  /\ AdminOK /\ HistoryOK

\* A lookup that found a row found it alive, so what it answers, in a request's hands or in
\* a cache, is no older than the key's end; the key cannot have ended before now and later
\* be alive.
AliveInv ==
  /\ \A o \in Orgs : keys[o].made /\ keys[o].active => keys[o].revoked = Never
  /\ adm.pc = "create_key" => ~keys[adm.o].made
  /\ \A p \in Reqs : req[p].pc # "idle" => req[p].since <= now
  /\ \A p \in Reqs : req[p].pc = "answered" /\ req[p].row => req[p].since <= DeadSince(req[p].o)
  /\ \A i \in Isolates, o \in Orgs :
       cache[i][o] # Unknown => cache[i][o].at <= now /\ (cache[i][o].row /\ keys[o].made => cache[i][o].at <= DeadSince(o))
  /\ RevokedWithinTtl

\* No pool is made or taken away by a step.
PoolsStay == \A o \in Orgs : pools[o] = NoPool <=> pools'[o] = NoPool

\* The pool is there before the key of the identity rail, and neither is ever taken away; a
\* pool is written only for the org of such a key, or of none, and a credit is given back
\* only to the pool it was taken from.
PoolInv ==
  /\ KeyHasPool
  /\ adm.pc = "create_key" => pools[adm.o] # NoPool
  /\ adm.pc \in {"cancel", "provision"} => keys[adm.o].made /\ keys[adm.o].rail = "identity"
  /\ \A p \in Reqs : req[p].pc # "idle" => keys[req[p].o].made
  /\ \A p \in Reqs : req[p].pc \in {"sign", "refund"} => pools[req[p].o] # NoPool

-----------------------------------------------------------------------------
(* The rules of a pool                                                      *)

LEMMA TimesTyped == /\ Never \in Nat /\ Month \in Nat /\ Ttl \in Nat /\ Life \in Nat /\ Horizon \in Nat
                    /\ Horizon + Life < Never /\ Horizon < Never /\ Ttl > 0
  BY CreditsAssumption, SMT DEF Never

LEMMA CostsTyped == \A cost \in Costs \cup {1} : cost \in Nat /\ cost > 0
  BY CreditsAssumption, SMT

\* A pool whose balance and meter, or these and its end, are written anew.
Metered(r, x, y) == [r EXCEPT !.remaining = x, !.overage = y]
Written(r, x, y, z) == [r EXCEPT !.remaining = x, !.overage = y, !.end = z]

LEMMA MeteredPool ==
  ASSUME NEW r \in PoolRecord, NEW x \in Nat, NEW y \in Nat, x <= r.allocation, y <= r.ceiling
  PROVE  IsPool(Metered(r, x, y))
  <1>1. Metered(r, x, y) \in PoolRecord BY DEF PoolRecord, Metered
  <1>2. Metered(r, x, y).remaining = x /\ Metered(r, x, y).overage = y BY DEF PoolRecord, Metered
  <1>3. Metered(r, x, y).allocation = r.allocation /\ Metered(r, x, y).ceiling = r.ceiling
    BY DEF PoolRecord, Metered
  <1> QED BY <1>1, <1>2, <1>3 DEF IsPool

LEMMA WrittenPool ==
  ASSUME NEW r \in PoolRecord, NEW x \in Nat, NEW y \in Nat, NEW z \in Nat, x <= r.allocation, y <= r.ceiling
  PROVE  IsPool(Written(r, x, y, z))
  <1>1. Written(r, x, y, z) \in PoolRecord BY DEF PoolRecord, Written
  <1>2. Written(r, x, y, z).remaining = x /\ Written(r, x, y, z).overage = y BY DEF PoolRecord, Written
  <1>3. Written(r, x, y, z).allocation = r.allocation /\ Written(r, x, y, z).ceiling = r.ceiling
    BY DEF PoolRecord, Written
  <1> QED BY <1>1, <1>2, <1>3 DEF IsPool

LEMMA RolledPool ==
  ASSUME NEW r, IsPool(r)
  PROVE  IsPool(Rolled(r))
  <1>1. CASE Rolled(r) = r BY <1>1
  <1>2. CASE Rolled(r) = Written(r, r.allocation, 0, r.end + Month)
    <2>1. /\ r \in PoolRecord /\ r.allocation \in Nat /\ r.end + Month \in Nat
          /\ r.ceiling \in Nat /\ 0 \in Nat /\ r.allocation <= r.allocation /\ 0 <= r.ceiling
      BY TimesTyped, SMT DEF IsPool, PoolRecord
    <2> QED BY <1>2, <2>1, WrittenPool
  <1>3. Rolled(r) = r \/ Rolled(r) = Written(r, r.allocation, 0, r.end + Month)
    BY DEF Rolled, AddMonth, Written
  <1> QED BY <1>1, <1>2, <1>3

LEMMA SpentPool ==
  ASSUME NEW r, IsPool(r), NEW cost \in Nat, Spendable(r, cost)
  PROVE  IsPool(Spent(r, cost))
  <1> DEFINE s == Rolled(r)
  <1>1. IsPool(s) BY RolledPool
  <1>2. s.remaining >= cost \/ s.overage + (cost - s.remaining) <= s.ceiling
    BY DEF Spendable
  <1> HIDE DEF s
  <1>3. CASE s.remaining >= cost
    <2>1. Spent(r, cost) = Metered(s, s.remaining - (cost - 0), s.overage + 0)
      BY <1>3 DEF Spent, s, Metered
    <2>2. /\ s \in PoolRecord /\ s.remaining - (cost - 0) \in Nat /\ s.overage + 0 \in Nat
          /\ s.remaining - (cost - 0) <= s.allocation /\ s.overage + 0 <= s.ceiling
      BY <1>1, <1>3, SMT DEF IsPool, PoolRecord
    <2> QED BY <2>1, <2>2, MeteredPool
  <1>4. CASE ~(s.remaining >= cost)
    <2>1. Spent(r, cost) = Metered(s, s.remaining - (cost - (cost - s.remaining)), s.overage + (cost - s.remaining))
      BY <1>4 DEF Spent, s, Metered
    <2>2. /\ s \in PoolRecord /\ s.remaining - (cost - (cost - s.remaining)) \in Nat
          /\ s.overage + (cost - s.remaining) \in Nat
          /\ s.remaining - (cost - (cost - s.remaining)) <= s.allocation
          /\ s.overage + (cost - s.remaining) <= s.ceiling
      BY <1>1, <1>2, <1>4, SMT DEF IsPool, PoolRecord
    <2> QED BY <2>1, <2>2, MeteredPool
  <1> QED BY <1>3, <1>4

LEMMA RefundedPool ==
  ASSUME NEW r, IsPool(r), NEW cost \in Nat
  PROVE  IsPool(Refunded(r, cost))
  <1> DEFINE over == Min2(r.overage, cost)
             left == Min2(r.allocation, r.remaining + (cost - over))
  <1>1. /\ r \in PoolRecord /\ r.remaining \in Nat /\ r.allocation \in Nat /\ r.overage \in Nat
        /\ r.ceiling \in Nat /\ r.remaining <= r.allocation /\ r.overage <= r.ceiling
    BY DEF IsPool, PoolRecord
  <1>2. over \in Nat /\ over <= r.overage /\ over <= cost
    BY <1>1, SMT DEF Min2
  <1>3. Refunded(r, cost) = Metered(r, left, r.overage - over)
    BY <1>1 DEF Refunded, PoolRecord, Metered
  <1>4. left \in Nat /\ left <= r.allocation
    <2> HIDE DEF over
    <2> QED BY <1>1, <1>2, SMT DEF Min2
  <1>5. r.overage - over \in Nat /\ r.overage - over <= r.ceiling
    <2> HIDE DEF over
    <2> QED BY <1>1, <1>2, SMT
  <1> HIDE DEF over, left
  <1> QED BY <1>1, <1>3, <1>4, <1>5, MeteredPool

LEMMA ProvisionedPool ==
  ASSUME NEW plan \in Plans, NEW ceiling \in Ceilings \cup {0}, NEW start \in Nat, NEW length \in Nat
  PROVE  IsPool(Provisioned(plan, ceiling, start, length))
  <1>1. Allocation[plan] \in Nat /\ ceiling \in Nat BY CreditsAssumption
  <1> QED BY <1>1, SMT DEF IsPool, PoolRecord, Provisioned

\* For any pool within its limits and any cost, the rule in SQL and the rule in JavaScript
\* refuse together, and leave the same pool.
LEMMA SameRules ==
  ASSUME NEW r, IsPool(r), NEW cost \in Nat
  PROVE  ApplyQuotaSpend(r, cost) = IF Spendable(r, cost) THEN Spent(r, cost) ELSE NoPool
  <1> DEFINE m == Rolled(r)
  <1>1. IsPool(m) BY RolledPool
  <1>2. CASE r.status = "cancelled" /\ (now >= r.end \/ r.remaining <= 0)
    BY <1>2 DEF ApplyQuotaSpend, Spendable, Cancelled
  <1>3. CASE ~(r.status = "cancelled" /\ (now >= r.end \/ r.remaining <= 0))
    <2>1. ApplyQuotaSpend(r, cost) =
            IF m.plan \in HardStop
            THEN IF m.remaining < cost THEN NoPool ELSE [m EXCEPT !.remaining = @ - cost]
            ELSE IF m.remaining >= cost THEN [m EXCEPT !.remaining = @ - cost]
            ELSE IF m.overage + (cost - m.remaining) > m.ceiling THEN NoPool
            ELSE [m EXCEPT !.remaining = 0, !.overage = m.overage + (cost - m.remaining)]
      BY <1>3, Zenon DEF ApplyQuotaSpend, Rolled, Cancelled, AddMonth
    <2>2. Spendable(r, cost) <=>
            m.remaining >= cost \/ (m.plan \notin HardStop /\ m.overage + (cost - m.remaining) <= m.ceiling)
      BY <1>3 DEF Spendable, Cancelled
    <2>3. Spent(r, cost) =
            IF m.remaining >= cost THEN [m EXCEPT !.remaining = @ - (cost - 0), !.overage = @ + 0]
            ELSE [m EXCEPT !.remaining = @ - (cost - (cost - m.remaining)), !.overage = @ + (cost - m.remaining)]
      BY DEF Spent
    <2> HIDE DEF m
    <2>4. m.remaining \in Nat /\ m.overage \in Nat /\ m.ceiling \in Nat /\ m \in PoolRecord
      BY <1>1 DEF IsPool, PoolRecord
    <2>5. CASE m.remaining >= cost
      <3>1. [m EXCEPT !.remaining = @ - (cost - 0), !.overage = @ + 0] = [m EXCEPT !.remaining = @ - cost]
        <4>1. m.remaining - (cost - 0) = m.remaining - cost /\ m.overage + 0 = m.overage
          BY <2>4, SMT
        <4> QED BY <2>4, <4>1 DEF PoolRecord
      <3>2. ~(m.remaining < cost) BY <2>4, <2>5, SMT
      <3> QED BY <2>1, <2>2, <2>3, <2>5, <3>1, <3>2
    <2>6. CASE ~(m.remaining >= cost)
      <3>1. m.remaining < cost BY <2>4, <2>6, SMT
      <3>2. [m EXCEPT !.remaining = @ - (cost - (cost - m.remaining)), !.overage = @ + (cost - m.remaining)]
            = [m EXCEPT !.remaining = 0, !.overage = m.overage + (cost - m.remaining)]
        <4>1. m.remaining - (cost - (cost - m.remaining)) = 0 BY <2>4, SMT
        <4> QED BY <2>4, <4>1 DEF PoolRecord
      <3>3. m.overage + (cost - m.remaining) > m.ceiling <=> ~(m.overage + (cost - m.remaining) <= m.ceiling)
        BY <2>4, SMT
      <3> QED BY <2>1, <2>2, <2>3, <2>6, <3>1, <3>2, <3>3
    <2> QED BY <2>5, <2>6
  <1> QED BY <1>2, <1>3

-----------------------------------------------------------------------------
(* Types                                                                    *)

LEMMA TypeInvIsTypeOK == TypeInv => TypeOK
  <1> SUFFICES ASSUME TypeInv PROVE TypeOK OBVIOUS
  <1>1. pools \in [Orgs -> {NoPool} \cup PoolRecord]
    BY DEF TypeInv, PoolsOK, IsPool
  <1>2. \A o \in Orgs : pools[o] # NoPool =>
          pools[o].remaining <= pools[o].allocation /\ pools[o].overage <= pools[o].ceiling
    BY DEF TypeInv, PoolsOK, IsPool
  <1>3. \A h \in {gen, granted, carried, lost} : h \in [Orgs -> Nat]
    BY DEF TypeInv, HistoryOK
  <1>4. adm \in {Idle} \cup Operation BY DEF TypeInv, AdminOK
  <1> QED BY <1>1, <1>2, <1>3, <1>4, Zenon DEF TypeInv, TypeOK, KeyRow, Entry, Handler, Operation

LEMMA InitTyped == Init => TypeInv
  <1> SUFFICES ASSUME Init PROVE TypeInv OBVIOUS
  <1>1. now \in 0..Horizon BY TimesTyped, SMT DEF Init
  <1>2. keys \in [Orgs -> KeyRow] BY DEF Init, KeyRow
  <1>3. PoolsOK BY DEF Init, PoolsOK
  <1>4. cache \in [Isolates -> [Orgs -> {Unknown} \cup Entry]] BY DEF Init
  <1>5. AdminOK /\ req \in [Reqs -> {Idle} \cup Handler] BY DEF Init, AdminOK, Idle
  <1>6. HistoryOK BY DEF Init, HistoryOK
  <1> QED BY <1>1, <1>2, <1>3, <1>4, <1>5, <1>6 DEF TypeInv

\* A handler past "idle" is a record of its call.
LEMMA Handling ==
  ASSUME TypeInv, NEW p \in Reqs, NEW label, At(p, label), label # "idle"
  PROVE  req[p] \in Handler /\ req[p].o \in Orgs
  BY DEF TypeInv, At, Idle, Handler

LEMMA PoolWritten ==
  ASSUME TypeInv, NEW o \in Orgs, NEW r, IsPool(r), pools' = [pools EXCEPT ![o] = r]
  PROVE  PoolsOK' /\ (pools[o] # NoPool => PoolsStay)
  <1>1. r # NoPool BY DEF IsPool, PoolRecord, NoPool, Plans, HardStop
  <1> QED BY <1>1 DEF TypeInv, PoolsOK, PoolsStay

LEMMA Refilled ==
  ASSUME TypeInv, NEW o \in Orgs, NEW g \in Nat, NEW c \in Nat, NEW l \in Nat, Refill(o, g, c, l)
  PROVE  HistoryOK'
  BY DEF TypeInv, HistoryOK, Refill

LEMMA Charged ==
  ASSUME TypeInv, NEW p \in Reqs, At(p, "spend"), CanSpend(p), NEW g \in Nat, NEW l \in Nat, Charge(p, g, l)
  PROVE  PoolsOK' /\ PoolsStay /\ HistoryOK'
  <1> DEFINE o == req[p].o
  <1>1. req[p] \in Handler /\ o \in Orgs BY Handling
  <1>2. req[p].cost \in Nat BY <1>1, CostsTyped DEF Handler
  <1>3. IsPool(pools[o]) BY <1>1 DEF TypeInv, PoolsOK, CanSpend
  <1>4. IsPool(Spent(pools[o], req[p].cost)) BY <1>2, <1>3, SpentPool DEF CanSpend
  <1>5. pools' = [pools EXCEPT ![o] = Spent(pools[o], req[p].cost)]
    BY DEF Charge
  <1>6. PoolsOK' /\ PoolsStay BY <1>1, <1>4, <1>5, PoolWritten DEF CanSpend
  <1>7. CASE Rolls(o)
    <2>1. Refill(o, g, 0, l) BY <1>7 DEF Charge
    <2>2. 0 \in Nat OBVIOUS
    <2> QED BY <1>1, <1>6, <2>1, <2>2, Refilled
  <1>8. CASE ~Rolls(o)
    <2>1. /\ granted' = [granted EXCEPT ![o] = @ + g] /\ lost' = [lost EXCEPT ![o] = @ + l]
          /\ UNCHANGED <<gen, carried>>
      BY <1>8 DEF Charge
    <2>2. granted[o] + g \in Nat /\ lost[o] + l \in Nat
      BY <1>1 DEF TypeInv, HistoryOK
    <2> HIDE DEF o
    <2> QED BY <1>1, <1>6, <2>1, <2>2 DEF TypeInv, HistoryOK
  <1> QED BY <1>7, <1>8

LEMMA GivenBack ==
  ASSUME TypeInv, NEW p \in Reqs, At(p, "refund"), GiveBack(p), UNCHANGED <<gen, granted>>,
         pools[req[p].o] # NoPool,
         UNCHANGED lost
  PROVE  PoolsOK' /\ PoolsStay /\ HistoryOK'
  <1> DEFINE o == req[p].o
  <1>1. o \in Orgs BY Handling
  <1>2. IsPool(pools[o]) BY <1>1 DEF TypeInv, PoolsOK
  <1>3. IsPool(Refunded(pools[o], 1)) BY <1>2, RefundedPool
  <1>4. pools' = [pools EXCEPT ![o] = Refunded(pools[o], 1)] BY DEF GiveBack
  <1>5. PoolsOK' /\ PoolsStay BY <1>1, <1>3, <1>4, PoolWritten
  <1>6. carried' = carried \/ carried' = [carried EXCEPT ![o] = @ + 1] BY DEF GiveBack
  <1>7. HistoryOK' BY <1>1, <1>6 DEF TypeInv, HistoryOK
  <1> QED BY <1>5, <1>7

\* A request goes to another state, or ends.
LEMMA Moved ==
  ASSUME TypeInv, NEW p \in Reqs, NEW r \in {Idle} \cup Handler, req' = [req EXCEPT ![p] = r]
  PROVE  req' \in [Reqs -> {Idle} \cup Handler]
  BY DEF TypeInv

LEMMA Ended ==
  ASSUME TypeInv, NEW p \in Reqs, Done(p)
  PROVE  req' \in [Reqs -> {Idle} \cup Handler]
  BY DEF TypeInv, Done

LEMMA Gone ==
  ASSUME TypeInv, NEW p \in Reqs, NEW label \in Past, req[p] \in Handler, Goto(p, label)
  PROVE  req' \in [Reqs -> {Idle} \cup Handler]
  <1>1. [req[p] EXCEPT !.pc = label] \in Handler BY DEF Handler
  <1>2. req' = [req EXCEPT ![p] = [req[p] EXCEPT !.pc = label]] BY DEF Goto, TypeInv
  <1> QED BY <1>1, <1>2, Moved

LEMMA AdmittedTyped ==
  ASSUME NEW r \in Handler
  PROVE  /\ Admitted(r) \in Handler /\ Admitted(r).pc \in {"check", "spend"}
         /\ Admitted(r).o = r.o /\ Admitted(r).since = r.since
         /\ Admitted(r).kind = r.kind /\ Admitted(r).cost = r.cost
  BY DEF Handler, Admitted, Past

LEMMA AdmitTyped ==
  ASSUME TypeInv, NEW p \in Reqs, req[p] \in Handler, Admit(p)
  PROVE  req' \in [Reqs -> {Idle} \cup Handler]
  <1>1. CASE Done(p) BY <1>1, Ended
  <1>2. CASE req' = [req EXCEPT ![p] = Admitted(req[p])] BY <1>2, AdmittedTyped, Moved
  <1> QED BY <1>1, <1>2 DEF Admit

LEMMA RequestTyped ==
  ASSUME TypeInv, PoolInv, NEW p \in Reqs, Request(p)
  PROVE  TypeInv'
  <1> USE DEF store, history
  <1>p. \A label \in Past : At(p, label) => req[p] \in Handler BY Handling DEF Past
  <1>q. At(p, "refund") => pools[req[p].o] # NoPool BY DEF PoolInv, At
  <1>1. CASE Ask(p)
    <2>1. req[p] \in Handler /\ KeyValid(keys[req[p].o]) \in BOOLEAN
      BY <1>1, Handling DEF Ask, KeyValid, TypeInv, KeyRow, KeyRecord, NoKey
    <2>2. [req[p] EXCEPT !.pc = "answered", !.row = KeyValid(keys[req[p].o])] \in Handler
      BY <2>1 DEF Handler
    <2>3. req' = [req EXCEPT ![p] = [req[p] EXCEPT !.pc = "answered", !.row = KeyValid(keys[req[p].o])]]
      BY <1>1 DEF Ask, TypeInv
    <2>4. req' \in [Reqs -> {Idle} \cup Handler] BY <2>2, <2>3, Moved
    <2> QED BY <1>1, <2>4 DEF Ask, TypeInv, PoolsOK, HistoryOK, AdminOK
  <1>2. CASE CacheAnswer(p)
    <2>1. req[p] \in Handler BY <1>2, Handling DEF CacheAnswer
    <2>2. req' \in [Reqs -> {Idle} \cup Handler] BY <1>2, <2>1, AdmitTyped DEF CacheAnswer
    <2>3. [at |-> req[p].since, row |-> req[p].row] \in Entry BY <2>1 DEF Handler, Entry
    <2>4. cache' \in [Isolates -> [Orgs -> {Unknown} \cup Entry]]
      BY <1>2, <2>1, <2>3 DEF CacheAnswer, TypeInv, Handler
    <2> QED BY <1>2, <2>2, <2>4 DEF CacheAnswer, TypeInv, PoolsOK, HistoryOK, AdminOK
  <1>3. CASE Check(p)
    <2>1. req' \in [Reqs -> {Idle} \cup Handler] BY <1>3, <1>p, Gone, Ended DEF Check, Past
    <2> QED BY <1>3, <2>1 DEF Check, TypeInv, PoolsOK, HistoryOK, AdminOK
  <1>4. CASE SpendRefused(p)
    <2>1. req' \in [Reqs -> {Idle} \cup Handler] BY <1>4, Ended DEF SpendRefused
    <2> QED BY <1>4, <2>1 DEF SpendRefused, TypeInv, PoolsOK, HistoryOK, AdminOK
  <1>5. CASE Spend(p)
    <2>1. req[p] \in Handler BY <1>5, <1>p DEF Spend, Past
    <2>2. CASE req[p].kind = "issue"
      <3>1. Charge(p, 0, 0) /\ req' = [req EXCEPT ![p].pc = "sign", ![p].gen = gen'[req[p].o]]
        BY <1>5, <2>2 DEF Spend
      <3>2. PoolsOK' /\ HistoryOK' BY <1>5, <3>1, Charged DEF Spend
      <3>3. [req[p] EXCEPT !.pc = "sign", !.gen = gen'[req[p].o]] \in Handler
        BY <2>1, <3>2 DEF Handler, HistoryOK, Past
      <3>4. req' = [req EXCEPT ![p] = [req[p] EXCEPT !.pc = "sign", !.gen = gen'[req[p].o]]]
        BY <3>1 DEF TypeInv
      <3>5. req' \in [Reqs -> {Idle} \cup Handler] BY <3>3, <3>4, Moved
      <3> QED BY <1>5, <3>2, <3>5 DEF Spend, TypeInv, AdminOK
    <2>3. CASE req[p].kind # "issue"
      <3>1. Charge(p, req[p].cost, 0) /\ Done(p) BY <1>5, <2>3 DEF Spend
      <3>2. PoolsOK' /\ HistoryOK' BY <1>5, <2>1, <3>1, Charged, CostsTyped DEF Spend, Handler
      <3> QED BY <1>5, <3>1, <3>2, Ended DEF Spend, TypeInv, AdminOK
    <2> QED BY <2>2, <2>3
  <1>6. CASE SpendLost(p)
    <2>1. req[p] \in Handler BY <1>6, <1>p DEF SpendLost, Past
    <2>2. PoolsOK' /\ HistoryOK' BY <1>6, <2>1, Charged, CostsTyped DEF SpendLost, Handler
    <2> QED BY <1>6, <2>2, Ended DEF SpendLost, TypeInv, AdminOK
  <1>7. CASE Sign(p)
    <2>1. req[p] \in Handler BY <1>7, <1>p DEF Sign, Past
    <2>2. granted' \in [Orgs -> Nat] BY <1>7, <2>1 DEF Sign, TypeInv, HistoryOK, Handler
    <2> QED BY <1>7, <2>2, Ended DEF Sign, TypeInv, PoolsOK, HistoryOK, AdminOK
  <1>8. CASE SignFails(p)
    <2>1. req' \in [Reqs -> {Idle} \cup Handler] BY <1>8, <1>p, Gone DEF SignFails, Past
    <2> QED BY <1>8, <2>1 DEF SignFails, TypeInv, PoolsOK, HistoryOK, AdminOK
  <1>9. CASE Refund(p)
    <2>1. PoolsOK' /\ HistoryOK' BY <1>9, <1>q, GivenBack DEF Refund
    <2> QED BY <1>9, <2>1, Ended DEF Refund, TypeInv, AdminOK
  <1>10. CASE RefundLost(p)
    <2>1. PoolsOK' /\ HistoryOK' BY <1>10, <1>q, GivenBack DEF RefundLost
    <2> QED BY <1>10, <2>1, Ended DEF RefundLost, TypeInv, AdminOK
  <1>11. CASE Crash(p)
    <2>1. req[p].pc \in {"sign", "refund"} => req[p].o \in Orgs BY Handling DEF At
    <2>2. lost' \in [Orgs -> Nat] BY <1>11, <2>1 DEF Crash, Drop, TypeInv, HistoryOK
    <2> QED BY <1>11, <2>2, Ended DEF Crash, Drop, TypeInv, PoolsOK, HistoryOK, AdminOK
  <1> QED BY <1>1, <1>2, <1>3, <1>4, <1>5, <1>6, <1>7, <1>8, <1>9, <1>10, <1>11 DEF Request

Arrives(p) ==
  \E i \in Isolates, o \in Orgs, kind \in Kinds, cost \in Costs \cup {1} : Arrive(p, i, o, kind, cost)

\* What an arriving request becomes: a lookup, or past authentication on a fresh entry.
LEMMA Arrival ==
  ASSUME TypeInv, NEW p \in Reqs, NEW i \in Isolates, NEW o \in Orgs, NEW kind \in Kinds,
         NEW cost \in Costs \cup {1}, Arrive(p, i, o, kind, cost)
  PROVE  \E r \in {Idle} \cup Handler :
           /\ req' = [req EXCEPT ![p] = r]
           /\ r # Idle => /\ r.o = o /\ r.since = now /\ r.kind = kind /\ r.cost = cost
                         /\ \/ r.pc = "ask"
                            \/ /\ r.pc \in {"check", "spend"} /\ cache[i][o] # Unknown
                               /\ cache[i][o].row /\ now - cache[i][o].at < Ttl
  <1> DEFINE hit == cache[i][o]
             fresh == hit # Unknown /\ now - hit.at < Ttl
             asking == [pc |-> "ask", i |-> i, o |-> o, kind |-> kind, cost |-> cost,
                        since |-> now, row |-> FALSE, gen |-> 0]
  <1>1. asking \in Handler BY SMT DEF TypeInv, Handler
  <1>2. asking.o = o /\ asking.since = now /\ asking.pc = "ask" /\ asking.kind = kind /\ asking.cost = cost
    OBVIOUS
  <1>3. req' = [req EXCEPT ![p] = IF ~fresh THEN asking ELSE IF hit.row THEN Admitted(asking) ELSE @]
    BY DEF Arrive
  <1> HIDE DEF asking
  <1>4. CASE ~fresh BY <1>1, <1>2, <1>3, <1>4
  <1>5. CASE fresh /\ hit.row
    <2>1. /\ Admitted(asking) \in Handler /\ Admitted(asking).pc \in {"check", "spend"}
          /\ Admitted(asking).o = o /\ Admitted(asking).since = now
          /\ Admitted(asking).kind = kind /\ Admitted(asking).cost = cost
      BY <1>1, <1>2, AdmittedTyped
    <2> QED BY <1>3, <1>5, <2>1
  <1>6. CASE fresh /\ ~hit.row
    <2>1. req[p] = Idle BY DEF Arrive, At, TypeInv, Idle, Handler, Past
    <2> QED BY <1>3, <1>6, <2>1
  <1> QED BY <1>4, <1>5, <1>6

LEMMA ArriveTyped ==
  ASSUME TypeInv, NEW p \in Reqs, Arrives(p)
  PROVE  TypeInv'
  <1>1. PICK i \in Isolates, o \in Orgs, kind \in Kinds, cost \in Costs \cup {1} : Arrive(p, i, o, kind, cost)
    BY DEF Arrives
  <1>2. req' \in [Reqs -> {Idle} \cup Handler] BY <1>1, Arrival, Moved
  <1> QED BY <1>1, <1>2 DEF Arrive, store, history, TypeInv, PoolsOK, HistoryOK, AdminOK

LEMMA KeyTyped ==
  ASSUME TypeInv, NEW plan \in Plans, NEW rail \in Rails
  PROVE  /\ Key(plan, rail) \in KeyRecord /\ Key(plan, rail).made /\ Key(plan, rail).rail = rail
         /\ Key(plan, rail).revoked = Never /\ Key(plan, rail).expires > now
  <1>1. Never \in Nat /\ now + Life \in Nat /\ now + Life > now /\ Never > now
    BY TimesTyped, CreditsAssumption, SMT DEF TypeInv
  <1>2. Key(plan, rail).expires \in {now + Life, Never} BY DEF Key
  <1> QED BY <1>1, <1>2 DEF Key, KeyRecord

LEMMA BeginTyped ==
  ASSUME TypeInv, NEW pc, NEW o \in Orgs, NEW plan \in Plans \cup {"none"},
         NEW ceiling \in Ceilings \cup {0}, NEW i \in Isolates \cup {"none"},
         \/ pc \in {"create_key", "provision"} /\ plan \in Plans
         \/ pc = "forget" /\ i \in Isolates
         \/ pc = "cancel",
         Begin(pc, o, plan, ceiling, i)
  PROVE  AdminOK' /\ adm'.pc = pc /\ adm'.o = o
  BY DEF Begin, AdminOK, Operation

LEMMA FillTyped ==
  ASSUME TypeInv, NEW o \in Orgs, NEW plan \in Plans, NEW ceiling \in Ceilings \cup {0}, Fill(o, plan, ceiling)
  PROVE  PoolsOK' /\ HistoryOK' /\ pools'[o] # NoPool /\ \A x \in Orgs \ {o} : pools'[x] = pools[x]
  <1> DEFINE length == IF plan = "sandbox" THEN Life ELSE Month
             r == Provisioned(plan, ceiling, now, length)
  <1>1. now \in Nat /\ length \in Nat BY TimesTyped DEF TypeInv
  <1>2. IsPool(r)
    <2> HIDE DEF length
    <2> QED BY <1>1, ProvisionedPool
  <1>3. pools' = [pools EXCEPT ![o] = r] /\ Refill(o, 0, 0, 0) BY DEF Fill
  <1>4. r # NoPool BY DEF Provisioned, NoPool
  <1> HIDE DEF r
  <1>5. PoolsOK' BY <1>2, <1>3, PoolWritten
  <1>6. 0 \in Nat OBVIOUS
  <1>7. HistoryOK' BY <1>3, <1>6, Refilled
  <1> QED BY <1>3, <1>4, <1>5, <1>7 DEF TypeInv, PoolsOK

\* What Idle is to the parts that look at adm.
LEMMA AdminIdle == adm' = Idle => AdminOK'
  BY DEF AdminOK, Idle

LEMMA AdminTyped ==
  ASSUME TypeInv, PoolInv, Admin
  PROVE  TypeInv'
  <1> USE DEF store, history
  <1>1. ASSUME NEW o \in Orgs, NEW plan \in Plans, NEW ceiling \in Ceilings, Create(o, plan, ceiling)
        PROVE  TypeInv'
    <2>1. AdminOK' BY <1>1, BeginTyped DEF Create
    <2>2. PoolsOK' /\ HistoryOK' BY <1>1, FillTyped DEF Create
    <2> QED BY <1>1, <2>1, <2>2 DEF Create, TypeInv
  <1>2. ASSUME NEW o \in Orgs, NEW plan \in Plans \cup {"none"}, NEW ceiling \in Ceilings \cup {0},
               \/ Find("provision", o, plan, ceiling) /\ plan \in Plans
               \/ Find("cancel", o, plan, ceiling)
        PROVE  TypeInv'
    <2>1. AdminOK' BY <1>2, BeginTyped DEF Find
    <2> QED BY <1>2, <2>1 DEF Find, TypeInv, PoolsOK, HistoryOK
  <1>3. ASSUME NEW o \in Orgs, NEW i \in Isolates, Revoke(o, i)
        PROVE  TypeInv'
    <2>1. AdminOK' BY <1>3, BeginTyped DEF Revoke
    <2>2. keys[o] \in KeyRecord BY <1>3 DEF Revoke, TypeInv, KeyRow, NoKey
    <2>3. [keys[o] EXCEPT !.active = FALSE, !.revoked = Min2(keys[o].revoked, now)] \in KeyRecord
      <3>1. Min2(keys[o].revoked, now) \in Nat BY <2>2 DEF Min2, KeyRecord, TypeInv
      <3> QED BY <2>2, <3>1 DEF KeyRecord
    <2>4. keys' = [keys EXCEPT ![o] = [keys[o] EXCEPT !.active = FALSE, !.revoked = Min2(keys[o].revoked, now)]]
      BY <1>3 DEF Revoke, TypeInv
    <2>5. keys' \in [Orgs -> KeyRow] BY <2>3, <2>4 DEF TypeInv, KeyRow
    <2> QED BY <1>3, <2>1, <2>5 DEF Revoke, TypeInv, PoolsOK, HistoryOK
  <1>4. CASE CreateKey
    <2>1. adm.o \in Orgs /\ adm.plan \in Plans BY <1>4 DEF CreateKey, TypeInv, AdminOK, Operation, Idle
    <2>2. keys' \in [Orgs -> KeyRow] BY <1>4, <2>1, KeyTyped DEF CreateKey, TypeInv, KeyRow, Rails
    <2> QED BY <1>4, <2>2, AdminIdle DEF CreateKey, TypeInv, PoolsOK, HistoryOK
  <1>5. CASE Forget
    <2>1. adm.o \in Orgs /\ adm.i \in Isolates BY <1>5 DEF Forget, TypeInv, AdminOK, Operation, Idle
    <2>2. cache' \in [Isolates -> [Orgs -> {Unknown} \cup Entry]] BY <1>5, <2>1 DEF Forget, TypeInv
    <2> QED BY <1>5, <2>2, AdminIdle DEF Forget, TypeInv, PoolsOK, HistoryOK
  <1>6. CASE Provision
    <2>1. adm.o \in Orgs /\ adm.plan \in Plans /\ adm.ceiling \in Ceilings \cup {0}
      BY <1>6 DEF Provision, TypeInv, AdminOK, Operation, Idle
    <2>2. PoolsOK' /\ HistoryOK' BY <1>6, <2>1, FillTyped DEF Provision
    <2> QED BY <1>6, <2>2, AdminIdle DEF Provision, TypeInv
  <1>7. CASE AdminCrash
    BY <1>7, AdminIdle DEF AdminCrash, TypeInv, PoolsOK, HistoryOK
  <1>8. ASSUME NEW immediate \in BOOLEAN, Cancel(immediate)
        PROVE  TypeInv'
    <2>1. adm.o \in Orgs BY <1>8 DEF Cancel, TypeInv, AdminOK, Operation, Idle
    <2>2. IsPool(pools[adm.o]) BY <1>8, <2>1 DEF Cancel, PoolInv, KeyHasPool, TypeInv, PoolsOK
    <2>3. CASE Cancelled(pools[adm.o])
      <3>1. pools' = pools /\ lost' = lost BY <1>8, <2>3 DEF Cancel
      <3> QED BY <1>8, <3>1, AdminIdle DEF Cancel, TypeInv, PoolsOK, HistoryOK
    <2>4. CASE ~Cancelled(pools[adm.o])
      <3> DEFINE left == IF immediate THEN 0 ELSE pools[adm.o].remaining
                 r == [pools[adm.o] EXCEPT !.status = "cancelled", !.remaining = left]
      <3>1. left \in Nat /\ left <= pools[adm.o].allocation BY <2>2, SMT DEF IsPool, PoolRecord
      <3>2. IsPool(r)
        <4> HIDE DEF left
        <4>1. r \in PoolRecord BY <2>2, <3>1 DEF IsPool, PoolRecord
        <4>2. r.remaining = left /\ r.allocation = pools[adm.o].allocation BY <2>2 DEF IsPool, PoolRecord
        <4>3. r.overage = pools[adm.o].overage /\ r.ceiling = pools[adm.o].ceiling
          BY <2>2 DEF IsPool, PoolRecord
        <4> HIDE DEF r
        <4> QED BY <2>2, <3>1, <4>1, <4>2, <4>3 DEF IsPool
      <3>3. pools' = [pools EXCEPT ![adm.o] = r] BY <1>8, <2>1, <2>4 DEF Cancel, TypeInv, PoolsOK
      <3>4. PoolsOK' BY <2>1, <3>2, <3>3, PoolWritten
      <3>5. lost' = lost \/ lost' = [lost EXCEPT ![adm.o] = @ + pools[adm.o].remaining]
        BY <1>8 DEF Cancel
      <3>6. pools[adm.o].remaining \in Nat BY <2>2 DEF IsPool, PoolRecord
      <3>7. HistoryOK' BY <1>8, <2>1, <3>5, <3>6 DEF Cancel, TypeInv, HistoryOK
      <3> QED BY <1>8, <3>4, <3>7, AdminIdle DEF Cancel, TypeInv
    <2> QED BY <2>3, <2>4
  <1>9. ASSUME NEW o \in Orgs, CreateAnonymous(o)
        PROVE  TypeInv'
    <2>1. keys' \in [Orgs -> KeyRow]
      BY <1>9, KeyTyped DEF CreateAnonymous, TypeInv, KeyRow, Rails, Plans, HardStop
    <2> QED BY <1>9, <2>1 DEF CreateAnonymous, TypeInv, PoolsOK, HistoryOK, AdminOK
  <1> QED BY <1>1, <1>2, <1>3, <1>4, <1>5, <1>6, <1>7, <1>8, <1>9 DEF Admin

LEMMA OtherTyped ==
  ASSUME TypeInv, Tick \/ (\E i \in Isolates : Evict(i)) \/ UNCHANGED vars
  PROVE  TypeInv'
  <1> USE DEF store, history
  <1>1. CASE Tick
    <2>1. now' \in 0..Horizon BY <1>1, TimesTyped, SMT DEF Tick, TypeInv
    <2> QED BY <1>1, <2>1 DEF Tick, TypeInv, PoolsOK, HistoryOK, AdminOK
  <1>2. CASE \E i \in Isolates : Evict(i)
    <2>1. cache' \in [Isolates -> [Orgs -> {Unknown} \cup Entry]] BY <1>2 DEF Evict, TypeInv
    <2> QED BY <1>2, <2>1 DEF Evict, TypeInv, PoolsOK, HistoryOK, AdminOK
  <1>3. CASE UNCHANGED vars BY <1>3 DEF vars, TypeInv, PoolsOK, HistoryOK, AdminOK
  <1> QED BY <1>1, <1>2, <1>3

-----------------------------------------------------------------------------
(* A key has a pool                                                         *)

\* What a step of p may do to p: end it, or take it on, with the key it asks for and the
\* time it came at; it is admitted only on a row.
Moves(p, r) ==
  /\ req' = [req EXCEPT ![p] = r]
  /\ r # Idle =>
       /\ r.pc # "idle" /\ r.o = req[p].o /\ r.since = req[p].since
       /\ r.kind = req[p].kind /\ r.cost = req[p].cost
       /\ r.pc = "answered" => At(p, "ask") /\ r.row = KeyValid(keys[r.o])
       /\ r.pc \in Past => req[p].pc \in Past \/ (At(p, "answered") /\ req[p].row)

LEMMA RequestMoves ==
  ASSUME TypeInv, NEW p \in Reqs, Request(p)
  PROVE  req[p] \in Handler /\ \E r \in {Idle} \cup Handler : Moves(p, r)
  <1>1. req[p] \in Handler
    BY Handling DEF Request, Ask, CacheAnswer, Check, SpendRefused, Spend, SpendLost, Sign, SignFails, Refund,
                    RefundLost, Crash, At, TypeInv, Idle, Handler
  <1>2. Done(p) => Moves(p, Idle) BY DEF Done, Moves
  <1>3. ASSUME NEW label \in Past, Goto(p, label), req[p].pc \in Past
        PROVE  \E r \in Handler : Moves(p, r)
    <2>1. [req[p] EXCEPT !.pc = label] \in Handler BY <1>1 DEF Handler
    <2>2. req' = [req EXCEPT ![p] = [req[p] EXCEPT !.pc = label]] BY <1>3 DEF Goto, TypeInv
    <2>3. /\ [req[p] EXCEPT !.pc = label].pc = label /\ [req[p] EXCEPT !.pc = label].o = req[p].o
          /\ [req[p] EXCEPT !.pc = label].since = req[p].since
          /\ [req[p] EXCEPT !.pc = label].kind = req[p].kind /\ [req[p] EXCEPT !.pc = label].cost = req[p].cost
      BY <1>1 DEF Handler
    <2> QED BY <1>3, <2>1, <2>2, <2>3 DEF Moves, Past
  <1>4. CASE Ask(p)
    <2> DEFINE r == [req[p] EXCEPT !.pc = "answered", !.row = KeyValid(keys[req[p].o])]
    <2>1. KeyValid(keys[req[p].o]) \in BOOLEAN
      BY <1>1 DEF KeyValid, TypeInv, KeyRow, KeyRecord, NoKey, Handler
    <2>2. r \in Handler BY <1>1, <2>1 DEF Handler
    <2>3. req' = [req EXCEPT ![p] = r] BY <1>4 DEF Ask, TypeInv
    <2>4. /\ r.pc = "answered" /\ r.o = req[p].o /\ r.since = req[p].since /\ r.row = KeyValid(keys[req[p].o])
          /\ r.kind = req[p].kind /\ r.cost = req[p].cost
      BY <1>1 DEF Handler
    <2> HIDE DEF r
    <2>5. Moves(p, r)
      <3>1. r.pc # "idle" /\ r.pc \notin Past BY <2>4 DEF Past
      <3> QED BY <1>4, <2>3, <2>4, <3>1 DEF Moves, Ask
    <2> QED BY <1>1, <2>2, <2>5
  <1>5. CASE CacheAnswer(p)
    <2>1. CASE req[p].row
      <3>1. req' = [req EXCEPT ![p] = Admitted(req[p])] BY <1>5, <2>1 DEF CacheAnswer, Admit
      <3> QED BY <1>1, <1>5, <2>1, <3>1, AdmittedTyped DEF Moves, CacheAnswer
    <2>2. CASE ~req[p].row BY <1>1, <1>5, <2>2, <1>2 DEF CacheAnswer, Admit
    <2> QED BY <2>1, <2>2
  <1>6. CASE Spend(p)
    <2>1. CASE req[p].kind = "issue"
      <3> DEFINE r == [req[p] EXCEPT !.pc = "sign", !.gen = gen'[req[p].o]]
      <3>1. Charge(p, 0, 0) /\ req' = [req EXCEPT ![p] = r] BY <1>6, <2>1 DEF Spend, TypeInv
      <3>2. HistoryOK' BY <1>6, <3>1, Charged DEF Spend
      <3>3. r \in Handler BY <1>1, <3>2 DEF Handler, HistoryOK, Past
      <3>4. /\ r.pc = "sign" /\ r.o = req[p].o /\ r.since = req[p].since
            /\ r.kind = req[p].kind /\ r.cost = req[p].cost
        BY <1>1 DEF Handler
      <3> HIDE DEF r
      <3>5. Moves(p, r)
        BY <1>6, <3>1, <3>4 DEF Moves, Spend, At, Past
      <3> QED BY <1>1, <3>3, <3>5
    <2>2. CASE req[p].kind # "issue" BY <1>1, <1>6, <2>2, <1>2 DEF Spend
    <2> QED BY <2>1, <2>2
  <1>7. CASE Check(p) \/ SignFails(p)
    <2>1. \E label \in Past : Goto(p, label) \/ Done(p) BY <1>7 DEF Check, SignFails, Past
    <2>2. req[p].pc \in Past BY <1>7 DEF Check, SignFails, At, Past
    <2> QED BY <1>1, <1>2, <1>3, <2>1, <2>2
  <1>8. CASE SpendRefused(p) \/ SpendLost(p) \/ Sign(p) \/ Refund(p) \/ RefundLost(p) \/ Crash(p)
    BY <1>1, <1>2, <1>8 DEF SpendRefused, SpendLost, Sign, Refund, RefundLost, Crash, Drop
  <1> QED BY <1>1, <1>4, <1>5, <1>6, <1>7, <1>8 DEF Request

LEMMA RequestPool ==
  ASSUME TypeInv, PoolInv, NEW p \in Reqs, Request(p)
  PROVE  PoolInv'
  <1> USE DEF store, history
  <1>1. keys' = keys /\ adm' = adm
    BY DEF Request, Ask, CacheAnswer, Check, SpendRefused, Spend, SpendLost, Sign, SignFails, Refund,
           RefundLost, Crash, Drop
  <1>2. PoolsStay
    <2>1. \A label \in Past : At(p, label) => req[p] \in Handler
      BY Handling DEF Past
    <2>2. CASE Spend(p)
      <3>1. req[p].cost \in Nat BY <2>1, <2>2, CostsTyped DEF Spend, Handler, Past
      <3> QED BY <2>2, <3>1, Charged DEF Spend
    <2>3. CASE SpendLost(p)
      <3>1. req[p].cost \in Nat BY <2>1, <2>3, CostsTyped DEF SpendLost, Handler, Past
      <3> QED BY <2>3, <3>1, Charged DEF SpendLost
    <2>4. CASE Refund(p)
      <3>1. pools[req[p].o] # NoPool BY <2>4 DEF Refund, PoolInv, At
      <3> QED BY <2>4, <3>1, GivenBack DEF Refund
    <2>5. CASE RefundLost(p)
      <3>1. pools[req[p].o] # NoPool BY <2>5 DEF RefundLost, PoolInv, At
      <3> QED BY <2>5, <3>1, GivenBack DEF RefundLost
    <2>6. CASE pools' = pools BY <2>6 DEF PoolsStay
    <2> QED BY <2>2, <2>3, <2>4, <2>5, <2>6
          DEF Request, Ask, CacheAnswer, Check, SpendRefused, Sign, SignFails, Crash, Drop
  <1>3. PICK r \in {Idle} \cup Handler : Moves(p, r) BY RequestMoves
  <1>4. req[p] \in Handler /\ req[p].pc # "idle" BY RequestMoves DEF Handler, Past
  <1>5. \A q \in Reqs : req'[q].pc # "idle" => req[q].pc # "idle" /\ req'[q].o = req[q].o
    BY <1>3, <1>4 DEF TypeInv, Moves, Idle
  <1>6. req'[p].pc \in {"sign", "refund"} => pools[req[p].o] # NoPool
    <2>1. CASE Spend(p) BY <2>1 DEF Spend, CanSpend
    <2>2. CASE SignFails(p) BY <2>2 DEF SignFails, At, PoolInv
    <2>3. CASE ~Spend(p) /\ ~SignFails(p)
      <3>1. req'[p] \in {Idle, Admitted(req[p])} \/ req'[p].pc \in {"answered", "spend"}
        BY <1>4, <2>3 DEF Request, Ask, CacheAnswer, Admit, Check, SpendRefused, SpendLost, Sign, Refund,
                          RefundLost, Crash, Drop, Done, Goto, TypeInv, Handler
      <3> QED BY <1>4, <3>1, AdmittedTyped DEF Idle
    <2> QED BY <2>1, <2>2, <2>3
  <1>7. \A q \in Reqs : req'[q].pc \in {"sign", "refund"} => pools'[req'[q].o] # NoPool
    <2> SUFFICES ASSUME NEW q \in Reqs, req'[q].pc \in {"sign", "refund"} PROVE pools'[req'[q].o] # NoPool
      OBVIOUS
    <2>1. req[q].pc # "idle" /\ req'[q].o = req[q].o BY <1>5
    <2>2. req[q].o \in Orgs BY <2>1 DEF TypeInv, Idle, Handler
    <2>3. pools[req[q].o] # NoPool
      <3>1. CASE q = p BY <1>6, <3>1
      <3>2. CASE q # p BY <1>3, <3>2 DEF Moves, TypeInv, PoolInv
      <3> QED BY <3>1, <3>2
    <2> QED BY <1>2, <2>1, <2>2, <2>3 DEF PoolsStay
  <1>8. KeyHasPool' BY <1>1, <1>2 DEF PoolInv, KeyHasPool, PoolsStay
  <1>9. (adm.pc = "create_key" => pools[adm.o] # NoPool)'
    BY <1>1, <1>2 DEF PoolInv, PoolsStay, TypeInv, AdminOK, Operation, Idle
  <1>10. (adm.pc \in {"cancel", "provision"} => keys[adm.o].made /\ keys[adm.o].rail = "identity")'
    BY <1>1 DEF PoolInv
  <1>11. (\A q \in Reqs : req[q].pc # "idle" => keys[req[q].o].made)' BY <1>1, <1>5 DEF PoolInv
  <1> QED BY <1>7, <1>8, <1>9, <1>10, <1>11 DEF PoolInv

\* A step that takes no pool away keeps the pools the credits in hand are of.
LEMMA HandsKept ==
  ASSUME TypeInv, PoolInv, req' = req, \A o \in Orgs : pools[o] # NoPool => pools'[o] # NoPool
  PROVE  (\A p \in Reqs : req[p].pc \in {"sign", "refund"} => pools[req[p].o] # NoPool)'
  <1>1. \A p \in Reqs : req[p].pc # "idle" => req[p].o \in Orgs BY DEF TypeInv, Idle, Handler
  <1> QED BY <1>1 DEF PoolInv

LEMMA AdminPool ==
  ASSUME TypeInv, PoolInv, Admin
  PROVE  PoolInv'
  <1> USE DEF store, history
  <1>a. req' = req
    BY DEF Admin, Create, CreateKey, CreateAnonymous, Find, Revoke, Forget, Provision, Cancel, AdminCrash
  <1>b. \A p \in Reqs : req[p].pc # "idle" => req[p].o \in Orgs BY DEF TypeInv, Idle, Handler
  <1>h. (\A o \in Orgs : pools[o] # NoPool => pools'[o] # NoPool) =>
          (\A p \in Reqs : req'[p].pc \in {"sign", "refund"} => pools'[req'[p].o] # NoPool)
    BY <1>a, HandsKept
  <1>1. ASSUME NEW o \in Orgs, NEW plan \in Plans, NEW ceiling \in Ceilings, Create(o, plan, ceiling)
        PROVE  PoolInv'
    <2>1. adm'.pc = "create_key" /\ adm'.o = o BY <1>1, BeginTyped DEF Create
    <2>2. pools'[o] # NoPool /\ \A x \in Orgs \ {o} : pools'[x] = pools[x] BY <1>1, FillTyped DEF Create
    <2>3. keys' = keys /\ ~keys[o].made BY <1>1 DEF Create
    <2> QED BY <1>a, <1>h, <2>1, <2>2, <2>3 DEF PoolInv, KeyHasPool
  <1>2. ASSUME NEW pc \in {"provision", "cancel"}, NEW o \in Orgs, NEW plan, NEW ceiling, Find(pc, o, plan, ceiling)
        PROVE  PoolInv'
    BY <1>2, <1>a DEF Find, Begin, PoolInv, KeyHasPool
  <1>3. ASSUME NEW o \in Orgs, NEW i \in Isolates, Revoke(o, i)
        PROVE  PoolInv'
    <2>1. \A x \in Orgs : keys'[x].made = keys[x].made /\ keys'[x].rail = keys[x].rail
      <3>1. keys[o] \in KeyRecord BY <1>3 DEF Revoke, TypeInv, KeyRow, NoKey
      <3>2. keys' = [keys EXCEPT ![o] = [keys[o] EXCEPT !.active = FALSE, !.revoked = Min2(keys[o].revoked, now)]]
        BY <1>3 DEF Revoke, TypeInv
      <3> QED BY <3>1, <3>2 DEF TypeInv, KeyRecord
    <2>2. pools' = pools /\ adm'.pc = "forget" BY <1>3 DEF Revoke, Begin
    <2> QED BY <1>a, <1>b, <1>h, <2>1, <2>2 DEF PoolInv, KeyHasPool
  <1>4. CASE CreateKey
    <2>1. adm.o \in Orgs /\ adm.plan \in Plans BY <1>4 DEF CreateKey, TypeInv, AdminOK, Operation, Idle
    <2>2. \A x \in Orgs : keys'[x] = keys[x] \/ (x = adm.o /\ keys'[x].made /\ keys'[x].rail = "identity")
      BY <1>4, <2>1, KeyTyped DEF CreateKey, TypeInv, Rails
    <2>3. pools' = pools /\ adm' = Idle /\ pools[adm.o] # NoPool BY <1>4 DEF CreateKey, PoolInv
    <2> QED BY <1>a, <1>b, <1>h, <2>1, <2>2, <2>3 DEF PoolInv, KeyHasPool, Idle
  <1>5. CASE Forget BY <1>5, <1>a DEF Forget, PoolInv, KeyHasPool, Idle
  <1>6. CASE Provision
    <2>1. adm.o \in Orgs /\ adm.plan \in Plans /\ adm.ceiling \in Ceilings \cup {0}
      BY <1>6 DEF Provision, TypeInv, AdminOK, Operation, Idle
    <2>2. pools'[adm.o] # NoPool /\ \A x \in Orgs \ {adm.o} : pools'[x] = pools[x]
      BY <1>6, <2>1, FillTyped DEF Provision
    <2>3. keys' = keys /\ adm' = Idle /\ keys[adm.o].made /\ keys[adm.o].rail = "identity"
      BY <1>6 DEF Provision, PoolInv
    <2> QED BY <1>a, <1>h, <2>2, <2>3 DEF PoolInv, KeyHasPool, Idle
  <1>7. CASE AdminCrash BY <1>7, <1>a DEF AdminCrash, PoolInv, KeyHasPool, Idle
  <1>8. ASSUME NEW immediate \in BOOLEAN, Cancel(immediate)
        PROVE  PoolInv'
    <2>1. adm.o \in Orgs BY <1>8 DEF Cancel, TypeInv, AdminOK, Operation, Idle
    <2>2. IsPool(pools[adm.o]) BY <1>8, <2>1 DEF Cancel, PoolInv, KeyHasPool, TypeInv, PoolsOK
    <2>3. pools'[adm.o] # NoPool
      <3>1. CASE pools' = pools BY <2>2, <3>1 DEF IsPool, PoolRecord, NoPool, Plans, HardStop
      <3>2. CASE pools' # pools
        <4>1. pools'[adm.o].plan = pools[adm.o].plan
          BY <1>8, <2>1, <2>2, <3>2 DEF Cancel, TypeInv, PoolsOK, IsPool, PoolRecord
        <4> QED BY <2>2, <4>1 DEF IsPool, PoolRecord, NoPool, Plans, HardStop
      <3> QED BY <3>1, <3>2
    <2>4. \A x \in Orgs \ {adm.o} : pools'[x] = pools[x] BY <1>8, <2>1 DEF Cancel, TypeInv, PoolsOK
    <2>5. keys' = keys /\ adm' = Idle /\ keys[adm.o].made /\ keys[adm.o].rail = "identity"
      BY <1>8 DEF Cancel, PoolInv
    <2> QED BY <1>a, <1>h, <2>3, <2>4, <2>5 DEF PoolInv, KeyHasPool, Idle
  <1>9. ASSUME NEW o \in Orgs, CreateAnonymous(o)
        PROVE  PoolInv'
    <2>1. \A x \in Orgs : keys'[x] = keys[x] \/ (x = o /\ keys'[x].made /\ keys'[x].rail = "anonymous")
      BY <1>9, KeyTyped DEF CreateAnonymous, TypeInv, Rails, Plans, HardStop
    <2>2. pools' = pools /\ adm' = adm /\ adm.pc = "idle" /\ pools[o] = NoPool BY <1>9 DEF CreateAnonymous, Idle
    <2> QED BY <1>a, <1>b, <1>h, <2>1, <2>2 DEF PoolInv, KeyHasPool
  <1> QED BY <1>1, <1>2, <1>3, <1>4, <1>5, <1>6, <1>7, <1>8, <1>9 DEF Admin

LEMMA ArrivePool ==
  ASSUME TypeInv, PoolInv, NEW p \in Reqs, Arrives(p)
  PROVE  PoolInv'
  <1>1. PICK i \in Isolates, o \in Orgs, kind \in Kinds, cost \in Costs \cup {1} : Arrive(p, i, o, kind, cost)
    BY DEF Arrives
  <1>2. PICK r \in {Idle} \cup Handler :
           req' = [req EXCEPT ![p] = r] /\ (r # Idle => r.o = o /\ r.pc \in {"ask", "check", "spend"})
    BY <1>1, Arrival
  <1>3. \A q \in Reqs : req'[q].pc # "idle" => req'[q] = req[q] \/ (req'[q].o = o /\ req'[q].pc \in {"ask", "check", "spend"})
    BY <1>2 DEF TypeInv, Idle
  <1> QED BY <1>1, <1>3 DEF Arrive, store, PoolInv, KeyHasPool

\* Types and pools together: a charge needs the pool to be there, and the pool its type.
LEMMA StoreCorrect == Spec => [](TypeInv /\ PoolInv)
  <1>1. Init => PoolInv
    BY DEF Init, PoolInv, KeyHasPool, Idle, NoKey
  <1>2. TypeInv /\ PoolInv /\ [Next]_vars => TypeInv' /\ PoolInv'
    <2> SUFFICES ASSUME TypeInv, PoolInv, [Next]_vars PROVE TypeInv' /\ PoolInv' OBVIOUS
    <2>1. CASE Tick \/ (\E i \in Isolates : Evict(i)) \/ UNCHANGED vars
      <3>1. PoolInv' BY <2>1 DEF Tick, Evict, vars, store, PoolInv, KeyHasPool
      <3> QED BY <2>1, <3>1, OtherTyped
    <2>2. CASE Admin BY <2>2, AdminTyped, AdminPool
    <2>3. ASSUME NEW p \in Reqs, Request(p) PROVE TypeInv' /\ PoolInv'
      BY <2>3, RequestTyped, RequestPool
    <2>4. ASSUME NEW p \in Reqs, Arrives(p) PROVE TypeInv' /\ PoolInv'
      BY <2>4, ArriveTyped, ArrivePool
    <2> QED BY <2>1, <2>2, <2>3, <2>4 DEF Next, Arrives
  <1> QED BY <1>1, <1>2, InitTyped, PTL DEF Spec

\* Every variable keeps its type, and no pool holds more than its allocation or meters more
\* than its ceiling (TypeOK of Credits).
THEOREM TypeCorrect == Spec => []TypeOK
  BY StoreCorrect, TypeInvIsTypeOK, PTL

\* A key of the identity rail never authorises against an account that is not there, though
\* it is made by a call of its own and onboarding may die in between, and a key of the
\* sandbox's anonymous rail never comes to have one (KeyHasPool).
THEOREM KeyNeedsPool == Spec => []KeyHasPool
  <1>1. PoolInv => KeyHasPool BY DEF PoolInv
  <1> QED BY <1>1, StoreCorrect, PTL

\* api_credits_spend and applyQuotaSpend say the same of every pool that comes about, at
\* every cost and time (RulesAgree).
THEOREM RulesNeverDiffer == Spec => []RulesAgree
  <1>1. TypeInv => RulesAgree
    <2> SUFFICES ASSUME TypeInv, NEW o \in Open, NEW cost \in Costs \cup {1}
        PROVE  ApplyQuotaSpend(pools[o], cost) = IF Spendable(pools[o], cost) THEN Spent(pools[o], cost) ELSE NoPool
      BY DEF RulesAgree
    <2>1. IsPool(pools[o]) BY DEF TypeInv, PoolsOK, Open
    <2>2. cost \in Nat BY CostsTyped
    <2> QED BY <2>1, <2>2, SameRules
  <1> QED BY <1>1, StoreCorrect, PTL

-----------------------------------------------------------------------------
(* A revoked key stops within the cache's time                              *)

LEMMA DeadTyped ==
  ASSUME TypeInv, NEW o \in Orgs, keys[o].made
  PROVE  /\ keys[o] \in KeyRecord /\ keys[o].revoked \in Nat /\ keys[o].expires \in Nat
         /\ DeadSince(o) \in Nat /\ DeadSince(o) \in {keys[o].revoked, keys[o].expires}
  <1>1. keys[o] \in KeyRecord BY DEF TypeInv, KeyRow, NoKey
  <1> QED BY <1>1 DEF KeyRecord, DeadSince, Min2

\* A row that is found is of a key that has not ended.
LEMMA FoundAlive ==
  ASSUME TypeInv, AliveInv, NEW o \in Orgs, KeyValid(keys[o])
  PROVE  now <= DeadSince(o)
  <1>1. keys[o].made /\ keys[o].active /\ keys[o].expires > now BY DEF KeyValid
  <1>2. keys[o].revoked = Never BY <1>1 DEF AliveInv
  <1>3. now \in Nat /\ now < Never BY TimesTyped, SMT DEF TypeInv
  <1> QED BY <1>1, <1>2, <1>3, DeadTyped, SMT

LEMMA RequestAlive ==
  ASSUME TypeInv, PoolInv, AliveInv, NEW p \in Reqs, Request(p)
  PROVE  AliveInv'
  <1> USE DEF store, history
  <1>1. keys' = keys /\ adm' = adm /\ now' = now
    BY DEF Request, Ask, CacheAnswer, Check, SpendRefused, Spend, SpendLost, Sign, SignFails, Refund,
           RefundLost, Crash, Drop
  <1>2. PICK r \in {Idle} \cup Handler : Moves(p, r) BY RequestMoves
  <1>3. req[p] \in Handler /\ req[p].pc # "idle" /\ req[p].o \in Orgs /\ req[p].since \in Nat
    BY RequestMoves DEF Handler, Past
  <1>4. \A o \in Orgs : DeadSince(o)' = DeadSince(o) BY <1>1 DEF DeadSince
  <1>5. keys[req[p].o].made /\ req[p].since <= now BY <1>3 DEF PoolInv, AliveInv
  <1>6. r # Idle /\ r.pc = "answered" /\ r.row => r.since <= DeadSince(r.o)
    <2> SUFFICES ASSUME r # Idle, r.pc = "answered", r.row PROVE r.since <= DeadSince(r.o) OBVIOUS
    <2>1. KeyValid(keys[req[p].o]) /\ r.o = req[p].o /\ r.since = req[p].since BY <1>2 DEF Moves
    <2>2. now <= DeadSince(req[p].o) BY <1>3, <2>1, FoundAlive
    <2>3. DeadSince(req[p].o) \in Nat /\ now \in Nat BY <1>3, <1>5, DeadTyped DEF TypeInv
    <2> QED BY <1>3, <1>5, <2>1, <2>2, <2>3, SMT
  <1>7. At(p, "answered") /\ req[p].row => req[p].since <= DeadSince(req[p].o)
    BY DEF AliveInv, At
  <1>8. r # Idle /\ r.pc \in Past => r.since < DeadSince(r.o) + Ttl
    <2> SUFFICES ASSUME r # Idle, r.pc \in Past PROVE r.since < DeadSince(r.o) + Ttl OBVIOUS
    <2>1. r.o = req[p].o /\ r.since = req[p].since BY <1>2 DEF Moves
    <2>2. CASE req[p].pc \in Past BY <2>1, <2>2 DEF AliveInv, RevokedWithinTtl
    <2>3. CASE At(p, "answered") /\ req[p].row
      <3>1. DeadSince(req[p].o) \in Nat BY <1>3, <1>5, DeadTyped
      <3> QED BY <1>3, <1>7, <2>1, <2>3, <3>1, TimesTyped, SMT
    <2> QED BY <1>2, <2>2, <2>3 DEF Moves
  <1>9. \A q \in Reqs : req'[q] = req[q] \/ (req'[q] = r /\ (r # Idle => r.since <= now))
    BY <1>2, <1>5 DEF Moves, TypeInv
  <1>10. \A q \in Reqs : req'[q].pc # "idle" => req'[q].since <= now
    BY <1>9 DEF AliveInv, Idle
  <1>11. \A q \in Reqs : req'[q].pc = "answered" /\ req'[q].row => req'[q].since <= DeadSince(req'[q].o)
    BY <1>6, <1>9 DEF AliveInv, Idle
  <1>12. \A q \in Reqs : req'[q].pc \in Past => req'[q].since < DeadSince(req'[q].o) + Ttl
    BY <1>8, <1>9 DEF AliveInv, RevokedWithinTtl, Idle, Past
  <1>13. \A i \in Isolates, o \in Orgs :
           \/ cache'[i][o] = cache[i][o]
           \/ o = req[p].o /\ At(p, "answered") /\ cache'[i][o] = [at |-> req[p].since, row |-> req[p].row]
    <2> DEFINE entry == [at |-> req[p].since, row |-> req[p].row]
    <2>1. cache' = cache \/ (At(p, "answered") /\ cache' = [cache EXCEPT ![req[p].i][req[p].o] = entry])
      BY DEF Request, Ask, CacheAnswer, Check, SpendRefused, Spend, SpendLost, Sign, SignFails, Refund,
             RefundLost, Crash, Drop
    <2> HIDE DEF entry
    <2>2. cache \in [Isolates -> [Orgs -> {Unknown} \cup Entry]] BY DEF TypeInv
    <2>3. \A i \in Isolates, o \in Orgs :
             cache'[i][o] = cache[i][o] \/ (o = req[p].o /\ At(p, "answered") /\ cache'[i][o] = entry)
      BY <2>1, <2>2
    <2> QED BY <2>3 DEF entry
  <1>14. \A i \in Isolates, o \in Orgs :
           cache'[i][o] # Unknown =>
             cache'[i][o].at <= now /\ (cache'[i][o].row /\ keys[o].made => cache'[i][o].at <= DeadSince(o))
    <2> SUFFICES ASSUME NEW i \in Isolates, NEW o \in Orgs, cache'[i][o] # Unknown
        PROVE  cache'[i][o].at <= now /\ (cache'[i][o].row /\ keys[o].made => cache'[i][o].at <= DeadSince(o))
      OBVIOUS
    <2>1. CASE cache'[i][o] = cache[i][o] BY <2>1 DEF AliveInv
    <2>2. CASE o = req[p].o /\ At(p, "answered") /\ cache'[i][o] = [at |-> req[p].since, row |-> req[p].row]
      BY <1>5, <1>7, <2>2
    <2> QED BY <1>13, <2>1, <2>2
  <1>15. RevokedWithinTtl'
    BY <1>1, <1>12 DEF RevokedWithinTtl, DeadSince
  <1>16. \A q \in Reqs : (req[q].pc = "answered" /\ req[q].row => req[q].since <= DeadSince(req[q].o))'
    BY <1>1, <1>11 DEF DeadSince
  <1>17. \A i \in Isolates, o \in Orgs :
           (cache[i][o] # Unknown => cache[i][o].at <= now /\ (cache[i][o].row /\ keys[o].made => cache[i][o].at <= DeadSince(o)))'
    BY <1>1, <1>14 DEF DeadSince
  <1>18. (\A o \in Orgs : keys[o].made /\ keys[o].active => keys[o].revoked = Never)'
    BY <1>1 DEF AliveInv, Never
  <1>19. (adm.pc = "create_key" => ~keys[adm.o].made)'
    BY <1>1 DEF AliveInv
  <1> QED BY <1>1, <1>10, <1>15, <1>16, <1>17, <1>18, <1>19 DEF AliveInv

\* What an admin step may make of a key: it ends a key no earlier than now, and a key it
\* makes ends later.
Ends(k) == Min2(k.revoked, k.expires)
KeyStep(k, l) ==
  /\ k.made => l.made
  /\ l.made => (k.made /\ Ends(l) = Ends(k)) \/ (now <= Ends(l) /\ Ends(l) \in Nat)
  /\ l.made /\ l.active => l.revoked = Never

LEMMA AdminKeys ==
  ASSUME TypeInv, AliveInv, Admin, NEW x \in Orgs
  PROVE  KeyStep(keys[x], keys'[x])
  <1> USE DEF store, history
  <1>n. now \in Nat /\ now < Never /\ Never \in Nat BY TimesTyped, SMT DEF TypeInv
  <1>s. keys'[x] = keys[x] => KeyStep(keys[x], keys'[x])
    BY DEF KeyStep, AliveInv
  <1>1. CASE keys' = keys BY <1>1, <1>s
  <1>k. ASSUME NEW o \in Orgs, NEW plan \in Plans, NEW rail \in Rails, ~keys[o].made,
               keys' = [keys EXCEPT ![o] = Key(plan, rail)]
        PROVE  KeyStep(keys[x], keys'[x])
    <2>1. CASE x = o
      <3>1. keys'[x] = Key(plan, rail) BY <1>k, <2>1 DEF TypeInv
      <3>2. keys'[x].revoked = Never /\ keys'[x].expires > now /\ keys'[x] \in KeyRecord
        BY <3>1, KeyTyped
      <3>4. keys'[x].expires \in Nat BY <3>2 DEF KeyRecord
      <3>3. now <= Ends(keys'[x]) /\ Ends(keys'[x]) \in Nat BY <1>n, <3>2, <3>4, SMT DEF Ends, Min2
      <3> QED BY <1>k, <2>1, <3>2, <3>3 DEF KeyStep
    <2>2. CASE x # o BY <1>k, <1>s, <2>2 DEF TypeInv
    <2> QED BY <2>1, <2>2
  <1>2. CASE CreateKey
    <2>1. adm.o \in Orgs /\ adm.plan \in Plans /\ ~keys[adm.o].made
      BY <1>2 DEF CreateKey, TypeInv, AdminOK, Operation, Idle, AliveInv
    <2>2. keys' = [keys EXCEPT ![adm.o] = Key(adm.plan, "identity")] BY <1>2 DEF CreateKey
    <2> QED BY <1>k, <2>1, <2>2 DEF Rails
  <1>3. ASSUME NEW o \in Orgs, NEW i \in Isolates, Revoke(o, i)
        PROVE  KeyStep(keys[x], keys'[x])
    <2>1. keys' = [keys EXCEPT ![o] = [keys[o] EXCEPT !.active = FALSE, !.revoked = Min2(keys[o].revoked, now)]]
      BY <1>3 DEF Revoke, TypeInv
    <2>2. CASE x = o
      <3>1. keys[x].made /\ keys[x] \in KeyRecord BY <1>3, <2>2 DEF Revoke, TypeInv, KeyRow, NoKey
      <3>2. /\ keys'[x].revoked = Min2(keys[x].revoked, now) /\ keys'[x].expires = keys[x].expires
            /\ ~keys'[x].active
        BY <2>1, <2>2, <3>1 DEF TypeInv, KeyRecord
      <3>3. keys[x].revoked \in Nat /\ keys[x].expires \in Nat BY <3>1 DEF KeyRecord
      <3>4. Ends(keys'[x]) = Min2(Min2(keys[x].revoked, now), keys[x].expires) BY <3>2 DEF Ends
      <3>5. Ends(keys'[x]) = now \/ Ends(keys'[x]) = Ends(keys[x])
        BY <1>n, <3>3, <3>4, SMT DEF Ends, Min2
      <3>6. now <= now BY <1>n, SMT
      <3>7. keys'[x].made BY <2>1, <2>2, <3>1 DEF TypeInv, KeyRecord
      <3> QED BY <1>n, <3>1, <3>2, <3>5, <3>6, <3>7 DEF KeyStep
    <2>3. CASE x # o BY <1>s, <2>1, <2>3 DEF TypeInv
    <2> QED BY <2>2, <2>3
  <1>4. ASSUME NEW o \in Orgs, CreateAnonymous(o)
        PROVE  KeyStep(keys[x], keys'[x])
    BY <1>4, <1>k DEF CreateAnonymous, Rails, Plans, HardStop
  <1> QED BY <1>1, <1>2, <1>3, <1>4 DEF Admin, Create, Find, Forget, Provision, Cancel, AdminCrash

LEMMA AdminAlive ==
  ASSUME TypeInv, PoolInv, AliveInv, Admin
  PROVE  AliveInv'
  <1> USE DEF store, history
  <1>1. req' = req /\ now' = now
    BY DEF Admin, Create, CreateKey, CreateAnonymous, Find, Revoke, Forget, Provision, Cancel, AdminCrash
  <1>2. \A i \in Isolates, o \in Orgs : cache'[i][o] = cache[i][o] \/ cache'[i][o] = Unknown
    <2>1. cache' = cache \/ cache' = [cache EXCEPT ![adm.i][adm.o] = Unknown]
      BY DEF Admin, Create, CreateKey, CreateAnonymous, Find, Revoke, Forget, Provision, Cancel, AdminCrash
    <2> QED BY <2>1 DEF TypeInv
  <1>3. adm'.pc = "create_key" => ~keys'[adm'.o].made
    <2> SUFFICES ASSUME adm'.pc = "create_key" PROVE ~keys'[adm'.o].made OBVIOUS
    <2>1. \A pc, o, plan, ceiling, i : Begin(pc, o, plan, ceiling, i) => adm'.pc = pc
      BY DEF Begin
    <2>2. ASSUME NEW pc \in {"provision", "cancel"}, NEW o, NEW plan, NEW ceiling, Find(pc, o, plan, ceiling)
          PROVE  FALSE
      BY <2>1, <2>2 DEF Find
    <2>3. ASSUME NEW o, NEW i, Revoke(o, i) PROVE FALSE BY <2>1, <2>3 DEF Revoke
    <2>4. adm' # Idle BY DEF Idle
    <2>5. PICK o \in Orgs, plan \in Plans, ceiling \in Ceilings : Create(o, plan, ceiling)
      BY <2>2, <2>3, <2>4 DEF Admin, CreateKey, CreateAnonymous, Forget, Provision, Cancel, AdminCrash
    <2> QED BY <2>5 DEF Create, Begin
  <1>4. \A p \in Reqs : req[p].pc # "idle" =>
          /\ req[p].o \in Orgs /\ keys[req[p].o].made
          /\ req[p].since \in Nat /\ req[p].since <= now
    BY DEF TypeInv, Idle, Handler, AliveInv, PoolInv
  <1>5. now \in Nat BY DEF TypeInv
  <1>6. ASSUME NEW o \in Orgs, keys[o].made
        PROVE  /\ keys'[o].made /\ Ends(keys[o]) \in Nat /\ Ends(keys'[o]) \in Nat
               /\ Ends(keys'[o]) = Ends(keys[o]) \/ now <= Ends(keys'[o])
    <2>1. Ends(keys[o]) \in Nat BY <1>6, DeadTyped DEF Ends, DeadSince
    <2> QED BY <1>6, <2>1, AdminKeys DEF KeyStep
  <1>7. ASSUME NEW p \in Reqs, req[p].pc = "answered", req[p].row
        PROVE  req[p].since <= Ends(keys'[req[p].o])
    <2>1. req[p].since <= Ends(keys[req[p].o]) BY <1>7 DEF AliveInv, DeadSince, Ends
    <2> QED BY <1>4, <1>5, <1>6, <1>7, <2>1, SMT
  <1>8. ASSUME NEW p \in Reqs, req[p].pc \in Past
        PROVE  req[p].since < Ends(keys'[req[p].o]) + Ttl
    <2>1. req[p].since < Ends(keys[req[p].o]) + Ttl BY <1>8 DEF AliveInv, RevokedWithinTtl, DeadSince, Ends
    <2>2. req[p].pc # "idle" BY <1>8 DEF Past
    <2> QED BY <1>4, <1>5, <1>6, <2>1, <2>2, TimesTyped, SMT
  <1>9. ASSUME NEW i \in Isolates, NEW o \in Orgs, cache'[i][o] # Unknown
        PROVE  cache'[i][o].at <= now /\ (cache'[i][o].row /\ keys'[o].made => cache'[i][o].at <= Ends(keys'[o]))
    <2>1. cache'[i][o] = cache[i][o] /\ cache[i][o] \in Entry BY <1>2, <1>9 DEF TypeInv
    <2>2. cache[i][o].at <= now /\ cache[i][o].at \in Nat BY <1>9, <2>1 DEF AliveInv, Entry
    <2>3. CASE keys[o].made
      <3>1. cache[i][o].row => cache[i][o].at <= Ends(keys[o]) BY <1>9, <2>1, <2>3 DEF AliveInv, DeadSince, Ends
      <3> QED BY <1>5, <1>6, <2>1, <2>2, <2>3, <3>1, SMT
    <2>4. CASE ~keys[o].made /\ keys'[o].made
      <3>1. now <= Ends(keys'[o]) /\ Ends(keys'[o]) \in Nat BY <2>4, AdminKeys DEF KeyStep
      <3> QED BY <1>5, <2>1, <2>2, <3>1, SMT
    <2> QED BY <2>1, <2>2, <2>3, <2>4
  <1>10. \A o \in Orgs : keys'[o].made /\ keys'[o].active => keys'[o].revoked = Never
    BY AdminKeys DEF KeyStep
  <1>11. RevokedWithinTtl' BY <1>1, <1>8 DEF RevokedWithinTtl, DeadSince, Ends
  <1>12. (\A p \in Reqs : req[p].pc = "answered" /\ req[p].row => req[p].since <= DeadSince(req[p].o))'
    BY <1>1, <1>7 DEF DeadSince, Ends
  <1>13. (\A i \in Isolates, o \in Orgs :
           cache[i][o] # Unknown => cache[i][o].at <= now /\ (cache[i][o].row /\ keys[o].made => cache[i][o].at <= DeadSince(o)))'
    BY <1>1, <1>9 DEF DeadSince, Ends
  <1>14. (\A o \in Orgs : keys[o].made /\ keys[o].active => keys[o].revoked = Never)'
    BY <1>10 DEF Never
  <1>15. (\A p \in Reqs : req[p].pc # "idle" => req[p].since <= now)'
    BY <1>1, <1>4
  <1> QED BY <1>3, <1>11, <1>12, <1>13, <1>14, <1>15 DEF AliveInv

LEMMA ArriveAlive ==
  ASSUME TypeInv, PoolInv, AliveInv, NEW p \in Reqs, Arrives(p)
  PROVE  AliveInv'
  <1>1. PICK i \in Isolates, o \in Orgs, kind \in Kinds, cost \in Costs \cup {1} : Arrive(p, i, o, kind, cost)
    BY DEF Arrives
  <1>2. PICK r \in {Idle} \cup Handler :
           /\ req' = [req EXCEPT ![p] = r]
           /\ r # Idle => /\ r.o = o /\ r.since = now
                         /\ \/ r.pc = "ask"
                            \/ r.pc \in Past /\ cache[i][o] # Unknown /\ cache[i][o].row /\ now - cache[i][o].at < Ttl
    BY <1>1, Arrival DEF Past
  <1>3. UNCHANGED <<now, keys, cache, adm>> /\ keys[o].made BY <1>1 DEF Arrive, store
  <1>4. \A q \in Reqs : req'[q] = req[q] \/ req'[q] = r BY <1>2 DEF TypeInv
  <1>5. now \in Nat BY DEF TypeInv
  <1>6. r # Idle /\ r.pc \in Past => r.since < DeadSince(r.o) + Ttl
    <2> SUFFICES ASSUME r # Idle, r.pc \in Past PROVE now < DeadSince(o) + Ttl BY <1>2
    <2>1. cache[i][o] \in Entry /\ cache[i][o].row /\ now - cache[i][o].at < Ttl /\ cache[i][o] # Unknown
      BY <1>2 DEF TypeInv, Past
    <2>2. cache[i][o].at <= DeadSince(o) BY <1>3, <2>1 DEF AliveInv
    <2>3. cache[i][o].at \in Nat /\ DeadSince(o) \in Nat BY <1>3, <2>1, DeadTyped DEF Entry
    <2> QED BY <1>5, <2>1, <2>2, <2>3, TimesTyped, SMT
  <1>7. \A q \in Reqs : req'[q].pc \in Past => req'[q].since < DeadSince(req'[q].o) + Ttl
    BY <1>4, <1>6 DEF AliveInv, RevokedWithinTtl, Idle, Past
  <1>8. RevokedWithinTtl' BY <1>3, <1>7 DEF RevokedWithinTtl, DeadSince
  <1>9. \A q \in Reqs : req'[q].pc # "idle" => req'[q].since <= now
    BY <1>2, <1>4, <1>5 DEF AliveInv, Idle
  <1>10. r # Idle => r.pc # "answered" BY <1>2 DEF Past
  <1>11. \A q \in Reqs : req'[q].pc = "answered" /\ req'[q].row => req'[q].since <= DeadSince(req'[q].o)
    BY <1>4, <1>10 DEF AliveInv, Idle
  <1>12. (\A q \in Reqs : req[q].pc = "answered" /\ req[q].row => req[q].since <= DeadSince(req[q].o))'
    BY <1>3, <1>11 DEF DeadSince
  <1> QED BY <1>3, <1>8, <1>9, <1>12 DEF AliveInv, DeadSince, Never

LEMMA OtherAlive ==
  ASSUME TypeInv, AliveInv, Tick \/ (\E i \in Isolates : Evict(i)) \/ UNCHANGED vars
  PROVE  AliveInv'
  <1>1. UNCHANGED <<req, keys, adm>> BY DEF Tick, Evict, vars, store
  <1>2. now \in Nat /\ now' \in Nat /\ now <= now'
    <2>1. now' = now \/ now' = now + 1 BY DEF Tick, Evict, vars
    <2> QED BY <2>1, SMT DEF TypeInv
  <1>3. \A i \in Isolates, o \in Orgs : cache'[i][o] = cache[i][o] \/ cache'[i][o] = Unknown
    BY DEF Tick, Evict, vars, TypeInv
  <1>4. \A i \in Isolates, o \in Orgs :
          cache'[i][o] # Unknown => cache'[i][o].at <= now' /\ (cache'[i][o].row /\ keys[o].made => cache'[i][o].at <= DeadSince(o))
    <2> SUFFICES ASSUME NEW i \in Isolates, NEW o \in Orgs, cache'[i][o] # Unknown
        PROVE  cache[i][o].at <= now' /\ (cache[i][o].row /\ keys[o].made => cache[i][o].at <= DeadSince(o))
      BY <1>3
    <2>1. cache[i][o] # Unknown /\ cache[i][o] \in Entry BY <1>3 DEF TypeInv
    <2>2. cache[i][o].at \in Nat /\ cache[i][o].at <= now BY <2>1 DEF AliveInv, Entry
    <2> QED BY <1>2, <2>1, <2>2 DEF AliveInv
  <1>5. \A p \in Reqs : req[p].pc # "idle" => req[p].since <= now'
    <2> SUFFICES ASSUME NEW p \in Reqs, req[p].pc # "idle" PROVE req[p].since <= now' OBVIOUS
    <2>1. req[p].since \in Nat /\ req[p].since <= now BY DEF TypeInv, Idle, Handler, AliveInv
    <2> QED BY <1>2, <2>1, SMT
  <1>6. RevokedWithinTtl' BY <1>1 DEF AliveInv, RevokedWithinTtl, DeadSince
  <1> QED BY <1>1, <1>4, <1>5, <1>6 DEF AliveInv, DeadSince, Never

\* A request that comes KEY_CACHE_TTL or more after its key was revoked, or expired, is
\* refused by every isolate, whatever lookups were on their way (RevokedWithinTtl).
THEOREM RevocationBinds == Spec => []RevokedWithinTtl
  <1>1. Init => AliveInv
    BY DEF Init, AliveInv, RevokedWithinTtl, Idle, NoKey, Past
  <1>2. TypeInv /\ PoolInv /\ AliveInv /\ [Next]_vars => AliveInv'
    <2> SUFFICES ASSUME TypeInv, PoolInv, AliveInv, [Next]_vars PROVE AliveInv' OBVIOUS
    <2>1. CASE Tick \/ (\E i \in Isolates : Evict(i)) \/ UNCHANGED vars BY <2>1, OtherAlive
    <2>2. CASE Admin BY <2>2, AdminAlive
    <2>3. ASSUME NEW p \in Reqs, Request(p) PROVE AliveInv' BY <2>3, RequestAlive
    <2>4. ASSUME NEW p \in Reqs, Arrives(p) PROVE AliveInv' BY <2>4, ArriveAlive
    <2> QED BY <2>1, <2>2, <2>3, <2>4 DEF Next, Arrives
  <1>3. AliveInv => RevokedWithinTtl BY DEF AliveInv
  <1> QED BY <1>1, <1>2, <1>3, StoreCorrect, PTL DEF Spec
-----------------------------------------------------------------------------
(* Every credit is accounted for                                            *)

Holding(r, o, g) == r.pc \in {"sign", "refund"} /\ r.o = o /\ r.gen = g

\* The requests that hold a credit charged to this filling of o's pool.
Holders(o) == {p \in Reqs : Holding(req[p], o, gen[o])}

UsedOf(r) == r.allocation - r.remaining + r.overage

\* The books of a pool: g granted, h held, c carried over, l lost.
Fair(r, g, h, c, l) == r # NoPool => g + h <= UsedOf(r) + c /\ UsedOf(r) <= g + h + l

\* What is charged is what was asked for, and to a filling that has begun.
CallOK(r, g) ==
  r # Idle => /\ r.kind # "initiate" => r.cost = 1
              /\ r.pc \in {"sign", "refund"} => r.gen <= g

MoneyInv ==
  /\ \A p \in Reqs : \A o \in Orgs : req[p] = Idle \/ req[p].o = o => CallOK(req[p], gen[o])
  /\ \A o \in Orgs : /\ IsFiniteSet(Holders(o))
                     /\ Fair(pools[o], granted[o], Cardinality(Holders(o)), carried[o], lost[o])

LEMMA RolledUse ==
  ASSUME NEW r, IsPool(r)
  PROVE  UsedOf(Rolled(r)) = IF Rolled(r) = r THEN UsedOf(r) ELSE 0
  <1>1. CASE Rolled(r) = r BY <1>1
  <1>2. CASE Rolled(r) # r
    <2>1. Rolled(r) = Written(r, r.allocation, 0, r.end + Month) BY <1>2 DEF Rolled, AddMonth, Written
    <2>2. /\ Rolled(r).allocation = r.allocation /\ Rolled(r).remaining = r.allocation /\ Rolled(r).overage = 0
          /\ r.allocation \in Nat
      BY <2>1 DEF IsPool, PoolRecord, Written
    <2> QED BY <1>2, <2>2, SMT DEF UsedOf
  <1> QED BY <1>1, <1>2

\* A spend charges its cost, on what is left of the period or, after a reset, on nothing.
LEMMA SpentUse ==
  ASSUME NEW r, IsPool(r), NEW cost \in Nat
  PROVE  UsedOf(Spent(r, cost)) = (IF Rolled(r) = r THEN UsedOf(r) ELSE 0) + cost
  <1> DEFINE s == Rolled(r)
  <1>1. IsPool(s) /\ UsedOf(s) = IF s = r THEN UsedOf(r) ELSE 0 BY RolledPool, RolledUse
  <1>2. s \in PoolRecord /\ s.remaining \in Nat /\ s.overage \in Nat /\ s.allocation \in Nat
    BY <1>1 DEF IsPool, PoolRecord
  <1>3. PICK short : short = IF s.remaining >= cost THEN 0 ELSE cost - s.remaining OBVIOUS
  <1>4. Spent(r, cost) = Metered(s, s.remaining - (cost - short), s.overage + short)
    BY <1>3 DEF Spent, Metered
  <1> HIDE DEF s
  <1>5. /\ Spent(r, cost).remaining = s.remaining - (cost - short) /\ Spent(r, cost).overage = s.overage + short
        /\ Spent(r, cost).allocation = s.allocation
    BY <1>2, <1>4 DEF Metered, PoolRecord
  <1>6. short \in Int BY <1>2, <1>3, SMT
  <1>7. UsedOf(Spent(r, cost)) = UsedOf(s) + cost BY <1>2, <1>5, <1>6, SMT DEF UsedOf
  <1> QED BY <1>1, <1>7 DEF s

\* A refund of one takes one off what is charged, if anything is.
LEMMA RefundedUse ==
  ASSUME NEW r, IsPool(r)
  PROVE  UsedOf(r) \in Nat /\ UsedOf(Refunded(r, 1)) = IF UsedOf(r) > 0 THEN UsedOf(r) - 1 ELSE 0
  <1>1. /\ r \in PoolRecord /\ r.remaining \in Nat /\ r.allocation \in Nat /\ r.overage \in Nat
        /\ r.remaining <= r.allocation
    BY DEF IsPool, PoolRecord
  <1>2. PICK over : over = Min2(r.overage, 1) OBVIOUS
  <1>3. PICK left : left = Min2(r.allocation, r.remaining + (1 - over)) OBVIOUS
  <1>4. Refunded(r, 1) = Metered(r, left, r.overage - over)
    BY <1>1, <1>2, <1>3 DEF Refunded, PoolRecord, Metered
  <1>5. /\ Refunded(r, 1).remaining = left /\ Refunded(r, 1).overage = r.overage - over
        /\ Refunded(r, 1).allocation = r.allocation
    BY <1>1, <1>4 DEF Metered, PoolRecord
  <1>6. CASE r.overage > 0
    <2>1. over = 1 /\ left = r.remaining BY <1>1, <1>2, <1>3, <1>6, SMT DEF Min2
    <2> QED BY <1>1, <1>5, <1>6, <2>1, SMT DEF UsedOf
  <1>7. CASE r.overage = 0
    <2>1. over = 0 BY <1>2, <1>7, SMT DEF Min2
    <2>2. left = IF r.remaining < r.allocation THEN r.remaining + 1 ELSE r.allocation
      BY <1>1, <1>3, <2>1, SMT DEF Min2
    <2>3. /\ UsedOf(r) = r.allocation - r.remaining
          /\ UsedOf(Refunded(r, 1)) = r.allocation - left
      BY <1>1, <1>3, <1>5, <1>7, <2>1, <2>2, SMT DEF UsedOf
    <2> QED BY <1>1, <2>2, <2>3, SMT
  <1> QED BY <1>1, <1>6, <1>7

\* A request of org o moves: nothing changes hands at any other org.
LEMMA MoneyMove ==
  ASSUME TypeInv, MoneyInv, NEW p \in Reqs, NEW r \in {Idle} \cup Handler, req' = [req EXCEPT ![p] = r],
         NEW o \in Orgs, req[p] = Idle \/ req[p].o = o, r = Idle \/ r.o = o,
         CallOK(r, gen'[o]), gen'[o] \in Nat, gen[o] <= gen'[o],
         \A x \in Orgs \ {o} : /\ pools'[x] = pools[x] /\ gen'[x] = gen[x] /\ granted'[x] = granted[x]
                               /\ carried'[x] = carried[x] /\ lost'[x] = lost[x],
         IsFiniteSet(Holders(o)'),
         Fair(pools'[o], granted'[o], Cardinality(Holders(o)'), carried'[o], lost'[o])
  PROVE  MoneyInv'
  <1>1. req'[p] = r /\ \A q \in Reqs \ {p} : req'[q] = req[q] BY DEF TypeInv
  <1>2. ASSUME NEW x \in Orgs, x # o PROVE Holders(x)' = Holders(x)
    <2>1. ~Holding(req[p], x, gen[x]) /\ ~Holding(r, x, gen[x]) BY <1>2 DEF Holding, Idle
    <2> QED BY <1>1, <1>2, <2>1 DEF Holders
  <1>3. ASSUME NEW q \in Reqs, NEW x \in Orgs, req'[q] = Idle \/ req'[q].o = x
        PROVE  CallOK(req'[q], gen'[x])
    <2>1. CASE req'[q] = Idle BY <2>1 DEF CallOK
    <2>2. CASE q = p /\ req'[q] # Idle BY <1>1, <1>3, <2>2
    <2>3. CASE q # p /\ req'[q] # Idle
      <3>1. req'[q] = req[q] /\ CallOK(req[q], gen[x]) /\ req[q] \in Handler
        BY <1>1, <1>3, <2>3 DEF MoneyInv, TypeInv
      <3>2. gen[x] \in Nat /\ gen'[x] \in Nat /\ gen[x] <= gen'[x] BY DEF TypeInv, HistoryOK
      <3>3. req[q].gen \in Nat BY <3>1 DEF Handler
      <3> QED BY <3>1, <3>2, <3>3 DEF CallOK
    <2> QED BY <2>1, <2>2, <2>3
  <1>4. ASSUME NEW x \in Orgs
        PROVE  IsFiniteSet(Holders(x)') /\ Fair(pools'[x], granted'[x], Cardinality(Holders(x)'), carried'[x], lost'[x])
    <2>1. CASE x = o BY <2>1
    <2>2. CASE x # o BY <1>2, <2>2 DEF MoneyInv
    <2> QED BY <2>1, <2>2
  <1>5. (\A q \in Reqs : \A x \in Orgs : req[q] = Idle \/ req[q].o = x => CallOK(req[q], gen[x]))'
    BY <1>3
  <1>6. (\A x \in Orgs : /\ IsFiniteSet(Holders(x))
                         /\ Fair(pools[x], granted[x], Cardinality(Holders(x)), carried[x], lost[x]))'
    BY <1>4
  <1> QED BY <1>5, <1>6 DEF MoneyInv

\* Who holds a credit after a step of p that leaves the filling as it is.
LEMMA HoldersSame ==
  ASSUME TypeInv, NEW p \in Reqs, NEW r, req' = [req EXCEPT ![p] = r], NEW o \in Orgs, gen'[o] = gen[o]
  PROVE  Holders(o)' = IF Holding(r, o, gen[o]) THEN Holders(o) \cup {p} ELSE Holders(o) \ {p}
  <1>1. req'[p] = r /\ \A q \in Reqs \ {p} : req'[q] = req[q] BY DEF TypeInv
  <1> QED BY <1>1 DEF Holders

\* Who holds one of the new filling: nobody but p.
LEMMA HoldersNew ==
  ASSUME TypeInv, MoneyInv, NEW p \in Reqs, NEW r, req' = [req EXCEPT ![p] = r], NEW o \in Orgs,
         gen'[o] = gen[o] + 1
  PROVE  Holders(o)' = IF Holding(r, o, gen[o] + 1) THEN {p} ELSE {}
  <1>1. req'[p] = r /\ \A q \in Reqs \ {p} : req'[q] = req[q] BY DEF TypeInv
  <1>2. ASSUME NEW q \in Reqs PROVE ~Holding(req[q], o, gen[o] + 1)
    <2> SUFFICES ASSUME Holding(req[q], o, gen[o] + 1) PROVE FALSE OBVIOUS
    <2>1. req[q] \in Handler /\ req[q].o = o /\ req[q] # Idle /\ req[q].pc \in {"sign", "refund"}
      BY DEF Holding, TypeInv, Idle
    <2>2. req[q].gen <= gen[o] /\ req[q].gen \in Nat /\ gen[o] \in Nat
      BY <2>1 DEF MoneyInv, CallOK, Handler, TypeInv, HistoryOK
    <2> QED BY <2>2 DEF Holding
  <1> QED BY <1>1, <1>2 DEF Holders

\* A set that gains or loses p.
LEMMA OneMore ==
  ASSUME NEW S, IsFiniteSet(S), NEW p
  PROVE  /\ IsFiniteSet(S \cup {p}) /\ IsFiniteSet(S \ {p})
         /\ Cardinality(S) \in Nat /\ Cardinality(S \cup {p}) \in Nat /\ Cardinality(S \ {p}) \in Nat
         /\ p \notin S => Cardinality(S \cup {p}) = Cardinality(S) + 1 /\ S \ {p} = S
         /\ p \in S => Cardinality(S \ {p}) = Cardinality(S) - 1 /\ S \cup {p} = S
  BY FS_AddElement, FS_RemoveElement, FS_CardinalityType

\* What the money of org o is made of.
LEMMA Numbers ==
  ASSUME TypeInv, MoneyInv, NEW o \in Orgs
  PROVE  /\ gen[o] \in Nat /\ granted[o] \in Nat /\ carried[o] \in Nat /\ lost[o] \in Nat
         /\ IsFiniteSet(Holders(o)) /\ Cardinality(Holders(o)) \in Nat
         /\ pools[o] # NoPool => IsPool(pools[o]) /\ UsedOf(pools[o]) \in Nat
  BY FS_CardinalityType, RefundedUse DEF TypeInv, HistoryOK, MoneyInv, PoolsOK
\* A spend charges what is granted, held or lost, and a reset starts the books anew.
LEMMA ChargeMoney ==
  ASSUME TypeInv, MoneyInv, NEW p \in Reqs, At(p, "spend"), CanSpend(p),
         NEW g \in Nat, NEW l \in Nat, Charge(p, g, l),
         NEW r \in {Idle} \cup Handler, req' = [req EXCEPT ![p] = r],
         \/ r = Idle /\ g + l = req[p].cost
         \/ /\ Holding(r, req[p].o, gen'[req[p].o]) /\ req[p].cost = 1 /\ g = 0 /\ l = 0
            /\ r.kind = "issue" /\ r.cost = 1
  PROVE  MoneyInv'
  <1>1. req[p] \in Handler /\ req[p].cost \in Nat BY Handling, CostsTyped DEF Handler
  <1>2. PICK o \in Orgs : o = req[p].o BY <1>1 DEF Handler
  <1>3. PICK cost \in Nat : cost = req[p].cost BY <1>1
  <1>4. IsPool(pools[o]) /\ UsedOf(pools[o]) \in Nat BY <1>2, Numbers DEF CanSpend
  <1>5. pools' = [pools EXCEPT ![o] = Spent(pools[o], cost)] BY <1>2, <1>3 DEF Charge
  <1>6. pools'[o] = Spent(pools[o], cost) /\ \A x \in Orgs \ {o} : pools'[x] = pools[x]
    BY <1>5 DEF TypeInv, PoolsOK
  <1>7. PICK h \in Nat : /\ h = IF r = Idle THEN 0 ELSE 1
                         /\ g + h + l = cost
    BY <1>2, <1>3, <1>1 DEF Holding, Idle
  <1>8. Holding(r, o, gen'[o]) <=> r # Idle BY <1>2 DEF Holding, Idle
  <1>9. r = Idle \/ r.o = o BY <1>8 DEF Holding
  <1>10. p \notin Holders(o) BY DEF Holders, Holding, At
  <1>11. CASE Rolls(o)
    <2>1. Refill(o, g, 0, l) BY <1>2, <1>11 DEF Charge
    <2>2. /\ gen'[o] = gen[o] + 1 /\ granted'[o] = g /\ carried'[o] = 0 /\ lost'[o] = l
          /\ \A x \in Orgs \ {o} : /\ gen'[x] = gen[x] /\ granted'[x] = granted[x]
                                   /\ carried'[x] = carried[x] /\ lost'[x] = lost[x]
      BY <2>1 DEF Refill, TypeInv, HistoryOK
    <2>3. Holders(o)' = IF r # Idle THEN {p} ELSE {} BY <1>8, <2>2, HoldersNew
    <2>4. IsFiniteSet(Holders(o)') /\ Cardinality(Holders(o)') = h BY <1>7, <2>3, FS_EmptySet, FS_Singleton
    <2>5. UsedOf(pools'[o]) = cost BY <1>4, <1>6, <1>11, SpentUse DEF Rolls
    <2>6. Fair(pools'[o], granted'[o], Cardinality(Holders(o)'), carried'[o], lost'[o])
      BY <1>7, <2>2, <2>4, <2>5 DEF Fair
    <2>7. gen[o] \in Nat BY Numbers
    <2>8. CallOK(r, gen'[o]) /\ gen'[o] \in Nat /\ gen[o] <= gen'[o]
      BY <1>8, <2>2, <2>7 DEF CallOK, Holding
    <2> QED BY <1>2, <1>6, <1>9, <2>2, <2>4, <2>6, <2>8, MoneyMove
  <1>12. CASE ~Rolls(o)
    <2>1. /\ granted' = [granted EXCEPT ![o] = @ + g] /\ lost' = [lost EXCEPT ![o] = @ + l]
          /\ UNCHANGED <<gen, carried>>
      BY <1>2, <1>12 DEF Charge
    <2>2. /\ gen'[o] = gen[o] /\ granted'[o] = granted[o] + g /\ carried'[o] = carried[o] /\ lost'[o] = lost[o] + l
          /\ \A x \in Orgs \ {o} : /\ gen'[x] = gen[x] /\ granted'[x] = granted[x]
                                   /\ carried'[x] = carried[x] /\ lost'[x] = lost[x]
      BY <2>1 DEF TypeInv, HistoryOK
    <2>3. Holders(o)' = IF r # Idle THEN Holders(o) \cup {p} ELSE Holders(o) \ {p}
      <3>1. Holding(r, o, gen[o]) <=> r # Idle BY <1>8, <2>2
      <3>2. gen'[o] = gen[o] BY <2>2
      <3>3. Holders(o)' = IF Holding(r, o, gen[o]) THEN Holders(o) \cup {p} ELSE Holders(o) \ {p}
        BY <3>2, HoldersSame
      <3> QED BY <3>1, <3>3
    <2>4. IsFiniteSet(Holders(o)') /\ Cardinality(Holders(o)') = Cardinality(Holders(o)) + h
      <3>1. PICK S : S = Holders(o) OBVIOUS
      <3>2. IsFiniteSet(S) /\ p \notin S BY <1>10, <3>1, Numbers
      <3>3. /\ IsFiniteSet(S \cup {p}) /\ IsFiniteSet(S \ {p}) /\ Cardinality(S) \in Nat
            /\ Cardinality(S \cup {p}) = Cardinality(S) + 1 /\ S \ {p} = S
        BY <3>2, OneMore
      <3>4. CASE r = Idle
        <4>1. Holders(o)' = S /\ h = 0 BY <1>7, <2>3, <3>1, <3>3, <3>4
        <4> QED BY <3>1, <3>2, <3>3, <4>1
      <3>5. CASE r # Idle
        <4>1. Holders(o)' = S \cup {p} /\ h = 1 BY <1>7, <2>3, <3>1, <3>5
        <4> QED BY <3>1, <3>3, <4>1
      <3> QED BY <3>4, <3>5
    <2>5. UsedOf(pools'[o]) = UsedOf(pools[o]) + cost BY <1>4, <1>6, <1>12, SpentUse DEF Rolls
    <2>6. /\ gen[o] \in Nat /\ granted[o] \in Nat /\ carried[o] \in Nat /\ lost[o] \in Nat
          /\ Cardinality(Holders(o)) \in Nat
      BY Numbers
    <2>7. /\ granted[o] + Cardinality(Holders(o)) <= UsedOf(pools[o]) + carried[o]
          /\ UsedOf(pools[o]) <= granted[o] + Cardinality(Holders(o)) + lost[o]
      BY <1>2 DEF MoneyInv, Fair, CanSpend
    <2>8. Fair(pools'[o], granted'[o], Cardinality(Holders(o)'), carried'[o], lost'[o])
      BY <1>4, <1>7, <2>2, <2>4, <2>5, <2>6, <2>7 DEF Fair
    <2>9. CallOK(r, gen'[o]) /\ gen'[o] \in Nat /\ gen[o] <= gen'[o]
      BY <1>8, <2>2, <2>6 DEF CallOK, Holding
    <2> QED BY <1>2, <1>6, <1>9, <2>2, <2>4, <2>8, <2>9, MoneyMove
  <1> QED BY <1>11, <1>12

\* A step of p that leaves the pools and their books alone and takes no credit in hand.
LEMMA QuietMoney ==
  ASSUME TypeInv, MoneyInv, NEW p \in Reqs, NEW r \in {Idle} \cup Handler, req' = [req EXCEPT ![p] = r],
         NEW o \in Orgs, req[p] = Idle \/ req[p].o = o,
         r # Idle => r.o = o /\ (r.kind # "initiate" => r.cost = 1),
         \/ req[p].pc \notin {"sign", "refund"} /\ (r # Idle => r.pc \notin {"sign", "refund"})
         \/ req[p].pc = "sign" /\ r.pc = "refund" /\ r.gen = req[p].gen
         \/ req[p].pc \in {"sign", "refund"} /\ r = Idle /\ req[p].gen # gen[o],
         UNCHANGED <<pools, gen, granted, carried, lost>>
  PROVE  MoneyInv'
  <1>1. gen'[o] = gen[o] /\ gen[o] \in Nat BY Numbers
  <1>2. p \in Holders(o) <=> Holding(r, o, gen[o]) BY DEF Holders, Holding, Idle
  <1>3. Holders(o)' = Holders(o)
    <2>1. Holders(o)' = IF Holding(r, o, gen[o]) THEN Holders(o) \cup {p} ELSE Holders(o) \ {p}
      BY <1>1, HoldersSame
    <2> QED BY <1>2, <2>1
  <1>4. IsFiniteSet(Holders(o)')
        /\ Fair(pools'[o], granted'[o], Cardinality(Holders(o)'), carried'[o], lost'[o])
    BY <1>3 DEF MoneyInv
  <1>5. CallOK(req[p], gen[o]) BY DEF MoneyInv
  <1>6. CallOK(r, gen'[o]) BY <1>1, <1>5 DEF CallOK, Idle
  <1>7. gen'[o] \in Nat /\ gen[o] <= gen'[o] BY <1>1
  <1>8. \A x \in Orgs \ {o} : /\ pools'[x] = pools[x] /\ gen'[x] = gen[x] /\ granted'[x] = granted[x]
                               /\ carried'[x] = carried[x] /\ lost'[x] = lost[x]
    OBVIOUS
  <1> QED BY <1>4, <1>6, <1>7, <1>8, MoneyMove

\* A credit in hand is used, lost or given back.
LEMMA HandMoney ==
  ASSUME TypeInv, PoolInv, MoneyInv, NEW p \in Reqs, req[p].pc \in {"sign", "refund"},
         NEW o \in Orgs, o = req[p].o, Done(p), gen' = gen,
         \A x \in Orgs \ {o} : /\ pools'[x] = pools[x] /\ granted'[x] = granted[x]
                               /\ carried'[x] = carried[x] /\ lost'[x] = lost[x],
         LET cur == IF Current(p) THEN 1 ELSE 0 IN
         \/ pools'[o] = pools[o] /\ granted'[o] = granted[o] + cur /\ UNCHANGED <<carried, lost>>
         \/ pools'[o] = pools[o] /\ lost'[o] = lost[o] + cur /\ UNCHANGED <<carried, granted>>
         \/ /\ pools'[o] = Refunded(pools[o], 1) /\ carried'[o] = carried[o] + (1 - cur)
            /\ UNCHANGED <<granted, lost>>
  PROVE  MoneyInv'
  <1>1. PICK cur \in {0, 1} : cur = IF Current(p) THEN 1 ELSE 0 OBVIOUS
  <1>2. req' = [req EXCEPT ![p] = Idle] BY DEF Done
  <1>3. gen'[o] = gen[o] /\ ~Holding(Idle, o, gen[o]) BY DEF Holding, Idle
  <1>4. Holders(o)' = Holders(o) \ {p} BY <1>2, <1>3, HoldersSame
  <1>5. p \in Holders(o) <=> cur = 1 BY <1>1 DEF Holders, Holding, Current
  <1>6. req[p].pc # "idle" /\ keys[o].made BY DEF PoolInv
  <1>7. pools[o] # NoPool BY DEF PoolInv
  <1>8. /\ gen[o] \in Nat /\ granted[o] \in Nat /\ carried[o] \in Nat /\ lost[o] \in Nat
        /\ IsFiniteSet(Holders(o)) /\ Cardinality(Holders(o)) \in Nat
        /\ IsPool(pools[o]) /\ UsedOf(pools[o]) \in Nat
    BY <1>7, Numbers
  <1>9. /\ IsFiniteSet(Holders(o)') /\ Cardinality(Holders(o)') \in Nat
        /\ Cardinality(Holders(o)') = Cardinality(Holders(o)) - cur
    <2>1. PICK S : S = Holders(o) OBVIOUS
    <2>2. IsFiniteSet(S) /\ (p \in S <=> cur = 1) BY <1>5, <1>8, <2>1
    <2>3. /\ IsFiniteSet(S \ {p}) /\ Cardinality(S) \in Nat /\ Cardinality(S \ {p}) \in Nat
          /\ p \in S => Cardinality(S \ {p}) = Cardinality(S) - 1
          /\ p \notin S => S \ {p} = S
      BY <2>2, OneMore
    <2>4. PICK a, b : a = Cardinality(S) /\ b = Cardinality(S \ {p}) OBVIOUS
    <2>5. p \notin S => b = a BY <2>3, <2>4
    <2>6. a \in Nat /\ b = a - cur BY <2>2, <2>3, <2>4, <2>5
    <2> QED BY <1>4, <2>1, <2>3, <2>4, <2>6
  <1>10. /\ granted[o] + Cardinality(Holders(o)) <= UsedOf(pools[o]) + carried[o]
         /\ UsedOf(pools[o]) <= granted[o] + Cardinality(Holders(o)) + lost[o]
    BY <1>7 DEF MoneyInv, Fair
  <1>11. PICK used : used = UsedOf(pools'[o]) OBVIOUS
  <1>12. \/ used = UsedOf(pools[o]) /\ granted'[o] = granted[o] + cur /\ carried'[o] = carried[o] /\ lost'[o] = lost[o]
         \/ used = UsedOf(pools[o]) /\ granted'[o] = granted[o] /\ carried'[o] = carried[o] /\ lost'[o] = lost[o] + cur
         \/ /\ used = IF UsedOf(pools[o]) > 0 THEN UsedOf(pools[o]) - 1 ELSE 0
            /\ granted'[o] = granted[o] /\ carried'[o] = carried[o] + (1 - cur) /\ lost'[o] = lost[o]
    BY <1>1, <1>8, <1>11, RefundedUse
  <1>13. /\ granted'[o] + Cardinality(Holders(o)') <= used + carried'[o]
         /\ used <= granted'[o] + Cardinality(Holders(o)') + lost'[o]
    <2>1. PICK h, i, u, g, c, l : /\ h = Cardinality(Holders(o)) /\ i = Cardinality(Holders(o)') /\ u = UsedOf(pools[o])
                                  /\ g = granted[o] /\ c = carried[o] /\ l = lost[o]
      OBVIOUS
    <2>2. PICK gg, cc, ll : gg = granted'[o] /\ cc = carried'[o] /\ ll = lost'[o] OBVIOUS
    <2>3. h \in Nat /\ i \in Nat /\ u \in Nat /\ g \in Nat /\ c \in Nat /\ l \in Nat /\ i = h - cur
          /\ g + h <= u + c /\ u <= g + h + l
      BY <1>8, <1>9, <1>10, <2>1
    <2>4. \/ used = u /\ gg = g + cur /\ cc = c /\ ll = l
          \/ used = u /\ gg = g /\ cc = c /\ ll = l + cur
          \/ used = (IF u > 0 THEN u - 1 ELSE 0) /\ gg = g /\ cc = c + (1 - cur) /\ ll = l
      BY <1>12, <2>1, <2>2
    <2>5. gg + i <= used + cc /\ used <= gg + i + ll BY <2>3, <2>4, SMT
    <2> QED BY <2>1, <2>2, <2>5
  <1>14. Fair(pools'[o], granted'[o], Cardinality(Holders(o)'), carried'[o], lost'[o])
    BY <1>11, <1>13 DEF Fair
  <1>15. CallOK(Idle, gen'[o]) /\ gen'[o] \in Nat /\ gen[o] <= gen'[o] BY <1>3, <1>8 DEF CallOK
  <1> QED BY <1>2, <1>9, <1>14, <1>15, MoneyMove
LEMMA RequestMoney ==
  ASSUME TypeInv, PoolInv, MoneyInv, NEW p \in Reqs, Request(p)
  PROVE  MoneyInv'
  <1> USE DEF store, history
  <1>1. req[p] \in Handler /\ \E r \in {Idle} \cup Handler : Moves(p, r) BY RequestMoves
  <1>2. PICK o \in Orgs : o = req[p].o BY <1>1 DEF Handler
  <1>3. req[p] # Idle BY <1>1, SMT DEF Idle, Handler, Past
  <1>4. req[p].kind # "initiate" => req[p].cost = 1 BY <1>2, <1>3 DEF MoneyInv, CallOK
  <1>5. Idle \in {Idle} \cup Handler /\ Idle.pc \notin {"sign", "refund"} BY DEF Idle
  <1>6. CASE Ask(p) \/ CacheAnswer(p) \/ Check(p) \/ SpendRefused(p)
    <2>1. PICK r \in {Idle} \cup Handler : Moves(p, r) BY <1>1
    <2>2. req[p].pc \notin {"sign", "refund"} BY <1>6 DEF Ask, CacheAnswer, Check, SpendRefused, At
    <2>3. req'[p].pc \notin {"sign", "refund"}
      BY <1>1, <1>5, <1>6, AdmittedTyped
         DEF Ask, CacheAnswer, Check, SpendRefused, Admit, Done, Goto, TypeInv, Handler
    <2>4. req'[p] = r BY <2>1 DEF Moves, TypeInv
    <2>5. UNCHANGED <<pools, gen, granted, carried, lost>>
      BY <1>6 DEF Ask, CacheAnswer, Check, SpendRefused
    <2> QED BY <1>2, <1>4, <2>1, <2>2, <2>3, <2>4, <2>5, QuietMoney DEF Moves
  <1>7. CASE SignFails(p)
    <2> DEFINE r == [req[p] EXCEPT !.pc = "refund"]
    <2>1. /\ r \in Handler /\ r.pc = "refund" /\ r.gen = req[p].gen /\ r.o = req[p].o
          /\ r.kind = req[p].kind /\ r.cost = req[p].cost
      BY <1>1 DEF Handler, Past
    <2>2. req' = [req EXCEPT ![p] = r] /\ req[p].pc = "sign" /\ UNCHANGED <<pools, gen, granted, carried, lost>>
      BY <1>7 DEF SignFails, Goto, At, TypeInv
    <2> HIDE DEF r
    <2> QED BY <1>2, <1>4, <2>1, <2>2, QuietMoney
  <1>8. CASE Spend(p)
    <2>1. CASE req[p].kind = "issue"
      <3> DEFINE r == [req[p] EXCEPT !.pc = "sign", !.gen = gen'[req[p].o]]
      <3>1. At(p, "spend") /\ CanSpend(p) /\ Charge(p, 0, 0) /\ req' = [req EXCEPT ![p] = r]
        BY <1>8, <2>1 DEF Spend, TypeInv
      <3>2. HistoryOK' BY <3>1, Charged
      <3>3. r \in Handler BY <1>1, <3>2 DEF Handler, HistoryOK, Past
      <3>4. /\ r.pc = "sign" /\ r.o = req[p].o /\ r.gen = gen'[req[p].o]
            /\ r.kind = req[p].kind /\ r.cost = req[p].cost
        BY <1>1 DEF Handler
      <3> HIDE DEF r
      <3>5. /\ Holding(r, req[p].o, gen'[req[p].o]) /\ req[p].cost = 1
            /\ r.kind = "issue" /\ r.cost = 1
        BY <1>4, <2>1, <3>4 DEF Holding
      <3> QED BY <3>1, <3>3, <3>5, ChargeMoney
    <2>2. CASE req[p].kind # "issue"
      <3>1. At(p, "spend") /\ CanSpend(p) /\ Charge(p, req[p].cost, 0) /\ req' = [req EXCEPT ![p] = Idle]
        BY <1>8, <2>2 DEF Spend, Done
      <3>2. req[p].cost \in Nat /\ 0 \in Nat /\ req[p].cost + 0 = req[p].cost BY <1>1, CostsTyped DEF Handler
      <3> QED BY <1>5, <3>1, <3>2, ChargeMoney
    <2> QED BY <2>1, <2>2
  <1>9. CASE SpendLost(p)
    <2>1. At(p, "spend") /\ CanSpend(p) /\ Charge(p, 0, req[p].cost) /\ req' = [req EXCEPT ![p] = Idle]
      BY <1>9 DEF SpendLost, Done
    <2>2. req[p].cost \in Nat /\ 0 \in Nat /\ 0 + req[p].cost = req[p].cost BY <1>1, CostsTyped DEF Handler
    <2> QED BY <1>5, <2>1, <2>2, ChargeMoney
  <1>10. CASE Sign(p)
    <2>1. /\ req[p].pc \in {"sign", "refund"} /\ Done(p) /\ UNCHANGED <<pools, gen, carried, lost>>
          /\ granted' = IF Current(p) THEN [granted EXCEPT ![o] = @ + 1] ELSE granted
      BY <1>2, <1>10 DEF Sign, At
    <2>2. /\ granted'[o] = granted[o] + (IF Current(p) THEN 1 ELSE 0)
          /\ \A x \in Orgs \ {o} : granted'[x] = granted[x]
      BY <2>1 DEF TypeInv, HistoryOK
    <2> QED BY <1>2, <2>1, <2>2, HandMoney
  <1>11. CASE Refund(p) \/ RefundLost(p)
    <2>1. /\ req[p].pc \in {"sign", "refund"} /\ Done(p) /\ UNCHANGED <<gen, granted, lost>>
          /\ pools' = [pools EXCEPT ![o] = Refunded(pools[o], 1)]
          /\ carried' = IF Current(p) THEN carried ELSE [carried EXCEPT ![o] = @ + 1]
      BY <1>2, <1>11 DEF Refund, RefundLost, GiveBack, At
    <2>2. /\ carried'[o] = carried[o] + (1 - (IF Current(p) THEN 1 ELSE 0))
          /\ \A x \in Orgs \ {o} : carried'[x] = carried[x]
      BY <2>1 DEF TypeInv, HistoryOK
    <2>3. pools'[o] = Refunded(pools[o], 1) /\ \A x \in Orgs \ {o} : pools'[x] = pools[x]
      BY <2>1 DEF TypeInv, PoolsOK
    <2> QED BY <1>2, <2>1, <2>2, <2>3, HandMoney
  <1>12. CASE Crash(p)
    <2>1. /\ Done(p) /\ UNCHANGED <<pools, gen, granted, carried>>
          /\ lost' = IF req[p].pc \in {"sign", "refund"} /\ Current(p)
                     THEN [lost EXCEPT ![o] = @ + 1] ELSE lost
      BY <1>2, <1>12 DEF Crash, Drop
    <2>2. CASE req[p].pc \in {"sign", "refund"}
      <3>1. /\ lost'[o] = lost[o] + (IF Current(p) THEN 1 ELSE 0)
            /\ \A x \in Orgs \ {o} : lost'[x] = lost[x]
        BY <2>1, <2>2 DEF TypeInv, HistoryOK
      <3> QED BY <1>2, <2>1, <2>2, <3>1, HandMoney
    <2>3. CASE req[p].pc \notin {"sign", "refund"}
      <3>1. req' = [req EXCEPT ![p] = Idle] /\ lost' = lost BY <2>1, <2>3 DEF Done
      <3> QED BY <1>2, <1>5, <2>1, <2>3, <3>1, QuietMoney
    <2> QED BY <2>2, <2>3
  <1> QED BY <1>6, <1>7, <1>8, <1>9, <1>10, <1>11, <1>12 DEF Request

LEMMA ArriveMoney ==
  ASSUME TypeInv, PoolInv, MoneyInv, NEW p \in Reqs, Arrives(p)
  PROVE  MoneyInv'
  <1>1. PICK i \in Isolates, o \in Orgs, kind \in Kinds, cost \in Costs \cup {1} : Arrive(p, i, o, kind, cost)
    BY DEF Arrives
  <1>2. PICK r \in {Idle} \cup Handler :
           /\ req' = [req EXCEPT ![p] = r]
           /\ r # Idle => /\ r.o = o /\ r.kind = kind /\ r.cost = cost /\ r.pc \in {"ask", "check", "spend"}
    BY <1>1, Arrival
  <1>3. req[p] = Idle BY <1>1, SMT DEF Arrive, At, TypeInv, Idle, Handler, Past
  <1>4. req[p].pc \notin {"sign", "refund"} BY <1>3 DEF Idle
  <1>5. kind # "initiate" => cost = 1 BY <1>1 DEF Arrive
  <1>6. UNCHANGED <<pools, gen, granted, carried, lost>> BY <1>1 DEF Arrive, store, history
  <1> QED BY <1>2, <1>3, <1>4, <1>5, <1>6, QuietMoney

\* The books of the orgs a step of the admin routes leaves alone.
LEMMA AdminBooks ==
  ASSUME TypeInv, MoneyInv, req' = req, NEW o \in Orgs, gen[o] <= gen'[o], gen'[o] \in Nat,
         \A x \in Orgs \ {o} : /\ pools'[x] = pools[x] /\ gen'[x] = gen[x] /\ granted'[x] = granted[x]
                               /\ carried'[x] = carried[x] /\ lost'[x] = lost[x],
         IsFiniteSet(Holders(o)'),
         Fair(pools'[o], granted'[o], Cardinality(Holders(o)'), carried'[o], lost'[o])
  PROVE  MoneyInv'
  <1>1. ASSUME NEW q \in Reqs, NEW x \in Orgs, req[q] = Idle \/ req[q].o = x
        PROVE  CallOK(req[q], gen'[x])
    <2>1. CASE req[q] = Idle BY <2>1 DEF CallOK
    <2>2. CASE req[q] # Idle
      <3>1. req[q] \in Handler /\ CallOK(req[q], gen[x]) BY <1>1, <2>2 DEF TypeInv, MoneyInv
      <3>2. req[q].gen \in Nat /\ gen[x] \in Nat /\ gen'[x] \in Nat /\ gen[x] <= gen'[x]
        BY <3>1 DEF Handler, TypeInv, HistoryOK
      <3> QED BY <3>1, <3>2 DEF CallOK
    <2> QED BY <2>1, <2>2
  <1>2. ASSUME NEW x \in Orgs
        PROVE  IsFiniteSet(Holders(x)') /\ Fair(pools'[x], granted'[x], Cardinality(Holders(x)'), carried'[x], lost'[x])
    <2>1. CASE x = o BY <2>1
    <2>2. CASE x # o
      <3>1. Holders(x)' = Holders(x) BY <2>2 DEF Holders
      <3> QED BY <2>2, <3>1 DEF MoneyInv
    <2> QED BY <2>1, <2>2
  <1>3. (\A q \in Reqs : \A x \in Orgs : req[q] = Idle \/ req[q].o = x => CallOK(req[q], gen[x]))'
    BY <1>1
  <1>4. (\A x \in Orgs : /\ IsFiniteSet(Holders(x))
                         /\ Fair(pools[x], granted[x], Cardinality(Holders(x)), carried[x], lost[x]))'
    BY <1>2
  <1> QED BY <1>3, <1>4 DEF MoneyInv

\* A pool filled anew is charged nothing.
LEMMA FillMoney ==
  ASSUME TypeInv, MoneyInv, req' = req, NEW o \in Orgs, NEW plan \in Plans, NEW ceiling \in Ceilings \cup {0},
         Fill(o, plan, ceiling)
  PROVE  MoneyInv'
  <1>1. PICK length : pools' = [pools EXCEPT ![o] = Provisioned(plan, ceiling, now, length)]
    BY DEF Fill
  <1>2. pools'[o] = Provisioned(plan, ceiling, now, length) /\ \A x \in Orgs \ {o} : pools'[x] = pools[x]
    BY <1>1 DEF TypeInv, PoolsOK
  <1>3. Allocation[plan] \in Nat BY CreditsAssumption
  <1>4. UsedOf(pools'[o]) = 0 BY <1>2, <1>3 DEF Provisioned, UsedOf
  <1>5. /\ gen'[o] = gen[o] + 1 /\ granted'[o] = 0 /\ carried'[o] = 0 /\ lost'[o] = 0
        /\ \A x \in Orgs \ {o} : /\ gen'[x] = gen[x] /\ granted'[x] = granted[x]
                                 /\ carried'[x] = carried[x] /\ lost'[x] = lost[x]
    BY DEF Fill, Refill, TypeInv, HistoryOK
  <1>6. ASSUME NEW q \in Reqs PROVE ~Holding(req[q], o, gen[o] + 1)
    <2> SUFFICES ASSUME Holding(req[q], o, gen[o] + 1) PROVE FALSE OBVIOUS
    <2>1. req[q] \in Handler /\ req[q].o = o /\ req[q] # Idle /\ req[q].pc \in {"sign", "refund"}
      BY DEF Holding, TypeInv, Idle
    <2>2. req[q].gen <= gen[o] /\ req[q].gen \in Nat /\ gen[o] \in Nat
      BY <2>1 DEF MoneyInv, CallOK, Handler, TypeInv, HistoryOK
    <2> QED BY <2>2 DEF Holding
  <1>7. Holders(o)' = {} BY <1>5, <1>6 DEF Holders
  <1>8. IsFiniteSet(Holders(o)') /\ Cardinality(Holders(o)') = 0 BY <1>7, FS_EmptySet
  <1>9. Fair(pools'[o], granted'[o], Cardinality(Holders(o)'), carried'[o], lost'[o])
    BY <1>4, <1>5, <1>8 DEF Fair
  <1>10. gen[o] \in Nat BY Numbers
  <1>11. gen[o] <= gen'[o] /\ gen'[o] \in Nat BY <1>5, <1>10
  <1> QED BY <1>2, <1>5, <1>8, <1>9, <1>11, AdminBooks

\* Where neither requests, pools nor books change.
LEMMA StillMoney ==
  ASSUME MoneyInv, UNCHANGED <<req, pools, gen, granted, carried, lost>>
  PROVE  MoneyInv'
  <1>1. \A o \in Orgs : Holders(o)' = Holders(o) BY DEF Holders
  <1> QED BY <1>1 DEF MoneyInv

\* An immediate cancellation forfeits what is left.
LEMMA CancelMoney ==
  ASSUME TypeInv, PoolInv, MoneyInv, NEW immediate \in BOOLEAN, Cancel(immediate)
  PROVE  MoneyInv'
  <1> USE DEF store, history
  <1>1. PICK o \in Orgs : o = adm.o BY DEF Cancel, TypeInv, AdminOK, Operation, Idle
  <1>2. pools[o] # NoPool BY <1>1 DEF Cancel, PoolInv, KeyHasPool
  <1>3. IsPool(pools[o]) BY <1>2, Numbers
  <1>4. UNCHANGED <<req, gen, granted, carried>> BY DEF Cancel
  <1>5. CASE Cancelled(pools[o])
    BY <1>1, <1>4, <1>5, StillMoney DEF Cancel
  <1>6. CASE ~Cancelled(pools[o])
    <2>1. PICK left \in Nat : left = IF immediate THEN 0 ELSE pools[o].remaining
      BY <1>3 DEF IsPool, PoolRecord
    <2>2. pools' = [pools EXCEPT ![o] = [pools[o] EXCEPT !.status = "cancelled", !.remaining = left]]
      BY <1>1, <1>6, <2>1 DEF Cancel, TypeInv, PoolsOK
    <2>3. /\ pools'[o].remaining = left /\ pools'[o].allocation = pools[o].allocation
          /\ pools'[o].overage = pools[o].overage
          /\ \A x \in Orgs \ {o} : pools'[x] = pools[x]
      BY <1>3, <2>2 DEF IsPool, PoolRecord, TypeInv, PoolsOK
    <2>4. /\ lost'[o] = lost[o] + (pools[o].remaining - left)
          /\ \A x \in Orgs \ {o} : lost'[x] = lost[x]
      <3>1. pools[o].remaining \in Nat /\ lost[o] \in Nat BY <1>3, Numbers DEF IsPool, PoolRecord
      <3>2. lost' = IF ~immediate THEN lost ELSE [lost EXCEPT ![o] = @ + pools[o].remaining]
        BY <1>1, <1>6 DEF Cancel
      <3> QED BY <2>1, <3>1, <3>2 DEF TypeInv, HistoryOK
    <2>5. /\ pools[o].remaining \in Nat /\ pools[o].allocation \in Nat /\ pools[o].overage \in Nat
          /\ left <= pools[o].remaining
      BY <1>3, <2>1 DEF IsPool, PoolRecord
    <2>6. UsedOf(pools'[o]) = UsedOf(pools[o]) + (pools[o].remaining - left)
      BY <2>3, <2>5, SMT DEF UsedOf
    <2>7. Holders(o)' = Holders(o) BY <1>4 DEF Holders
    <2>8. /\ granted[o] + Cardinality(Holders(o)) <= UsedOf(pools[o]) + carried[o]
          /\ UsedOf(pools[o]) <= granted[o] + Cardinality(Holders(o)) + lost[o]
          /\ IsFiniteSet(Holders(o))
      BY <1>2 DEF MoneyInv, Fair
    <2>9. /\ gen[o] \in Nat /\ granted[o] \in Nat /\ carried[o] \in Nat /\ lost[o] \in Nat
          /\ Cardinality(Holders(o)) \in Nat /\ UsedOf(pools[o]) \in Nat
      BY <1>2, Numbers
    <2>10. Fair(pools'[o], granted'[o], Cardinality(Holders(o)'), carried'[o], lost'[o])
      <3>1. PICK d \in Nat : d = pools[o].remaining - left BY <2>5
      <3> QED BY <1>4, <2>4, <2>6, <2>7, <2>8, <2>9, <3>1 DEF Fair
    <2>11. gen[o] <= gen'[o] /\ gen'[o] \in Nat BY <1>4, <2>9
    <2> QED BY <1>4, <2>3, <2>4, <2>7, <2>8, <2>10, <2>11, AdminBooks
  <1> QED BY <1>5, <1>6

LEMMA AdminMoney ==
  ASSUME TypeInv, PoolInv, MoneyInv, Admin
  PROVE  MoneyInv'
  <1> USE DEF store, history
  <1>1. ASSUME NEW o \in Orgs, NEW plan \in Plans, NEW ceiling \in Ceilings, Create(o, plan, ceiling)
        PROVE  MoneyInv'
    BY <1>1, FillMoney DEF Create
  <1>2. CASE Provision
    <2>1. adm.o \in Orgs /\ adm.plan \in Plans /\ adm.ceiling \in Ceilings \cup {0}
      BY <1>2 DEF Provision, TypeInv, AdminOK, Operation, Idle
    <2> QED BY <1>2, <2>1, FillMoney DEF Provision
  <1>3. ASSUME NEW immediate \in BOOLEAN, Cancel(immediate) PROVE MoneyInv' BY <1>3, CancelMoney
  <1>4. ASSUME NEW pc, NEW o, NEW plan, NEW ceiling, Find(pc, o, plan, ceiling) PROVE MoneyInv'
    BY <1>4, StillMoney DEF Find
  <1>5. ASSUME NEW o, NEW i, Revoke(o, i) PROVE MoneyInv' BY <1>5, StillMoney DEF Revoke
  <1>6. CASE CreateKey \/ (\E o \in Orgs : CreateAnonymous(o)) \/ Forget \/ AdminCrash
    BY <1>6, StillMoney DEF CreateKey, CreateAnonymous, Forget, AdminCrash
  <1> QED BY <1>1, <1>2, <1>3, <1>4, <1>5, <1>6 DEF Admin

LEMMA MoneyCorrect == Spec => []MoneyInv
  <1>1. Init => MoneyInv
    <2> SUFFICES ASSUME Init PROVE MoneyInv OBVIOUS
    <2>1. \A o \in Orgs : Holders(o) = {} BY DEF Init, Holders, Holding, Idle
    <2>2. \A o \in Orgs : IsFiniteSet(Holders(o)) BY <2>1, FS_EmptySet
    <2> QED BY <2>2 DEF Init, MoneyInv, CallOK, Fair
  <1>2. TypeInv /\ PoolInv /\ MoneyInv /\ [Next]_vars => MoneyInv'
    <2> SUFFICES ASSUME TypeInv, PoolInv, MoneyInv, [Next]_vars PROVE MoneyInv' OBVIOUS
    <2>1. CASE Tick \/ (\E i \in Isolates : Evict(i)) \/ UNCHANGED vars
      BY <2>1, StillMoney DEF Tick, Evict, vars, store, history
    <2>2. CASE Admin BY <2>2, AdminMoney
    <2>3. ASSUME NEW p \in Reqs, Request(p) PROVE MoneyInv' BY <2>3, RequestMoney
    <2>4. ASSUME NEW p \in Reqs, Arrives(p) PROVE MoneyInv' BY <2>4, ArriveMoney
    <2> QED BY <2>1, <2>2, <2>3, <2>4 DEF Next, Arrives
  <1> QED BY <1>1, <1>2, StoreCorrect, PTL DEF Spec

\* The books of MoneyInv are those of the properties.
LEMMA HeldIsHolders == \A o \in Orgs : Held(o) = Cardinality(Holders(o))
  <1> SUFFICES ASSUME NEW o \in Orgs PROVE Held(o) = Cardinality(Holders(o)) OBVIOUS
  <1>1. Holders(o) = {p \in Reqs : req[p].pc \in {"sign", "refund"} /\ req[p].o = o /\ Current(p)}
    BY DEF Holders, Holding, Current
  <1> QED BY <1>1 DEF Held

\* Whatever resets, refills, late refunds and lost answers there are, no signature is
\* made, and no transfer begun, that is not charged on the pool or carried over into it.
THEOREM NothingIsFree == Spec => []NothingFree
  <1>1. MoneyInv => NothingFree
    BY HeldIsHolders DEF MoneyInv, Fair, NothingFree, Open, Used, UsedOf
  <1> QED BY <1>1, MoneyCorrect, PTL

\* No pool is charged for more than was done, is under way, or was forfeited by a lost
\* answer or an immediate cancellation: no retry and no race charges twice.
THEOREM NothingChargedTwice == Spec => []ChargedOnce
  <1>1. MoneyInv => ChargedOnce
    BY HeldIsHolders DEF MoneyInv, Fair, ChargedOnce, Open, Used, UsedOf
  <1> QED BY <1>1, MoneyCorrect, PTL
=============================================================================
