--------------------------- MODULE InitiateProofs ---------------------------
(* Machine-checked facts about Initiate, for every number of requests,      *)
(* transfers, sessions, credentials and faults.                             *)
EXTENDS Initiate, FiniteSetTheorems, TLAPS

Handler == [pc : Labels, s : Sessions, c : Serials, k : Kinds]
Record == [kind : Kinds, s : Sessions, c : Serials]

\* The kinds of request that can be at a label.
LabelOK(r) ==
  /\ r.pc \in {"flag", "put_flag"} => r.k = "soak"
  /\ r.pc \in {"pool", "reserve", "provision", "reserve_again", "cancel"} => r.k \in Rails
  /\ r.pc \in {"debit", "unspend"} => r.k = "chartered"

HandlerOK(r) == r = Idle \/ (r \in Handler /\ LabelOK(r))

\* An account, whatever its meters are.
IsAccount(a) ==
  /\ a = [provisioned |-> a.provisioned, used |-> a.used, reserved |-> a.reserved, rows |-> a.rows]
  /\ a.rows \subseteq Sessions

TypeInv ==
  /\ req = [p \in Reqs |-> req[p]] /\ \A p \in Reqs : HandlerOK(req[p])
  /\ man = [u \in Uuids |-> man[u]] /\ \A u \in Uuids : man[u] = NoManifest \/ man[u] \in Record
  /\ acc = [k \in Rails |-> acc[k]] /\ \A k \in Rails : IsAccount(acc[k])

\* Requests that hold a reservation, and requests whose credential is spent.
Holds(p) == req[p].pc \in {"spend", "debit", "unspend", "cancel", "create"} /\ req[p].k \in Rails
Pays(p) == req[p].pc \in {"debit", "unspend", "create"} /\ req[p].k # "soak"

\* Every request that holds a reservation has one of its own, which no other
\* request holds and no created transfer keeps.
HoldInv ==
  /\ OwnerKeepsReservation
  /\ \A p \in Reqs : Holds(p) => req[p].s \in acc[req[p].k].rows
  /\ \A p, q \in Reqs : Holds(p) /\ Holds(q) /\ p # q => req[p].s # req[q].s
  /\ \A p \in Reqs, u \in Created : Holds(p) /\ man[u].kind \in Rails => req[p].s # man[u].s

\* Every credential a request has spent, and every one a created transfer was
\* paid with, is in the ledger, and is that request's or transfer's alone.
PayInv ==
  /\ PaidOnce
  /\ \A u \in Paid : man[u].c \in spent
  /\ \A p \in Reqs : Pays(p) => req[p].c \in spent
  /\ \A p, q \in Reqs : Pays(p) /\ Pays(q) /\ p # q => req[p].c # req[q].c
  /\ \A p \in Reqs, u \in Paid : Pays(p) => req[p].c # man[u].c

-----------------------------------------------------------------------------
(* The Postgres functions                                                   *)

\* A reservation adds one row that was not there, or none.
LEMMA ReservedRows ==
  ASSUME NEW a, IsAccount(a), NEW s \in Sessions
  PROVE  /\ IsAccount(Reserved(a, s, {}))
         /\ Reserved(a, s, {}).rows = a.rows \/ Reserved(a, s, {}).rows = a.rows \cup {s}
         /\ ReserveCode(a, s, {}) = "ok" => s \in Reserved(a, s, {}).rows
         /\ ReserveCode(a, s, {}) # "ok" => Reserved(a, s, {}).rows = a.rows
  <1> DEFINE r == Refreshed(a, {})
             code == ReserveCode(a, s, {})
  <1>1. r = [provisioned |-> a.provisioned, used |-> a.used, reserved |-> Held(a.rows), rows |-> a.rows]
    <2>1. a.rows \ {} = a.rows
      OBVIOUS
    <2>2. r = [a EXCEPT !.rows = a.rows, !.reserved = Held(a.rows)]
      BY <2>1 DEF Refreshed
    <2> QED
      BY <2>2 DEF IsAccount
  <1>2. code \in {"ok", "too_many_in_flight", "quota_exceeded", "quota_not_provisioned", "error"}
    BY DEF ReserveCode
  <1>3. Reserved(a, s, {}) =
          CASE code = "ok" -> [r EXCEPT !.rows = @ \cup {s}, !.reserved = @ + Chunks[s]]
            [] code \in {"too_many_in_flight", "quota_exceeded"} -> r
            [] code \in {"quota_not_provisioned", "error"} -> a
    BY DEF Reserved
  <1>4. CASE code = "ok"
    <2>1. Reserved(a, s, {}) = [r EXCEPT !.rows = @ \cup {s}, !.reserved = @ + Chunks[s]]
      BY <1>3, <1>4
    <2>2. PICK n : n = r.reserved + Chunks[s]
      OBVIOUS
    <2>3. Reserved(a, s, {}) = [r EXCEPT !.rows = r.rows \cup {s}, !.reserved = n]
      BY <2>1, <2>2
    <2> HIDE DEF r, code
    <2>4. Reserved(a, s, {}) =
            [provisioned |-> a.provisioned, used |-> a.used, reserved |-> n, rows |-> a.rows \cup {s}]
      BY <1>1, <2>3
    <2>5. a.rows \cup {s} \subseteq Sessions
      BY DEF IsAccount
    <2>6. Reserved(a, s, {}).rows = a.rows \cup {s}
      BY <2>4
    <2> QED
      BY <1>4, <2>4, <2>5, <2>6 DEF IsAccount, code
  <1>5. CASE code \in {"too_many_in_flight", "quota_exceeded"}
    <2>1. Reserved(a, s, {}) = r
      BY <1>3, <1>5
    <2> QED
      BY <1>1, <1>5, <2>1 DEF IsAccount
  <1>6. CASE code \in {"quota_not_provisioned", "error"}
    <2>1. Reserved(a, s, {}) = a
      BY <1>3, <1>6
    <2> QED
      BY <1>6, <2>1
  <1> QED
    BY <1>2, <1>4, <1>5, <1>6

\* Provisioning changes no row, and a new account has none.
LEMMA ProvisionedRows ==
  ASSUME NEW provisioned
  PROVE  /\ \A a : IsAccount(a) =>
              LET b == [a EXCEPT !.provisioned = provisioned] IN IsAccount(b) /\ b.rows = a.rows
         /\ IsAccount(NewAccount(provisioned))
  BY DEF IsAccount, NewAccount

\* The release of an upload that is not complete drops its row and no other.
LEMMA ReleasedRows ==
  ASSUME NEW a, IsAccount(a), NEW s \in Sessions
  PROVE  /\ IsAccount(Released(a, s, FALSE))
         /\ Released(a, s, FALSE).rows = a.rows \ {s}
  <1>1. CASE s \in a.rows
    BY <1>1 DEF Released, IsAccount
  <1>2. CASE s \notin a.rows
    BY <1>2 DEF Released, IsAccount
  <1> QED
    BY <1>1, <1>2

-----------------------------------------------------------------------------
(* Handlers                                                                 *)

\* What a step of handler p makes of it: it goes on to a label with the request
\* it has, or it is gone; the other handlers stay as they are.
Only(p) == req' = [q \in Reqs |-> req'[q]] /\ \A q \in Reqs \ {p} : req'[q] = req[q]

Went(p, label) ==
  /\ Only(p)
  /\ req'[p] \in Handler /\ req'[p].pc = label
  /\ req'[p].s = req[p].s /\ req'[p].c = req[p].c /\ req'[p].k = req[p].k

Left(p) == Only(p) /\ req'[p] = Idle

\* A handler in flight has a request.
LEMMA InFlight ==
  ASSUME TypeInv, NEW p \in Reqs, ~At(p, "idle")
  PROVE  req[p] \in Handler /\ LabelOK(req[p])
  BY DEF TypeInv, HandlerOK, At, Idle

\* Goto keeps the request.
LEMMA GotoWent ==
  ASSUME TypeInv, NEW p \in Reqs, ~At(p, "idle"), NEW label \in Labels, Goto(p, label)
  PROVE  Went(p, label)
  <1>1. req[p] \in Handler
    BY InFlight
  <1>2. req' = [req EXCEPT ![p] = [req[p] EXCEPT !.pc = label]]
    BY DEF Goto
  <1>3. Only(p) /\ req'[p] = [req[p] EXCEPT !.pc = label]
    BY <1>2 DEF Only, TypeInv
  <1> QED
    BY <1>1, <1>3 DEF Went, Handler

\* Done forgets it.
LEMMA DoneLeft ==
  ASSUME TypeInv, NEW p \in Reqs, Done(p)
  PROVE  Left(p)
  BY DEF Done, Left, Only, TypeInv

\* A refusal goes to the cancellation or ends the request.
LEMMA RefuseMoves ==
  ASSUME TypeInv, NEW p \in Reqs, ~At(p, "idle"), Refuse(p)
  PROVE  (Went(p, "cancel") /\ req[p].k \in Rails) \/ Left(p)
  BY GotoWent, DoneLeft DEF Refuse, Labels

\* A step that leaves manifests and accounts alone keeps the types when its
\* handler goes where it may.
LEMMA HandlerStep ==
  ASSUME TypeInv, NEW p \in Reqs, UNCHANGED <<man, acc>>,
         Left(p) \/ \E label \in Labels : Went(p, label) /\ LabelOK(req'[p])
  PROVE  TypeInv'
  <1>1. HandlerOK(req'[p]) /\ Only(p)
    BY DEF Left, Went, HandlerOK
  <1> QED
    BY <1>1 DEF TypeInv, Only, HandlerOK, LabelOK, Handler

\* A step that changes no row and no manifest, and in which no handler comes to
\* hold a reservation, keeps the holdings apart.
LEMMA QuietHold ==
  ASSUME HoldInv, NEW p \in Reqs, Only(p), man' = man,
         \A k \in Rails : acc'[k].rows = acc[k].rows,
         Holds(p)' => Holds(p) /\ req'[p].s = req[p].s /\ req'[p].k = req[p].k
  PROVE  HoldInv'
  <1>1. \A q \in Reqs : Holds(q)' => Holds(q) /\ req'[q].s = req[q].s /\ req'[q].k = req[q].k
    BY DEF Only, Holds
  <1>2. OwnerKeepsReservation'
    BY DEF HoldInv, OwnerKeepsReservation, Created
  <1>3. \A q \in Reqs : Holds(q)' => req'[q].s \in acc'[req'[q].k].rows
    BY <1>1 DEF HoldInv, Holds
  <1>4. Created' = Created
    BY DEF Created
  <1> QED
    BY <1>1, <1>2, <1>3, <1>4 DEF HoldInv

\* The same of payments.
LEMMA QuietPay ==
  ASSUME PayInv, NEW p \in Reqs, Only(p), man' = man, spent' = spent,
         Pays(p)' => Pays(p) /\ req'[p].c = req[p].c
  PROVE  PayInv'
  <1>1. \A q \in Reqs : Pays(q)' => Pays(q) /\ req'[q].c = req[q].c
    BY DEF Only, Pays
  <1>2. Paid' = Paid
    BY DEF Paid, Created
  <1>3. PaidOnce'
    BY <1>2 DEF PayInv, PaidOnce
  <1> QED
    BY <1>1, <1>2, <1>3 DEF PayInv

Inv == TypeInv /\ HoldInv /\ PayInv

\* A request starts without reservation or payment.
LEMMA StartInv ==
  ASSUME Inv, NEW p \in Reqs, NEW s \in Sessions, NEW c \in Serials, NEW k \in Kinds, Start(p, s, c, k)
  PROVE  Inv'
  <1>1. k \in {"bearer", "citizen", "chartered", "soak"}
    BY InitiateAssumption
  <1>2. PICK pc : /\ req' = [req EXCEPT ![p] = Request(pc, s, c, k)]
                  /\ pc = CASE k = "soak" -> "flag" [] k = "chartered" -> "pool"
                             [] k = "citizen" -> "reserve" [] k = "bearer" -> "spend"
    BY DEF Start
  <1>3. /\ k = "soak" => pc = "flag"
        /\ k = "chartered" => pc = "pool"
        /\ k = "citizen" => pc = "reserve"
        /\ k = "bearer" => pc = "spend"
    BY <1>2
  <1>4. Only(p) /\ req'[p] = [pc |-> pc, s |-> s, c |-> c, k |-> k]
    BY <1>2 DEF Inv, TypeInv, Only, Request
  <1>5. req'[p] \in Handler /\ LabelOK(req'[p])
    BY <1>1, <1>3, <1>4 DEF Handler, Labels, LabelOK, Rails
  <1>6. UNCHANGED <<man, acc, spent>>
    BY DEF Start
  <1>7. TypeInv'
    BY <1>4, <1>5, <1>6 DEF Inv, TypeInv, Only, HandlerOK, LabelOK, Handler
  <1>8. ~Holds(p)' /\ ~Pays(p)'
    BY <1>1, <1>3, <1>4 DEF Holds, Pays, Rails
  <1> QED
    BY <1>4, <1>6, <1>7, <1>8, QuietHold, QuietPay DEF Inv

\* The steps that only look, or only end the request.
LEMMA LookInv ==
  ASSUME Inv, NEW p \in Reqs,
         ReadFlag(p) \/ ReadPool(p) \/ PutFlag(p) \/ Throw(p) \/ Crash(p) \/ CancelFails(p)
  PROVE  Inv'
  <1>1. TypeInv /\ ~At(p, "idle") /\ UNCHANGED <<man, acc, spent>>
    BY DEF Inv, ReadFlag, ReadPool, PutFlag, Throw, Crash, CancelFails, At
  <1>2. \/ Left(p)
        \/ At(p, "flag") /\ Went(p, "put_flag")
        \/ At(p, "pool") /\ Went(p, "reserve")
        \/ At(p, "put_flag") /\ Went(p, "create")
    BY <1>1, GotoWent, DoneLeft DEF ReadFlag, ReadPool, PutFlag, Throw, Crash, CancelFails, Labels
  <1>3. LabelOK(req[p])
    BY <1>1, InFlight
  <1>4. Left(p) \/ \E label \in Labels : Went(p, label) /\ LabelOK(req'[p])
    BY <1>2, <1>3 DEF Went, LabelOK, At, Labels
  <1>5. ~Holds(p)' /\ ~Pays(p)'
    BY <1>2, <1>3 DEF Went, Left, LabelOK, At, Holds, Pays, Idle, Rails
  <1> QED
    BY <1>1, <1>2, <1>4, <1>5, HandlerStep, QuietHold, QuietPay DEF Inv, Left, Went

\* The steps after the spend that leave the ledger of credentials alone.
LEMMA DebitInv ==
  ASSUME Inv, NEW p \in Reqs, Debit(p) \/ DebitFails(p) \/ UnspendFails(p)
  PROVE  Inv'
  <1>1. TypeInv /\ ~At(p, "idle") /\ UNCHANGED <<man, acc, spent>>
    BY DEF Inv, Debit, DebitFails, UnspendFails, At
  <1>2. LabelOK(req[p]) /\ (At(p, "debit") \/ At(p, "unspend"))
    BY <1>1, InFlight DEF Debit, DebitFails, UnspendFails
  <1>3. \/ Left(p)
        \/ \E label \in {"create", "unspend", "cancel"} : Went(p, label)
    BY <1>1, GotoWent, RefuseMoves DEF Debit, DebitFails, UnspendFails, Labels
  <1>4. req[p].k = "chartered"
    BY <1>2 DEF LabelOK, At
  <1>5. Left(p) \/ \E label \in Labels : Went(p, label) /\ LabelOK(req'[p])
    BY <1>3, <1>4 DEF Went, LabelOK, Labels, Rails
  <1>6. /\ Holds(p)' => Holds(p) /\ req'[p].s = req[p].s /\ req'[p].k = req[p].k
        /\ Pays(p)' => Pays(p) /\ req'[p].c = req[p].c
        /\ Only(p)
    BY <1>2, <1>3, <1>4 DEF Went, Left, At, Holds, Pays, Idle, Rails
  <1> QED
    BY <1>1, <1>5, <1>6, HandlerStep, QuietHold, QuietPay DEF Inv

\* The spend: of two requests with one credential only the first is paid.
LEMMA SpendInv ==
  ASSUME Inv, NEW p \in Reqs, Spend(p) \/ SpendFails(p)
  PROVE  Inv'
  <1>1. TypeInv /\ ~At(p, "idle") /\ UNCHANGED <<man, acc>> /\ spent \subseteq spent' /\ At(p, "spend")
    BY DEF Inv, Spend, SpendFails, At
  <1>2. req[p] \in Handler
    BY <1>1, InFlight
  <1>3. \/ Left(p)
        \/ Went(p, "cancel") /\ req[p].k \in Rails
        \/ Went(p, "debit") /\ req[p].k = "chartered" /\ req[p].c \notin spent /\ req[p].c \in spent'
        \/ Went(p, "create") /\ req[p].c \notin spent /\ req[p].c \in spent'
    BY <1>1, GotoWent, RefuseMoves DEF Spend, SpendFails, AfterSpend, Labels
  <1>4. Left(p) \/ \E label \in Labels : Went(p, label) /\ LabelOK(req'[p])
    BY <1>3 DEF Went, LabelOK, Labels, Rails
  <1>5. TypeInv'
    BY <1>1, <1>4, HandlerStep
  <1>6. Only(p) /\ (Holds(p)' => Holds(p) /\ req'[p].s = req[p].s /\ req'[p].k = req[p].k)
    BY <1>1, <1>3 DEF Went, Left, At, Holds, Idle
  <1>7. HoldInv'
    BY <1>1, <1>6, QuietHold DEF Inv
  <1>8. Pays(p)' => req'[p].c \notin spent /\ req'[p].c \in spent'
    BY <1>3 DEF Went, Left, Pays, Idle
  <1>9. \A q \in Reqs \ {p} : (Pays(q)' <=> Pays(q)) /\ req'[q].c = req[q].c
    BY <1>6 DEF Only, Pays
  <1>10. Paid' = Paid /\ man' = man
    BY <1>1 DEF Paid, Created
  <1>11. PaidOnce'
    BY <1>10 DEF Inv, PayInv, PaidOnce
  <1>12. PayInv'
    BY <1>1, <1>8, <1>9, <1>10, <1>11 DEF Inv, PayInv
  <1> QED
    BY <1>5, <1>7, <1>12 DEF Inv

\* The un-spend gives back a credential that is this request's alone.
LEMMA UnspendInv ==
  ASSUME Inv, NEW p \in Reqs, Unspend(p)
  PROVE  Inv'
  <1>1. TypeInv /\ ~At(p, "idle") /\ UNCHANGED <<man, acc>> /\ spent' = spent \ {req[p].c} /\ At(p, "unspend")
    BY DEF Inv, Unspend, At
  <1>2. req[p].k = "chartered"
    BY <1>1, InFlight DEF LabelOK, At
  <1>3. Went(p, "cancel") \/ Left(p)
    BY <1>1, RefuseMoves DEF Unspend
  <1>4. TypeInv'
    BY <1>1, <1>2, <1>3, HandlerStep DEF Went, LabelOK, Labels, Rails
  <1>5. Only(p) /\ Pays(p) /\ ~Pays(p)'
        /\ (Holds(p)' => Holds(p) /\ req'[p].s = req[p].s /\ req'[p].k = req[p].k)
    BY <1>1, <1>2, <1>3 DEF Went, Left, At, Holds, Pays, Idle
  <1>6. HoldInv'
    BY <1>1, <1>5, QuietHold DEF Inv
  <1>7. \A q \in Reqs \ {p} : (Pays(q)' <=> Pays(q)) /\ req'[q].c = req[q].c
    BY <1>5 DEF Only, Pays
  <1>8. Paid' = Paid /\ man' = man
    BY <1>1 DEF Paid, Created
  <1>9. PaidOnce'
    BY <1>8 DEF Inv, PayInv, PaidOnce
  <1>10. PayInv'
    BY <1>1, <1>5, <1>7, <1>8, <1>9 DEF Inv, PayInv
  <1> QED
    BY <1>4, <1>6, <1>10 DEF Inv

\* A change of one account leaves the other as it was.
LEMMA OneAccount ==
  ASSUME TypeInv, NEW k \in Rails, NEW a, IsAccount(a), acc' = [acc EXCEPT ![k] = a]
  PROVE  /\ acc' = [o \in Rails |-> acc'[o]] /\ \A o \in Rails : IsAccount(acc'[o])
         /\ acc'[k] = a /\ \A o \in Rails \ {k} : acc'[o] = acc[o]
  BY DEF TypeInv

\* A reservation that is made is of a session nobody holds.
LEMMA ReserveInv ==
  ASSUME Inv, NEW p \in Reqs, Reserve(p)
  PROVE  Inv'
  <1> DEFINE s == req[p].s
             k == req[p].k
             new == Reserved(acc[k], s, {})
  <1>1. TypeInv /\ ~At(p, "idle") /\ UNCHANGED <<man, spent>> /\ req[p].pc \in {"reserve", "reserve_again"}
    BY DEF Inv, Reserve, At
  <1>2. req[p] \in Handler /\ k \in Rails /\ s \in Sessions
    BY <1>1, InFlight DEF LabelOK, Handler
  <1>3. IsAccount(acc[k])
    BY <1>1, <1>2 DEF TypeInv
  <1>4. /\ IsAccount(new) /\ (new.rows = acc[k].rows \/ new.rows = acc[k].rows \cup {s})
        /\ ReserveCode(acc[k], s, {}) = "ok" => s \in new.rows
    BY <1>2, <1>3, ReservedRows
  <1>5. acc' = acc \/ acc' = [acc EXCEPT ![k] = new]
    BY DEF Reserve
  <1>6. /\ acc' = [o \in Rails |-> acc'[o]] /\ \A o \in Rails : IsAccount(acc'[o])
        /\ \A o \in Rails : acc[o].rows \subseteq acc'[o].rows
    BY <1>1, <1>2, <1>4, <1>5, OneAccount DEF TypeInv
  <1>7. \/ Left(p)
        \/ Went(p, "provision")
        \/ Went(p, "spend") /\ Answer(p) = "ok"
    BY <1>1, GotoWent, DoneLeft DEF Reserve, AfterAnswer, Labels
  <1>8. Only(p) /\ HandlerOK(req'[p])
    BY <1>2, <1>7 DEF Went, Left, HandlerOK, LabelOK
  <1>9. TypeInv'
    BY <1>1, <1>6, <1>8 DEF TypeInv, Only, HandlerOK, LabelOK, Handler
  <1>10. Answer(p) = "ok" =>
           /\ \A o \in Rails : s \notin acc[o].rows
           /\ s \in acc'[k].rows
    <2>1. Answer(p) = "ok" =>
            ReserveCode(acc[k], s, {}) = "ok" /\ \A o \in Rails : s \notin acc[o].rows
      BY DEF Answer
    <2>2. Answer(p) = "ok" => acc' = [acc EXCEPT ![k] = new]
      BY DEF Reserve
    <2> QED
      BY <1>1, <1>2, <1>4, <2>1, <2>2, OneAccount
  <1>11. Holds(p)' => /\ req'[p].s = s /\ req'[p].k = k
                      /\ \A o \in Rails : s \notin acc[o].rows
                      /\ s \in acc'[k].rows
    BY <1>7, <1>10 DEF Went, Left, Holds, Idle
  <1>12. \A q \in Reqs \ {p} : (Holds(q)' <=> Holds(q)) /\ req'[q] = req[q]
    BY <1>8 DEF Only, Holds
  <1>13. Created' = Created /\ man' = man
    BY <1>1 DEF Created
  <1>14. OwnerKeepsReservation'
    BY <1>6, <1>13 DEF Inv, HoldInv, OwnerKeepsReservation
  <1>15. HoldInv'
    <2> HIDE DEF s, k, new
    <2>1. \A q \in Reqs : Holds(q)' => req'[q].s \in acc'[req'[q].k].rows
      BY <1>6, <1>11, <1>12 DEF Inv, HoldInv, Holds
    <2>2. \A q \in Reqs \ {p} : Holds(q) /\ Holds(p)' => req[q].s # s
      BY <1>11 DEF Inv, HoldInv, Holds
    <2>3. \A u \in Created : man[u].kind \in Rails /\ Holds(p)' => man[u].s # s
      BY <1>11 DEF Inv, HoldInv, OwnerKeepsReservation
    <2>4. \A q, r \in Reqs : Holds(q)' /\ Holds(r)' /\ q # r => req'[q].s # req'[r].s
      BY <1>11, <1>12, <2>2 DEF Inv, HoldInv
    <2>5. \A q \in Reqs, u \in Created' : Holds(q)' /\ man'[u].kind \in Rails => req'[q].s # man'[u].s
      BY <1>11, <1>12, <1>13, <2>3 DEF Inv, HoldInv
    <2> QED
      BY <1>14, <2>1, <2>4, <2>5 DEF HoldInv
  <1>16. ~Pays(p)'
    BY <1>7 DEF Went, Left, Pays, Idle
  <1> QED
    BY <1>1, <1>8, <1>9, <1>15, <1>16, QuietPay DEF Inv

\* Making a Citizen's account touches no reservation.
LEMMA ProvisionInv ==
  ASSUME Inv, NEW p \in Reqs, Provision(p)
  PROVE  Inv'
  <1> DEFINE a == [acc["citizen"] EXCEPT !.provisioned = TRUE]
  <1>1. TypeInv /\ ~At(p, "idle") /\ UNCHANGED <<man, spent>> /\ At(p, "provision")
    BY DEF Inv, Provision, At
  <1>2. "citizen" \in Rails /\ IsAccount(acc["citizen"])
    BY <1>1 DEF Rails, TypeInv
  <1>3. acc' = [acc EXCEPT !["citizen"] = a]
    BY DEF Provision
  <1>4. IsAccount(a) /\ a.rows = acc["citizen"].rows
    BY <1>2, ProvisionedRows
  <1> HIDE DEF a
  <1>5. /\ acc' = [o \in Rails |-> acc'[o]] /\ \A o \in Rails : IsAccount(acc'[o])
        /\ \A o \in Rails : acc'[o].rows = acc[o].rows
    BY <1>1, <1>2, <1>3, <1>4, OneAccount
  <1>6. Went(p, "reserve_again") /\ req[p].k \in Rails
    BY <1>1, GotoWent, InFlight DEF Provision, Labels, LabelOK, At
  <1>7. Only(p) /\ HandlerOK(req'[p])
    BY <1>6 DEF Went, HandlerOK, LabelOK
  <1>8. TypeInv'
    BY <1>1, <1>5, <1>7 DEF TypeInv, Only, HandlerOK, LabelOK, Handler
  <1>9. ~Holds(p)' /\ ~Pays(p)'
    BY <1>6 DEF Went, Holds, Pays
  <1> QED
    BY <1>1, <1>5, <1>7, <1>8, <1>9, QuietHold, QuietPay DEF Inv

\* A request cancels the reservation it holds, which is nobody else's.
LEMMA CancelInv ==
  ASSUME Inv, NEW p \in Reqs, Cancel(p)
  PROVE  Inv'
  <1> DEFINE s == req[p].s
             k == req[p].k
             new == Released(acc[k], s, FALSE)
  <1>1. TypeInv /\ ~At(p, "idle") /\ UNCHANGED <<man, spent>> /\ At(p, "cancel")
    BY DEF Inv, Cancel, At
  <1>2. k \in Rails /\ s \in Sessions
    BY <1>1, InFlight DEF LabelOK, Handler, At
  <1>3. IsAccount(acc[k])
    BY <1>1, <1>2 DEF TypeInv
  <1>4. IsAccount(new) /\ new.rows = acc[k].rows \ {s}
    BY <1>2, <1>3, ReleasedRows
  <1>5. acc' = [acc EXCEPT ![k] = new]
    BY DEF Cancel
  <1>6. Left(p)
    BY <1>1, DoneLeft DEF Cancel
  <1>7. Holds(p)
    BY <1>1, <1>2 DEF Holds, At
  <1> HIDE DEF s, k, new
  <1>8. /\ acc' = [o \in Rails |-> acc'[o]] /\ \A o \in Rails : IsAccount(acc'[o])
        /\ \A o \in Rails : acc[o].rows \ {s} \subseteq acc'[o].rows
    BY <1>1, <1>2, <1>4, <1>5, OneAccount
  <1>9. TypeInv'
    BY <1>1, <1>6, <1>8 DEF TypeInv, Left, Only, HandlerOK, LabelOK, Handler, Idle
  <1>10. ~Holds(p)' /\ ~Pays(p)' /\ Only(p)
    BY <1>6 DEF Left, Holds, Pays, Idle
  <1>11. \A q \in Reqs \ {p} : (Holds(q)' <=> Holds(q)) /\ req'[q] = req[q]
    BY <1>10 DEF Only, Holds
  <1>12. Created' = Created /\ man' = man
    BY <1>1 DEF Created
  <1>13. OwnerKeepsReservation'
    <2>1. \A u \in Created : man[u].kind \in Rails => man[u].s # s
      BY <1>7 DEF Inv, HoldInv, s
    <2> QED
      BY <1>8, <1>12, <2>1 DEF Inv, HoldInv, OwnerKeepsReservation
  <1>14. \A q \in Reqs : Holds(q)' => req'[q].s \in acc'[req'[q].k].rows
    <2>1. \A q \in Reqs \ {p} : Holds(q) => req[q].s # s
      BY <1>7 DEF Inv, HoldInv, s
    <2> QED
      BY <1>8, <1>10, <1>11, <2>1 DEF Inv, HoldInv, Holds
  <1>15. HoldInv'
    BY <1>10, <1>11, <1>12, <1>13, <1>14 DEF Inv, HoldInv
  <1> QED
    BY <1>1, <1>9, <1>10, <1>15, QuietPay DEF Inv

\* The transfer that is created takes over its request's reservation and credential.
LEMMA CreateInv ==
  ASSUME Inv, NEW p \in Reqs, Create(p)
  PROVE  Inv'
  <1> DEFINE r == req[p]
             u == Uuid[r.s]
             m == [kind |-> r.k, s |-> r.s, c |-> r.c]
  <1>1. TypeInv /\ ~At(p, "idle") /\ UNCHANGED <<acc, spent>> /\ r.pc = "create"
    BY DEF Inv, Create, At
  <1>2. r \in Handler /\ r.s \in Sessions /\ u \in Uuids /\ m \in Record
    BY <1>1, InFlight, InitiateAssumption DEF Handler, Record
  <1>3. CASE man[u] # NoManifest
    <2>1. man' = man /\ ((Went(p, "cancel") /\ r.k \in Rails) \/ Left(p))
      BY <1>1, <1>3, RefuseMoves DEF Create
    <2>2. TypeInv'
      BY <1>1, <2>1, HandlerStep DEF Went, LabelOK, Labels
    <2>3. /\ Only(p) /\ ~Pays(p)'
          /\ Holds(p)' => Holds(p) /\ req'[p].s = req[p].s /\ req'[p].k = req[p].k
      BY <1>1, <2>1 DEF Went, Left, Holds, Pays, Idle
    <2> QED
      BY <1>1, <2>1, <2>2, <2>3, QuietHold, QuietPay DEF Inv
  <1>4. CASE man[u] = NoManifest
    <2>1. man' = [man EXCEPT ![u] = m] /\ Left(p)
      BY <1>1, <1>4, DoneLeft DEF Create
    <2>2. /\ man' = [v \in Uuids |-> man'[v]] /\ man'[u] = m
          /\ \A v \in Uuids \ {u} : man'[v] = man[v]
      BY <1>1, <1>2, <2>1 DEF TypeInv
    <2>3. m.kind = r.k /\ m.s = r.s /\ m.c = r.c /\ r.k \in Kinds
      BY <1>2 DEF Handler
    <2> HIDE DEF r, u, m
    <2>4. TypeInv'
      BY <1>1, <1>2, <2>1, <2>2 DEF TypeInv, Left, Only, HandlerOK, LabelOK, Handler, Idle
    <2>5. Created' = Created \cup {u} /\ u \notin Created
      <3>1. m # NoManifest
        BY <2>3, InitiateAssumption DEF NoManifest
      <3> QED
        BY <1>2, <1>4, <2>2, <3>1 DEF Created
    <2>6. Created \subseteq Uuids
      BY DEF Created
    <2>7. /\ ~Holds(p)' /\ ~Pays(p)'
          /\ \A q \in Reqs \ {p} : (Holds(q)' <=> Holds(q)) /\ (Pays(q)' <=> Pays(q)) /\ req'[q] = req[q]
      BY <2>1 DEF Left, Only, Holds, Pays, Idle
    <2>8. HoldInv'
      <3>1. r.k \in Rails => Holds(p)
        BY <1>1 DEF Holds, r
      <3>2. r.k \in Rails => r.s \in acc[r.k].rows /\ \A q \in Reqs \ {p} : Holds(q) => req[q].s # r.s
        BY <3>1 DEF Inv, HoldInv, r
      <3>3. OwnerKeepsReservation'
        BY <1>1, <2>2, <2>3, <2>5, <2>6, <3>2 DEF Inv, HoldInv, OwnerKeepsReservation
      <3>4. \A q \in Reqs, v \in Created' : Holds(q)' /\ man'[v].kind \in Rails => req'[q].s # man'[v].s
        BY <2>2, <2>3, <2>5, <2>6, <2>7, <3>2 DEF Inv, HoldInv
      <3>5. \A q \in Reqs : Holds(q)' => req'[q].s \in acc'[req'[q].k].rows
        BY <1>1, <2>7 DEF Inv, HoldInv
      <3>6. \A q, o \in Reqs : Holds(q)' /\ Holds(o)' /\ q # o => req'[q].s # req'[o].s
        BY <2>7 DEF Inv, HoldInv
      <3> QED
        BY <3>3, <3>4, <3>5, <3>6 DEF HoldInv
    <2>9. PayInv'
      <3>1. Paid' = IF r.k = "soak" THEN Paid ELSE Paid \cup {u}
        BY <2>2, <2>3, <2>5, <2>6 DEF Paid
      <3>2. Paid \subseteq Uuids \ {u}
        BY <2>5, <2>6 DEF Paid
      <3>3. r.k # "soak" => Pays(p)
        BY <1>1 DEF Pays, r
      <3>4. r.k # "soak" => /\ r.c \in spent
                            /\ \A q \in Reqs \ {p} : Pays(q) => req[q].c # r.c
                            /\ \A v \in Paid : man[v].c # r.c
        BY <3>3 DEF Inv, PayInv, r
      <3>5. PaidOnce'
        BY <2>2, <2>3, <3>1, <3>2, <3>4 DEF Inv, PayInv, PaidOnce
      <3>6. \A v \in Paid' : man'[v].c \in spent'
        BY <1>1, <2>2, <2>3, <3>1, <3>2, <3>4 DEF Inv, PayInv
      <3>7. \A q \in Reqs, v \in Paid' : Pays(q)' => req'[q].c # man'[v].c
        BY <2>2, <2>3, <2>7, <3>1, <3>2, <3>4 DEF Inv, PayInv
      <3>8. /\ \A q \in Reqs : Pays(q)' => req'[q].c \in spent'
            /\ \A q, o \in Reqs : Pays(q)' /\ Pays(o)' /\ q # o => req'[q].c # req'[o].c
        BY <1>1, <2>7 DEF Inv, PayInv
      <3> QED
        BY <3>5, <3>6, <3>7, <3>8 DEF PayInv
    <2> QED
      BY <2>4, <2>8, <2>9 DEF Inv
  <1> QED
    BY <1>3, <1>4

-----------------------------------------------------------------------------
(* The credits of the pool                                                  *)

Chartered == {u \in Created : man[u].kind = "chartered"}
Debited == {p \in Reqs : req[p].pc = "create" /\ req[p].k = "chartered"}

\* Every Chartered transfer, and every request about to create one, has a credit
\* of the pool of its own.
CreditInv ==
  /\ credits \in Nat /\ IsFiniteSet(Chartered) /\ IsFiniteSet(Debited)
  /\ Cardinality(Chartered) + Cardinality(Debited) + credits <= Pool

\* A step that creates nothing, gives no credit back and brings no request to
\* the creation of a Chartered transfer.
LEMMA QuietCredit ==
  ASSUME CreditInv, NEW p \in Reqs, Only(p), man' = man, credits' \in Nat, credits' <= credits,
         req'[p].pc = "create" /\ req'[p].k = "chartered" => p \in Debited
  PROVE  CreditInv'
  <1>1. Chartered' = Chartered
    BY DEF Chartered, Created
  <1>2. Debited' \subseteq Debited
    BY DEF Debited, Only
  <1>3. /\ IsFiniteSet(Debited') /\ Cardinality(Debited') <= Cardinality(Debited)
        /\ Cardinality(Debited') \in Nat /\ Cardinality(Debited) \in Nat
        /\ Cardinality(Chartered) \in Nat
    BY <1>2, FS_Subset, FS_CardinalityType DEF CreditInv
  <1> QED
    BY <1>1, <1>3, InitiateAssumption DEF CreditInv

\* Where a handler can go.
LEMMA HandlerGoes ==
  ASSUME TypeInv, NEW p \in Reqs, Handle(p)
  PROVE  /\ ~At(p, "idle") /\ req[p] \in Handler /\ LabelOK(req[p])
         /\ Left(p) \/ \E label \in Labels : Went(p, label)
  <1>1. ~At(p, "idle")
    BY DEF Handle, ReadFlag, ReadPool, Reserve, Provision, PutFlag, Spend, SpendFails, Debit,
           DebitFails, Unspend, UnspendFails, Cancel, CancelFails, Create, Throw, Crash, At
  <1>2. Done(p) \/ \E label \in Labels : Goto(p, label)
    BY DEF Handle, ReadFlag, ReadPool, Reserve, Provision, PutFlag, Spend, SpendFails, Debit,
           DebitFails, Unspend, UnspendFails, Cancel, CancelFails, Create, Throw, Crash,
           Refuse, AfterAnswer, AfterSpend, Labels
  <1> QED
    BY <1>1, <1>2, InFlight, GotoWent, DoneLeft

\* A debit takes the credit of the transfer its request may now create.
LEMMA DebitCredit ==
  ASSUME TypeInv, CreditInv, NEW p \in Reqs, Debit(p) \/ DebitFails(p)
  PROVE  CreditInv'
  <1>1. /\ At(p, "debit") /\ man' = man /\ credits \in Nat
        /\ \/ credits > 0 /\ credits' = credits - 1 /\ Goto(p, "create")
           \/ credits' \in Nat /\ credits' <= credits /\ Goto(p, "unspend")
    BY DEF Debit, DebitFails, CreditInv
  <1>2. p \notin Debited /\ req[p].k = "chartered" /\ ~At(p, "idle")
    BY <1>1, InFlight DEF At, Debited, LabelOK
  <1>3. CASE credits > 0 /\ credits' = credits - 1 /\ Goto(p, "create")
    <2>1. Went(p, "create")
      BY <1>2, <1>3, GotoWent DEF Labels
    <2>2. Debited' = Debited \cup {p}
      BY <1>2, <2>1 DEF Debited, Went, Only
    <2>3. Chartered' = Chartered
      BY <1>1 DEF Chartered, Created
    <2>4. /\ IsFiniteSet(Debited') /\ Cardinality(Debited') = Cardinality(Debited) + 1
          /\ Cardinality(Debited) \in Nat /\ Cardinality(Chartered) \in Nat
      BY <1>2, <2>2, FS_AddElement, FS_CardinalityType DEF CreditInv
    <2> QED
      BY <1>1, <1>3, <2>3, <2>4, InitiateAssumption DEF CreditInv
  <1>4. CASE credits' \in Nat /\ credits' <= credits /\ Goto(p, "unspend")
    <2>1. Went(p, "unspend")
      BY <1>2, <1>4, GotoWent DEF Labels
    <2> QED
      BY <1>1, <1>4, <2>1, QuietCredit DEF Went
  <1> QED
    BY <1>1, <1>3, <1>4

\* The transfer that is created takes its request's credit over.
LEMMA CreateCredit ==
  ASSUME TypeInv, CreditInv, NEW p \in Reqs, Create(p)
  PROVE  CreditInv'
  <1> DEFINE r == req[p]
             u == Uuid[r.s]
             m == [kind |-> r.k, s |-> r.s, c |-> r.c]
  <1>1. /\ ~At(p, "idle") /\ r \in Handler /\ r.pc = "create" /\ credits' = credits /\ credits \in Nat
    BY InFlight DEF Create, At, CreditInv
  <1>2. CASE man[u] # NoManifest
    <2>1. man' = man /\ (Went(p, "cancel") \/ Left(p))
      BY <1>1, <1>2, RefuseMoves DEF Create
    <2>2. Only(p) /\ req'[p].pc # "create"
      BY <2>1 DEF Went, Left, Idle
    <2> QED
      BY <1>1, <2>1, <2>2, QuietCredit
  <1>3. CASE man[u] = NoManifest
    <2>1. man' = [man EXCEPT ![u] = m] /\ Left(p)
      BY <1>1, <1>3, DoneLeft DEF Create
    <2>2. u \in Uuids /\ r.k \in Kinds /\ r.s \in Sessions
      BY <1>1, InitiateAssumption DEF Handler
    <2>3. man'[u] = m /\ \A v \in Uuids \ {u} : man'[v] = man[v]
      BY <2>1, <2>2 DEF TypeInv
    <2>4. m.kind = r.k /\ m # NoManifest
      BY <2>2, InitiateAssumption DEF NoManifest
    <2>5. u \notin Chartered /\ Chartered \subseteq Uuids
      BY <1>3 DEF Chartered, Created
    <2>6. Debited' = Debited \ {p}
      BY <2>1 DEF Debited, Left, Only, Idle
    <2>7. p \in Debited <=> r.k = "chartered"
      BY <1>1 DEF Debited
    <2> HIDE DEF r, u, m
    <2>8. Chartered' = IF r.k = "chartered" THEN Chartered \cup {u} ELSE Chartered
      BY <2>2, <2>3, <2>4, <2>5 DEF Chartered, Created
    <2>9. /\ Cardinality(Chartered) \in Nat /\ Cardinality(Debited) \in Nat
          /\ IsFiniteSet(Debited') /\ Cardinality(Debited') \in Nat
          /\ Cardinality(Debited') = IF p \in Debited THEN Cardinality(Debited) - 1 ELSE Cardinality(Debited)
      BY <2>6, FS_RemoveElement, FS_CardinalityType DEF CreditInv
    <2>10. /\ IsFiniteSet(Chartered')
           /\ Cardinality(Chartered') = IF r.k = "chartered" THEN Cardinality(Chartered) + 1
                                        ELSE Cardinality(Chartered)
      BY <2>5, <2>8, FS_AddElement DEF CreditInv
    <2> QED
      BY <1>1, <2>7, <2>9, <2>10, InitiateAssumption DEF CreditInv
  <1> QED
    BY <1>2, <1>3

\* No other step of a handler touches the pool or comes to a Chartered creation.
LEMMA HandleCredit ==
  ASSUME TypeInv, CreditInv, NEW p \in Reqs, Handle(p)
  PROVE  CreditInv'
  <1>1. CASE Debit(p) \/ DebitFails(p)
    BY <1>1, DebitCredit
  <1>2. CASE Create(p)
    BY <1>2, CreateCredit
  <1>3. CASE ~Debit(p) /\ ~DebitFails(p) /\ ~Create(p)
    <2>1. man' = man /\ credits' = credits
      BY <1>3 DEF Handle, ReadFlag, ReadPool, Reserve, Provision, PutFlag, Spend, SpendFails,
             Unspend, UnspendFails, Cancel, CancelFails, Throw, Crash
    <2>2. \/ Done(p)
          \/ \E label \in Labels \ {"create"} : Goto(p, label)
          \/ req[p].pc = "put_flag"
          \/ req[p].k # "chartered"
      BY <1>3 DEF Handle, ReadFlag, ReadPool, Reserve, Provision, PutFlag, Spend, SpendFails,
             Unspend, UnspendFails, Cancel, CancelFails, Throw, Crash,
             Refuse, AfterAnswer, AfterSpend, At, Labels
    <2>3. /\ ~At(p, "idle") /\ LabelOK(req[p]) /\ Only(p)
          /\ Left(p) \/ \E label \in Labels : Went(p, label)
      BY HandlerGoes DEF Left, Went
    <2>4. req'[p].pc = "create" => req'[p].k # "chartered"
      BY <2>2, <2>3, GotoWent, DoneLeft DEF Left, Went, Idle, LabelOK
    <2> QED
      BY <2>1, <2>3, <2>4, QuietCredit DEF CreditInv
  <1> QED
    BY <1>1, <1>2, <1>3

-----------------------------------------------------------------------------
(* Every reservation has an owner, as long as nothing has failed.           *)

Owned ==
  \A k \in Rails : \A s \in acc[k].rows :
    \/ \E p \in Reqs : Holds(p) /\ req[p].s = s /\ req[p].k = k
    \/ \E u \in Created : man[u].kind = k /\ man[u].s = s

OwnedInv == faults \in Nat /\ (faults = 0 => Owned)

\* A step that creates nothing and adds no reservation, and whose handler goes on
\* holding what it holds.
LEMMA QuietOwned ==
  ASSUME Owned, NEW p \in Reqs, Only(p), man' = man,
         \A k \in Rails : acc'[k].rows \subseteq acc[k].rows,
         Holds(p) => Holds(p)' /\ req'[p].s = req[p].s /\ req'[p].k = req[p].k
  PROVE  Owned'
  <1>1. \A q \in Reqs : Holds(q) => Holds(q)' /\ req'[q].s = req[q].s /\ req'[q].k = req[q].k
    BY DEF Only, Holds
  <1>2. Created' = Created
    BY DEF Created
  <1> QED
    BY <1>1, <1>2 DEF Owned

\* A reservation that is made is its request's.
LEMMA ReserveOwned ==
  ASSUME TypeInv, Owned, NEW p \in Reqs, Reserve(p)
  PROVE  Owned'
  <1> DEFINE s == req[p].s
             k == req[p].k
             new == Reserved(acc[k], s, {})
  <1>1. ~At(p, "idle") /\ man' = man /\ ~Holds(p)
    BY DEF Reserve, At, Holds
  <1>2. k \in Rails /\ s \in Sessions /\ IsAccount(acc[k])
    BY <1>1, InFlight DEF LabelOK, Handler, Reserve, TypeInv
  <1>3. /\ IsAccount(new) /\ (new.rows = acc[k].rows \/ new.rows = acc[k].rows \cup {s})
        /\ ReserveCode(acc[k], s, {}) # "ok" => new.rows = acc[k].rows
    BY <1>2, ReservedRows
  <1>4. acc' = acc \/ acc' = [acc EXCEPT ![k] = new]
    BY DEF Reserve
  <1>5. CASE Answer(p) = "ok"
    <2>1. Went(p, "spend")
      BY <1>1, <1>5, GotoWent DEF Reserve, AfterAnswer, Labels
    <2>2. Holds(p)' /\ req'[p].s = s /\ req'[p].k = k /\ \A q \in Reqs : Holds(q) => Holds(q)' /\ req'[q] = req[q]
      BY <1>1, <1>2, <2>1 DEF Went, Only, Holds
    <2> HIDE DEF s, k, new
    <2>3. \A o \in Rails : \A t \in acc'[o].rows : t \in acc[o].rows \/ (o = k /\ t = s)
      BY <1>2, <1>3, <1>4, OneAccount
    <2>4. Created' = Created
      BY <1>1 DEF Created
    <2> QED
      BY <1>1, <2>2, <2>3, <2>4 DEF Owned
  <1>6. CASE Answer(p) # "ok"
    <2>1. Left(p) \/ Went(p, "provision")
      BY <1>1, <1>6, GotoWent, DoneLeft DEF Reserve, AfterAnswer, Labels
    <2>2. acc' = acc \/ ReserveCode(acc[k], s, {}) # "ok"
      BY <1>6 DEF Reserve, Answer
    <2> HIDE DEF s, k, new
    <2>3. \A o \in Rails : acc'[o].rows \subseteq acc[o].rows
      BY <1>2, <1>3, <1>4, <2>2, OneAccount
    <2> QED
      BY <1>1, <2>1, <2>3, QuietOwned DEF Left, Went
  <1> QED
    BY <1>5, <1>6

\* A cancellation drops the row of the request that cancels.
LEMMA CancelOwned ==
  ASSUME TypeInv, Owned, NEW p \in Reqs, Cancel(p)
  PROVE  Owned'
  <1> DEFINE s == req[p].s
             k == req[p].k
             new == Released(acc[k], s, FALSE)
  <1>1. ~At(p, "idle") /\ man' = man /\ acc' = [acc EXCEPT ![k] = new]
    BY DEF Cancel, At
  <1>2. k \in Rails /\ s \in Sessions /\ IsAccount(acc[k])
    BY <1>1, InFlight DEF LabelOK, Handler, Cancel, At, TypeInv
  <1>3. IsAccount(new) /\ new.rows = acc[k].rows \ {s}
    BY <1>2, ReleasedRows
  <1>4. Only(p)
    BY <1>1, DoneLeft DEF Cancel, Left
  <1>5. \A q \in Reqs \ {p} : Holds(q) => Holds(q)' /\ req'[q] = req[q]
    BY <1>4 DEF Only, Holds
  <1>6. req[p].s = s /\ req[p].k = k
    OBVIOUS
  <1> HIDE DEF s, k, new
  <1>7. \A o \in Rails : \A t \in acc'[o].rows : t \in acc[o].rows /\ ~(o = k /\ t = s)
    BY <1>1, <1>2, <1>3, OneAccount
  <1>8. Created' = Created
    BY <1>1 DEF Created
  <1> QED
    BY <1>1, <1>5, <1>6, <1>7, <1>8 DEF Owned

\* The transfer that is created takes its request's reservation over.
LEMMA CreateOwned ==
  ASSUME TypeInv, Owned, NEW p \in Reqs, Create(p)
  PROVE  Owned'
  <1> DEFINE r == req[p]
             u == Uuid[r.s]
             m == [kind |-> r.k, s |-> r.s, c |-> r.c]
  <1>1. ~At(p, "idle") /\ r \in Handler /\ r.pc = "create" /\ acc' = acc
    BY InFlight DEF Create, At
  <1>2. CASE man[u] # NoManifest
    <2>1. man' = man /\ Refuse(p)
      BY <1>2 DEF Create
    <2>2. IF r.k \in Rails THEN Went(p, "cancel") ELSE Left(p)
      BY <1>1, <2>1, GotoWent, DoneLeft DEF Refuse, Labels
    <2> QED
      BY <1>1, <2>1, <2>2, QuietOwned DEF Went, Left, Holds
  <1>3. CASE man[u] = NoManifest
    <2>1. man' = [man EXCEPT ![u] = m] /\ Left(p)
      BY <1>1, <1>3, DoneLeft DEF Create
    <2>2. u \in Uuids /\ r.k \in Kinds
      BY <1>1, InitiateAssumption DEF Handler
    <2>3. man'[u] = m /\ \A v \in Uuids \ {u} : man'[v] = man[v]
      BY <2>1, <2>2 DEF TypeInv
    <2>4. m.kind = r.k /\ m.s = r.s /\ m # NoManifest
      BY <2>2, InitiateAssumption DEF NoManifest
    <2>5. \A q \in Reqs \ {p} : Holds(q) => Holds(q)' /\ req'[q] = req[q]
      BY <2>1 DEF Left, Only, Holds
    <2>6. req[p].s = r.s /\ req[p].k = r.k
      OBVIOUS
    <2> HIDE DEF r, u, m
    <2>7. /\ u \in Created' /\ man'[u].kind = r.k /\ man'[u].s = r.s
          /\ \A v \in Created : v \in Created' /\ man'[v] = man[v]
      BY <1>3, <2>2, <2>3, <2>4 DEF Created
    <2> QED
      BY <1>1, <2>5, <2>6, <2>7 DEF Owned
  <1> QED
    BY <1>2, <1>3

\* Without a failure, every other step keeps what its request holds.
LEMMA HandleOwned ==
  ASSUME TypeInv, OwnedInv, NEW p \in Reqs, Handle(p)
  PROVE  OwnedInv'
  <1>1. CASE SpendFails(p) \/ DebitFails(p) \/ UnspendFails(p) \/ CancelFails(p) \/ Throw(p) \/ Crash(p)
    <2>1. faults' = faults + 1 /\ faults \in Nat
      BY <1>1 DEF SpendFails, DebitFails, UnspendFails, CancelFails, Throw, Crash, Fail, OwnedInv
    <2> QED
      BY <2>1 DEF OwnedInv
  <1>2. CASE Reserve(p) \/ Cancel(p) \/ Create(p)
    <2>1. faults' = faults
      BY <1>2 DEF Reserve, Cancel, Create
    <2> QED
      BY <1>2, <2>1, ReserveOwned, CancelOwned, CreateOwned DEF OwnedInv
  <1>3. CASE Provision(p)
    <2>1. Went(p, "reserve_again") /\ ~Holds(p) /\ man' = man /\ faults' = faults
      BY <1>3, GotoWent DEF Provision, At, Holds, Labels
    <2>2. "citizen" \in Rails /\ IsAccount(acc["citizen"])
      BY DEF Rails, TypeInv
    <2>3. \A k \in Rails : acc'[k].rows = acc[k].rows
      BY <1>3, <2>2, ProvisionedRows, OneAccount DEF Provision
    <2> QED
      BY <2>1, <2>3, QuietOwned DEF OwnedInv, Went
  <1>4. CASE ReadFlag(p) \/ ReadPool(p) \/ PutFlag(p) \/ Spend(p) \/ Debit(p) \/ Unspend(p)
    <2>1. man' = man /\ acc' = acc /\ faults' = faults
      BY <1>4 DEF ReadFlag, ReadPool, PutFlag, Spend, Debit, Unspend
    <2>2. /\ ~At(p, "idle") /\ req[p] \in Handler /\ LabelOK(req[p]) /\ Only(p)
      BY HandlerGoes DEF Left, Went
    <2>3. Holds(p) => \E label \in {"debit", "create", "unspend", "cancel"} : Goto(p, label)
      BY <1>4, <2>2 DEF ReadFlag, ReadPool, PutFlag, Spend, Debit, Unspend, AfterSpend, Refuse, Holds,
             At, LabelOK, Rails
    <2>4. Holds(p) => Holds(p)' /\ req'[p].s = req[p].s /\ req'[p].k = req[p].k
      BY <2>2, <2>3, GotoWent DEF Went, Holds, Labels
    <2> QED
      BY <2>1, <2>2, <2>4, QuietOwned DEF OwnedInv
  <1> QED
    BY <1>1, <1>2, <1>3, <1>4 DEF Handle

\* A request that starts holds nothing, and no credit.
LEMMA StartOwned ==
  ASSUME TypeInv, CreditInv, OwnedInv,
         NEW p \in Reqs, NEW s \in Sessions, NEW c \in Serials, NEW k \in Kinds, Start(p, s, c, k)
  PROVE  CreditInv' /\ OwnedInv'
  <1>1. k \in {"bearer", "citizen", "chartered", "soak"}
    BY InitiateAssumption
  <1>2. PICK pc : /\ req' = [req EXCEPT ![p] = Request(pc, s, c, k)]
                  /\ pc \in {"flag", "pool", "reserve", "spend"}
    BY <1>1 DEF Start
  <1>3. Only(p) /\ req'[p].pc # "create"
    BY <1>2 DEF TypeInv, Only, Request
  <1>4. UNCHANGED <<man, acc, credits, faults>> /\ ~Holds(p)
    BY DEF Start, At, Holds
  <1>5. CreditInv'
    BY <1>3, <1>4, QuietCredit DEF CreditInv
  <1>6. OwnedInv'
    BY <1>3, <1>4, QuietOwned DEF OwnedInv
  <1> QED
    BY <1>5, <1>6

-----------------------------------------------------------------------------
(* The specification                                                        *)

\* Initially there is no request, no manifest and no reservation.
LEMMA InitInv == Init => Inv
  <1> SUFFICES ASSUME Init PROVE Inv
    OBVIOUS
  <1>1. TypeInv
    <2>1. PICK b \in BOOLEAN : acc = [k \in Rails |-> NewAccount(k = "chartered" /\ b)]
      BY DEF Init
    <2>2. acc = [k \in Rails |-> acc[k]] /\ \A k \in Rails : IsAccount(acc[k])
      BY <2>1, ProvisionedRows
    <2> QED
      BY <2>2 DEF Init, TypeInv, HandlerOK
  <1>2. Created = {} /\ Paid = {}
    BY DEF Init, Created, Paid
  <1>3. \A p \in Reqs : ~Holds(p) /\ ~Pays(p)
    BY DEF Init, Holds, Pays, Idle
  <1>4. HoldInv
    BY <1>2, <1>3 DEF HoldInv, OwnerKeepsReservation
  <1>5. PayInv
    BY <1>2, <1>3 DEF PayInv, PaidOnce
  <1> QED
    BY <1>1, <1>4, <1>5 DEF Inv

\* No step of a request breaks the invariant.
LEMMA StepInv == Inv /\ [Next]_vars => Inv'
  <1> SUFFICES ASSUME Inv, [Next]_vars PROVE Inv'
    OBVIOUS
  <1>1. ASSUME NEW p \in Reqs, NEW s \in Sessions, NEW c \in Serials, NEW k \in Kinds, Start(p, s, c, k)
        PROVE  Inv'
    BY <1>1, StartInv
  <1>2. ASSUME NEW p \in Reqs, Handle(p)
        PROVE  Inv'
    BY <1>2, LookInv, DebitInv, SpendInv, UnspendInv, ReserveInv, ProvisionInv, CancelInv, CreateInv
       DEF Handle
  <1>3. CASE UNCHANGED vars
    <2>1. UNCHANGED <<man, acc, spent, req>>
      BY <1>3 DEF vars
    <2>2. Created' = Created /\ Paid' = Paid
      BY <2>1 DEF Created, Paid
    <2>3. \A p \in Reqs : (Holds(p)' <=> Holds(p)) /\ (Pays(p)' <=> Pays(p))
      BY <2>1 DEF Holds, Pays
    <2>4. TypeInv'
      BY <2>1 DEF Inv, TypeInv, HandlerOK, LabelOK, Handler
    <2>5. HoldInv'
      BY <2>1, <2>2, <2>3 DEF Inv, HoldInv, OwnerKeepsReservation
    <2>6. PayInv'
      BY <2>1, <2>2, <2>3 DEF Inv, PayInv, PaidOnce
    <2> QED
      BY <2>4, <2>5, <2>6 DEF Inv
  <1> QED
    BY <1>1, <1>2, <1>3 DEF Next

\* The reservation of a created Citizen or Chartered transfer is not cancelled by
\* any initiate, whatever sessions are retried and whatever races, refusals,
\* errors and crashes there are.
THEOREM ReservationKept == Spec => []OwnerKeepsReservation
  <1>1. Inv => OwnerKeepsReservation
    BY DEF Inv, HoldInv
  <1> QED
    BY <1>1, InitInv, StepInv, PTL DEF Spec

\* No two transfers are created with the same credential, whatever un-spends,
\* failures and retries there are.
THEOREM CredentialPaysOnce == Spec => []PaidOnce
  <1>1. Inv => PaidOnce
    BY DEF Inv, PayInv
  <1> QED
    BY <1>1, InitInv, StepInv, PTL DEF Spec

\* The pool and the reservations, initially and after every step.
LEMMA InitOwned == Init => CreditInv /\ OwnedInv
  <1> SUFFICES ASSUME Init PROVE CreditInv /\ OwnedInv
    OBVIOUS
  <1>1. Chartered = {} /\ Debited = {}
    BY DEF Init, Chartered, Created, Debited, Idle
  <1>2. IsFiniteSet({}) /\ Cardinality({}) = 0
    BY FS_EmptySet
  <1>3. CreditInv
    BY <1>1, <1>2, InitiateAssumption DEF Init, CreditInv
  <1>4. \A k \in Rails : acc[k].rows = {}
    BY DEF Init, NewAccount
  <1> QED
    BY <1>3, <1>4 DEF Init, OwnedInv, Owned

LEMMA StepOwned == Inv /\ CreditInv /\ OwnedInv /\ [Next]_vars => (CreditInv /\ OwnedInv)'
  <1> SUFFICES ASSUME Inv, CreditInv, OwnedInv, [Next]_vars PROVE (CreditInv /\ OwnedInv)'
    OBVIOUS
  <1>1. ASSUME NEW p \in Reqs, NEW s \in Sessions, NEW c \in Serials, NEW k \in Kinds, Start(p, s, c, k)
        PROVE  (CreditInv /\ OwnedInv)'
    BY <1>1, StartOwned DEF Inv
  <1>2. ASSUME NEW p \in Reqs, Handle(p)
        PROVE  (CreditInv /\ OwnedInv)'
    BY <1>2, HandleCredit, HandleOwned DEF Inv
  <1>3. CASE UNCHANGED vars
    <2>1. UNCHANGED <<man, acc, credits, faults, req>>
      BY <1>3 DEF vars
    <2>2. Chartered' = Chartered /\ Debited' = Debited /\ Created' = Created
      BY <2>1 DEF Chartered, Debited, Created
    <2>3. \A p \in Reqs : Holds(p)' <=> Holds(p)
      BY <2>1 DEF Holds
    <2>4. CreditInv'
      BY <2>1, <2>2 DEF CreditInv
    <2>5. OwnedInv'
      BY <2>1, <2>2, <2>3 DEF OwnedInv, Owned
    <2> QED
      BY <2>4, <2>5
  <1> QED
    BY <1>1, <1>2, <1>3 DEF Next

\* The credential a created transfer was paid with stays in the ledger of spent
\* ones, whatever other requests un-spend; and there are never more Chartered
\* transfers than credits gone from the pool, whatever fails on the way.
THEOREM EachIsPaid == Spec => []CreatedIsPaid
  <1>1. CreditInv => Cardinality(Chartered) <= Pool - credits
    <2> SUFFICES ASSUME CreditInv PROVE Cardinality(Chartered) <= Pool - credits
      OBVIOUS
    <2>1. Cardinality(Chartered) \in Nat /\ Cardinality(Debited) \in Nat
      BY FS_CardinalityType DEF CreditInv
    <2> QED
      BY <2>1, InitiateAssumption DEF CreditInv
  <1>2. Inv /\ CreditInv => CreatedIsPaid
    BY <1>1 DEF Inv, PayInv, CreatedIsPaid, Chartered
  <1> QED
    BY <1>2, InitInv, StepInv, InitOwned, StepOwned, PTL DEF Spec

\* Until something fails, every reservation has a request or a transfer that owns
\* it: whatever is refused, at whatever step and in whatever race, is released.
THEOREM RefusalsRelease == Spec => []RefusalReleases
  <1>1. TypeInv /\ OwnedInv => RefusalReleases
    BY DEF OwnedInv, Owned, RefusalReleases, Accounted, Holds, At
  <1> QED
    BY <1>1, InitInv, StepInv, InitOwned, StepOwned, PTL DEF Spec, Inv
-----------------------------------------------------------------------------
(* The meters of the accounts                                               *)

\* What a sum of reservations is depends on Ledger's constants alone, and is in
\* OccupancyProofs: of Occupancy's own constants and variables anything will do.
Quota == INSTANCE OccupancyProofs
           WITH Tries <- 1, Slow <- {}, Lossy <- {}, man <- {}, acc <- {}, fresh <- FALSE, expired <- {},
                creating <- {}, converting <- {}, releasing <- {}, recon <- {}

LEMMA HeldIsNat == \A S \in SUBSET Sessions : Held(S) \in Nat
  <1>1. \A S \in SUBSET Sessions : Quota!Held(S) \in Nat
    <2>1. IsFiniteSet(Sessions) <=> Quota!IsFiniteSet(Sessions)
      BY DEF IsFiniteSet, Quota!IsFiniteSet
    <2> QED
      BY <2>1, Quota!HeldType, LedgerAssumption
  <1>2. \A S : Quota!Held(S) = Held(S)
    BY DEF Held, Quota!Held, MapThenSumSet, Quota!MapThenSumSet, MapThenFoldSet, Quota!MapThenFoldSet
  <1> QED
    BY <1>1, <1>2

\* A reservation leaves an account one, and so does what gives it back.
LEMMA ReservedAccount ==
  ASSUME NEW a \in Account, NEW s \in Sessions
  PROVE  Reserved(a, s, {}) \in Account
  <1> DEFINE r == Refreshed(a, {})
             code == ReserveCode(a, s, {})
  <1>1. r \in Account
    <2>1. a.rows \ {} = a.rows /\ Held(a.rows) \in Nat
      BY HeldIsNat DEF Account
    <2>2. r = [a EXCEPT !.rows = a.rows, !.reserved = Held(a.rows)]
      BY <2>1 DEF Refreshed
    <2> QED
      BY <2>1, <2>2 DEF Account
  <1>2. code \in {"ok", "too_many_in_flight", "quota_exceeded", "quota_not_provisioned", "error"}
    BY DEF ReserveCode
  <1>3. Reserved(a, s, {}) =
          CASE code = "ok" -> [r EXCEPT !.rows = @ \cup {s}, !.reserved = @ + Chunks[s]]
            [] code \in {"too_many_in_flight", "quota_exceeded"} -> r
            [] code \in {"quota_not_provisioned", "error"} -> a
    BY DEF Reserved
  <1> HIDE DEF r, code
  <1>4. [r EXCEPT !.rows = @ \cup {s}, !.reserved = @ + Chunks[s]] \in Account
    <2>1. Chunks[s] \in Nat
      BY LedgerAssumption
    <2>2. r.rows \cup {s} \subseteq Sessions /\ r.reserved + Chunks[s] \in Nat
      BY <1>1, <2>1 DEF Account
    <2> QED
      BY <1>1, <2>2 DEF Account
  <1> QED
    BY <1>1, <1>2, <1>3, <1>4

LEMMA ReleasedAccount ==
  ASSUME NEW a \in Account, NEW s \in Sessions
  PROVE  Released(a, s, FALSE) \in Account
  <1>1. Chunks[s] \in Nat
    BY LedgerAssumption
  <1>2. Clamp(a.reserved - Chunks[s]) \in Nat
    BY <1>1 DEF Clamp, Account
  <1> QED
    BY <1>2 DEF Released, Account

\* What Inv, CreditInv and OwnedInv leave of the types.
StoreTypes ==
  /\ \A k \in Rails : acc[k] \in Account
  /\ spent \subseteq Serials /\ flags \subseteq Uuids

\* The steps that put the flag or spend the credential.
LEMMA LedgerTypes ==
  ASSUME Inv, StoreTypes, NEW p \in Reqs,
         PutFlag(p) \/ Spend(p) \/ SpendFails(p) \/ Unspend(p)
  PROVE  StoreTypes'
  <1>1. TypeInv /\ ~At(p, "idle") /\ UNCHANGED acc
    BY DEF Inv, PutFlag, Spend, SpendFails, Unspend, At
  <1>2. req[p].c \in Serials /\ Uuid[req[p].s] \in Uuids
    BY <1>1, InFlight, InitiateAssumption DEF Handler
  <1> QED
    BY <1>1, <1>2 DEF StoreTypes, PutFlag, Spend, SpendFails, Unspend

\* The steps that change an account.
LEMMA AccountTypes ==
  ASSUME Inv, StoreTypes, NEW p \in Reqs, Reserve(p) \/ Provision(p) \/ Cancel(p)
  PROVE  StoreTypes'
  <1>1. TypeInv /\ ~At(p, "idle") /\ UNCHANGED <<spent, flags>>
    BY DEF Inv, Reserve, Provision, Cancel, At
  <1>2. req[p].s \in Sessions /\ LabelOK(req[p])
    BY <1>1, InFlight DEF Handler
  <1>3. acc = [k \in Rails |-> acc[k]]
    BY <1>1 DEF TypeInv
  <1>4. CASE Reserve(p)
    <2>1. req[p].k \in Rails
      BY <1>2, <1>4 DEF Reserve, LabelOK
    <2>2. acc' = acc \/ acc' = [acc EXCEPT ![req[p].k] = Reserved(acc[req[p].k], req[p].s, {})]
      BY <1>4 DEF Reserve
    <2>3. Reserved(acc[req[p].k], req[p].s, {}) \in Account
      BY <1>2, <2>1, ReservedAccount DEF StoreTypes
    <2> QED
      BY <1>1, <1>3, <2>2, <2>3 DEF StoreTypes
  <1>5. CASE Provision(p)
    <2>1. acc' = [acc EXCEPT !["citizen"] = [acc["citizen"] EXCEPT !.provisioned = TRUE]]
      BY <1>5 DEF Provision
    <2>2. acc["citizen"] \in Account
      BY DEF StoreTypes, Rails
    <2>3. [acc["citizen"] EXCEPT !.provisioned = TRUE] \in Account
      BY <2>2 DEF Account
    <2> QED
      BY <1>1, <1>3, <2>1, <2>3 DEF StoreTypes
  <1>6. CASE Cancel(p)
    <2>1. req[p].k \in Rails
      BY <1>2, <1>6 DEF Cancel, LabelOK, At
    <2>2. acc' = [acc EXCEPT ![req[p].k] = Released(acc[req[p].k], req[p].s, FALSE)]
      BY <1>6 DEF Cancel
    <2>3. Released(acc[req[p].k], req[p].s, FALSE) \in Account
      BY <1>2, <2>1, ReleasedAccount DEF StoreTypes
    <2> QED
      BY <1>1, <1>3, <2>2, <2>3 DEF StoreTypes
  <1> QED
    BY <1>4, <1>5, <1>6

LEMMA InitTypes == Init => StoreTypes
  <1> SUFFICES ASSUME Init PROVE StoreTypes
    OBVIOUS
  <1>1. \A b \in BOOLEAN : NewAccount(b) \in Account
    BY DEF NewAccount, Account
  <1>2. \A k \in Rails : acc[k] \in Account
    <2>1. PICK provisioned \in BOOLEAN : acc = [k \in Rails |-> NewAccount(k = "chartered" /\ provisioned)]
      BY DEF Init
    <2>2. \A k \in Rails : (k = "chartered" /\ provisioned) \in BOOLEAN
      OBVIOUS
    <2> QED
      BY <1>1, <2>1, <2>2
  <1> QED
    BY <1>2 DEF Init, StoreTypes

LEMMA StepTypes == Inv /\ StoreTypes /\ [Next]_vars => StoreTypes'
  <1> SUFFICES ASSUME Inv, StoreTypes, [Next]_vars PROVE StoreTypes'
    OBVIOUS
  <1>1. ASSUME NEW p \in Reqs, NEW s \in Sessions, NEW c \in Serials, NEW k \in Kinds, Start(p, s, c, k)
        PROVE  StoreTypes'
    BY <1>1 DEF Start, StoreTypes
  <1>2. ASSUME NEW p \in Reqs, Handle(p)
        PROVE  StoreTypes'
    <2>1. CASE PutFlag(p) \/ Spend(p) \/ SpendFails(p) \/ Unspend(p)
      BY <2>1, LedgerTypes
    <2>2. CASE Reserve(p) \/ Provision(p) \/ Cancel(p)
      BY <2>2, AccountTypes
    <2>3. CASE UNCHANGED <<acc, spent, flags>>
      BY <2>3 DEF StoreTypes
    <2>4. \/ PutFlag(p) \/ Spend(p) \/ SpendFails(p) \/ Unspend(p)
          \/ Reserve(p) \/ Provision(p) \/ Cancel(p)
          \/ UNCHANGED <<acc, spent, flags>>
      BY <1>2 DEF Handle, ReadFlag, ReadPool, Debit, DebitFails, UnspendFails, CancelFails, Create, Throw, Crash
    <2> QED
      BY <2>1, <2>2, <2>3, <2>4
  <1>3. CASE UNCHANGED vars
    BY <1>3 DEF vars, StoreTypes
  <1> QED
    BY <1>1, <1>2, <1>3 DEF Next

\* Every variable keeps its type, for any number of requests, whatever their
\* sessions, races and faults; the pool is never overdrawn and no meter negative.
THEOREM InitiateTypes == Spec => []TypeOK
  <1>1. Inv /\ CreditInv /\ OwnedInv /\ StoreTypes => TypeOK
    <2> SUFFICES ASSUME Inv, CreditInv, OwnedInv, StoreTypes PROVE TypeOK
      OBVIOUS
    <2>1. man \in [Uuids -> {NoManifest} \cup [kind : Kinds, s : Sessions, c : Serials]]
      BY DEF Inv, TypeInv, Record
    <2>2. acc \in [Rails -> Account]
      BY DEF Inv, TypeInv, StoreTypes
    <2>3. req \in [Reqs -> {Idle} \cup [pc : Labels, s : Sessions, c : Serials, k : Kinds]]
      BY DEF Inv, TypeInv, HandlerOK, Handler
    <2> QED
      BY <2>1, <2>2, <2>3 DEF TypeOK, CreditInv, OwnedInv, StoreTypes
  <1> QED
    BY <1>1, InitInv, StepInv, InitOwned, StepOwned, InitTypes, StepTypes, PTL DEF Spec
=============================================================================
