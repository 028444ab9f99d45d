----------------------------- MODULE Subscriber -----------------------------
(***************************************************************************)
(* The subscribers row of one Stripe customer: Stripe's subscriptions       *)
(* change, each change is announced by an event that is delivered in any    *)
(* order, more than once, and until it is answered 200, and the webhook     *)
(* writes what it reads back from Stripe over the row.  What the row says   *)
(* opens the Citizen tier.  Stripe is external: its side is modelled from   *)
(* how the webhook and the checkout use it.  CitizenProofs extends this      *)
(* module and SignIn, which have no name in common for that reason.         *)
(***************************************************************************)
EXTENDS Naturals, FiniteSets

CONSTANTS
  Subs,        \* the subscriptions the customer may come to have
  Handlers,    \* deliveries that run at the same time
  Period,      \* length of what is paid for, in ticks
  Trials,      \* the trials begun by hand: [price, dated]
  MaxClock,    \* bound: the clock
  MaxEvents,   \* bound: changes at Stripe
  MaxFailures  \* bound: reads and writes that fail, handlers that die

Prices == {"citizen", "other"}

ASSUME SubscriberAssumption ==
  /\ Trials \subseteq [price : Prices, dated : BOOLEAN]
  /\ Period \in Nat \ {0} /\ MaxClock \in Nat \ {0}
  /\ MaxEvents \in Nat /\ MaxFailures \in Nat

VARIABLES
  clock,
  sub,     \* Stripe: sub[s] = [status, price, end], of the item that counts (citizenItem)
  events,  \* Stripe: the events not yet answered with 200: [n, sub, deleted]
  made,    \* how many events there have been
  row,     \* the subscribers row: [tier, status, end]
  handler, \* the webhook's handlers
  given,   \* history: <<s, end>> of each period on a Citizen price, paid for or in trial
  overlap, \* history: two handlers have run at the same time
  failures

stripe == <<sub, events, made, given>>
subVars == <<clock, stripe, row, handler, overlap, failures>>

\* past_due stands for unpaid and paused as well.
Statuses == {"none", "incomplete", "incomplete_expired", "trialing", "active", "past_due", "canceled"}
NoEnd == 0
NoRow == [tier |-> "free", status |-> "none", end |-> NoEnd]
NoHandler == [pc |-> "idle"]

SubInit ==
  /\ clock = 1
  /\ sub = [s \in Subs |-> [status |-> "none", price |-> "citizen", end |-> NoEnd]]
  /\ events = {} /\ made = 0 /\ given = {}
  /\ row = NoRow
  /\ handler = [h \in Handlers |-> NoHandler]
  /\ overlap = FALSE /\ failures = 0

-----------------------------------------------------------------------------
(* Stripe.                                                                  *)

\* Subscriptions that may open the tier: paid for or in trial, on a Citizen price.
Opens(x) == x.status \in {"active", "trialing"} /\ x.price = "citizen"

\* s becomes x, and the event that announces it.
Changed(s, x) ==
  /\ made < MaxEvents /\ made' = made + 1
  /\ sub' = [sub EXCEPT ![s] = x]
  /\ events' = events \cup {[n |-> made + 1, sub |-> s, deleted |-> x.status = "canceled"]}
  /\ given' = IF Opens(x) THEN given \cup {<<s, x.end>>} ELSE given
  /\ UNCHANGED <<clock, row, handler, overlap, failures>>

Becomes(s, status, end) == Changed(s, [sub[s] EXCEPT !.status = status, !.end = end])

\* createCheckoutSession: a new subscription of the customer at each press, its period
\* dated although nothing is paid.
Checkout(s) == sub[s].status = "none" /\ Becomes(s, "incomplete", clock + Period)

\* A subscription made by hand at Stripe, in trial, on any price, its item perhaps undated.
Trial(s, t) ==
  /\ sub[s].status = "none"
  /\ Changed(s, [status |-> "trialing", price |-> t.price, end |-> IF t.dated THEN clock + Period ELSE NoEnd])

Due(s) == sub[s].status \in {"active", "trialing"} /\ clock >= sub[s].end

Pay(s) == sub[s].status \in {"incomplete", "past_due"} /\ Becomes(s, "active", clock + Period)
Renew(s) == Due(s) /\ Becomes(s, "active", clock + Period)
PaymentFails(s) == Due(s) /\ Becomes(s, "past_due", clock + Period)
Abandon(s) == sub[s].status = "incomplete" /\ Becomes(s, "incomplete_expired", sub[s].end)
Cancel(s) == sub[s].status \in {"active", "trialing", "past_due"} /\ Becomes(s, "canceled", sub[s].end)

-----------------------------------------------------------------------------
(* POST /webhook/stripe.                                                    *)

At(h, label) == handler[h].pc = label
End(h) == handler' = [handler EXCEPT ![h] = NoHandler]
Fault == failures < MaxFailures /\ failures' = failures + 1

Cancelled == [tier |-> "free", status |-> "cancelled", end |-> NoEnd]

\* tierFromLookupKey, but for a cancelled subscription.
TierOf(x) == IF x.status # "canceled" /\ x.price = "citizen" THEN "citizen" ELSE "free"

\* What the handler makes of a subscription it fetched: a trial counts, and an undated item
\* has no end.
RowOf(x) ==
  [status |-> IF x.status \in {"active", "trialing"} THEN "active"
              ELSE IF x.status = "canceled" THEN "cancelled" ELSE "inactive",
   tier   |-> TierOf(x),
   end    |-> x.end]

\* A deletion is taken from the event itself; for the others the event is only a pointer.
Deliver(h, e) ==
  /\ At(h, "idle") /\ e \in events
  /\ handler' = [handler EXCEPT ![h] = [pc |-> IF e.deleted THEN "upsert" ELSE "fetch", event |-> e, row |-> Cancelled]]
  /\ overlap' = (overlap \/ \E g \in Handlers \ {h} : ~At(g, "idle"))
  /\ UNCHANGED <<clock, stripe, row, failures>>

Fetch(h) ==
  /\ At(h, "fetch")
  /\ handler' = [handler EXCEPT ![h].pc = "upsert", ![h].row = RowOf(sub[handler[h].event.sub])]
  /\ UNCHANGED <<clock, stripe, row, overlap, failures>>

\* Mutant of FetchFails: 200 all the same.
FetchFailsAnswered(h) ==
  /\ At(h, "fetch") /\ Fault
  /\ events' = events \ {handler[h].event}
  /\ End(h)
  /\ UNCHANGED <<clock, sub, made, given, row, overlap>>

\* No subscription came back: 500, and Stripe delivers again.
FetchFails(h) ==
  /\ At(h, "fetch") /\ Fault
  /\ End(h)
  /\ UNCHANGED <<clock, stripe, row, overlap>>

\* upsertSubscriber, last write wins, and the 200.
Upsert(h) ==
  /\ At(h, "upsert")
  /\ row' = handler[h].row
  /\ events' = events \ {handler[h].event}
  /\ End(h)
  /\ UNCHANGED <<clock, sub, made, given, overlap, failures>>

\* Mutant of UpsertFails: the refused write is logged and dropped.
UpsertFailsDropped(h) ==
  /\ At(h, "upsert") /\ Fault
  /\ events' = events \ {handler[h].event}
  /\ End(h)
  /\ UNCHANGED <<clock, sub, made, given, row, overlap>>

\* The write is refused, or applied and its answer lost: 500, and Stripe delivers again.
UpsertFails(h) ==
  /\ At(h, "upsert") /\ Fault
  /\ row' \in {row, handler[h].row}
  /\ End(h)
  /\ UNCHANGED <<clock, stripe, overlap>>

HandlerCrash(h) ==
  /\ ~At(h, "idle") /\ Fault
  /\ End(h)
  /\ UNCHANGED <<clock, stripe, row, overlap>>

-----------------------------------------------------------------------------

\* citizen_entitlement, and citizenTier over it.
Entitled == row.tier = "citizen" /\ row.status = "active" /\ row.end > clock

Elapse == clock < MaxClock /\ clock' = clock + 1 /\ UNCHANGED <<stripe, row, handler, overlap, failures>>

Handle(h) == (\E e \in events : Deliver(h, e)) \/ Fetch(h) \/ Upsert(h)

SubNext ==
  \/ \E s \in Subs :
        \/ Checkout(s) \/ Pay(s) \/ Renew(s) \/ PaymentFails(s) \/ Abandon(s) \/ Cancel(s)
        \/ \E t \in Trials : Trial(s, t)
  \/ \E h \in Handlers :
        Handle(h) \/ FetchFails(h) \/ UpsertFails(h) \/ HandlerCrash(h)
  \/ Elapse

SubSpec == SubInit /\ [][SubNext]_subVars

\* Stripe delivers every event until it is answered, the oldest included, and a handler
\* that runs goes on.
Fairness ==
  /\ \A n \in 1..MaxEvents : SF_subVars(\E h \in Handlers, e \in events : e.n = n /\ Deliver(h, e))
  /\ \A h \in Handlers : WF_subVars(Fetch(h) \/ Upsert(h))

FairSpec == SubSpec /\ Fairness

-----------------------------------------------------------------------------
(* Properties.                                                              *)

Rows == [tier : {"free", "citizen"}, status : {"none", "active", "inactive", "cancelled"}, end : 0..MaxClock + Period]
Events == [n : 1..MaxEvents, sub : Subs, deleted : BOOLEAN]

SubTypeOK ==
  /\ clock \in 1..MaxClock
  /\ sub \in [Subs -> [status : Statuses, price : Prices, end : 0..MaxClock + Period]]
  /\ events \subseteq Events /\ made \in 0..MaxEvents
  /\ row \in Rows
  /\ handler \in [Handlers -> {NoHandler} \cup [pc : {"fetch", "upsert"}, event : Events, row : Rows]]
  /\ given \subseteq Subs \X (0..MaxClock + Period)
  /\ overlap \in BOOLEAN /\ failures \in 0..MaxFailures

\* However late, doubled or out of order the events come, and whatever fails, the tier is
\* open only to the end of a period some subscription had on a Citizen price, paid for or in
\* trial (handlers/stripe_sub.js:51-61); and if that subscription has changed since, an event
\* that says so is still unanswered (:25-29), unless two webhooks have run at once (:27-28).
OpenIsBacked ==
  Entitled =>
    \E s \in Subs :
      /\ <<s, row.end>> \in given
      /\ overlap \/ (Opens(sub[s]) /\ sub[s].end = row.end) \/ \E e \in events : e.sub = s

Held == {s \in Subs : sub[s].status # "none"}
Quiet == events = {} /\ \A h \in Handlers : At(h, "idle")

\* The row comes to say what Stripe says (handlers/stripe_sub.js:25-29): for a customer of
\* one subscription, once every event is answered, if no two handlers ran at the same time,
\* lost answers, retries and any order of the events notwithstanding.
SettlesCurrent ==
  Quiet /\ ~overlap =>
    \A s \in Subs : Held = {s} => /\ row.status = RowOf(sub[s]).status
                                  /\ Entitled <=> Opens(sub[s]) /\ sub[s].end > clock

\* A payment or a trial on a Citizen price opens the tier in the end, unless its period ends
\* or the subscription changes again first (handlers/stripe_sub.js:23-24).
PaymentCounts ==
  \A s \in Subs :
    (Held = {s} /\ Opens(sub[s])) ~>
      (Entitled \/ ~Opens(sub[s]) \/ sub[s].end <= clock \/ Held # {s} \/ overlap)
=============================================================================
