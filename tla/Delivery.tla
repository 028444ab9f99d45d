------------------------------ MODULE Delivery ------------------------------
(***************************************************************************)
(* Webhooks and receipts of one Chartered org about one transfer: the       *)
(* registration in KV, the receipts kept for pull, the tasks that send an   *)
(* event off the response path, and the dead-letter queue the cron of every *)
(* day goes through.  KV is last write wins.  Time is counted in days.      *)
(***************************************************************************)
EXTENDS Naturals, FiniteSets

CONSTANTS
  Tasks,      \* the events that come up, each sent by a task of its own
  Clients,    \* registration requests in flight at a time
  Retention,  \* DLQ_TTL and RECEIPT_TTL, in days
  RecordLife, \* days until the record of an ended transfer is forgotten
  MaxIds,     \* bound: registrations
  MaxDays,    \* bound: the clock
  MaxFaults   \* bound: calls that fail, answers lost, isolates that go

Receipts == {"cargo.accepted", "cargo.discharged"}
Events == Receipts \cup {"transfer.confirmed", "transfer.timestamp_submitted"}

ASSUME DeliveryAssumption ==
  /\ Retention \in Nat \ {0} /\ RecordLife \in Nat /\ RecordLife > Retention
  /\ MaxIds \in Nat /\ MaxDays \in Nat /\ MaxFaults \in Nat

VARIABLES
  day,
  man,       \* the manifest: [state, sealed, since]
  config,    \* wh_config_{orgtag}: [id, active]; id stands for created_at and its secret
  ids,       \* registrations made
  receipt,   \* receipt_{uuid}_{type}: [id, until], or none
  guard,     \* receipt_discharged_guard:{uuid}
  dlq,       \* dlq[k]: the dead letter of task k, or none
  task,      \* the tasks that send
  job,       \* retryDeadLetterQueue
  client,    \* the registration requests
  delivered, \* history: how often each event reached the endpoint
  expired,   \* history: the events whose dead letter reached its end
  faults

kv == <<config, ids, receipt, guard, dlq>>
history == <<delivered, expired>>
vars == <<day, man, kv, task, job, client, history, faults>>

None == [id |-> 0]
Idle == [pc |-> "idle"]
NoConfig == [id |-> 0, active |-> FALSE]
Due == [pc |-> "due", left |-> {}, k |-> 0, receipt |-> 0, id |-> 0]

\* A transfer that uploads, or one that was finalised before any endpoint was registered.
Init ==
  /\ day = 0
  /\ \E state \in {"uploading", "live"} : man = [state |-> state, sealed |-> FALSE, since |-> 0]
  /\ config = NoConfig /\ ids = 0
  /\ receipt = [e \in Receipts |-> None]
  /\ guard = FALSE
  /\ dlq = [k \in Tasks |-> None]
  /\ task = [k \in Tasks |-> Idle]
  /\ job = Due
  /\ client = [c \in Clients |-> Idle]
  /\ delivered = [e \in Events |-> 0] /\ expired = {}
  /\ faults = 0

Fail == faults < MaxFaults /\ faults' = faults + 1

\* deliverableConfig, as a read of KV that works.
Deliverable == config.active

-----------------------------------------------------------------------------
(* What happens to the transfer, and the task each event starts.            *)

Begin(k, e, pc) ==
  /\ task[k] = Idle
  /\ task' = [task EXCEPT ![k] = [pc |-> pc, e |-> e, id |-> 0, receipt |-> 0]]

\* handleFinalise of the request that completed the transfer.
Accept(k) ==
  /\ man.state = "uploading"
  /\ man' = [man EXCEPT !.state = "live"]
  /\ Begin(k, "cargo.accepted", "config")
  /\ UNCHANGED <<day, kv, job, client, history, faults>>

\* handleTimestamp: the conditional update takes it once.
Seal(k) ==
  /\ man.state = "live" /\ ~man.sealed
  /\ man' = [man EXCEPT !.sealed = TRUE]
  /\ Begin(k, "transfer.timestamp_submitted", "send")
  /\ UNCHANGED <<day, kv, job, client, history, faults>>

\* The last chunk is served; another request's may be too, from a manifest read before.
Discharge(k) ==
  /\ man.state = "live"
  /\ Begin(k, "cargo.discharged", "guard")
  /\ UNCHANGED <<day, man, kv, job, client, history, faults>>

\* The latch of /confirm or of the destruction a download ends in, or a deletion by anybody.
Destroy ==
  /\ man.state = "live"
  /\ man' = [man EXCEPT !.state = "consumed", !.since = day]
  /\ UNCHANGED <<day, kv, task, job, client, history, faults>>

\* The notice of /confirm, or of a download's destruction that left nothing: two downloads
\* may both destroy, and a deletion, or a destruction that was only partial, gives none.
Confirm(k) ==
  /\ man.state = "consumed" /\ man.since = day
  /\ Begin(k, "transfer.confirmed", "send")
  /\ UNCHANGED <<day, man, kv, job, client, history, faults>>

\* The nightly sweep, RecordLife days on.
Forget ==
  /\ man.state = "consumed" /\ day >= man.since + RecordLife
  /\ man' = [man EXCEPT !.state = "gone"]
  /\ UNCHANGED <<day, kv, task, job, client, history, faults>>

-----------------------------------------------------------------------------
(* A task: guard, config, receipt, config again, post, dead letter.         *)

At(k, label) == task[k].pc = label
Goto(k, label) == task' = [task EXCEPT ![k].pc = label]
End(k) == Goto(k, "done")

ReadGuard(k) ==
  /\ At(k, "guard")
  /\ IF guard THEN End(k) ELSE Goto(k, "guard_put")
  /\ UNCHANGED <<day, man, kv, job, client, history, faults>>

PutGuard(k) ==
  /\ At(k, "guard_put")
  /\ guard' = TRUE
  /\ Goto(k, "config")
  /\ UNCHANGED <<day, man, config, ids, receipt, dlq, job, client, history, faults>>

\* issueReceipt: the receipt is signed with the secret of this config.
ReadConfig(k) ==
  /\ At(k, "config")
  /\ IF config.active THEN task' = [task EXCEPT ![k].pc = "receipt", ![k].receipt = config.id]
     ELSE Goto(k, "unsent")
  /\ UNCHANGED <<day, man, kv, job, client, history, faults>>

PutReceipt(k) ==
  /\ At(k, "receipt")
  /\ receipt' = [receipt EXCEPT ![task[k].e] = [id |-> task[k].receipt, until |-> day + Retention]]
  /\ Goto(k, "send")
  /\ UNCHANGED <<day, man, config, ids, guard, dlq, job, client, history, faults>>

\* sendEvent reads the config itself.
Send(k) ==
  /\ At(k, "send")
  /\ IF Deliverable THEN task' = [task EXCEPT ![k].pc = "post", ![k].id = config.id]
     ELSE Goto(k, "unsent")
  /\ UNCHANGED <<day, man, kv, job, client, history, faults>>

Reached(e) == delivered' = [delivered EXCEPT ![e] = @ + 1]

\* Mutant: the letter is written whatever the endpoint answered.
PostKeepsLetter(k) ==
  /\ At(k, "post")
  /\ Reached(task[k].e)
  /\ Goto(k, "queue")
  /\ UNCHANGED <<day, man, kv, job, client, expired, faults>>

Post(k) ==
  /\ At(k, "post")
  /\ Reached(task[k].e)
  /\ End(k)
  /\ UNCHANGED <<day, man, kv, job, client, expired, faults>>

\* Mutant: a send that fails is given up.
PostFailsForGood(k) ==
  /\ At(k, "post")
  /\ End(k)
  /\ UNCHANGED <<day, man, kv, job, client, history, faults>>

PostFails(k) ==
  /\ At(k, "post")
  /\ Goto(k, "queue")
  /\ UNCHANGED <<day, man, kv, job, client, history, faults>>

\* The endpoint has it; its answer is late or lost.
PostUnanswered(k) ==
  /\ At(k, "post")
  /\ Fail
  /\ Reached(task[k].e)
  /\ Goto(k, "queue")
  /\ UNCHANGED <<day, man, kv, job, client, expired>>

DeadLetter(k) ==
  /\ At(k, "queue")
  /\ dlq' = [dlq EXCEPT ![k] = [id |-> 1, e |-> task[k].e, since |-> day, tries |-> 0]]
  /\ End(k)
  /\ UNCHANGED <<day, man, config, ids, receipt, guard, job, client, history, faults>>

\* KV throws, a read of the config answers nothing, or the isolate goes.
TaskFails(k) ==
  /\ task[k].pc \notin {"idle", "done", "unsent"}
  /\ Fail
  /\ End(k)
  /\ UNCHANGED <<day, man, kv, job, client, history>>

-----------------------------------------------------------------------------
(* The daily cron.                                                          *)

JobAt(label) == job.pc = label
JobGoto(label) == job' = [job EXCEPT !.pc = label]
NextLetter(k) == job' = [Due EXCEPT !.pc = "next", !.left = job.left \ {k}]

List ==
  /\ JobAt("due")
  /\ job' = [Due EXCEPT !.pc = "next", !.left = {k \in Tasks : dlq[k] # None}]
  /\ UNCHANGED <<day, man, kv, task, client, history, faults>>

JobEnds ==
  /\ JobAt("next") /\ job.left = {}
  /\ JobGoto("over")
  /\ UNCHANGED <<day, man, kv, task, client, history, faults>>

\* confirmEvent: what is stored still bears the event out.
Confirmed(e) ==
  CASE e \in Receipts -> receipt[e] # None
    [] e = "transfer.confirmed" -> man.state = "consumed"
    [] e = "transfer.timestamp_submitted" -> man.state = "live" /\ man.sealed

Read ==
  /\ JobAt("next")
  /\ \E k \in job.left :
       job' = [job EXCEPT !.pc = IF Confirmed(dlq[k].e) THEN "config" ELSE "delete", !.k = k,
                          !.receipt = IF dlq[k].e \in Receipts THEN receipt[dlq[k].e].id ELSE 0]
  /\ UNCHANGED <<day, man, kv, task, client, history, faults>>

\* KV throws at a read: the entry is left for tomorrow.
ReadFails ==
  /\ JobAt("next")
  /\ Fail
  /\ \E k \in job.left : NextLetter(k)
  /\ UNCHANGED <<day, man, kv, task, client, history>>

JobConfig ==
  /\ JobAt("config")
  /\ IF Deliverable THEN job' = [job EXCEPT !.pc = "post", !.id = config.id] ELSE JobGoto("delete")
  /\ UNCHANGED <<day, man, kv, task, client, history, faults>>

\* deliverableConfig takes a read that failed for no registration.
JobConfigFails ==
  /\ JobAt("config")
  /\ Fail
  /\ JobGoto("delete")
  /\ UNCHANGED <<day, man, kv, task, client, history>>
JobPost ==
  /\ JobAt("post")
  /\ Reached(dlq[job.k].e)
  /\ JobGoto("delete")
  /\ UNCHANGED <<day, man, kv, task, client, expired, faults>>

\* Mutant: the first letter that fails ends the night.
JobPostFailsStops ==
  /\ JobAt("post")
  /\ dlq' = [dlq EXCEPT ![job.k].tries = @ + 1]
  /\ job' = [Due EXCEPT !.pc = "over"]
  /\ UNCHANGED <<day, man, config, ids, receipt, guard, task, client, history, faults>>

\* It stays until its end; the rest of the list is gone through.
JobPostFails ==
  /\ JobAt("post")
  /\ dlq' = [dlq EXCEPT ![job.k].tries = @ + 1]
  /\ NextLetter(job.k)
  /\ UNCHANGED <<day, man, config, ids, receipt, guard, task, client, history, faults>>

JobPostUnanswered ==
  /\ JobAt("post")
  /\ Fail
  /\ Reached(dlq[job.k].e)
  /\ dlq' = [dlq EXCEPT ![job.k].tries = @ + 1]
  /\ NextLetter(job.k)
  /\ UNCHANGED <<day, man, config, ids, receipt, guard, task, client, expired>>

Delete ==
  /\ JobAt("delete")
  /\ dlq' = [dlq EXCEPT ![job.k] = None]
  /\ NextLetter(job.k)
  /\ UNCHANGED <<day, man, config, ids, receipt, guard, task, client, history, faults>>

DeleteFails ==
  /\ JobAt("delete")
  /\ Fail
  /\ NextLetter(job.k)
  /\ UNCHANGED <<day, man, kv, task, client, history>>

\* The cron's isolate goes, or the list cannot be read: nothing more tonight.
JobCrash ==
  /\ job.pc # "over"
  /\ Fail
  /\ job' = [Due EXCEPT !.pc = "over"]
  /\ UNCHANGED <<day, man, kv, task, client, history>>

InFlight(k) == task[k].pc \notin {"idle", "done", "unsent"}
Ended(k, d) == dlq[k] # None /\ d >= dlq[k].since + Retention

\* A day passes once its cron is over; no task outlives its day, and the receipt
\* and the letter of one event end together.
Tick ==
  /\ day < MaxDays /\ JobAt("over") /\ \A k \in Tasks : ~InFlight(k)
  /\ day' = day + 1
  /\ job' = Due
  /\ dlq' = [k \in Tasks |-> IF Ended(k, day') THEN None ELSE dlq[k]]
  /\ receipt' = [e \in Receipts |-> IF receipt[e] # None /\ day' >= receipt[e].until THEN None ELSE receipt[e]]
  /\ expired' = expired \cup {dlq[k].e : k \in {k \in Tasks : Ended(k, day')}}
  /\ UNCHANGED <<man, config, ids, guard, task, client, delivered, faults>>

-----------------------------------------------------------------------------
(* POST and DELETE /api/v1/webhook/register: a read, then a put.            *)

ClientAt(c, label) == client[c].pc = label
Answer(c) == client' = [client EXCEPT ![c] = Idle]

Ask(c, pc) ==
  /\ client[c] = Idle
  /\ client' = [client EXCEPT ![c] = [pc |-> pc, read |-> config]]
  /\ UNCHANGED <<day, man, kv, task, job, history, faults>>

Register(c) ==
  /\ ClientAt(c, "post")
  /\ IF client[c].read.active THEN UNCHANGED <<config, ids>>
     ELSE /\ ids < MaxIds /\ ids' = ids + 1
          /\ config' = [id |-> ids', active |-> TRUE]
  /\ Answer(c)
  /\ UNCHANGED <<day, man, receipt, guard, dlq, task, job, history, faults>>

\* The put carries the record that was read.
Deregister(c) ==
  /\ ClientAt(c, "delete")
  /\ config' = IF client[c].read = NoConfig THEN config ELSE [client[c].read EXCEPT !.active = FALSE]
  /\ Answer(c)
  /\ UNCHANGED <<day, man, ids, receipt, guard, dlq, task, job, history, faults>>

-----------------------------------------------------------------------------
Event(k) == Accept(k) \/ Seal(k) \/ Discharge(k) \/ Confirm(k)

Work(k) ==
  \/ ReadGuard(k) \/ PutGuard(k) \/ ReadConfig(k) \/ PutReceipt(k) \/ Send(k)
  \/ Post(k) \/ PostFails(k) \/ PostUnanswered(k) \/ DeadLetter(k) \/ TaskFails(k)

Cron ==
  \/ List \/ Read \/ ReadFails \/ JobConfig \/ JobConfigFails
  \/ JobPost \/ JobPostFails \/ JobPostUnanswered \/ Delete \/ DeleteFails
  \/ JobEnds \/ JobCrash

Next ==
  \/ \E k \in Tasks : Event(k) \/ Work(k)
  \/ Cron \/ Tick \/ Destroy \/ Forget
  \/ \E c \in Clients : Ask(c, "post") \/ Ask(c, "delete") \/ Register(c) \/ Deregister(c)

Spec == Init /\ [][Next]_vars

-----------------------------------------------------------------------------
(* Properties                                                               *)

Steps == {"guard", "guard_put", "config", "receipt", "send", "post", "queue", "done", "unsent"}

\* Every variable has its type; a letter is gone through only while it is there.
TypeOK ==
  /\ day \in 0..MaxDays /\ faults \in 0..MaxFaults /\ ids \in 0..MaxIds
  /\ man \in [state : {"uploading", "live", "consumed", "gone"}, sealed : BOOLEAN, since : 0..MaxDays]
  /\ config \in [id : 0..MaxIds, active : BOOLEAN] /\ guard \in BOOLEAN
  /\ receipt \in [Receipts -> {None} \cup [id : 1..MaxIds, until : Nat]]
  /\ dlq \in [Tasks -> {None} \cup [id : {1}, e : Events, since : 0..MaxDays, tries : Nat]]
  /\ task \in [Tasks -> {Idle} \cup [pc : Steps, e : Events, id : 0..MaxIds, receipt : 0..MaxIds]]
  /\ job \in [pc : {"due", "next", "config", "post", "delete", "over"}, left : SUBSET Tasks,
              k : Tasks \cup {0}, receipt : 0..MaxIds, id : 0..MaxIds]
  /\ \A k \in job.left : dlq[k] # None
  /\ client \in [Clients -> {Idle} \cup [pc : {"post", "delete"}, read : [id : 0..MaxIds, active : BOOLEAN]]]
  /\ delivered \in [Events -> Nat] /\ expired \subseteq Events

Asked(e) == {k \in Tasks : task[k] # Idle /\ task[k].e = e}

\* The first registration stands, and no event came up before it.
Steady == config = [id |-> 1, active |-> TRUE] /\ \A k \in Tasks : ~At(k, "unsent")

\* With the webhook registered all along and nothing failing but the endpoint, an
\* event that came up has reached it, is on its way, or waits to be sent again; the
\* exceptions are a letter that reached its end and a date seal whose transfer is over.
NotLost ==
  faults = 0 /\ Steady =>
    \A e \in Events : Asked(e) # {} =>
      \/ delivered[e] > 0 \/ e \in expired
      \/ \E k \in Asked(e) : InFlight(k) \/ dlq[k] # None
      \/ e = "transfer.timestamp_submitted" /\ man.state # "live"

\* No letter is sent again that arrived: an event reaches the endpoint once for each
\* time it came up, and once more for each call that failed.
SentOnce == \A e \in Events : delivered[e] <= Cardinality(Asked(e)) + faults

\* A letter is tried every night of its life, whatever the others do.
TriedNightly ==
  faults = 0 /\ Steady =>
    \A k \in Tasks : dlq[k] # None =>
      dlq[k].tries + (IF JobAt("over") THEN 0 ELSE 1) >= day - dlq[k].since

\* Does not hold (README, 6.7): "Receipts (receipts.js) are signed with the same rfs_whsec_ string."
OneSecret ==
  /\ \A k \in Tasks : At(k, "post") /\ task[k].e \in Receipts => task[k].receipt = task[k].id
  /\ JobAt("post") /\ dlq[job.k].e \in Receipts => job.receipt = job.id
=============================================================================
