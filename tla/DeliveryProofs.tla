--------------------------- MODULE DeliveryProofs ---------------------------
(* Machine-checked facts about Delivery, for every number of tasks and of   *)
(* registration requests, every life of a letter and of a record, and any   *)
(* bound on registrations, days and faults.                                 *)
EXTENDS Delivery, FiniteSetTheorems, TLAPS

Accepted == "cargo.accepted"
Discharged == "cargo.discharged"
Confirmation == "transfer.confirmed"
DateSeal == "transfer.timestamp_submitted"

Letter(k) == dlq[k] # None
InHand == job.pc \in {"config", "post", "delete"}

\* What a task's label says of its event, and of the receipt it is about to write.
TaskOK(k) ==
  /\ At(k, "guard") \/ At(k, "guard_put") => task[k].e = Discharged
  /\ At(k, "config") \/ At(k, "receipt") => task[k].e \in Receipts
  /\ At(k, "receipt") => task[k].receipt >= 1

\* A letter is its task's last word, and it is no older than its life.
LetterOK(k) ==
  Letter(k) => /\ At(k, "done") /\ dlq[k].e = task[k].e
               /\ dlq[k].since <= day /\ day < dlq[k].since + Retention

\* The cron holds one letter of those it has still to go through.
JobOK ==
  /\ InHand => job.k \in job.left
  /\ job.pc \in {"due", "over"} => job.left = {}

\* Registrations are numbered from 1.
Numbered(c) == c.active => c.id >= 1
ConfigOK == Numbered(config) /\ \A c \in Clients : client[c] # Idle => Numbered(client[c].read)

\* TypeOK, with what places a letter, a task and the cron.
TypeInv == TypeOK /\ JobOK /\ ConfigOK /\ \A k \in Tasks : TaskOK(k) /\ LetterOK(k)

\* Nothing is read or posted before the first registration, and the record stays.
RegisterOK ==
  /\ config.id <= ids /\ (config.id = 0 => ids = 0)
  /\ \A c \in Clients : client[c] # Idle => client[c].read.id <= ids
  /\ \A k \in Tasks : At(k, "post") \/ At(k, "queue") \/ Letter(k) => ids >= 1

\* What became of the transfer bears out the events that came up.
StoryOK ==
  /\ man.since <= day
  /\ Asked(DateSeal) # {} => man.sealed
  /\ man.sealed => man.state # "uploading"
  /\ Asked(Confirmation) # {} => man.state \in {"consumed", "gone"}

\* An event is sent with its receipt kept, and the receipt outlives the letter.
KeptUntil(e, d) == receipt[e] # None /\ receipt[e].until >= d + Retention
ReceiptOK(k) ==
  /\ task[k].pc \in {"send", "post", "queue"} /\ task[k].e \in Receipts => KeptUntil(task[k].e, day)
  /\ Letter(k) /\ dlq[k].e \in Receipts => KeptUntil(dlq[k].e, dlq[k].since)

Base == TypeInv /\ RegisterOK /\ StoryOK /\ \A k \in Tasks : ReceiptOK(k)

\* The tasks of e that will not send again: neither running nor with a letter that is kept.
Deleting(k) == JobAt("delete") /\ job.k = k
Spent(e) == {k \in Asked(e) : ~InFlight(k) /\ (~Letter(k) \/ Deleting(k))}

\* Each arrival ended a task or cost a fault.
Counted == \A e \in Events : IsFiniteSet(Asked(e)) /\ delivered[e] <= Cardinality(Spent(e)) + faults

\* A letter has been tried each night but tonight, and tonight it is on the list.
TonightStill(k) == IF JobAt("due") \/ k \in job.left THEN 1 ELSE 0
Tried == faults = 0 => \A k \in Tasks : Letter(k) => dlq[k].tries + TonightStill(k) >= day - dlq[k].since

\* The first registration stands or is to come, and nothing failed but the endpoint.
First == [id |-> 1, active |-> TRUE]
Good == faults = 0 /\ config \in {NoConfig, First} /\ \A k \in Tasks : ~At(k, "unsent")

Settled(e) == delivered[e] > 0 \/ e \in expired \/ (e = DateSeal /\ man.state \in {"consumed", "gone"})
Sending(k) == Letter(k) \/ task[k].pc \in {"config", "receipt", "send", "post", "queue"}
Carried(e) == Settled(e) \/ \E k \in Asked(e) : Sending(k)
OnTime(k) == (Letter(k) /\ dlq[k].since = man.since) \/ (Sending(k) /\ ~Letter(k) /\ day = man.since)

\* An event is carried to its end, the discharge by the task that took the guard; a letter
\* is taken away after it arrived; and the confirmation is settled before its record goes.
Safe ==
  Good =>
    /\ \A e \in Events : Asked(e) # {} => Carried(e) \/ e = Discharged
    /\ guard => Carried(Discharged)
    /\ Asked(Discharged) # {} => Carried(Discharged) \/ \E k \in Tasks : At(k, "guard") \/ At(k, "guard_put")
    /\ JobAt("delete") => Settled(dlq[job.k].e)
    /\ man.state = "consumed" /\ Asked(Confirmation) # {}
         => Settled(Confirmation) \/ \E k \in Asked(Confirmation) : OnTime(k)
    /\ man.state = "gone" /\ Asked(Confirmation) # {} => Settled(Confirmation)

-----------------------------------------------------------------------------
(* Types                                                                    *)

Task == [pc : Steps, e : Events, id : 0..MaxIds, receipt : 0..MaxIds]
DeadLetters == [id : {1}, e : Events, since : 0..MaxDays, tries : Nat]
Kept == [id : 1..MaxIds, until : Nat]
Sweep == [pc : {"due", "next", "config", "post", "delete", "over"}, left : SUBSET Tasks,
          k : Tasks \cup {0}, receipt : 0..MaxIds, id : 0..MaxIds]
Config == [id : 0..MaxIds, active : BOOLEAN]
Request == [pc : {"post", "delete"}, read : Config]

LEMMA InitTypes == Init => TypeInv
  <1> SUFFICES ASSUME Init PROVE TypeInv OBVIOUS
  <1>1. man \in [state : {"uploading", "live", "consumed", "gone"}, sealed : BOOLEAN, since : 0..MaxDays]
    BY DeliveryAssumption DEF Init
  <1>2. config \in Config /\ job \in Sweep BY DeliveryAssumption DEF Init, NoConfig, Due, Config, Sweep
  <1>3. job.left = {} /\ job.pc = "due" BY DEF Init, Due
  <1>4. TypeOK
    <2>1. day \in 0..MaxDays /\ faults \in 0..MaxFaults /\ ids \in 0..MaxIds BY DeliveryAssumption DEF Init
    <2>3. guard \in BOOLEAN /\ expired \subseteq Events BY DEF Init
    <2>4. delivered \in [Events -> Nat] BY DEF Init
    <2>2. /\ receipt \in [Receipts -> {None}] /\ dlq \in [Tasks -> {None}]
          /\ task \in [Tasks -> {Idle}] /\ client \in [Clients -> {Idle}]
      BY DEF Init
    <2> QED BY <1>1, <1>2, <1>3, <2>1, <2>2, <2>3, <2>4 DEF TypeOK, Config, Sweep
  <1>5. JobOK BY <1>3 DEF JobOK, InHand
  <1>6. \A k \in Tasks : TaskOK(k) /\ LetterOK(k) BY DEF Init, TaskOK, LetterOK, At, Letter, Idle
  <1>7. ConfigOK BY DEF Init, ConfigOK, Numbered, NoConfig, Idle
  <1> QED BY <1>4, <1>5, <1>6, <1>7 DEF TypeInv

LEMMA EventTypes ==
  ASSUME TypeInv, NEW k \in Tasks, Event(k)
  PROVE  TypeInv'
  <1> PICK e \in Events, pc \in {"config", "send", "guard"} :
        Begin(k, e, pc) /\ (pc = "config" => e \in Receipts) /\ (pc = "guard" => e = Discharged)
    BY DEF Event, Accept, Seal, Discharge, Confirm, Events, Receipts, Discharged
  <1>1. ~Letter(k) BY DEF TypeInv, LetterOK, Begin, At, Idle
  <1>2. UNCHANGED <<day, kv, job, client, history, faults>>
    BY DEF Event, Accept, Seal, Discharge, Confirm, kv, history
  <1>3. man' \in [state : {"uploading", "live", "consumed", "gone"}, sealed : BOOLEAN, since : 0..MaxDays]
    BY DEF Event, Accept, Seal, Discharge, Confirm, TypeInv, TypeOK
  <1>4. task' \in [Tasks -> {Idle} \cup Task]
    <2>1. [pc |-> pc, e |-> e, id |-> 0, receipt |-> 0] \in Task BY DeliveryAssumption DEF Task, Steps
    <2> QED BY <2>1 DEF Begin, TypeInv, TypeOK, Task
  <1>5. TypeOK' BY <1>2, <1>3, <1>4 DEF TypeInv, TypeOK, Task, kv, history
  <1>6. JobOK' BY <1>2 DEF TypeInv, JobOK, InHand, JobAt
  <1>7. ASSUME NEW x \in Tasks PROVE TaskOK(x)' /\ LetterOK(x)'
    <2>1. CASE x = k BY <2>1, <1>1, <1>2 DEF TypeInv, TypeOK, TaskOK, LetterOK, At, Letter, Begin, kv
    <2>2. CASE x # k BY <2>2, <1>2 DEF TypeInv, TypeOK, TaskOK, LetterOK, At, Letter, Begin, kv
    <2> QED BY <2>1, <2>2
  <1>8. ConfigOK' BY <1>2 DEF TypeInv, ConfigOK, Numbered, kv
  <1> QED BY <1>5, <1>6, <1>7, <1>8 DEF TypeInv

\* A step of a task goes on to a label, with what it read, and may put something in KV.
LEMMA WorkMoves ==
  ASSUME TypeInv, NEW k \in Tasks, Work(k)
  PROVE  /\ task[k] \in Task /\ InFlight(k) /\ ~Letter(k)
         /\ UNCHANGED <<day, man, config, ids, job, client, expired>>
         /\ ~DeadLetter(k) => UNCHANGED dlq
         /\ \E t \in Task : /\ task' = [task EXCEPT ![k] = t] /\ t.e = task[k].e
                            /\ t.pc \in {"guard", "guard_put"} => t.e = Discharged
                            /\ t.pc \in {"config", "receipt"} => t.e \in Receipts
                            /\ t.pc = "receipt" => t.receipt >= 1
  <1>1. InFlight(k)
    BY DEF Work, ReadGuard, PutGuard, ReadConfig, PutReceipt, Send, Post, PostFails, PostUnanswered, DeadLetter,
           TaskFails, At, InFlight
  <1>2. task[k] \in Task BY <1>1 DEF InFlight, TypeInv, TypeOK, Task, Idle
  <1>3. ~Letter(k) BY <1>1 DEF InFlight, TypeInv, LetterOK, At
  <1>4. UNCHANGED <<day, man, config, ids, job, client, expired>>
    BY DEF Work, ReadGuard, PutGuard, ReadConfig, PutReceipt, Send, Post, PostFails, PostUnanswered, DeadLetter,
           TaskFails, kv, history
  <1>5. ~DeadLetter(k) => UNCHANGED dlq
    BY DEF Work, ReadGuard, PutGuard, ReadConfig, PutReceipt, Send, Post, PostFails, PostUnanswered,
           TaskFails, kv, history
  <1> DEFINE Typed(t) == /\ t \in Task /\ task' = [task EXCEPT ![k] = t] /\ t.e = task[k].e
                         /\ t.pc \in {"guard", "guard_put"} => t.e = Discharged
                         /\ t.pc \in {"config", "receipt"} => t.e \in Receipts
                         /\ t.pc = "receipt" => t.receipt >= 1
  <1>6. \E t : Typed(t)
    <2> USE <1>2 DEF Task, Steps
    <2>1. ASSUME NEW l \in {"send", "queue", "done", "unsent"}, Goto(k, l) PROVE Typed([task[k] EXCEPT !.pc = l])
      BY <2>1 DEF Goto, TypeInv, TypeOK
    <2>2. CASE ReadGuard(k)
      <3>1. CASE guard BY <3>1, <2>2, <2>1 DEF ReadGuard, End
      <3>2. CASE ~guard
        <4>1. task[k].e = Discharged BY <2>2 DEF ReadGuard, TypeInv, TaskOK
        <4>2. Typed([task[k] EXCEPT !.pc = "guard_put"]) BY <4>1, <3>2, <2>2 DEF ReadGuard, Goto, TypeInv, TypeOK
        <4> QED BY <4>2
      <3> QED BY <3>1, <3>2
    <2>3. CASE PutGuard(k)
      <3>1. task[k].e \in Receipts BY <2>3 DEF PutGuard, TypeInv, TaskOK, Receipts, Discharged
      <3>2. Typed([task[k] EXCEPT !.pc = "config"]) BY <3>1, <2>3 DEF PutGuard, Goto, TypeInv, TypeOK
      <3> QED BY <3>2
    <2>4. CASE ReadConfig(k)
      <3>1. CASE config.active
        <4> DEFINE t == [task[k] EXCEPT !.pc = "receipt", !.receipt = config.id]
        <4>1. task[k].e \in Receipts BY <2>4 DEF ReadConfig, TypeInv, TaskOK
        <4>2. config.id \in 0..MaxIds /\ config.id >= 1 BY <3>1 DEF TypeInv, TypeOK, ConfigOK, Numbered
        <4>3. task' = [task EXCEPT ![k] = t] BY <3>1, <2>4 DEF ReadConfig, TypeInv, TypeOK
        <4>4. t \in Task /\ t.e = task[k].e /\ t.pc = "receipt" /\ t.receipt = config.id BY <4>2
        <4> QED BY <4>1, <4>2, <4>3, <4>4
      <3>2. CASE ~config.active BY <3>2, <2>4, <2>1 DEF ReadConfig
      <3> QED BY <3>1, <3>2
    <2>5. CASE Send(k)
      <3>1. CASE Deliverable
        <4> DEFINE t == [task[k] EXCEPT !.pc = "post", !.id = config.id]
        <4>1. task' = [task EXCEPT ![k] = t] BY <3>1, <2>5 DEF Send, TypeInv, TypeOK
        <4>2. t \in Task /\ t.e = task[k].e /\ t.pc = "post" BY DEF TypeInv, TypeOK
        <4> QED BY <4>1, <4>2
      <3>2. CASE ~Deliverable BY <3>2, <2>5, <2>1 DEF Send
      <3> QED BY <3>1, <3>2
    <2>6. CASE PutReceipt(k) BY <2>6, <2>1 DEF PutReceipt
    <2>7. CASE Post(k) \/ DeadLetter(k) \/ TaskFails(k) BY <2>7, <2>1 DEF Post, DeadLetter, TaskFails, End
    <2>8. CASE PostFails(k) \/ PostUnanswered(k) BY <2>8, <2>1 DEF PostFails, PostUnanswered
    <2> QED BY <2>2, <2>3, <2>4, <2>5, <2>6, <2>7, <2>8 DEF Work
  <1> QED BY <1>1, <1>2, <1>3, <1>4, <1>5, <1>6

LEMMA WorkTypes ==
  ASSUME TypeInv, NEW k \in Tasks, Work(k)
  PROVE  TypeInv'
  <1> USE DeliveryAssumption
  <1>1. /\ task[k] \in Task /\ InFlight(k) /\ ~Letter(k)
        /\ UNCHANGED <<day, man, config, ids, job, client, expired>> /\ (~DeadLetter(k) => UNCHANGED dlq)
    BY WorkMoves
  <1>2. PICK t \in Task : /\ task' = [task EXCEPT ![k] = t] /\ t.e = task[k].e
                          /\ t.pc \in {"guard", "guard_put"} => t.e = Discharged
                          /\ t.pc \in {"config", "receipt"} => t.e \in Receipts
                          /\ t.pc = "receipt" => t.receipt >= 1
    BY WorkMoves
  <1>3. task' \in [Tasks -> {Idle} \cup Task] BY <1>2 DEF TypeInv, TypeOK, Task
  <1>4. JobOK' /\ ConfigOK' BY <1>1 DEF TypeInv, JobOK, InHand, JobAt, ConfigOK, Numbered
  <1>5. faults' \in 0..MaxFaults /\ guard' \in BOOLEAN /\ delivered' \in [Events -> Nat]
    <2>1. UNCHANGED faults \/ Fail
      BY DEF Work, ReadGuard, PutGuard, ReadConfig, PutReceipt, Send, Post, PostFails, PostUnanswered, DeadLetter, TaskFails
    <2>2. UNCHANGED guard \/ guard' = TRUE
      BY DEF Work, ReadGuard, PutGuard, ReadConfig, PutReceipt, Send, Post, PostFails, PostUnanswered, DeadLetter,
             TaskFails, kv
    <2>3. UNCHANGED delivered \/ Reached(task[k].e)
      BY DEF Work, ReadGuard, PutGuard, ReadConfig, PutReceipt, Send, Post, PostFails, PostUnanswered, DeadLetter,
             TaskFails, history
    <2>4. faults' \in 0..MaxFaults BY <2>1 DEF Fail, TypeInv, TypeOK
    <2>5. guard' \in BOOLEAN BY <2>2 DEF TypeInv, TypeOK
    <2>6. delivered' \in [Events -> Nat] BY <2>3, <1>1 DEF Reached, TypeInv, TypeOK, Task
    <2> QED BY <2>4, <2>5, <2>6
  <1>6. receipt' \in [Receipts -> {None} \cup Kept]
    <2>1. CASE PutReceipt(k)
      <3>1. [id |-> task[k].receipt, until |-> day + Retention] \in Kept
        BY <1>1, <2>1 DEF PutReceipt, TypeInv, TypeOK, TaskOK, At, Task, Kept
      <3> QED BY <3>1, <2>1 DEF PutReceipt, TypeInv, TypeOK, Kept
    <2>2. CASE ~PutReceipt(k)
      BY <2>2 DEF Work, ReadGuard, PutGuard, ReadConfig, Send, Post, PostFails, PostUnanswered, DeadLetter,
                  TaskFails, TypeInv, TypeOK, Kept, kv
    <2> QED BY <2>1, <2>2
  <1>7. /\ dlq' \in [Tasks -> {None} \cup DeadLetters]
        /\ \A x \in Tasks : x # k => dlq'[x] = dlq[x]
        /\ dlq'[k] # None => t.pc = "done" /\ dlq'[k].e = t.e /\ dlq'[k].since = day
    <2>1. CASE DeadLetter(k)
      <3> DEFINE d == [id |-> 1, e |-> task[k].e, since |-> day, tries |-> 0]
      <3>1. d \in DeadLetters BY <1>1 DEF TypeInv, TypeOK, Task, DeadLetters
      <3>2. dlq' = [dlq EXCEPT ![k] = d] /\ task'[k].pc = "done"
        BY <2>1 DEF DeadLetter, End, Goto, TypeInv, TypeOK
      <3>3. t.pc = "done" BY <3>2, <1>2 DEF TypeInv, TypeOK
      <3> QED BY <3>1, <3>2, <3>3, <1>2 DEF TypeInv, TypeOK, DeadLetters
    <2>2. CASE ~DeadLetter(k) BY <2>2, <1>1 DEF Letter, TypeInv, TypeOK, DeadLetters
    <2> QED BY <2>1, <2>2
  <1>8. \A x \in Tasks : TaskOK(x)' /\ LetterOK(x)'
    <2>1. ASSUME NEW x \in Tasks PROVE TaskOK(x)'
      BY <1>2 DEF TypeInv, TypeOK, TaskOK, At
    <2>2. ASSUME NEW x \in Tasks PROVE LetterOK(x)'
      <3>1. CASE x = k BY <3>1, <1>1, <1>2, <1>7 DEF TypeInv, TypeOK, LetterOK, At, Letter
      <3>2. CASE x # k BY <3>2, <1>1, <1>2, <1>7 DEF TypeInv, TypeOK, LetterOK, At, Letter
      <3> QED BY <3>1, <3>2
    <2> QED BY <2>1, <2>2
  <1>9. TypeOK'
    <2>1. \A x \in job.left : dlq'[x] # None BY <1>1, <1>7 DEF TypeInv, TypeOK, Letter
    <2> QED BY <1>1, <1>3, <1>5, <1>6, <1>7, <2>1 DEF TypeInv, TypeOK, Task, Kept, DeadLetters
  <1> QED BY <1>4, <1>8, <1>9 DEF TypeInv

\* The cron gives a letter up, tries it in vain, or goes on with it.
LEMMA CronMoves ==
  ASSUME TypeInv, Cron
  PROVE  /\ UNCHANGED <<day, man, config, ids, receipt, guard, task, client, expired>>
         /\ InHand => job.k \in Tasks /\ Letter(job.k) /\ dlq[job.k] \in DeadLetters
         /\ JobOK'
         /\ job' \in Sweep
         /\ \/ UNCHANGED dlq /\ (List \/ job'.left \subseteq job.left)
            \/ /\ JobAt("post") /\ dlq' = [dlq EXCEPT ![job.k].tries = @ + 1]
               /\ job'.left = job.left \ {job.k} /\ job'.pc = "next"
            \/ /\ Delete /\ dlq' = [dlq EXCEPT ![job.k] = None]
               /\ job'.left = job.left \ {job.k} /\ job'.pc = "next"
         /\ UNCHANGED faults \/ Fail
         /\ UNCHANGED delivered \/ (JobAt("post") /\ Reached(dlq[job.k].e))
  <1> USE DeliveryAssumption
  <1>1. job \in Sweep BY DEF TypeInv, TypeOK, Sweep
  <1>2. UNCHANGED <<day, man, config, ids, receipt, guard, task, client, expired>>
    BY DEF Cron, List, Read, ReadFails, JobConfig, JobConfigFails, JobPost, JobPostFails, JobPostUnanswered, Delete,
           DeleteFails, JobEnds, JobCrash, kv, history
  <1>3. InHand => job.k \in Tasks /\ Letter(job.k) /\ dlq[job.k] \in DeadLetters
    BY <1>1 DEF TypeInv, TypeOK, JobOK, Letter, DeadLetters, Sweep
  <1>4. UNCHANGED faults \/ Fail
    BY DEF Cron, List, Read, ReadFails, JobConfig, JobConfigFails, JobPost, JobPostFails, JobPostUnanswered, Delete,
           DeleteFails, JobEnds, JobCrash
  <1>5. UNCHANGED delivered \/ (JobAt("post") /\ Reached(dlq[job.k].e))
    BY DEF Cron, List, Read, ReadFails, JobConfig, JobConfigFails, JobPost, JobPostFails, JobPostUnanswered, Delete,
           DeleteFails, JobEnds, JobCrash, history
  <1> DEFINE Stay == UNCHANGED dlq /\ (List \/ job'.left \subseteq job.left)
             Tries == /\ JobAt("post") /\ dlq' = [dlq EXCEPT ![job.k].tries = @ + 1]
                      /\ job'.left = job.left \ {job.k} /\ job'.pc = "next"
             Gone == /\ Delete /\ dlq' = [dlq EXCEPT ![job.k] = None]
                     /\ job'.left = job.left \ {job.k} /\ job'.pc = "next"
             Goal == JobOK' /\ job' \in Sweep /\ (Stay \/ Tries \/ Gone)
  <1>6. Goal
    <2>1. ASSUME NEW k \in job.left, NextLetter(k)
          PROVE  JobOK' /\ job' \in Sweep /\ job'.left = job.left \ {k} /\ job'.pc = "next"
      <3>1. job' = [pc |-> "next", left |-> job.left \ {k}, k |-> 0, receipt |-> 0, id |-> 0]
        BY <2>1 DEF NextLetter, Due
      <3>2. job.left \in SUBSET Tasks BY <1>1 DEF Sweep
      <3> QED BY <3>1, <3>2 DEF Sweep, JobOK, InHand
    <2>2. ASSUME NEW l \in {"post", "delete"}, JobGoto(l), InHand
          PROVE  JobOK' /\ job' \in Sweep /\ job'.left = job.left
      BY <2>2, <1>1 DEF JobGoto, Sweep, JobOK, InHand, TypeInv
    <2>3. CASE List
      <3>1. job' = [pc |-> "next", left |-> {k \in Tasks : dlq[k] # None}, k |-> 0, receipt |-> 0, id |-> 0]
        BY <2>3 DEF List, Due
      <3>2. job' \in Sweep BY <3>1 DEF Sweep
      <3> QED BY <3>1, <3>2, <2>3 DEF List, JobOK, InHand, kv
    <2>4. CASE JobEnds
      BY <2>4, <1>1 DEF JobEnds, JobAt, JobGoto, Sweep, JobOK, InHand, kv
    <2>5. CASE Read
      <3>1. PICK k \in job.left :
              job' = [job EXCEPT !.pc = IF Confirmed(dlq[k].e) THEN "config" ELSE "delete", !.k = k,
                                 !.receipt = IF dlq[k].e \in Receipts THEN receipt[dlq[k].e].id ELSE 0]
        BY <2>5 DEF Read
      <3>2. k \in Tasks /\ dlq[k] \in DeadLetters
        BY <1>1 DEF TypeInv, TypeOK, DeadLetters, Sweep
      <3>3. (IF dlq[k].e \in Receipts THEN receipt[dlq[k].e].id ELSE 0) \in 0..MaxIds
        <4>1. \A e \in Receipts : receipt[e].id \in 0..MaxIds BY DEF TypeInv, TypeOK, None
        <4> QED BY <4>1
      <3>4. job' \in Sweep /\ job'.left = job.left /\ job'.k = k /\ job'.pc \in {"config", "delete"}
        BY <3>1, <3>2, <3>3, <1>1 DEF Sweep
      <3> QED BY <3>4, <2>5 DEF Read, JobOK, InHand, kv
    <2>6. CASE ReadFails BY <2>6, <2>1, <1>1 DEF ReadFails, kv
    <2>7. CASE JobConfig
      <3>1. InHand BY <2>7 DEF JobConfig, JobAt, InHand
      <3>2. CASE Deliverable
        <4>1. config.id \in 0..MaxIds BY DEF TypeInv, TypeOK
        <4>2. job' = [job EXCEPT !.pc = "post", !.id = config.id] BY <3>2, <2>7 DEF JobConfig
        <4>3. job' \in Sweep /\ job'.left = job.left /\ job'.k = job.k /\ job'.pc = "post"
          BY <4>1, <4>2, <1>1 DEF Sweep
        <4> QED BY <4>3, <3>1, <2>7 DEF JobConfig, JobOK, InHand, TypeInv, kv
      <3>3. CASE ~Deliverable BY <3>1, <3>3, <2>7, <2>2 DEF JobConfig, kv
      <3> QED BY <3>2, <3>3
    <2>8. CASE JobConfigFails BY <2>8, <2>2 DEF JobConfigFails, JobAt, InHand, kv
    <2>9. CASE JobPost BY <2>9, <2>2 DEF JobPost, JobAt, InHand, kv
    <2>10. CASE JobPostFails \/ JobPostUnanswered
      BY <2>10, <2>1 DEF JobPostFails, JobPostUnanswered, JobAt, InHand, TypeInv, JobOK
    <2>11. CASE Delete BY <2>11, <2>1 DEF Delete, JobAt, InHand, TypeInv, JobOK
    <2>12. CASE DeleteFails BY <2>12, <2>1 DEF DeleteFails, JobAt, InHand, TypeInv, JobOK, kv
    <2>13. CASE JobCrash BY <2>13 DEF JobCrash, Due, Sweep, JobOK, InHand, kv
    <2> QED BY <2>3, <2>4, <2>5, <2>6, <2>7, <2>8, <2>9, <2>10, <2>11, <2>12, <2>13 DEF Cron
  <1> QED BY <1>2, <1>3, <1>4, <1>5, <1>6

LEMMA CronTypes ==
  ASSUME TypeInv, Cron
  PROVE  TypeInv'
  <1> USE DeliveryAssumption
  <1>1. /\ UNCHANGED <<day, man, config, ids, receipt, guard, task, client, expired>>
        /\ InHand => job.k \in Tasks /\ Letter(job.k) /\ dlq[job.k] \in DeadLetters
        /\ JobOK' /\ job' \in Sweep
        /\ UNCHANGED faults \/ Fail
        /\ UNCHANGED delivered \/ (JobAt("post") /\ Reached(dlq[job.k].e))
    BY CronMoves
  <1>2. \/ UNCHANGED dlq /\ (List \/ job'.left \subseteq job.left)
        \/ /\ JobAt("post") /\ dlq' = [dlq EXCEPT ![job.k].tries = @ + 1]
           /\ job'.left = job.left \ {job.k} /\ job'.pc = "next"
        \/ /\ Delete /\ dlq' = [dlq EXCEPT ![job.k] = None]
           /\ job'.left = job.left \ {job.k} /\ job'.pc = "next"
    BY CronMoves
  <1>3. ASSUME NEW x \in Tasks
        PROVE  /\ dlq'[x] \in {None} \cup DeadLetters
               /\ dlq'[x] # None => dlq[x] # None /\ dlq'[x].e = dlq[x].e /\ dlq'[x].since = dlq[x].since
               /\ x \in job.left /\ x \in job'.left => dlq'[x] # None
    <2>1. dlq[x] \in {None} \cup DeadLetters BY DEF TypeInv, TypeOK, DeadLetters
    <2>2. x \in job.left => dlq[x] # None BY DEF TypeInv, TypeOK
    <2>3. CASE UNCHANGED dlq BY <2>1, <2>2, <2>3
    <2>4. CASE JobAt("post") /\ dlq' = [dlq EXCEPT ![job.k].tries = @ + 1] /\ job'.left = job.left \ {job.k}
      <3>1. job.k \in Tasks /\ dlq[job.k] \in DeadLetters BY <2>4, <1>1 DEF JobAt, InHand
      <3>2. dlq'[job.k] = [dlq[job.k] EXCEPT !.tries = @ + 1] BY <2>4, <3>1 DEF TypeInv, TypeOK
      <3>3. dlq'[job.k] \in DeadLetters /\ dlq'[job.k].e = dlq[job.k].e /\ dlq'[job.k].since = dlq[job.k].since
        BY <3>1, <3>2 DEF DeadLetters
      <3>4. dlq'[job.k] # None /\ dlq[job.k] # None BY <3>1, <3>3 DEF DeadLetters, None
      <3>5. x # job.k => dlq'[x] = dlq[x] BY <2>4 DEF TypeInv, TypeOK
      <3> QED BY <2>1, <2>2, <3>1, <3>3, <3>4, <3>5
    <2>5. CASE Delete /\ dlq' = [dlq EXCEPT ![job.k] = None] /\ job'.left = job.left \ {job.k}
      BY <2>5, <2>1, <2>2 DEF TypeInv, TypeOK
    <2> QED BY <1>2, <2>3, <2>4, <2>5
  <1>4. dlq' \in [Tasks -> {None} \cup DeadLetters]
    <2>1. dlq' = [x \in Tasks |-> dlq'[x]] BY <1>2 DEF TypeInv, TypeOK
    <2> QED BY <2>1, <1>3
  <1>5. \A x \in job'.left : dlq'[x] # None
    <2>1. CASE List BY <2>1, <1>1 DEF List, Due, kv
    <2>2. CASE job'.left \subseteq job.left BY <2>2, <1>1, <1>3 DEF Sweep
    <2> QED BY <2>1, <2>2, <1>2
  <1>6. faults' \in 0..MaxFaults BY <1>1 DEF Fail, TypeInv, TypeOK
  <1>7. delivered' \in [Events -> Nat]
    BY <1>1 DEF JobAt, InHand, Reached, TypeInv, TypeOK, DeadLetters
  <1>8. TypeOK' BY <1>1, <1>4, <1>5, <1>6, <1>7 DEF TypeInv, TypeOK, Sweep, DeadLetters
  <1>9. \A x \in Tasks : TaskOK(x)' /\ LetterOK(x)'
    BY <1>1, <1>3 DEF TypeInv, TaskOK, LetterOK, At, Letter
  <1>10. ConfigOK' BY <1>1 DEF TypeInv, ConfigOK, Numbered
  <1> QED BY <1>1, <1>8, <1>9, <1>10 DEF TypeInv

\* A letter the cron leaves is the same letter; it takes no letter away but the one in hand.
LEMMA CronLetters ==
  ASSUME TypeInv, Cron, NEW x \in Tasks
  PROVE  /\ Letter(x)' => Letter(x) /\ dlq'[x].e = dlq[x].e /\ dlq'[x].since = dlq[x].since
         /\ Letter(x) => Letter(x)' \/ (Delete /\ x = job.k)
  <1>1. InHand => job.k \in Tasks /\ Letter(job.k) /\ dlq[job.k] \in DeadLetters BY CronMoves
  <1>2. \/ UNCHANGED dlq
        \/ JobAt("post") /\ dlq' = [dlq EXCEPT ![job.k].tries = @ + 1]
        \/ Delete /\ dlq' = [dlq EXCEPT ![job.k] = None]
    BY CronMoves
  <1>3. CASE UNCHANGED dlq BY <1>3 DEF Letter
  <1>4. CASE JobAt("post") /\ dlq' = [dlq EXCEPT ![job.k].tries = @ + 1]
    <2>1. job.k \in Tasks /\ dlq[job.k] \in DeadLetters BY <1>1, <1>4 DEF JobAt, InHand
    <2>2. dlq'[job.k] = [dlq[job.k] EXCEPT !.tries = @ + 1] BY <2>1, <1>4 DEF TypeInv, TypeOK
    <2>3. dlq'[job.k] \in DeadLetters /\ dlq'[job.k].e = dlq[job.k].e /\ dlq'[job.k].since = dlq[job.k].since
      BY <2>1, <2>2 DEF DeadLetters
    <2>4. \A d \in DeadLetters : d # None BY DEF DeadLetters, None
    <2>5. x # job.k => dlq'[x] = dlq[x] BY <1>4 DEF TypeInv, TypeOK
    <2> QED BY <2>1, <2>3, <2>4, <2>5 DEF Letter
  <1>5. CASE Delete /\ dlq' = [dlq EXCEPT ![job.k] = None]
    BY <1>5 DEF Letter, TypeInv, TypeOK
  <1> QED BY <1>2, <1>3, <1>4, <1>5

LEMMA TickTypes ==
  ASSUME TypeInv, Tick
  PROVE  TypeInv'
  <1> USE DeliveryAssumption
  <1>1. /\ day' = day + 1 /\ day' \in 0..MaxDays /\ job' = Due
        /\ UNCHANGED <<man, config, ids, guard, task, client, delivered, faults>>
    BY DEF Tick, TypeInv, TypeOK
  <1>2. \A x \in Tasks : dlq'[x] = IF Ended(x, day') THEN None ELSE dlq[x] BY DEF Tick
  <1>3. dlq' \in [Tasks -> {None} \cup DeadLetters]
    BY DEF Tick, TypeInv, TypeOK, DeadLetters
  <1>4. receipt' \in [Receipts -> {None} \cup Kept] BY DEF Tick, TypeInv, TypeOK, Kept
  <1>5. expired' \subseteq Events BY DEF Tick, Ended, TypeInv, TypeOK
  <1>6. JobOK' /\ job' \in Sweep /\ job'.left = {} BY <1>1 DEF JobOK, InHand, Due, Sweep
  <1>7. TypeOK' BY <1>1, <1>3, <1>4, <1>5, <1>6 DEF TypeInv, TypeOK, Sweep, DeadLetters, Kept
  <1>8. \A x \in Tasks : TaskOK(x)' BY <1>1 DEF TypeInv, TaskOK, At
  <1>9. ASSUME NEW x \in Tasks PROVE LetterOK(x)'
    <2>1. CASE Letter(x)'
      <3>1. dlq'[x] = dlq[x] /\ Letter(x) /\ ~(day' >= dlq[x].since + Retention)
        BY <2>1, <1>2 DEF Letter, Ended
      <3>2. dlq[x] \in DeadLetters BY <3>1 DEF Letter, TypeInv, TypeOK, DeadLetters
      <3>3. dlq[x].since \in Nat /\ dlq[x].since <= day BY <3>1, <3>2 DEF TypeInv, LetterOK, DeadLetters
      <3>4. day \in Nat BY DEF TypeInv, TypeOK
      <3>5. dlq[x].since <= day' /\ day' < dlq[x].since + Retention BY <3>1, <3>3, <3>4, <1>1
      <3> QED BY <3>1, <3>5, <1>1 DEF TypeInv, LetterOK, At, Letter
    <2>2. CASE ~Letter(x)' BY <2>2 DEF LetterOK, Letter
    <2> QED BY <2>1, <2>2
  <1>10. ConfigOK' BY <1>1 DEF TypeInv, ConfigOK, Numbered
  <1> QED BY <1>6, <1>7, <1>8, <1>9, <1>10 DEF TypeInv

Registering == \E c \in Clients : Ask(c, "post") \/ Ask(c, "delete") \/ Register(c) \/ Deregister(c)

LEMMA RequestTypes ==
  ASSUME TypeInv, Registering
  PROVE  TypeInv'
  <1> USE DeliveryAssumption
  <1> PICK c \in Clients : Ask(c, "post") \/ Ask(c, "delete") \/ Register(c) \/ Deregister(c) BY DEF Registering
  <1>1. UNCHANGED <<day, man, receipt, guard, dlq, task, job, delivered, expired, faults>>
    BY DEF Ask, Register, Deregister, kv, history
  <1>2. /\ ids' \in 0..MaxIds /\ config' \in Config /\ Numbered(config')
        /\ client' \in [Clients -> {Idle} \cup Request]
        /\ \A x \in Clients : client'[x] # Idle => Numbered(client'[x].read)
    <2> USE DEF Config, Request
    <2>1. config \in Config /\ Numbered(config) /\ ids \in 0..MaxIds BY DEF TypeInv, TypeOK, ConfigOK
    <2>2. client \in [Clients -> {Idle} \cup Request] /\ \A x \in Clients : client[x] # Idle => Numbered(client[x].read)
      BY DEF TypeInv, TypeOK, ConfigOK
    <2>3. ASSUME NEW pc \in {"post", "delete"}, Ask(c, pc)
          PROVE  /\ client' \in [Clients -> {Idle} \cup Request]
                 /\ \A x \in Clients : client'[x] # Idle => Numbered(client'[x].read)
      <3>1. [pc |-> pc, read |-> config] \in Request /\ [pc |-> pc, read |-> config].read = config BY <2>1
      <3> QED BY <3>1, <2>1, <2>2, <2>3 DEF Ask
    <2>4. CASE Ask(c, "post") \/ Ask(c, "delete") BY <2>1, <2>3, <2>4 DEF Ask, kv, Numbered
    <2>5. CASE Register(c)
      <3>1. ids' \in 0..MaxIds /\ config' \in Config /\ Numbered(config')
        <4>1. CASE client[c].read.active BY <4>1, <2>5, <2>1 DEF Register
        <4>2. CASE ~client[c].read.active
          <5>1. ids' \in 1..MaxIds /\ config' = [id |-> ids', active |-> TRUE] BY <4>2, <2>5, <2>1 DEF Register
          <5> QED BY <5>1 DEF Numbered
        <4> QED BY <4>1, <4>2
      <3> QED BY <3>1, <2>2, <2>5 DEF Register, Answer
    <2>6. CASE Deregister(c)
      <3>1. client[c] \in Request BY <2>2, <2>6 DEF Deregister, ClientAt, Idle
      <3>2. config' \in Config /\ Numbered(config')
        <4>1. CASE client[c].read = NoConfig BY <4>1, <2>1, <2>6 DEF Deregister
        <4>2. CASE client[c].read # NoConfig
          <5>1. config' = [client[c].read EXCEPT !.active = FALSE] BY <4>2, <2>6 DEF Deregister
          <5>2. config' \in Config /\ config'.active = FALSE BY <5>1, <3>1
          <5> QED BY <5>2 DEF Numbered
        <4> QED BY <4>1, <4>2
      <3> QED BY <3>2, <2>1, <2>2, <2>6 DEF Deregister, Answer
    <2> QED BY <2>4, <2>5, <2>6
  <1>3. TypeOK' BY <1>1, <1>2 DEF TypeInv, TypeOK, Config, Request
  <1>4. ConfigOK' BY <1>2 DEF ConfigOK
  <1>5. JobOK' /\ \A x \in Tasks : TaskOK(x)' /\ LetterOK(x)'
    BY <1>1 DEF TypeInv, JobOK, InHand, TaskOK, LetterOK, At, Letter
  <1> QED BY <1>3, <1>4, <1>5 DEF TypeInv

LEMMA TypeStep == ASSUME TypeInv, [Next]_vars PROVE TypeInv'
  <1>1. ASSUME NEW k \in Tasks, Event(k) \/ Work(k) PROVE TypeInv' BY <1>1, EventTypes, WorkTypes
  <1>2. CASE Cron BY <1>2, CronTypes
  <1>3. CASE Tick BY <1>3, TickTypes
  <1>4. CASE Destroy \/ Forget
    <2>1. man' \in [state : {"uploading", "live", "consumed", "gone"}, sealed : BOOLEAN, since : 0..MaxDays]
      BY <1>4 DEF Destroy, Forget, TypeInv, TypeOK
    <2>2. UNCHANGED <<day, kv, task, job, client, history, faults>> BY <1>4 DEF Destroy, Forget
    <2>3. TypeOK' BY <2>1, <2>2 DEF TypeInv, TypeOK, kv, history
    <2> QED BY <2>2, <2>3 DEF TypeInv, JobOK, InHand, ConfigOK, TaskOK, LetterOK, At, Letter, kv
  <1>5. CASE Registering BY <1>5, RequestTypes
  <1>6. CASE UNCHANGED vars
    BY <1>6 DEF vars, kv, history, TypeInv, TypeOK, JobOK, InHand, ConfigOK, TaskOK, LetterOK, At, Letter
  <1> QED BY <1>1, <1>2, <1>3, <1>4, <1>5, <1>6 DEF Next, Registering

\* Every variable has its type; a letter is gone through only while it is there.
THEOREM TypeCorrect == Spec => []TypeOK
  <1>1. Spec => []TypeInv BY InitTypes, TypeStep, PTL DEF Spec
  <1>2. TypeInv => TypeOK BY DEF TypeInv
  <1> QED BY <1>1, <1>2, PTL

-----------------------------------------------------------------------------
(* What bears out an event                                                  *)

\* An event that comes up is asked of one task; no other step changes what was asked.
LEMMA EventAsks ==
  ASSUME TypeInv, NEW k \in Tasks, Event(k)
  PROVE  /\ k \notin Asked(task'[k].e) /\ ~Letter(k) /\ ~InFlight(k) /\ task[k] = Idle
         /\ task'[k] \in Task /\ task'[k].pc \in {"config", "send", "guard"}
         /\ task'[k].e = Discharged => task'[k].pc = "guard"
         /\ task'[k].e \in Receipts => task'[k].pc # "send"
         /\ \A x \in Tasks : x # k => task'[x] = task[x]
         /\ \A e \in Events : Asked(e)' = IF e = task'[k].e THEN Asked(e) \cup {k} ELSE Asked(e)
         /\ UNCHANGED <<day, kv, job, client, history, faults>>
  <1> PICK e \in Events, pc \in {"config", "send", "guard"} :
        Begin(k, e, pc) /\ (e = Discharged => pc = "guard") /\ (e \in Receipts => pc # "send")
    BY DEF Event, Accept, Seal, Discharge, Confirm, Events, Receipts, Discharged
  <1>1. UNCHANGED <<day, kv, job, client, history, faults>>
    BY DEF Event, Accept, Seal, Discharge, Confirm
  <1>2. task[k] = Idle /\ ~Letter(k) /\ ~InFlight(k) BY DEF Begin, TypeInv, LetterOK, At, InFlight, Idle
  <1>3. task'[k] = [pc |-> pc, e |-> e, id |-> 0, receipt |-> 0] /\ \A x \in Tasks : x # k => task'[x] = task[x]
    BY DEF Begin, TypeInv, TypeOK
  <1>4. task'[k] \in Task /\ task'[k].e = e /\ task'[k].pc = pc BY <1>3, DeliveryAssumption DEF Task, Steps
  <1>5. task'[k] # Idle BY <1>4 DEF Task, Steps, Idle
  <1>6. \A f \in Events : Asked(f)' = IF f = task'[k].e THEN Asked(f) \cup {k} ELSE Asked(f)
    BY <1>2, <1>3, <1>4, <1>5 DEF Asked
  <1> QED BY <1>1, <1>2, <1>3, <1>4, <1>6 DEF Asked

LEMMA AskedStays ==
  ASSUME TypeInv, Next, \A k \in Tasks : ~Event(k)
  PROVE  \A e : Asked(e)' = Asked(e)
  <1>1. ASSUME NEW k \in Tasks, Work(k) PROVE \A e : Asked(e)' = Asked(e)
    <2>1. task[k] \in Task BY <1>1, WorkMoves
    <2>2. PICK t \in Task : task' = [task EXCEPT ![k] = t] /\ t.e = task[k].e BY <1>1, WorkMoves
    <2>3. t # Idle /\ task[k] # Idle BY <2>1, <2>2 DEF Task, Steps, Idle
    <2> QED BY <2>2, <2>3 DEF Asked, TypeInv, TypeOK
  <1>2. CASE Cron BY <1>2, CronMoves DEF Asked
  <1>3. CASE Tick \/ Destroy \/ Forget BY <1>3 DEF Tick, Destroy, Forget, Asked
  <1>4. CASE Registering BY <1>4 DEF Registering, Ask, Register, Deregister, Asked
  <1> QED BY <1>1, <1>2, <1>3, <1>4 DEF Next, Registering

\* How a task comes to send: with its receipt put, under a registration.
LEMMA WorkSends ==
  ASSUME TypeInv, NEW k \in Tasks, Work(k)
  PROVE  /\ task'[k].e = task[k].e /\ task[k].e \in Events /\ \A x \in Tasks : x # k => task'[x] = task[x] /\ dlq'[x] = dlq[x]
         /\ task'[k].pc \in {"send", "post", "queue"} => PutReceipt(k) \/ task[k].pc \in {"send", "post"}
         /\ task'[k].pc \in {"post", "queue"} => At(k, "post") \/ config.active
         /\ Letter(k)' => /\ At(k, "queue") /\ dlq'[k].since = day /\ dlq'[k].e = task[k].e
                          /\ dlq'[k].tries = 0 /\ At(k, "done")'
         /\ ~PutReceipt(k) => UNCHANGED receipt
  <1>1. /\ ~Letter(k) /\ task[k] \in Task /\ UNCHANGED <<day, man, config, ids, job, client, expired>>
        /\ ~DeadLetter(k) => UNCHANGED dlq
    BY WorkMoves
  <1>2. PICK t \in Task : task' = [task EXCEPT ![k] = t] /\ t.e = task[k].e BY WorkMoves
  <1>3. task'[k] = t /\ \A x \in Tasks : x # k => task'[x] = task[x] BY <1>2 DEF TypeInv, TypeOK
  <1>4. \A x \in Tasks : x # k => dlq'[x] = dlq[x] BY <1>1 DEF DeadLetter, TypeInv, TypeOK
  <1>5. Letter(k)' => /\ At(k, "queue") /\ dlq'[k].since = day /\ dlq'[k].e = task[k].e
                     /\ dlq'[k].tries = 0 /\ At(k, "done")'
    <2>1. CASE DeadLetter(k)
      <3>1. dlq'[k] = [id |-> 1, e |-> task[k].e, since |-> day, tries |-> 0]
        BY <2>1 DEF DeadLetter, TypeInv, TypeOK
      <3>2. task'[k].pc = "done" BY <2>1, <1>1 DEF DeadLetter, End, Goto, TypeInv, TypeOK, Task
      <3> QED BY <3>1, <3>2, <2>1 DEF DeadLetter, At
    <2>2. CASE ~DeadLetter(k) BY <2>2, <1>1 DEF Letter
    <2> QED BY <2>1, <2>2
  <1>6. ~PutReceipt(k) => UNCHANGED receipt
    BY DEF Work, ReadGuard, PutGuard, ReadConfig, Send, Post, PostFails, PostUnanswered, DeadLetter, TaskFails, kv
  <1>7. \A l : Goto(k, l) => task'[k].pc = l BY <1>1 DEF Goto, TypeInv, TypeOK, Task
  <1>8. /\ task'[k].pc \in {"send", "post", "queue"} => PutReceipt(k) \/ task[k].pc \in {"send", "post"}
        /\ task'[k].pc \in {"post", "queue"} => At(k, "post") \/ config.active
    <2>1. CASE ReadGuard(k) BY <2>1, <1>7 DEF ReadGuard, End
    <2>2. CASE PutGuard(k) BY <2>2, <1>7 DEF PutGuard
    <2>3. CASE ReadConfig(k)
      <3>1. CASE config.active
        <4>1. task'[k].pc = "receipt" BY <3>1, <2>3, <1>1 DEF ReadConfig, TypeInv, TypeOK, Task
        <4> QED BY <4>1
      <3>2. CASE ~config.active BY <3>2, <2>3, <1>7 DEF ReadConfig
      <3> QED BY <3>1, <3>2
    <2>4. CASE PutReceipt(k) BY <2>4, <1>7 DEF PutReceipt
    <2>5. CASE Send(k) BY <2>5, <1>7 DEF Send, Deliverable, At
    <2>6. CASE Post(k) \/ DeadLetter(k) \/ TaskFails(k) BY <2>6, <1>7 DEF Post, DeadLetter, TaskFails, End
    <2>7. CASE PostFails(k) \/ PostUnanswered(k) BY <2>7 DEF PostFails, PostUnanswered, At
    <2> QED BY <2>1, <2>2, <2>3, <2>4, <2>5, <2>6, <2>7 DEF Work
  <1> QED BY <1>1, <1>2, <1>3, <1>4, <1>5, <1>6, <1>8 DEF Task

\* The registration is put whole, from what was read.
LEMMA RegisterStep ==
  ASSUME TypeInv, RegisterOK, [Next]_vars
  PROVE  RegisterOK' /\ ids' >= ids /\ (config' = NoConfig => config = NoConfig)
         /\ (config' = First => config = First \/ config = NoConfig)
  <1> DEFINE Sends(x) == At(x, "post") \/ At(x, "queue") \/ Letter(x)
             Goal == RegisterOK' /\ ids' >= ids /\ (config' = NoConfig => config = NoConfig)
                     /\ (config' = First => config = First \/ config = NoConfig)
  <1>1. ids \in Nat /\ config \in Config /\ config.id \in Nat
    BY DeliveryAssumption DEF TypeInv, TypeOK, Config
  <1>2. config.active => ids >= 1 BY <1>1 DEF TypeInv, ConfigOK, Numbered, RegisterOK
  <1>3. ASSUME UNCHANGED <<config, ids, client>>, \A x \in Tasks : Sends(x)' => ids >= 1
        PROVE  Goal
    BY <1>3, <1>1 DEF RegisterOK
  <1>4. ASSUME NEW k \in Tasks, Event(k) PROVE Goal
    <2>1. UNCHANGED <<day, kv, job, client, history, faults>> /\ task'[k].pc \in {"config", "send", "guard"}
          /\ ~Letter(k) /\ \A x \in Tasks : x # k => task'[x] = task[x]
      BY <1>4, EventAsks
    <2> QED BY <2>1, <1>3 DEF kv, RegisterOK, At, Letter
  <1>5. ASSUME NEW k \in Tasks, Work(k) PROVE Goal
    <2>1. UNCHANGED <<config, ids, client>> BY <1>5, WorkMoves
    <2>2. /\ \A x \in Tasks : x # k => task'[x] = task[x] /\ dlq'[x] = dlq[x]
          /\ task'[k].pc \in {"post", "queue"} => At(k, "post") \/ config.active
          /\ Letter(k)' => At(k, "queue")
      BY <1>5, WorkSends
    <2>3. \A x \in Tasks : x # k => (Sends(x)' => ids >= 1) BY <2>2 DEF RegisterOK, At, Letter
    <2>4. Sends(k)' => ids >= 1 BY <2>2, <1>2 DEF RegisterOK, At
    <2> QED BY <2>1, <2>3, <2>4, <1>3
  <1>6. CASE Cron
    <2>1. UNCHANGED <<config, ids, client, task>> BY <1>6, CronMoves
    <2>2. \A x \in Tasks : Letter(x)' => Letter(x)
      <3>1. InHand => Letter(job.k) BY <1>6, CronMoves
      <3>2. UNCHANGED dlq \/ (JobAt("post") /\ dlq' = [dlq EXCEPT ![job.k].tries = @ + 1])
            \/ dlq' = [dlq EXCEPT ![job.k] = None]
        BY <1>6, CronMoves
      <3> QED BY <3>1, <3>2 DEF Letter, InHand, JobAt, TypeInv, TypeOK
    <2> QED BY <2>1, <2>2, <1>3 DEF RegisterOK, At
  <1>7. CASE Tick \/ Destroy \/ Forget
    <2>1. \A x \in Tasks : Letter(x)' => Letter(x) BY <1>7 DEF Tick, Destroy, Forget, Letter, kv
    <2>2. UNCHANGED <<config, ids, client, task>> BY <1>7 DEF Tick, Destroy, Forget, kv
    <2> QED BY <2>1, <2>2, <1>3 DEF RegisterOK, At
  <1>8. ASSUME NEW c \in Clients, Ask(c, "post") \/ Ask(c, "delete") PROVE Goal
    <2>1. UNCHANGED <<config, ids, task, dlq>> BY <1>8 DEF Ask, kv
    <2>2. \A x \in Clients : client'[x] # Idle => client'[x].read \in {config, client[x].read}
                                             /\ (client'[x].read # config => client[x] # Idle)
      BY <1>8 DEF Ask, TypeInv, TypeOK
    <2> QED BY <2>1, <2>2, <1>1 DEF RegisterOK, At, Letter
  <1>9. ASSUME NEW c \in Clients, Register(c) PROVE Goal
    <2>1. UNCHANGED <<task, dlq>> BY <1>9 DEF Register
    <2>2. \A x \in Clients : client'[x] # Idle => client'[x] = client[x] /\ client[x] # Idle
      BY <1>9 DEF Register, Answer, TypeInv, TypeOK
    <2>3. CASE client[c].read.active BY <2>1, <2>2, <2>3, <1>1, <1>9 DEF Register, RegisterOK, At, Letter
    <2>4. CASE ~client[c].read.active
      <3>1. ids' = ids + 1 /\ config' = [id |-> ids + 1, active |-> TRUE] BY <2>4, <1>9 DEF Register
      <3>2. config'.id = ids' /\ config' # NoConfig /\ ids' > 0 BY <3>1, <1>1 DEF NoConfig
      <3>3. config' = First => config = NoConfig
        <4>1. config' = First => ids = 0 BY <3>1, <1>1 DEF First
        <4>2. ids = 0 => config.id = 0 /\ config.active = FALSE BY <1>1, <1>2 DEF RegisterOK, Config
        <4>3. config.id = 0 /\ config.active = FALSE => config = NoConfig BY <1>1 DEF Config, NoConfig
        <4> QED BY <4>1, <4>2, <4>3
      <3>4. \A x \in Clients : client[x] # Idle => client[x].read.id <= ids + 1
        <4>1. \A x \in Clients : client[x] # Idle => client[x].read.id \in Nat
          BY DeliveryAssumption DEF TypeInv, TypeOK
        <4> QED BY <4>1, <1>1 DEF RegisterOK
      <3>5. RegisterOK' BY <2>1, <2>2, <3>1, <3>2, <3>4, <1>1 DEF RegisterOK
      <3> QED BY <3>1, <3>2, <3>3, <3>5, <1>1
    <2> QED BY <2>3, <2>4
  <1>10. ASSUME NEW c \in Clients, Deregister(c) PROVE Goal
    <2>1. UNCHANGED <<task, dlq, ids>> BY <1>10 DEF Deregister
    <2>2. \A x \in Clients : client'[x] # Idle => client'[x] = client[x] /\ client[x] # Idle
      BY <1>10 DEF Deregister, Answer, TypeInv, TypeOK
    <2>3. CASE client[c].read = NoConfig
      <3>1. UNCHANGED config BY <2>3, <1>10 DEF Deregister
      <3> QED BY <2>1, <2>2, <3>1, <1>1 DEF RegisterOK, At, Letter
    <2>4. CASE client[c].read # NoConfig
      <3>1. client[c] # Idle /\ client[c] \in Request BY <1>10 DEF Deregister, ClientAt, Idle, TypeInv, TypeOK, Request, Config
      <3> DEFINE r == client[c].read
      <3>2. r \in Config /\ r.id <= ids /\ (r.active => r.id >= 1)
        BY <3>1 DEF Request, RegisterOK, TypeInv, ConfigOK, Numbered
      <3>3. r.id = 0 => r.active = FALSE BY <3>2 DEF Config
      <3>4. r.id # 0
        <4>1. r.id = 0 => r = NoConfig BY <3>2, <3>3 DEF Config, NoConfig
        <4> QED BY <4>1, <2>4
      <3>5. config' = [r EXCEPT !.active = FALSE] BY <2>4, <1>10 DEF Deregister
      <3>6. config'.id = r.id /\ config'.active = FALSE BY <3>2, <3>5 DEF Config
      <3>7. config' # NoConfig /\ config' # First BY <3>4, <3>6 DEF NoConfig, First
      <3>8. RegisterOK' BY <2>1, <2>2, <3>2, <3>4, <3>6 DEF RegisterOK, At, Letter
      <3> QED BY <2>1, <3>7, <3>8, <1>1
    <2> QED BY <2>3, <2>4
  <1>11. CASE UNCHANGED vars BY <1>11, <1>1 DEF vars, kv, RegisterOK, At, Letter
  <1> QED BY <1>4, <1>5, <1>6, <1>7, <1>8, <1>9, <1>10, <1>11 DEF Next

LEMMA StoryStep ==
  ASSUME TypeInv, StoryOK, [Next]_vars
  PROVE  StoryOK'
  <1> USE DEF StoryOK
  <1>1. ASSUME NEW k \in Tasks, Event(k) PROVE StoryOK'
    <2>1. /\ \A e \in Events : Asked(e)' = IF e = task'[k].e THEN Asked(e) \cup {k} ELSE Asked(e)
          /\ UNCHANGED <<day, kv, job, client, history, faults>>
      BY <1>1, EventAsks
    <2>2. DateSeal \in Events /\ Confirmation \in Events BY DEF DateSeal, Confirmation, Events
    <2>3. \A e, pc : Begin(k, e, pc) => task'[k].e = e BY DEF Begin, TypeInv, TypeOK
    <2>4. man \in [state : {"uploading", "live", "consumed", "gone"}, sealed : BOOLEAN, since : 0..MaxDays] /\ day \in Nat
      BY DEF TypeInv, TypeOK
    <2>5. CASE Accept(k) \/ Discharge(k)
      <3>1. task'[k].e \notin {DateSeal, Confirmation}
        BY <2>3, <2>5 DEF Accept, Discharge, DateSeal, Confirmation
      <3> QED BY <2>1, <2>2, <2>4, <2>5, <3>1 DEF Accept, Discharge
    <2>6. CASE Seal(k)
      <3>1. task'[k].e = DateSeal BY <2>3, <2>6 DEF Seal, DateSeal
      <3>2. DateSeal # Confirmation BY DEF DateSeal, Confirmation
      <3> QED BY <2>1, <2>2, <2>4, <2>6, <3>1, <3>2 DEF Seal
    <2>7. CASE Confirm(k)
      <3>1. task'[k].e = Confirmation BY <2>3, <2>7 DEF Confirm, Confirmation
      <3>2. DateSeal # Confirmation BY DEF DateSeal, Confirmation
      <3>3. man'.state \in {"consumed", "gone"} /\ man'.sealed = man.sealed /\ man'.since \in {man.since, day}
        BY <2>4, <2>7 DEF Confirm
      <3>4. man'.since <= day' BY <2>1, <2>4, <3>3
      <3> QED BY <2>1, <2>2, <3>1, <3>2, <3>3, <3>4
    <2> QED BY <1>1, <2>5, <2>6, <2>7 DEF Event
  <1>2. ASSUME Next, \A k \in Tasks : ~Event(k) PROVE StoryOK'
    <2>1. \A e : Asked(e)' = Asked(e) BY <1>2, AskedStays
    <2>2. ASSUME UNCHANGED man, UNCHANGED day \/ day' = day + 1 PROVE StoryOK'
      BY <2>1, <2>2 DEF TypeInv, TypeOK
    <2>3. ASSUME NEW k \in Tasks, Work(k) PROVE StoryOK' BY <2>2, <2>3, WorkMoves
    <2>4. CASE Cron BY <2>2, <2>4, CronMoves
    <2>5. CASE Tick BY <2>2, <2>5 DEF Tick
    <2>6. CASE Destroy \/ Forget
      <3>1. /\ man'.state \in {"consumed", "gone"} /\ man'.sealed = man.sealed
            /\ man'.since \in {man.since, day} /\ UNCHANGED day /\ day \in Nat
        <4>1. man \in [state : {"uploading", "live", "consumed", "gone"}, sealed : BOOLEAN, since : 0..MaxDays] /\ day \in Nat
          BY DEF TypeInv, TypeOK
        <4>2. CASE Destroy BY <4>1, <4>2 DEF Destroy
        <4>3. CASE Forget BY <4>1, <4>3 DEF Forget
        <4> QED BY <2>6, <4>2, <4>3
      <3>2. man'.since <= day' BY <3>1
      <3> QED BY <2>1, <3>1, <3>2
    <2>7. CASE Registering BY <2>2, <2>7 DEF Registering, Ask, Register, Deregister
    <2> QED BY <1>2, <2>3, <2>4, <2>5, <2>6, <2>7 DEF Next, Registering
  <1>3. CASE UNCHANGED vars BY <1>3 DEF vars, kv, Asked
  <1> QED BY <1>1, <1>2, <1>3

LEMMA ReceiptStep ==
  ASSUME TypeInv, \A k \in Tasks : ReceiptOK(k), [Next]_vars
  PROVE  \A k \in Tasks : ReceiptOK(k)'
  <1> USE DEF KeptUntil
  <1>1. /\ day \in Nat /\ Retention \in Nat /\ Retention > 0
        /\ \A e \in Receipts : receipt[e] # None => receipt[e].until \in Nat
        /\ \A x \in Tasks : Letter(x) => dlq[x].since \in Nat /\ dlq[x].since <= day
    BY DeliveryAssumption DEF TypeInv, TypeOK, LetterOK, Letter
  <1>2. ASSUME NEW x \in Tasks, UNCHANGED <<day, receipt>>,
               task'[x] = task[x] \/ task'[x].pc \notin {"send", "post", "queue"} \/ task'[x].e \notin Receipts,
               Letter(x)' => Letter(x) /\ dlq'[x].e = dlq[x].e /\ dlq'[x].since = dlq[x].since
        PROVE  ReceiptOK(x)'
    BY <1>2 DEF ReceiptOK
  <1>3. ASSUME NEW k \in Tasks, Event(k), NEW x \in Tasks PROVE ReceiptOK(x)'
    <2>1. UNCHANGED <<day, kv, job, client, history, faults>> BY <1>3, EventAsks
    <2>2. x # k => task'[x] = task[x] BY <1>3, EventAsks
    <2>3. task'[k].pc \in {"send", "post", "queue"} => task'[k].e \notin Receipts BY <1>3, EventAsks
    <2> QED BY <2>1, <2>2, <2>3, <1>2 DEF kv, Letter
  <1>4. ASSUME NEW k \in Tasks, Work(k), NEW x \in Tasks PROVE ReceiptOK(x)'
    <2>1. UNCHANGED <<day, man, config, ids, job, client, expired>> /\ task[k] \in Task BY <1>4, WorkMoves
    <2>2. /\ task'[k].e = task[k].e /\ \A y \in Tasks : y # k => task'[y] = task[y] /\ dlq'[y] = dlq[y]
          /\ task'[k].pc \in {"send", "post", "queue"} => PutReceipt(k) \/ task[k].pc \in {"send", "post"}
          /\ Letter(k)' => /\ At(k, "queue") /\ dlq'[k].since = day /\ dlq'[k].e = task[k].e /\ At(k, "done")'
          /\ ~PutReceipt(k) => UNCHANGED receipt
      BY <1>4, WorkSends
    <2>3. CASE PutReceipt(k)
      <3> DEFINE e == task[k].e
      <3>1. e \in Receipts BY <2>3 DEF PutReceipt, TypeInv, TaskOK
      <3>2. /\ receipt'[e] = [id |-> task[k].receipt, until |-> day + Retention]
            /\ \A f \in Receipts : f # e => receipt'[f] = receipt[f]
        BY <2>3, <3>1 DEF PutReceipt, TypeInv, TypeOK
      <3>3. receipt'[e] # None /\ receipt'[e].until = day + Retention BY <3>2 DEF None
      <3>4. UNCHANGED dlq BY <2>3 DEF PutReceipt
      <3>5. \A f \in Receipts, d \in Nat : d <= day /\ KeptUntil(f, d) => KeptUntil(f, d)'
        BY <3>2, <3>3, <1>1
      <3>6. KeptUntil(e, day)' BY <3>3, <2>1, <2>2, <1>1
      <3>7. x # k => ReceiptOK(x)'
        BY <3>4, <3>5, <2>1, <2>2, <1>1 DEF ReceiptOK, Letter
      <3>8. x = k => ReceiptOK(x)'
        BY <3>4, <3>5, <3>6, <2>1, <2>2, <1>1 DEF ReceiptOK, Letter
      <3> QED BY <3>7, <3>8
    <2>4. CASE ~PutReceipt(k)
      <3>1. x # k => ReceiptOK(x)' BY <2>1, <2>2, <2>4 DEF ReceiptOK, Letter
      <3>2. x = k => ReceiptOK(x)' BY <2>1, <2>2, <2>4 DEF ReceiptOK, Letter, At
      <3> QED BY <3>1, <3>2
    <2> QED BY <2>3, <2>4
  <1>5. ASSUME Cron, NEW x \in Tasks PROVE ReceiptOK(x)' 
    <2>1. UNCHANGED <<day, receipt, task>> BY <1>5, CronMoves
    <2>2. Letter(x)' => Letter(x) /\ dlq'[x].e = dlq[x].e /\ dlq'[x].since = dlq[x].since BY <1>5, CronLetters
    <2> QED BY <2>1, <2>2, <1>2
  <1>6. ASSUME Tick, NEW x \in Tasks PROVE ReceiptOK(x)'
    <2>1. /\ day' = day + 1 /\ UNCHANGED task /\ ~InFlight(x)
          /\ dlq'[x] = IF Ended(x, day + 1) THEN None ELSE dlq[x]
          /\ \A e \in Receipts :
               receipt'[e] = IF receipt[e] # None /\ day + 1 >= receipt[e].until THEN None ELSE receipt[e]
      BY <1>6 DEF Tick
    <2>2. task'[x].pc \notin {"send", "post", "queue"} BY <2>1 DEF InFlight
    <2>3. ASSUME Letter(x)', dlq'[x].e \in Receipts PROVE KeptUntil(dlq[x].e, dlq[x].since)'
      <3>1. Letter(x) /\ dlq'[x] = dlq[x] /\ day + 1 < dlq[x].since + Retention
        BY <2>1, <2>3, <1>1 DEF Letter, Ended
      <3>2. receipt[dlq[x].e] # None /\ receipt[dlq[x].e].until >= dlq[x].since + Retention
        BY <3>1, <2>3 DEF ReceiptOK
      <3>3. receipt[dlq[x].e].until \in Nat /\ dlq[x].since \in Nat /\ dlq[x].e \in Receipts
        BY <3>1, <3>2, <2>3, <1>1
      <3>4. ~(day + 1 >= receipt[dlq[x].e].until) BY <3>1, <3>2, <3>3, <1>1
      <3>5. receipt'[dlq[x].e] = receipt[dlq[x].e] BY <3>3, <3>4, <2>1
      <3> QED BY <3>1, <3>2, <3>5
    <2> QED BY <2>2, <2>3 DEF ReceiptOK
  <1>7. ASSUME Destroy \/ Forget \/ Registering \/ UNCHANGED vars, NEW x \in Tasks PROVE ReceiptOK(x)'
    BY <1>7, <1>2 DEF Destroy, Forget, Registering, Ask, Register, Deregister, vars, kv, Letter
  <1> QED BY <1>3, <1>4, <1>5, <1>6, <1>7 DEF Next, Registering

LEMMA InitBase == Init => Base
  <1> SUFFICES ASSUME Init PROVE Base OBVIOUS
  <1>1. \A e : Asked(e) = {} BY DEF Init, Asked
  <1>2. \A k \in Tasks : task[k].pc = "idle" /\ ~Letter(k) BY DEF Init, Idle, Letter
  <1>3. RegisterOK BY <1>2 DEF Init, RegisterOK, NoConfig, At
  <1>4. StoryOK BY <1>1 DEF Init, StoryOK
  <1>5. \A k \in Tasks : ReceiptOK(k) BY <1>2 DEF ReceiptOK
  <1> QED BY <1>3, <1>4, <1>5, InitTypes DEF Base

LEMMA BaseStep == ASSUME Base, [Next]_vars PROVE Base'
  BY TypeStep, RegisterStep, StoryStep, ReceiptStep DEF Base

-----------------------------------------------------------------------------
(* Every letter is tried every night                                        *)

LEMMA TriedStep ==
  ASSUME TypeInv, Tried, [Next]_vars
  PROVE  Tried'
  <1>1. faults \in Nat /\ (faults' = faults \/ Fail) /\ (faults' = 0 => faults = 0)
    <2>1. faults \in Nat BY DeliveryAssumption DEF TypeInv, TypeOK
    <2>2. ASSUME NEW k \in Tasks, Event(k) PROVE faults' = faults BY <2>2, EventAsks
    <2>3. ASSUME NEW k \in Tasks, Work(k) PROVE faults' = faults \/ Fail
      BY <2>3 DEF Work, ReadGuard, PutGuard, ReadConfig, PutReceipt, Send, Post, PostFails, PostUnanswered, DeadLetter, TaskFails
    <2>4. Cron => faults' = faults \/ Fail BY CronMoves
    <2>5. Tick \/ Destroy \/ Forget \/ Registering \/ UNCHANGED vars => faults' = faults
      BY DEF Tick, Destroy, Forget, Registering, Ask, Register, Deregister, vars
    <2>6. faults' = faults \/ Fail BY <2>2, <2>3, <2>4, <2>5 DEF Next, Registering
    <2> QED BY <2>1, <2>6 DEF Fail
  <1> SUFFICES ASSUME faults' = 0, NEW x \in Tasks, Letter(x)'
               PROVE  (dlq[x].tries + TonightStill(x) >= day - dlq[x].since)'
    BY DEF Tried
  <1>2. faults = 0 /\ faults' = faults /\ ~Fail BY <1>1 DEF Fail
  <1>3. Letter(x) => dlq[x].tries + TonightStill(x) >= day - dlq[x].since BY <1>2 DEF Tried
  <1>4. /\ day \in Nat
        /\ Letter(x) => dlq[x].tries \in Nat /\ dlq[x].since \in Nat
    BY DeliveryAssumption DEF TypeInv, TypeOK, Letter
  <1>5. ASSUME UNCHANGED <<day, dlq, job>> PROVE (dlq[x].tries + TonightStill(x) >= day - dlq[x].since)'
    BY <1>3, <1>5 DEF Letter, TonightStill, JobAt
  <1>6. ASSUME NEW k \in Tasks, Event(k) PROVE UNCHANGED <<day, dlq, job>> BY <1>6, EventAsks DEF kv
  <1>7. ASSUME NEW k \in Tasks, Work(k) PROVE (dlq[x].tries + TonightStill(x) >= day - dlq[x].since)'
    <2>1. UNCHANGED <<day, job>> BY <1>7, WorkMoves
    <2>2. CASE x = k
      <3>1. dlq'[x].since = day /\ dlq'[x].tries = 0 BY <1>7, <2>2, WorkSends
      <3>2. TonightStill(x)' \in {0, 1} BY DEF TonightStill
      <3> QED BY <2>1, <3>1, <3>2, <1>4
    <2>3. CASE x # k
      <3>1. dlq'[x] = dlq[x] BY <1>7, <2>3, WorkSends
      <3> QED BY <2>1, <3>1, <1>3 DEF Letter, TonightStill, JobAt
    <2> QED BY <2>2, <2>3
  <1>8. CASE Cron
    <2>1. UNCHANGED day /\ Letter(x) /\ dlq'[x].since = dlq[x].since BY <1>8, CronMoves, CronLetters
    <2>2. CASE List
      <3>1. x \in job'.left /\ UNCHANGED dlq BY <2>1, <2>2 DEF List, Due, Letter, kv
      <3> QED BY <2>1, <3>1, <1>3, <1>4 DEF TonightStill
    <2>3. CASE JobEnds
      <3>1. TonightStill(x) = 0 BY <2>3 DEF JobEnds, JobAt, TonightStill
      <3>2. TonightStill(x)' \in {0, 1} /\ UNCHANGED dlq BY <2>3 DEF JobEnds, TonightStill, kv
      <3> QED BY <2>1, <3>1, <3>2, <1>3, <1>4
    <2>4. CASE Read \/ JobConfig \/ JobPost
      <3>1. UNCHANGED dlq /\ job'.left = job.left /\ ~JobAt("due")
        BY <2>4 DEF Read, JobConfig, JobPost, JobGoto, JobAt, kv, TypeInv, TypeOK
      <3>2. TonightStill(x)' >= TonightStill(x) /\ TonightStill(x) \in {0, 1} /\ TonightStill(x)' \in {0, 1}
        BY <3>1 DEF TonightStill
      <3> QED BY <2>1, <3>1, <3>2, <1>3, <1>4
    <2>5. CASE JobPostFails
      <3>1. InHand /\ ~JobAt("due") BY <2>5 DEF JobPostFails, JobAt, InHand
      <3>2. job.k \in Tasks /\ dlq[job.k] \in DeadLetters BY <1>8, <3>1, CronMoves
      <3>3. job'.left = job.left \ {job.k} BY <2>5 DEF JobPostFails, NextLetter, Due
      <3>4. CASE x = job.k
        <4>1. dlq'[x].tries = dlq[x].tries + 1
          BY <2>5, <3>2, <3>4 DEF JobPostFails, TypeInv, TypeOK, DeadLetters
        <4>2. TonightStill(x) \in {0, 1} /\ TonightStill(x)' \in {0, 1} BY DEF TonightStill
        <4> QED BY <2>1, <4>1, <4>2, <1>3, <1>4
      <3>5. CASE x # job.k
        <4>1. dlq'[x] = dlq[x] BY <2>5, <3>5 DEF JobPostFails, TypeInv, TypeOK
        <4>2. TonightStill(x)' >= TonightStill(x) /\ TonightStill(x) \in {0, 1} /\ TonightStill(x)' \in {0, 1}
          BY <3>1, <3>3, <3>5 DEF TonightStill
        <4> QED BY <2>1, <4>1, <4>2, <1>3, <1>4
      <3> QED BY <3>4, <3>5
    <2>6. CASE Delete
      <3>1. ~JobAt("due") /\ x # job.k /\ dlq'[x] = dlq[x] /\ job'.left = job.left \ {job.k}
        BY <2>6 DEF Delete, JobAt, NextLetter, Due, Letter, TypeInv, TypeOK
      <3>2. TonightStill(x)' >= TonightStill(x) /\ TonightStill(x) \in {0, 1} /\ TonightStill(x)' \in {0, 1}
        BY <3>1 DEF TonightStill
      <3> QED BY <2>1, <3>1, <3>2, <1>3, <1>4
    <2> QED BY <1>8, <1>2, <2>2, <2>3, <2>4, <2>5, <2>6
        DEF Cron, ReadFails, JobConfigFails, JobPostUnanswered, DeleteFails, JobCrash
  <1>9. CASE Tick
    <2>1. /\ day' = day + 1 /\ job' = Due /\ JobAt("over")
          /\ dlq'[x] = IF Ended(x, day') THEN None ELSE dlq[x]
      BY <1>9 DEF Tick
    <2>2. dlq'[x] = dlq[x] /\ Letter(x) BY <2>1 DEF Letter
    <2>3. TonightStill(x) = 0 BY <2>1 DEF TonightStill, JobAt, TypeInv, JobOK
    <2>4. TonightStill(x)' = 1 BY <2>1 DEF TonightStill, JobAt, Due
    <2> QED BY <2>1, <2>2, <2>3, <2>4, <1>3, <1>4
  <1>10. Destroy \/ Forget \/ Registering \/ UNCHANGED vars => UNCHANGED <<day, dlq, job>>
    BY DEF Destroy, Forget, Registering, Ask, Register, Deregister, vars, kv
  <1> QED BY <1>5, <1>6, <1>7, <1>8, <1>9, <1>10 DEF Next, Registering

\* Whatever the others do, a letter has been tried once for each night of its life.
THEOREM TriedEveryNight == Spec => []TriedNightly
  <1>1. Init => TypeInv /\ Tried BY InitTypes DEF Init, Tried, Letter
  <1>2. TypeInv /\ Tried /\ [Next]_vars => (TypeInv /\ Tried)' BY TypeStep, TriedStep
  <1>3. TypeInv /\ Tried => TriedNightly
    <2> SUFFICES ASSUME TypeInv, Tried, faults = 0, NEW k \in Tasks, Letter(k)
                 PROVE  dlq[k].tries + (IF JobAt("over") THEN 0 ELSE 1) >= day - dlq[k].since
      BY DEF TriedNightly, Letter
    <2>1. dlq[k].tries + TonightStill(k) >= day - dlq[k].since BY DEF Tried
    <2>2. day \in Nat /\ dlq[k].tries \in Nat /\ dlq[k].since \in Nat
      BY DeliveryAssumption DEF TypeInv, TypeOK, Letter
    <2>3. JobAt("over") => TonightStill(k) = 0 BY DEF TonightStill, JobAt, TypeInv, JobOK
    <2>4. TonightStill(k) \in {0, 1} BY DEF TonightStill
    <2> QED BY <2>1, <2>2, <2>3, <2>4
  <1> QED BY <1>1, <1>2, <1>3, PTL DEF Spec

-----------------------------------------------------------------------------
(* Nothing is sent again that arrived                                       *)

\* A count stays covered when it grows by what the spent tasks grow by, or by a fault.
LEMMA CountMoves ==
  ASSUME NEW S, NEW T, IsFiniteSet(S), IsFiniteSet(T), NEW d \in Nat, NEW f \in Nat, NEW d2 \in Nat, NEW f2 \in Nat,
         d <= Cardinality(S) + f,
         \/ S \subseteq T /\ d2 - d <= f2 - f
         \/ S \subseteq T /\ d2 = d + 1 /\ f2 = f /\ \E k \in T : k \notin S
         \/ d2 = d /\ f2 = f + 1 /\ \E k : S \subseteq T \cup {k}
  PROVE  d2 <= Cardinality(T) + f2
  <1>1. Cardinality(S) \in Nat /\ Cardinality(T) \in Nat BY FS_CardinalityType
  <1>2. CASE S \subseteq T /\ d2 - d <= f2 - f
    <2>1. Cardinality(S) <= Cardinality(T) BY <1>2, FS_Subset
    <2> QED BY <1>1, <1>2, <2>1
  <1>3. CASE S \subseteq T /\ d2 = d + 1 /\ f2 = f /\ \E k \in T : k \notin S
    <2> PICK k \in T : k \notin S BY <1>3
    <2>1. IsFiniteSet(S \cup {k}) /\ Cardinality(S \cup {k}) = Cardinality(S) + 1 BY FS_AddElement
    <2>2. S \cup {k} \in SUBSET T BY <1>3
    <2>3. Cardinality(S \cup {k}) <= Cardinality(T) BY <2>2, FS_Subset
    <2> QED BY <1>1, <1>3, <2>1, <2>3
  <1>4. CASE d2 = d /\ f2 = f + 1 /\ \E k : S \subseteq T \cup {k}
    <2> PICK k : S \subseteq T \cup {k} BY <1>4
    <2>1. IsFiniteSet(T \cup {k}) /\ Cardinality(T \cup {k}) = IF k \in T THEN Cardinality(T) ELSE Cardinality(T) + 1
      BY FS_AddElement
    <2>2. Cardinality(S) <= Cardinality(T \cup {k}) BY <2>1, FS_Subset
    <2>3. Cardinality(T \cup {k}) \in Nat BY <2>1, FS_CardinalityType
    <2> QED BY <1>1, <1>4, <2>1, <2>2, <2>3
  <1> QED BY <1>2, <1>3, <1>4

LEMMA SpentFinite ==
  ASSUME NEW e, IsFiniteSet(Asked(e))
  PROVE  IsFiniteSet(Spent(e)) /\ Cardinality(Spent(e)) <= Cardinality(Asked(e))
  <1>1. Spent(e) \in SUBSET Asked(e) BY DEF Spent
  <1> QED BY <1>1, FS_Subset

LEMMA CountedStep ==
  ASSUME TypeInv, Counted, [Next]_vars
  PROVE  Counted'
  <1> SUFFICES ASSUME NEW e \in Events
               PROVE  IsFiniteSet(Asked(e)') /\ delivered'[e] <= Cardinality(Spent(e)') + faults'
    BY DEF Counted
  <1>1. /\ IsFiniteSet(Asked(e)) /\ IsFiniteSet(Spent(e)) /\ delivered[e] <= Cardinality(Spent(e)) + faults
        /\ delivered \in [Events -> Nat] /\ delivered[e] \in Nat /\ faults \in Nat
    BY SpentFinite, DeliveryAssumption DEF Counted, TypeInv, TypeOK
  <1>2. delivered' \in [Events -> Nat] /\ delivered'[e] \in Nat /\ faults' \in Nat
    BY TypeStep, DeliveryAssumption DEF TypeInv, TypeOK
  <1>3. IsFiniteSet(Asked(e)')
    <2>1. ASSUME NEW k \in Tasks, Event(k) PROVE IsFiniteSet(Asked(e)')
      <3>1. Asked(e)' = Asked(e) \/ Asked(e)' = Asked(e) \cup {k} BY <2>1, EventAsks
      <3> QED BY <3>1, <1>1, FS_AddElement
    <2>2. UNCHANGED vars => Asked(e)' = Asked(e) BY DEF vars, Asked
    <2> QED BY <2>1, <2>2, <1>1, AskedStays
  <1>4. IsFiniteSet(Spent(e)') 
    <2>1. Spent(e)' \in SUBSET Asked(e)' BY DEF Spent
    <2> QED BY <2>1, <1>3, FS_Subset
  <1> DEFINE Covered == \/ Spent(e) \subseteq Spent(e)' /\ delivered'[e] - delivered[e] <= faults' - faults
                        \/ Spent(e) \subseteq Spent(e)' /\ delivered'[e] = delivered[e] + 1 /\ faults' = faults
                             /\ \E k \in Spent(e)' : k \notin Spent(e)
                        \/ delivered'[e] = delivered[e] /\ faults' = faults + 1 /\ \E k : Spent(e) \subseteq Spent(e)' \cup {k}
  <1>5. Covered
    <2>1. ASSUME NEW k \in Tasks, Event(k) PROVE Covered
      <3>1. UNCHANGED <<day, kv, job, client, history, faults>> BY <2>1, EventAsks
      <3>2. k \notin Spent(e) BY <2>1, EventAsks DEF Spent, Asked
      <3>3. \A x \in Tasks : x # k => task'[x] = task[x] BY <2>1, EventAsks
      <3>4. Spent(e) \subseteq Spent(e)'
        BY <3>1, <3>2, <3>3 DEF Spent, Asked, InFlight, Letter, Deleting, JobAt, kv
      <3>5. delivered'[e] = delivered[e] /\ faults' = faults BY <3>1 DEF history
      <3> QED BY <3>4, <3>5, <1>1
    <2>2. ASSUME NEW k \in Tasks, Work(k) PROVE Covered
      <3>1. /\ task[k] \in Task /\ InFlight(k) /\ ~Letter(k) /\ UNCHANGED job
            /\ \A x \in Tasks : x # k => task'[x] = task[x] /\ dlq'[x] = dlq[x]
            /\ task'[k].e = task[k].e
        BY <2>2, WorkMoves, WorkSends
      <3>2. k \notin Spent(e) BY <3>1 DEF Spent
      <3>3. Spent(e) \subseteq Spent(e)'
        BY <3>1, <3>2 DEF Spent, Asked, InFlight, Letter, Deleting, JobAt
      <3>4. CASE Post(k)
        <4>1. faults' = faults /\ delivered' = [delivered EXCEPT ![task[k].e] = @ + 1] /\ UNCHANGED dlq
          BY <3>4 DEF Post, Reached, kv
        <4>2. CASE e # task[k].e BY <4>1, <4>2, <3>3, <1>1
        <4>3. CASE e = task[k].e
          <5>1. task'[k].pc = "done" BY <3>1, <3>4 DEF Post, End, Goto, TypeInv, TypeOK, Task
          <5>2. k \in Spent(e)'
            BY <5>1, <4>1, <4>3, <3>1 DEF Spent, Asked, InFlight, Letter, Idle
          <5>3. delivered'[e] = delivered[e] + 1 BY <4>1, <4>3, <1>1
          <5> QED BY <5>2, <5>3, <4>1, <3>2, <3>3
        <4> QED BY <4>2, <4>3
      <3>5. CASE PostUnanswered(k)
        <4>1. faults' = faults + 1 /\ delivered' = [delivered EXCEPT ![task[k].e] = @ + 1]
          BY <3>5 DEF PostUnanswered, Reached, Fail
        <4>2. delivered'[e] \in {delivered[e], delivered[e] + 1} BY <4>1, <1>1
        <4> QED BY <4>1, <4>2, <3>3, <1>1
      <3>6. CASE ~Post(k) /\ ~PostUnanswered(k)
        <4>1. UNCHANGED delivered /\ (UNCHANGED faults \/ Fail)
          BY <2>2, <3>6 DEF Work, ReadGuard, PutGuard, ReadConfig, PutReceipt, Send, PostFails, DeadLetter, TaskFails, history
        <4> QED BY <4>1, <3>3, <1>1 DEF Fail
      <3> QED BY <3>4, <3>5, <3>6
    <2>3. CASE Cron
      <3>1. UNCHANGED task BY <2>3, CronMoves
      <3>2. \A x \in Tasks : Letter(x)' => Letter(x) BY <2>3, CronLetters
      <3>3. InHand => job.k \in Tasks /\ Letter(job.k) /\ dlq[job.k] \in DeadLetters BY <2>3, CronMoves
      <3>4. Asked(e)' = Asked(e) /\ \A x \in Tasks : InFlight(x)' = InFlight(x) BY <3>1 DEF Asked, InFlight
      <3>5. ASSUME \A x \in Tasks : Deleting(x) => ~Letter(x)' \/ Deleting(x)' PROVE Spent(e) \subseteq Spent(e)'
        BY <3>5, <3>2, <3>4 DEF Spent, Asked
      <3>6. CASE JobPost
        <4>1. /\ faults' = faults /\ delivered' = [delivered EXCEPT ![dlq[job.k].e] = @ + 1] /\ UNCHANGED dlq
              /\ job.k \in Tasks /\ Letter(job.k) /\ dlq[job.k] \in DeadLetters
          BY <3>6, <3>3 DEF JobPost, Reached, JobAt, InHand, kv
        <4>2. Spent(e) \subseteq Spent(e)' BY <3>5, <3>6 DEF JobPost, Deleting, JobAt
        <4>3. CASE e # dlq[job.k].e BY <4>1, <4>2, <4>3, <1>1
        <4>4. CASE e = dlq[job.k].e
          <5>1. At(job.k, "done") /\ task[job.k].e = e BY <4>1, <4>4 DEF TypeInv, LetterOK
          <5>2. job.k \in Asked(e) /\ ~InFlight(job.k) BY <4>1, <5>1 DEF Asked, At, InFlight, Idle
          <5>3. job'.pc = "delete" /\ job'.k = job.k BY <3>6 DEF JobPost, JobGoto, TypeInv, TypeOK
          <5>4. job.k \in Spent(e)' BY <5>2, <5>3, <3>4, <4>1 DEF Spent, Deleting, JobAt
          <5>5. job.k \notin Spent(e) BY <3>6, <4>1 DEF Spent, Deleting, JobPost, JobAt
          <5>6. delivered'[e] = delivered[e] + 1 BY <4>1, <4>4, <1>1
          <5> QED BY <5>4, <5>5, <5>6, <4>1, <4>2
        <4> QED BY <4>3, <4>4
      <3>7. CASE JobPostUnanswered
        <4>1. faults' = faults + 1 /\ delivered' = [delivered EXCEPT ![dlq[job.k].e] = @ + 1]
          BY <3>7 DEF JobPostUnanswered, Reached, Fail
        <4>2. delivered'[e] \in {delivered[e], delivered[e] + 1} BY <4>1, <1>1
        <4>3. Spent(e) \subseteq Spent(e)' BY <3>5, <3>7 DEF JobPostUnanswered, Deleting, JobAt
        <4> QED BY <4>1, <4>2, <4>3, <1>1
      <3>8. CASE DeleteFails \/ JobCrash
        <4>1. faults' = faults + 1 /\ UNCHANGED <<delivered, dlq>> BY <3>8 DEF DeleteFails, JobCrash, Fail, history, kv
        <4>2. Spent(e) \subseteq Spent(e)' \cup {job.k} BY <4>1, <3>2, <3>4 DEF Spent, Asked, Deleting
        <4> QED BY <4>1, <4>2
      <3>9. CASE Delete
        <4>1. UNCHANGED <<delivered, faults>> /\ dlq'[job.k] = None
          BY <3>9, <3>3 DEF Delete, Letter, history, JobAt, InHand, TypeInv, TypeOK
        <4>2. Spent(e) \subseteq Spent(e)' BY <3>5, <4>1 DEF Deleting, Letter
        <4> QED BY <4>1, <4>2, <1>1
      <3>10. CASE List \/ Read \/ ReadFails \/ JobConfig \/ JobConfigFails \/ JobPostFails \/ JobEnds
        <4>1. UNCHANGED delivered /\ (UNCHANGED faults \/ Fail) /\ ~JobAt("delete")
          BY <3>10 DEF List, Read, ReadFails, JobConfig, JobConfigFails, JobPostFails, JobEnds, history, JobAt
        <4>2. Spent(e) \subseteq Spent(e)' BY <3>5, <4>1 DEF Deleting
        <4> QED BY <4>1, <4>2, <1>1 DEF Fail
      <3> QED BY <2>3, <3>6, <3>7, <3>8, <3>9, <3>10 DEF Cron
    <2>4. CASE Tick
      <3>1. /\ UNCHANGED <<task, delivered, faults>> /\ JobAt("over")
            /\ \A x \in Tasks : Letter(x)' => Letter(x)
        BY <2>4 DEF Tick, Letter
      <3>2. Spent(e) \subseteq Spent(e)' BY <3>1 DEF Spent, Asked, InFlight, Deleting, JobAt
      <3> QED BY <3>1, <3>2, <1>1
    <2>5. CASE Destroy \/ Forget \/ Registering \/ UNCHANGED vars
      <3>1. UNCHANGED <<task, dlq, job, delivered, faults>>
        BY <2>5 DEF Destroy, Forget, Registering, Ask, Register, Deregister, vars, kv, history
      <3>2. Spent(e)' = Spent(e) BY <3>1 DEF Spent, Asked, InFlight, Letter, Deleting, JobAt
      <3> QED BY <3>1, <3>2, <1>1
    <2> QED BY <2>1, <2>2, <2>3, <2>4, <2>5 DEF Next, Registering
  <1>6. delivered'[e] <= Cardinality(Spent(e)') + faults'
    <2> HIDE DEF Covered
    <2>1. Covered BY <1>5
    <2> QED BY <2>1, <1>1, <1>2, <1>4, CountMoves DEF Covered
  <1> QED BY <1>3, <1>6

\* An event reaches the endpoint once for each time it came up, and once more for each call
\* that failed.
THEOREM ArrivesOnce == Spec => []SentOnce
  <1>1. Init => TypeInv /\ Counted
    <2> SUFFICES ASSUME Init, NEW e \in Events
                 PROVE  IsFiniteSet(Asked(e)) /\ delivered[e] <= Cardinality(Spent(e)) + faults
      BY InitTypes DEF Counted
    <2>1. Asked(e) = {} /\ Spent(e) = {} BY DEF Init, Asked, Spent
    <2>2. delivered[e] = 0 /\ faults = 0 BY DEF Init
    <2> QED BY <2>1, <2>2, FS_EmptySet
  <1>2. TypeInv /\ Counted /\ [Next]_vars => (TypeInv /\ Counted)' BY TypeStep, CountedStep
  <1>3. TypeInv /\ Counted => SentOnce
    <2> SUFFICES ASSUME TypeInv, Counted, NEW e \in Events
                 PROVE  delivered[e] <= Cardinality(Asked(e)) + faults
      BY DEF SentOnce
    <2>1. IsFiniteSet(Asked(e)) /\ delivered[e] <= Cardinality(Spent(e)) + faults BY DEF Counted
    <2>2. IsFiniteSet(Spent(e)) /\ Cardinality(Spent(e)) <= Cardinality(Asked(e)) BY <2>1, SpentFinite
    <2>3. Cardinality(Spent(e)) \in Nat /\ Cardinality(Asked(e)) \in Nat BY <2>1, <2>2, FS_CardinalityType
    <2>4. faults \in Nat /\ delivered[e] \in Nat BY DeliveryAssumption DEF TypeInv, TypeOK
    <2> QED BY <2>1, <2>2, <2>3, <2>4
  <1> QED BY <1>1, <1>2, <1>3, PTL DEF Spec

-----------------------------------------------------------------------------
(* No event is lost                                                         *)

\* A registration that was changed, a task that was not sent and a fault do not go away.
LEMMA GoodBefore ==
  ASSUME Base, [Next]_vars, Good'
  PROVE  Good /\ ~Fail /\ UNCHANGED faults
  <1>1. faults \in Nat BY DeliveryAssumption DEF Base, TypeInv, TypeOK
  <1>2. UNCHANGED faults \/ Fail
    <2>1. ASSUME NEW k \in Tasks, Event(k) PROVE UNCHANGED faults BY <2>1, EventAsks DEF Base
    <2>2. ASSUME NEW k \in Tasks, Work(k) PROVE UNCHANGED faults \/ Fail
      BY <2>2 DEF Work, ReadGuard, PutGuard, ReadConfig, PutReceipt, Send, Post, PostFails, PostUnanswered, DeadLetter, TaskFails
    <2>3. Cron => UNCHANGED faults \/ Fail BY CronMoves DEF Base
    <2>4. Tick \/ Destroy \/ Forget \/ Registering \/ UNCHANGED vars => UNCHANGED faults
      BY DEF Tick, Destroy, Forget, Registering, Ask, Register, Deregister, vars
    <2> QED BY <2>1, <2>2, <2>3, <2>4 DEF Base, Next, Registering
  <1>3. ~Fail /\ UNCHANGED faults /\ faults = 0 BY <1>1, <1>2 DEF Fail, Good
  <1>4. config \in {NoConfig, First} BY RegisterStep DEF Base, Good
  <1>5. ASSUME NEW x \in Tasks, At(x, "unsent") PROVE At(x, "unsent")'
    <2>1. ASSUME NEW k \in Tasks, Event(k) PROVE task'[x] = task[x]
      <3>1. x # k BY <2>1, <1>5, EventAsks DEF Base, At, Idle
      <3> QED BY <2>1, <3>1, EventAsks DEF Base
    <2>2. ASSUME NEW k \in Tasks, Work(k) PROVE task'[x] = task[x]
      <3>1. x # k BY <2>2, <1>5, WorkMoves DEF Base, InFlight, At
      <3> QED BY <2>2, <3>1, WorkSends DEF Base
    <2>3. Cron => UNCHANGED task BY CronMoves DEF Base
    <2>4. Tick \/ Destroy \/ Forget \/ Registering \/ UNCHANGED vars => UNCHANGED task
      BY DEF Tick, Destroy, Forget, Registering, Ask, Register, Deregister, vars
    <2> QED BY <1>5, <2>1, <2>2, <2>3, <2>4 DEF Base, Next, Registering, At
  <1> QED BY <1>3, <1>4, <1>5 DEF Good

LEMMA SettledStays ==
  ASSUME TypeInv, [Next]_vars, NEW e \in Events, Settled(e)
  PROVE  Settled(e)'
  <1> DEFINE Over(s) == s \in {"consumed", "gone"}
             More == /\ delivered'[e] >= delivered[e] /\ expired \subseteq expired'
                     /\ Over(man.state) => Over(man'.state)
  <1>1. delivered \in [Events -> Nat] /\ delivered[e] \in Nat /\ delivered'[e] \in Nat
    BY TypeStep DEF TypeInv, TypeOK
  <1>2. \A f : Reached(f) => delivered'[e] >= delivered[e] BY <1>1 DEF Reached
  <1>3. ASSUME NEW k \in Tasks, Event(k) PROVE More
    <2>1. UNCHANGED <<delivered, expired>> BY <1>3, EventAsks DEF history
    <2>2. Over(man.state) => man' = man BY <1>3 DEF Event, Accept, Seal, Discharge, Confirm
    <2> QED BY <2>1, <2>2, <1>1
  <1>4. ASSUME NEW k \in Tasks, Work(k) PROVE More
    <2>1. UNCHANGED <<man, expired>> BY <1>4, WorkMoves
    <2>2. UNCHANGED delivered \/ Reached(task[k].e)
      BY <1>4 DEF Work, ReadGuard, PutGuard, ReadConfig, PutReceipt, Send, Post, PostFails, PostUnanswered, DeadLetter,
             TaskFails, history
    <2> QED BY <2>1, <2>2, <1>1, <1>2
  <1>5. ASSUME Cron PROVE More
    <2>1. UNCHANGED <<man, expired>> /\ (UNCHANGED delivered \/ Reached(dlq[job.k].e)) BY <1>5, CronMoves
    <2> QED BY <2>1, <1>1, <1>2
  <1>6. ASSUME Tick PROVE More BY <1>6, <1>1 DEF Tick
  <1>7. ASSUME Destroy \/ Forget PROVE More
    <2>1. man'.state \in {"consumed", "gone"} /\ UNCHANGED <<delivered, expired>> BY <1>7 DEF Destroy, Forget, history, TypeInv, TypeOK
    <2> QED BY <2>1, <1>1
  <1>8. ASSUME Registering \/ UNCHANGED vars PROVE More
    BY <1>8, <1>1 DEF Registering, Ask, Register, Deregister, vars, history
  <1>9. More BY <1>3, <1>4, <1>5, <1>6, <1>7, <1>8 DEF Next, Registering
  <1> QED BY <1>1, <1>9 DEF Settled

\* A task that sends sends on, or has a letter, until its event is settled; the letter is of
\* the day the event came up.
LEMMA Carries ==
  ASSUME Base, Safe, [Next]_vars, Good', NEW k \in Tasks, Sending(k)
  PROVE  /\ task'[k].e = task[k].e /\ task[k].e \in Events /\ k \in Asked(task[k].e) /\ k \in Asked(task[k].e)'
         /\ Settled(task[k].e)' \/ (Sending(k)' /\ (OnTime(k) /\ man'.since = man.since => OnTime(k)'))
  <1> USE DEF Base
  <1> DEFINE Same == task'[k] = task[k] /\ dlq'[k] = dlq[k] /\ UNCHANGED day
             Goal == Settled(task[k].e)' \/ (Sending(k)' /\ (OnTime(k) /\ man'.since = man.since => OnTime(k)'))
             Moved == task'[k].e = task[k].e /\ task'[k] # Idle
  <1>1. Good /\ ~Fail BY GoodBefore
  <1>2. task[k] \in Task /\ task[k] # Idle /\ ~At(k, "unsent")
    <2>1. task[k].pc # "idle" BY DEF Sending, TypeInv, LetterOK, At
    <2>2. task[k] # Idle BY <2>1 DEF Idle
    <2> QED BY <1>1, <2>2 DEF Good, TypeInv, TypeOK, Task
  <1>3. Letter(k) => dlq[k].e = task[k].e BY DEF TypeInv, LetterOK
  <1>4. ASSUME Same PROVE Moved /\ Goal
    BY <1>2, <1>4 DEF Sending, OnTime, Letter
  <1>5. ASSUME NEW j \in Tasks, Event(j) PROVE Moved /\ Goal
    <2>1. k # j BY <1>2, <1>5, EventAsks
    <2>2. UNCHANGED <<day, kv>> /\ task'[k] = task[k] BY <1>5, <2>1, EventAsks
    <2> QED BY <2>2, <1>4 DEF kv
  <1>6. ASSUME NEW j \in Tasks, Work(j) PROVE Moved /\ Goal
    <2>1. CASE j # k
      <3>1. task'[k] = task[k] /\ dlq'[k] = dlq[k] /\ UNCHANGED day BY <1>6, <2>1, WorkMoves, WorkSends
      <3> QED BY <3>1, <1>4
    <2>2. CASE j = k
      <3>1. ~Letter(k) /\ UNCHANGED <<day, man>> /\ task'[k].e = task[k].e BY <1>6, <2>2, WorkMoves, WorkSends
      <3>2. \A l : Goto(k, l) => task'[k].pc = l BY <1>2 DEF Goto, TypeInv, TypeOK, Task
      <3>3. Moved
        <4>1. task'[k] \in {Idle} \cup Task BY TypeStep DEF TypeInv, TypeOK, Task
        <4>2. task'[k] # Idle
          <5>1. PICK t \in Task : task' = [task EXCEPT ![k] = t] BY <1>6, <2>2, WorkMoves
          <5>2. task'[k] = t BY <5>1 DEF TypeInv, TypeOK
          <5> QED BY <5>2 DEF Task, Steps, Idle
        <4> QED BY <4>2, <3>1
      <3>4. ASSUME task'[k].pc \in {"config", "receipt", "send", "post", "queue"}, ~DeadLetter(k) PROVE Goal
        <4>1. ~Letter(k)' BY <3>1, <3>4, <1>6, <2>2, WorkMoves DEF Letter
        <4> QED BY <4>1, <3>1, <3>4 DEF Sending, OnTime
      <3>5. ~At(k, "unsent")' BY DEF Good
      <3>6. task[k].pc \in {"config", "receipt", "send", "post", "queue"} BY <3>1 DEF Sending
      <3>7. CASE ReadConfig(k)
        <4>1. config.active BY <3>2, <3>5, <3>7 DEF ReadConfig, At
        <4>2. task'[k].pc = "receipt" BY <4>1, <3>7, <1>2 DEF ReadConfig, TypeInv, TypeOK, Task
        <4>3. ~DeadLetter(k) BY <3>7 DEF ReadConfig, DeadLetter, At
        <4> QED BY <3>3, <3>4, <4>2, <4>3
      <3>8. CASE PutReceipt(k)
        <4>1. ~DeadLetter(k) BY <3>8 DEF PutReceipt, DeadLetter, At
        <4> QED BY <3>3, <3>4, <3>2, <3>8, <4>1 DEF PutReceipt
      <3>9. CASE Send(k)
        <4>1. Deliverable BY <3>2, <3>5, <3>9 DEF Send, At
        <4>2. task'[k].pc = "post" BY <4>1, <3>9, <1>2 DEF Send, TypeInv, TypeOK, Task
        <4>3. ~DeadLetter(k) BY <3>9 DEF Send, DeadLetter, At
        <4> QED BY <3>3, <3>4, <4>2, <4>3
      <3>10. CASE Post(k)
        <4>1. delivered'[task[k].e] > 0 BY <3>10, <1>2 DEF Post, Reached, TypeInv, TypeOK, Task
        <4> QED BY <4>1, <3>1, <3>3 DEF Settled
      <3>11. CASE PostFails(k)
        <4>1. ~DeadLetter(k) BY <3>11 DEF PostFails, DeadLetter, At
        <4> QED BY <3>3, <3>4, <3>2, <3>11, <4>1 DEF PostFails
      <3>12. CASE DeadLetter(k)
        <4>1. dlq'[k] = [id |-> 1, e |-> task[k].e, since |-> day, tries |-> 0]
          BY <3>12 DEF DeadLetter, TypeInv, TypeOK
        <4>2. dlq'[k] # None /\ dlq'[k].since = day
          <5>1. dlq'[k].e = task[k].e BY <4>1
          <5>2. Letter(k)'
            <6>1. DOMAIN dlq'[k] # DOMAIN None BY <4>1 DEF None
            <6> QED BY <6>1 DEF Letter
          <5> QED BY <4>1, <5>2 DEF Letter
        <4> QED BY <3>1, <3>3, <4>2 DEF Sending, OnTime, Letter
      <3> QED BY <1>1, <1>6, <2>2, <3>6, <3>7, <3>8, <3>9, <3>10, <3>11, <3>12
          DEF Work, ReadGuard, PutGuard, PostUnanswered, TaskFails, At
    <2> QED BY <2>1, <2>2
  <1>7. ASSUME Cron PROVE Moved /\ Goal
    <2>1. UNCHANGED <<task, day, man>> BY <1>7, CronMoves
    <2>2. Moved BY <2>1, <1>2
    <2>3. Letter(k)' => Letter(k) /\ dlq'[k].since = dlq[k].since BY <1>7, CronLetters
    <2>4. CASE Letter(k) /\ ~Letter(k)'
      <3>1. Delete /\ k = job.k BY <1>7, <2>4, CronLetters
      <3>2. Settled(task[k].e) BY <1>1, <1>3, <2>4, <3>1 DEF Delete, Safe
      <3>3. Settled(task[k].e)' BY <2>1, <3>2, <1>2, SettledStays DEF Task, Settled
      <3> QED BY <2>2, <3>3
    <2>5. CASE Letter(k) <=> Letter(k)' BY <2>1, <2>2, <2>3, <2>5 DEF Sending, OnTime
    <2> QED BY <2>3, <2>4, <2>5
  <1>8. ASSUME Tick PROVE Moved /\ Goal
    <2>1. Letter(k) BY <1>8 DEF Tick, InFlight, Sending
    <2>2. UNCHANGED <<task, man>> /\ dlq'[k] = IF Ended(k, day') THEN None ELSE dlq[k] BY <1>8 DEF Tick
    <2>3. Moved BY <2>2, <1>2
    <2>4. CASE Ended(k, day')
      <3>1. dlq[k].e \in expired' BY <1>8, <2>4 DEF Tick
      <3> QED BY <2>1, <2>2, <2>3, <3>1, <1>3 DEF Settled
    <2>5. CASE ~Ended(k, day') BY <2>1, <2>2, <2>3, <2>5 DEF Sending, OnTime, Letter
    <2> QED BY <2>4, <2>5
  <1>9. Destroy \/ Forget \/ Registering \/ UNCHANGED vars => Same
    BY DEF Destroy, Forget, Registering, Ask, Register, Deregister, vars, kv
  <1>10. Moved /\ Goal BY <1>4, <1>5, <1>6, <1>7, <1>8, <1>9 DEF Next, Registering
  <1> QED BY <1>2, <1>10 DEF Asked, Task

\* What is carried stays carried, whoever carries it.
LEMMA CarriedStays ==
  ASSUME Base, Safe, [Next]_vars, Good', NEW e \in Events, Carried(e)
  PROVE  Carried(e)'
  <1>1. CASE Settled(e) BY <1>1, SettledStays DEF Base, Carried
  <1>2. ASSUME NEW k \in Asked(e), Sending(k) PROVE Carried(e)'
    <2>1. k \in Tasks /\ task[k].e = e BY DEF Asked
    <2>2. /\ task'[k].e = task[k].e /\ k \in Asked(task[k].e)'
          /\ Settled(task[k].e)' \/ Sending(k)'
      BY <1>2, <2>1, Carries
    <2>3. Settled(task[k].e)' => Settled(e)' BY <2>1, <2>2
    <2>4. k \in Asked(e)' BY <2>1, <2>2 DEF Asked
    <2> QED BY <2>2, <2>3, <2>4 DEF Carried
  <1> QED BY <1>1, <1>2 DEF Carried

\* The guard is put by a task that goes on to send the discharge.
LEMMA GuardStep ==
  ASSUME Base, Safe, [Next]_vars, Good', guard'
  PROVE  Carried(Discharged)'
  <1> USE DEF Base
  <1>1. Good /\ Discharged \in Events BY GoodBefore DEF Discharged, Events, Receipts
  <1>2. CASE guard BY <1>1, <1>2, CarriedStays DEF Safe
  <1>3. ASSUME NEW k \in Tasks, PutGuard(k) PROVE Carried(Discharged)'
    <2>1. Work(k) BY <1>3 DEF Work
    <2>2. task[k] \in Task /\ task[k].e = Discharged
      BY <1>3, <2>1, WorkMoves DEF PutGuard, TypeInv, TaskOK
    <2>3. task'[k].pc = "config" /\ task'[k].e = Discharged
      BY <1>3, <2>2 DEF PutGuard, Goto, TypeInv, TypeOK, Task
    <2>4. k \in Asked(Discharged)' /\ Sending(k)' BY <2>3 DEF Asked, Sending, Idle
    <2> QED BY <2>4 DEF Carried
  <1>4. UNCHANGED guard \/ \E k \in Tasks : PutGuard(k)
    <2>1. ASSUME NEW k \in Tasks, Event(k) PROVE UNCHANGED guard BY <2>1, EventAsks DEF kv
    <2>2. ASSUME NEW k \in Tasks, Work(k) PROVE UNCHANGED guard \/ PutGuard(k)
      BY <2>2 DEF Work, ReadGuard, ReadConfig, PutReceipt, Send, Post, PostFails, PostUnanswered, DeadLetter, TaskFails, kv
    <2>3. Cron => UNCHANGED guard BY CronMoves
    <2>4. Tick \/ Destroy \/ Forget \/ Registering \/ UNCHANGED vars => UNCHANGED guard
      BY DEF Tick, Destroy, Forget, Registering, Ask, Register, Deregister, vars, kv
    <2> QED BY <2>1, <2>2, <2>3, <2>4 DEF Next, Registering
  <1> QED BY <1>2, <1>3, <1>4

AtGuard(k) == At(k, "guard") \/ At(k, "guard_put")

\* The event of a task that just began is sent by it, or waits at the guard.
LEMMA BeginCarries ==
  ASSUME Base, NEW k \in Tasks, Event(k), NEW e \in Events, e = task'[k].e
  PROVE  /\ k \in Asked(e)'
         /\ e # Discharged => Sending(k)' /\ ~Letter(k)'
         /\ e = Discharged => AtGuard(k)'
  <1>1. /\ task'[k] \in Task /\ task'[k].pc \in {"config", "send", "guard"} /\ ~Letter(k)
        /\ task'[k].e = Discharged => task'[k].pc = "guard"
        /\ UNCHANGED <<day, kv, job, client, history, faults>>
    BY EventAsks DEF Base
  <1>2. ~Letter(k)' BY <1>1 DEF Letter, kv
  <1>3. task'[k].pc = "guard" => task'[k].e = Discharged BY TypeStep DEF Base, Next, TypeInv, TaskOK, At
  <1>4. task'[k] # Idle BY <1>1 DEF Task, Steps, Idle
  <1> QED BY <1>1, <1>2, <1>3, <1>4 DEF Asked, Sending, AtGuard, At

LEMMA AskedCarried ==
  ASSUME Base, Safe, [Next]_vars, Good', NEW e \in Events, Asked(e)' # {}
  PROVE  Carried(e)' \/ (e = Discharged /\ \E k \in Tasks : AtGuard(k)')
  <1> USE DEF Base
  <1>1. Good /\ ~Fail BY GoodBefore
  <1>2. CASE Carried(e) BY <1>2, CarriedStays
  <1>3. ASSUME NEW j \in Tasks, Event(j), e = task'[j].e
        PROVE  Carried(e)' \/ (e = Discharged /\ \E k \in Tasks : AtGuard(k)')
    <2>1. /\ j \in Asked(e)' /\ (e # Discharged => Sending(j)')
          /\ e = Discharged => AtGuard(j)'
      BY <1>3, BeginCarries
    <2> QED BY <2>1 DEF Carried
  <1>4. CASE ~Carried(e) /\ \A j \in Tasks : Event(j) => e # task'[j].e
    <2>1. Asked(e)' = Asked(e)
      <3>1. ASSUME NEW j \in Tasks, Event(j) PROVE Asked(e)' = Asked(e) BY <1>4, <3>1, EventAsks
      <3>2. UNCHANGED vars => Asked(e)' = Asked(e) BY DEF vars, Asked
      <3> QED BY <3>1, <3>2, AskedStays
    <2>2. e = Discharged /\ \E k \in Tasks : AtGuard(k) BY <2>1, <1>1, <1>4 DEF Safe, AtGuard
    <2> PICK k \in Tasks : AtGuard(k) BY <2>2
    <2>3. ~guard BY <1>1, <1>4, <2>2 DEF Safe
    <2>4. ASSUME task'[k] = task[k] PROVE AtGuard(k)' BY <2>4 DEF AtGuard, At
    <2>5. ASSUME NEW j \in Tasks, Event(j) PROVE AtGuard(k)'
      <3>1. j # k BY <2>5, EventAsks DEF AtGuard, At, Idle
      <3> QED BY <2>4, <2>5, <3>1, EventAsks
    <2>6. ASSUME NEW j \in Tasks, Work(j) PROVE AtGuard(k)' \/ Carried(e)'
      <3>1. CASE j # k BY <2>4, <2>6, <3>1, WorkSends
      <3>2. CASE j = k
        <4>1. task[k] \in Task BY <2>6, <3>2, WorkMoves
        <4>2. ReadGuard(k) \/ PutGuard(k)
          BY <2>6, <3>2, <1>1 DEF Work, AtGuard, At, ReadConfig, PutReceipt, Send, Post, PostFails, PostUnanswered,
                                  DeadLetter, TaskFails
        <4>3. CASE ReadGuard(k)
          <5>1. task'[k].pc = "guard_put" BY <2>3, <4>1, <4>3 DEF ReadGuard, Goto, TypeInv, TypeOK, Task
          <5> QED BY <5>1 DEF AtGuard, At
        <4>4. CASE PutGuard(k)
          <5>1. guard' BY <4>4 DEF PutGuard
          <5> QED BY <5>1, <2>2, GuardStep
        <4> QED BY <4>2, <4>3, <4>4
      <3> QED BY <3>1, <3>2
    <2>7. Cron => AtGuard(k)' BY <2>4, CronMoves
    <2>8. Tick \/ Destroy \/ Forget \/ Registering \/ UNCHANGED vars => AtGuard(k)'
      BY <2>4 DEF Tick, Destroy, Forget, Registering, Ask, Register, Deregister, vars
    <2> QED BY <2>2, <2>5, <2>6, <2>7, <2>8 DEF Next, Registering
  <1> QED BY <1>2, <1>3, <1>4

\* The cron takes a letter away once it arrived, or once nothing bears it out any more.
LEMMA DeleteStep ==
  ASSUME Base, Safe, [Next]_vars, Good', JobAt("delete")'
  PROVE  Settled(dlq[job.k].e)'
  <1> USE DEF Base
  <1>1. Good /\ ~Fail BY GoodBefore
  <1>2. ASSUME JobAt("delete"), UNCHANGED job, dlq'[job.k] = dlq[job.k] PROVE Settled(dlq[job.k].e)'
    <2>1. Letter(job.k) /\ job.k \in Tasks BY <1>2 DEF JobAt, TypeInv, TypeOK, JobOK, InHand, Letter
    <2> DEFINE e == dlq[job.k].e
    <2>2. e \in Events BY <2>1 DEF Letter, TypeInv, TypeOK
    <2>3. Settled(e) BY <1>1, <1>2 DEF Safe
    <2>4. dlq'[job'.k].e = e BY <1>2
    <2> HIDE DEF e
    <2>5. \A f \in Events : Settled(f) => Settled(f)' BY SettledStays
    <2>6. delivered'[e] > 0 \/ e \in expired' \/ (e = DateSeal /\ man'.state \in {"consumed", "gone"})
      <3>1. \A f \in Events : Settled(f) =>
              delivered'[f] > 0 \/ f \in expired' \/ (f = DateSeal /\ man'.state \in {"consumed", "gone"})
        BY <2>5 DEF Settled
      <3> QED BY <2>2, <2>3, <3>1
    <2> QED BY <2>4, <2>6 DEF Settled
  <1>3. ASSUME NEW k \in Tasks, Event(k) PROVE Settled(dlq[job.k].e)'
    <2>1. UNCHANGED <<job, dlq>> BY <1>3, EventAsks DEF kv
    <2> QED BY <2>1, <1>2 DEF JobAt
  <1>4. ASSUME NEW k \in Tasks, Work(k) PROVE Settled(dlq[job.k].e)'
    <2>1. UNCHANGED job /\ ~Letter(k) BY <1>4, WorkMoves
    <2>2. JobAt("delete") BY <2>1 DEF JobAt
    <2>3. Letter(job.k) /\ job.k \in Tasks BY <2>2 DEF JobAt, TypeInv, TypeOK, JobOK, InHand, Letter
    <2>4. dlq'[job.k] = dlq[job.k] BY <1>4, <2>1, <2>3, WorkSends
    <2> QED BY <2>1, <2>2, <2>4, <1>2
  <1>5. CASE Cron
    <2>1. UNCHANGED <<day, man, config, ids, receipt, task, expired>> BY <1>5, CronMoves
    <2>2. InHand => job.k \in Tasks /\ Letter(job.k) /\ dlq[job.k] \in DeadLetters BY <1>5, CronMoves
    <2>3. Read \/ JobConfig \/ JobPost
      <3>1. ~List /\ ~JobEnds /\ ~JobPostFails /\ ~Delete
        BY DEF List, JobEnds, JobPostFails, Delete, JobGoto, NextLetter, Due, JobAt, TypeInv, TypeOK
      <3> QED BY <3>1, <1>1, <1>5 DEF Cron, ReadFails, JobConfigFails, JobPostUnanswered, DeleteFails, JobCrash
    <2>4. CASE Read
      <3>1. PICK k \in job.left :
              job' = [job EXCEPT !.pc = IF Confirmed(dlq[k].e) THEN "config" ELSE "delete", !.k = k,
                                 !.receipt = IF dlq[k].e \in Receipts THEN receipt[dlq[k].e].id ELSE 0]
        BY <2>4 DEF Read
      <3> DEFINE e == dlq[k].e
      <3>2. job \in Sweep BY DEF TypeInv, TypeOK, Sweep
      <3>3. job'.k = k /\ ~Confirmed(e) /\ UNCHANGED <<dlq, man, delivered, expired>>
        BY <3>1, <3>2, <2>4 DEF Sweep, JobAt, Read, kv, history
      <3>4. k \in Tasks /\ Letter(k) /\ e \in Events /\ task[k].e = e /\ At(k, "done")
        BY <3>2 DEF Sweep, TypeInv, TypeOK, LetterOK, Letter
      <3>5. k \in Asked(e) BY <3>4 DEF Asked, At, Idle
      <3>6. e \notin Receipts
        <4>1. e \in Receipts => receipt[e] # None BY <3>4 DEF ReceiptOK, KeptUntil
        <4>2. e \in Receipts => (Confirmed(e) <=> receipt[e] # None) BY DEF Confirmed, Receipts
        <4> QED BY <3>3, <4>1, <4>2
      <3>7. CASE e = DateSeal
        <4>1. man.sealed /\ man.state # "uploading" BY <3>5, <3>7 DEF StoryOK
        <4>2. man.state # "live" BY <3>3, <3>7, <4>1 DEF Confirmed, DateSeal, Receipts
        <4>3. man.state \in {"consumed", "gone"} BY <4>1, <4>2 DEF TypeInv, TypeOK
        <4> QED BY <4>3, <3>3, <3>7 DEF Settled
      <3>8. CASE e = Confirmation
        <4>1. man.state \in {"consumed", "gone"} BY <3>5, <3>8 DEF StoryOK
        <4>2. man.state # "consumed" BY <3>3, <3>8 DEF Confirmed, Confirmation, Receipts
        <4>3. Settled(e) BY <3>5, <4>1, <4>2, <3>8, <1>1 DEF Safe
        <4> QED BY <4>3, <3>3 DEF Settled
      <3> QED BY <3>4, <3>6, <3>7, <3>8 DEF Events, DateSeal, Confirmation
    <2>5. CASE JobConfig
      <3>1. InHand BY <2>5 DEF JobConfig, JobAt, InHand
      <3>2. ids >= 1 BY <2>2, <3>1 DEF RegisterOK
      <3>3. config = First
        <4>1. config.id # 0 BY <3>2 DEF RegisterOK
        <4> QED BY <4>1, <1>1 DEF Good, NoConfig
      <3>4. job'.pc = "post" BY <2>5, <3>3 DEF JobConfig, Deliverable, First, TypeInv, TypeOK
      <3> QED BY <3>4 DEF JobAt
    <2>6. CASE JobPost
      <3> DEFINE e == dlq[job.k].e
      <3>1. e \in Events BY <2>2, <2>6 DEF JobPost, JobAt, InHand, DeadLetters
      <3>2. delivered'[e] > 0 BY <2>6, <3>1 DEF JobPost, Reached, TypeInv, TypeOK
      <3>3. dlq'[job'.k].e = e BY <2>6 DEF JobPost, JobGoto, kv, TypeInv, TypeOK
      <3> QED BY <3>2, <3>3 DEF Settled
    <2> QED BY <2>3, <2>4, <2>5, <2>6
  <1>6. CASE Tick
    <2>1. job'.pc = "due" BY <1>6 DEF Tick, Due
    <2> QED BY <2>1 DEF JobAt
  <1>7. CASE Destroy \/ Forget \/ Registering \/ UNCHANGED vars
    <2>1. UNCHANGED <<job, dlq>> BY <1>7 DEF Destroy, Forget, Registering, Ask, Register, Deregister, vars, kv
    <2> QED BY <2>1, <1>2 DEF JobAt
  <1> QED BY <1>3, <1>4, <1>5, <1>6, <1>7 DEF Next, Registering

\* A confirmation is of the day the transfer was consumed on, and so is its letter, if it has
\* one; the record is kept for longer.
LEMMA ConsumedStep ==
  ASSUME Base, Safe, [Next]_vars, Good', man'.state = "consumed", Asked(Confirmation)' # {}
  PROVE  Settled(Confirmation)' \/ \E k \in Asked(Confirmation)' : OnTime(k)'
  <1> USE DEF Base
  <1>1. Good /\ Confirmation \in Events BY GoodBefore DEF Confirmation, Events
  <1>2. man \in [state : {"uploading", "live", "consumed", "gone"}, sealed : BOOLEAN, since : 0..MaxDays]
    BY DEF TypeInv, TypeOK
  <1>3. ASSUME NEW j \in Tasks, Confirm(j) PROVE \E k \in Asked(Confirmation)' : OnTime(k)'
    <2>1. Event(j) BY <1>3 DEF Event
    <2>2. task'[j].e = Confirmation BY <1>3 DEF Confirm, Begin, Confirmation, TypeInv, TypeOK
    <2>3. j \in Asked(Confirmation)' /\ Sending(j)' /\ ~Letter(j)'
      BY <1>1, <2>1, <2>2, BeginCarries DEF Confirmation, Discharged
    <2>4. man'.since = day /\ UNCHANGED day BY <1>2, <1>3 DEF Confirm
    <2> QED BY <2>3, <2>4 DEF OnTime
  <1>4. ASSUME \A j \in Tasks : ~Confirm(j)
        PROVE  man.state = "consumed" /\ man'.since = man.since /\ Asked(Confirmation) # {}
    <2>1. ASSUME NEW j \in Tasks, Event(j)
          PROVE  man.state = "consumed" /\ man'.since = man.since /\ Asked(Confirmation)' = Asked(Confirmation)
      <3>1. Accept(j) \/ Seal(j) \/ Discharge(j) BY <1>4, <2>1 DEF Event
      <3>2. task'[j].e # Confirmation
        BY <3>1 DEF Accept, Seal, Discharge, Begin, Confirmation, TypeInv, TypeOK
      <3>3. Asked(Confirmation)' = Asked(Confirmation) BY <1>1, <2>1, <3>2, EventAsks
      <3> QED BY <1>2, <3>1, <3>3 DEF Accept, Seal, Discharge
    <2>2. ASSUME Next, \A j \in Tasks : ~Event(j) PROVE Asked(Confirmation)' = Asked(Confirmation)
      BY <2>2, AskedStays
    <2>3. ASSUME NEW j \in Tasks, Work(j) PROVE UNCHANGED man BY <2>3, WorkMoves
    <2>4. Cron => UNCHANGED man BY CronMoves
    <2>5. ~Forget BY <1>2 DEF Forget
    <2>6. Tick \/ Registering \/ UNCHANGED vars => UNCHANGED man
      BY DEF Tick, Registering, Ask, Register, Deregister, vars
    <2>7. UNCHANGED vars => Asked(Confirmation)' = Asked(Confirmation) BY DEF vars, kv, Asked
    <2>8. Asked(Confirmation)' = Asked(Confirmation) BY <2>1, <2>2, <2>7
    <2>9. Asked(Confirmation) # {} BY <2>8
    <2>10. man.state \in {"consumed", "gone"} BY <2>9 DEF StoryOK
    <2>11. ~Destroy BY <2>10 DEF Destroy
    <2> QED BY <2>1, <2>3, <2>4, <2>5, <2>6, <2>9, <2>11 DEF Next, Registering
  <1>5. CASE man.state = "consumed" /\ man'.since = man.since /\ Asked(Confirmation) # {}
    <2>1. CASE Settled(Confirmation) BY <1>1, <2>1, SettledStays
    <2>2. ASSUME NEW k \in Asked(Confirmation), OnTime(k)
          PROVE  Settled(Confirmation)' \/ \E x \in Asked(Confirmation)' : OnTime(x)'
      <3>1. k \in Tasks /\ task[k].e = Confirmation /\ Sending(k) BY <2>2 DEF Asked, OnTime, Sending
      <3>2. /\ task'[k].e = Confirmation /\ k \in Asked(task[k].e)'
            /\ Settled(task[k].e)' \/ OnTime(k)'
        BY <1>5, <2>2, <3>1, Carries
      <3>3. k \in Asked(Confirmation)' BY <3>1, <3>2 DEF Asked
      <3>4. Settled(task[k].e)' => Settled(Confirmation)' BY <3>2 DEF Settled
      <3> QED BY <3>2, <3>3, <3>4
    <2> QED BY <1>1, <1>5, <2>1, <2>2 DEF Safe
  <1> QED BY <1>3, <1>4, <1>5

LEMMA GoneStep ==
  ASSUME Base, Safe, [Next]_vars, Good', man'.state = "gone", Asked(Confirmation)' # {}
  PROVE  Settled(Confirmation)'
  <1> USE DEF Base
  <1>1. Good /\ Confirmation \in Events BY GoodBefore DEF Confirmation, Events
  <1>2. (Forget \/ man.state = "gone") /\ Asked(Confirmation) # {}
    <2>1. ASSUME NEW j \in Tasks, Event(j) PROVE man.state = "gone"
      BY <2>1 DEF Event, Accept, Seal, Discharge, Confirm, TypeInv, TypeOK
    <2>2. ASSUME NEW j \in Tasks, Work(j) PROVE UNCHANGED man BY <2>2, WorkMoves
    <2>3. Cron => UNCHANGED man BY CronMoves
    <2>4. Tick \/ Registering \/ UNCHANGED vars => UNCHANGED man
      BY DEF Tick, Registering, Ask, Register, Deregister, vars
    <2>5. ~Destroy BY DEF Destroy, TypeInv, TypeOK
    <2>6. Forget \/ man.state = "gone" BY <2>1, <2>2, <2>3, <2>4, <2>5 DEF Next, Registering
    <2>7. ASSUME NEW j \in Tasks, Event(j) PROVE FALSE
      BY <2>1, <2>7 DEF Event, Accept, Seal, Discharge, Confirm, TypeInv, TypeOK
    <2>8. ASSUME Next PROVE Asked(Confirmation)' = Asked(Confirmation) BY <2>7, <2>8, AskedStays
    <2>9. UNCHANGED vars => Asked(Confirmation)' = Asked(Confirmation) BY DEF vars, kv, Asked
    <2> QED BY <2>6, <2>8, <2>9
  <1>3. Settled(Confirmation)
    <2>1. CASE man.state = "gone" BY <1>1, <1>2, <2>1 DEF Safe
    <2>2. CASE Forget
      <3>1. man.state = "consumed" /\ day >= man.since + RecordLife BY <2>2 DEF Forget
      <3>2. /\ day \in Nat /\ man.since \in Nat /\ Retention \in Nat /\ RecordLife \in Nat
            /\ RecordLife > Retention /\ Retention > 0
        BY DeliveryAssumption DEF TypeInv, TypeOK
      <3>3. ASSUME NEW k \in Asked(Confirmation), OnTime(k) PROVE FALSE
        <4>1. CASE Letter(k) /\ dlq[k].since = man.since
          <5>1. day < man.since + Retention BY <4>1 DEF Asked, TypeInv, LetterOK
          <5> QED BY <3>1, <3>2, <5>1
        <4>2. CASE day = man.since BY <3>1, <3>2, <4>2
        <4> QED BY <3>3, <4>1, <4>2 DEF OnTime
      <3> QED BY <1>1, <1>2, <3>1, <3>3 DEF Safe
    <2> QED BY <1>2, <2>1, <2>2
  <1> QED BY <1>1, <1>3, SettledStays

LEMMA SafeStep ==
  ASSUME Base, Safe, [Next]_vars
  PROVE  Safe'
  <1> SUFFICES ASSUME Good'
               PROVE  /\ \A e \in Events : Asked(e)' # {} => Carried(e)' \/ e = Discharged
                      /\ guard' => Carried(Discharged)'
                      /\ Asked(Discharged)' # {} => Carried(Discharged)' \/ \E k \in Tasks : AtGuard(k)'
                      /\ JobAt("delete")' => Settled(dlq[job.k].e)'
                      /\ man'.state = "consumed" /\ Asked(Confirmation)' # {}
                           => Settled(Confirmation)' \/ \E k \in Asked(Confirmation)' : OnTime(k)'
                      /\ man'.state = "gone" /\ Asked(Confirmation)' # {} => Settled(Confirmation)'
    BY DEF Safe, AtGuard
  <1>1. Discharged \in Events BY DEF Discharged, Events, Receipts
  <1> QED BY <1>1, AskedCarried, GuardStep, DeleteStep, ConsumedStep, GoneStep

\* With the webhook registered all along and nothing failing but the endpoint, an event that
\* came up has reached it, is on its way, or waits to be sent again; the exceptions are a
\* letter that reached its end and a date seal whose transfer is over.
THEOREM NothingLost == Spec => []NotLost
  <1>1. Init => Base /\ Safe
    <2> SUFFICES ASSUME Init PROVE Safe BY InitBase
    <2>1. \A e : Asked(e) = {} BY DEF Init, Asked
    <2> QED BY <2>1 DEF Init, Safe, JobAt, Due
  <1>2. Base /\ Safe /\ [Next]_vars => (Base /\ Safe)' BY BaseStep, SafeStep
  <1>3. Base /\ Safe => NotLost
    <2> SUFFICES ASSUME Base, Safe, faults = 0, Steady, NEW e \in Events, Asked(e) # {}
                 PROVE  \/ delivered[e] > 0 \/ e \in expired
                        \/ \E k \in Asked(e) : InFlight(k) \/ dlq[k] # None
                        \/ e = "transfer.timestamp_submitted" /\ man.state # "live"
      BY DEF NotLost
    <2>1. Good BY DEF Good, Steady, First
    <2>2. Carried(e) \/ (e = Discharged /\ \E k \in Tasks : At(k, "guard") \/ At(k, "guard_put")) BY <2>1 DEF Safe
    <2>3. CASE Settled(e) BY <2>3 DEF Settled, DateSeal
    <2>4. ASSUME NEW k \in Asked(e), Sending(k) PROVE InFlight(k) \/ dlq[k] # None
      BY <2>4 DEF Sending, InFlight, Letter
    <2>5. ASSUME NEW k \in Tasks, At(k, "guard") \/ At(k, "guard_put"), e = Discharged PROVE k \in Asked(e) /\ InFlight(k)
      BY <2>5 DEF Base, TypeInv, TaskOK, Asked, InFlight, At, Idle
    <2> QED BY <2>2, <2>3, <2>4, <2>5 DEF Carried
  <1> QED BY <1>1, <1>2, <1>3, PTL DEF Spec
=============================================================================
