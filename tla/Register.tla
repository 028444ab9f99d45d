------------------------------ MODULE Register ------------------------------
(***************************************************************************)
(* The register of reports and the take-downs its cases allow.  A case is   *)
(* opened, updated, closed and reopened in Supabase; a take-down reads the  *)
(* case, reads the manifest, destroys the transfer in R2, and only then     *)
(* writes its date into the case.  Meanwhile recipients, the owner and the  *)
(* sweeps delete the same transfer.  Of a transfer this module keeps what a *)
(* take-down can tell apart; Transfer has the rest.                         *)
(***************************************************************************)
EXTENDS Naturals, FiniteSets

CONSTANTS
  Links,     \* transfers, each named by the first eight characters of its id
  NoLink,    \* a report that names none
  Slots,     \* take-downs and other deletions at work at the same time
  Keep,      \* how long a leftover record is kept
  MaxCases,  \* bound: reports opened
  MaxEdits,  \* bound: updates of cases, and clearances of training cases
  MaxNow,    \* bound: the clock
  MaxFaults  \* bound: calls that fail, answers lost, isolates that go

ASSUME RegisterAssumption ==
  /\ NoLink \notin Links
  /\ {Keep, MaxCases, MaxEdits, MaxNow, MaxFaults} \subseteq Nat

VARIABLES
  now,
  last,    \* report_counters: the last number, of training and of real cases
  rows,    \* report_register
  man,     \* the manifest of each link: [state, at, removed]
  objects, \* the links under which there are objects besides
  req,     \* the take-downs and other deletions at work
  ended,   \* history: the date each transfer's latch wrote
  met,     \* history: links on which a take-down met another deletion, or another take-down
  unsaid,  \* history: links whose take-down nobody recorded, with a reason below
  count    \* [edits, faults]: what the bounds count

store == <<last, rows>>
record == <<man, objects, ended>>
vars == <<now, store, record, req, met, unsaid, count>>

Staff == {"admin", "helper"}
Categories == {"csea", "fraud"}
HelperCategories == {"csea"}
Refs == [training : BOOLEAN, n : 1..MaxCases]
NoDate == MaxNow + 1
NoRow == [link |-> NoLink]
Idle == [pc |-> "idle"]

Init ==
  /\ now = 0
  /\ last = [training \in BOOLEAN |-> 0]
  /\ rows = [c \in Refs |-> NoRow]
  /\ man = [l \in Links |-> [state |-> "live", at |-> NoDate, removed |-> FALSE]]
  /\ objects = Links
  /\ ended = [l \in Links |-> NoDate]
  /\ req = [s \in Slots |-> Idle]
  /\ met = [meeting \in {"any", "takedowns"} |-> {}] /\ unsaid = {}
  /\ count = [edits |-> 0, faults |-> 0]

At(s, label) == req[s].pc = label
Become(s, r) == req' = [req EXCEPT ![s] = r]
Done(s) == Become(s, Idle)
Counted(what, bound) == count[what] < bound /\ count' = [count EXCEPT ![what] = @ + 1]
Fail == Counted("faults", MaxFaults)
Listed == {c \in Refs : rows[c] # NoRow}
MayAct(by, row) == by = "helper" => row.category \in HelperCategories

-----------------------------------------------------------------------------
(* The register: each function is one transaction under the row's lock.     *)

\* report_open: the counter's row is locked, and outlives the cases it numbered.
Open(training, link, category) ==
  LET c == [training |-> training, n |-> last[training] + 1] IN
  /\ last[TRUE] + last[FALSE] < MaxCases
  /\ last' = [last EXCEPT ![training] = @ + 1]
  /\ rows' = [rows EXCEPT ![c] =
       [link |-> link, category |-> category, open |-> TRUE, takedown |-> NoDate]]
  /\ UNCHANGED <<now, record, req, met, unsaid, count>>

\* report_update, of the two fields a take-down depends on.
Update(by, c, category, open) ==
  /\ c \in Listed /\ MayAct(by, rows[c])
  /\ by = "helper" => category = rows[c].category
  /\ <<category, open>> # <<rows[c].category, rows[c].open>>
  /\ Counted("edits", MaxEdits)
  /\ rows' = [rows EXCEPT ![c].category = category, ![c].open = open]
  /\ UNCHANGED <<now, last, record, req, met, unsaid>>

\* report_delete_training.
DeleteTraining ==
  LET gone == {c \in Listed : c.training} IN
  /\ gone # {}
  /\ Counted("edits", MaxEdits)
  /\ rows' = [c \in Refs |-> IF c \in gone THEN NoRow ELSE rows[c]]
  /\ unsaid' = unsaid \cup {rows[c].link : c \in {c \in gone : rows[c].takedown # NoDate}}
  /\ UNCHANGED <<now, last, record, req, met>>

-----------------------------------------------------------------------------
(* POST /admin/reports/takedown, and whatever else destroys a transfer.     *)

Begin(s, r) ==
  LET others == {q \in Slots : req[q] # Idle /\ req[q].link = r.link} IN
  /\ At(s, "idle")
  /\ Become(s, r)
  /\ met' = [meeting \in DOMAIN met |->
       IF \E q \in others : IF meeting = "any" THEN "deletion" # r.by \/ "deletion" # req[q].by
                            ELSE "deletion" \notin {r.by, req[q].by}
       THEN met[meeting] \cup {r.link} ELSE met[meeting]]
  /\ UNCHANGED <<now, store, record, unsaid, count>>

Entering(by, c, l) ==
  [pc |-> "read", by |-> by, case |-> c, link |-> l, at |-> NoDate, removed |-> FALSE]

\* report_get, and what the row must say.
Takedown(s, by, c, l) ==
  /\ c \in Listed
  /\ rows[c].link = l /\ rows[c].open /\ MayAct(by, rows[c])
  /\ Begin(s, Entering(by, c, l))

\* The recipient's or the owner's DELETE, the last download, a sweep.
Deletion(s, l) == Begin(s, Entering("deletion", NoRow, l))

\* Mutant: "already removed" is not asked: a second case takes the link down again.
ReadAgain(s) ==
  LET m == man[req[s].link] IN
  /\ At(s, "read")
  /\ Become(s,
       CASE m.state = "gone" \/ (m.state = "ended" /\ (req[s].by = "deletion" \/ ~m.removed)) -> Idle
         [] m.state = "live" -> [req[s] EXCEPT !.pc = "latch", !.at = now, !.removed = req[s].by # "deletion"]
         [] OTHER -> [req[s] EXCEPT !.pc = "delete", !.at = m.at, !.removed = m.removed])
  /\ UNCHANGED <<now, store, record, met, unsaid, count>>

\* safeGetManifest: a leftover record, or none, ends the request; a deletion cut short is
\* finished as what it was.
Read(s) ==
  LET m == man[req[s].link] IN
  /\ At(s, "read")
  /\ Become(s,
       CASE m.state \in {"ended", "gone"} -> Idle
         [] m.state = "live" -> [req[s] EXCEPT !.pc = "latch", !.at = now, !.removed = req[s].by # "deletion"]
         [] m.state = "ending" -> [req[s] EXCEPT !.pc = "delete", !.at = m.at, !.removed = m.removed])
  /\ UNCHANGED <<now, store, record, met, unsaid, count>>

\* Mutant: the date of whoever finishes, not of the latch.
LatchOwnDate(s) ==
  LET l == req[s].link
      won == man[l].state = "live" IN
  /\ At(s, "latch")
  /\ man' = IF won THEN [man EXCEPT ![l] = [state |-> "ending", at |-> req[s].at, removed |-> req[s].removed]] ELSE man
  /\ ended' = IF won THEN [ended EXCEPT ![l] = req[s].at] ELSE ended
  /\ Become(s, IF man[l].state = "gone" THEN Idle
               ELSE [req[s] EXCEPT !.pc = "delete", !.removed = @ \/ man[l].removed])
  /\ UNCHANGED <<now, store, objects, met, unsaid, count>>

\* latchConsumed: the first one dates the end, the others take its date.
Latch(s) ==
  LET l == req[s].link
      won == man[l].state = "live"
      at == IF won THEN req[s].at ELSE man[l].at IN
  /\ At(s, "latch")
  /\ man' = IF won THEN [man EXCEPT ![l] = [state |-> "ending", at |-> at, removed |-> req[s].removed]] ELSE man
  /\ ended' = IF won THEN [ended EXCEPT ![l] = at] ELSE ended
  /\ Become(s, IF man[l].state = "gone" THEN Idle
               ELSE [req[s] EXCEPT !.pc = "delete", !.at = at, !.removed = @ \/ man[l].removed])
  /\ UNCHANGED <<now, store, objects, met, unsaid, count>>

\* The listing and its batches.
Delete(s) ==
  /\ At(s, "delete")
  /\ objects' = objects \ {req[s].link}
  /\ Become(s, [req[s] EXCEPT !.pc = "tombstone"])
  /\ UNCHANGED <<now, store, man, ended, met, unsaid, count>>

\* The leftover record, put without a condition.  A take-down that another deletion
\* finishes has nobody left to record it.
Tombstone(s) ==
  LET l == req[s].link
      moderator == req[s].by # "deletion" IN
  /\ At(s, "tombstone")
  /\ man' = [man EXCEPT ![l] = [state |-> "ended", at |-> req[s].at, removed |-> req[s].removed]]
  /\ Become(s, IF moderator /\ req[s].removed THEN [req[s] EXCEPT !.pc = "record"] ELSE Idle)
  /\ unsaid' = IF ~moderator /\ req[s].removed THEN unsaid \cup {l} ELSE unsaid
  /\ UNCHANGED <<now, store, objects, ended, met, count>>

\* report_takedown asks again what the route asked before the destruction.
Recordable(r) ==
  /\ rows[r.case] # NoRow
  /\ rows[r.case].open /\ rows[r.case].link = r.link /\ MayAct(r.by, rows[r.case])

Record(s) ==
  LET c == req[s].case
      already == rows[c] # NoRow /\ rows[c].takedown # NoDate IN
  /\ At(s, "record")
  /\ rows' = IF Recordable(req[s]) /\ ~already
             THEN [rows EXCEPT ![c].takedown = req[s].at] ELSE rows
  /\ unsaid' = IF Recordable(req[s]) \/ already THEN unsaid ELSE unsaid \cup {req[s].link}
  /\ Done(s)
  /\ UNCHANGED <<now, last, record, met, count>>

\* A batch fails, the latch is contended, the put or the register's answer fails with
\* nothing written, or the isolate goes.
Crash(s) ==
  /\ req[s] # Idle /\ Fail
  /\ Done(s)
  /\ unsaid' = IF At(s, "record") THEN unsaid \cup {req[s].link} ELSE unsaid
  /\ UNCHANGED <<now, store, record, met>>

\* The nightly sweep forgets an old record.
Forget(l) ==
  /\ man[l].state = "ended" /\ now >= man[l].at + Keep
  /\ man' = [man EXCEPT ![l].state = "gone"]
  /\ UNCHANGED <<now, store, objects, ended, req, met, unsaid, count>>

Tick == now < MaxNow /\ now' = now + 1 /\ UNCHANGED <<store, record, req, met, unsaid, count>>

Next ==
  \/ \E training \in BOOLEAN, l \in Links \cup {NoLink}, category \in Categories : Open(training, l, category)
  \/ \E by \in Staff, c \in Refs, category \in Categories, open \in BOOLEAN : Update(by, c, category, open)
  \/ DeleteTraining
  \/ \E s \in Slots, l \in Links : Deletion(s, l) \/ \E by \in Staff, c \in Refs : Takedown(s, by, c, l)
  \/ \E s \in Slots : Read(s) \/ Latch(s) \/ Delete(s) \/ Tombstone(s) \/ Record(s) \/ Crash(s)
  \/ \E l \in Links : Forget(l)
  \/ Tick

Spec == Init /\ [][Next]_vars

-----------------------------------------------------------------------------
Recorded(l) == {c \in Listed : rows[c].link = l /\ rows[c].takedown # NoDate}
AtWork(l) == \E s \in Slots : req[s] # Idle /\ req[s].link = l

\* What the register says of a take-down is true of the link: nothing is left under it, the
\* date is the one its end was given, whoever resumed or finished the deletion, and, when no
\* other deletion was at work beside the take-down, the link itself says removed until its
\* record is forgotten (handleReportsTakedown, destroyTransfer, report_takedown).
TakedownTrue ==
  \A l \in Links : \A c \in Recorded(l) :
    /\ l \notin objects
    /\ rows[c].takedown = ended[l]
    /\ man[l].state \in {"ended", "gone"}
    /\ man[l].state = "ended" /\ l \notin met["any"] => man[l].removed

\* A link that says removed, with nobody at work on it, has its take-down in exactly one
\* case of the register: "a second report about the same link didn't do the take-down"
\* (reports.js:215-216).  Left out are the links whose take-down the code does not record, and
\* two take-downs at work at the same time, which both record one.
RecordedOnce ==
  \A l \in Links :
    man[l].state = "ended" /\ man[l].removed /\ ~AtWork(l) /\ l \notin unsaid \cup met["takedowns"]
      => Cardinality(Recorded(l)) = 1
=============================================================================
