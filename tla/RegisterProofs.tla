--------------------------- MODULE RegisterProofs ---------------------------
(* Machine-checked facts about Register, for every number of links, requests, *)
(* cases, edits, dates and faults.                                            *)
EXTENDS Register, FiniteSetTheorems, TLAPS

Row == [link : Links \cup {NoLink}, category : Categories, open : BOOLEAN, takedown : Nat]
Work == [pc : {"read", "latch", "delete", "tombstone", "record"}, by : Staff \cup {"deletion"},
         case : Refs \cup {NoRow}, link : Links, at : Nat, removed : BOOLEAN]

-----------------------------------------------------------------------------
(* The inductive invariant.                                                   *)

Types ==
  /\ now \in 0..MaxNow
  /\ last \in [BOOLEAN -> Nat]
  /\ rows \in [Refs -> Row \cup {NoRow}]
  /\ man \in [Links -> [state : {"live", "ending", "ended", "gone"}, at : Nat, removed : BOOLEAN]]
  /\ objects \subseteq Links
  /\ ended \in [Links -> Nat]
  /\ req \in [Slots -> Work \cup {Idle}]
  /\ met \in [{"any", "takedowns"} -> SUBSET Links]

Busy(s, l) == req[s].pc # "idle" /\ req[s].link = l
Over(l) == man[l].state \in {"ended", "gone"}

\* The manifest's date is the latch's; nothing is left under a link that is over.
Dated ==
  \A l \in Links :
    /\ man[l].state # "live" => man[l].at = ended[l] /\ ended[l] # NoDate
    /\ man[l].state = "live" => ~man[l].removed
    /\ Over(l) => l \notin objects

\* What a request knows at each of its steps.
Knows(r) ==
  /\ r.pc = "latch" => r.at # NoDate /\ r.removed = (r.by # "deletion")
  /\ r.pc \in {"delete", "tombstone", "record"} => man[r.link].state # "live" /\ r.at = ended[r.link]
  /\ r.pc \in {"tombstone", "record"} => r.link \notin objects
  /\ r.pc = "record" => r.removed /\ r.by # "deletion" /\ Over(r.link)
Known == \A s \in Slots : req[s].pc # "idle" => Knows(req[s])

\* A case's number is never given again, so its link is the one it was opened for.
Numbered ==
  /\ \A c \in Refs : rows[c] # NoRow => c.n <= last[c.training]
  /\ \A s \in Slots : req[s].pc # "idle" /\ req[s].by # "deletion" =>
       /\ req[s].case \in Refs /\ req[s].case.n <= last[req[s].case.training]
       /\ rows[req[s].case] # NoRow => rows[req[s].case].link = req[s].link

\* The date in a case is the latch's, and the transfer is over.
Written == \A l \in Links : \A c \in Recorded(l) : rows[c].takedown = ended[l] /\ Over(l)

\* Where no take-down met another request, requests at work side by side are deletions,
Alone ==
  \A s, q \in Slots : \A l \in Links \ met["any"] :
    s # q /\ Busy(s, l) /\ Busy(q, l) => req[s].by = "deletion" /\ req[q].by = "deletion"

\* and removed, once the manifest says it, is what each of them carries on.
Marked ==
  \A l \in Links \ met["any"] :
    /\ \A s \in Slots : Busy(s, l) /\ req[s].pc \in {"latch", "delete", "tombstone"} =>
         /\ man[l].removed => req[s].removed
         /\ req[s].by = "deletion" /\ req[s].removed => man[l].removed
    /\ \A s \in Slots : Busy(s, l) /\ req[s].pc = "record" => man[l].removed
    /\ Recorded(l) # {} => man[l].removed

\* Where take-downs did not meet, one is at work at a time, and none past its
\* reading once a case has the date, which is one case.
Paired ==
  \A l \in Links \ met["takedowns"] :
    /\ \A s, q \in Slots : s # q /\ Busy(s, l) /\ Busy(q, l) => "deletion" \in {req[s].by, req[q].by}
    /\ Recorded(l) # {} => \A s \in Slots : Busy(s, l) /\ req[s].by # "deletion" => req[s].pc = "read"
    /\ \A c, d \in Recorded(l) : c = d

\* A link that says removed has its case, or is about to.
Said ==
  \A l \in Links \ (unsaid \cup met["takedowns"]) :
    man[l].state = "ended" /\ man[l].removed =>
      Recorded(l) # {} \/ \E s \in Slots : Busy(s, l) /\ req[s].pc = "record"

Inv == Types /\ Dated /\ Known /\ Numbered /\ Written /\ Alone /\ Marked /\ Paired /\ Said

LEMMA Slot ==
  ASSUME Types, NEW s \in Slots
  PROVE  /\ req[s] = Idle <=> req[s].pc = "idle"
         /\ req[s].pc # "idle" => req[s] \in Work
  BY DEF Types, Work, Idle

LEMMA LinkedRow ==
  ASSUME Types, NEW l \in Links, NEW c \in Refs
  PROVE  /\ rows[c] # NoRow => rows[c] \in Row
         /\ rows[c] \in Row /\ rows[c].link = l => rows[c] # NoRow
  BY RegisterAssumption DEF Types, Row, NoRow

LEMMA InitInv == Init => Inv
  <1> SUFFICES ASSUME Init PROVE Inv
    OBVIOUS
  <1>1. NoDate \in Nat /\ 0 \in 0..MaxNow /\ 0 # NoDate
    BY RegisterAssumption DEF NoDate
  <1>2. Types
    BY <1>1 DEF Init, Types, NoRow, Idle
  <1>3. \A l \in Links : Recorded(l) = {}
    BY DEF Init, Recorded, Listed
  <1>4. \A s \in Slots : req[s].pc = "idle"
    BY DEF Init, Idle
  <1>5. \A l \in Links : man[l].state = "live" /\ ~man[l].removed
    BY DEF Init
  <1>6. \A c \in Refs : rows[c] = NoRow
    BY DEF Init
  <1> QED
    BY <1>2, <1>3, <1>4, <1>5, <1>6
       DEF Inv, Dated, Over, Known, Numbered, Written, Alone, Busy, Marked, Paired, Said

-----------------------------------------------------------------------------
(* The cases change, the transfers and the requests do not.                   *)

\* No case gets a date, one that loses it is answered for, and the others keep
\* their numbers and links.
LEMMA CasesInv ==
  ASSUME Inv, UNCHANGED <<now, record, req, met>>,
         last' \in [BOOLEAN -> Nat], rows' \in [Refs -> Row \cup {NoRow}],
         \A training \in BOOLEAN : last[training] <= last'[training],
         \A c \in Refs : rows'[c] # NoRow => c.n <= last'[c.training],
         \A c \in Refs : c.n <= last[c.training] /\ rows'[c] # NoRow =>
                           rows[c] # NoRow /\ rows'[c].link = rows[c].link,
         \A l \in Links : Recorded(l)' \subseteq Recorded(l)
                          /\ (Recorded(l)' = Recorded(l) \/ l \in unsaid'),
         \A c \in Refs : rows'[c] # NoRow /\ rows'[c].takedown # NoDate =>
                           rows'[c].takedown = rows[c].takedown,
         unsaid \subseteq unsaid'
  PROVE  Inv'
  <1> USE DEF Inv
  <1>1. Types'
    BY DEF Types, record
  <1>2. Dated'
    BY DEF Dated, Over, record
  <1>3. Known'
    BY DEF Known, Knows, Over, record
  <1>4. Numbered'
    <2>1. \A c \in Refs : c.n \in Nat /\ c.training \in BOOLEAN
      BY DEF Refs
    <2>2. ASSUME NEW s \in Slots, req[s].pc # "idle", req[s].by # "deletion"
          PROVE  /\ req[s].case \in Refs /\ req[s].case.n <= last'[req[s].case.training]
                 /\ rows'[req[s].case] # NoRow => rows'[req[s].case].link = req[s].link
      <3> DEFINE c == req[s].case
      <3>1. c \in Refs /\ c.n <= last[c.training] /\ (rows[c] # NoRow => rows[c].link = req[s].link)
        BY <2>2 DEF Numbered
      <3> HIDE DEF c
      <3>2. c.n <= last'[c.training]
        BY <2>1, <3>1 DEF Types
      <3> QED
        BY <3>1, <3>2 DEF c
    <2> QED
      BY <2>2 DEF Numbered
  <1>5. Written'
    BY DEF Written, Recorded, Listed, Over, record
  <1>6. Alone'
    BY DEF Alone, Busy
  <1>7. Marked'
    BY DEF Marked, Busy, record
  <1>8. Paired'
    BY DEF Paired, Busy
  <1>9. Said'
    BY DEF Said, Busy, record
  <1> QED
    BY <1>1, <1>2, <1>3, <1>4, <1>5, <1>6, <1>7, <1>8, <1>9

LEMMA OpenInv ==
  ASSUME Inv, NEW training \in BOOLEAN, NEW link \in Links \cup {NoLink}, NEW category \in Categories,
         Open(training, link, category)
  PROVE  Inv'
  <1> DEFINE c == [training |-> training, n |-> last[training] + 1]
             row == [link |-> link, category |-> category, open |-> TRUE, takedown |-> NoDate]
  <1>1. /\ last[TRUE] + last[FALSE] < MaxCases
        /\ last' = [last EXCEPT ![training] = @ + 1]
        /\ rows' = [rows EXCEPT ![c] = row]
        /\ UNCHANGED <<now, record, req, met, unsaid>>
    BY DEF Open
  <1>2. last \in [BOOLEAN -> Nat] /\ rows \in [Refs -> Row \cup {NoRow}] /\ MaxCases \in Nat /\ NoDate \in Nat
    BY RegisterAssumption DEF Inv, Types, NoDate
  <1>3. last[training] \in Nat /\ last[training] + 1 <= MaxCases
    <2> DEFINE a == last[TRUE]
               b == last[FALSE]
    <2>1. a \in Nat /\ b \in Nat
      BY <1>2
    <2>2. last[training] = a \/ last[training] = b
      BY ZenonT(30)
    <2>3. a + b < MaxCases
      BY <1>1
    <2> HIDE DEF a, b
    <2> QED
      BY <1>2, <2>1, <2>2, <2>3
  <1>4. c \in Refs /\ c.training = training /\ c.n = last[training] + 1
    BY <1>2, <1>3 DEF Refs
  <1>5. row \in Row /\ row.takedown = NoDate
    BY <1>2 DEF Row
  <1> HIDE DEF c, row
  <1>6. rows[c] = NoRow
    BY <1>3, <1>4 DEF Inv, Numbered
  <1>7. last' \in [BOOLEAN -> Nat] /\ rows' \in [Refs -> Row \cup {NoRow}]
    BY <1>1, <1>2, <1>4, <1>5
  <1>8. \A b \in BOOLEAN : last[b] \in Nat /\ last[b] <= last'[b]
    BY <1>1, <1>2
  <1>9. \A d \in Refs : d # c => rows'[d] = rows[d]
    BY <1>1, <1>2
  <1>10. rows'[c] = row /\ last'[training] = last[training] + 1
    BY <1>1, <1>2, <1>4
  <1>11. \A d \in Refs : rows'[d] # NoRow => d.n <= last'[d.training]
    <2> SUFFICES ASSUME NEW d \in Refs, rows'[d] # NoRow PROVE d.n <= last'[d.training]
      OBVIOUS
    <2>1. CASE d = c
      BY <1>3, <1>4, <1>10, <2>1
    <2>2. CASE d # c
      <3>1. d.n <= last[d.training] /\ d.training \in BOOLEAN /\ d.n \in Nat
        BY <1>9, <2>2 DEF Inv, Numbered, Refs
      <3> QED
        BY <1>8, <3>1, <1>7
    <2> QED
      BY <2>1, <2>2
  <1>12. \A l \in Links : Recorded(l)' = Recorded(l)
    BY <1>5, <1>6, <1>9, <1>10 DEF Recorded, Listed
  <1>13. \A d \in Refs : d.n <= last[d.training] /\ rows'[d] # NoRow =>
                           rows[d] # NoRow /\ rows'[d].link = rows[d].link
    BY <1>3, <1>4, <1>9
  <1>14. \A d \in Refs : rows'[d] # NoRow /\ rows'[d].takedown # NoDate =>
                           rows'[d].takedown = rows[d].takedown
    BY <1>5, <1>9, <1>10
  <1> QED
    BY <1>1, <1>7, <1>8, <1>11, <1>12, <1>13, <1>14, CasesInv

LEMMA UpdateInv ==
  ASSUME Inv, NEW by \in Staff, NEW c \in Refs, NEW category \in Categories, NEW open \in BOOLEAN,
         Update(by, c, category, open)
  PROVE  Inv'
  <1>1. /\ rows[c] # NoRow
        /\ rows' = [rows EXCEPT ![c].category = category, ![c].open = open]
        /\ UNCHANGED <<now, last, record, req, met, unsaid>>
    BY DEF Update, Listed
  <1>2. rows \in [Refs -> Row \cup {NoRow}] /\ last \in [BOOLEAN -> Nat]
    BY DEF Inv, Types
  <1>3. rows[c] \in Row
    BY <1>1, <1>2
  <1> DEFINE row == [rows[c] EXCEPT !.category = category, !.open = open]
  <1>4. row \in Row /\ row.link = rows[c].link /\ row.takedown = rows[c].takedown
    BY <1>3 DEF Row
  <1>5. rows'[c] = row /\ \A d \in Refs : d # c => rows'[d] = rows[d]
    BY <1>1, <1>2
  <1> HIDE DEF row
  <1>6. rows' \in [Refs -> Row \cup {NoRow}]
    BY <1>1, <1>2, <1>3, <1>4, <1>5
  <1>7. \A l \in Links : Recorded(l)' = Recorded(l)
    <2> SUFFICES ASSUME NEW l \in Links, NEW d \in Refs
                 PROVE  d \in Recorded(l)' <=> d \in Recorded(l)
      BY DEF Recorded, Listed
    <2>1. rows'[d] \in Row /\ rows'[d].link = l => rows'[d] # NoRow
      BY RegisterAssumption DEF NoRow
    <2> QED
      BY <1>1, <1>4, <1>5, <2>1 DEF Recorded, Listed
  <1>8. \A d \in Refs : rows'[d] # NoRow =>
          rows[d] # NoRow /\ rows'[d].link = rows[d].link /\ rows'[d].takedown = rows[d].takedown
    BY <1>1, <1>4, <1>5
  <1>9. \A training \in BOOLEAN : last[training] <= last'[training]
    BY <1>1, <1>2
  <1>10. \A d \in Refs : rows'[d] # NoRow => d.n <= last'[d.training]
    BY <1>1, <1>8 DEF Inv, Numbered
  <1> QED
    BY <1>1, <1>2, <1>6, <1>7, <1>8, <1>9, <1>10, CasesInv

LEMMA DeleteTrainingInv ==
  ASSUME Inv, DeleteTraining
  PROVE  Inv'
  <1> DEFINE gone == {c \in Listed : c.training}
  <1>1. /\ rows' = [c \in Refs |-> IF c \in gone THEN NoRow ELSE rows[c]]
        /\ unsaid' = unsaid \cup {rows[c].link : c \in {c \in gone : rows[c].takedown # NoDate}}
        /\ UNCHANGED <<now, last, record, req, met>>
    BY DEF DeleteTraining
  <1>2. rows \in [Refs -> Row \cup {NoRow}] /\ last \in [BOOLEAN -> Nat]
    BY DEF Inv, Types
  <1> HIDE DEF gone
  <1>3. rows' \in [Refs -> Row \cup {NoRow}]
    BY <1>1, <1>2
  <1>4. \A d \in Refs : rows'[d] # NoRow => rows'[d] = rows[d] /\ d \notin gone
    BY <1>1
  <1>5. ASSUME NEW l \in Links
        PROVE  Recorded(l)' \subseteq Recorded(l) /\ (Recorded(l)' = Recorded(l) \/ l \in unsaid')
    <2>1. Recorded(l)' \subseteq Recorded(l)
      BY <1>4 DEF Recorded, Listed
    <2>2. ASSUME NEW c \in Recorded(l), c \notin Recorded(l)'
          PROVE  l \in unsaid'
      BY <1>1, <2>2 DEF Recorded, Listed
    <2> QED
      BY <2>1, <2>2
  <1>6. \A training \in BOOLEAN : last[training] <= last'[training]
    BY <1>1, <1>2
  <1>7. \A d \in Refs : rows'[d] # NoRow => d.n <= last'[d.training]
    BY <1>1, <1>4 DEF Inv, Numbered
  <1> QED
    BY <1>1, <1>2, <1>3, <1>4, <1>5, <1>6, <1>7, CasesInv

-----------------------------------------------------------------------------
(* A request begins, or leaves.                                               *)

LEMMA BeginInv ==
  ASSUME Inv, NEW s \in Slots, NEW r \in Work, Begin(s, r), r.pc = "read",
         r.by # "deletion" => /\ r.case \in Refs /\ rows[r.case] # NoRow
                              /\ rows[r.case].link = r.link
  PROVE  Inv'
  <1> USE DEF Inv
  <1> DEFINE others == {q \in Slots : req[q] # Idle /\ req[q].link = r.link}
  <1>1. /\ req[s].pc = "idle" /\ req' = [req EXCEPT ![s] = r]
        /\ met' = [meeting \in DOMAIN met |->
             IF \E q \in others : IF meeting = "any" THEN "deletion" # r.by \/ "deletion" # req[q].by
                                  ELSE "deletion" \notin {r.by, req[q].by}
             THEN met[meeting] \cup {r.link} ELSE met[meeting]]
        /\ UNCHANGED <<now, store, record, unsaid, count>>
    BY DEF Begin, At, Become
  <1>2. r.link \in Links /\ DOMAIN met = {"any", "takedowns"}
    BY DEF Work, Types
  <1>3. \A q \in Slots : q \in others <=> Busy(q, r.link)
    BY Slot DEF Busy
  <1>4. /\ met \in [{"any", "takedowns"} -> SUBSET Links]
        /\ met' \in [{"any", "takedowns"} -> SUBSET Links]
        /\ met["any"] \subseteq met'["any"] /\ met["takedowns"] \subseteq met'["takedowns"]
    BY <1>1, <1>2 DEF Types
  <1>5. /\ \A q \in Slots : Busy(q, r.link) /\ r.link \notin met'["any"] =>
                              r.by = "deletion" /\ req[q].by = "deletion"
        /\ \A q \in Slots : Busy(q, r.link) /\ r.link \notin met'["takedowns"] =>
                              "deletion" \in {r.by, req[q].by}
    BY <1>1, <1>2, <1>3
  <1> HIDE DEF others
  <1>6. req'[s] = r /\ \A q \in Slots : q # s => req'[q] = req[q]
    BY <1>1 DEF Types
  <1>7. \A q \in Slots : \A l \in Links : Busy(q, l)' <=> IF q = s THEN r.link = l ELSE Busy(q, l)
    BY <1>1, <1>6 DEF Busy
  <1>8. \A l \in Links : Recorded(l)' = Recorded(l)
    BY <1>1 DEF Recorded, Listed, store
  <1>9. Types'
    BY <1>1, <1>4 DEF Types, store, record
  <1>10. Dated'
    BY <1>1 DEF Dated, Over, record
  <1>11. Known'
    BY <1>1, <1>6 DEF Known, Knows, Over, record
  <1>12. Numbered'
    BY <1>1, <1>6 DEF Numbered, store
  <1>13. Written'
    BY <1>1, <1>8 DEF Written, Over, store, record
  <1>14. Alone'
    BY <1>4, <1>5, <1>6, <1>7 DEF Alone
  <1>15. Marked'
    BY <1>1, <1>4, <1>6, <1>7, <1>8 DEF Marked, record
  <1>16. Paired'
    BY <1>4, <1>5, <1>6, <1>7, <1>8 DEF Paired
  <1>17. Said'
    BY <1>1, <1>4, <1>6, <1>7, <1>8 DEF Said, record
  <1> QED
    BY <1>9, <1>10, <1>11, <1>12, <1>13, <1>14, <1>15, <1>16, <1>17

LEMMA TakedownInv ==
  ASSUME Inv, NEW s \in Slots, NEW by \in Staff, NEW c \in Refs, NEW l \in Links, Takedown(s, by, c, l)
  PROVE  Inv'
  <1>1. rows[c] # NoRow /\ rows[c].link = l /\ Begin(s, Entering(by, c, l))
    BY DEF Takedown, Listed
  <1> DEFINE r == Entering(by, c, l)
  <1>2. r \in Work /\ r.pc = "read" /\ r.case = c /\ r.link = l
    BY RegisterAssumption DEF Entering, Work, NoDate
  <1> HIDE DEF r
  <1>3. Begin(s, r)
    BY <1>1 DEF r
  <1> QED
    BY <1>1, <1>2, <1>3, BeginInv

LEMMA DeletionInv ==
  ASSUME Inv, NEW s \in Slots, NEW l \in Links, Deletion(s, l)
  PROVE  Inv'
  <1> DEFINE r == Entering("deletion", NoRow, l)
  <1>1. r \in Work /\ r.pc = "read" /\ r.by = "deletion"
    BY RegisterAssumption DEF Entering, Work, NoDate
  <1>2. Begin(s, r)
    BY DEF Deletion
  <1> HIDE DEF r
  <1> QED
    BY <1>1, <1>2, BeginInv

-----------------------------------------------------------------------------
(* A request goes on.                                                         *)

LEMMA OneSlot ==
  ASSUME Types, NEW s \in Slots, NEW r, r \in Work \cup {Idle}, req' = [req EXCEPT ![s] = r]
  PROVE  /\ req' \in [Slots -> Work \cup {Idle}]
         /\ req'[s] = r /\ \A q \in Slots : q # s => req'[q] = req[q]
         /\ \A q \in Slots : \A l \in Links :
              Busy(q, l)' <=> IF q = s THEN r.pc # "idle" /\ r.link = l ELSE Busy(q, l)
  BY DEF Types, Busy

LEMMA ReadInv ==
  ASSUME Inv, NEW s \in Slots, Read(s)
  PROVE  Inv'
  <1> USE DEF Inv
  <1> DEFINE k == req[s].link
             m == man[k]
             r == CASE m.state \in {"ended", "gone"} -> Idle
                    [] m.state = "live" -> [req[s] EXCEPT !.pc = "latch", !.at = now, !.removed = req[s].by # "deletion"]
                    [] m.state = "ending" -> [req[s] EXCEPT !.pc = "delete", !.at = m.at, !.removed = m.removed]
  <1>1. /\ req[s].pc = "read" /\ req' = [req EXCEPT ![s] = r]
        /\ UNCHANGED <<now, store, record, met, unsaid>>
    BY DEF Read, At, Become
  <1>2. req[s] \in Work /\ k \in Links
    BY <1>1, Slot DEF Work
  <1>3. /\ m \in [state : {"live", "ending", "ended", "gone"}, at : Nat, removed : BOOLEAN]
        /\ now \in Nat /\ now # NoDate
    BY <1>2, RegisterAssumption DEF Types, NoDate
  <1>4. \/ r = Idle /\ m.state \in {"ended", "gone"}
        \/ /\ m.state = "live" /\ r \in Work /\ r.pc = "latch" /\ r.at = now
           /\ r.removed = (r.by # "deletion") /\ r.by = req[s].by /\ r.case = req[s].case /\ r.link = k
        \/ /\ m.state = "ending" /\ r \in Work /\ r.pc = "delete" /\ r.at = m.at
           /\ r.removed = m.removed /\ r.by = req[s].by /\ r.case = req[s].case /\ r.link = k
    <2>1. CASE m.state = "live"
      BY <1>2, <1>3, <2>1 DEF Work
    <2>2. CASE m.state = "ending"
      BY <1>2, <1>3, <2>2 DEF Work
    <2>3. CASE m.state \in {"ended", "gone"}
      BY <2>3
    <2> QED
      BY <1>3, <2>1, <2>2, <2>3
  <1> HIDE DEF r
  <1>5. /\ req'[s] = r /\ \A q \in Slots : q # s => req'[q] = req[q]
        /\ req' \in [Slots -> Work \cup {Idle}]
        /\ \A q \in Slots : \A l \in Links :
             Busy(q, l)' <=> IF q = s THEN r.pc # "idle" /\ r.link = l ELSE Busy(q, l)
    BY <1>1, <1>4, OneSlot
  <1>6. \A l \in Links : Recorded(l)' = Recorded(l)
    BY <1>1 DEF Recorded, Listed, store
  <1>7. Idle.pc = "idle"
    BY DEF Idle
  <1>8. Types' /\ Dated' /\ Written'
    BY <1>1, <1>5, <1>6 DEF Types, Dated, Over, Written, store, record
  <1>9. Known'
    BY <1>1, <1>2, <1>3, <1>4, <1>5, <1>7 DEF Dated, Known, Knows, Over, record
  <1>10. Numbered'
    BY <1>1, <1>4, <1>5, <1>7 DEF Numbered, store
  <1>11. Alone'
    BY <1>1, <1>4, <1>5, <1>7 DEF Alone, Busy
  <1>12. Marked'
    <2>1. m.state = "live" => ~m.removed
      BY <1>2 DEF Dated
    <2>2. m.removed \in BOOLEAN
      BY <1>3
    <2>3. ASSUME NEW l \in Links \ met["any"], Busy(s, l)', r.pc \in {"latch", "delete", "tombstone"}
          PROVE  (man[l].removed => r.removed) /\ (r.by = "deletion" /\ r.removed => man[l].removed)
      BY <1>4, <1>5, <1>7, <2>1, <2>2, <2>3
    <2>4. r.pc # "record"
      BY <1>4, <1>7
    <2>5. man' = man /\ met' = met
      BY <1>1 DEF record
    <2> QED
      BY <1>5, <1>6, <2>3, <2>4, <2>5 DEF Marked
  <1>13. Paired'
    <2>1. Recorded(k) # {} => m.state \in {"ended", "gone"}
      BY <1>2 DEF Written, Over
    <2> QED
      BY <1>1, <1>2, <1>4, <1>5, <1>6, <1>7, <2>1 DEF Paired, Busy
  <1>14. Said'
    BY <1>1, <1>4, <1>5, <1>6, <1>7 DEF Said, record, Busy
  <1> QED
    BY <1>8, <1>9, <1>10, <1>11, <1>12, <1>13, <1>14

LEMMA LatchInv ==
  ASSUME Inv, NEW s \in Slots, Latch(s)
  PROVE  Inv'
  <1> USE DEF Inv
  <1> DEFINE k == req[s].link
             won == man[k].state = "live"
             at == IF won THEN req[s].at ELSE man[k].at
             r == IF man[k].state = "gone" THEN Idle
                  ELSE [req[s] EXCEPT !.pc = "delete", !.at = at, !.removed = @ \/ man[k].removed]
  <1>1. /\ req[s].pc = "latch" /\ req' = [req EXCEPT ![s] = r]
        /\ man' = IF won THEN [man EXCEPT ![k] = [state |-> "ending", at |-> at, removed |-> req[s].removed]] ELSE man
        /\ ended' = IF won THEN [ended EXCEPT ![k] = at] ELSE ended
        /\ UNCHANGED <<now, store, objects, met, unsaid>>
    BY DEF Latch, At, Become
  <1>2. req[s] \in Work /\ k \in Links /\ req[s].at # NoDate /\ req[s].at \in Nat
        /\ req[s].removed \in BOOLEAN /\ Busy(s, k)
    BY <1>1, Slot DEF Work, Known, Knows, Busy
  <1>3. man[k] \in [state : {"live", "ending", "ended", "gone"}, at : Nat, removed : BOOLEAN]
    BY <1>2 DEF Types
  <1>4. at \in Nat
    BY <1>2, <1>3
  <1>5. \/ man[k].state = "gone" /\ r = Idle
        \/ /\ man[k].state # "gone" /\ r \in Work /\ r.pc = "delete" /\ r.at = at
           /\ r.removed = (req[s].removed \/ man[k].removed)
           /\ r.by = req[s].by /\ r.case = req[s].case /\ r.link = k
    BY <1>2, <1>3, <1>4 DEF Work
  <1> HIDE DEF r
  <1>6. /\ req'[s] = r /\ \A q \in Slots : q # s => req'[q] = req[q]
        /\ req' \in [Slots -> Work \cup {Idle}]
        /\ \A q \in Slots : \A l \in Links :
             Busy(q, l)' <=> IF q = s THEN r.pc # "idle" /\ r.link = l ELSE Busy(q, l)
    BY <1>1, <1>5, OneSlot
  <1>7. \A l \in Links : Recorded(l)' = Recorded(l)
    BY <1>1 DEF Recorded, Listed, store
  <1>8. Idle.pc = "idle"
    BY DEF Idle
  <1>9. \A l \in Links : l # k => man'[l] = man[l] /\ ended'[l] = ended[l]
    BY <1>1, <1>2 DEF Types
  <1>10. CASE ~won
    <2>1. man' = man /\ ended' = ended /\ at = man[k].at
      BY <1>1, <1>10
    <2>2. Types'
      <3>1. UNCHANGED <<now, last, rows, man, objects, ended, met>>
        BY <1>1, <2>1 DEF store
      <3> QED
        BY <1>6, <3>1 DEF Types
    <2>9. Dated' /\ Written'
      BY <1>1, <1>7, <2>1 DEF Dated, Over, Written, store
    <2>3. Known'
      BY <1>1, <1>2, <1>5, <1>6, <1>8, <1>10, <2>1 DEF Known, Knows, Over, Dated
    <2>4. Numbered'
      BY <1>1, <1>5, <1>6, <1>8 DEF Numbered, store
    <2>5. Alone'
      BY <1>1, <1>2, <1>5, <1>6, <1>8 DEF Alone, Busy
    <2>6. Marked'
      <3>1. req[s].removed = (req[s].by # "deletion")
        BY <1>1 DEF Known, Knows
      <3>2. man[k].removed \in BOOLEAN
        BY <1>3
      <3>3. ASSUME NEW l \in Links \ met["any"], Busy(s, l)', r.pc \in {"latch", "delete", "tombstone"}
            PROVE  (man[l].removed => r.removed) /\ (r.by = "deletion" /\ r.removed => man[l].removed)
        BY <1>2, <1>5, <1>6, <1>8, <3>1, <3>2, <3>3
      <3>4. r.pc # "record"
        BY <1>5, <1>8
      <3> QED
        BY <1>1, <1>6, <1>7, <2>1, <3>3, <3>4 DEF Marked
    <2>7. Paired'
      BY <1>1, <1>2, <1>5, <1>6, <1>7, <1>8 DEF Paired, Busy
    <2>8. Said'
      BY <1>1, <1>2, <1>5, <1>6, <1>7, <1>8, <2>1 DEF Said, Busy
    <2> QED
      BY <2>2, <2>3, <2>4, <2>5, <2>6, <2>7, <2>8, <2>9
  <1>11. CASE won
    <2> DEFINE new == [state |-> "ending", at |-> at, removed |-> req[s].removed]
    <2>1. /\ man' = [man EXCEPT ![k] = new] /\ ended' = [ended EXCEPT ![k] = at]
          /\ new.state = "ending" /\ new.at = at /\ new.removed = req[s].removed
          /\ new \in [state : {"live", "ending", "ended", "gone"}, at : Nat, removed : BOOLEAN]
          /\ at = req[s].at /\ man[k].state # "gone"
      BY <1>1, <1>2, <1>4, <1>11
    <2> HIDE DEF new, at
    <2>2. man'[k] = new /\ ended'[k] = at
      BY <1>2, <2>1 DEF Types
    <2>3. ~man[k].removed
      BY <1>2, <1>11 DEF Dated
    <2>4. Types'
      <3>1. UNCHANGED <<now, last, rows, objects, met>>
        BY <1>1 DEF store
      <3>2. man' \in [Links -> [state : {"live", "ending", "ended", "gone"}, at : Nat, removed : BOOLEAN]]
            /\ ended' \in [Links -> Nat]
        BY <1>4, <2>1 DEF Types
      <3> QED
        BY <1>6, <3>1, <3>2 DEF Types
    <2>5. Dated'
      BY <1>1, <1>2, <1>9, <2>1, <2>2 DEF Dated, Over
    <2>6. Known'
      <3>1. \A q \in Slots : req[q].pc \in {"delete", "tombstone", "record"} => req[q].link # k
        BY <1>11 DEF Known, Knows
      <3>2. \A q \in Slots : req[q].pc # "idle" => req[q].link \in Links
        BY Slot DEF Work
      <3> QED
        BY <1>1, <1>2, <1>5, <1>6, <1>8, <1>9, <2>1, <2>2, <3>1, <3>2 DEF Known, Knows, Over
    <2>7. Numbered'
      BY <1>1, <1>5, <1>6, <1>8 DEF Numbered, store
    <2>8. Recorded(k) = {}
      BY <1>2, <1>11 DEF Written, Over
    <2>9. Written'
      BY <1>1, <1>7, <1>9, <2>8 DEF Written, Over, store
    <2>10. Alone'
      BY <1>1, <1>2, <1>5, <1>6, <1>8 DEF Alone, Busy
    <2>11. Marked'
      <3>1. req[s].removed = (req[s].by # "deletion")
        BY <1>1 DEF Known, Knows
      <3>2. r.removed = req[s].removed /\ r.pc = "delete" /\ r.link = k
        BY <1>2, <1>3, <1>5, <2>1, <2>3
      <3>3. ASSUME NEW l \in Links, l \notin met'["any"], l = k
            PROVE  /\ \A q \in Slots : Busy(q, l)' /\ req'[q].pc \in {"latch", "delete", "tombstone"} =>
                        /\ man'[l].removed => req'[q].removed
                        /\ req'[q].by = "deletion" /\ req'[q].removed => man'[l].removed
                   /\ \A q \in Slots : Busy(q, l)' /\ req'[q].pc = "record" => man'[l].removed
                   /\ Recorded(l)' # {} => man'[l].removed
        <4>1. Recorded(l)' = {}
          BY <1>7, <2>8, <3>3
        <4>2. \A q \in Slots : Busy(q, l)' => req'[q].pc # "record"
          BY <1>6, <2>1, <2>2, <2>6, <3>3 DEF Busy, Known, Knows, Over
        <4>3. \A q \in Slots : q # s /\ Busy(q, l) => req[s].by = "deletion" /\ req[q].by = "deletion"
          BY <1>1, <1>2, <3>3 DEF Alone
        <4>4. \A q \in Slots : q # s /\ Busy(q, l) /\ req[q].pc \in {"latch", "delete", "tombstone"} =>
                 (req[q].by = "deletion" /\ req[q].removed => man[l].removed)
          BY <1>1, <3>3 DEF Marked
        <4> QED
          BY <1>6, <2>1, <2>2, <2>3, <3>1, <3>2, <3>3, <4>1, <4>2, <4>3, <4>4
      <3> QED
        BY <1>1, <1>6, <1>7, <1>9, <3>2, <3>3 DEF Marked
    <2>12. Paired'
      BY <1>1, <1>2, <1>5, <1>6, <1>7, <1>8, <2>8 DEF Paired, Busy
    <2>13. Said'
      BY <1>1, <1>2, <1>5, <1>6, <1>7, <1>8, <1>9, <2>1, <2>2 DEF Said, Busy
    <2> QED
      BY <2>4, <2>5, <2>6, <2>7, <2>9, <2>10, <2>11, <2>12, <2>13
  <1> QED
    BY <1>10, <1>11

LEMMA DeleteInv ==
  ASSUME Inv, NEW s \in Slots, Delete(s)
  PROVE  Inv'
  <1> USE DEF Inv
  <1> DEFINE k == req[s].link
             r == [req[s] EXCEPT !.pc = "tombstone"]
  <1>1. /\ req[s].pc = "delete" /\ req' = [req EXCEPT ![s] = r] /\ objects' = objects \ {k}
        /\ UNCHANGED <<now, store, man, ended, met, unsaid>>
    BY DEF Delete, At, Become
  <1>2. req[s] \in Work /\ k \in Links /\ Busy(s, k)
    BY <1>1, Slot DEF Work, Busy
  <1>3. /\ r \in Work /\ r.pc = "tombstone" /\ r.at = req[s].at /\ r.removed = req[s].removed
        /\ r.by = req[s].by /\ r.case = req[s].case /\ r.link = k
    BY <1>2 DEF Work
  <1> HIDE DEF r
  <1>4. /\ req'[s] = r /\ \A q \in Slots : q # s => req'[q] = req[q]
        /\ req' \in [Slots -> Work \cup {Idle}]
        /\ \A q \in Slots : \A l \in Links :
             Busy(q, l)' <=> IF q = s THEN r.pc # "idle" /\ r.link = l ELSE Busy(q, l)
    BY <1>1, <1>3, OneSlot
  <1>5. \A l \in Links : Recorded(l)' = Recorded(l)
    BY <1>1 DEF Recorded, Listed, store
  <1>6. Types' /\ Dated' /\ Written'
    BY <1>1, <1>4, <1>5 DEF Types, Dated, Over, Written, store
  <1>7. Known'
    BY <1>1, <1>3, <1>4 DEF Known, Knows, Over
  <1>8. Numbered'
    BY <1>1, <1>3, <1>4 DEF Numbered, store
  <1>9. Alone'
    BY <1>1, <1>2, <1>3, <1>4 DEF Alone, Busy
  <1>10. Marked'
    BY <1>1, <1>2, <1>3, <1>4, <1>5 DEF Marked
  <1>11. Paired'
    BY <1>1, <1>2, <1>3, <1>4, <1>5 DEF Paired, Busy
  <1>12. Said'
    BY <1>1, <1>2, <1>3, <1>4, <1>5 DEF Said, Busy
  <1> QED
    BY <1>6, <1>7, <1>8, <1>9, <1>10, <1>11, <1>12

LEMMA TombstoneInv ==
  ASSUME Inv, NEW s \in Slots, Tombstone(s)
  PROVE  Inv'
  <1> USE DEF Inv
  <1> DEFINE k == req[s].link
             moderator == req[s].by # "deletion"
             new == [state |-> "ended", at |-> req[s].at, removed |-> req[s].removed]
             r == IF moderator /\ req[s].removed THEN [req[s] EXCEPT !.pc = "record"] ELSE Idle
  <1>1. /\ req[s].pc = "tombstone" /\ req' = [req EXCEPT ![s] = r]
        /\ man' = [man EXCEPT ![k] = new]
        /\ unsaid' = IF ~moderator /\ req[s].removed THEN unsaid \cup {k} ELSE unsaid
        /\ UNCHANGED <<now, store, objects, ended, met>>
    BY DEF Tombstone, At, Become
  <1>2. /\ req[s] \in Work /\ k \in Links /\ Busy(s, k) /\ req[s].at \in Nat /\ req[s].removed \in BOOLEAN
        /\ man[k].state # "live" /\ req[s].at = ended[k] /\ k \notin objects
    BY <1>1, Slot DEF Work, Busy, Known, Knows
  <1>3. \/ /\ moderator /\ req[s].removed /\ r \in Work /\ r.pc = "record" /\ r.at = req[s].at
           /\ r.removed /\ r.by = req[s].by /\ r.case = req[s].case /\ r.link = k
        \/ ~(moderator /\ req[s].removed) /\ r = Idle
    <2>1. CASE moderator /\ req[s].removed
      BY <1>2, <2>1 DEF Work
    <2> QED
      BY <2>1
  <1>4. /\ new \in [state : {"live", "ending", "ended", "gone"}, at : Nat, removed : BOOLEAN]
        /\ new.state = "ended" /\ new.at = req[s].at /\ new.removed = req[s].removed
    BY <1>2
  <1> HIDE DEF r, new
  <1>5. /\ req'[s] = r /\ \A q \in Slots : q # s => req'[q] = req[q]
        /\ req' \in [Slots -> Work \cup {Idle}]
        /\ \A q \in Slots : \A l \in Links :
             Busy(q, l)' <=> IF q = s THEN r.pc # "idle" /\ r.link = l ELSE Busy(q, l)
    BY <1>1, <1>3, OneSlot
  <1>6. \A l \in Links : Recorded(l)' = Recorded(l)
    BY <1>1 DEF Recorded, Listed, store
  <1>7. Idle.pc = "idle"
    BY DEF Idle
  <1>8. /\ man'[k] = new /\ \A l \in Links : l # k => man'[l] = man[l]
        /\ man' \in [Links -> [state : {"live", "ending", "ended", "gone"}, at : Nat, removed : BOOLEAN]]
    BY <1>1, <1>2, <1>4 DEF Types
  <1>9. Types'
    BY <1>1, <1>5, <1>8 DEF Types, store
  <1>10. ended[k] # NoDate
    BY <1>2 DEF Dated
  <1>11. Dated'
    BY <1>1, <1>2, <1>4, <1>8, <1>10 DEF Dated, Over
  <1>12. Known'
    <2>1. \A q \in Slots : req[q].pc # "idle" => req[q].link \in Links
      BY Slot DEF Work
    <2> QED
      BY <1>1, <1>2, <1>3, <1>4, <1>5, <1>7, <1>8, <2>1 DEF Known, Knows, Over
  <1>13. Numbered'
    BY <1>1, <1>3, <1>5, <1>7 DEF Numbered, store
  <1>14. Written'
    BY <1>1, <1>4, <1>6, <1>8 DEF Written, Over, store
  <1>15. Alone'
    BY <1>1, <1>2, <1>3, <1>5, <1>7 DEF Alone, Busy
  <1>16. Marked'
    <2>1. ASSUME NEW l \in Links \ met["any"], l = k
          PROVE  /\ \A q \in Slots : Busy(q, l)' /\ req'[q].pc \in {"latch", "delete", "tombstone"} =>
                      /\ man'[l].removed => req'[q].removed
                      /\ req'[q].by = "deletion" /\ req'[q].removed => man'[l].removed
                 /\ \A q \in Slots : Busy(q, l)' /\ req'[q].pc = "record" => man'[l].removed
                 /\ Recorded(l)' # {} => man'[l].removed
      <3>1. man'[l].removed = req[s].removed
        BY <1>4, <1>8, <2>1
      <3>2. man[l].removed => req[s].removed
        BY <1>1, <1>2, <2>1 DEF Marked
      <3>3. ~moderator /\ req[s].removed => man[l].removed
        BY <1>1, <1>2, <2>1 DEF Marked
      <3>4. \A q \in Slots : q # s /\ Busy(q, l) => ~moderator /\ req[q].by = "deletion"
        BY <1>2, <2>1 DEF Alone
      <3>5. \A q \in Slots : q # s /\ Busy(q, l) => req[q].pc # "record"
        BY <3>4 DEF Known, Knows, Busy
      <3>6. Recorded(l)' # {} => man[l].removed
        BY <1>6, <2>1 DEF Marked
      <3>7. \A q \in Slots : q # s /\ Busy(q, l) /\ req[q].pc \in {"latch", "delete", "tombstone"} =>
               /\ man[l].removed => req[q].removed
               /\ req[q].removed => man[l].removed
        BY <2>1, <3>4 DEF Marked
      <3>8. r.pc \notin {"latch", "delete", "tombstone"} /\ (r.pc = "record" => req[s].removed)
        BY <1>3, <1>7
      <3> QED
        BY <1>2, <1>5, <3>1, <3>2, <3>3, <3>4, <3>5, <3>6, <3>7, <3>8
    <2>2. r.pc # "idle" => r.link = k
      BY <1>3, <1>7
    <2> QED
      BY <1>1, <1>5, <1>6, <1>8, <2>1, <2>2 DEF Marked
  <1>17. Paired'
    <2>1. moderator /\ k \notin met["takedowns"] => Recorded(k) = {}
      BY <1>1, <1>2 DEF Paired
    <2> QED
      BY <1>1, <1>2, <1>3, <1>5, <1>6, <1>7, <2>1 DEF Paired, Busy
  <1>18. Said'
    <2>1. ASSUME NEW l \in Links \ (unsaid' \cup met'["takedowns"]), man'[l].state = "ended", man'[l].removed
          PROVE  Recorded(l)' # {} \/ \E q \in Slots : Busy(q, l)' /\ req'[q].pc = "record"
      <3>1. CASE l = k
        <4>1. req[s].removed /\ moderator
          BY <1>1, <1>4, <1>8, <2>1, <3>1
        <4>2. r.pc = "record" /\ r.link = k
          BY <1>3, <4>1
        <4> QED
          BY <1>5, <3>1, <4>2
      <3>2. CASE l # k
        <4>1. Recorded(l) # {} \/ \E q \in Slots : Busy(q, l) /\ req[q].pc = "record"
          BY <1>1, <1>8, <2>1, <3>2 DEF Said
        <4> QED
          BY <1>1, <1>5, <1>6, <4>1
      <3> QED
        BY <3>1, <3>2
    <2> QED
      BY <2>1 DEF Said
  <1> QED
    BY <1>9, <1>11, <1>12, <1>13, <1>14, <1>15, <1>16, <1>17, <1>18

\* A request that leaves, with a reason if it was about to record.
LEMMA LeaveInv ==
  ASSUME Inv, NEW s \in Slots, req' = [req EXCEPT ![s] = Idle],
         UNCHANGED <<now, store, record, met>>, unsaid \subseteq unsaid',
         req[s].pc = "record" => req[s].link \in unsaid' \/ Recorded(req[s].link) # {}
  PROVE  Inv'
  <1> USE DEF Inv
  <1>1. Idle.pc = "idle"
    BY DEF Idle
  <1>2. /\ req'[s] = Idle /\ \A q \in Slots : q # s => req'[q] = req[q]
        /\ req' \in [Slots -> Work \cup {Idle}]
        /\ \A q \in Slots : \A l \in Links : Busy(q, l)' <=> IF q = s THEN FALSE ELSE Busy(q, l)
    BY <1>1, OneSlot
  <1>3. \A l \in Links : Recorded(l)' = Recorded(l)
    BY DEF Recorded, Listed, store
  <1>4. Types' /\ Dated'
    BY <1>2 DEF Types, Dated, Over, store, record
  <1>5. Known'
    BY <1>1, <1>2 DEF Known, Knows, Over, record
  <1>6. Numbered'
    BY <1>1, <1>2 DEF Numbered, store
  <1>7. Written' /\ Alone'
    BY <1>2, <1>3 DEF Written, Over, Alone, store, record
  <1>8. Marked' /\ Paired'
    BY <1>2, <1>3 DEF Marked, Paired, record
  <1>9. Said'
    BY <1>2, <1>3 DEF Said, Busy, record
  <1> QED
    BY <1>4, <1>5, <1>6, <1>7, <1>8, <1>9

LEMMA CrashInv ==
  ASSUME Inv, NEW s \in Slots, Crash(s)
  PROVE  Inv'
  <1>1. /\ req' = [req EXCEPT ![s] = Idle] /\ UNCHANGED <<now, store, record, met>>
        /\ unsaid' = IF req[s].pc = "record" THEN unsaid \cup {req[s].link} ELSE unsaid
    BY DEF Crash, Done, Become, At
  <1> QED
    BY <1>1, LeaveInv

LEMMA RecordInv ==
  ASSUME Inv, NEW s \in Slots, Record(s)
  PROVE  Inv'
  <1>0. PICK c, k : c = req[s].case /\ k = req[s].link
    OBVIOUS
  <1> DEFINE already == rows[c] # NoRow /\ rows[c].takedown # NoDate
  <1>1. /\ req[s].pc = "record" /\ req' = [req EXCEPT ![s] = Idle]
        /\ rows' = IF Recordable(req[s]) /\ ~already
                   THEN [rows EXCEPT ![c].takedown = req[s].at] ELSE rows
        /\ unsaid' = IF Recordable(req[s]) \/ already THEN unsaid ELSE unsaid \cup {k}
        /\ UNCHANGED <<now, last, record, met>>
    BY <1>0 DEF Record, At, Done, Become
  <1>2. /\ req[s] \in Work /\ k \in Links /\ Busy(s, k) /\ req[s].at \in Nat
        /\ req[s].by # "deletion" /\ req[s].at = ended[k] /\ Over(k) /\ man[k].state # "live"
    BY <1>0, <1>1, Slot DEF Inv, Work, Busy, Known, Knows
  <1>3. c \in Refs /\ (rows[c] # NoRow => rows[c].link = k) /\ ended[k] # NoDate
    BY <1>0, <1>1, <1>2 DEF Inv, Numbered, Dated
  <1>4. CASE ~(Recordable(req[s]) /\ ~already)
    <2>1. rows' = rows
      BY <1>1, <1>4
    <2>2. already => c \in Recorded(k)
      BY <1>3 DEF Recorded, Listed
    <2>3. already \/ k \in unsaid'
      BY <1>1, <1>4
    <2> HIDE DEF already
    <2>4. k \in unsaid' \/ Recorded(k) # {}
      BY <2>2, <2>3
    <2> QED
      BY <1>0, <1>1, <2>1, <2>4, LeaveInv DEF store
  <1>5. CASE Recordable(req[s]) /\ ~already
    <2> USE DEF Inv
    <2> DEFINE row == [rows[c] EXCEPT !.takedown = req[s].at]
    <2>1. rows[c] # NoRow /\ rows[c].link = k /\ rows[c].takedown = NoDate /\ rows[c] \in Row
      BY <1>0, <1>3, <1>5 DEF Recordable, Types
    <2>2. row \in Row /\ row.link = k /\ row.takedown = ended[k]
      BY <1>2, <2>1 DEF Row
    <2>3. /\ rows' = [rows EXCEPT ![c] = row] /\ rows'[c] = row
          /\ \A d \in Refs : d # c => rows'[d] = rows[d]
          /\ unsaid' = unsaid
      BY <1>1, <1>3, <1>5 DEF Types
    <2>0. k = req[s].link /\ rows \in [Refs -> Row \cup {NoRow}]
      BY <1>0 DEF Types
    <2> HIDE DEF row, already
    <2>4. rows' \in [Refs -> Row \cup {NoRow}]
      BY <2>0, <2>2, <2>3
    <2>5. row # NoRow
      BY <1>2, <2>2, RegisterAssumption DEF NoRow
    <2>6. Idle.pc = "idle"
      BY DEF Idle
    <2>7. /\ req'[s] = Idle /\ \A q \in Slots : q # s => req'[q] = req[q]
          /\ req' \in [Slots -> Work \cup {Idle}]
          /\ \A q \in Slots : \A l \in Links : Busy(q, l)' <=> IF q = s THEN FALSE ELSE Busy(q, l)
      BY <1>1, <2>6, OneSlot
    <2>8. /\ Recorded(k)' = Recorded(k) \cup {c}
          /\ \A l \in Links : l # k => Recorded(l)' = Recorded(l)
      <3>1. ASSUME NEW l \in Links, NEW d \in Refs
            PROVE  d \in Recorded(l)' <=> (d \in Recorded(l) \/ (d = c /\ l = k))
        <4>1. CASE d = c
          BY <1>2, <1>3, <2>1, <2>2, <2>3, <2>5, <4>1 DEF Recorded, Listed
        <4>2. CASE d # c
          BY <2>3, <4>2 DEF Recorded, Listed
        <4> QED
          BY <4>1, <4>2
      <3>2. \A l \in Links : Recorded(l) \subseteq Refs /\ Recorded(l)' \subseteq Refs
        BY DEF Recorded, Listed
      <3> QED
        BY <1>2, <1>3, <3>1, <3>2
    <2>9. Types' /\ Dated'
      BY <1>1, <2>4, <2>7 DEF Types, Dated, Over, record
    <2>10. Known'
      BY <1>1, <2>6, <2>7 DEF Known, Knows, Over, record
    <2>11. \A d \in Refs : rows'[d] # NoRow => rows[d] # NoRow /\ rows'[d].link = rows[d].link
      BY <2>1, <2>2, <2>3
    <2>12. Numbered'
      BY <1>1, <2>6, <2>7, <2>11 DEF Numbered
    <2>13. Written'
      <3>1. \A l \in Links : \A d \in Recorded(l) : d # c => rows'[d] = rows[d]
        BY <2>3 DEF Recorded, Listed
      <3>2. \A l \in Links : c \notin Recorded(l)
        BY <2>1 DEF Recorded
      <3>3. UNCHANGED <<man, ended>>
        BY <1>1 DEF record
      <3>4. ASSUME NEW l \in Links, NEW d \in Recorded(l)'
            PROVE  rows'[d].takedown = ended[l] /\ Over(l)
        <4>1. CASE d = c
          <5>1. l = k
            BY <2>8, <3>2, <3>4, <4>1
          <5> QED
            BY <1>2, <2>2, <2>3, <4>1, <5>1
        <4>2. CASE d # c
          <5>1. d \in Recorded(l)
            BY <2>8, <3>4, <4>2
          <5> QED
            BY <3>1, <4>2, <5>1 DEF Written
        <4> QED
          BY <4>1, <4>2
      <3> QED
        BY <3>3, <3>4 DEF Written, Over
    <2>14. Alone'
      BY <1>1, <2>7 DEF Alone
    <2>15. Marked'
      BY <1>1, <1>2, <2>7, <2>8 DEF Marked, record
    <2>16. Paired'
      <3>1. k \notin met["takedowns"] => Recorded(k) = {}
        BY <1>1, <1>2 DEF Paired
      <3>2. k \notin met["takedowns"] => \A q \in Slots : q # s /\ Busy(q, k) => req[q].by = "deletion"
        BY <1>2 DEF Paired
      <3>3. met' = met
        BY <1>1
      <3>4. k \notin met["takedowns"] => Recorded(k)' = {c}
        BY <2>8, <3>1
      <3> QED
        BY <2>7, <2>8, <3>1, <3>2, <3>3, <3>4 DEF Paired
    <2>17. Said'
      <3>1. UNCHANGED <<man, met, unsaid>>
        BY <1>1, <2>3 DEF record
      <3>2. \A l \in Links : l # k => ~Busy(s, l)
        BY <2>0 DEF Busy
      <3> QED
        BY <2>7, <2>8, <3>1, <3>2 DEF Said
    <2> QED
      BY <2>9, <2>10, <2>12, <2>13, <2>14, <2>15, <2>16, <2>17
  <1> QED
    BY <1>4, <1>5

-----------------------------------------------------------------------------
(* The rest.                                                                  *)

LEMMA ForgetInv ==
  ASSUME Inv, NEW k \in Links, Forget(k)
  PROVE  Inv'
  <1> USE DEF Inv
  <1> DEFINE new == [man[k] EXCEPT !.state = "gone"]
  <1>1. man[k].state = "ended" /\ man' = [man EXCEPT ![k] = new]
        /\ UNCHANGED <<now, store, objects, ended, req, met, unsaid>>
    BY DEF Forget
  <1>2. /\ new \in [state : {"live", "ending", "ended", "gone"}, at : Nat, removed : BOOLEAN]
        /\ new.state = "gone" /\ new.at = man[k].at /\ new.removed = man[k].removed
    BY DEF Types
  <1> HIDE DEF new
  <1>3. /\ man'[k] = new /\ \A l \in Links : l # k => man'[l] = man[l]
        /\ man' \in [Links -> [state : {"live", "ending", "ended", "gone"}, at : Nat, removed : BOOLEAN]]
    BY <1>1, <1>2 DEF Types
  <1>4. \A l \in Links : Recorded(l)' = Recorded(l)
    BY <1>1 DEF Recorded, Listed, store
  <1>5. \A l \in Links : /\ (Over(l))' <=> Over(l)
                         /\ man'[l].state = "live" <=> man[l].state = "live"
                         /\ man'[l].removed = man[l].removed /\ man'[l].at = man[l].at
    BY <1>1, <1>2, <1>3 DEF Over
  <1>6. Types'
    BY <1>1, <1>3 DEF Types, store
  <1>7. Dated'
    BY <1>1, <1>5 DEF Dated
  <1>8. Known'
    <2>1. \A q \in Slots : req[q].pc # "idle" => req[q].link \in Links
      BY Slot DEF Work
    <2> QED
      BY <1>1, <1>5, <2>1 DEF Known, Knows
  <1>9. Numbered' /\ Written'
    BY <1>1, <1>4, <1>5 DEF Numbered, Written, store
  <1>10. Alone' /\ Paired'
    BY <1>1, <1>4 DEF Alone, Paired, Busy
  <1>11. Marked'
    BY <1>1, <1>4, <1>5 DEF Marked, Busy
  <1>12. Said'
    BY <1>1, <1>2, <1>3, <1>4 DEF Said, Busy
  <1> QED
    BY <1>6, <1>7, <1>8, <1>9, <1>10, <1>11, <1>12

LEMMA ClockInv ==
  ASSUME Inv, UNCHANGED <<store, record, req, met, unsaid>>, now' \in 0..MaxNow
  PROVE  Inv'
  <1> USE DEF Inv
  <1>1. \A l \in Links : Recorded(l)' = Recorded(l)
    BY DEF Recorded, Listed, store
  <1>2. Types' /\ Dated' /\ Known'
    BY DEF Types, Dated, Known, Knows, Over, store, record
  <1>3. Numbered' /\ Written' /\ Alone'
    BY <1>1 DEF Numbered, Written, Alone, Busy, Over, store, record
  <1>4. Marked' /\ Paired' /\ Said'
    BY <1>1 DEF Marked, Paired, Said, Busy, record
  <1> QED
    BY <1>2, <1>3, <1>4

LEMMA StepInv == Inv /\ [Next]_vars => Inv'
  <1> SUFFICES ASSUME Inv, [Next]_vars PROVE Inv'
    OBVIOUS
  <1>1. ASSUME NEW training \in BOOLEAN, NEW l \in Links \cup {NoLink}, NEW category \in Categories,
               Open(training, l, category)
        PROVE  Inv'
    BY <1>1, OpenInv
  <1>2. ASSUME NEW by \in Staff, NEW c \in Refs, NEW category \in Categories, NEW open \in BOOLEAN,
               Update(by, c, category, open)
        PROVE  Inv'
    BY <1>2, UpdateInv
  <1>3. CASE DeleteTraining
    BY <1>3, DeleteTrainingInv
  <1>4. ASSUME NEW s \in Slots, NEW l \in Links,
               Deletion(s, l) \/ \E by \in Staff, c \in Refs : Takedown(s, by, c, l)
        PROVE  Inv'
    BY <1>4, DeletionInv, TakedownInv
  <1>5. ASSUME NEW s \in Slots,
               Read(s) \/ Latch(s) \/ Delete(s) \/ Tombstone(s) \/ Record(s) \/ Crash(s)
        PROVE  Inv'
    BY <1>5, ReadInv, LatchInv, DeleteInv, TombstoneInv, RecordInv, CrashInv
  <1>6. ASSUME NEW l \in Links, Forget(l) PROVE Inv'
    BY <1>6, ForgetInv
  <1>7. CASE Tick
    <2>1. now \in 0..MaxNow /\ now < MaxNow /\ now' = now + 1 /\ MaxNow \in Nat
          /\ UNCHANGED <<store, record, req, met, unsaid>>
      BY <1>7, RegisterAssumption DEF Tick, Inv, Types
    <2>2. now' \in 0..MaxNow
      BY <2>1
    <2> QED
      BY <2>1, <2>2, ClockInv
  <1>8. CASE UNCHANGED vars
    <2>1. now' \in 0..MaxNow /\ UNCHANGED <<store, record, req, met, unsaid>>
      BY <1>8 DEF vars, Inv, Types
    <2> QED
      BY <2>1, ClockInv
  <1> QED
    BY <1>1, <1>2, <1>3, <1>4, <1>5, <1>6, <1>7, <1>8 DEF Next

LEMMA Invariant == Spec => []Inv
  BY InitInv, StepInv, PTL DEF Spec

LEMMA InvTrue == Inv => TakedownTrue
  BY DEF Inv, Written, Marked, Dated, Over, TakedownTrue

LEMMA InvOnce == Inv => RecordedOnce
  <1> SUFFICES ASSUME Inv, NEW l \in Links, man[l].state = "ended", man[l].removed, ~AtWork(l),
                      l \notin unsaid \cup met["takedowns"]
               PROVE  Cardinality(Recorded(l)) = 1
    BY DEF RecordedOnce
  <1>1. \A s \in Slots : ~Busy(s, l)
    BY Slot DEF Inv, AtWork, Busy
  <1>2. PICK c : c \in Recorded(l)
    BY <1>1 DEF Inv, Said
  <1>3. Recorded(l) = {c}
    BY <1>2 DEF Inv, Paired
  <1> QED
    BY <1>3, FS_Singleton

\* A case that has a take-down's date is right about it: the link is empty, the date
\* is the one the latch wrote, and the link says removed unless another deletion was
\* at work beside the take-down, for any number of cases, requests and crashes.
THEOREM TakedownIsTrue == Spec => []TakedownTrue
  BY Invariant, InvTrue, PTL

\* A link that says removed has its take-down in exactly one case, unless two
\* take-downs met on it or nobody was left to record it.
THEOREM TakedownRecordedOnce == Spec => []RecordedOnce
  BY Invariant, InvOnce, PTL
=============================================================================
