---------------------------- MODULE UploadProofs ----------------------------
(* Machine-checked facts about Upload, for every number of tabs, parts and   *)
(* files, and for as many failures and refreshes as there may be.            *)
EXTENDS Upload, SequenceTheorems, FiniteSetTheorems, TLAPS

-----------------------------------------------------------------------------
(* The inductive invariant.                                                  *)

Job == [view : Sending, kind : {"", "network", "refused", "missing", "unfinished"}, file : Files, sent : 0..N,
        hashes : Seq(Parts), expected : Seq(Parts), urls : SUBSET Nat, tries : Nat, arrived : BOOLEAN]

Working(j) == j.view \in Sending
Idle(j) == ~Working(j) /\ j.view # "ready"

\* The hashes held are those of the file in the tab, and of every part it counts.
Rechecked(j) == Len(j.hashes) >= j.sent
OfFile(h, f) == \A i \in 1..Len(h) : h[i] = f.parts[i]

\* A note is of the first parts of the file whose date it carries.
GoodNotes ==
  {r \in Notes : Len(r.hashes) = r.sent /\ (r.sent # 0 => \E g \in Files : r.modified = g.modified /\ OfFile(r.hashes, g))}

JobOK(j) ==
  /\ j \in Job
  /\ Len(j.hashes) \in {0, j.sent} /\ (Len(j.expected) = j.sent \/ Rechecked(j))
  /\ OfFile(j.hashes, j.file)
  /\ j.view \in {"send", "put", "finalise"} => Rechecked(j)
  /\ j.view = "put" => j.sent < N
  /\ j.view = "finalise" => j.sent = N

TabOK(j, m) ==
  \/ j.view \in {"away", "chosen", "over"}
  \/ j.view = "card" /\ j.read \in GoodNotes
  \/ j.view = "ready" /\ j.file \in Files /\ m = "complete"
  \/ Working(j) /\ JobOK(j) /\ m # "none"

\* Before the manifest there is nothing to carry on from.
Types ==
  /\ tab = [t \in Tabs |-> tab[t]] /\ \A t \in Tabs : TabOK(tab[t], manifest)
  /\ pending \in [Tabs -> Seq(GoodNotes)] /\ record \in GoodNotes
  /\ session \in BOOLEAN /\ manifest \in {"none", "open", "complete"} /\ clash \in BOOLEAN
  /\ stored = [i \in 1..N |-> stored[i]]
  /\ manifest = "none" => record = NoRecord /\ \A t \in Tabs : pending[t] = <<>> /\ tab[t].view \in {"away", "chosen"}

\* What R2 holds of the parts a tab counts, and of the one it is sending, is its file's,
\* or what the note it carries on from says, until it has compared the two.
StoredFits(j, s) ==
  \A i \in 1..j.sent : s[i] = j.file.parts[i] \/ (~Rechecked(j) /\ s[i] = j.expected[i])
ArrivedFits(j, s) == j.view = "put" /\ j.arrived => s[j.sent + 1] = j.file.parts[j.sent + 1]

\* The same of the record, and of the writes a tab has asked for: only one that has
\* compared has asked for any.
RecordFits(j, r) ==
  \A i \in 1..r.sent : \/ r.hashes[i] = j.file.parts[i]
                       \/ ~Rechecked(j) /\ i <= j.sent /\ r.hashes[i] = j.expected[i]
PendingFits(j, E) == \A r \in E : \A i \in 1..r.sent : Working(j) /\ Rechecked(j) /\ r.hashes[i] = j.file.parts[i]

Entries(q) == {q[k] : k \in DOMAIN q}
Backed(r, s) == \A i \in 1..r.sent : s[i] = r.hashes[i]

\* One tab and its writes, against the record, the server and R2.
Fits(j, E, r, live, m, s, l) ==
  /\ \A e \in E : Backed(e, s)
  /\ Working(j) => StoredFits(j, s) /\ ArrivedFits(j, s)
  /\ live /\ m = "open" => PendingFits(j, E) /\ (Working(j) => RecordFits(j, r))
  /\ m = "complete" /\ ~Idle(j) => j.file.parts = l

OneFile == \A t, u \in Tabs : Working(tab[t]) /\ Working(tab[u]) => tab[t].file = tab[u].file

\* One file in every tab at work, and nothing in R2, the record or the writes that is not its.
Whole ==
  /\ OneFile
  /\ Backed(record, stored)
  /\ manifest = "complete" => stored = leaves
  /\ \A t \in Tabs : Fits(tab[t], Entries(pending[t]), record, session, manifest, stored, leaves)

Inv == Types /\ (~clash => Whole)

-----------------------------------------------------------------------------
(* Parts, notes and the writes asked for.                                    *)

LEMMA PartsTyped ==
  /\ N \in Nat /\ N > 0
  /\ \A f \in Files : f.parts \in Seq(Parts) /\ Len(f.parts) = N /\ \A i \in 1..N : f.parts[i] \in Parts
  /\ \A f, g \in Files : f.modified = g.modified => f = g
  <1>1. N \in Nat /\ N > 0 BY UploadAssumption
  <1>2. ASSUME NEW f \in Files PROVE f.parts \in Seq(Parts) /\ Len(f.parts) = N /\ \A i \in 1..N : f.parts[i] \in Parts
    <2>1. f.parts \in Seq(Parts) /\ Len(f.parts) = N BY UploadAssumption
    <2> QED BY <2>1, ElementOfSeq
  <1> QED BY <1>1, <1>2, UploadAssumption

\* The first n of a sequence.
LEMMA Cut ==
  ASSUME NEW h \in Seq(Parts), NEW n \in 0..Len(h)
  PROVE  /\ SubSeq(h, 1, n) \in Seq(Parts) /\ Len(SubSeq(h, 1, n)) = n
         /\ \A i \in 1..n : SubSeq(h, 1, n)[i] = h[i]
  <1>1. Len(h) \in Nat /\ \A i \in 1..Len(h) : h[i] \in Parts BY LenProperties, ElementOfSeq
  <1>2. n \in Int /\ 1 \in Int /\ n \in Nat /\ \A i \in 1..n : h[i] \in Parts BY <1>1
  <1>3. /\ SubSeq(h, 1, n) \in Seq(Parts)
        /\ Len(SubSeq(h, 1, n)) = IF 1 <= n THEN n - 1 + 1 ELSE 0
        /\ \A i \in 1..n - 1 + 1 : SubSeq(h, 1, n)[i] = h[1 + i - 1]
    BY <1>2, SubSeqProperties
  <1>4. Len(SubSeq(h, 1, n)) = n BY <1>2, <1>3, SMT
  <1>5. ASSUME NEW i \in 1..n PROVE SubSeq(h, 1, n)[i] = h[i]
    <2>1. 1 + i - 1 = i /\ n - 1 + 1 = n BY <1>2, SMT
    <2> QED BY <1>3, <2>1
  <1> QED BY <1>3, <1>4, <1>5

\* A sequence of the parts, as long as the file and the same part for part, is the file's.
LEMMA IsFile ==
  ASSUME NEW h \in Seq(Parts), NEW f \in Files, Len(h) = N, OfFile(h, f)
  PROVE  h = f.parts
  BY PartsTyped, SeqEqual, Zenon DEF OfFile

LEMMA NoRecordGood == NoRecord \in GoodNotes /\ NoRecord.sent = 0
  <1>1. <<>> \in Seq(Parts) /\ Len(<<>>) = 0 BY EmptySeq
  <1>2. NoRecord \in Notes /\ NoRecord.sent = 0 /\ NoRecord.hashes = <<>> BY DEF Notes, NoRecord
  <1> QED BY <1>1, <1>2 DEF GoodNotes

LEMMA NoteFacts ==
  ASSUME NEW r \in GoodNotes
  PROVE  /\ r.sent \in 0..N /\ r.hashes \in Seq(Parts) /\ Len(r.hashes) = r.sent
         /\ \A f \in Files : f.modified = r.modified => OfFile(r.hashes, f)
  <1>1. r.sent \in 0..N /\ r.hashes \in Seq(Parts)
    <2>1. CASE r = NoRecord BY <2>1, PartsTyped, EmptySeq DEF NoRecord
    <2>2. CASE r # NoRecord BY <2>2 DEF GoodNotes, Notes
    <2> QED BY <2>1, <2>2
  <1>2. Len(r.hashes) = r.sent BY DEF GoodNotes
  <1>3. ASSUME NEW f \in Files, f.modified = r.modified PROVE OfFile(r.hashes, f)
    <2>1. CASE r.sent = 0 BY <1>1, <1>2, <2>1 DEF OfFile
    <2>2. CASE r.sent # 0
      <3>1. PICK g \in Files : r.modified = g.modified /\ OfFile(r.hashes, g) BY <2>2 DEF GoodNotes
      <3> QED BY <1>3, <3>1, PartsTyped
    <2> QED BY <2>1, <2>2
  <1> QED BY <1>1, <1>2, <1>3

\* What a job notes: the file's first parts, as many as it counts.
LEMMA NoteOfJob ==
  ASSUME NEW j, j.file \in Files, j.sent \in 0..N, j.hashes \in Seq(Parts), Len(j.hashes) = j.sent, OfFile(j.hashes, j.file)
  PROVE  /\ Note(j) \in GoodNotes /\ Note(j).sent = j.sent
         /\ \A i \in 1..j.sent : Note(j).hashes[i] = j.file.parts[i]
  <1> DEFINE h == SubSeq(j.hashes, 1, j.sent)
  <1>1. j.sent \in 0..Len(j.hashes) BY PartsTyped
  <1>2. h \in Seq(Parts) /\ Len(h) = j.sent /\ \A i \in 1..j.sent : h[i] = j.hashes[i] BY <1>1, Cut
  <1>3. \A i \in 1..j.sent : h[i] = j.file.parts[i] BY <1>2 DEF OfFile
  <1>4. Note(j) = [sent |-> j.sent, hashes |-> h, modified |-> j.file.modified] BY DEF Note
  <1> HIDE DEF h
  <1>5. Note(j).sent = j.sent /\ Note(j).hashes = h /\ Note(j).modified = j.file.modified BY <1>4
  <1>6. Note(j) \in Notes
    <2>1. j.file.modified \in {f.modified : f \in Files} OBVIOUS
    <2> QED BY <1>2, <1>4, <2>1 DEF Notes
  <1>7. OfFile(h, j.file) BY <1>2, <1>3 DEF OfFile
  <1> QED BY <1>2, <1>3, <1>5, <1>6, <1>7 DEF GoodNotes

LEMMA EntriesEmpty == Entries(<<>>) = {}
  BY DEF Entries

LEMMA EntriesAppend ==
  ASSUME NEW q \in Seq(GoodNotes), NEW r \in GoodNotes
  PROVE  Append(q, r) \in Seq(GoodNotes) /\ Entries(Append(q, r)) = Entries(q) \cup {r}
  <1> DEFINE a == Append(q, r)
  <1>1. /\ a \in Seq(GoodNotes) /\ Len(a) = Len(q) + 1
        /\ \A i \in 1..Len(q) : a[i] = q[i]
        /\ a[Len(q) + 1] = r
    BY AppendProperties
  <1>2. Len(q) \in Nat /\ DOMAIN q = 1..Len(q) /\ DOMAIN a = 1..(Len(q) + 1) BY <1>1, LenProperties
  <1> HIDE DEF a
  <1>3. DOMAIN a = DOMAIN q \cup {Len(q) + 1} BY <1>2, SMT
  <1> QED BY <1>1, <1>2, <1>3, Zenon DEF Entries, a

LEMMA EntriesHead ==
  ASSUME NEW q \in Seq(GoodNotes), q # <<>>
  PROVE  /\ Head(q) \in GoodNotes /\ Head(q) \in Entries(q)
         /\ Tail(q) \in Seq(GoodNotes) /\ Entries(Tail(q)) \subseteq Entries(q)
  <1>1. /\ Head(q) \in GoodNotes /\ Tail(q) \in Seq(GoodNotes) /\ Len(Tail(q)) = Len(q) - 1
        /\ \A i \in 1..Len(Tail(q)) : Tail(q)[i] = q[i + 1]
    BY HeadTailProperties
  <1>2. Len(q) \in Nat \ {0} /\ DOMAIN q = 1..Len(q) /\ DOMAIN Tail(q) = 1..Len(Tail(q))
    BY <1>1, LenProperties, EmptySeq
  <1>3. Head(q) = q[1] OBVIOUS
  <1>4. 1 \in DOMAIN q /\ \A i \in DOMAIN Tail(q) : i + 1 \in DOMAIN q BY <1>1, <1>2, SMT
  <1>5. \A i \in DOMAIN Tail(q) : Tail(q)[i] = q[i + 1] BY <1>1, <1>2
  <1> QED BY <1>1, <1>3, <1>4, <1>5, Zenon DEF Entries

\* A set of parts has a least one.
LEMMA LeastPart ==
  ASSUME NEW S \in SUBSET (1..N), S # {}
  PROVE  Least(S) \in S
  <1> DEFINE C == {1..i : i \in S}
  <1>1. IsFiniteSet(1..N) BY PartsTyped, FS_Interval
  <1>2. FiniteSubsetsOf(1..N) = SUBSET (1..N) BY <1>1, FS_FiniteSubsetsOfFinite
  <1>3. IsWellFoundedOn(StrictSubsetOrdering(1..N), SUBSET (1..N)) BY <1>2, FS_StrictSubsetOrderingWellFounded
  <1>4. \A i \in S : i \in Nat /\ i >= 1 /\ i <= N BY PartsTyped
  <1>5. C \subseteq SUBSET (1..N) /\ C # {}
    <2>1. ASSUME NEW i \in S, NEW k \in 1..i PROVE k \in 1..N
      <3>1. i \in Nat /\ i <= N /\ N \in Nat BY <1>4, PartsTyped
      <3> QED BY <3>1, SMT
    <2>2. \A i \in S : 1..i \in SUBSET (1..N) BY <2>1
    <2> QED BY <2>2
  <1>6. \E X \in C : \A Y \in C : <<Y, X>> \notin StrictSubsetOrdering(1..N)
    <2> HIDE DEF C
    <2> QED BY <1>3, <1>5, WFMin
  <1>7. PICK X \in C : \A Y \in C : <<Y, X>> \notin StrictSubsetOrdering(1..N) BY <1>6
  <1>8. PICK i \in S : X = 1..i BY <1>7
  <1>9. ASSUME NEW j \in S PROVE i <= j
    <2>1. SUFFICES ASSUME j < i PROVE FALSE BY <1>4
    <2>2. (1..j) \subseteq (1..i) /\ (1..j) # (1..i) BY <1>4, <2>1
    <2>3. 1..j \in C /\ 1..j \in SUBSET (1..N) /\ 1..i \in SUBSET (1..N) BY <1>4, PartsTyped
    <2>4. <<1..j, 1..i>> \in StrictSubsetOrdering(1..N) BY <2>2, <2>3 DEF StrictSubsetOrdering
    <2> QED BY <1>7, <1>8, <2>3, <2>4
  <1> QED BY <1>9 DEF Least

-----------------------------------------------------------------------------
(* Steps of one tab that leave the record and the server alone.              *)

\* A tab at work is a job.
LEMMA JobOf ==
  ASSUME Inv, NEW t \in Tabs, Working(tab[t])
  PROVE  JobOK(tab[t]) /\ tab[t] \in Job /\ manifest # "none"
  <1>1. TabOK(tab[t], manifest) BY DEF Inv, Types
  <1>2. tab[t].view \notin {"away", "chosen", "over", "card", "ready"} BY DEF Working, Sending
  <1>3. JobOK(tab[t]) /\ manifest # "none" BY <1>1, <1>2 DEF TabOK
  <1> QED BY <1>3 DEF JobOK

LEMMA QueueOf ==
  ASSUME Inv, NEW t \in Tabs
  PROVE  /\ pending[t] \in Seq(GoodNotes) /\ pending = [pending EXCEPT ![t] = pending[t]]
         /\ record \in GoodNotes
  BY DEF Inv, Types

LEMMA LocalStep ==
  ASSUME Inv, NEW t \in Tabs, NEW j, NEW q \in Seq(GoodNotes), clash' \in BOOLEAN, clash => clash',
         tab' = [tab EXCEPT ![t] = j], pending' = [pending EXCEPT ![t] = q], UNCHANGED <<record, server>>,
         TabOK(j, manifest), manifest = "none" => q = <<>> /\ j.view \in {"away", "chosen"},
         ~clash' => /\ Fits(j, Entries(q), record, session, manifest, stored, leaves)
                    /\ Working(j) => \A u \in Tabs \ {t} : Working(tab[u]) => tab[u].file = j.file
  PROVE  Inv'
  <1>1. /\ record' = record /\ session' = session /\ manifest' = manifest /\ stored' = stored /\ leaves' = leaves
    BY DEF server
  <1>2. tab' = [u \in Tabs |-> IF u = t THEN j ELSE tab[u]] BY DEF Inv, Types
  <1>3. pending' = [u \in Tabs |-> IF u = t THEN q ELSE pending[u]] BY DEF Inv, Types
  <1>4. tab'[t] = j /\ pending'[t] = q /\ \A u \in Tabs \ {t} : tab'[u] = tab[u] /\ pending'[u] = pending[u]
    BY <1>2, <1>3
  <1>5. Types'
    <2>1. tab' = [u \in Tabs |-> tab'[u]] BY <1>2
    <2>2. ASSUME NEW u \in Tabs PROVE TabOK(tab'[u], manifest')
      <3>1. CASE u = t BY <1>1, <1>4, <3>1
      <3>2. CASE u # t BY <1>1, <1>4, <3>2 DEF Inv, Types
      <3> QED BY <3>1, <3>2
    <2>3. pending' \in [Tabs -> Seq(GoodNotes)] BY <1>3 DEF Inv, Types
    <2>4. manifest' = "none" =>
            record' = NoRecord /\ \A u \in Tabs : pending'[u] = <<>> /\ tab'[u].view \in {"away", "chosen"}
      BY <1>1, <1>4 DEF Inv, Types
    <2>5. stored' = [i \in 1..N |-> stored'[i]] BY <1>1 DEF Inv, Types
    <2> QED BY <1>1, <2>1, <2>2, <2>3, <2>4, <2>5 DEF Inv, Types
  <1>6. ASSUME ~clash' PROVE Whole'
    <2>1. Whole BY <1>6 DEF Inv
    <2>2. OneFile'
      <3>1. SUFFICES ASSUME NEW u \in Tabs, NEW v \in Tabs, Working(tab'[u]), Working(tab'[v])
                     PROVE  tab'[u].file = tab'[v].file
        BY DEF OneFile
      <3>2. CASE u = t BY <1>4, <1>6, <3>1, <3>2
      <3>3. CASE v = t BY <1>4, <1>6, <3>1, <3>3
      <3>4. CASE u # t /\ v # t BY <1>4, <2>1, <3>1, <3>4 DEF Whole, OneFile
      <3> QED BY <3>2, <3>3, <3>4
    <2>3. ASSUME NEW u \in Tabs
          PROVE  Fits(tab'[u], Entries(pending'[u]), record', session', manifest', stored', leaves')
      <3>1. CASE u = t BY <1>1, <1>4, <1>6, <3>1
      <3>2. CASE u # t BY <1>1, <1>4, <2>1, <3>2 DEF Whole
      <3> QED BY <3>1, <3>2
    <2>4. Backed(record', stored') /\ (manifest' = "complete" => stored' = leaves') BY <1>1, <2>1 DEF Whole
    <2> QED BY <2>2, <2>3, <2>4 DEF Whole
  <1> QED BY <1>5, <1>6 DEF Inv

\* A tab turns from a job, or a card, to a page with neither, and asks for the record to go:
\* it leaves no writes behind that another tab's file could not have.
LEMMA ClearStep ==
  ASSUME Inv, NEW t \in Tabs, NEW v \in {"chosen", "over"}, ~(tab[t].view \in {"away", "chosen", "ready"}),
         Working(tab[t]) => ~session \/ manifest = "complete" \/ ~Rechecked(tab[t]),
         tab' = [tab EXCEPT ![t] = [view |-> v]], Clear(t), UNCHANGED <<record, server, clash>>
  PROVE  Inv'
  <1>1. PICK j : j = [view |-> v] OBVIOUS
  <1>2. PICK q : q = Append(pending[t], NoRecord) OBVIOUS
  <1>3. q \in Seq(GoodNotes) /\ Entries(q) = Entries(pending[t]) \cup {NoRecord}
    BY <1>2, QueueOf, NoRecordGood, EntriesAppend
  <1>4. pending' = [pending EXCEPT ![t] = q]
    BY <1>2 DEF Clear, Write, Inv, Types
  <1>5. manifest # "none" BY DEF Inv, Types
  <1>6. j.view = v /\ ~Working(j) /\ Idle(j) /\ TabOK(j, manifest) BY <1>1 DEF Working, Sending, Idle, TabOK
  <1>7. ASSUME ~clash PROVE Fits(j, Entries(q), record, session, manifest, stored, leaves)
    <2>1. Fits(tab[t], Entries(pending[t]), record, session, manifest, stored, leaves) BY <1>7 DEF Inv, Whole
    <2>2. \A e \in Entries(q) : Backed(e, stored) BY <1>3, <2>1, NoRecordGood DEF Fits, Backed
    <2>3. ASSUME session, manifest = "open" PROVE PendingFits(j, Entries(q))
      <3>1. PendingFits(tab[t], Entries(pending[t])) BY <2>1, <2>3 DEF Fits
      <3>2. ~(Working(tab[t]) /\ Rechecked(tab[t])) BY <2>3
      <3>3. \A r \in Entries(q) : \A i \in 1..r.sent : FALSE BY <1>3, <3>1, <3>2, NoRecordGood DEF PendingFits
      <3> QED BY <3>3 DEF PendingFits
    <2> QED BY <1>6, <2>2, <2>3 DEF Fits
  <1>8. tab' = [tab EXCEPT ![t] = j] BY <1>1
  <1>9. clash' \in BOOLEAN /\ (clash => clash') /\ UNCHANGED <<record, server>> BY DEF Inv, Types
  <1>10. manifest = "none" => q = <<>> /\ j.view \in {"away", "chosen"} BY <1>5
  <1>11. ~clash' => /\ Fits(j, Entries(q), record, session, manifest, stored, leaves)
                    /\ Working(j) => \A u \in Tabs \ {t} : Working(tab[u]) => tab[u].file = j.file
    BY <1>6, <1>7
  <1>12. q \in Seq(GoodNotes) /\ TabOK(j, manifest) BY <1>3, <1>6
  <1> QED BY <1>4, <1>8, <1>9, <1>10, <1>11, <1>12, LocalStep

\* A job goes on to another stage with the same file, count and hashes.
LEMMA SameJob ==
  ASSUME Inv, NEW t \in Tabs, Working(tab[t]), NEW k \in Job,
         k.file = tab[t].file, k.sent = tab[t].sent, k.hashes = tab[t].hashes, k.expected = tab[t].expected,
         k.view \in {"send", "put", "finalise"} => Rechecked(k), k.view = "put" => k.sent < N /\ ~k.arrived,
         k.view = "finalise" => k.sent = N,
         tab' = [tab EXCEPT ![t] = k], UNCHANGED <<pending, record, server, clash>>
  PROVE  Inv'
  <1>1. JobOK(tab[t]) /\ manifest # "none" BY JobOf
  <1>2. Working(k) BY DEF Job, Working
  <1>3. JobOK(k) BY <1>1 DEF JobOK, Rechecked
  <1>4. TabOK(k, manifest) BY <1>1, <1>2, <1>3 DEF TabOK
  <1>5. PICK q : q = pending[t] OBVIOUS
  <1>6. q \in Seq(GoodNotes) /\ pending' = [pending EXCEPT ![t] = q] BY <1>5, QueueOf
  <1>7. ASSUME ~clash
        PROVE  /\ Fits(k, Entries(q), record, session, manifest, stored, leaves)
               /\ \A u \in Tabs \ {t} : Working(tab[u]) => tab[u].file = k.file
    <2>1. Fits(tab[t], Entries(q), record, session, manifest, stored, leaves) /\ OneFile BY <1>5, <1>7 DEF Inv, Whole
    <2>2. StoredFits(k, stored) BY <2>1 DEF Fits, StoredFits, Rechecked
    <2>3. ArrivedFits(k, stored) BY DEF ArrivedFits
    <2>4. session /\ manifest = "open" => PendingFits(k, Entries(q)) /\ RecordFits(k, record)
      BY <1>2, <2>1 DEF Fits, PendingFits, RecordFits, Rechecked
    <2>5. ~Idle(tab[t]) BY DEF Idle
    <2>6. manifest = "complete" => k.file.parts = leaves BY <2>1, <2>5 DEF Fits
    <2>7. \A e \in Entries(q) : Backed(e, stored) BY <2>1 DEF Fits
    <2>8. \A u \in Tabs \ {t} : Working(tab[u]) => tab[u].file = k.file BY <2>1 DEF OneFile
    <2> QED BY <1>2, <2>2, <2>3, <2>4, <2>6, <2>7, <2>8 DEF Fits
  <1>8. clash' \in BOOLEAN /\ (clash => clash') /\ UNCHANGED <<record, server>> BY DEF Inv, Types
  <1>9. manifest = "none" => q = <<>> /\ k.view \in {"away", "chosen"} BY <1>1
  <1>10. ~clash' => /\ Fits(k, Entries(q), record, session, manifest, stored, leaves)
                    /\ Working(k) => \A u \in Tabs \ {t} : Working(tab[u]) => tab[u].file = k.file
    BY <1>7
  <1> QED BY <1>4, <1>6, <1>8, <1>9, <1>10, LocalStep

-----------------------------------------------------------------------------
(* The steps that keep the job.                                              *)

LEMMA StopStep ==
  ASSUME Inv, NEW t \in Tabs, Working(tab[t]), NEW kind \in {"network", "refused", "unfinished"},
         Stop(t, kind), UNCHANGED <<pending, record, server, clash>>
  PROVE  Inv'
  <1> DEFINE j == tab[t]
  <1>1. PICK k : k = [j EXCEPT !.view = "stopped", !.kind = kind] OBVIOUS
  <1>2. j \in Job BY JobOf
  <1>3. tab' = [tab EXCEPT ![t] = k] BY <1>1 DEF Stop, Inv, Types
  <1>4. k \in Job BY <1>1, <1>2 DEF Job, Sending
  <1>5. /\ k.view = "stopped" /\ k.file = j.file /\ k.sent = j.sent /\ k.hashes = j.hashes
        /\ k.expected = j.expected
    BY <1>1, <1>2 DEF Job
  <1> QED BY <1>3, <1>4, <1>5, SameJob

LEMMA RetryStep ==
  ASSUME Inv, NEW t \in Tabs, Retry(t)
  PROVE  Inv'
  <1> DEFINE j == tab[t]
  <1>1. PICK k : k = [j EXCEPT !.view = "carry", !.urls = {N}] OBVIOUS
  <1>2. Working(j) BY DEF Retry, View, Working, Sending
  <1>3. j \in Job BY <1>2, JobOf
  <1>4. tab' = [tab EXCEPT ![t] = k] BY <1>1 DEF Retry, Inv, Types
  <1>5. {N} \in SUBSET Nat BY PartsTyped
  <1>6. k \in Job BY <1>1, <1>3, <1>5 DEF Job, Sending
  <1>7. /\ k.view = "carry" /\ k.file = j.file /\ k.sent = j.sent /\ k.hashes = j.hashes
        /\ k.expected = j.expected
    BY <1>1, <1>3 DEF Job
  <1>8. UNCHANGED <<pending, record, server, clash>> BY DEF Retry
  <1> QED BY <1>2, <1>4, <1>6, <1>7, <1>8, SameJob

LEMMA FetchUrlsStep ==
  ASSUME Inv, NEW t \in Tabs, FetchUrls(t)
  PROVE  Inv'
  <1> DEFINE j == tab[t]
  <1>1. Working(j) /\ j.view \in {"carry", "send"} BY DEF FetchUrls, View, Working, Sending
  <1>2. j \in Job /\ JobOK(j) BY <1>1, JobOf
  <1>3. UNCHANGED <<record, server, clash>> BY DEF FetchUrls
  <1>4. CASE ~session \/ manifest = "complete"
    <2>1. tab' = [tab EXCEPT ![t] = [view |-> "over"]] /\ Clear(t) BY <1>4 DEF FetchUrls, Over
    <2>2. ~(j.view \in {"away", "chosen", "ready"}) BY <1>1
    <2> QED BY <1>3, <1>4, <2>1, <2>2, ClearStep
  <1>5. CASE ~(~session \/ manifest = "complete")
    <2>1. PICK k : k = [j EXCEPT !.urls = j.urls \cup Signed(j.sent + 1)] OBVIOUS
    <2>2. tab' = [tab EXCEPT ![t] = k] /\ UNCHANGED pending BY <1>5, <2>1 DEF FetchUrls, Inv, Types
    <2>3. Signed(j.sent + 1) \subseteq Nat
      <3>1. j.sent \in 0..N BY <1>2 DEF Job
      <3>2. PICK m \in 0..N : m = j.sent BY <3>1
      <3>3. PICK n \in Nat : n = m + 1 BY PartsTyped
      <3>4. Signed(n) \subseteq Nat BY PartsTyped DEF Signed, UrlLimit
      <3> QED BY <3>2, <3>3, <3>4
    <2>4. k \in Job
      <3>1. j.urls \cup Signed(j.sent + 1) \in SUBSET Nat BY <1>2, <2>3 DEF Job
      <3> QED BY <1>2, <2>1, <3>1 DEF Job
    <2>5. /\ k.view = j.view /\ k.file = j.file /\ k.sent = j.sent /\ k.hashes = j.hashes
          /\ k.expected = j.expected
      BY <1>2, <2>1 DEF Job
    <2>6. k.view \in {"send", "put", "finalise"} => Rechecked(k) BY <1>2, <2>5 DEF JobOK, Rechecked
    <2> QED BY <1>1, <1>3, <2>2, <2>4, <2>5, <2>6, SameJob
  <1> QED BY <1>4, <1>5

LEMMA FetchUrlsFailsStep ==
  ASSUME Inv, NEW t \in Tabs, FetchUrlsFails(t)
  PROVE  Inv'
  <1>1. Working(tab[t]) BY DEF FetchUrlsFails, View, Working, Sending
  <1>2. Stop(t, "network") /\ UNCHANGED <<pending, record, server, clash>> BY DEF FetchUrlsFails
  <1> QED BY <1>1, <1>2, StopStep

LEMMA RefusedStep ==
  ASSUME Inv, NEW t \in Tabs, Refused(t)
  PROVE  Inv'
  <1>1. Working(tab[t]) BY DEF Refused, View, Working, Sending
  <1>2. Stop(t, "refused") /\ UNCHANGED <<pending, record, server, clash>> BY DEF Refused
  <1> QED BY <1>1, <1>2, StopStep

LEMMA SendStep ==
  ASSUME Inv, NEW t \in Tabs, Send(t)
  PROVE  Inv'
  <1> DEFINE j == tab[t]
  <1>1. PICK k : k = [j EXCEPT !.view = "put", !.tries = 1, !.arrived = FALSE] OBVIOUS
  <1>2. j.view = "send" /\ j.sent < N /\ Working(j) BY DEF Send, View, Working, Sending
  <1>3. j \in Job /\ JobOK(j) BY <1>2, JobOf
  <1>4. tab' = [tab EXCEPT ![t] = k] BY <1>1 DEF Send, Inv, Types
  <1>5. k \in Job BY <1>1, <1>3 DEF Job, Sending
  <1>6. /\ k.view = "put" /\ k.file = j.file /\ k.sent = j.sent /\ k.hashes = j.hashes
        /\ k.expected = j.expected /\ ~k.arrived
    BY <1>1, <1>3 DEF Job
  <1>7. Rechecked(k) BY <1>2, <1>3, <1>6 DEF JobOK, Rechecked
  <1>8. UNCHANGED <<pending, record, server, clash>> BY DEF Send
  <1> QED BY <1>2, <1>4, <1>5, <1>6, <1>7, <1>8, SameJob

LEMMA PutFailsStep ==
  ASSUME Inv, NEW t \in Tabs, PutFails(t)
  PROVE  Inv'
  <1> DEFINE j == tab[t]
  <1>1. j.view = "put" /\ Working(j) BY DEF PutFails, View, Working, Sending
  <1>2. j \in Job /\ JobOK(j) BY <1>1, JobOf
  <1>3. UNCHANGED <<pending, record, server, clash>> BY DEF PutFails
  <1>4. CASE Started(t)
    <2>1. PICK k : k = [j EXCEPT !.tries = j.tries + 1, !.arrived = FALSE] OBVIOUS
    <2>2. tab' = [tab EXCEPT ![t] = k] BY <1>4, <2>1 DEF Started, Inv, Types
    <2>3. k \in Job
      <3>1. j.tries \in Nat BY <1>2 DEF Job
      <3>2. PICK m \in Nat : m = j.tries BY <3>1
      <3>3. PICK n \in Nat : n = m + 1 OBVIOUS
      <3>4. j.tries + 1 = n BY <3>2, <3>3
      <3> QED BY <1>2, <2>1, <3>4 DEF Job
    <2>4. /\ k.view = "put" /\ k.file = j.file /\ k.sent = j.sent /\ k.hashes = j.hashes
          /\ k.expected = j.expected /\ ~k.arrived
      BY <1>1, <1>2, <2>1 DEF Job
    <2>5. Rechecked(k) /\ k.sent < N BY <1>1, <1>2, <2>4 DEF JobOK, Rechecked
    <2> QED BY <1>1, <1>3, <2>2, <2>3, <2>4, <2>5, SameJob
  <1>5. CASE Stop(t, "network") BY <1>1, <1>3, <1>5, StopStep
  <1> QED BY <1>4, <1>5 DEF PutFails

LEMMA SentStep ==
  ASSUME Inv, NEW t \in Tabs, Sent(t)
  PROVE  Inv'
  <1> DEFINE j == tab[t]
  <1>1. PICK k : k = [j EXCEPT !.view = "finalise"] OBVIOUS
  <1>2. j.view = "send" /\ j.sent = N /\ Working(j) BY DEF Sent, View, Working, Sending
  <1>3. j \in Job /\ JobOK(j) BY <1>2, JobOf
  <1>4. tab' = [tab EXCEPT ![t] = k] BY <1>1 DEF Sent, Show, Inv, Types
  <1>5. k \in Job BY <1>1, <1>3 DEF Job, Sending
  <1>6. /\ k.view = "finalise" /\ k.file = j.file /\ k.sent = j.sent /\ k.hashes = j.hashes
        /\ k.expected = j.expected
    BY <1>1, <1>3 DEF Job
  <1>7. Rechecked(k) BY <1>2, <1>3, <1>6 DEF JobOK, Rechecked
  <1>8. UNCHANGED <<pending, record, server, clash>> BY DEF Sent
  <1> QED BY <1>2, <1>4, <1>5, <1>6, <1>7, <1>8, SameJob

\* The three ways a tab ends with its record cleared.
LEMMA ClearedStep ==
  ASSUME Inv, NEW t \in Tabs, ResumeBlocked(t) \/ Discard(t) \/ FinaliseGone(t)
  PROVE  Inv'
  <1>1. CASE ResumeBlocked(t) \/ Discard(t)
    <2>1. tab[t].view = "card" /\ ~Working(tab[t]) BY <1>1 DEF ResumeBlocked, Discard, View, Working, Sending
    <2>2. PICK v \in {"chosen", "over"} : tab' = [tab EXCEPT ![t] = [view |-> v]]
      BY <1>1 DEF ResumeBlocked, Discard, Over
    <2>3. Clear(t) /\ UNCHANGED <<record, server, clash>> BY <1>1 DEF ResumeBlocked, Discard, Over
    <2>4. ~(tab[t].view \in {"away", "chosen", "ready"}) BY <2>1
    <2> QED BY <2>1, <2>2, <2>3, <2>4, ClearStep
  <1>2. CASE FinaliseGone(t)
    <2>1. ~(tab[t].view \in {"away", "chosen", "ready"}) /\ ~session BY <1>2 DEF FinaliseGone, View
    <2>2. /\ tab' = [tab EXCEPT ![t] = [view |-> "over"]] /\ Clear(t)
          /\ UNCHANGED <<record, server, clash>>
      BY <1>2 DEF FinaliseGone, Over
    <2> QED BY <2>1, <2>2, ClearStep
  <1> QED BY <1>1, <1>2

-----------------------------------------------------------------------------
(* Opening, closing, beginning and resuming.                                 *)

LEMMA OpenStep ==
  ASSUME Inv, NEW t \in Tabs, Open(t)
  PROVE  Inv'
  <1> DEFINE q == pending[t]
  <1>1. PICK j : j = IF record = NoRecord THEN [view |-> "chosen"] ELSE [view |-> "card", read |-> record] OBVIOUS
  <1>2. tab' = [tab EXCEPT ![t] = j] /\ UNCHANGED <<pending, record, server, clash>> BY <1>1 DEF Open
  <1>3. tab[t].view = "away" /\ ~Working(tab[t]) BY DEF Open, View, Working, Sending
  <1>4. q \in Seq(GoodNotes) /\ pending' = [pending EXCEPT ![t] = q] /\ record \in GoodNotes BY <1>2, QueueOf
  <1>5. j.view \in {"chosen", "card"} /\ ~Working(j) /\ Idle(j) /\ TabOK(j, manifest)
    <2>1. CASE record = NoRecord BY <1>1, <2>1 DEF Working, Sending, Idle, TabOK
    <2>2. CASE record # NoRecord BY <1>1, <1>4, <2>2 DEF Working, Sending, Idle, TabOK
    <2> QED BY <2>1, <2>2
  <1>6. manifest = "none" => q = <<>> /\ j.view \in {"away", "chosen"} BY <1>1 DEF Inv, Types
  <1>7. ASSUME ~clash PROVE Fits(j, Entries(q), record, session, manifest, stored, leaves)
    <2>1. Fits(tab[t], Entries(q), record, session, manifest, stored, leaves) BY <1>7 DEF Inv, Whole
    <2> QED BY <1>3, <1>5, <2>1 DEF Fits, PendingFits
  <1>8. clash' \in BOOLEAN /\ (clash => clash') BY <1>2 DEF Inv, Types
  <1>9. ~clash' => /\ Fits(j, Entries(q), record, session, manifest, stored, leaves)
                   /\ Working(j) => \A u \in Tabs \ {t} : Working(tab[u]) => tab[u].file = j.file
    BY <1>2, <1>5, <1>7
  <1> HIDE DEF q
  <1> QED BY <1>2, <1>4, <1>5, <1>6, <1>8, <1>9, LocalStep

LEMMA CloseStep ==
  ASSUME Inv, NEW t \in Tabs, Close(t)
  PROVE  Inv'
  <1>1. PICK q : q = <<>> OBVIOUS
  <1>2. PICK j : j = Away OBVIOUS
  <1>3. /\ tab' = [tab EXCEPT ![t] = j] /\ pending' = [pending EXCEPT ![t] = q]
        /\ UNCHANGED <<record, server>> /\ UNCHANGED clash
    BY <1>1, <1>2 DEF Close
  <1>4. q \in Seq(GoodNotes) /\ Entries(q) = {} BY <1>1, EmptySeq, EntriesEmpty
  <1>5. j.view = "away" /\ ~Working(j) /\ Idle(j) /\ TabOK(j, manifest) BY <1>2 DEF Away, Working, Sending, Idle, TabOK
  <1>6. Fits(j, Entries(q), record, session, manifest, stored, leaves) BY <1>4, <1>5 DEF Fits, PendingFits
  <1>7. clash' \in BOOLEAN /\ (clash => clash') BY <1>3 DEF Inv, Types
  <1>8. manifest = "none" => q = <<>> /\ j.view \in {"away", "chosen"} BY <1>1, <1>5
  <1>9. ~clash' => /\ Fits(j, Entries(q), record, session, manifest, stored, leaves)
                   /\ Working(j) => \A u \in Tabs \ {t} : Working(tab[u]) => tab[u].file = j.file
    BY <1>5, <1>6
  <1> QED BY <1>3, <1>4, <1>5, <1>7, <1>8, <1>9, LocalStep

\* Before the manifest no tab is at work and nothing is noted.
LEMMA BeginStep ==
  ASSUME Inv, NEW t \in Tabs, Begin(t)
  PROVE  Inv'
  <1>1. PICK k : k = [view |-> "carry", kind |-> "", file |-> Original, sent |-> 0, hashes |-> <<>>, expected |-> <<>>,
                      urls |-> {i \in 1..N : i <= Batch \/ i = N}, tries |-> 0, arrived |-> FALSE]
    OBVIOUS
  <1>2. /\ tab' = [tab EXCEPT ![t] = k] /\ manifest = "none" /\ manifest' = "open"
        /\ pending' = pending /\ record' = record /\ session' = session /\ stored' = stored /\ leaves' = leaves
        /\ clash' = clash
    BY <1>1 DEF Begin
  <1>3. tab' = [u \in Tabs |-> IF u = t THEN k ELSE tab[u]] BY <1>2 DEF Inv, Types
  <1>4. tab'[t] = k /\ \A u \in Tabs \ {t} : tab'[u] = tab[u] BY <1>3
  <1>5. /\ record = NoRecord
        /\ \A u \in Tabs : pending[u] = <<>> /\ tab[u].view \in {"away", "chosen"} /\ ~Working(tab[u]) /\ Idle(tab[u])
    BY <1>2 DEF Inv, Types, Working, Sending, Idle
  <1>6. /\ Working(k) /\ k.view = "carry" /\ k.sent = 0 /\ k.hashes = <<>> /\ k.expected = <<>> /\ k.file = Original
        /\ k.file \in Files
    BY <1>1 DEF Working, Sending, Files
  <1>7. JobOK(k)
    <2>1. <<>> \in Seq(Parts) /\ Len(<<>>) = 0 BY EmptySeq
    <2>2. {i \in 1..N : i <= Batch \/ i = N} \in SUBSET Nat /\ 0 \in 0..N /\ 0 \in Nat /\ Original \in Files
      BY PartsTyped DEF Files
    <2>3. k \in Job BY <1>1, <2>1, <2>2 DEF Job, Sending
    <2>4. Rechecked(k) /\ OfFile(k.hashes, k.file) BY <1>6, <2>1 DEF Rechecked, OfFile
    <2> QED BY <1>6, <2>1, <2>3, <2>4 DEF JobOK
  <1>8. Types'
    <2>1. ASSUME NEW u \in Tabs PROVE TabOK(tab'[u], manifest')
      <3>1. CASE u = t BY <1>2, <1>4, <1>6, <1>7, <3>1 DEF TabOK
      <3>2. CASE u # t BY <1>4, <1>5, <3>2 DEF TabOK
      <3> QED BY <3>1, <3>2
    <2>2. tab' = [u \in Tabs |-> tab'[u]] BY <1>3
    <2> QED BY <1>2, <2>1, <2>2 DEF Inv, Types
  <1>9. ASSUME ~clash' PROVE Whole'
    <2>1. Whole BY <1>2, <1>9 DEF Inv
    <2>2. OneFile' BY <1>4, <1>5 DEF OneFile
    <2>3. ASSUME NEW u \in Tabs
          PROVE  Fits(tab'[u], Entries(pending'[u]), record', session', manifest', stored', leaves')
      <3>1. Entries(pending'[u]) = {} BY <1>2, <1>5, EntriesEmpty
      <3>2. CASE u = t
        <4>1. StoredFits(k, stored) /\ ArrivedFits(k, stored) BY <1>6 DEF StoredFits, ArrivedFits
        <4>2. RecordFits(k, record) BY <1>5, NoRecordGood DEF RecordFits
        <4> QED BY <1>2, <1>4, <3>1, <3>2, <4>1, <4>2 DEF Fits, PendingFits
      <3>3. CASE u # t
        <4>1. tab'[u] = tab[u] /\ ~Working(tab[u]) BY <1>4, <1>5, <3>3
        <4> QED BY <1>2, <3>1, <4>1 DEF Fits, PendingFits
      <3> QED BY <3>2, <3>3
    <2>4. Backed(record', stored') /\ (manifest' = "complete" => stored' = leaves') BY <1>2, <2>1 DEF Whole
    <2> QED BY <2>2, <2>3, <2>4 DEF Whole
  <1> QED BY <1>8, <1>9 DEF Inv

LEMMA ResumeStep ==
  ASSUME Inv, NEW t \in Tabs, NEW f \in Files, Resume(t, f)
  PROVE  Inv'
  <1> DEFINE read == tab[t].read
             q == pending[t]
  <1>1. PICK k : k = [view |-> "carry", kind |-> "", file |-> f, sent |-> read.sent,
                      hashes |-> IF f.modified = read.modified THEN read.hashes ELSE <<>>, expected |-> read.hashes,
                      urls |-> {N}, tries |-> 0, arrived |-> FALSE]
    OBVIOUS
  <1>2. /\ tab' = [tab EXCEPT ![t] = k] /\ clash' = (clash \/ Differs(t, f)) /\ UNCHANGED <<pending, record, server>>
        /\ tab[t].view = "card"
    BY <1>1 DEF Resume, View, Inv, Types
  <1>3. read \in GoodNotes /\ manifest # "none"
    <2>1. TabOK(tab[t], manifest) BY DEF Inv, Types
    <2>2. read \in GoodNotes BY <1>2, <2>1 DEF TabOK, Working, Sending
    <2>3. manifest # "none" BY <1>2 DEF Inv, Types
    <2> QED BY <2>2, <2>3
  <1>4. /\ read.sent \in 0..N /\ read.hashes \in Seq(Parts) /\ Len(read.hashes) = read.sent
        /\ f.modified = read.modified => OfFile(read.hashes, f)
    BY <1>3, NoteFacts
  <1>5. q \in Seq(GoodNotes) /\ pending' = [pending EXCEPT ![t] = q] /\ record \in GoodNotes BY <1>2, QueueOf
  <1>6. /\ Working(k) /\ k.view = "carry" /\ k.sent = read.sent /\ k.expected = read.hashes /\ k.file = f
        /\ k.hashes = IF f.modified = read.modified THEN read.hashes ELSE <<>>
    BY <1>1 DEF Working, Sending
  <1>7. JobOK(k)
    <2>1. <<>> \in Seq(Parts) /\ Len(<<>>) = 0 BY EmptySeq
    <2>2. k.hashes \in Seq(Parts) /\ Len(k.hashes) \in {0, k.sent} /\ OfFile(k.hashes, k.file)
      <3>1. CASE f.modified = read.modified BY <1>4, <1>6, <3>1
      <3>2. CASE f.modified # read.modified BY <1>6, <2>1, <3>2 DEF OfFile
      <3> QED BY <3>1, <3>2
    <2>3. {N} \in SUBSET Nat BY PartsTyped
    <2>4. PICK h \in Seq(Parts) : h = k.hashes BY <2>2
    <2>5. k = [view |-> "carry", kind |-> "", file |-> f, sent |-> read.sent, hashes |-> h,
               expected |-> read.hashes, urls |-> {N}, tries |-> 0, arrived |-> FALSE]
      BY <1>1, <1>6, <2>4
    <2>6. 0 \in Nat /\ "carry" \in Sending BY DEF Sending
    <2>7. k \in Job BY <1>4, <2>3, <2>5, <2>6, Zenon DEF Job
    <2> QED BY <1>4, <1>6, <2>2, <2>7 DEF JobOK
  <1>8. TabOK(k, manifest) BY <1>3, <1>6, <1>7 DEF TabOK
  <1>9. ASSUME ~clash'
        PROVE  /\ Fits(k, Entries(q), record, session, manifest, stored, leaves)
               /\ \A u \in Tabs \ {t} : Working(tab[u]) => tab[u].file = k.file
    <2>1. ~clash /\ ~Differs(t, f) BY <1>2, <1>9 DEF Inv, Types
    <2>2. Fits(tab[t], Entries(q), record, session, manifest, stored, leaves) BY <2>1 DEF Inv, Whole
    <2>3. ~Working(tab[t]) BY <1>2 DEF Working, Sending
    <2>4. \A u \in Tabs \ {t} : Working(tab[u]) => tab[u].file = k.file
      BY <1>6, <2>1 DEF Differs, AtWork, Working
    <2>5. ASSUME NEW i \in 1..read.sent PROVE stored[i] = read.hashes[i]
      BY <2>1 DEF Differs
    <2>6. StoredFits(k, stored)
      <3>1. CASE Rechecked(k)
        <4>1. CASE f.modified = read.modified
          BY <1>4, <1>6, <2>5, <4>1 DEF StoredFits, OfFile
        <4>2. CASE f.modified # read.modified
          <5>1. k.hashes = <<>> BY <1>6, <4>2
          <5>2. 0 >= k.sent BY <3>1, <5>1, EmptySeq DEF Rechecked
          <5> QED BY <1>4, <1>6, <5>2 DEF StoredFits
        <4> QED BY <4>1, <4>2
      <3>2. CASE ~Rechecked(k) BY <1>6, <2>5, <3>2 DEF StoredFits
      <3> QED BY <3>1, <3>2
    <2>7. ArrivedFits(k, stored) BY <1>6 DEF ArrivedFits
    <2>8. RecordFits(k, record)
      <3>1. CASE record.modified = f.modified
        <4>1. OfFile(record.hashes, f) /\ Len(record.hashes) = record.sent BY <1>5, <3>1, NoteFacts
        <4> QED BY <1>6, <4>1 DEF RecordFits, OfFile
      <3>2. CASE record = NoRecord BY <3>2, NoRecordGood DEF RecordFits
      <3>3. CASE record = read /\ record.modified # f.modified
        <4>1. k.hashes = <<>> BY <1>6, <3>3
        <4>2. CASE read.sent = 0 BY <3>3, <4>2 DEF RecordFits
        <4>3. CASE read.sent # 0
          <5>1. ~Rechecked(k) BY <1>4, <1>6, <4>1, <4>3, EmptySeq DEF Rechecked
          <5> QED BY <1>6, <3>3, <5>1, <1>4 DEF RecordFits
        <4> QED BY <4>2, <4>3
      <3> QED BY <2>1, <3>1, <3>2, <3>3 DEF Differs
    <2>9. session /\ manifest = "open" => PendingFits(k, Entries(q))
      BY <2>2, <2>3 DEF Fits, PendingFits
    <2>10. manifest = "complete" => k.file.parts = leaves BY <1>6, <2>1 DEF Differs
    <2>11. \A e \in Entries(q) : Backed(e, stored) BY <2>2 DEF Fits
    <2> QED BY <1>6, <2>4, <2>6, <2>7, <2>8, <2>9, <2>10, <2>11 DEF Fits
  <1>10. clash' \in BOOLEAN /\ (clash => clash')
    <2>1. Differs(t, f) \in BOOLEAN BY DEF Differs
    <2> QED BY <1>2, <2>1 DEF Inv, Types
  <1>11. manifest = "none" => q = <<>> /\ k.view \in {"away", "chosen"} BY <1>3
  <1>12. ~clash' => /\ Fits(k, Entries(q), record, session, manifest, stored, leaves)
                    /\ Working(k) => \A u \in Tabs \ {t} : Working(tab[u]) => tab[u].file = k.file
    BY <1>9
  <1> HIDE DEF q, read
  <1> QED BY <1>2, <1>5, <1>8, <1>10, <1>11, <1>12, LocalStep

-----------------------------------------------------------------------------
(* Comparing, acknowledging, and going back to a part that is missing.       *)

\* The job holds the hashes of all it counts, after comparing what it did not hold.
LEMMA VouchedStep ==
  ASSUME Inv, NEW t \in Tabs, tab[t].view = "carry",
         NEW h \in Seq(Parts), Len(h) = tab[t].sent, OfFile(h, tab[t].file),
         Rechecked(tab[t]) \/ \A i \in 1..tab[t].sent : tab[t].expected[i] = tab[t].file.parts[i],
         tab' = [tab EXCEPT ![t].view = "send", ![t].hashes = h], UNCHANGED <<pending, record, server, clash>>
  PROVE  Inv'
  <1> DEFINE j == tab[t]
             q == pending[t]
  <1>1. PICK k : k = [j EXCEPT !.view = "send", !.hashes = h] OBVIOUS
  <1>2. Working(j) BY DEF Working, Sending
  <1>3. j \in Job /\ JobOK(j) /\ manifest # "none" BY <1>2, JobOf
  <1>4. tab' = [tab EXCEPT ![t] = k] BY <1>1 DEF Inv, Types
  <1>5. k \in Job BY <1>1, <1>3 DEF Job, Sending
  <1>6. k.view = "send" /\ k.file = j.file /\ k.sent = j.sent /\ k.hashes = h /\ k.expected = j.expected
    BY <1>1, <1>3 DEF Job
  <1>7. j.sent \in 0..N BY <1>3 DEF Job
  <1>8. Rechecked(k) BY <1>6, <1>7, PartsTyped DEF Rechecked
  <1>9. Working(k) /\ TabOK(k, manifest)
    <2>1. JobOK(k) BY <1>5, <1>6, <1>8 DEF JobOK
    <2> QED BY <1>3, <1>6, <2>1 DEF TabOK, Working, Sending
  <1>10. q \in Seq(GoodNotes) /\ pending' = [pending EXCEPT ![t] = q] BY QueueOf
  <1>11. ASSUME ~clash
         PROVE  /\ Fits(k, Entries(q), record, session, manifest, stored, leaves)
                /\ \A u \in Tabs \ {t} : Working(tab[u]) => tab[u].file = k.file
    <2>1. Fits(j, Entries(q), record, session, manifest, stored, leaves) /\ OneFile BY <1>11 DEF Inv, Whole
    <2>2. StoredFits(k, stored) BY <1>2, <1>6, <2>1 DEF Fits, StoredFits
    <2>3. ArrivedFits(k, stored) BY <1>6 DEF ArrivedFits
    <2>4. ASSUME session, manifest = "open" PROVE PendingFits(k, Entries(q)) /\ RecordFits(k, record)
      <3>1. PendingFits(j, Entries(q)) /\ RecordFits(j, record) BY <1>2, <2>1, <2>4 DEF Fits
      <3>2. PendingFits(k, Entries(q)) BY <1>6, <1>8, <1>9, <3>1 DEF PendingFits
      <3>3. \A i \in 1..record.sent : i <= j.sent => i \in 1..j.sent
        <4>1. record.sent \in 0..N BY QueueOf, NoteFacts
        <4> QED BY <1>7, <4>1, PartsTyped
      <3>4. RecordFits(k, record) BY <1>6, <3>1, <3>3 DEF RecordFits
      <3> QED BY <3>2, <3>4
    <2>5. ~Idle(j) BY <1>2 DEF Idle
    <2>6. manifest = "complete" => k.file.parts = leaves BY <1>6, <2>1, <2>5 DEF Fits
    <2>7. \A e \in Entries(q) : Backed(e, stored) BY <2>1 DEF Fits
    <2>8. \A u \in Tabs \ {t} : Working(tab[u]) => tab[u].file = k.file BY <1>2, <1>6, <2>1 DEF OneFile
    <2> QED BY <1>9, <2>2, <2>3, <2>4, <2>6, <2>7, <2>8 DEF Fits
  <1>12. clash' \in BOOLEAN /\ (clash => clash') /\ UNCHANGED <<record, server>> BY DEF Inv, Types
  <1>13. manifest = "none" => q = <<>> /\ k.view \in {"away", "chosen"} BY <1>3
  <1>14. ~clash' => /\ Fits(k, Entries(q), record, session, manifest, stored, leaves)
                    /\ Working(k) => \A u \in Tabs \ {t} : Working(tab[u]) => tab[u].file = k.file
    BY <1>11
  <1> HIDE DEF q, j
  <1> QED BY <1>4, <1>9, <1>10, <1>12, <1>13, <1>14, LocalStep

LEMMA RecheckStep ==
  ASSUME Inv, NEW t \in Tabs, Recheck(t)
  PROVE  Inv'
  <1> DEFINE j == tab[t]
             again == SubSeq(j.file.parts, 1, j.sent)
  <1>1. j.view = "carry" /\ Working(j) /\ UNCHANGED <<record, server, clash>>
    BY DEF Recheck, View, Working, Sending
  <1>2. JobOK(j) /\ j \in Job BY <1>1, JobOf
  <1>3. j.sent \in 0..N /\ j.file \in Files /\ j.hashes \in Seq(Parts) /\ j.expected \in Seq(Parts) /\ j.sent \in Nat
    <2>1. j.sent \in 0..N /\ j.file \in Files /\ j.hashes \in Seq(Parts) /\ j.expected \in Seq(Parts)
      BY <1>2 DEF Job
    <2> QED BY <2>1, PartsTyped
  <1>4. /\ again \in Seq(Parts) /\ Len(again) = j.sent
        /\ \A i \in 1..j.sent : again[i] = j.file.parts[i]
    BY <1>3, PartsTyped, Cut
  <1>5. CASE Rechecked(j)
    <2>1. PICK h : h = SubSeq(j.hashes, 1, j.sent) OBVIOUS
    <2>2. tab' = [tab EXCEPT ![t].view = "send", ![t].hashes = h] /\ UNCHANGED pending
      BY <1>5, <2>1 DEF Recheck, Rechecked
    <2>3. Len(j.hashes) = j.sent
      <3>1. Len(j.hashes) = j.sent \/ (Len(j.hashes) = 0 /\ 0 >= j.sent) BY <1>2, <1>5 DEF JobOK, Rechecked
      <3> QED BY <1>3, <3>1
    <2>4. j.sent \in 0..Len(j.hashes) BY <1>3, <2>3
    <2>5. h \in Seq(Parts) /\ Len(h) = j.sent /\ \A i \in 1..j.sent : h[i] = j.hashes[i]
      BY <1>3, <2>1, <2>4, Cut
    <2>6. OfFile(h, j.file) BY <1>2, <2>3, <2>5 DEF JobOK, OfFile
    <2> QED BY <1>1, <1>5, <2>2, <2>5, <2>6, VouchedStep
  <1>6. CASE ~Rechecked(j) /\ again = SubSeq(j.expected, 1, j.sent)
    <2>1. PICK h : h = again OBVIOUS
    <2>2. tab' = [tab EXCEPT ![t].view = "send", ![t].hashes = h] /\ UNCHANGED pending
      BY <1>6, <2>1 DEF Recheck, Rechecked
    <2>3. OfFile(h, j.file) BY <1>4, <2>1 DEF OfFile
    <2>4. Len(j.expected) = j.sent BY <1>2, <1>6 DEF JobOK
    <2>5. \A i \in 1..j.sent : SubSeq(j.expected, 1, j.sent)[i] = j.expected[i]
      <3>1. j.sent \in 0..Len(j.expected) BY <1>3, <2>4
      <3> QED BY <1>3, <3>1, Cut
    <2>6. \A i \in 1..j.sent : j.expected[i] = j.file.parts[i] BY <1>4, <1>6, <2>5
    <2> HIDE DEF again
    <2> QED BY <1>1, <1>4, <2>1, <2>2, <2>3, <2>6, VouchedStep
  <1>7. CASE ~Rechecked(j) /\ again # SubSeq(j.expected, 1, j.sent)
    <2>1. tab' = [tab EXCEPT ![t] = [view |-> "over"]] /\ Clear(t) BY <1>7 DEF Recheck, Rechecked, Over
    <2>2. ~(j.view \in {"away", "chosen", "ready"}) BY <1>1
    <2> QED BY <1>1, <1>7, <2>1, <2>2, ClearStep
  <1> QED BY <1>5, <1>6, <1>7

\* A job that counts another number of parts, all of its file and in R2, and notes it.
LEMMA NotedStep ==
  ASSUME Inv, NEW t \in Tabs, Working(tab[t]), Rechecked(tab[t]), NEW k \in Job,
         k.file = tab[t].file, Len(k.hashes) = k.sent, OfFile(k.hashes, k.file),
         k.view \in {"send", "stopped"},
         ~clash => \A i \in 1..k.sent : stored[i] = k.file.parts[i],
         tab' = [tab EXCEPT ![t] = k], Write(t, Note(k)), UNCHANGED <<record, server, clash>>
  PROVE  Inv'
  <1> DEFINE j == tab[t]
  <1>1. PICK q : q = Append(pending[t], Note(k)) OBVIOUS
  <1>2. k.sent \in 0..N /\ k.file \in Files /\ k.hashes \in Seq(Parts) BY DEF Job
  <1>3. /\ Note(k) \in GoodNotes /\ Note(k).sent = k.sent
        /\ \A i \in 1..k.sent : Note(k).hashes[i] = k.file.parts[i]
    BY <1>2, NoteOfJob
  <1>4. q \in Seq(GoodNotes) /\ Entries(q) = Entries(pending[t]) \cup {Note(k)} BY <1>1, <1>3, QueueOf, EntriesAppend
  <1>5. pending' = [pending EXCEPT ![t] = q] BY <1>1 DEF Write, Inv, Types
  <1>6. manifest # "none" BY JobOf
  <1>7. Rechecked(k) /\ Working(k) BY <1>2, PartsTyped DEF Rechecked, Working, Sending
  <1>8. TabOK(k, manifest)
    <2>1. JobOK(k) BY <1>7 DEF JobOK
    <2> QED BY <1>6, <1>7, <2>1 DEF TabOK
  <1>9. ASSUME ~clash
        PROVE  /\ Fits(k, Entries(q), record, session, manifest, stored, leaves)
               /\ \A u \in Tabs \ {t} : Working(tab[u]) => tab[u].file = k.file
    <2>1. Fits(j, Entries(pending[t]), record, session, manifest, stored, leaves) /\ OneFile BY <1>9 DEF Inv, Whole
    <2>2. \A i \in 1..k.sent : stored[i] = k.file.parts[i] BY <1>9
    <2>3. \A e \in Entries(q) : Backed(e, stored) BY <1>3, <1>4, <2>1, <2>2 DEF Fits, Backed
    <2>4. StoredFits(k, stored) /\ ArrivedFits(k, stored) BY <2>2 DEF StoredFits, ArrivedFits
    <2>5. session /\ manifest = "open" => PendingFits(k, Entries(q)) /\ RecordFits(k, record)
      BY <1>3, <1>4, <1>7, <2>1 DEF Fits, PendingFits, RecordFits
    <2>6. ~Idle(j) BY DEF Idle
    <2>7. manifest = "complete" => k.file.parts = leaves BY <2>1, <2>6 DEF Fits
    <2>8. \A u \in Tabs \ {t} : Working(tab[u]) => tab[u].file = k.file BY <2>1 DEF OneFile
    <2> QED BY <2>3, <2>4, <2>5, <2>7, <2>8 DEF Fits
  <1>10. clash' \in BOOLEAN /\ (clash => clash') /\ UNCHANGED <<record, server>> BY DEF Inv, Types
  <1>11. manifest = "none" => q = <<>> /\ k.view \in {"away", "chosen"} BY <1>6
  <1>12. ~clash' => /\ Fits(k, Entries(q), record, session, manifest, stored, leaves)
                    /\ Working(k) => \A u \in Tabs \ {t} : Working(tab[u]) => tab[u].file = k.file
    BY <1>9
  <1> QED BY <1>4, <1>5, <1>8, <1>10, <1>11, <1>12, LocalStep

LEMMA AckedStep ==
  ASSUME Inv, NEW t \in Tabs, Acked(t)
  PROVE  Inv'
  <1> DEFINE j == tab[t]
  <1>1. PICK k : k = Counted(j) OBVIOUS
  <1>2. j.view = "put" /\ j.arrived /\ Working(j) BY DEF Acked, View, Working, Sending
  <1>3. JobOK(j) /\ j \in Job /\ Rechecked(j) BY <1>2, JobOf DEF JobOK
  <1>4. /\ tab' = [tab EXCEPT ![t] = k] /\ Write(t, Note(k)) /\ UNCHANGED <<record, server, clash>>
    BY <1>1 DEF Acked, Inv, Types
  <1>5. j.sent \in 0..N /\ j.sent < N /\ j.file \in Files /\ j.hashes \in Seq(Parts)
    BY <1>2, <1>3 DEF Job, JobOK
  <1>6. PICK n \in 0..(N - 1) : n = j.sent BY <1>5, PartsTyped
  <1>7. n + 1 \in 1..N /\ n + 1 \in 0..N /\ n \in Nat BY PartsTyped
  <1>8. Len(j.hashes) = n
    <2>1. Len(j.hashes) = n \/ (Len(j.hashes) = 0 /\ 0 >= n) BY <1>3, <1>6 DEF JobOK, Rechecked
    <2> QED BY <1>7, <2>1
  <1>9. PICK h : h = Append(j.hashes, j.file.parts[n + 1]) OBVIOUS
  <1>10. /\ h \in Seq(Parts) /\ Len(h) = n + 1
         /\ \A i \in 1..n : h[i] = j.hashes[i]
         /\ h[n + 1] = j.file.parts[n + 1]
    <2>1. j.file.parts[n + 1] \in Parts BY <1>5, <1>7, PartsTyped
    <2> QED BY <1>5, <1>8, <1>9, <2>1, AppendProperties
  <1>11. k = [j EXCEPT !.view = "send", !.hashes = h, !.sent = n + 1] BY <1>1, <1>3, <1>6, <1>9 DEF Counted, Job
  <1>12. k \in Job BY <1>3, <1>7, <1>10, <1>11 DEF Job, Sending
  <1>13. k.view = "send" /\ k.file = j.file /\ k.sent = n + 1 /\ k.hashes = h BY <1>3, <1>11 DEF Job
  <1>14. \A i \in 1..(n + 1) : i \in 1..n \/ i = n + 1 BY <1>7
  <1>15. OfFile(h, j.file)
    <2>1. \A i \in 1..n : j.hashes[i] = j.file.parts[i] BY <1>3, <1>8 DEF JobOK, OfFile
    <2> QED BY <1>10, <1>14, <2>1 DEF OfFile
  <1>16. ASSUME ~clash PROVE \A i \in 1..k.sent : stored[i] = k.file.parts[i]
    <2>1. StoredFits(j, stored) /\ ArrivedFits(j, stored) BY <1>2, <1>16 DEF Inv, Whole, Fits
    <2>2. \A i \in 1..n : stored[i] = j.file.parts[i] BY <1>3, <1>6, <2>1 DEF StoredFits
    <2>3. stored[n + 1] = j.file.parts[n + 1] BY <1>2, <1>6, <2>1 DEF ArrivedFits
    <2> QED BY <1>13, <1>14, <2>2, <2>3
  <1>17. k.view \in {"send", "stopped"} /\ Len(k.hashes) = k.sent /\ OfFile(k.hashes, k.file)
    BY <1>10, <1>13, <1>15
  <1> QED BY <1>2, <1>3, <1>4, <1>12, <1>13, <1>16, <1>17, NotedStep

LEMMA FinaliseRefusedStep ==
  ASSUME Inv, NEW t \in Tabs, FinaliseRefused(t)
  PROVE  Inv'
  <1> DEFINE j == tab[t]
  <1>1. PICK n : n = Redo(j) OBVIOUS
  <1>2. PICK h : h = SubSeq(j.hashes, 1, n) OBVIOUS
  <1>3. PICK k : k = [j EXCEPT !.view = "stopped", !.kind = "missing", !.sent = n, !.hashes = h] OBVIOUS
  <1>4. j.view = "finalise" /\ Working(j) BY DEF FinaliseRefused, View, Working, Sending
  <1>5. JobOK(j) /\ j \in Job /\ Rechecked(j) /\ j.sent = N BY <1>4, JobOf DEF JobOK
  <1>6. tab' = [tab EXCEPT ![t] = k] /\ Write(t, Note(k)) /\ UNCHANGED <<record, server, clash>>
    BY <1>1, <1>2, <1>3 DEF FinaliseRefused, Inv, Types
  <1>7. j.file \in Files /\ j.hashes \in Seq(Parts) BY <1>5 DEF Job
  <1>8. Len(j.hashes) = N
    <2>1. Len(j.hashes) = N \/ (Len(j.hashes) = 0 /\ 0 >= N) BY <1>5 DEF JobOK, Rechecked
    <2> QED BY <2>1, PartsTyped
  <1>9. n \in 0..N
    <2>1. CASE manifest = "complete" BY <1>1, <2>1, PartsTyped DEF Redo
    <2>2. CASE manifest # "complete"
      <3>1. Missing \in SUBSET (1..N) /\ Missing # {} BY <2>2 DEF FinaliseRefused, Missing
      <3>2. Least(Missing) \in 1..N BY <3>1, LeastPart
      <3>3. PICK m \in 1..N : m = Least(Missing) BY <3>2
      <3>4. n = m - 1 BY <1>1, <2>2, <3>3 DEF Redo
      <3> QED BY <3>4, PartsTyped
    <2> QED BY <2>1, <2>2
  <1>10. h \in Seq(Parts) /\ Len(h) = n /\ \A i \in 1..n : h[i] = j.hashes[i] BY <1>2, <1>7, <1>8, <1>9, Cut
  <1>11. k \in Job BY <1>3, <1>5, <1>9, <1>10 DEF Job, Sending
  <1>12. k.view = "stopped" /\ k.file = j.file /\ k.sent = n /\ k.hashes = h BY <1>3, <1>5 DEF Job
  <1>13. \A i \in 1..n : i \in 1..N BY <1>9, PartsTyped
  <1>14. OfFile(h, j.file) BY <1>5, <1>8, <1>10, <1>13 DEF JobOK, OfFile
  <1>15. ASSUME ~clash PROVE \A i \in 1..k.sent : stored[i] = k.file.parts[i]
    <2>1. StoredFits(j, stored) BY <1>4, <1>15 DEF Inv, Whole, Fits
    <2> QED BY <1>5, <1>12, <1>13, <2>1 DEF StoredFits
  <1>16. k.view \in {"send", "stopped"} /\ Len(k.hashes) = k.sent /\ OfFile(k.hashes, k.file)
    BY <1>10, <1>12, <1>14
  <1> QED BY <1>4, <1>5, <1>6, <1>11, <1>12, <1>15, <1>16, NotedStep

-----------------------------------------------------------------------------
(* The steps that change the record, R2 or the manifest.                     *)

\* Who asked for the write held its file's hashes, and every tab at work has that file.
LEMMA PersistStep ==
  ASSUME Inv, NEW t \in Tabs, Persist(t)
  PROVE  Inv'
  <1>1. PICK r : r = Head(pending[t]) OBVIOUS
  <1>2. PICK q : q = Tail(pending[t]) OBVIOUS
  <1>3. pending[t] \in Seq(GoodNotes) /\ pending[t] # <<>> BY QueueOf DEF Persist
  <1>4. r \in GoodNotes /\ r \in Entries(pending[t]) /\ q \in Seq(GoodNotes) /\ Entries(q) \subseteq Entries(pending[t])
    BY <1>1, <1>2, <1>3, EntriesHead
  <1>5. /\ record' = r /\ tab' = tab /\ session' = session /\ manifest' = manifest /\ stored' = stored
        /\ leaves' = leaves /\ clash' = clash
    BY <1>1 DEF Persist, server
  <1>6. pending' = [u \in Tabs |-> IF u = t THEN q ELSE pending[u]] BY <1>2 DEF Persist, Inv, Types
  <1>7. Types'
    <2>1. pending' \in [Tabs -> Seq(GoodNotes)] BY <1>4, <1>6 DEF Inv, Types
    <2>2. manifest # "none" BY <1>3 DEF Inv, Types
    <2> QED BY <1>4, <1>5, <2>1, <2>2 DEF Inv, Types
  <1>8. ASSUME ~clash' PROVE Whole'
    <2>1. Whole BY <1>5, <1>8 DEF Inv
    <2>2. OneFile' BY <1>5, <2>1 DEF Whole, OneFile
    <2>3. Backed(record', stored') BY <1>4, <1>5, <2>1 DEF Whole, Fits
    <2>4. ASSUME NEW u \in Tabs
          PROVE  Fits(tab'[u], Entries(pending'[u]), record', session', manifest', stored', leaves')
      <3>1. Fits(tab[u], Entries(pending[u]), record, session, manifest, stored, leaves) BY <2>1 DEF Whole
      <3>2. Entries(pending'[u]) \subseteq Entries(pending[u]) BY <1>4, <1>6
      <3>3. ASSUME session, manifest = "open", Working(tab[u]) PROVE RecordFits(tab[u], r)
        <4>1. PendingFits(tab[t], Entries(pending[t])) BY <2>1, <3>3 DEF Whole, Fits
        <4>2. \A i \in 1..r.sent : Working(tab[t]) /\ r.hashes[i] = tab[t].file.parts[i] BY <1>4, <4>1 DEF PendingFits
        <4>3. Working(tab[t]) => tab[t].file = tab[u].file BY <2>1, <3>3 DEF Whole, OneFile
        <4> QED BY <4>2, <4>3 DEF RecordFits
      <3> QED BY <1>5, <3>1, <3>2, <3>3 DEF Fits, PendingFits
    <2>5. manifest' = "complete" => stored' = leaves' BY <1>5, <2>1 DEF Whole
    <2> QED BY <2>2, <2>3, <2>4, <2>5 DEF Whole
  <1> QED BY <1>7, <1>8 DEF Inv

\* R2 takes a part: what the record and the writes say of it, if anything, is what it is.
LEMMA ArriveStep ==
  ASSUME Inv, NEW t \in Tabs, Arrive(t)
  PROVE  Inv'
  <1> DEFINE j == tab[t]
  <1>1. PICK n : n = j.sent + 1 OBVIOUS
  <1>2. PICK p : p = j.file.parts[n] OBVIOUS
  <1>3. PICK k : k = [j EXCEPT !.arrived = TRUE] OBVIOUS
  <1>4. j.view = "put" /\ Working(j) /\ session BY DEF Arrive, View, Working, Sending
  <1>5. JobOK(j) /\ j \in Job /\ Rechecked(j) /\ manifest # "none" BY <1>4, JobOf DEF JobOK
  <1>6. /\ record' = record /\ pending' = pending /\ session' = session /\ manifest' = manifest /\ leaves' = leaves
        /\ clash' = clash
    BY DEF Arrive
  <1>7. stored' = [i \in 1..N |-> IF i = n THEN p ELSE stored[i]]
    BY <1>1, <1>2 DEF Arrive, Part, Inv, Types
  <1>8. tab' = [u \in Tabs |-> IF u = t THEN k ELSE tab[u]] BY <1>3 DEF Arrive, Inv, Types
  <1>9. n \in 1..N
    <2>1. j.sent \in 0..N /\ j.sent < N BY <1>4, <1>5 DEF JobOK, Job
    <2> QED BY <1>1, <2>1, PartsTyped
  <1>10. k \in Job BY <1>3, <1>5 DEF Job
  <1>11. /\ k.view = "put" /\ k.file = j.file /\ k.sent = j.sent /\ k.hashes = j.hashes
         /\ k.expected = j.expected
    BY <1>3, <1>4, <1>5 DEF Job
  <1>12. Working(k) /\ Rechecked(k) /\ ~Idle(k) /\ ~Idle(j) BY <1>4, <1>5, <1>11 DEF Working, Rechecked, Idle
  <1>13. Types'
    <2>1. JobOK(k) BY <1>4, <1>5, <1>10, <1>11, <1>12 DEF JobOK
    <2>2. ASSUME NEW u \in Tabs PROVE TabOK(tab'[u], manifest')
      <3>1. CASE u = t BY <1>5, <1>6, <1>8, <1>12, <2>1, <3>1 DEF TabOK
      <3>2. CASE u # t BY <1>6, <1>8, <3>2 DEF Inv, Types
      <3> QED BY <3>1, <3>2
    <2>3. tab' = [u \in Tabs |-> tab'[u]] BY <1>8
    <2>4. stored' = [i \in 1..N |-> stored'[i]] BY <1>7
    <2> QED BY <1>5, <1>6, <2>2, <2>3, <2>4 DEF Inv, Types
  <1>14. ASSUME ~clash' PROVE Whole'
    <2>1. Whole BY <1>6, <1>14 DEF Inv
    <2>2. \A u \in Tabs : Working(tab[u]) => tab[u].file = j.file BY <1>4, <2>1 DEF Whole, OneFile
    <2>3. ASSUME NEW u \in Tabs
          PROVE  /\ Working(tab'[u]) <=> Working(tab[u])
                 /\ Working(tab'[u]) => tab'[u].file = tab[u].file /\ tab'[u].file = j.file
      <3>1. CASE u = t BY <1>4, <1>8, <1>11, <1>12, <3>1
      <3>2. CASE u # t BY <1>8, <2>2, <3>2
      <3> QED BY <3>1, <3>2
    <2>4. OneFile' BY <2>3 DEF OneFile
    <2>5. CASE manifest = "complete"
      <3>1. j.file.parts = leaves /\ stored = leaves BY <1>12, <2>1, <2>5 DEF Whole, Fits
      <3>2. p = stored[n] BY <1>2, <3>1
      <3>3. stored' = stored
        <4>1. stored = [i \in 1..N |-> stored[i]] BY DEF Inv, Types
        <4>2. \A i \in 1..N : stored'[i] = stored[i] BY <1>7, <3>2
        <4> QED BY <1>7, <4>1, <4>2
      <3>4. ASSUME NEW u \in Tabs
            PROVE  Fits(tab'[u], Entries(pending'[u]), record', session', manifest', stored', leaves')
        <4>1. Fits(tab[u], Entries(pending[u]), record, session, manifest, stored, leaves) BY <2>1 DEF Whole
        <4>2. CASE u # t BY <1>6, <1>8, <3>3, <4>1, <4>2
        <4>3. CASE u = t
          <5>1. tab'[u] = k BY <1>8, <4>3
          <5>2. StoredFits(k, stored) BY <1>4, <1>11, <4>1, <4>3 DEF Fits, StoredFits, Rechecked
          <5>3. ArrivedFits(k, stored) BY <1>1, <1>2, <1>11, <3>2 DEF ArrivedFits
          <5>4. \A e \in Entries(pending[u]) : Backed(e, stored) BY <4>1 DEF Fits
          <5> QED BY <1>6, <1>11, <2>5, <3>1, <3>3, <5>1, <5>2, <5>3, <5>4 DEF Fits
        <4> QED BY <4>2, <4>3
      <3> QED BY <1>6, <2>1, <2>4, <3>3, <3>4 DEF Whole
    <2>6. CASE manifest = "open"
      <3>1. ASSUME NEW u \in Tabs, Working(tab[u]) PROVE StoredFits(tab[u], stored')
        <4>1. StoredFits(tab[u], stored) BY <2>1, <3>1 DEF Whole, Fits
        <4>2. tab[u].sent \in 0..N BY <3>1, JobOf DEF Job
        <4>3. \A i \in 1..tab[u].sent : i \in 1..N BY <4>2, PartsTyped
        <4>4. tab[u].file = j.file BY <2>2, <3>1
        <4>5. \A i \in 1..tab[u].sent : stored'[i] = stored[i] \/ stored'[i] = tab[u].file.parts[i]
          BY <1>2, <1>7, <4>3, <4>4
        <4> QED BY <4>1, <4>5 DEF StoredFits
      <3>2. ASSUME NEW r \in GoodNotes, Backed(r, stored), \A i \in 1..r.sent : r.hashes[i] = j.file.parts[i]
            PROVE  Backed(r, stored')
        <4>1. r.sent \in 0..N BY NoteFacts
        <4>2. \A i \in 1..r.sent : i \in 1..N BY <4>1, PartsTyped
        <4> QED BY <1>2, <1>7, <3>2, <4>2 DEF Backed
      <3>3. Backed(record', stored')
        <4>1. RecordFits(j, record) BY <1>4, <2>1, <2>6 DEF Whole, Fits
        <4>2. \A i \in 1..record.sent : record.hashes[i] = j.file.parts[i] BY <1>5, <4>1 DEF RecordFits
        <4>3. record \in GoodNotes /\ Backed(record, stored) BY <2>1, QueueOf DEF Whole
        <4> QED BY <1>6, <3>2, <4>2, <4>3
      <3>4. ASSUME NEW u \in Tabs
            PROVE  Fits(tab'[u], Entries(pending'[u]), record', session', manifest', stored', leaves')
        <4>1. Fits(tab[u], Entries(pending[u]), record, session, manifest, stored, leaves) BY <2>1 DEF Whole
        <4>2. PendingFits(tab[u], Entries(pending[u])) BY <1>4, <2>6, <4>1 DEF Fits
        <4>3. ASSUME NEW e \in Entries(pending[u]) PROVE Backed(e, stored')
          <5>1. e \in GoodNotes
            <6>1. pending[u] \in Seq(GoodNotes) BY QueueOf
            <6> QED BY <6>1, LenProperties, ElementOfSeq DEF Entries
          <5>2. Backed(e, stored) BY <4>1 DEF Fits
          <5>3. \A i \in 1..e.sent : e.hashes[i] = j.file.parts[i] BY <2>2, <4>2 DEF PendingFits
          <5> QED BY <3>2, <5>1, <5>2, <5>3
        <4>4. CASE u = t
          <5>1. tab'[u] = k BY <1>8, <4>4
          <5>2. StoredFits(k, stored')
            <6>1. StoredFits(j, stored') BY <1>4, <3>1
            <6> QED BY <1>11, <6>1 DEF StoredFits, Rechecked
          <5>3. ArrivedFits(k, stored')
            <6>1. stored'[n] = p BY <1>7, <1>9
            <6> QED BY <1>1, <1>2, <1>11, <6>1 DEF ArrivedFits
          <5>4. RecordFits(k, record) BY <1>4, <1>11, <2>6, <4>1, <4>4 DEF Fits, RecordFits, Rechecked
          <5>5. PendingFits(k, Entries(pending[u])) BY <1>11, <1>12, <4>2, <4>4 DEF PendingFits
          <5> QED BY <1>6, <1>12, <2>6, <4>3, <5>1, <5>2, <5>3, <5>4, <5>5 DEF Fits
        <4>5. CASE u # t
          <5>1. tab'[u] = tab[u] BY <1>8, <4>5
          <5>2. ASSUME Working(tab[u]) PROVE ArrivedFits(tab[u], stored')
            <6>1. ArrivedFits(tab[u], stored) BY <4>1, <5>2 DEF Fits
            <6>2. tab[u].file = j.file BY <2>2, <5>2
            <6>3. ASSUME tab[u].view = "put" PROVE tab[u].sent + 1 \in 1..N
              <7>1. tab[u].sent \in 0..N /\ tab[u].sent < N BY <5>2, <6>3, JobOf DEF JobOK, Job
              <7> QED BY <7>1, PartsTyped
            <6>4. PICK m : m = tab[u].sent + 1 OBVIOUS
            <6> QED BY <1>2, <1>7, <6>1, <6>2, <6>3, <6>4 DEF ArrivedFits
          <5> QED BY <1>6, <2>6, <3>1, <4>1, <4>3, <5>1, <5>2 DEF Fits
        <4> QED BY <4>4, <4>5
      <3> QED BY <1>6, <2>4, <2>6, <3>3, <3>4 DEF Whole
    <2> QED BY <1>5, <2>5, <2>6 DEF Inv, Types
  <1> QED BY <1>13, <1>14 DEF Inv

\* Finalise completes the transfer, whether the page hears of it or not.
LEMMA CompletesStep ==
  ASSUME Inv, NEW t \in Tabs, tab[t].view = "finalise", Completes(t), NEW k, NEW q \in Seq(GoodNotes),
         k.file = tab[t].file, k.view \in {"ready", "stopped"},
         k.view = "stopped" => k \in Job /\ k.sent = tab[t].sent /\ k.hashes = tab[t].hashes /\ k.expected = tab[t].expected,
         tab' = [tab EXCEPT ![t] = k], pending' = [pending EXCEPT ![t] = q],
         Entries(q) \subseteq Entries(pending[t]) \cup {NoRecord}, UNCHANGED <<record, clash>>
  PROVE  Inv'
  <1> DEFINE j == tab[t]
  <1>1. Working(j) BY DEF Working, Sending
  <1>2. JobOK(j) /\ j \in Job /\ Rechecked(j) /\ j.sent = N BY <1>1, JobOf DEF JobOK
  <1>3. j.file \in Files /\ j.hashes \in Seq(Parts) BY <1>2 DEF Job
  <1>4. Len(j.hashes) = N
    <2>1. Len(j.hashes) = N \/ (Len(j.hashes) = 0 /\ 0 >= N) BY <1>2 DEF JobOK, Rechecked
    <2> QED BY <2>1, PartsTyped
  <1>5. j.hashes = j.file.parts BY <1>2, <1>3, <1>4, IsFile DEF JobOK
  <1>6. /\ session' = session /\ stored' = stored /\ manifest = "open" /\ manifest' = "complete"
        /\ leaves' = j.file.parts
    BY <1>5 DEF Completes
  <1>7. tab' = [u \in Tabs |-> IF u = t THEN k ELSE tab[u]] BY DEF Inv, Types
  <1>8. pending' = [u \in Tabs |-> IF u = t THEN q ELSE pending[u]] BY DEF Inv, Types
  <1>9. ~Working(k) \/ (Working(k) /\ JobOK(k) /\ Rechecked(k))
    <2>1. CASE k.view = "ready" BY <2>1 DEF Working, Sending
    <2>2. CASE k.view = "stopped" BY <1>2, <2>2 DEF JobOK, Rechecked, Working, Sending
    <2> QED BY <2>1, <2>2
  <1>10. \A u \in Tabs : ~(tab[u].view = "ready")
    <2>1. ASSUME NEW u \in Tabs, tab[u].view = "ready" PROVE FALSE
      <3>1. TabOK(tab[u], manifest) BY DEF Inv, Types
      <3> QED BY <1>6, <2>1, <3>1 DEF TabOK, Working, Sending
    <2> QED BY <2>1
  <1>11. Types'
    <2>1. ASSUME NEW u \in Tabs PROVE TabOK(tab'[u], manifest')
      <3>1. CASE u = t
        <4>1. TabOK(k, "complete")
          <5>1. CASE k.view = "ready" BY <1>3, <5>1 DEF TabOK
          <5>2. CASE k.view = "stopped" BY <1>9, <5>2 DEF TabOK, Working, Sending
          <5> QED BY <5>1, <5>2
        <4> QED BY <1>6, <1>7, <3>1, <4>1
      <3>2. CASE u # t
        <4>1. TabOK(tab[u], manifest) BY DEF Inv, Types
        <4> QED BY <1>6, <1>7, <3>2, <4>1 DEF TabOK
      <3> QED BY <3>1, <3>2
    <2>2. tab' = [u \in Tabs |-> tab'[u]] BY <1>7
    <2>3. pending' \in [Tabs -> Seq(GoodNotes)] BY <1>8 DEF Inv, Types
    <2> QED BY <1>6, <2>1, <2>2, <2>3 DEF Inv, Types
  <1>12. ASSUME ~clash' PROVE Whole'
    <2>1. Whole BY <1>12 DEF Inv
    <2>2. \A u \in Tabs : Working(tab[u]) => tab[u].file = j.file BY <1>1, <2>1 DEF Whole, OneFile
    <2>3. ASSUME NEW u \in Tabs, Working(tab'[u]) PROVE tab'[u].file = j.file
      <3>1. CASE u = t BY <1>7, <3>1
      <3>2. CASE u # t BY <1>7, <2>2, <2>3, <3>2
      <3> QED BY <3>1, <3>2
    <2>4. OneFile' BY <2>3 DEF OneFile
    <2>5. stored' = leaves'
      <3>1. StoredFits(j, stored) BY <1>1, <2>1 DEF Whole, Fits
      <3>2. \A i \in 1..N : stored[i] = j.file.parts[i] BY <1>2, <3>1 DEF StoredFits
      <3>3. stored = [i \in 1..N |-> stored[i]] BY DEF Inv, Types
      <3>4. j.file.parts = [i \in 1..N |-> j.file.parts[i]]
        <4>1. j.file.parts \in Seq(Parts) /\ Len(j.file.parts) = N BY <1>3, PartsTyped
        <4>2. j.file.parts \in [1..N -> Parts] BY <4>1, LenProperties
        <4> QED BY <4>2
      <3> QED BY <1>6, <3>2, <3>3, <3>4
    <2>6. ASSUME NEW u \in Tabs
          PROVE  Fits(tab'[u], Entries(pending'[u]), record', session', manifest', stored', leaves')
      <3>1. Fits(tab[u], Entries(pending[u]), record, session, manifest, stored, leaves) BY <2>1 DEF Whole
      <3>2. \A e \in Entries(pending'[u]) : Backed(e, stored)
        <4>1. Entries(pending'[u]) \subseteq Entries(pending[u]) \cup {NoRecord} BY <1>8
        <4> QED BY <3>1, <4>1, NoRecordGood DEF Fits, Backed
      <3>3. ASSUME Working(tab'[u]) PROVE StoredFits(tab'[u], stored) /\ ArrivedFits(tab'[u], stored)
        <4>1. CASE u = t
          <5>1. tab'[u] = k /\ k.view = "stopped" BY <1>7, <3>3, <4>1 DEF Working, Sending
          <5>2. StoredFits(j, stored) BY <1>1, <3>1, <4>1 DEF Fits
          <5> QED BY <5>1, <5>2 DEF StoredFits, ArrivedFits, Rechecked
        <4>2. CASE u # t BY <1>7, <3>1, <3>3, <4>2 DEF Fits
        <4> QED BY <4>1, <4>2
      <3>4. ~Idle(tab'[u]) => tab'[u].file.parts = leaves'
        <4>1. CASE u = t BY <1>6, <1>7, <4>1
        <4>2. CASE u # t BY <1>6, <1>7, <1>10, <2>2, <4>2 DEF Idle
        <4> QED BY <4>1, <4>2
      <3> QED BY <1>6, <3>2, <3>3, <3>4 DEF Fits
    <2>7. Backed(record', stored') BY <1>6, <2>1 DEF Whole
    <2> QED BY <2>4, <2>5, <2>6, <2>7 DEF Whole
  <1> QED BY <1>11, <1>12 DEF Inv

LEMMA FinalisedStep ==
  ASSUME Inv, NEW t \in Tabs, Finalised(t)
  PROVE  Inv'
  <1>1. PICK k : k = [view |-> "ready", file |-> tab[t].file] OBVIOUS
  <1>2. PICK q : q = Append(pending[t], NoRecord) OBVIOUS
  <1>3. q \in Seq(GoodNotes) /\ Entries(q) \subseteq Entries(pending[t]) \cup {NoRecord}
    BY <1>2, QueueOf, NoRecordGood, EntriesAppend
  <1>4. tab' = [tab EXCEPT ![t] = k] BY <1>1 DEF Finalised, Inv, Types
  <1>5. pending' = [pending EXCEPT ![t] = q] BY <1>2 DEF Finalised, Clear, Write, Inv, Types
  <1>6. tab[t].view = "finalise" /\ Completes(t) /\ UNCHANGED <<record, clash>> BY DEF Finalised, View
  <1>7. k.file = tab[t].file /\ k.view = "ready" BY <1>1
  <1> QED BY <1>3, <1>4, <1>5, <1>6, <1>7, CompletesStep

LEMMA FinaliseLostStep ==
  ASSUME Inv, NEW t \in Tabs, FinaliseLost(t)
  PROVE  Inv'
  <1> DEFINE j == tab[t]
  <1>1. j.view = "finalise" /\ Working(j) BY DEF FinaliseLost, View, Working, Sending
  <1>2. Stop(t, "unfinished") /\ UNCHANGED <<pending, record, clash>> BY DEF FinaliseLost
  <1>3. CASE UNCHANGED server BY <1>1, <1>2, <1>3, StopStep
  <1>4. CASE Completes(t)
    <2>1. PICK k : k = [j EXCEPT !.view = "stopped", !.kind = "unfinished"] OBVIOUS
    <2>2. PICK q : q = pending[t] OBVIOUS
    <2>3. j \in Job BY <1>1, JobOf
    <2>4. tab' = [tab EXCEPT ![t] = k] BY <1>2, <2>1 DEF Stop, Inv, Types
    <2>5. q \in Seq(GoodNotes) /\ pending' = [pending EXCEPT ![t] = q] BY <1>2, <2>2, QueueOf
    <2>6. Entries(q) \subseteq Entries(pending[t]) \cup {NoRecord} BY <2>2
    <2>7. k \in Job BY <2>1, <2>3 DEF Job, Sending
    <2>8. /\ k.view = "stopped" /\ k.file = j.file /\ k.sent = j.sent /\ k.hashes = j.hashes
          /\ k.expected = j.expected
      BY <2>1, <2>3 DEF Job
    <2>9. UNCHANGED <<record, clash>> BY <1>2
    <2> QED BY <1>1, <1>4, <2>4, <2>5, <2>6, <2>7, <2>8, <2>9, CompletesStep
  <1> QED BY <1>3, <1>4 DEF FinaliseLost

LEMMA SessionEndsStep ==
  ASSUME Inv, SessionEnds
  PROVE  Inv'
  <1>1. /\ session' = FALSE /\ tab' = tab /\ pending' = pending /\ record' = record /\ manifest' = manifest
        /\ stored' = stored /\ leaves' = leaves /\ clash' = clash
    BY DEF SessionEnds
  <1>2. Types' BY <1>1 DEF Inv, Types
  <1>3. ASSUME ~clash' PROVE Whole'
    <2>1. Whole BY <1>1, <1>3 DEF Inv
    <2>2. OneFile' BY <1>1, <2>1 DEF Whole, OneFile
    <2>3. ASSUME NEW u \in Tabs
          PROVE  Fits(tab'[u], Entries(pending'[u]), record', session', manifest', stored', leaves')
      <3>1. Fits(tab[u], Entries(pending[u]), record, session, manifest, stored, leaves) BY <2>1 DEF Whole
      <3> QED BY <1>1, <3>1 DEF Fits
    <2> QED BY <1>1, <2>1, <2>2, <2>3 DEF Whole
  <1> QED BY <1>2, <1>3 DEF Inv

-----------------------------------------------------------------------------
(* The theorems.                                                             *)

LEMMA InvInit == Init => Inv
  <1>1. SUFFICES ASSUME Init PROVE Inv OBVIOUS
  <1>2. /\ tab = [t \in Tabs |-> Away] /\ pending = [t \in Tabs |-> <<>>] /\ record = NoRecord /\ session = TRUE
        /\ manifest = "none" /\ stored = [i \in 1..N |-> Nothing] /\ clash = FALSE
    BY <1>1 DEF Init
  <1>3. Away.view = "away" /\ ~Working(Away) BY DEF Away, Working, Sending
  <1>4. Types
    <2>1. pending \in [Tabs -> Seq(GoodNotes)] BY <1>2, EmptySeq
    <2>2. \A t \in Tabs : TabOK(tab[t], manifest) BY <1>2, <1>3 DEF TabOK
    <2> QED BY <1>2, <1>3, <2>1, <2>2, NoRecordGood DEF Types
  <1>5. Whole
    <2>1. OneFile BY <1>2, <1>3 DEF OneFile
    <2>2. Backed(record, stored) BY <1>2, NoRecordGood DEF Backed
    <2>3. ASSUME NEW t \in Tabs
          PROVE  Fits(tab[t], Entries(pending[t]), record, session, manifest, stored, leaves)
      <3>1. Entries(pending[t]) = {} /\ tab[t] = Away BY <1>2, EntriesEmpty
      <3> QED BY <1>2, <1>3, <3>1 DEF Fits, PendingFits
    <2> QED BY <1>2, <2>1, <2>2, <2>3 DEF Whole
  <1> QED BY <1>4, <1>5 DEF Inv

LEMMA InvStep == Inv /\ [Next]_vars => Inv'
  <1>1. SUFFICES ASSUME Inv, [Next]_vars PROVE Inv' OBVIOUS
  <1>2. CASE UNCHANGED vars
    <2>1. /\ tab' = tab /\ pending' = pending /\ record' = record /\ session' = session /\ manifest' = manifest
          /\ stored' = stored /\ leaves' = leaves /\ clash' = clash
      BY <1>2 DEF vars, server
    <2>2. Types' BY <1>1, <2>1 DEF Inv, Types
    <2>3. Whole <=> Whole' BY <2>1 DEF Whole, OneFile
    <2> QED BY <1>1, <2>1, <2>2, <2>3 DEF Inv
  <1>3. CASE SessionEnds BY <1>1, <1>3, SessionEndsStep
  <1>4. ASSUME NEW t \in Tabs, Sender(t) PROVE Inv'
    <2>1. CASE Begin(t) BY <1>1, <2>1, BeginStep
    <2>2. CASE \E f \in Files : Resume(t, f) BY <1>1, <2>2, ResumeStep
    <2>3. CASE ResumeBlocked(t) \/ Discard(t) BY <1>1, <2>3, ClearedStep
    <2>4. CASE Close(t) BY <1>1, <2>4, CloseStep
    <2> QED BY <1>4, <2>1, <2>2, <2>3, <2>4 DEF Sender
  <1>5. ASSUME NEW t \in Tabs, Page(t) PROVE Inv'
    <2>1. CASE FetchUrls(t) BY <1>1, <2>1, FetchUrlsStep
    <2>2. CASE Recheck(t) BY <1>1, <2>2, RecheckStep
    <2>3. CASE Send(t) BY <1>1, <2>3, SendStep
    <2>4. CASE Refused(t) BY <1>1, <2>4, RefusedStep
    <2>5. CASE Acked(t) BY <1>1, <2>5, AckedStep
    <2>6. CASE Sent(t) BY <1>1, <2>6, SentStep
    <2>7. CASE FinaliseGone(t) BY <1>1, <2>7, ClearedStep
    <2>8. CASE FinaliseRefused(t) BY <1>1, <2>8, FinaliseRefusedStep
    <2>9. CASE Finalised(t) BY <1>1, <2>9, FinalisedStep
    <2> QED BY <1>5, <2>1, <2>2, <2>3, <2>4, <2>5, <2>6, <2>7, <2>8, <2>9 DEF Page
  <1>6. ASSUME NEW t \in Tabs,
               \/ Open(t) \/ Persist(t) \/ Retry(t) \/ Arrive(t)
               \/ FetchUrlsFails(t) \/ PutFails(t) \/ FinaliseLost(t)
        PROVE  Inv'
    <2>1. CASE Open(t) BY <1>1, <2>1, OpenStep
    <2>2. CASE Persist(t) BY <1>1, <2>2, PersistStep
    <2>3. CASE Retry(t) BY <1>1, <2>3, RetryStep
    <2>4. CASE Arrive(t) BY <1>1, <2>4, ArriveStep
    <2>5. CASE FetchUrlsFails(t) BY <1>1, <2>5, FetchUrlsFailsStep
    <2>6. CASE PutFails(t) BY <1>1, <2>6, PutFailsStep
    <2>7. CASE FinaliseLost(t) BY <1>1, <2>7, FinaliseLostStep
    <2> QED BY <1>6, <2>1, <2>2, <2>3, <2>4, <2>5, <2>6, <2>7
  <1> QED BY <1>1, <1>2, <1>3, <1>4, <1>5, <1>6 DEF Next

LEMMA SpecInv == Spec => []Inv
  BY InvInit, InvStep, PTL DEF Spec

\* What finalise recorded is what R2 holds, and it is the one file that any tab showing the
\* link sent, however many tabs took turns at it and whatever each carried on from.
THEOREM WholeLink == Spec => []LinkIsWhole
  <1>1. Inv => LinkIsWhole
    <2>1. SUFFICES ASSUME Inv, manifest = "complete", ~clash
                   PROVE  stored = leaves /\ \A t \in Tabs : View(t, "ready") => leaves = tab[t].file.parts
      BY DEF LinkIsWhole
    <2>2. Whole BY <2>1 DEF Inv
    <2>3. ASSUME NEW t \in Tabs, tab[t].view = "ready" PROVE leaves = tab[t].file.parts
      <3>1. Fits(tab[t], Entries(pending[t]), record, session, manifest, stored, leaves) BY <2>2 DEF Whole
      <3>2. ~Idle(tab[t]) BY <2>3 DEF Idle
      <3> QED BY <2>1, <3>1, <3>2 DEF Fits
    <2> QED BY <2>1, <2>2, <2>3 DEF Whole, View
  <1> QED BY <1>1, SpecInv, PTL

\* Whatever record a crash leaves, R2 holds every part it counts.
THEOREM BackedRecord == Spec => []RecordIsBacked
  <1>1. Inv => RecordIsBacked
    <2>1. SUFFICES ASSUME Inv, ~clash,
                          NEW r \in {record} \cup UNION {{pending[t][k] : k \in DOMAIN pending[t]} : t \in Tabs}
                   PROVE  \A i \in 1..r.sent : stored[i] = r.hashes[i]
      BY DEF RecordIsBacked
    <2>2. Whole BY <2>1 DEF Inv
    <2>3. CASE r = record BY <2>2, <2>3 DEF Whole, Backed
    <2>4. CASE r # record
      <3>1. PICK t \in Tabs : r \in Entries(pending[t]) BY <2>1, <2>4 DEF Entries
      <3>2. Fits(tab[t], Entries(pending[t]), record, session, manifest, stored, leaves) BY <2>2 DEF Whole
      <3> QED BY <3>1, <3>2 DEF Fits, Backed
    <2> QED BY <2>3, <2>4
  <1> QED BY <1>1, SpecInv, PTL
=============================================================================
