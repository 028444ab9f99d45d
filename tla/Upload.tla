------------------------------- MODULE Upload -------------------------------
(***************************************************************************)
(* The upload page: the parts of one file are encrypted and sent in order,  *)
(* each part that arrived is noted in the browser's IndexedDB off the path, *)
(* a stop can be tried again in the same tab, and after a refresh the same  *)
(* file carries on from the note, in as many tabs as are open.  The Worker  *)
(* is reduced to what the page sees of it: the session, the URLs it signs,  *)
(* the parts in R2 and finalise.  A part is encrypted the same way each     *)
(* time, so it is named by the content it was made from.                    *)
(***************************************************************************)
EXTENDS Naturals, Sequences, FiniteSets

CONSTANTS
  Tabs,
  N,        \* parts of the file
  Batch,    \* URLs signed at a time
  Tries,    \* tries of one PUT before the page gives up
  Original, \* the file first chosen: [parts, modified]
  Others,   \* files of its name and size that may be chosen after a refresh
  MaxFaults, \* bound: calls that fail, answers lost
  MaxCloses  \* bound: refreshes and closed tabs

Files == {Original} \cup Others
Parts == UNION {{f.parts[i] : i \in 1..N} : f \in Files}

\* The date a file was last changed vouches for its content.
ASSUME UploadAssumption ==
  /\ {N, Batch, Tries} \subseteq Nat \ {0} /\ MaxFaults \in Nat /\ MaxCloses \in Nat
  /\ \A f \in Files : f.parts \in Seq(Parts) /\ Len(f.parts) = N
  /\ \A f, g \in Files : f.modified = g.modified => f = g

VARIABLES
  tab,      \* what each tab does
  pending,  \* pending[t]: writes to IndexedDB the tab has asked for
  record,   \* the resume record: [sent, hashes, modified], or NoRecord
  session,  \* the upload session is open, and with it every URL
  manifest, \* "none", "open" or "complete"
  stored,   \* R2: stored[i], or Nothing
  leaves,   \* the hashes finalise recorded
  clash,    \* history: a file resumed that differs from another tab's, or from the transfer complete
  faults, closes

server == <<session, manifest, stored, leaves>>
vars == <<tab, pending, record, server, clash, faults, closes>>

Nothing == "nothing"
NoRecord == [sent |-> 0, hashes |-> <<>>, modified |-> Nothing]
Away == [view |-> "away"]
UrlLimit == N - 1

Init ==
  /\ tab = [t \in Tabs |-> Away]
  /\ pending = [t \in Tabs |-> <<>>] /\ record = NoRecord
  /\ session = TRUE /\ manifest = "none"
  /\ stored = [i \in 1..N |-> Nothing] /\ leaves = <<>>
  /\ clash = FALSE /\ faults = 0 /\ closes = 0

View(t, v) == tab[t].view = v
Show(t, v) == tab' = [tab EXCEPT ![t].view = v]
Fail == faults < MaxFaults /\ faults' = faults + 1

Sending == {"carry", "recheck", "send", "put", "finalise", "stopped"}
AtWork(t) == tab[t].view \in Sending

\* writeChunkState(_recordOf(job)) and clearResumeState, neither awaited.
Note(job) == [sent |-> job.sent, hashes |-> SubSeq(job.hashes, 1, job.sent), modified |-> job.file.modified]
Write(t, r) == pending' = [pending EXCEPT ![t] = Append(@, r)]
Clear(t) == Write(t, NoRecord)

\* _stopped: nothing can carry on from these, so the record goes.
Over(t) == tab' = [tab EXCEPT ![t] = [view |-> "over"]] /\ Clear(t)
Stop(t, kind) == tab' = [tab EXCEPT ![t].view = "stopped", ![t].kind = kind]

-----------------------------------------------------------------------------
(* Opening the page, the resume card.                                       *)

\* checkResumeState: the tab keeps the record it read.
Open(t) ==
  /\ View(t, "away")
  /\ tab' = [tab EXCEPT ![t] = IF record = NoRecord THEN [view |-> "chosen"] ELSE [view |-> "card", read |-> record]]
  /\ UNCHANGED <<pending, record, server, clash, faults, closes>>

\* startUpload: pass, /initiate and the first URLs, the last part's among them.
Begin(t) ==
  /\ View(t, "chosen") /\ manifest = "none" /\ session
  /\ manifest' = "open"
  /\ tab' = [tab EXCEPT ![t] =
       [view |-> "carry", kind |-> "", file |-> Original, sent |-> 0, hashes |-> <<>>, expected |-> <<>>,
        urls |-> {i \in 1..N : i <= Batch \/ i = N}, tries |-> 0, arrived |-> FALSE]]
  /\ UNCHANGED <<pending, record, session, stored, leaves, clash, faults, closes>>

\* _resumeBlocked: the last part's URL is not signed again.
Blocked(r) == ~session /\ r.sent < N

\* Another tab is at work, or has been since this card was read, on a file that differs;
\* the third is when its note is gone again and only what it sent is left to tell.
Differs(t, f) ==
  \/ \E u \in Tabs \ {t} : AtWork(u) /\ tab[u].file # f
  \/ record \notin {tab[t].read, NoRecord} /\ record.modified # f.modified
  \/ \E i \in 1..tab[t].read.sent : stored[i] # tab[t].read.hashes[i]
  \/ manifest = "complete" /\ leaves # f.parts

\* resumeUpload: the hashes of the record are trusted for a file unchanged since.
Resume(t, f) ==
  /\ View(t, "card") /\ ~Blocked(tab[t].read)
  /\ tab' = [tab EXCEPT ![t] =
       [view |-> "carry", kind |-> "", file |-> f, sent |-> @.read.sent,
        hashes |-> IF f.modified = @.read.modified THEN @.read.hashes ELSE <<>>, expected |-> @.read.hashes,
        urls |-> {N}, tries |-> 0, arrived |-> FALSE]]
  /\ clash' = (clash \/ Differs(t, f))
  /\ UNCHANGED <<pending, record, server, faults, closes>>

ResumeBlocked(t) ==
  /\ View(t, "card") /\ Blocked(tab[t].read)
  /\ Over(t)
  /\ UNCHANGED <<record, server, clash, faults, closes>>

Discard(t) ==
  /\ View(t, "card")
  /\ tab' = [tab EXCEPT ![t] = [view |-> "chosen"]]
  /\ Clear(t)
  /\ UNCHANGED <<record, server, clash, faults, closes>>

\* A refresh: what was not written yet is not written.
Close(t) ==
  /\ ~View(t, "away") /\ closes < MaxCloses /\ closes' = closes + 1
  /\ tab' = [tab EXCEPT ![t] = Away]
  /\ pending' = [pending EXCEPT ![t] = <<>>]
  /\ UNCHANGED <<record, server, clash, faults>>

\* IndexedDB does a tab's writes in order.
Persist(t) ==
  /\ pending[t] # <<>>
  /\ record' = Head(pending[t])
  /\ pending' = [pending EXCEPT ![t] = Tail(@)]
  /\ UNCHANGED <<tab, server, clash, faults, closes>>

-----------------------------------------------------------------------------
(* _carryOn.                                                                *)

\* Batch more URLs from part i; the last one's is never among them.
Signed(i) == {j \in i..UrlLimit : j < i + Batch}

\* POST /upload/urls for the part to send next.
FetchUrls(t) ==
  LET next == tab[t].sent + 1 IN
  /\ View(t, "carry") \/ View(t, "send")
  /\ next <= UrlLimit /\ next \notin tab[t].urls
  /\ IF ~session \/ manifest = "complete" THEN Over(t)
     ELSE tab' = [tab EXCEPT ![t].urls = @ \cup Signed(next)] /\ UNCHANGED pending
  /\ UNCHANGED <<record, server, clash, faults, closes>>

FetchUrlsFails(t) ==
  /\ View(t, "carry") \/ View(t, "send")
  /\ tab[t].sent + 1 <= UrlLimit /\ tab[t].sent + 1 \notin tab[t].urls
  /\ Fail
  /\ Stop(t, "network")
  /\ UNCHANGED <<pending, record, server, clash, closes>>

HasUrl(t) == tab[t].sent + 1 > UrlLimit \/ tab[t].sent + 1 \in tab[t].urls

\* Mutant of Recheck: the parts are hashed again and not compared.
RecheckUncompared(t) ==
  /\ View(t, "carry") /\ HasUrl(t)
  /\ tab' = [tab EXCEPT ![t].view = "send", ![t].hashes = SubSeq(tab[t].file.parts, 1, tab[t].sent)]
  /\ UNCHANGED <<pending, record, server, clash, faults, closes>>

\* The parts sent before are encrypted again and compared, unless their hashes are held.
Recheck(t) ==
  LET j == tab[t]
      again == SubSeq(j.file.parts, 1, j.sent)
  IN
  /\ View(t, "carry") /\ HasUrl(t)
  /\ IF Len(j.hashes) >= j.sent
     THEN tab' = [tab EXCEPT ![t].view = "send", ![t].hashes = SubSeq(j.hashes, 1, j.sent)] /\ UNCHANGED pending
     ELSE IF again = SubSeq(j.expected, 1, j.sent)
     THEN tab' = [tab EXCEPT ![t].view = "send", ![t].hashes = again] /\ UNCHANGED pending
     ELSE Over(t)
  /\ UNCHANGED <<record, server, clash, faults, closes>>

Part(t) == tab[t].sent + 1

Counted(job) == [job EXCEPT !.view = "send", !.hashes = Append(@, job.file.parts[job.sent + 1]), !.sent = @ + 1]

\* Mutant of Send: the part is counted and noted before it has arrived.
SendCounted(t) ==
  /\ View(t, "send") /\ HasUrl(t) /\ tab[t].sent < N
  /\ tab' = [tab EXCEPT ![t] = [Counted(@) EXCEPT !.view = "put", !.tries = 1, !.arrived = FALSE]]
  /\ Write(t, Note(Counted(tab[t])))
  /\ UNCHANGED <<record, server, clash, faults, closes>>

Send(t) ==
  /\ View(t, "send") /\ HasUrl(t) /\ tab[t].sent < N
  /\ tab' = [tab EXCEPT ![t].view = "put", ![t].tries = 1, ![t].arrived = FALSE]
  /\ UNCHANGED <<pending, record, server, clash, faults, closes>>

\* R2 takes the PUT while its URL lives.
Arrive(t) ==
  /\ View(t, "put") /\ ~tab[t].arrived /\ session
  /\ stored' = [stored EXCEPT ![Part(t)] = tab[t].file.parts[Part(t)]]
  /\ tab' = [tab EXCEPT ![t].arrived = TRUE]
  /\ UNCHANGED <<pending, record, session, manifest, leaves, clash, faults, closes>>

\* 403: the URL has ended.
Refused(t) ==
  /\ View(t, "put") /\ ~tab[t].arrived /\ ~session
  /\ Stop(t, "refused")
  /\ UNCHANGED <<pending, record, server, clash, faults, closes>>

Acked(t) ==
  /\ View(t, "put") /\ tab[t].arrived
  /\ tab' = [tab EXCEPT ![t] = Counted(@)]
  /\ Write(t, Note(Counted(tab[t])))
  /\ UNCHANGED <<record, server, clash, faults, closes>>
Started(t) == tab' = [tab EXCEPT ![t].tries = @ + 1, ![t].arrived = FALSE]

\* No answer, or a 5xx, whether R2 took the part or not: the same part again, then a stop.
PutFails(t) ==
  /\ View(t, "put") /\ Fail
  /\ IF tab[t].tries < Tries THEN Started(t) ELSE Stop(t, "network")
  /\ UNCHANGED <<pending, record, server, clash, closes>>

-----------------------------------------------------------------------------
(* /upload/finalise, and Try again.                                         *)

Missing == {i \in 1..N : stored[i] = Nothing}
Least(S) == CHOOSE i \in S : \A j \in S : i <= j

Sent(t) ==
  /\ View(t, "send") /\ tab[t].sent = N
  /\ Show(t, "finalise")
  /\ UNCHANGED <<pending, record, server, clash, faults, closes>>

\* 401: the session has ended.
FinaliseGone(t) ==
  /\ View(t, "finalise") /\ ~session
  /\ Over(t)
  /\ UNCHANGED <<record, server, clash, faults, closes>>

\* Mutant of Redo: a 409 that names no part leaves the count where it was.
RedoNothing(job) == IF manifest = "complete" THEN job.sent ELSE Least(Missing) - 1

\* 409: from the first part that has to go again, the first of all when none is named.
Redo(job) == IF manifest = "complete" THEN 0 ELSE Least(Missing) - 1

FinaliseRefused(t) ==
  LET job == [tab[t] EXCEPT !.view = "stopped", !.kind = "missing", !.sent = Redo(tab[t]),
                            !.hashes = SubSeq(@, 1, Redo(tab[t]))]
  IN
  /\ View(t, "finalise") /\ session /\ (manifest = "complete" \/ Missing # {})
  /\ tab' = [tab EXCEPT ![t] = job]
  /\ Write(t, Note(job))
  /\ UNCHANGED <<record, server, clash, faults, closes>>

Completes(t) ==
  /\ session /\ manifest = "open" /\ Missing = {}
  /\ manifest' = "complete" /\ leaves' = tab[t].hashes
  /\ UNCHANGED <<session, stored>>

\* 200: the record goes, the link is shown.
Finalised(t) ==
  /\ View(t, "finalise") /\ Completes(t)
  /\ tab' = [tab EXCEPT ![t] = [view |-> "ready", file |-> @.file]] /\ Clear(t)
  /\ UNCHANGED <<record, clash, faults, closes>>

\* No answer: the transfer may be complete for all the page knows.
FinaliseLost(t) ==
  /\ View(t, "finalise") /\ Fail
  /\ Completes(t) \/ UNCHANGED server
  /\ Stop(t, "unfinished")
  /\ UNCHANGED <<pending, record, clash, closes>>

\* Try again, in the same tab: fresh URLs, but for the last part's.
Retry(t) ==
  /\ View(t, "stopped")
  /\ tab' = [tab EXCEPT ![t].view = "carry", ![t].urls = {N}]
  /\ UNCHANGED <<pending, record, server, clash, faults, closes>>

\* Six days on, or the transfer's end.
SessionEnds ==
  /\ session /\ session' = FALSE
  /\ UNCHANGED <<tab, pending, record, manifest, stored, leaves, clash, faults, closes>>

-----------------------------------------------------------------------------
Page(t) ==
  \/ FetchUrls(t) \/ Recheck(t) \/ Send(t) \/ Refused(t) \/ Acked(t)
  \/ Sent(t) \/ FinaliseGone(t) \/ FinaliseRefused(t) \/ Finalised(t)

Sender(t) == Begin(t) \/ (\E f \in Files : Resume(t, f)) \/ ResumeBlocked(t) \/ Discard(t) \/ Close(t)

Next ==
  \/ \E t \in Tabs :
       \/ Open(t) \/ Sender(t) \/ Persist(t) \/ Page(t) \/ Retry(t) \/ Arrive(t)
       \/ FetchUrlsFails(t) \/ PutFails(t) \/ FinaliseLost(t)
  \/ SessionEnds

\* The page goes on by itself, R2 takes what it is sent, and the sender presses Try again.
Spec ==
  /\ Init /\ [][Next]_vars
  /\ \A t \in Tabs : WF_vars(Page(t)) /\ WF_vars(Arrive(t)) /\ WF_vars(Retry(t))

-----------------------------------------------------------------------------
Notes == [sent : 0..N, hashes : Seq(Parts), modified : {f.modified : f \in Files}] \cup {NoRecord}
IsNote(r) == r = NoRecord \/ (r \in Notes /\ Len(r.hashes) = r.sent)

TypeOK ==
  /\ \A t \in Tabs :
       /\ AtWork(t) => /\ tab[t].sent \in 0..N /\ tab[t].file \in Files
                       /\ tab[t].view \in {"send", "put", "finalise"} => Len(tab[t].hashes) = tab[t].sent
                       /\ tab[t].view = "put" => tab[t].sent < N
       /\ \A k \in DOMAIN pending[t] : IsNote(pending[t][k])
  /\ IsNote(record)
  /\ session \in BOOLEAN /\ manifest \in {"none", "open", "complete"}

\* What finalise recorded is what R2 holds, so the link just shown downloads, and
\* it is one file, the one in the tab: the parts kept from earlier tabs are its too
\* (_carryOn re-encrypts and compares what an unchanged date does not vouch for).
LinkIsWhole ==
  manifest = "complete" /\ ~clash =>
    /\ stored = leaves
    /\ \A t \in Tabs : View(t, "ready") => leaves = tab[t].file.parts

\* Whatever a crash leaves as the resume record, R2 holds every part it counts
\* (writeChunkState is called after the part arrived, and never awaited).
RecordIsBacked ==
  ~clash => \A r \in {record} \cup UNION {{pending[t][k] : k \in DOMAIN pending[t]} : t \in Tabs} :
              \A i \in 1..r.sent : stored[i] = r.hashes[i]

\* A tab that stays open ends with the link or with "can't be resumed", as
\* long as the session lives: no stop can be tried again for ever.  This takes a
\* file of more than one part (README, 6.8, has what a single part may come to).
UploadEnds ==
  \A t \in Tabs : AtWork(t) ~> (tab[t].view \in {"ready", "over", "away"} \/ ~session)
=============================================================================
