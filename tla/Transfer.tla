------------------------------ MODULE Transfer ------------------------------
(***************************************************************************)
(* One transfer in the R2 bucket and the requests and sweeps that act on it *)
(* concurrently.  A request is a handler of the Worker that runs from one   *)
(* await to the next: each action below is what the handler does between    *)
(* two awaits.  R2 and KV calls are atomic; the isolate running a handler   *)
(* can be evicted at any await (Crash) and a batched delete can fail part   *)
(* way, both at most MaxFaults times.                                       *)
(***************************************************************************)
EXTENDS Manifest, FiniteSets

CONSTANTS
  Reqs,        \* slots for concurrent requests, each reused when its handler returns
  Cron,        \* the nightly sweep, one at a time
  Chunks,      \* total_chunks: chunks are 1..Chunks, the last is Chunks
  Tries,       \* updateManifest's tries (4 in the code)
  Handlers,    \* the request handlers exercised
  Arming,      \* the values pending_destruction can start with
  Sizes,       \* the sizes a PUT can store: "good", and "bad" for a wrong size
  MaxNow,      \* bound: the clock stops here
  MaxFaults    \* bound: crashes and failed batches

ASSUME SizeAssumption ==
  /\ Chunks \in Nat \ {0} /\ Tries \in Nat \ {0}
  /\ MaxNow \in Nat /\ MaxFaults \in Nat
  /\ Cron \notin Reqs
  /\ Sizes \subseteq {"good", "bad"} /\ Arming \subseteq Arms

VARIABLES
  man,         \* {uuid}/manifest.json, or NoManifest
  written,     \* when R2 last wrote the manifest object ("uploaded" in a listing)
  chunk,       \* the chunk objects: "none", "good" or "bad" (wrong size)
  sidecar,     \* the {uuid}/hashes object, or NoBody
  activity,    \* the latest upload time of the transfer's objects
  dock,        \* KV dock_index:{uuid}: "absent", "open" or "purged" (purged_at set)
  releases,    \* how many times a handler has given the quota hold back
  now,
  faults,
  req          \* the state of each handler in flight

vars == <<man, written, chunk, sidecar, activity, dock, releases, now, faults, req>>
objects == <<chunk, sidecar, activity>>
record == <<man, written>>
clock == <<now, faults>>

Procs == Reqs \cup {Cron}
ChunkIds == 1..Chunks
Hashes == 0                       \* the key of the sidecar among the object keys
Keys == ChunkIds \cup {Hashes}

\* Locals that a handler no longer needs go back to these values.
Idle == [pc |-> "idle", op |-> "none", t |-> 0, m |-> NoManifest,
         seen |-> NoManifest, keys |-> {}, removed |-> FALSE, at |-> NoTime,
         tries |-> 0, body |-> NoBody, root |-> NoBody, c |-> 0]

\* Everything under {uuid}/ but the manifest.
Stored == {c \in ChunkIds : chunk[c] # "none"}
          \cup (IF sidecar = NoBody THEN {} ELSE {Hashes})

Init ==
  /\ \E arm \in Arming : man = FreshManifest(arm)
  /\ written = 0 /\ activity = 0
  /\ chunk = [c \in ChunkIds |-> "none"]
  /\ sidecar = NoBody
  /\ dock \in {"absent", "open"}         \* initiate's index write can fail
  /\ releases = 0 /\ now = 0 /\ faults = 0
  /\ req = [p \in Procs |-> Idle]

At(p, label) == req[p].pc = label
Become(p, r) == req' = [req EXCEPT ![p] = r]
Go(r, label) == [r EXCEPT !.pc = label]
Goto(p, label) == Become(p, Go(req[p], label))
Done(p) == Become(p, Idle)

\* A handler starts, at the present second, with the manifest it has just read.
Begin(p, r) == Become(p, [r EXCEPT !.t = now])
NewReq(label, op) == [Idle EXCEPT !.pc = label, !.op = op]

CanFail == faults < MaxFaults
Fail == CanFail /\ faults' = faults + 1

Remove(K) ==
  /\ chunk' = [c \in ChunkIds |-> IF c \in K THEN "none" ELSE chunk[c]]
  /\ sidecar' = IF Hashes \in K THEN NoBody ELSE sidecar
  /\ UNCHANGED activity

-----------------------------------------------------------------------------
(* The browser's presigned PUT of one chunk.  The URL is checked when the   *)
(* PUT starts; a slow one lands up to a unit later.  R2 knows nothing of    *)
(* the manifest: a PUT can land under a consumed transfer.                  *)

PutChunk(c, size) ==
  /\ now <= SessionExp
  /\ chunk' = [chunk EXCEPT ![c] = size]
  /\ activity' = now
  /\ UNCHANGED <<record, sidecar, dock, releases, clock, req>>

-----------------------------------------------------------------------------
(* updateManifest: read with etag, mutate, conditional put, retry.  An R2   *)
(* etag is a digest of the object's bytes, so etagMatches is equality with  *)
(* the manifest read.                                                       *)

\* Mutant: the latch is taken again on a manifest that is already consumed.
DeclinesUnlatched(r, m) ==
  \/ m.consumed /\ r.op \notin {"destroy", "confirm", "purge"}
  \/ r.op = "finalise" /\ m.upload_complete
  \/ r.op = "download" /\ m.download_initiated_at # NoTime
  \/ r.op = "purge" /\ ~IsPurgeableExpired(m, r.t)

\* mutate(fresh) returns null
Declines(r, m) ==
  \/ m.consumed
  \/ r.op = "finalise" /\ m.upload_complete
  \/ r.op = "download" /\ m.download_initiated_at # NoTime
  \/ r.op = "purge" /\ ~IsPurgeableExpired(m, r.t)

Latchers == {"destroy", "confirm", "purge"}

Mutated(r, m) ==
  CASE r.op = "finalise" -> Completed(m, r.root)
    [] r.op = "download" -> Stamped(m, r.t)
    [] r.op \in Latchers -> Latched(m, r.t, r.removed)

\* What the caller becomes after a decline, after its last lost race and after
\* its write.  On 'gone' every caller stops.
AfterDecline(r, m) ==
  CASE r.op = "download" /\ ~m.consumed -> Go(r, "serve")
    [] r.op = "destroy" ->             \* already consumed: carry on destroying
         [r EXCEPT !.pc = "list", !.at = m.consumed_at, !.removed = @ \/ m.removed, !.tries = 0]
    [] r.op = "purge" /\ m.consumed -> Go(r, "dock_off")
    [] OTHER -> Idle

AfterContention(r) == IF r.op = "download" THEN Go(r, "serve") ELSE Idle

AfterWrite(r) ==
  LET w == [r EXCEPT !.seen = NoManifest, !.tries = 0] IN
  CASE r.op = "finalise" -> [w EXCEPT !.pc = "dock_read", !.root = NoBody]
    [] r.op = "download" -> [w EXCEPT !.pc = "serve", !.m = Stamped(r.m, r.t)]
    [] r.op \in Latchers -> [w EXCEPT !.pc = "release", !.at = r.t]

UpdateRead(p) ==
  /\ At(p, "update_read")
  /\ Become(p, IF ~Exists(man) THEN Idle
               ELSE IF Declines(req[p], man) THEN AfterDecline(req[p], man)
               ELSE [req[p] EXCEPT !.pc = "update_put", !.seen = man])
  /\ UNCHANGED <<record, objects, dock, releases, clock>>

\* Mutant: the put is unconditional.
UpdateWinStale(p) ==
  /\ At(p, "update_put")
  /\ man' = Mutated(req[p], req[p].seen)
  /\ written' = now
  /\ Become(p, AfterWrite(req[p]))
  /\ UNCHANGED <<objects, dock, releases, clock>>

UpdateWin(p) ==
  /\ At(p, "update_put")
  /\ man = req[p].seen
  /\ man' = Mutated(req[p], man)
  /\ written' = now
  /\ Become(p, AfterWrite(req[p]))
  /\ UNCHANGED <<objects, dock, releases, clock>>

UpdateLose(p) ==
  /\ At(p, "update_put")
  /\ man # req[p].seen
  /\ Become(p, IF req[p].tries + 1 < Tries
               THEN [req[p] EXCEPT !.pc = "update_read", !.seen = NoManifest, !.tries = @ + 1]
               ELSE AfterContention(req[p]))
  /\ UNCHANGED <<record, objects, dock, releases, clock>>

\* The winner of the latch gives the quota hold back, exactly as it was held in
\* the manifest it replaced.  /confirm then makes destroyTransfer's call.
Release(p) ==
  /\ At(p, "release")
  /\ releases' = releases + 1
  /\ Become(p, IF req[p].op = "purge" THEN Go(req[p], "delete")
               ELSE [req[p] EXCEPT !.pc = "list", !.op = "destroy"])
  /\ UNCHANGED <<record, objects, dock, clock>>

-----------------------------------------------------------------------------
(* POST /upload/:uuid/finalise                                              *)

FinaliseStart(p, hashes, root) ==
  /\ At(p, "idle") /\ "finalise" \in Handlers
  /\ SessionValid(now)
  /\ Live(man) /\ ~man.upload_complete
  /\ Begin(p, [NewReq("complete", "finalise") EXCEPT !.body = hashes, !.root = root])
  /\ UNCHANGED <<record, objects, dock, releases, clock>>

\* The listing: every chunk present and of its exact size?
FinaliseList(p) ==
  LET bad == {c \in ChunkIds : chunk[c] = "bad"} IN
  /\ At(p, "complete")
  /\ Become(p, IF \E c \in ChunkIds : chunk[c] = "none" THEN Idle
               ELSE IF bad # {} THEN [req[p] EXCEPT !.pc = "wrong_size", !.keys = bad]
               ELSE Go(req[p], "sidecar"))
  /\ UNCHANGED <<record, objects, dock, releases, clock>>

\* Off the response path: the wrong-size objects go.
FinaliseDeleteWrong(p) ==
  /\ At(p, "wrong_size")
  /\ Remove(req[p].keys)
  /\ Done(p)
  /\ UNCHANGED <<record, dock, releases, clock>>

\* The hashes sidecar is put before the manifest is updated.
FinaliseSidecar(p) ==
  /\ At(p, "sidecar")
  /\ sidecar' = req[p].body
  /\ activity' = now
  /\ Become(p, [req[p] EXCEPT !.pc = "update_read", !.body = NoBody])
  /\ UNCHANGED <<record, chunk, dock, releases, clock>>

\* The dock entry is read, merged and put back (made when there was none).
FinaliseDockRead(p) ==
  /\ At(p, "dock_read")
  /\ Goto(p, IF dock = "purged" THEN "dock_keep" ELSE "dock_open")
  /\ UNCHANGED <<record, objects, dock, releases, clock>>

FinaliseDockPut(p) ==
  /\ req[p].pc \in {"dock_open", "dock_keep"}
  /\ dock' = IF At(p, "dock_open") THEN "open" ELSE "purged"
  /\ Done(p)
  /\ UNCHANGED <<record, objects, releases, clock>>

-----------------------------------------------------------------------------
(* GET /download/:uuid/:chunk.  Serving the last chunk of an armed transfer *)
(* destroys it, with the manifest read when the request began.              *)

DownloadStart(p, c) ==
  /\ At(p, "idle") /\ "download" \in Handlers
  /\ Live(man) /\ ~DownloadBlocked(man, now)
  /\ Begin(p, [NewReq(IF c = 1 /\ man.download_initiated_at = NoTime
                      THEN "update_read" ELSE "serve", "download")
                 EXCEPT !.c = c, !.m = man])
  /\ UNCHANGED <<record, objects, dock, releases, clock>>

\* The chunk exists and, on the verified path, the sidecar rebuilds the root; the cached
\* answer that spares later chunks the comparison is left out.
CanServe(p) ==
  /\ chunk[req[p].c] # "none"
  /\ req[p].m.merkle_root # NoBody => sidecar = req[p].m.merkle_root

DownloadServe(p) ==
  /\ At(p, "serve")
  /\ IF CanServe(p) /\ req[p].c = Chunks /\ req[p].m.pending_destruction = "armed"
     THEN Begin(p, NewReq("update_read", "destroy"))
     ELSE Done(p)
  /\ UNCHANGED <<record, objects, dock, releases, clock>>

-----------------------------------------------------------------------------
(* destroyTransfer and its callers: the recipient's and the owner's DELETE, *)
(* POST /confirm and the moderator's take-down.                             *)

\* Mutant: whoever finishes the deletion dates it anew.
DestroyEntryDated(gone) ==
  IF man.consumed
  THEN [NewReq("list", "destroy") EXCEPT !.at = now, !.removed = gone \/ man.removed]
  ELSE [NewReq("update_read", "destroy") EXCEPT !.removed = gone]

\* Entry of destroyTransfer: latch first, unless the manifest read is consumed.
DestroyEntry(gone) ==
  IF man.consumed
  THEN [NewReq("list", "destroy") EXCEPT !.at = man.consumed_at,
                                         !.removed = gone \/ man.removed]
  ELSE [NewReq("update_read", "destroy") EXCEPT !.removed = gone]

DeleteStart(p) ==
  /\ At(p, "idle") /\ "delete" \in Handlers
  /\ Exists(man) /\ ~IsTombstone(man)
  /\ Begin(p, DestroyEntry(FALSE))
  /\ UNCHANGED <<record, objects, dock, releases, clock>>

\* Only a manifest that already says pending_destruction: true gets past the checks.
ConfirmStart(p) ==
  /\ At(p, "idle") /\ "confirm" \in Handlers
  /\ Live(man) /\ man.pending_destruction = "served"
  /\ Begin(p, NewReq("update_read", "confirm"))
  /\ UNCHANGED <<record, objects, dock, releases, clock>>

\* A deletion already under way is finished as what it was; a take-down that
\* was cut short resumes as one.
TakedownStart(p) ==
  /\ At(p, "idle") /\ "takedown" \in Handlers
  /\ Exists(man) /\ ~IsTombstone(man)
  /\ Begin(p, DestroyEntry(~man.consumed \/ man.removed))
  /\ UNCHANGED <<record, objects, dock, releases, clock>>

List(p) ==
  /\ At(p, "list")
  /\ Become(p, [req[p] EXCEPT !.pc = "delete", !.keys = Stored])
  /\ UNCHANGED <<record, objects, dock, releases, clock>>

-----------------------------------------------------------------------------
(* Batched deletes.  The sweeps delete chunks before the rest and stop at   *)
(* the first group that did not fully go; destroyTransfer and the nightly   *)
(* residue step have one group.                                             *)

Group(r) ==
  LET chunks == r.keys \cap ChunkIds IN
  IF r.op \in {"destroy", "residue"} \/ chunks = {} THEN r.keys ELSE chunks

AfterDelete(r) ==
  CASE r.op \in {"destroy", "purge"} -> "tombstone"
    [] r.op = "residue" -> IF IsTombstone(r.m) THEN "dock_off" ELSE "tombstone"
    [] r.op = "orphan_residue" -> "dock_off"
    [] r.op = "stale" -> "remove"

DeleteGroup(p) ==
  LET g == Group(req[p]) IN
  /\ At(p, "delete")
  /\ Remove(g)
  /\ Become(p, IF req[p].keys = g THEN [req[p] EXCEPT !.pc = AfterDelete(req[p]), !.keys = {}]
               ELSE [req[p] EXCEPT !.keys = @ \ g])
  /\ UNCHANGED <<record, dock, releases, clock>>

\* Some batch failed.  Only the purge goes on to its tombstone regardless.
DeletePart(p) ==
  /\ At(p, "delete")
  /\ Fail
  /\ \E K \in SUBSET Group(req[p]) : K # Group(req[p]) /\ Remove(K)
  /\ Become(p, IF req[p].op = "purge" THEN [req[p] EXCEPT !.pc = "tombstone", !.keys = {}]
               ELSE Idle)
  /\ UNCHANGED <<record, dock, releases, now>>

AfterTombstone(p) == Goto(p, IF req[p].op = "purge" THEN "dock_mark" ELSE "dock_off")

\* The tombstone is written over whatever is there.
PutTombstone(p) ==
  /\ At(p, "tombstone")
  /\ man' = Tombstone(req[p].at, req[p].removed)
  /\ written' = now
  /\ AfterTombstone(p)
  /\ UNCHANGED <<objects, dock, releases, clock>>

\* The sweeps catch a failed write and settle the dock entry all the same.
PutTombstoneFails(p) ==
  /\ At(p, "tombstone") /\ req[p].op \in {"purge", "residue"}
  /\ Fail
  /\ AfterTombstone(p)
  /\ UNCHANGED <<record, objects, dock, releases, now>>

DockOff(p) ==
  /\ At(p, "dock_off")
  /\ dock' = "absent"
  /\ Done(p)
  /\ UNCHANGED <<record, objects, releases, clock>>

\* purged_at is merged into an entry that still exists.
DockMark(p) ==
  /\ At(p, "dock_mark")
  /\ dock' = IF dock = "absent" THEN "absent" ELSE "purged"
  /\ Done(p)
  /\ UNCHANGED <<record, objects, releases, clock>>

-----------------------------------------------------------------------------
(* The sweeps: one listing of the bucket, then the manifest, then the act.  *)
(* The nightly sweep reads a manifest that stands alone only when the       *)
(* listing says it is small and old enough to be a due leftover record.     *)

NightlyList ==
  /\ At(Cron, "idle")
  /\ Exists(man)
  /\ Stored # {} \/ (IsTombstone(man) /\ written <= now - TombKeep)
  /\ Begin(Cron, [NewReq("nightly_read", "nightly") EXCEPT !.keys = Stored])
  /\ UNCHANGED <<record, objects, dock, releases, clock>>

\* Mutants: the leftover record goes when it is due, alone under its prefix or
\* not; what is under a consumed transfer is left; a moderated record is kept.
NightlyPlanNotAlone(r) ==
  IF ~Exists(man) THEN Idle
  ELSE IF IsTombstone(man) /\ man.consumed_at <= r.t - TombKeep
  THEN [r EXCEPT !.pc = "remove", !.op = "forget"]
  ELSE IF man.consumed THEN
    [r EXCEPT !.pc = "delete", !.op = "residue", !.m = man,
              !.at = man.consumed_at, !.removed = man.removed]
  ELSE IF IsPurgeableExpired(man, r.t) THEN
    [r EXCEPT !.pc = "update_read", !.op = "purge"]
  ELSE Idle

NightlyPlanNoResidue(r) ==
  IF ~Exists(man) THEN Idle
  ELSE IF r.keys = {} THEN
    IF IsTombstone(man) /\ man.consumed_at <= r.t - TombKeep
    THEN [r EXCEPT !.pc = "remove", !.op = "forget"] ELSE Idle
  ELSE IF IsPurgeableExpired(man, r.t) THEN
    [r EXCEPT !.pc = "update_read", !.op = "purge"]
  ELSE Idle

NightlyPlanKeepsRemoved(r) ==
  IF ~Exists(man) THEN Idle
  ELSE IF r.keys = {} THEN
    IF IsTombstone(man) /\ ~man.removed /\ man.consumed_at <= r.t - TombKeep
    THEN [r EXCEPT !.pc = "remove", !.op = "forget"] ELSE Idle
  ELSE IF man.consumed THEN
    [r EXCEPT !.pc = "delete", !.op = "residue", !.m = man,
              !.at = man.consumed_at, !.removed = man.removed]
  ELSE IF IsPurgeableExpired(man, r.t) THEN
    [r EXCEPT !.pc = "update_read", !.op = "purge"]
  ELSE Idle

\* What the nightly sweep decides once it has read the manifest.
NightlyPlan(r) ==
  IF ~Exists(man) THEN Idle
  ELSE IF r.keys = {} THEN
    IF IsTombstone(man) /\ man.consumed_at <= r.t - TombKeep
    THEN [r EXCEPT !.pc = "remove", !.op = "forget"] ELSE Idle
  ELSE IF man.consumed THEN
    [r EXCEPT !.pc = "delete", !.op = "residue", !.m = man,
              !.at = man.consumed_at, !.removed = man.removed]
  ELSE IF IsPurgeableExpired(man, r.t) THEN
    [r EXCEPT !.pc = "update_read", !.op = "purge"]
  ELSE Idle

NightlyRead ==
  /\ At(Cron, "nightly_read")
  /\ Become(Cron, NightlyPlan(req[Cron]))
  /\ UNCHANGED <<record, objects, dock, releases, clock>>

\* POST /admin/orphan-sweep; "at" keeps the last activity its listing saw.
OrphanList(p) ==
  /\ At(p, "idle") /\ "orphan" \in Handlers
  /\ Exists(man)
  /\ Begin(p, [NewReq("orphan_read", "orphan") EXCEPT
                 !.keys = Stored,
                 !.at = IF activity > written THEN activity ELSE written])
  /\ UNCHANGED <<record, objects, dock, releases, clock>>

OrphanPlan(r) ==
  IF ~Exists(man) THEN Idle
  ELSE IF man.consumed THEN
    IF r.keys # {} THEN [r EXCEPT !.pc = "delete", !.op = "orphan_residue"] ELSE Idle
  ELSE IF man.upload_complete THEN
    IF IsPurgeableExpired(man, r.t)
    THEN [r EXCEPT !.pc = "update_read", !.op = "purge"] ELSE Idle
  ELSE IF IsStale(r.at, r.t) THEN [r EXCEPT !.pc = "delete", !.op = "stale"] ELSE Idle

OrphanRead(p) ==
  /\ At(p, "orphan_read")
  /\ Become(p, OrphanPlan(req[p]))
  /\ UNCHANGED <<record, objects, dock, releases, clock>>

\* The manifest object goes: a leftover record that is due, or a stale upload.
RemoveManifest(p) ==
  /\ At(p, "remove")
  /\ man' = NoManifest
  /\ written' = 0
  /\ IF req[p].op = "stale" THEN Goto(p, "dock_off") ELSE Done(p)
  /\ UNCHANGED <<objects, dock, releases, clock>>

-----------------------------------------------------------------------------
\* The isolate is evicted, or an R2 call throws: the handler stops where it is.
Crash(p) ==
  /\ ~At(p, "idle")
  /\ Fail
  /\ Done(p)
  /\ UNCHANGED <<record, objects, dock, releases, now>>

\* A handler outlives the unit it started in by at most one unit.
Tick ==
  /\ now < MaxNow
  /\ \A p \in Procs : At(p, "idle") \/ req[p].t = now
  /\ now' = now + 1
  /\ UNCHANGED <<record, objects, dock, releases, faults, req>>

-----------------------------------------------------------------------------
\* What a request slot can be asked for, and what a handler in flight does next.
Start(p) ==
  \/ \E b \in Bodies, root \in Bodies : FinaliseStart(p, b, root)
  \/ \E c \in ChunkIds : DownloadStart(p, c)
  \/ DeleteStart(p)
  \/ ConfirmStart(p)
  \/ TakedownStart(p)
  \/ OrphanList(p)

Handle(p) ==
  \/ UpdateRead(p) \/ UpdateWin(p) \/ UpdateLose(p) \/ Release(p)
  \/ FinaliseList(p) \/ FinaliseDeleteWrong(p) \/ FinaliseSidecar(p)
  \/ FinaliseDockRead(p) \/ FinaliseDockPut(p)
  \/ DownloadServe(p)
  \/ List(p) \/ DeleteGroup(p) \/ DeletePart(p)
  \/ PutTombstone(p) \/ PutTombstoneFails(p) \/ DockOff(p) \/ DockMark(p)
  \/ OrphanRead(p) \/ RemoveManifest(p)

Nightly == NightlyList \/ NightlyRead \/ Handle(Cron)

Next ==
  \/ \E c \in ChunkIds, size \in Sizes : PutChunk(c, size)
  \/ \E p \in Reqs : Start(p) \/ Handle(p)
  \/ Nightly
  \/ \E p \in Procs : Crash(p)
  \/ Tick

Spec == Init /\ [][Next]_vars

\* The platform runs a handler it has started until it returns or is evicted,
\* the cron trigger fires again and again, and time passes.  Nobody is obliged
\* to upload, download or delete.
Fairness ==
  /\ \A p \in Reqs : WF_vars(Handle(p))
  /\ WF_vars(Nightly)
  /\ WF_vars(Tick)

FairSpec == Spec /\ Fairness

-----------------------------------------------------------------------------
(* Properties                                                               *)

Labels == {"idle", "update_read", "update_put", "release", "complete", "wrong_size",
           "sidecar", "dock_read", "dock_open", "dock_keep", "serve", "list", "delete",
           "tombstone", "dock_off", "dock_mark", "nightly_read", "orphan_read", "remove"}
Ops == {"none", "finalise", "download", "destroy", "confirm", "purge", "nightly",
        "residue", "forget", "orphan", "orphan_residue", "stale"}

Request ==
  [pc : Labels, op : Ops, t : Time, m : ManifestOrNone, seen : ManifestOrNone,
   keys : SUBSET Keys, removed : BOOLEAN, at : TimeOrNone, tries : Nat,
   body : RootOrNone, root : RootOrNone, c : 0..Chunks]

\* Every variable, and every local of every handler in flight, has its type.
TypeOK ==
  /\ man \in ManifestOrNone /\ written \in Time
  /\ chunk \in [ChunkIds -> {"none", "good", "bad"}]
  /\ sidecar \in RootOrNone
  /\ activity \in Time
  /\ dock \in {"absent", "open", "purged"}
  /\ releases \in Nat /\ now \in Time /\ faults \in Nat
  /\ req \in [Procs -> Request]

\* Whatever deletions, sweeps, crashes and retries race on a transfer, its quota
\* hold is given back at most once, and never while the transfer is live
\* (latchConsumed: one path wins the live -> consumed transition).
ReleasedOnce == releases <= 1 /\ (releases > 0 => ~Live(man))

\* A finalised transfer that nobody has deleted still has every chunk and its
\* sidecar in R2: no sweep, abandoned request or deletion of something else
\* took one away (deleteKeys runs only under a latch or on a stale upload).
CompleteIsBacked ==
  Live(man) /\ man.upload_complete => Stored = Keys

\* The manifest object is never removed while objects of the transfer remain, so
\* no chunk is ever left that no manifest accounts for (deleteGroups' order, the
\* nightly sweep's "alone" test, the margin between sessions and the stale rule).
NoOrphanObjects == ~Exists(man) => Stored = {}

\* The date a transfer ended is the date the latch wrote, whoever finishes the
\* deletion and however late: it starts the 30 days of the leftover record.
EndDateFixed ==
  [][Consumed(man) /\ Consumed(man') => man'.consumed_at = man.consumed_at]_vars

\* The phase the manifest is in.
Phase ==
  IF ~Exists(man) THEN "forgotten"
  ELSE IF man.consumed THEN IF man.total_chunks THEN "ending" ELSE "ended"
  ELSE IF man.upload_complete THEN "complete" ELSE "uploading"

\* Requests and sweeps together implement the lifecycle they promise.
L == INSTANCE Lifecycle WITH phase <- Phase, credited <- releases > 0
ImplementsLifecycle == L!LSpec

\* What is under a consumed transfer's prefix is eventually gone, and stays gone:
\* the nightly sweep clears what crashes, failed batches, late PUTs and a late
\* finalise leave behind.
EndedIsEmptied == Consumed(man) ~> [](Stored = {})

\* A finalised transfer does not outlive its expiry for ever.
ExpiredIsEnded == (Live(man) /\ man.upload_complete) ~> ~Live(man)

\* The leftover record of a transfer is forgotten in the end (a record that has
\* its 30 days left before the clock of the instance stops).
RecordIsForgotten == (IsTombstone(man) /\ now + TombKeep < MaxNow) ~> ~Exists(man)

\* Does not hold (README, 6.2): "Once a manifest says removed, every path that
\* finishes the deletion keeps it" (delete_transfer.js).
RemovedKept ==
  [][Consumed(man) /\ man.removed /\ Consumed(man') => man'.removed]_vars

\* Does not hold (README, 6.3): "finalise runs once. A replayed session must never re-write the sidecar /
\* merkle_root of a completed transfer" (finalise.js).
FinaliseOnce ==
  [][Live(man) /\ man.upload_complete /\ Live(man')
       => sidecar' = sidecar /\ man'.merkle_root = man.merkle_root]_vars

\* Does not hold (README, 6.4): "A deletion that died part-way also leaves the full manifest: finish it the
\* way destroyTransfer would" (nightly_sweep.js).
DiedPartWayIsFinished == InProgress(man) ~> ~InProgress(man)
=============================================================================
