--------------------------- MODULE TransferProofs ---------------------------
(* Machine-checked facts about Transfer, for every value of its constants: *)
(* types, one release of the hold, one end date, the lifecycle implemented, *)
(* nothing orphaned and nothing lost.                                       *)
EXTENDS Transfer, TLAPS

Callers == {"finalise", "download", "destroy", "confirm", "purge"}

\* What a handler in flight is doing at each await: the caller of the step it
\* is at, the manifest copies it holds there, and that updateManifest only ever
\* puts over a manifest it read as not consumed.
RequestOK(r) ==
  /\ r.pc \in {"update_read", "update_put"} => r.op \in Callers
  /\ r.pc = "update_put" => r.seen \in ManifestRecord /\ ~r.seen.consumed
  /\ r.pc = "release" => r.op \in Latchers
  /\ r.pc = "delete" => r.op \in {"destroy", "purge", "residue", "orphan_residue", "stale"}
  /\ r.op = "download" => r.m \in ManifestRecord
  /\ r.pc \in {"complete", "sidecar"} => r.op = "finalise"
  /\ r.pc = "list" => r.op = "destroy"

TypeInv == TypeOK /\ \A p \in Procs : RequestOK(req[p])

\* A slot without a handler is a request record, and well formed.
LEMMA IdleType == Idle \in Request /\ RequestOK(Idle)
  BY SizeAssumption DEF Idle, Request, RequestOK, Labels, Ops, ManifestOrNone, TimeOrNone, Time,
         NoTime, RootOrNone, Keys, Latchers

\* Initially the type invariant and its strengthening hold.
LEMMA InitType == Init => TypeInv
  <1> SUFFICES ASSUME Init PROVE TypeInv
    OBVIOUS
  <1>1. man \in ManifestOrNone
    BY SizeAssumption DEF Init, FreshManifest, ManifestOrNone, ManifestRecord, TimeOrNone, NoTime,
       RootOrNone
  <1>2. req \in [Procs -> Request] /\ \A p \in Procs : RequestOK(req[p])
    BY IdleType DEF Init
  <1> QED
    BY <1>1, <1>2 DEF Init, TypeInv, TypeOK, Time, RootOrNone

\* A handler's new state is well-formed: then every handler's is.
WellFormed(r) == r \in Request /\ RequestOK(r)

\* A step that gives one handler a well-formed state keeps every handler typed.
LEMMA OneHandler ==
  ASSUME TypeInv, NEW p \in Procs, NEW r, WellFormed(r), Become(p, r)
  PROVE  req' \in [Procs -> Request] /\ \A q \in Procs : RequestOK(req'[q])
  BY DEF TypeInv, TypeOK, Become, WellFormed

\* Under the type invariant each handler is well formed and the manifest a record.
LEMMA HandlerType ==
  ASSUME TypeInv, NEW p \in Procs
  PROVE  WellFormed(req[p]) /\ (Exists(man) => man \in ManifestRecord)
  BY DEF TypeInv, TypeOK, WellFormed, Exists, ManifestOrNone

\* Labels a handler may go to whatever it was called for.
LEMMA GoType ==
  ASSUME NEW r, WellFormed(r),
         NEW label \in Labels \ {"update_read", "update_put", "release", "delete",
                                  "complete", "sidecar", "list"}
  PROVE  WellFormed(Go(r, label))
  BY DEF WellFormed, Go, Request, RequestOK

\* A request record is well formed when its label suits what it was called for.
LEMMA NewReqType ==
  ASSUME NEW label \in Labels, NEW op \in Ops, label # "update_put",
         label = "update_read" => op \in Callers,
         label = "release" => op \in Latchers,
         label = "delete" => op \in {"destroy", "purge", "residue", "orphan_residue", "stale"},
         label \in {"complete", "sidecar"} => op = "finalise",
         label = "list" => op = "destroy"
  PROVE  /\ NewReq(label, op) \in Request
         /\ op # "download" => WellFormed(NewReq(label, op))
  BY IdleType DEF NewReq, WellFormed, Request, RequestOK

\* The manifests that are written are manifests.
LEMMA WrittenManifests ==
  ASSUME NEW m \in ManifestRecord, NEW t \in Time, NEW gone \in BOOLEAN,
         NEW root \in RootOrNone, NEW at \in TimeOrNone
  PROVE  /\ Completed(m, root) \in ManifestRecord
         /\ Stamped(m, t) \in ManifestRecord
         /\ Latched(m, t, gone) \in ManifestRecord
         /\ Tombstone(at, gone) \in ManifestRecord
  BY DEF Completed, Stamped, Latched, Tombstone, ManifestRecord, TimeOrNone, NoTime, Time,
     RootOrNone, Arms

\* Deleting objects keeps chunks, sidecar and activity typed.
LEMMA RemoveType ==
  ASSUME TypeInv, NEW K, Remove(K)
  PROVE  /\ chunk' \in [ChunkIds -> {"none", "good", "bad"}]
         /\ sidecar' \in RootOrNone
         /\ activity' \in Time
  BY DEF TypeInv, TypeOK, Remove, RootOrNone

-----------------------------------------------------------------------------
(* updateManifest                                                           *)

\* What a caller becomes when updateManifest's mutate declines is well formed.
LEMMA AfterDeclineType ==
  ASSUME NEW r, WellFormed(r), NEW m \in ManifestRecord
  PROVE  WellFormed(AfterDecline(r, m))
  <1>1. CASE r.op = "download" /\ ~m.consumed
    BY <1>1, GoType DEF AfterDecline, Labels
  <1>2. CASE r.op = "destroy"
    <2> DEFINE s == [r EXCEPT !.pc = "list", !.at = m.consumed_at,
                              !.removed = @ \/ m.removed, !.tries = 0]
    <2>1. AfterDecline(r, m) = s
      BY <1>2 DEF AfterDecline
    <2>2. WellFormed(s)
      BY <1>2 DEF WellFormed, Request, RequestOK, Labels, ManifestRecord
    <2> QED
      BY <2>1, <2>2
  <1>3. CASE r.op = "purge" /\ m.consumed
    <2>1. AfterDecline(r, m) = Go(r, "dock_off")
      BY <1>3 DEF AfterDecline
    <2> QED
      BY <2>1, GoType DEF Labels
  <1>4. CASE ~(r.op = "download" /\ ~m.consumed) /\ r.op # "destroy" /\ ~(r.op = "purge" /\ m.consumed)
    <2>1. AfterDecline(r, m) = Idle
      BY <1>4 DEF AfterDecline
    <2> QED
      BY <2>1, IdleType DEF WellFormed
  <1> QED
    BY <1>1, <1>2, <1>3, <1>4

\* What a caller becomes when updateManifest has written is well formed.
LEMMA AfterWriteType ==
  ASSUME NEW r, WellFormed(r), r.pc = "update_put"
  PROVE  WellFormed(AfterWrite(r))
  <1> DEFINE w == [r EXCEPT !.seen = NoManifest, !.tries = 0]
  <1>1. /\ r \in Request /\ RequestOK(r) /\ r.op \in Callers
        /\ r.t \in Time /\ r.m \in ManifestOrNone
    BY DEF WellFormed, RequestOK, Request
  <1>2. CASE r.op = "finalise"
    <2> DEFINE s == [w EXCEPT !.pc = "dock_read", !.root = NoBody]
    <2>1. AfterWrite(r) = s
      BY <1>2 DEF AfterWrite, Latchers
    <2>2. WellFormed(s)
      BY <1>1, <1>2 DEF WellFormed, Request, RequestOK, Labels, ManifestOrNone, RootOrNone
    <2> QED
      BY <2>1, <2>2
  <1>3. CASE r.op = "download"
    <2> DEFINE m == Stamped(r.m, r.t)
               s == [w EXCEPT !.pc = "serve", !.m = m]
    <2>1. AfterWrite(r) = s
      BY <1>3 DEF AfterWrite, Latchers
    <2>2. m \in ManifestRecord
      BY <1>1, <1>3 DEF RequestOK, Stamped, ManifestRecord, TimeOrNone
    <2> HIDE DEF m
    <2>3. WellFormed(s)
      BY <1>1, <1>3, <2>2 DEF WellFormed, Request, RequestOK, Labels, ManifestOrNone
    <2> QED
      BY <2>1, <2>3
  <1>4. CASE r.op \in Latchers
    <2> DEFINE s == [w EXCEPT !.pc = "release", !.at = r.t]
    <2>1. AfterWrite(r) = s
      BY <1>4 DEF AfterWrite, Latchers
    <2>2. WellFormed(s)
      BY <1>1, <1>4 DEF WellFormed, Request, RequestOK, Labels, ManifestOrNone, TimeOrNone, Latchers
    <2> QED
      BY <2>1, <2>2
  <1> QED
    BY <1>1, <1>2, <1>3, <1>4 DEF Callers, Latchers

\* The read of updateManifest preserves the type invariant.
LEMMA UpdateReadType ==
  ASSUME TypeInv, NEW p \in Procs, UpdateRead(p)
  PROVE  TypeInv'
  <1> DEFINE put == [req[p] EXCEPT !.pc = "update_put", !.seen = man]
  <1>0. /\ req[p].pc = "update_read"
        /\ WellFormed(req[p]) /\ (Exists(man) => man \in ManifestRecord)
    BY HandlerType DEF UpdateRead, At
  <1>1. Exists(man) /\ ~Declines(req[p], man) => WellFormed(put)
    BY <1>0 DEF WellFormed, Request, RequestOK, Labels, ManifestOrNone, Declines
  <1>2. PICK r : WellFormed(r) /\ Become(p, r)
    BY <1>0, <1>1, IdleType, AfterDeclineType DEF UpdateRead, WellFormed
  <1>3. req' \in [Procs -> Request] /\ \A q \in Procs : RequestOK(req'[q])
    BY <1>2, OneHandler
  <1> QED
    BY <1>3 DEF UpdateRead, TypeInv, TypeOK, record, objects, clock

\* The conditional put that succeeds preserves the type invariant.
LEMMA UpdateWinType ==
  ASSUME TypeInv, NEW p \in Procs, UpdateWin(p)
  PROVE  TypeInv'
  <1>0. /\ req[p].pc = "update_put" /\ WellFormed(req[p])
        /\ man = req[p].seen /\ man \in ManifestRecord /\ req[p].op \in Callers
    BY HandlerType DEF UpdateWin, At, WellFormed, RequestOK
  <1>1. /\ req[p].t \in Time /\ req[p].removed \in BOOLEAN /\ req[p].root \in RootOrNone
    BY <1>0 DEF WellFormed, Request
  <1>2. man' \in ManifestRecord
    <2>1. /\ Completed(man, req[p].root) \in ManifestRecord
          /\ Stamped(man, req[p].t) \in ManifestRecord
          /\ Latched(man, req[p].t, req[p].removed) \in ManifestRecord
      BY <1>0, <1>1, WrittenManifests DEF TimeOrNone
    <2>2. Mutated(req[p], man) \in {Completed(man, req[p].root), Stamped(man, req[p].t),
                                   Latched(man, req[p].t, req[p].removed)}
      BY <1>0 DEF Mutated, Callers, Latchers
    <2> QED
      BY <2>1, <2>2 DEF UpdateWin
  <1>3. req' \in [Procs -> Request] /\ \A q \in Procs : RequestOK(req'[q])
    BY <1>0, AfterWriteType, OneHandler DEF UpdateWin
  <1> QED
    BY <1>2, <1>3 DEF UpdateWin, TypeInv, TypeOK, objects, clock, ManifestOrNone

\* The conditional put that is refused preserves the type invariant.
LEMMA UpdateLoseType ==
  ASSUME TypeInv, NEW p \in Procs, UpdateLose(p)
  PROVE  TypeInv'
  <1> DEFINE again == [req[p] EXCEPT !.pc = "update_read", !.seen = NoManifest, !.tries = @ + 1]
  <1>0. req[p].pc = "update_put" /\ WellFormed(req[p])
    BY HandlerType DEF UpdateLose, At
  <1>1. WellFormed(again)
    <2>1. req[p].tries + 1 \in Nat
      BY <1>0 DEF WellFormed, Request
    <2> QED
      BY <1>0, <2>1 DEF WellFormed, Request, RequestOK, Labels, ManifestOrNone
  <1>2. WellFormed(AfterContention(req[p]))
    BY <1>0, IdleType, GoType DEF AfterContention, WellFormed, Labels
  <1>3. req' \in [Procs -> Request] /\ \A q \in Procs : RequestOK(req'[q])
    BY <1>1, <1>2, OneHandler DEF UpdateLose
  <1> QED
    BY <1>3 DEF UpdateLose, TypeInv, TypeOK, record, objects, clock

\* Giving the quota hold back preserves the type invariant.
LEMMA ReleaseType ==
  ASSUME TypeInv, NEW p \in Procs, Release(p)
  PROVE  TypeInv'
  <1> DEFINE list == [req[p] EXCEPT !.pc = "list", !.op = "destroy"]
  <1>0. req[p].pc = "release" /\ WellFormed(req[p])
    BY HandlerType DEF Release, At
  <1>1. req[p].op = "purge" => WellFormed(Go(req[p], "delete"))
    BY <1>0 DEF Go, WellFormed, Request, RequestOK, Labels
  <1>2. WellFormed(list)
    BY <1>0 DEF WellFormed, Request, RequestOK, Labels, Ops
  <1>3. req' \in [Procs -> Request] /\ \A q \in Procs : RequestOK(req'[q])
    BY <1>1, <1>2, OneHandler DEF Release
  <1> QED
    BY <1>3 DEF Release, TypeInv, TypeOK, record, objects, clock

-----------------------------------------------------------------------------
(* Handlers that start                                                      *)

\* A handler that starts in a well-formed state keeps every handler typed.
LEMMA BeginType ==
  ASSUME TypeInv, NEW p \in Procs, NEW r, WellFormed(r), Begin(p, r)
  PROVE  req' \in [Procs -> Request] /\ \A q \in Procs : RequestOK(req'[q])
  <1> DEFINE s == [r EXCEPT !.t = now]
  <1>1. now \in Time
    BY DEF TypeInv, TypeOK
  <1>2. WellFormed(s)
    BY <1>1 DEF WellFormed, Request, RequestOK
  <1> QED
    BY <1>2, OneHandler DEF Begin

\* What is listed under the prefix are object keys of the transfer.
LEMMA StoredKeys == Stored \in SUBSET Keys
  BY DEF Stored, Keys

\* The entry of destroyTransfer leads to a well-formed handler.
LEMMA DestroyEntryType ==
  ASSUME TypeInv, Exists(man), NEW gone \in BOOLEAN
  PROVE  WellFormed(DestroyEntry(gone))
  <1>1. man \in ManifestRecord
    BY DEF TypeInv, TypeOK, Exists, ManifestOrNone
  <1>2. /\ WellFormed(NewReq("list", "destroy"))
        /\ WellFormed(NewReq("update_read", "destroy"))
    BY NewReqType DEF Labels, Ops, Callers
  <1>3. /\ NewReq("list", "destroy").op = "destroy" /\ NewReq("update_read", "destroy").op = "destroy"
        /\ NewReq("list", "destroy").pc = "list" /\ NewReq("update_read", "destroy").pc = "update_read"
    BY DEF NewReq, Idle
  <1>4. /\ man.consumed_at \in TimeOrNone /\ man.removed \in BOOLEAN
        /\ (gone \/ man.removed) \in BOOLEAN
    BY <1>1 DEF ManifestRecord
  <1>5. WellFormed([NewReq("list", "destroy") EXCEPT !.at = man.consumed_at,
                                                    !.removed = gone \/ man.removed])
    BY <1>2, <1>3, <1>4 DEF WellFormed, Request, RequestOK
  <1>6. WellFormed([NewReq("update_read", "destroy") EXCEPT !.removed = gone])
    BY <1>2, <1>3 DEF WellFormed, Request, RequestOK
  <1> QED
    BY <1>5, <1>6 DEF DestroyEntry

\* Each request handler, when it starts, preserves the type invariant.
LEMMA StartType ==
  ASSUME TypeInv, NEW p \in Reqs, Start(p)
  PROVE  TypeInv'
  <1>0. p \in Procs
    BY DEF Procs
  <1>1. req' \in [Procs -> Request] /\ \A q \in Procs : RequestOK(req'[q])
    <2>1. ASSUME NEW hashes \in Bodies, NEW root \in Bodies, FinaliseStart(p, hashes, root)
          PROVE  req' \in [Procs -> Request] /\ \A q \in Procs : RequestOK(req'[q])
      <3> DEFINE n == NewReq("complete", "finalise")
                 r == [n EXCEPT !.body = hashes, !.root = root]
      <3>1. WellFormed(n) /\ n.op = "finalise" /\ n.pc = "complete"
        BY NewReqType DEF Labels, Ops, NewReq, Idle
      <3> HIDE DEF n
      <3>2. WellFormed(r)
        BY <3>1 DEF WellFormed, Request, RequestOK, RootOrNone
      <3> QED
        BY <1>0, <2>1, <3>2, BeginType DEF FinaliseStart, n
    <2>2. ASSUME NEW c \in ChunkIds, DownloadStart(p, c)
          PROVE  req' \in [Procs -> Request] /\ \A q \in Procs : RequestOK(req'[q])
      <3>1. PICK label \in {"update_read", "serve"} :
              Begin(p, [NewReq(label, "download") EXCEPT !.c = c, !.m = man])
        BY <2>2 DEF DownloadStart
      <3> DEFINE n == NewReq(label, "download")
                 r == [n EXCEPT !.c = c, !.m = man]
      <3>2. n \in Request /\ n.op = "download" /\ n.pc = label /\ label \in Labels
        <4>1. label \in Labels /\ "download" \in Ops
          BY DEF Labels, Ops
        <4>2. n \in Request
          BY <4>1, NewReqType DEF Callers
        <4>3. n.op = "download" /\ n.pc = label
          BY DEF NewReq, Idle
        <4> QED
          BY <4>1, <4>2, <4>3
      <3>3. man \in ManifestRecord /\ c \in 0..Chunks
        BY <2>2, SizeAssumption DEF DownloadStart, Live, Exists, TypeInv, TypeOK, ManifestOrNone, ChunkIds
      <3> HIDE DEF n
      <3>4. WellFormed(r)
        BY <3>1, <3>2, <3>3 DEF WellFormed, Request, RequestOK, ManifestOrNone, Callers
      <3> QED
        BY <1>0, <3>1, <3>4, BeginType DEF n
    <2>3. CASE DeleteStart(p)
      BY <1>0, <2>3, DestroyEntryType, BeginType DEF DeleteStart
    <2>4. CASE ConfirmStart(p)
      <3>1. WellFormed(NewReq("update_read", "confirm"))
        BY NewReqType DEF Labels, Ops, Callers
      <3> QED
        BY <1>0, <2>4, <3>1, BeginType DEF ConfirmStart
    <2>5. CASE TakedownStart(p)
      <3>1. Exists(man) /\ (~man.consumed \/ man.removed) \in BOOLEAN
        BY <2>5 DEF TakedownStart
      <3> QED
        BY <1>0, <2>5, <3>1, DestroyEntryType, BeginType DEF TakedownStart
    <2>6. CASE OrphanList(p)
      <3> DEFINE n == NewReq("orphan_read", "orphan")
                 last == IF activity > written THEN activity ELSE written
                 r == [n EXCEPT !.keys = Stored, !.at = last]
      <3>1. WellFormed(n) /\ n.op = "orphan" /\ n.pc = "orphan_read"
        BY NewReqType DEF Labels, Ops, NewReq, Idle
      <3>2. last \in TimeOrNone
        BY DEF TypeInv, TypeOK, TimeOrNone
      <3> HIDE DEF n, last
      <3>3. WellFormed(r)
        BY <3>1, <3>2, StoredKeys DEF WellFormed, Request, RequestOK
      <3> QED
        BY <1>0, <2>6, <3>3, BeginType DEF OrphanList, n, last
    <2> QED
      BY <2>1, <2>2, <2>3, <2>4, <2>5, <2>6 DEF Start
  <1>2. UNCHANGED <<record, objects, dock, releases, clock>>
    BY DEF Start, FinaliseStart, DownloadStart, DeleteStart, ConfirmStart, TakedownStart, OrphanList
  <1> QED
    BY <1>1, <1>2 DEF TypeInv, TypeOK, record, objects, clock

-----------------------------------------------------------------------------
(* Handlers in flight, outside updateManifest                               *)

\* The steps after which the handler is gone, or only its label has changed.
LEMMA FinaliseSteps ==
  ASSUME TypeInv, NEW p \in Procs,
         FinaliseList(p) \/ FinaliseDeleteWrong(p) \/ FinaliseSidecar(p)
           \/ FinaliseDockRead(p) \/ FinaliseDockPut(p)
  PROVE  TypeInv'
  <1>0. WellFormed(req[p]) /\ WellFormed(Idle)
    BY HandlerType, IdleType DEF WellFormed
  <1>1. CASE FinaliseList(p)
    <2> DEFINE bad == {c \in ChunkIds : chunk[c] = "bad"}
               wrong == [req[p] EXCEPT !.pc = "wrong_size", !.keys = bad]
    <2>1. bad \in SUBSET Keys
      BY DEF Keys
    <2> HIDE DEF bad
    <2>2. WellFormed(wrong)
      <3>1. "wrong_size" \in Labels
        BY DEF Labels
      <3> QED
        BY <1>0, <2>1, <3>1 DEF WellFormed, Request, RequestOK
    <2>3. WellFormed(Go(req[p], "sidecar"))
      <3>1. "sidecar" \in Labels /\ req[p].op = "finalise"
        BY <1>0, <1>1 DEF Labels, FinaliseList, At, WellFormed, RequestOK
      <3> QED
        BY <1>0, <3>1 DEF Go, WellFormed, Request, RequestOK
    <2>4. req' \in [Procs -> Request] /\ \A q \in Procs : RequestOK(req'[q])
      BY <1>0, <1>1, <2>2, <2>3, OneHandler DEF FinaliseList, bad
    <2> QED
      BY <1>1, <2>4 DEF FinaliseList, TypeInv, TypeOK, record, objects, clock
  <1>2. CASE FinaliseDeleteWrong(p)
    <2>1. req' \in [Procs -> Request] /\ \A q \in Procs : RequestOK(req'[q])
      BY <1>0, <1>2, OneHandler DEF FinaliseDeleteWrong, Done
    <2>2. Remove(req[p].keys)
      BY <1>2 DEF FinaliseDeleteWrong
    <2> QED
      BY <1>2, <2>1, <2>2, RemoveType DEF FinaliseDeleteWrong, TypeInv, TypeOK, record, clock
  <1>3. CASE FinaliseSidecar(p)
    <2> DEFINE r == [req[p] EXCEPT !.pc = "update_read", !.body = NoBody]
    <2>1. req[p].op = "finalise"
      BY <1>3 DEF FinaliseSidecar, At, TypeInv, RequestOK
    <2>2. WellFormed(r) /\ req[p].body \in RootOrNone
      <3>1. "update_read" \in Labels /\ NoBody \in RootOrNone /\ req[p].op \in Callers
        BY <2>1 DEF Labels, RootOrNone, Callers
      <3> QED
        BY <1>0, <3>1 DEF WellFormed, Request, RequestOK
    <2>3. req' \in [Procs -> Request] /\ \A q \in Procs : RequestOK(req'[q])
      BY <1>3, <2>2, OneHandler DEF FinaliseSidecar
    <2> QED
      BY <1>3, <2>2, <2>3 DEF FinaliseSidecar, TypeInv, TypeOK, record, clock
  <1>4. CASE FinaliseDockRead(p)
    <2>1. WellFormed(Go(req[p], "dock_keep")) /\ WellFormed(Go(req[p], "dock_open"))
      BY <1>0, GoType DEF Labels
    <2>2. req' \in [Procs -> Request] /\ \A q \in Procs : RequestOK(req'[q])
      BY <1>4, <2>1, OneHandler DEF FinaliseDockRead, Goto
    <2> QED
      BY <1>4, <2>2 DEF FinaliseDockRead, TypeInv, TypeOK, record, objects, clock
  <1>5. CASE FinaliseDockPut(p)
    <2>1. req' \in [Procs -> Request] /\ \A q \in Procs : RequestOK(req'[q])
      BY <1>0, <1>5, OneHandler DEF FinaliseDockPut, Done
    <2> QED
      BY <1>5, <2>1 DEF FinaliseDockPut, TypeInv, TypeOK, record, objects, clock
  <1> QED
    BY <1>1, <1>2, <1>3, <1>4, <1>5

\* Serving a chunk, and the destruction it may begin, preserve the type invariant.
LEMMA DownloadServeType ==
  ASSUME TypeInv, NEW p \in Procs, DownloadServe(p)
  PROVE  TypeInv'
  <1> DEFINE n == NewReq("update_read", "destroy")
  <1>0. WellFormed(Idle)
    BY IdleType DEF WellFormed
  <1>1. WellFormed(n)
    BY NewReqType DEF Labels, Ops, Callers
  <1>2. Become(p, Idle) \/ Begin(p, n)
    BY DEF DownloadServe, Done
  <1> HIDE DEF n
  <1>3. req' \in [Procs -> Request] /\ \A q \in Procs : RequestOK(req'[q])
    BY <1>0, <1>1, <1>2, OneHandler, BeginType
  <1> QED
    BY <1>3 DEF DownloadServe, TypeInv, TypeOK, record, objects, clock

\* Listing and deleting objects preserve the type invariant.
LEMMA DeleteSteps ==
  ASSUME TypeInv, NEW p \in Procs, List(p) \/ DeleteGroup(p) \/ DeletePart(p)
  PROVE  TypeInv'
  <1>0. WellFormed(req[p]) /\ WellFormed(Idle)
    BY HandlerType, IdleType DEF WellFormed
  <1>1. CASE List(p)
    <2> DEFINE r == [req[p] EXCEPT !.pc = "delete", !.keys = Stored]
    <2>1. req[p].op = "destroy"
      BY <1>1 DEF List, At, TypeInv, RequestOK
    <2>2. WellFormed(r)
      BY <1>0, <2>1, StoredKeys DEF WellFormed, Request, RequestOK, Labels
    <2>3. req' \in [Procs -> Request] /\ \A q \in Procs : RequestOK(req'[q])
      BY <1>1, <2>2, OneHandler DEF List
    <2> QED
      BY <1>1, <2>3 DEF List, TypeInv, TypeOK, record, objects, clock
  <1>2. CASE DeleteGroup(p)
    <2> DEFINE g == Group(req[p])
               all == [req[p] EXCEPT !.pc = AfterDelete(req[p]), !.keys = {}]
               some == [req[p] EXCEPT !.keys = @ \ g]
    <2>1. AfterDelete(req[p]) \in {"tombstone", "dock_off", "remove"}
      BY <1>2 DEF DeleteGroup, At, TypeInv, RequestOK, AfterDelete
    <2>2. WellFormed(all)
      BY <1>0, <2>1 DEF WellFormed, Request, RequestOK, Labels
    <2>3. WellFormed(some)
      BY <1>0 DEF WellFormed, Request, RequestOK
    <2>4. req' \in [Procs -> Request] /\ \A q \in Procs : RequestOK(req'[q])
      BY <1>2, <2>2, <2>3, OneHandler DEF DeleteGroup
    <2>5. Remove(g)
      BY <1>2 DEF DeleteGroup
    <2> QED
      BY <1>2, <2>4, <2>5, RemoveType DEF DeleteGroup, TypeInv, TypeOK, record, clock
  <1>3. CASE DeletePart(p)
    <2> DEFINE on == [req[p] EXCEPT !.pc = "tombstone", !.keys = {}]
    <2>1. WellFormed(on)
      <3>1. "tombstone" \in Labels
        BY DEF Labels
      <3> QED
        BY <1>0, <3>1 DEF WellFormed, Request, RequestOK
    <2>2. req' \in [Procs -> Request] /\ \A q \in Procs : RequestOK(req'[q])
      BY <1>0, <1>3, <2>1, OneHandler DEF DeletePart
    <2>3. PICK K : Remove(K)
      BY <1>3 DEF DeletePart
    <2> QED
      BY <1>3, <2>2, <2>3, RemoveType DEF DeletePart, Fail, TypeInv, TypeOK, record, clock
  <1> QED
    BY <1>1, <1>2, <1>3

\* The steps that write or remove the leftover record and the dock entry preserve
\* the type invariant.
LEMMA RecordSteps ==
  ASSUME TypeInv, NEW p \in Procs,
         PutTombstone(p) \/ PutTombstoneFails(p) \/ DockOff(p) \/ DockMark(p) \/ RemoveManifest(p)
  PROVE  TypeInv'
  <1>0. WellFormed(req[p]) /\ WellFormed(Idle)
    BY HandlerType, IdleType DEF WellFormed
  <1>1. req' \in [Procs -> Request] /\ \A q \in Procs : RequestOK(req'[q])
    <2>1. WellFormed(Go(req[p], "dock_mark")) /\ WellFormed(Go(req[p], "dock_off"))
      BY <1>0, GoType DEF Labels
    <2> QED
      BY <1>0, <2>1, OneHandler DEF PutTombstone, PutTombstoneFails, DockOff, DockMark,
         RemoveManifest, AfterTombstone, Goto, Done
  <1>2. CASE PutTombstone(p)
    <2>1. Tombstone(req[p].at, req[p].removed) \in ManifestRecord
      BY <1>0 DEF WellFormed, Request, Tombstone, ManifestRecord, TimeOrNone, NoTime, RootOrNone, Arms
    <2> QED
      BY <1>1, <1>2, <2>1 DEF PutTombstone, TypeInv, TypeOK, ManifestOrNone, objects, clock
  <1>3. CASE PutTombstoneFails(p)
    BY <1>1, <1>3 DEF PutTombstoneFails, Fail, TypeInv, TypeOK, record, objects
  <1>4. CASE DockOff(p) \/ DockMark(p)
    BY <1>1, <1>4 DEF DockOff, DockMark, TypeInv, TypeOK, record, objects, clock
  <1>5. CASE RemoveManifest(p)
    BY <1>1, <1>5 DEF RemoveManifest, TypeInv, TypeOK, ManifestOrNone, Time, objects, clock
  <1> QED
    BY <1>2, <1>3, <1>4, <1>5

-----------------------------------------------------------------------------
(* The sweeps, and what is not a handler's own step                         *)

\* The sweeps' listing, reads and decisions preserve the type invariant.
LEMMA SweepSteps ==
  ASSUME TypeInv, NEW p \in Procs, OrphanRead(p) \/ (p = Cron /\ (NightlyList \/ NightlyRead))
  PROVE  TypeInv'
  <1>0. WellFormed(req[p]) /\ WellFormed(Idle) /\ (Exists(man) => man \in ManifestRecord)
    BY HandlerType, IdleType DEF WellFormed
  <1>1. {"remove", "delete", "update_read", "nightly_read"} \subseteq Labels
        /\ {"forget", "residue", "purge", "orphan_residue", "stale", "nightly"} \subseteq Ops
        /\ "purge" \in Callers
    BY DEF Labels, Ops, Callers
  <1>2. CASE OrphanRead(p)
    <2>1. WellFormed(OrphanPlan(req[p]))
      <3>1. req[p].pc = "orphan_read"
        BY <1>2 DEF OrphanRead, At
      <3>2. /\ WellFormed([req[p] EXCEPT !.pc = "delete", !.op = "orphan_residue"])
            /\ WellFormed([req[p] EXCEPT !.pc = "delete", !.op = "stale"])
            /\ WellFormed([req[p] EXCEPT !.pc = "update_read", !.op = "purge"])
        BY <1>0, <1>1, <3>1 DEF WellFormed, Request, RequestOK
      <3> QED
        BY <1>0, <3>2 DEF OrphanPlan
    <2>2. req' \in [Procs -> Request] /\ \A q \in Procs : RequestOK(req'[q])
      BY <1>2, <2>1, OneHandler DEF OrphanRead
    <2> QED
      BY <1>2, <2>2 DEF OrphanRead, TypeInv, TypeOK, record, objects, clock
  <1>3. CASE p = Cron /\ NightlyRead
    <2>1. WellFormed(NightlyPlan(req[p]))
      <3>1. req[p].pc = "nightly_read"
        BY <1>3 DEF NightlyRead, At
      <3>2. /\ WellFormed([req[p] EXCEPT !.pc = "remove", !.op = "forget"])
            /\ WellFormed([req[p] EXCEPT !.pc = "update_read", !.op = "purge"])
        BY <1>0, <1>1, <3>1 DEF WellFormed, Request, RequestOK
      <3>3. Exists(man) => WellFormed([req[p] EXCEPT !.pc = "delete", !.op = "residue", !.m = man,
                                         !.at = man.consumed_at, !.removed = man.removed])
        <4>1. Exists(man) => /\ man \in ManifestOrNone /\ man.consumed_at \in TimeOrNone
                             /\ man.removed \in BOOLEAN
          BY <1>0 DEF ManifestOrNone, ManifestRecord
        <4> QED
          BY <1>0, <1>1, <3>1, <4>1 DEF WellFormed, Request, RequestOK
      <3> QED
        BY <1>0, <3>2, <3>3 DEF NightlyPlan
    <2>2. req' \in [Procs -> Request] /\ \A q \in Procs : RequestOK(req'[q])
      BY <1>3, <2>1, OneHandler DEF NightlyRead
    <2> QED
      BY <1>3, <2>2 DEF NightlyRead, TypeInv, TypeOK, record, objects, clock
  <1>4. CASE p = Cron /\ NightlyList
    <2> DEFINE n == NewReq("nightly_read", "nightly")
    <2>1. WellFormed(n) /\ n.pc = "nightly_read" /\ n.op = "nightly"
      BY <1>1, NewReqType DEF NewReq, Idle
    <2> HIDE DEF n
    <2>2. WellFormed([n EXCEPT !.keys = Stored])
      BY <2>1, StoredKeys DEF WellFormed, Request, RequestOK
    <2>3. req' \in [Procs -> Request] /\ \A q \in Procs : RequestOK(req'[q])
      BY <1>4, <2>2, BeginType DEF NightlyList, n
    <2> QED
      BY <1>4, <2>3 DEF NightlyList, TypeInv, TypeOK, record, objects, clock
  <1> QED
    BY <1>2, <1>3, <1>4

\* Uploads, crashes, the clock and stuttering preserve the type invariant.
LEMMA OutsideSteps ==
  ASSUME TypeInv,
         \/ \E c \in ChunkIds, size \in Sizes : PutChunk(c, size)
         \/ \E p \in Procs : Crash(p)
         \/ Tick
         \/ UNCHANGED vars
  PROVE  TypeInv'
  <1>1. CASE \E c \in ChunkIds, size \in Sizes : PutChunk(c, size)
    BY <1>1, SizeAssumption DEF PutChunk, TypeInv, TypeOK, record, clock
  <1>2. CASE \E p \in Procs : Crash(p)
    <2>1. req' \in [Procs -> Request] /\ \A q \in Procs : RequestOK(req'[q])
      BY <1>2, IdleType, OneHandler DEF Crash, Done, WellFormed
    <2> QED
      BY <1>2, <2>1 DEF Crash, Fail, TypeInv, TypeOK, record, objects
  <1>3. CASE Tick
    BY <1>3 DEF Tick, TypeInv, TypeOK, Time, record, objects
  <1>4. CASE UNCHANGED vars
    BY <1>4 DEF vars, TypeInv, TypeOK, record, objects, clock
  <1> QED
    BY <1>1, <1>2, <1>3, <1>4

-----------------------------------------------------------------------------
(* Type correctness                                                         *)

\* Every step of a handler in flight preserves the type invariant.
LEMMA HandleType ==
  ASSUME TypeInv, NEW p \in Procs, Handle(p)
  PROVE  TypeInv'
  BY UpdateReadType, UpdateWinType, UpdateLoseType, ReleaseType, FinaliseSteps,
     DownloadServeType, DeleteSteps, RecordSteps, SweepSteps DEF Handle

\* The type invariant with its strengthening is inductive.
LEMMA TypeStep == TypeInv /\ [Next]_vars => TypeInv'
  <1> SUFFICES ASSUME TypeInv, [Next]_vars PROVE TypeInv'
    OBVIOUS
  <1>1. ASSUME NEW p \in Reqs, Start(p) \/ Handle(p) PROVE TypeInv'
    BY <1>1, StartType, HandleType DEF Procs
  <1>2. CASE Nightly
    BY <1>2, HandleType, SweepSteps DEF Nightly, Procs
  <1>3. CASE UNCHANGED vars
    BY <1>3, OutsideSteps
  <1> QED
    BY <1>1, <1>2, <1>3, OutsideSteps DEF Next

\* Every variable, and every local of every handler in flight, keeps its type,
\* with any number of concurrent requests, chunks, retries, crashes and sweeps.
THEOREM TypeCorrect == Spec => []TypeOK
  <1>1. Spec => []TypeInv
    BY InitType, TypeStep, PTL DEF Spec
  <1>2. TypeInv => TypeOK
    BY DEF TypeInv
  <1> QED
    BY <1>1, <1>2, PTL

-----------------------------------------------------------------------------
(* The quota hold is given back at most once                                *)

\* The strengthening: whoever is about to give the hold back has ended the
\* transfer, is alone, and comes before any release.
ReleaseInv ==
  /\ releases \in {0, 1}
  /\ releases > 0 => ~Live(man)
  /\ \A p \in Procs : At(p, "release") => ~Live(man) /\ releases = 0
  /\ \A p, q \in Procs : At(p, "release") /\ At(q, "release") => p = q

\* Initially nothing has been given back and nobody is about to.
LEMMA InitRelease == Init => ReleaseInv
  BY DEF Init, ReleaseInv, At, Idle

\* Handler p, and no other, has changed, and it is not at its release.
Passes(p) == req'[p].pc # "release" /\ \A q \in Procs : q # p => req'[q] = req[q]

\* A handler that does not go to its release brings no handler to one.
LEMMA BecomesLabel ==
  ASSUME TypeInv, NEW p \in Procs
  PROVE  /\ \A r : Become(p, r) /\ r.pc # "release" => Passes(p)
         /\ Passes(p) => \A q \in Procs : At(q, "release")' => At(q, "release") /\ q # p
  BY DEF TypeInv, TypeOK, Become, At, Passes

\* A step that puts no handler at its release, and neither gives the hold back
\* nor makes the transfer live.
LEMMA QuietStep ==
  ASSUME ReleaseInv, releases' = releases, Live(man)' => Live(man),
         \A q \in Procs : At(q, "release")' => At(q, "release")
  PROVE  ReleaseInv'
  BY DEF ReleaseInv

\* The latch is won only on a live transfer, so its winner is the only one to release.
LEMMA WinRelease ==
  ASSUME TypeInv, ReleaseInv, NEW p \in Procs, UpdateWin(p)
  PROVE  ReleaseInv'
  <1>0. /\ req[p].op \in Callers /\ Live(man) /\ man \in ManifestRecord
        /\ releases' = releases /\ Become(p, AfterWrite(req[p]))
        /\ man' = Mutated(req[p], man)
    BY SentinelAssumption DEF UpdateWin, At, TypeInv, RequestOK, Live, Exists
  <1>1. releases = 0 /\ \A q \in Procs : ~At(q, "release")
    BY <1>0 DEF ReleaseInv
  <1>2. CASE req[p].op \in Latchers
    <2>1. man' = Latched(man, req[p].t, req[p].removed)
      BY <1>0, <1>2 DEF Mutated, Latchers
    <2>2. ~Live(man)'
      BY <1>0, <2>1 DEF Latched, ManifestRecord, Live
    <2>3. \A q \in Procs : At(q, "release")' => q = p
      BY <1>0, <1>1 DEF TypeInv, TypeOK, Become, At
    <2> QED
      BY <1>0, <1>1, <2>2, <2>3 DEF ReleaseInv
  <1>3. CASE req[p].op \notin Latchers
    <2>1. AfterWrite(req[p]).pc # "release"
      <3>1. req[p] \in Request
        BY DEF TypeInv, TypeOK
      <3> QED
        BY <1>0, <1>3, <3>1 DEF AfterWrite, Callers, Latchers, Request
    <2>2. \A q \in Procs : ~At(q, "release")'
      BY <1>0, <1>1, <2>1, BecomesLabel
    <2> QED
      BY <1>0, <1>1, <2>2 DEF ReleaseInv
  <1> QED
    BY <1>2, <1>3

\* The winner gives back once and leaves nobody about to give back.
LEMMA GivesBack ==
  ASSUME TypeInv, ReleaseInv, NEW p \in Procs, Release(p)
  PROVE  ReleaseInv'
  <1>1. ~Live(man) /\ releases = 0 /\ \A q \in Procs : At(q, "release") => q = p
    BY DEF Release, ReleaseInv
  <1>2. releases' = 1 /\ ~Live(man)'
    BY <1>1 DEF Release, record, Live, Exists
  <1>3. req[p] \in Request
    BY DEF TypeInv, TypeOK
  <1>4. \A q \in Procs : At(q, "release")' => At(q, "release") /\ q # p
    BY <1>3, BecomesLabel DEF Release, Go, Request
  <1> QED
    BY <1>1, <1>2, <1>4 DEF ReleaseInv

\* No other step of a handler goes to a release, and the two that write the
\* manifest leave a transfer that is over.
LEMMA OtherHandlers ==
  ASSUME TypeInv, NEW p \in Procs,
         Handle(p) \/ (p \in Reqs /\ Start(p)) \/ (p = Cron /\ (NightlyList \/ NightlyRead)) \/ Crash(p),
         ~UpdateWin(p), ~Release(p)
  PROVE  /\ releases' = releases /\ (Live(man)' => Live(man))
         /\ \A q \in Procs : At(q, "release")' => At(q, "release")
  <1>0. req[p] \in Request /\ RequestOK(req[p]) /\ Idle.pc = "idle"
    BY DEF TypeInv, TypeOK, Idle
  <1>1. CASE PutTombstone(p)
    <2>1. releases' = releases /\ ~Live(man)'
      BY <1>1 DEF PutTombstone, Tombstone, Live
    <2> QED
      BY <1>0, <1>1, <2>1, BecomesLabel DEF PutTombstone, AfterTombstone, Goto, Go, Request
  <1>2. CASE RemoveManifest(p)
    <2>1. releases' = releases /\ ~Live(man)'
      BY <1>2 DEF RemoveManifest, Live, Exists
    <2> QED
      BY <1>0, <1>2, <2>1, BecomesLabel DEF RemoveManifest, Goto, Go, Done, Request
  <1>3. CASE ~PutTombstone(p) /\ ~RemoveManifest(p)
    <2>1. UNCHANGED <<man, releases>>
      BY <1>3 DEF Handle, Start, NightlyList, NightlyRead, Crash, UpdateRead, UpdateLose,
         FinaliseStart, FinaliseList, FinaliseDeleteWrong, FinaliseSidecar, FinaliseDockRead,
         FinaliseDockPut, DownloadStart, DownloadServe, DeleteStart, ConfirmStart, TakedownStart,
         List, DeleteGroup, DeletePart, PutTombstoneFails, DockOff, DockMark, OrphanList,
         OrphanRead, record
    <2>2. Passes(p)
      <3>0. /\ req \in [Procs -> Request]
            /\ \A label, op : NewReq(label, op).pc = label
            /\ \A label : Go(req[p], label).pc = label
        BY <1>0 DEF NewReq, Idle, Go, Request, TypeInv, TypeOK
      <3>1. CASE UpdateRead(p)
        <4>1. \A m : AfterDecline(req[p], m).pc # "release"
          BY <1>0, <3>0, <3>1 DEF AfterDecline, Request, UpdateRead, At
        <4>2. [req[p] EXCEPT !.pc = "update_put", !.seen = man].pc # "release"
          BY <1>0 DEF Request
        <4> QED
          BY <1>0, <3>1, <4>1, <4>2, BecomesLabel DEF UpdateRead
      <3>2. CASE UpdateLose(p)
        BY <1>0, <3>0, <3>2, BecomesLabel DEF UpdateLose, AfterContention, Request
      <3>3. CASE p \in Reqs /\ Start(p)
        <4>1. CASE DeleteStart(p) \/ ConfirmStart(p) \/ TakedownStart(p)
          <5>1. \A gone : DestroyEntry(gone).pc # "release"
            BY DEF DestroyEntry, NewReq, Idle
          <5>2. \A r : r.pc # "release" /\ Begin(p, r) => Passes(p)
            BY <3>0 DEF Begin, Become, Passes
          <5> QED
            BY <3>0, <4>1, <5>1, <5>2 DEF DeleteStart, ConfirmStart, TakedownStart
        <4>2. CASE OrphanList(p)
          <5> DEFINE n == [NewReq("orphan_read", "orphan") EXCEPT
                             !.keys = Stored, !.at = IF activity > written THEN activity ELSE written]
          <5>1. [n EXCEPT !.t = now].pc # "release"
            BY DEF NewReq, Idle
          <5> HIDE DEF n
          <5>2. Become(p, [n EXCEPT !.t = now])
            BY <4>2 DEF OrphanList, Begin, n
          <5> QED
            BY <5>1, <5>2, BecomesLabel
        <4>3. ASSUME NEW c \in ChunkIds, DownloadStart(p, c) PROVE Passes(p)
          <5>1. PICK label \in {"update_read", "serve"} :
                  Become(p, [[NewReq(label, "download") EXCEPT !.c = c, !.m = man] EXCEPT !.t = now])
            BY <4>3 DEF DownloadStart, Begin
          <5>2. [[NewReq(label, "download") EXCEPT !.c = c, !.m = man] EXCEPT !.t = now].pc # "release"
            BY DEF NewReq, Idle
          <5> QED
            BY <5>1, <5>2, BecomesLabel
        <4>4. ASSUME NEW b \in Bodies, NEW root \in Bodies, FinaliseStart(p, b, root) PROVE Passes(p)
          <5> DEFINE r == [[NewReq("complete", "finalise") EXCEPT !.body = b, !.root = root]
                             EXCEPT !.t = now]
          <5>1. r.pc # "release"
            BY DEF NewReq, Idle
          <5>2. Become(p, r)
            BY <4>4 DEF FinaliseStart, Begin
          <5> HIDE DEF r
          <5> QED
            BY <5>1, <5>2, BecomesLabel
        <4> QED
          BY <3>3, <4>1, <4>2, <4>3, <4>4 DEF Start
      <3>4. CASE p = Cron /\ (NightlyList \/ NightlyRead)
        <4>1. CASE NightlyList
          <5> DEFINE r == [[NewReq("nightly_read", "nightly") EXCEPT !.keys = Stored] EXCEPT !.t = now]
          <5>1. r.pc # "release"
            BY DEF NewReq, Idle
          <5>2. Become(p, r)
            BY <3>4, <4>1 DEF NightlyList, Begin
          <5> HIDE DEF r
          <5> QED
            BY <5>1, <5>2, BecomesLabel
        <4>2. CASE NightlyRead
          <5>1. NightlyPlan(req[p]).pc # "release"
            <6>1. /\ [req[p] EXCEPT !.pc = "remove", !.op = "forget"].pc # "release"
                  /\ [req[p] EXCEPT !.pc = "delete", !.op = "residue", !.m = man,
                        !.at = man.consumed_at, !.removed = man.removed].pc # "release"
                  /\ [req[p] EXCEPT !.pc = "update_read", !.op = "purge"].pc # "release"
              BY <1>0 DEF Request
            <6> QED
              BY <1>0, <6>1 DEF NightlyPlan
          <5> QED
            BY <3>4, <4>2, <5>1, BecomesLabel DEF NightlyRead
        <4> QED
          BY <3>4, <4>1, <4>2
      <3>5. CASE OrphanRead(p)
        <4>1. /\ [req[p] EXCEPT !.pc = "delete", !.op = "orphan_residue"].pc # "release"
              /\ [req[p] EXCEPT !.pc = "delete", !.op = "stale"].pc # "release"
              /\ [req[p] EXCEPT !.pc = "update_read", !.op = "purge"].pc # "release"
          BY <1>0 DEF Request
        <4>2. OrphanPlan(req[p]).pc # "release"
          BY <1>0, <4>1 DEF OrphanPlan
        <4> QED
          BY <3>5, <4>2, BecomesLabel DEF OrphanRead
      <3>6. CASE FinaliseList(p) \/ FinaliseSidecar(p)
        <4>1. /\ \A K : [req[p] EXCEPT !.pc = "wrong_size", !.keys = K].pc # "release"
              /\ [req[p] EXCEPT !.pc = "update_read", !.body = NoBody].pc # "release"
          BY <1>0 DEF Request
        <4> QED
          BY <1>0, <3>0, <3>6, <4>1, BecomesLabel DEF FinaliseList, FinaliseSidecar
      <3>7. CASE FinaliseDeleteWrong(p) \/ FinaliseDockPut(p) \/ DockOff(p) \/ DockMark(p) \/ Crash(p)
        BY <1>0, <3>7, BecomesLabel
           DEF FinaliseDeleteWrong, FinaliseDockPut, DockOff, DockMark, Crash, Done
      <3>8. CASE DownloadServe(p)
        <4>1. [NewReq("update_read", "destroy") EXCEPT !.t = now].pc # "release"
          BY DEF NewReq, Idle
        <4> QED
          BY <1>0, <3>8, <4>1, BecomesLabel DEF DownloadServe, Done, Begin
      <3>9. CASE FinaliseDockRead(p) \/ PutTombstoneFails(p)
        BY <1>0, <3>0, <3>9, BecomesLabel
           DEF FinaliseDockRead, PutTombstoneFails, AfterTombstone, Goto
      <3>10. CASE List(p) \/ DeletePart(p)
        <4>1. /\ [req[p] EXCEPT !.pc = "delete", !.keys = Stored].pc # "release"
              /\ [req[p] EXCEPT !.pc = "tombstone", !.keys = {}].pc # "release"
          BY <1>0 DEF Request
        <4> QED
          BY <1>0, <3>10, <4>1, BecomesLabel DEF List, DeletePart
      <3>11. CASE DeleteGroup(p)
        <4>1. AfterDelete(req[p]) # "release" /\ req[p].pc = "delete"
          BY <1>0, <3>11 DEF DeleteGroup, At, RequestOK, AfterDelete
        <4> QED
          <5>1. /\ [req[p] EXCEPT !.pc = AfterDelete(req[p]), !.keys = {}].pc # "release"
                /\ [req[p] EXCEPT !.keys = @ \ Group(req[p])].pc # "release"
            BY <1>0, <4>1 DEF Request
          <5> QED
            BY <3>11, <5>1, BecomesLabel DEF DeleteGroup
      <3> QED
        BY <1>3, <3>1, <3>2, <3>3, <3>4, <3>5, <3>6, <3>7, <3>8, <3>9, <3>10, <3>11 DEF Handle
    <2> QED
      BY <2>1, <2>2, BecomesLabel DEF Live, Exists
  <1> QED
    BY <1>1, <1>2, <1>3

\* Together with the type invariant, the release invariant is inductive.
LEMMA ReleaseStep == TypeInv /\ ReleaseInv /\ [Next]_vars => ReleaseInv'
  <1> SUFFICES ASSUME TypeInv, ReleaseInv, [Next]_vars PROVE ReleaseInv'
    OBVIOUS
  <1>1. ASSUME NEW p \in Procs,
               Handle(p) \/ (p \in Reqs /\ Start(p))
                 \/ (p = Cron /\ (NightlyList \/ NightlyRead)) \/ Crash(p)
        PROVE  ReleaseInv'
    BY <1>1, WinRelease, GivesBack, OtherHandlers, QuietStep
  <1>2. CASE \/ \E c \in ChunkIds, size \in Sizes : PutChunk(c, size)
             \/ Tick \/ UNCHANGED vars
    <2>1. UNCHANGED <<man, releases, req>>
      BY <1>2 DEF PutChunk, Tick, vars, record
    <2> QED
      BY <2>1 DEF ReleaseInv, At, Live, Exists
  <1> QED
    BY <1>1, <1>2 DEF Next, Nightly, Procs

\* Whatever deletions, sweeps, crashes and retries race, the quota hold of a
\* transfer is given back at most once, and never while the transfer is live.
THEOREM ReleaseOnce == Spec => []ReleasedOnce
  <1>1. Spec => []TypeInv
    BY InitType, TypeStep, PTL DEF Spec
  <1>2. Spec => []ReleaseInv
    BY <1>1, InitRelease, ReleaseStep, PTL DEF Spec
  <1>3. ReleaseInv => ReleasedOnce
    BY DEF ReleaseInv, ReleasedOnce
  <1> QED
    BY <1>2, <1>3, PTL

-----------------------------------------------------------------------------
(* The end date of a transfer is fixed, for every value of the constants.   *)

\* Handlers on their way to the leftover record.
Finisher(r) ==
  \/ r.pc \in {"release", "list", "tombstone"}
  \/ r.pc = "delete" /\ r.op \in {"destroy", "purge", "residue"}

\* They all carry one date, and it is the manifest's while there is one; none is
\* left, or begins, under a live transfer.
EndInv ==
  /\ \A p \in Procs : Finisher(req[p]) =>
       ~Live(man) /\ (Consumed(man) => req[p].at = man.consumed_at)
  /\ \A p, q \in Procs : Finisher(req[p]) /\ Finisher(req[q]) => req[p].at = req[q].at

\* What a handler may become: no finisher, or one with the date it had or the
\* date it has just read.
Fits(p, r) ==
  Finisher(r) => \/ Finisher(req[p]) /\ r.at = req[p].at
                 \/ Consumed(man) /\ r.at = man.consumed_at

\* Then the dates still agree.
LEMMA FitsKeeps ==
  ASSUME TypeInv, EndInv, NEW p \in Procs, man' = man
  PROVE  \A r : Become(p, r) /\ Fits(p, r) => EndInv'
  <1> SUFFICES ASSUME NEW r, Become(p, r), Fits(p, r) PROVE EndInv'
    OBVIOUS
  <1>1. req'[p] = r /\ \A q \in Procs : q # p => req'[q] = req[q]
    BY DEF Become, TypeInv, TypeOK
  <1>2. Finisher(r) => ~Live(man) /\ (Consumed(man) => r.at = man.consumed_at)
    BY DEF Fits, EndInv, Live, Consumed
  <1>3. Finisher(r) => \A q \in Procs : Finisher(req[q]) => req[q].at = r.at
    BY DEF Fits, EndInv
  <1>4. \A q \in Procs : Finisher(req'[q]) =>
          ~Live(man) /\ (Consumed(man) => req'[q].at = man.consumed_at)
    BY <1>1, <1>2 DEF EndInv
  <1>5. \A q, o \in Procs : Finisher(req'[q]) /\ Finisher(req'[o]) => req'[q].at = req'[o].at
    BY <1>1, <1>3 DEF EndInv
  <1> QED
    BY <1>4, <1>5 DEF EndInv, Finisher

\* Most labels belong to no finisher.
LEMMA OtherLabels ==
  ASSUME NEW p \in Procs
  PROVE  \A r : r.pc \notin {"release", "list", "tombstone", "delete"} => Fits(p, r)
  BY DEF Fits, Finisher

\* The latch is won on a live transfer, under which there is no finisher: the
\* winner's date is the only one.
LEMMA WinEnd ==
  ASSUME TypeInv, EndInv, NEW p \in Procs, UpdateWin(p)
  PROVE  EndInv'
  <1>0. /\ req[p].op \in Callers /\ Live(man) /\ man \in ManifestRecord /\ req[p] \in Request
        /\ Become(p, AfterWrite(req[p])) /\ man' = Mutated(req[p], man)
    BY SentinelAssumption DEF UpdateWin, At, TypeInv, TypeOK, RequestOK, Live, Exists
  <1>1. \A q \in Procs : ~Finisher(req[q])
    BY <1>0 DEF EndInv
  <1>2. req'[p] = AfterWrite(req[p]) /\ \A q \in Procs : q # p => req'[q] = req[q]
    BY <1>0 DEF Become, TypeInv, TypeOK
  <1>3. CASE req[p].op \in Latchers
    <2>1. man' = Latched(man, req[p].t, req[p].removed)
      BY <1>0, <1>3 DEF Mutated, Latchers
    <2>2. ~Live(man') /\ man'.consumed_at = req[p].t
      BY <1>0, <2>1 DEF Latched, ManifestRecord, Live
    <2>3. AfterWrite(req[p]).at = req[p].t
      <3>1. AfterWrite(req[p]) =
              [[req[p] EXCEPT !.seen = NoManifest, !.tries = 0] EXCEPT !.pc = "release", !.at = req[p].t]
        BY <1>0, <1>3 DEF AfterWrite, Latchers, Request
      <3> QED
        BY <1>0, <3>1 DEF Request
    <2>4. \A q \in Procs : Finisher(req'[q]) => q = p
      BY <1>1, <1>2
    <2> QED
      BY <1>2, <2>2, <2>3, <2>4 DEF EndInv, Finisher, Live, Consumed
  <1>4. CASE req[p].op \notin Latchers
    <2>1. AfterWrite(req[p]).pc \in {"dock_read", "serve"}
      BY <1>0, <1>4 DEF AfterWrite, Callers, Latchers, Request
    <2>2. \A q \in Procs : ~Finisher(req'[q])
      BY <1>1, <1>2, <2>1 DEF Finisher
    <2> QED
      BY <2>2 DEF EndInv, Finisher
  <1> QED
    BY <1>3, <1>4

\* A finisher writes the date the others have too.
LEMMA RecordEnd ==
  ASSUME TypeInv, EndInv, NEW p \in Procs, PutTombstone(p) \/ RemoveManifest(p)
  PROVE  EndInv'
  <1>0. req[p] \in Request
    BY DEF TypeInv, TypeOK
  <1>1. CASE PutTombstone(p)
    <2>1. man' = Tombstone(req[p].at, req[p].removed) /\ Finisher(req[p])
      BY <1>1 DEF PutTombstone, At, Finisher
    <2>2. ~Live(man') /\ man'.consumed_at = req[p].at
      BY <2>1 DEF Tombstone, Live
    <2>3. req'[p].pc \in {"dock_mark", "dock_off"} /\ \A q \in Procs : q # p => req'[q] = req[q]
      BY <1>0, <1>1 DEF PutTombstone, AfterTombstone, Goto, Go, Become, TypeInv, TypeOK, Request
    <2>4. \A q \in Procs : Finisher(req'[q]) => q # p /\ req'[q] = req[q] /\ Finisher(req[q])
      BY <2>3 DEF Finisher
    <2> QED
      BY <2>1, <2>2, <2>4 DEF EndInv, Finisher
  <1>2. CASE RemoveManifest(p)
    <2>1. ~Live(man') /\ ~Consumed(man')
      BY <1>2 DEF RemoveManifest, Live, Consumed, Exists
    <2>2. req'[p].pc \in {"dock_off", "idle"} /\ \A q \in Procs : q # p => req'[q] = req[q]
      BY <1>0, <1>2 DEF RemoveManifest, Goto, Go, Done, Idle, Become, TypeInv, TypeOK, Request
    <2>3. \A q \in Procs : Finisher(req'[q]) => q # p /\ req'[q] = req[q] /\ Finisher(req[q])
      BY <2>2 DEF Finisher
    <2> QED
      BY <2>1, <2>3 DEF EndInv, Finisher
  <1> QED
    BY <1>1, <1>2

\* Of the handlers that start, only one that finds the transfer over is a
\* finisher, with the date it finds.
LEMMA StartEnd ==
  ASSUME TypeInv, EndInv, NEW p \in Reqs, Start(p)
  PROVE  EndInv'
  <1>0. p \in Procs /\ man' = man
    BY DEF Procs, Start, FinaliseStart, DownloadStart, DeleteStart, ConfirmStart, TakedownStart,
       OrphanList, record
  <1>1. ASSUME NEW gone, Exists(man), Begin(p, DestroyEntry(gone)) PROVE EndInv'
    <2> DEFINE r == [DestroyEntry(gone) EXCEPT !.t = now]
    <2>1. CASE man.consumed
      <3>1. r = [[NewReq("list", "destroy") EXCEPT !.at = man.consumed_at,
                    !.removed = gone \/ man.removed] EXCEPT !.t = now]
        BY <2>1 DEF DestroyEntry
      <3>2. r.at = man.consumed_at
        BY <3>1 DEF NewReq, Idle
      <3> QED
        BY <1>0, <1>1, <2>1, <3>2, FitsKeeps DEF Begin, Fits, Consumed
    <2>2. CASE ~man.consumed
      <3>1. r = [[NewReq("update_read", "destroy") EXCEPT !.removed = gone] EXCEPT !.t = now]
        BY <2>2 DEF DestroyEntry
      <3>2. r.pc = "update_read"
        BY <3>1 DEF NewReq, Idle
      <3> QED
        BY <1>0, <1>1, <3>2, FitsKeeps, OtherLabels DEF Begin
    <2> QED
      BY <2>1, <2>2
  <1>2. CASE DeleteStart(p) \/ TakedownStart(p)
    BY <1>1, <1>2 DEF DeleteStart, TakedownStart
  <1>3. CASE ConfirmStart(p)
    <2>1. [NewReq("update_read", "confirm") EXCEPT !.t = now].pc = "update_read"
      BY DEF NewReq, Idle
    <2> QED
      BY <1>0, <1>3, <2>1, FitsKeeps, OtherLabels DEF ConfirmStart, Begin
  <1>4. CASE OrphanList(p)
    <2> DEFINE n == [NewReq("orphan_read", "orphan") EXCEPT
                       !.keys = Stored, !.at = IF activity > written THEN activity ELSE written]
    <2>1. [n EXCEPT !.t = now].pc = "orphan_read"
      BY DEF NewReq, Idle
    <2> HIDE DEF n
    <2>2. Become(p, [n EXCEPT !.t = now])
      BY <1>4 DEF OrphanList, Begin, n
    <2> QED
      BY <1>0, <2>1, <2>2, FitsKeeps, OtherLabels
  <1>5. ASSUME NEW c \in ChunkIds, DownloadStart(p, c) PROVE EndInv'
    <2>1. PICK label \in {"update_read", "serve"} :
            Become(p, [[NewReq(label, "download") EXCEPT !.c = c, !.m = man] EXCEPT !.t = now])
      BY <1>5 DEF DownloadStart, Begin
    <2>2. [[NewReq(label, "download") EXCEPT !.c = c, !.m = man] EXCEPT !.t = now].pc = label
      BY DEF NewReq, Idle
    <2> QED
      BY <1>0, <2>1, <2>2, FitsKeeps, OtherLabels
  <1>6. ASSUME NEW b \in Bodies, NEW root \in Bodies, FinaliseStart(p, b, root) PROVE EndInv'
    <2> DEFINE r == [[NewReq("complete", "finalise") EXCEPT !.body = b, !.root = root] EXCEPT !.t = now]
    <2>1. r.pc = "complete"
      BY DEF NewReq, Idle
    <2>2. Become(p, r)
      BY <1>6 DEF FinaliseStart, Begin
    <2> HIDE DEF r
    <2> QED
      BY <1>0, <2>1, <2>2, FitsKeeps, OtherLabels
  <1> QED
    BY <1>2, <1>3, <1>4, <1>5, <1>6 DEF Start

\* updateManifest's other steps: a deletion that finds the transfer over takes its date.
LEMMA UpdateEnd ==
  ASSUME TypeInv, EndInv, NEW p \in Procs, UpdateRead(p) \/ UpdateLose(p)
  PROVE  EndInv'
  <1>0. req[p] \in Request /\ RequestOK(req[p]) /\ man' = man
    BY DEF TypeInv, TypeOK, UpdateRead, UpdateLose, record
  <1>1. CASE UpdateLose(p)
    <2>1. /\ [req[p] EXCEPT !.pc = "update_read", !.seen = NoManifest, !.tries = @ + 1].pc = "update_read"
          /\ AfterContention(req[p]).pc \in {"serve", "idle"}
      BY <1>0 DEF AfterContention, Go, Idle, Request
    <2> QED
      BY <1>0, <1>1, <2>1, FitsKeeps, OtherLabels DEF UpdateLose
  <1>2. CASE UpdateRead(p)
    <2>1. CASE ~Exists(man)
      BY <1>0, <1>2, <2>1, FitsKeeps, OtherLabels DEF UpdateRead, Idle
    <2>2. CASE Exists(man) /\ ~Declines(req[p], man)
      <3>1. [req[p] EXCEPT !.pc = "update_put", !.seen = man].pc = "update_put"
        BY <1>0 DEF Request
      <3> QED
        BY <1>0, <1>2, <2>2, <3>1, FitsKeeps, OtherLabels DEF UpdateRead
    <2>3. CASE Exists(man) /\ Declines(req[p], man)
      <3>1. Become(p, AfterDecline(req[p], man))
        BY <1>2, <2>3 DEF UpdateRead
      <3>2. CASE req[p].op = "destroy"
        <4>1. Consumed(man)
          BY <2>3, <3>2 DEF Declines, Consumed
        <4>2. AfterDecline(req[p], man) =
                [req[p] EXCEPT !.pc = "list", !.at = man.consumed_at, !.removed = @ \/ man.removed, !.tries = 0]
          BY <3>2 DEF AfterDecline
        <4>3. AfterDecline(req[p], man).at = man.consumed_at
          BY <1>0, <4>2 DEF Request
        <4> QED
          BY <1>0, <3>1, <4>1, <4>3, FitsKeeps DEF Fits
      <3>3. CASE req[p].op # "destroy"
        <4>1. AfterDecline(req[p], man).pc \in {"serve", "dock_off", "idle"}
          BY <1>0, <3>3 DEF AfterDecline, Go, Idle, Request
        <4> QED
          BY <1>0, <3>1, <4>1, FitsKeeps, OtherLabels
      <3> QED
        BY <3>2, <3>3
    <2> QED
      BY <2>1, <2>2, <2>3
  <1> QED
    BY <1>1, <1>2

\* A finisher that goes on keeps its date.
LEMMA DeletionEnd ==
  ASSUME TypeInv, EndInv, NEW p \in Procs,
         Release(p) \/ List(p) \/ DeleteGroup(p) \/ DeletePart(p)
  PROVE  EndInv'
  <1>0. req[p] \in Request /\ RequestOK(req[p]) /\ man' = man
    BY DEF TypeInv, TypeOK, Release, List, DeleteGroup, DeletePart, record
  <1>1. Fits(p, Idle)
    BY DEF Fits, Finisher, Idle
  <1>2. CASE Release(p)
    <2>1. Finisher(req[p])
      BY <1>2 DEF Release, At, Finisher
    <2>2. /\ Go(req[p], "delete").at = req[p].at
          /\ [req[p] EXCEPT !.pc = "list", !.op = "destroy"].at = req[p].at
      BY <1>0 DEF Go, Request
    <2> QED
      BY <1>0, <1>2, <2>1, <2>2, FitsKeeps DEF Release, Fits
  <1>3. CASE List(p)
    <2>1. Finisher(req[p])
      BY <1>3 DEF List, At, Finisher
    <2>2. [req[p] EXCEPT !.pc = "delete", !.keys = Stored].at = req[p].at
      BY <1>0 DEF Request
    <2> QED
      BY <1>0, <1>3, <2>1, <2>2, FitsKeeps DEF List, Fits
  <1>4. CASE DeleteGroup(p)
    <2> DEFINE g == Group(req[p])
               all == [req[p] EXCEPT !.pc = AfterDelete(req[p]), !.keys = {}]
               some == [req[p] EXCEPT !.keys = @ \ g]
    <2>1. /\ req[p].pc = "delete"
          /\ req[p].op \in {"destroy", "purge", "residue", "orphan_residue", "stale"}
      BY <1>0, <1>4 DEF DeleteGroup, At, RequestOK
    <2>2. /\ AfterDelete(req[p]) \in {"tombstone", "dock_off", "remove"}
          /\ AfterDelete(req[p]) = "tombstone" => req[p].op \in {"destroy", "purge", "residue"}
      BY <2>1 DEF AfterDelete
    <2>3. /\ all.pc = AfterDelete(req[p]) /\ all.at = req[p].at
          /\ some.pc = "delete" /\ some.op = req[p].op /\ some.at = req[p].at
      BY <1>0, <2>1 DEF Request
    <2>4. Fits(p, all) /\ Fits(p, some)
      <3> HIDE DEF all, some
      <3> QED
        BY <2>1, <2>2, <2>3 DEF Fits, Finisher
    <2>5. Become(p, all) \/ Become(p, some)
      BY <1>4 DEF DeleteGroup
    <2> QED
      BY <1>0, <2>4, <2>5, FitsKeeps
  <1>5. CASE DeletePart(p)
    <2> DEFINE r == [req[p] EXCEPT !.pc = "tombstone", !.keys = {}]
    <2>1. req[p].op = "purge" => Finisher(req[p])
      BY <1>5 DEF DeletePart, At, Finisher
    <2>2. r.at = req[p].at
      BY <1>0 DEF Request
    <2>3. req[p].op = "purge" => Fits(p, r)
      BY <2>1, <2>2 DEF Fits
    <2>4. (req[p].op = "purge" /\ Become(p, r)) \/ Become(p, Idle)
      BY <1>5 DEF DeletePart
    <2> QED
      BY <1>0, <1>1, <2>3, <2>4, FitsKeeps
  <1> QED
    BY <1>2, <1>3, <1>4, <1>5

\* The nightly residue step takes the date of the record it reads; the other
\* decisions of the sweeps make no finisher.
LEMMA SweepEnd ==
  ASSUME TypeInv, EndInv, NEW p \in Procs, OrphanRead(p) \/ (p = Cron /\ (NightlyList \/ NightlyRead))
  PROVE  EndInv'
  <1>0. req[p] \in Request /\ man' = man
    BY DEF TypeInv, TypeOK, OrphanRead, NightlyList, NightlyRead, record
  <1>1. Fits(p, Idle) /\ Fits(p, [req[p] EXCEPT !.pc = "update_read", !.op = "purge"])
    BY <1>0 DEF Fits, Finisher, Idle, Request
  <1>2. CASE OrphanRead(p)
    <2>1. /\ Fits(p, [req[p] EXCEPT !.pc = "delete", !.op = "orphan_residue"])
          /\ Fits(p, [req[p] EXCEPT !.pc = "delete", !.op = "stale"])
      BY <1>0 DEF Fits, Finisher, Request
    <2>2. Fits(p, OrphanPlan(req[p]))
      BY <1>1, <2>1 DEF OrphanPlan
    <2> QED
      BY <1>0, <1>2, <2>2, FitsKeeps DEF OrphanRead
  <1>3. CASE p = Cron /\ NightlyRead
    <2> DEFINE r == [req[p] EXCEPT !.pc = "delete", !.op = "residue", !.m = man,
                       !.at = man.consumed_at, !.removed = man.removed]
    <2>1. r.at = man.consumed_at
      BY <1>0 DEF Request
    <2>2. Exists(man) /\ man.consumed => Fits(p, r)
      BY <2>1 DEF Fits, Consumed
    <2>3. Fits(p, [req[p] EXCEPT !.pc = "remove", !.op = "forget"])
      BY <1>0 DEF Fits, Finisher, Request
    <2>4. Fits(p, NightlyPlan(req[p]))
      BY <1>1, <2>2, <2>3 DEF NightlyPlan
    <2> QED
      BY <1>0, <1>3, <2>4, FitsKeeps DEF NightlyRead
  <1>4. CASE p = Cron /\ NightlyList
    <2> DEFINE r == [[NewReq("nightly_read", "nightly") EXCEPT !.keys = Stored] EXCEPT !.t = now]
    <2>1. r.pc = "nightly_read"
      BY DEF NewReq, Idle
    <2>2. Become(p, r)
      BY <1>4 DEF NightlyList, Begin
    <2> HIDE DEF r
    <2> QED
      BY <1>0, <2>1, <2>2, FitsKeeps, OtherLabels
  <1> QED
    BY <1>2, <1>3, <1>4

\* The remaining steps of a handler make no finisher.
LEMMA OtherEnd ==
  ASSUME TypeInv, EndInv, NEW p \in Procs,
         \/ FinaliseList(p) \/ FinaliseDeleteWrong(p) \/ FinaliseSidecar(p)
         \/ FinaliseDockRead(p) \/ FinaliseDockPut(p) \/ DownloadServe(p)
         \/ PutTombstoneFails(p) \/ DockOff(p) \/ DockMark(p) \/ Crash(p)
  PROVE  EndInv'
  <1>0. req[p] \in Request /\ man' = man
    BY DEF TypeInv, TypeOK, FinaliseList, FinaliseDeleteWrong, FinaliseSidecar, FinaliseDockRead,
       FinaliseDockPut, DownloadServe, PutTombstoneFails, DockOff, DockMark, Crash, record
  <1>1. Idle.pc = "idle" /\ \A label : Go(req[p], label).pc = label
    BY <1>0 DEF Idle, Go, Request
  <1>2. \A r : Become(p, r) /\ r.pc \notin {"release", "list", "tombstone", "delete"} => EndInv'
    BY <1>0, FitsKeeps, OtherLabels
  <1>3. CASE FinaliseSidecar(p)
    <2>1. [req[p] EXCEPT !.pc = "update_read", !.body = NoBody].pc = "update_read"
      BY <1>0 DEF Request
    <2> QED
      BY <1>2, <1>3, <2>1 DEF FinaliseSidecar
  <1>4. CASE FinaliseList(p)
    <2> DEFINE bad == {c \in ChunkIds : chunk[c] = "bad"}
               r == [req[p] EXCEPT !.pc = "wrong_size", !.keys = bad]
    <2>1. r.pc = "wrong_size"
      BY <1>0 DEF Request
    <2>2. Become(p, Idle) \/ Become(p, r) \/ Become(p, Go(req[p], "sidecar"))
      BY <1>4 DEF FinaliseList
    <2> HIDE DEF r
    <2> QED
      BY <1>1, <1>2, <2>1, <2>2
  <1>5. CASE FinaliseDeleteWrong(p) \/ FinaliseDockPut(p) \/ DockOff(p) \/ DockMark(p) \/ Crash(p)
    BY <1>0, <1>1, <1>5, FitsKeeps, OtherLabels
       DEF FinaliseDeleteWrong, FinaliseDockPut, DockOff, DockMark, Crash, Done
  <1>6. CASE DownloadServe(p)
    <2>1. [NewReq("update_read", "destroy") EXCEPT !.t = now].pc = "update_read"
      BY DEF NewReq, Idle
    <2> QED
      BY <1>0, <1>1, <1>6, <2>1, FitsKeeps, OtherLabels DEF DownloadServe, Done, Begin
  <1>7. CASE FinaliseDockRead(p) \/ PutTombstoneFails(p)
    BY <1>0, <1>1, <1>7, FitsKeeps, OtherLabels
       DEF FinaliseDockRead, PutTombstoneFails, AfterTombstone, Goto
  <1> QED
    BY <1>5, <1>6, <1>7, <1>3, <1>4

-----------------------------------------------------------------------------
(* The specification                                                        *)

\* Initially there is no finisher.
LEMMA InitEnd == Init => EndInv
  BY DEF Init, EndInv, Finisher, Idle

\* Together with the type invariant, the agreement of dates is inductive.
LEMMA StepEnd == TypeInv /\ EndInv /\ [Next]_vars => EndInv'
  <1> SUFFICES ASSUME TypeInv, EndInv, [Next]_vars PROVE EndInv'
    OBVIOUS
  <1>1. ASSUME NEW p \in Procs, Handle(p) PROVE EndInv'
    BY <1>1, WinEnd, RecordEnd, UpdateEnd, DeletionEnd, SweepEnd, OtherEnd DEF Handle
  <1>2. CASE \/ \E c \in ChunkIds, size \in Sizes : PutChunk(c, size)
             \/ Tick \/ UNCHANGED vars
    <2>1. UNCHANGED <<man, req>>
      BY <1>2 DEF PutChunk, Tick, vars, record
    <2> QED
      BY <2>1 DEF EndInv, Finisher, Live, Consumed, Exists
  <1> QED
    BY <1>1, <1>2, StartEnd, SweepEnd, OtherEnd DEF Next, Nightly, Procs

\* A step that writes a consumed manifest again leaves its date.
LEMMA DateStep ==
  TypeInv /\ EndInv /\ [Next]_vars =>
    [Consumed(man) /\ Consumed(man') => man'.consumed_at = man.consumed_at]_vars
  <1> SUFFICES ASSUME TypeInv, EndInv, [Next]_vars, Consumed(man), Consumed(man')
               PROVE  man'.consumed_at = man.consumed_at
    OBVIOUS
  <1>1. CASE man' = man
    BY <1>1
  <1>2. ASSUME NEW p \in Procs, UpdateWin(p) PROVE FALSE
    BY <1>2, SentinelAssumption DEF UpdateWin, At, TypeInv, RequestOK, Consumed
  <1>3. ASSUME NEW p \in Procs, PutTombstone(p) PROVE man'.consumed_at = man.consumed_at
    <2>1. man'.consumed_at = req[p].at /\ Finisher(req[p])
      BY <1>3 DEF PutTombstone, Tombstone, At, Finisher
    <2> QED
      BY <2>1 DEF EndInv
  <1>4. ASSUME NEW p \in Procs, RemoveManifest(p) PROVE FALSE
    BY <1>4 DEF RemoveManifest, Consumed, Exists
  <1>5. \/ man' = man
        \/ \E p \in Procs : UpdateWin(p) \/ PutTombstone(p) \/ RemoveManifest(p)
    BY DEF Next, Nightly, Procs, Handle, Start, NightlyList, NightlyRead, Crash, UpdateRead, UpdateLose,
       Release, PutChunk, Tick, vars,
       FinaliseStart, FinaliseList, FinaliseDeleteWrong, FinaliseSidecar, FinaliseDockRead,
       FinaliseDockPut, DownloadStart, DownloadServe, DeleteStart, ConfirmStart, TakedownStart,
       List, DeleteGroup, DeletePart, PutTombstoneFails, DockOff, DockMark, OrphanList,
       OrphanRead, record
  <1> QED
    BY <1>1, <1>2, <1>3, <1>4, <1>5

\* The date a transfer ended is the date its latch wrote: no deletion that resumes
\* or races, and no sweep that finishes one, dates it anew.
THEOREM EndDateKept == Spec => EndDateFixed
  <1>1. Spec => []TypeInv
    BY InitType, TypeStep, PTL DEF Spec
  <1>2. Spec => []EndInv
    BY <1>1, InitEnd, StepEnd, PTL DEF Spec
  <1> QED
    BY <1>1, <1>2, DateStep, PTL DEF Spec, EndDateFixed

-----------------------------------------------------------------------------
(* Requests and sweeps implement the lifecycle they promise, for every      *)
(* value of the constants.                                                  *)

CompleteLive(m) == Live(m) /\ m.upload_complete

\* Labels of purpose that matter here: who may complete, and who may remove.
Marked == {"finalise", "stale", "forget"}

\* A handler is at most one unit old.  A finalise began while the session lived;
\* a stale upload's removal began after that, and what it removes, or what the
\* nightly sweep forgets, is not a finalised live transfer.
Guarded(r) ==
  /\ r.pc # "idle" => r.t <= now /\ now <= r.t + 1
  /\ r.pc # "idle" /\ r.op = "finalise" => r.t < SessionExp
  /\ r.pc # "idle" /\ r.op = "stale" => r.t > StaleAfter /\ ~CompleteLive(man)
  /\ r.pc # "idle" /\ r.op = "forget" => ~Live(man)
  /\ r.pc = "remove" => r.op \in {"stale", "forget"}

LifeInv ==
  /\ Live(man) => man.total_chunks
  /\ \A p \in Procs : Guarded(req[p])

\* A session, and any finalise begun in it, ends before an upload is stale.
LEMMA SessionBeforeStale ==
  ASSUME TypeInv, NEW p \in Procs, Guarded(req[p]), req[p].pc # "idle", req[p].op = "finalise"
  PROVE  now < StaleAfter
  <1>1. SessionExp \in Nat /\ SessionExp <= SessionLife /\ SessionLife \in Nat
    BY TimesAssumption DEF SessionExp
  <1>2. req[p].t \in Nat /\ now \in Nat
    BY DEF TypeInv, TypeOK, Request, Time
  <1> QED
    BY <1>1, <1>2, TimesAssumption DEF Guarded

\* A step that leaves manifest and clock alone and makes its handler a guarded one.
LEMMA GuardKeeps ==
  ASSUME TypeInv, LifeInv, NEW p \in Procs, man' = man, now' = now
  PROVE  \A r : Become(p, r) /\ Guarded(r) => LifeInv'
  <1> SUFFICES ASSUME NEW r, Become(p, r), Guarded(r) PROVE LifeInv'
    OBVIOUS
  <1>1. req'[p] = r /\ \A q \in Procs : q # p => req'[q] = req[q]
    BY DEF Become, TypeInv, TypeOK
  <1>2. \A q \in Procs : Guarded(req'[q])
    BY <1>1 DEF LifeInv
  <1> QED
    BY <1>2 DEF LifeInv, Guarded

\* A handler that goes on for the same purpose, or for one that is not marked,
\* stays guarded; so does one that stops.
LEMMA GoesOn ==
  ASSUME TypeInv, LifeInv, NEW p \in Procs
  PROVE  /\ \A r : r.pc = "idle" => Guarded(r)
         /\ \A r : /\ req[p].pc # "idle" /\ r.pc # "remove" /\ r.t = req[p].t
                   /\ r.op = req[p].op \/ r.op \notin Marked
                   => Guarded(r)
  BY DEF LifeInv, Guarded, Marked

\* A handler that starts now, for an unmarked purpose, is guarded.
LEMMA StartsGuarded ==
  ASSUME TypeInv
  PROVE  \A r : r.pc # "remove" /\ r.t = now /\ r.op \notin Marked => Guarded(r)
  BY DEF Guarded, Marked, TypeInv, TypeOK, Time

\* The conditional put: while a finalise can complete the transfer nobody is
\* removing it as stale.
LEMMA WinLife ==
  ASSUME TypeInv, LifeInv, NEW p \in Procs, UpdateWin(p)
  PROVE  LifeInv'
  <1>0. /\ req[p].op \in Callers /\ Live(man) /\ man \in ManifestRecord /\ req[p] \in Request
        /\ Become(p, AfterWrite(req[p])) /\ man' = Mutated(req[p], man) /\ now' = now
        /\ req[p].pc = "update_put"
    BY SentinelAssumption DEF UpdateWin, At, TypeInv, TypeOK, RequestOK, Live, Exists, clock
  <1>1. req'[p] = AfterWrite(req[p]) /\ \A q \in Procs : q # p => req'[q] = req[q]
    BY <1>0 DEF Become, TypeInv, TypeOK
  <1>2. Guarded(AfterWrite(req[p])) /\ AfterWrite(req[p]).op \in Callers /\ AfterWrite(req[p]).pc # "idle"
    <2>1. /\ AfterWrite(req[p]).t = req[p].t /\ AfterWrite(req[p]).op = req[p].op
          /\ AfterWrite(req[p]).pc \in {"dock_read", "serve", "release"}
      BY <1>0 DEF AfterWrite, Callers, Latchers, Request
    <2> QED
      BY <1>0, <2>1, GoesOn
  <1>3. \A q \in Procs : Guarded(req'[q])
    BY <1>1, <1>2 DEF LifeInv
  <1>4. man.total_chunks /\ \A q \in Procs : ~(req[q].pc # "idle" /\ req[q].op = "forget")
    BY <1>0 DEF LifeInv, Guarded
  <1>5. man'.total_chunks /\ (CompleteLive(man') => CompleteLive(man) \/ req[p].op = "finalise")
    BY <1>0, <1>4 DEF Mutated, Callers, Latchers, Completed, Stamped, Latched, ManifestRecord,
       CompleteLive, Live, Exists
  <1>6. req[p].op = "finalise" => \A q \in Procs : ~(req[q].pc # "idle" /\ req[q].op = "stale")
    <2> SUFFICES ASSUME req[p].op = "finalise", NEW q \in Procs, req[q].pc # "idle", req[q].op = "stale"
                 PROVE  FALSE
      OBVIOUS
    <2>1. now < StaleAfter
      BY <1>0, SessionBeforeStale DEF LifeInv
    <2>2. req[q].t > StaleAfter /\ req[q].t <= now
      BY DEF LifeInv, Guarded
    <2>3. req[q].t \in Nat /\ now \in Nat
      BY DEF TypeInv, TypeOK, Request, Time
    <2> QED
      BY <2>1, <2>2, <2>3, TimesAssumption
  <1>7. \A q \in Procs : req'[q].pc # "idle" /\ req'[q].op \in {"stale", "forget"} =>
          req'[q].op = "stale" /\ ~CompleteLive(man')
    <2> SUFFICES ASSUME NEW q \in Procs, req'[q].pc # "idle", req'[q].op \in {"stale", "forget"}
                 PROVE  req'[q].op = "stale" /\ ~CompleteLive(man')
      OBVIOUS
    <2>1. q # p
      BY <1>1, <1>2 DEF Callers
    <2>2. req[q].op = "stale" /\ req'[q] = req[q] /\ ~CompleteLive(man)
      BY <1>1, <1>4, <2>1 DEF LifeInv, Guarded
    <2> QED
      BY <1>5, <1>6, <2>2
  <1>8. \A q \in Procs : Guarded(req[q])'
    BY <1>0, <1>3, <1>7 DEF Guarded
  <1> QED
    BY <1>5, <1>8 DEF LifeInv

\* A manifest that is written or removed last is not live.
LEMMA RecordLife ==
  ASSUME TypeInv, LifeInv, NEW p \in Procs, PutTombstone(p) \/ RemoveManifest(p)
  PROVE  LifeInv'
  <1>0. req[p] \in Request /\ req[p].pc \in {"tombstone", "remove"}
    BY DEF TypeInv, TypeOK, PutTombstone, RemoveManifest, At
  <1>1. ~Live(man') /\ now' = now
    BY DEF PutTombstone, RemoveManifest, Tombstone, Live, Exists, clock
  <1>2. \A label : Go(req[p], label).pc = label /\ Go(req[p], label).t = req[p].t
                   /\ Go(req[p], label).op = req[p].op
    BY <1>0 DEF Go, Request
  <1>3. Idle.pc = "idle"
    BY DEF Idle
  <1>4. PICK r : Become(p, r) /\ r \in {Idle, Go(req[p], "dock_off"), Go(req[p], "dock_mark")}
    BY DEF PutTombstone, RemoveManifest, AfterTombstone, Goto, Done
  <1>5. Guarded(r)
    BY <1>0, <1>2, <1>3, <1>4, GoesOn
  <1>6. req'[p] = r /\ \A q \in Procs : q # p => req'[q] = req[q]
    BY <1>4 DEF Become, TypeInv, TypeOK
  <1>7. \A q \in Procs : Guarded(req'[q])
    BY <1>5, <1>6 DEF LifeInv
  <1> QED
    BY <1>1, <1>7 DEF LifeInv, Guarded, CompleteLive

\* A finalise starts only while the session is valid; no other request starts
\* for a purpose that is marked.
LEMMA StartLife ==
  ASSUME TypeInv, LifeInv, NEW p \in Reqs, Start(p)
  PROVE  LifeInv'
  <1>0. p \in Procs /\ man' = man /\ now' = now
    BY DEF Procs, Start, FinaliseStart, DownloadStart, DeleteStart, ConfirmStart, TakedownStart,
       OrphanList, record, clock
  <1>1. ASSUME NEW r, Become(p, r), r.pc # "remove", r.t = now, r.op \notin Marked
        PROVE  LifeInv'
    BY <1>0, <1>1, GuardKeeps, StartsGuarded
  <1>2. ASSUME NEW gone, Exists(man), Begin(p, DestroyEntry(gone)) PROVE LifeInv'
    <2> DEFINE r == [DestroyEntry(gone) EXCEPT !.t = now]
    <2>1. CASE man.consumed
      <3>1. r = [[NewReq("list", "destroy") EXCEPT !.at = man.consumed_at,
                    !.removed = gone \/ man.removed] EXCEPT !.t = now]
        BY <2>1 DEF DestroyEntry
      <3>2. r.pc = "list" /\ r.op = "destroy" /\ r.t = now
        BY <3>1 DEF NewReq, Idle
      <3> QED
        BY <1>1, <1>2, <3>2 DEF Begin, Marked
    <2>2. CASE ~man.consumed
      <3>1. r = [[NewReq("update_read", "destroy") EXCEPT !.removed = gone] EXCEPT !.t = now]
        BY <2>2 DEF DestroyEntry
      <3>2. r.pc = "update_read" /\ r.op = "destroy" /\ r.t = now
        BY <3>1 DEF NewReq, Idle
      <3> QED
        BY <1>1, <1>2, <3>2 DEF Begin, Marked
    <2> QED
      BY <2>1, <2>2
  <1>3. CASE DeleteStart(p) \/ TakedownStart(p)
    BY <1>2, <1>3 DEF DeleteStart, TakedownStart
  <1>4. CASE ConfirmStart(p)
    <2> DEFINE r == [NewReq("update_read", "confirm") EXCEPT !.t = now]
    <2>1. r.pc = "update_read" /\ r.op = "confirm" /\ r.t = now
      BY DEF NewReq, Idle
    <2>2. Become(p, r)
      BY <1>4 DEF ConfirmStart, Begin
    <2> QED
      BY <1>1, <2>1, <2>2 DEF Marked
  <1>5. CASE OrphanList(p)
    <2> DEFINE n == [NewReq("orphan_read", "orphan") EXCEPT
                       !.keys = Stored, !.at = IF activity > written THEN activity ELSE written]
               r == [n EXCEPT !.t = now]
    <2>1. r.pc = "orphan_read" /\ r.op = "orphan" /\ r.t = now
      BY DEF NewReq, Idle
    <2>2. Become(p, r)
      BY <1>5 DEF OrphanList, Begin
    <2> HIDE DEF r
    <2> QED
      BY <1>1, <2>1, <2>2 DEF Marked
  <1>6. ASSUME NEW c \in ChunkIds, DownloadStart(p, c) PROVE LifeInv'
    <2>1. PICK label \in {"update_read", "serve"} :
            Become(p, [[NewReq(label, "download") EXCEPT !.c = c, !.m = man] EXCEPT !.t = now])
      BY <1>6 DEF DownloadStart, Begin
    <2> DEFINE r == [[NewReq(label, "download") EXCEPT !.c = c, !.m = man] EXCEPT !.t = now]
    <2>2. r.pc = label /\ r.op = "download" /\ r.t = now
      BY DEF NewReq, Idle
    <2> HIDE DEF r
    <2> QED
      BY <1>1, <2>1, <2>2 DEF Marked, r
  <1>7. ASSUME NEW b \in Bodies, NEW root \in Bodies, FinaliseStart(p, b, root) PROVE LifeInv'
    <2> DEFINE r == [[NewReq("complete", "finalise") EXCEPT !.body = b, !.root = root] EXCEPT !.t = now]
    <2>1. r.pc = "complete" /\ r.op = "finalise" /\ r.t = now
      BY DEF NewReq, Idle
    <2>2. Become(p, r) /\ now < SessionExp
      BY <1>7 DEF FinaliseStart, Begin, SessionValid
    <2>3. now \in Nat
      BY DEF TypeInv, TypeOK, Time
    <2> HIDE DEF r
    <2>4. Guarded(r)
      BY <2>1, <2>2, <2>3 DEF Guarded
    <2> QED
      BY <1>0, <2>2, <2>4, GuardKeeps
  <1> QED
    BY <1>3, <1>4, <1>5, <1>6, <1>7 DEF Start

\* updateManifest's other steps go on for the same purpose, or stop.
LEMMA UpdateLife ==
  ASSUME TypeInv, LifeInv, NEW p \in Procs, UpdateRead(p) \/ UpdateLose(p)
  PROVE  LifeInv'
  <1>0. /\ req[p] \in Request /\ RequestOK(req[p]) /\ man' = man /\ now' = now
        /\ req[p].pc \in {"update_read", "update_put"} /\ Idle.pc = "idle"
    BY DEF TypeInv, TypeOK, UpdateRead, UpdateLose, record, clock, At, Idle
  <1>1. ASSUME NEW r, Become(p, r), r.pc # "remove", r.t = req[p].t, r.op = req[p].op
        PROVE  LifeInv'
    BY <1>0, <1>1, GuardKeeps, GoesOn
  <1>2. ASSUME Become(p, Idle) PROVE LifeInv'
    BY <1>0, <1>2, GuardKeeps, GoesOn
  <1>3. /\ Go(req[p], "serve").pc = "serve" /\ Go(req[p], "dock_off").pc = "dock_off"
        /\ \A label : Go(req[p], label).t = req[p].t /\ Go(req[p], label).op = req[p].op
    BY <1>0 DEF Go, Request
  <1>4. CASE UpdateLose(p)
    <2> DEFINE again == [req[p] EXCEPT !.pc = "update_read", !.seen = NoManifest, !.tries = @ + 1]
    <2>1. again.pc = "update_read" /\ again.t = req[p].t /\ again.op = req[p].op
      BY <1>0 DEF Request
    <2>2. \/ Become(p, again) \/ Become(p, Idle) \/ Become(p, Go(req[p], "serve"))
      BY <1>4 DEF UpdateLose, AfterContention
    <2> HIDE DEF again
    <2> QED
      BY <1>1, <1>2, <1>3, <2>1, <2>2
  <1>5. CASE UpdateRead(p)
    <2> DEFINE put == [req[p] EXCEPT !.pc = "update_put", !.seen = man]
               list == [req[p] EXCEPT !.pc = "list", !.at = man.consumed_at,
                                      !.removed = @ \/ man.removed, !.tries = 0]
    <2>1. /\ put.pc = "update_put" /\ put.t = req[p].t /\ put.op = req[p].op
          /\ list.pc = "list" /\ list.t = req[p].t /\ list.op = req[p].op
      BY <1>0 DEF Request
    <2>2. AfterDecline(req[p], man) \in {Idle, list, Go(req[p], "serve"), Go(req[p], "dock_off")}
      BY DEF AfterDecline
    <2>3. \/ Become(p, put) \/ Become(p, list) \/ Become(p, Idle)
          \/ Become(p, Go(req[p], "serve")) \/ Become(p, Go(req[p], "dock_off"))
      <3> HIDE DEF list
      <3> QED
        BY <1>5, <2>2 DEF UpdateRead
    <2> HIDE DEF put, list
    <2> QED
      BY <1>1, <1>2, <1>3, <2>1, <2>3
  <1> QED
    BY <1>4, <1>5

\* A deletion goes on for its purpose; only that of a stale upload comes to
\* removing the manifest.
LEMMA DeletionLife ==
  ASSUME TypeInv, LifeInv, NEW p \in Procs,
         Release(p) \/ List(p) \/ DeleteGroup(p) \/ DeletePart(p)
  PROVE  LifeInv'
  <1>0. /\ req[p] \in Request /\ RequestOK(req[p]) /\ man' = man /\ now' = now
        /\ req[p].pc \in {"release", "list", "delete"} /\ Idle.pc = "idle" /\ Guarded(req[p])
    BY DEF TypeInv, TypeOK, Release, List, DeleteGroup, DeletePart, record, clock, At, Idle, LifeInv
  <1>1. ASSUME NEW r, Become(p, r), r.pc # "remove", r.t = req[p].t,
               r.op = req[p].op \/ r.op \notin Marked
        PROVE  LifeInv'
    BY <1>0, <1>1, GuardKeeps, GoesOn
  <1>2. ASSUME Become(p, Idle) PROVE LifeInv'
    BY <1>0, <1>2, GuardKeeps, GoesOn
  <1>3. CASE Release(p)
    <2> DEFINE list == [req[p] EXCEPT !.pc = "list", !.op = "destroy"]
               del == Go(req[p], "delete")
    <2>1. /\ list.pc = "list" /\ list.t = req[p].t /\ list.op = "destroy"
          /\ del.pc = "delete" /\ del.t = req[p].t /\ del.op = req[p].op
      BY <1>0 DEF Go, Request
    <2>2. Become(p, list) \/ Become(p, del)
      BY <1>3 DEF Release
    <2> HIDE DEF list, del
    <2> QED
      BY <1>1, <2>1, <2>2 DEF Marked
  <1>4. CASE List(p)
    <2> DEFINE r == [req[p] EXCEPT !.pc = "delete", !.keys = Stored]
    <2>1. r.pc = "delete" /\ r.t = req[p].t /\ r.op = req[p].op
      BY <1>0 DEF Request
    <2>2. Become(p, r)
      BY <1>4 DEF List
    <2> HIDE DEF r
    <2> QED
      BY <1>1, <2>1, <2>2
  <1>5. CASE DeleteGroup(p)
    <2> DEFINE g == Group(req[p])
               all == [req[p] EXCEPT !.pc = AfterDelete(req[p]), !.keys = {}]
               some == [req[p] EXCEPT !.keys = @ \ g]
    <2>1. /\ req[p].pc = "delete"
          /\ req[p].op \in {"destroy", "purge", "residue", "orphan_residue", "stale"}
      BY <1>0, <1>5 DEF DeleteGroup, At, RequestOK
    <2>2. AfterDelete(req[p]) = "remove" => req[p].op = "stale"
      BY <2>1 DEF AfterDelete
    <2>3. /\ all.pc = AfterDelete(req[p]) /\ all.t = req[p].t /\ all.op = req[p].op
          /\ some.pc = "delete" /\ some.t = req[p].t /\ some.op = req[p].op
      BY <1>0, <2>1 DEF Request
    <2>4. Become(p, all) \/ Become(p, some)
      BY <1>5 DEF DeleteGroup
    <2> HIDE DEF all, some
    <2>5. Guarded(all)
      BY <1>0, <2>1, <2>2, <2>3 DEF Guarded
    <2> QED
      BY <1>0, <1>1, <2>3, <2>4, <2>5, GuardKeeps
  <1>6. CASE DeletePart(p)
    <2> DEFINE r == [req[p] EXCEPT !.pc = "tombstone", !.keys = {}]
    <2>1. r.pc = "tombstone" /\ r.t = req[p].t /\ r.op = req[p].op
      BY <1>0 DEF Request
    <2>2. /\ now' = now /\ (Become(p, r) \/ Become(p, Idle))
      BY <1>6 DEF DeletePart
    <2> HIDE DEF r
    <2> QED
      BY <1>1, <1>2, <2>1, <2>2
  <1> QED
    BY <1>3, <1>4, <1>5, <1>6

\* The sweeps decide on the manifest they have just read: what they take for
\* stale was never finalised, and what the nightly sweep forgets is over.
LEMMA SweepLife ==
  ASSUME TypeInv, LifeInv, NEW p \in Procs, OrphanRead(p) \/ (p = Cron /\ (NightlyList \/ NightlyRead))
  PROVE  LifeInv'
  <1>0. req[p] \in Request /\ man' = man /\ now' = now /\ Guarded(req[p]) /\ now \in Nat
    BY DEF TypeInv, TypeOK, OrphanRead, NightlyList, NightlyRead, record, clock, LifeInv, Time
  <1>1. Guarded(Idle)
    BY DEF Guarded, Idle
  <1>2. CASE OrphanRead(p)
    <2> DEFINE purge == [req[p] EXCEPT !.pc = "update_read", !.op = "purge"]
               residue == [req[p] EXCEPT !.pc = "delete", !.op = "orphan_residue"]
               stale == [req[p] EXCEPT !.pc = "delete", !.op = "stale"]
    <2>1. req[p].pc # "idle"
      BY <1>2 DEF OrphanRead, At
    <2>2. /\ purge.pc = "update_read" /\ purge.t = req[p].t /\ purge.op = "purge"
          /\ residue.pc = "delete" /\ residue.t = req[p].t /\ residue.op = "orphan_residue"
          /\ stale.pc = "delete" /\ stale.t = req[p].t /\ stale.op = "stale"
      BY <1>0 DEF Request
    <2>3. \/ Become(p, Idle) \/ Become(p, purge) \/ Become(p, residue)
          \/ Become(p, stale) /\ ~man.upload_complete /\ IsStale(req[p].at, req[p].t)
      BY <1>2 DEF OrphanRead, OrphanPlan
    <2> HIDE DEF purge, residue, stale
    <2>4. Guarded(purge) /\ Guarded(residue)
      BY <1>0, <2>1, <2>2, GoesOn DEF Marked
    <2>5. IsStale(req[p].at, req[p].t) => req[p].t > StaleAfter
      <3>1. req[p].t \in Nat
        BY <1>0 DEF Request, Time
      <3> QED
        BY <3>1, TimesAssumption DEF IsStale
    <2>6. ~man.upload_complete /\ IsStale(req[p].at, req[p].t) => Guarded(stale)
      BY <1>0, <2>1, <2>2, <2>5 DEF Guarded, CompleteLive
    <2> QED
      BY <1>0, <1>1, <2>3, <2>4, <2>6, GuardKeeps
  <1>3. CASE p = Cron /\ NightlyRead
    <2> DEFINE purge == [req[p] EXCEPT !.pc = "update_read", !.op = "purge"]
               forget == [req[p] EXCEPT !.pc = "remove", !.op = "forget"]
               residue == [req[p] EXCEPT !.pc = "delete", !.op = "residue", !.m = man,
                             !.at = man.consumed_at, !.removed = man.removed]
    <2>1. req[p].pc # "idle"
      BY <1>3 DEF NightlyRead, At
    <2>2. /\ purge.pc = "update_read" /\ purge.t = req[p].t /\ purge.op = "purge"
          /\ residue.pc = "delete" /\ residue.t = req[p].t /\ residue.op = "residue"
          /\ forget.pc = "remove" /\ forget.t = req[p].t /\ forget.op = "forget"
      BY <1>0 DEF Request
    <2>3. \/ Become(p, Idle) \/ Become(p, purge) \/ Become(p, residue)
          \/ Become(p, forget) /\ IsTombstone(man)
      BY <1>3 DEF NightlyRead, NightlyPlan
    <2> HIDE DEF purge, residue, forget
    <2>4. Guarded(purge) /\ Guarded(residue)
      BY <1>0, <2>1, <2>2, GoesOn DEF Marked
    <2>5. IsTombstone(man) => Guarded(forget)
      BY <1>0, <2>1, <2>2 DEF Guarded, IsTombstone, Consumed, Live
    <2> QED
      BY <1>0, <1>1, <2>3, <2>4, <2>5, GuardKeeps
  <1>4. CASE p = Cron /\ NightlyList
    <2> DEFINE r == [[NewReq("nightly_read", "nightly") EXCEPT !.keys = Stored] EXCEPT !.t = now]
    <2>1. r.pc = "nightly_read" /\ r.op = "nightly" /\ r.t = now
      BY DEF NewReq, Idle
    <2>2. Become(p, r)
      BY <1>4 DEF NightlyList, Begin
    <2> HIDE DEF r
    <2> QED
      BY <1>0, <2>1, <2>2, GuardKeeps, StartsGuarded DEF Marked
  <1> QED
    BY <1>2, <1>3, <1>4

\* The remaining steps of a handler go on for its purpose, or end it, or call
\* destroyTransfer.
LEMMA OtherLife ==
  ASSUME TypeInv, LifeInv, NEW p \in Procs,
         \/ FinaliseList(p) \/ FinaliseDeleteWrong(p) \/ FinaliseSidecar(p)
         \/ FinaliseDockRead(p) \/ FinaliseDockPut(p) \/ DownloadServe(p)
         \/ PutTombstoneFails(p) \/ DockOff(p) \/ DockMark(p) \/ Crash(p)
  PROVE  LifeInv'
  <1>0. req[p] \in Request /\ man' = man /\ now' = now /\ req[p].pc # "idle"
    BY DEF TypeInv, TypeOK, FinaliseList, FinaliseDeleteWrong, FinaliseSidecar, FinaliseDockRead,
       FinaliseDockPut, DownloadServe, PutTombstoneFails, DockOff, DockMark, Crash, record, clock, At
  <1>1. Idle.pc = "idle"
    BY DEF Idle
  <1>2. \A label : Go(req[p], label).pc = label /\ Go(req[p], label).t = req[p].t
                   /\ Go(req[p], label).op = req[p].op
    BY <1>0 DEF Go, Request
  <1>3. ASSUME NEW r, Become(p, r), r.pc # "remove", r.t = req[p].t,
               r.op = req[p].op \/ r.op \notin Marked
        PROVE  LifeInv'
    BY <1>0, <1>3, GuardKeeps, GoesOn
  <1>4. ASSUME Become(p, Idle) PROVE LifeInv'
    BY <1>0, <1>1, <1>4, GuardKeeps, GoesOn
  <1>5. CASE FinaliseSidecar(p)
    <2> DEFINE r == [req[p] EXCEPT !.pc = "update_read", !.body = NoBody]
    <2>1. r.pc = "update_read" /\ r.t = req[p].t /\ r.op = req[p].op
      BY <1>0 DEF Request
    <2>2. Become(p, r)
      BY <1>5 DEF FinaliseSidecar
    <2> HIDE DEF r
    <2> QED
      BY <1>3, <2>1, <2>2
  <1>6. CASE FinaliseList(p)
    <2> DEFINE bad == {c \in ChunkIds : chunk[c] = "bad"}
               r == [req[p] EXCEPT !.pc = "wrong_size", !.keys = bad]
    <2>1. r.pc = "wrong_size" /\ r.t = req[p].t /\ r.op = req[p].op
      BY <1>0 DEF Request
    <2>2. Become(p, Idle) \/ Become(p, r) \/ Become(p, Go(req[p], "sidecar"))
      BY <1>6 DEF FinaliseList
    <2> HIDE DEF r
    <2> QED
      BY <1>2, <1>3, <1>4, <2>1, <2>2
  <1>7. CASE FinaliseDeleteWrong(p) \/ FinaliseDockPut(p) \/ DockOff(p) \/ DockMark(p) \/ Crash(p)
    BY <1>4, <1>7 DEF FinaliseDeleteWrong, FinaliseDockPut, DockOff, DockMark, Crash, Done
  <1>8. CASE DownloadServe(p)
    <2> DEFINE r == [NewReq("update_read", "destroy") EXCEPT !.t = now]
    <2>1. r.pc = "update_read" /\ r.t = now /\ r.op = "destroy"
      BY DEF NewReq, Idle
    <2>2. Become(p, r) \/ Become(p, Idle)
      BY <1>8 DEF DownloadServe, Done, Begin
    <2> HIDE DEF r
    <2>3. Guarded(r)
      BY <2>1, StartsGuarded DEF Marked
    <2> QED
      BY <1>0, <1>4, <2>2, <2>3, GuardKeeps
  <1>9. CASE FinaliseDockRead(p) \/ PutTombstoneFails(p)
    <2>1. PICK label \in {"dock_keep", "dock_open", "dock_mark", "dock_off"} : Become(p, Go(req[p], label))
      BY <1>9 DEF FinaliseDockRead, PutTombstoneFails, AfterTombstone, Goto
    <2> QED
      BY <1>2, <1>3, <2>1
  <1> QED
    BY <1>5, <1>6, <1>7, <1>8, <1>9

\* The clock waits for handlers a unit old.
LEMMA TickLife == TypeInv /\ LifeInv /\ Tick => LifeInv'
  <1> SUFFICES ASSUME TypeInv, LifeInv, Tick PROVE LifeInv'
    OBVIOUS
  <1>1. man' = man /\ req' = req /\ now' = now + 1 /\ now \in Nat
    BY DEF Tick, record, TypeInv, TypeOK, Time
  <1>2. ASSUME NEW p \in Procs PROVE Guarded(req[p])'
    <2>1. Guarded(req[p]) /\ (req[p].pc # "idle" => req[p].t = now)
      BY DEF Tick, At, LifeInv
    <2> QED
      BY <1>1, <2>1 DEF Guarded
  <1> QED
    BY <1>1, <1>2 DEF LifeInv

-----------------------------------------------------------------------------
(* The specification                                                        *)

\* Initially no handler is running.
LEMMA InitLife == Init => LifeInv
  BY DEF Init, LifeInv, Guarded, Idle, FreshManifest

\* Together with the type invariant, the guards are inductive.
LEMMA StepLife == TypeInv /\ LifeInv /\ [Next]_vars => LifeInv'
  <1> SUFFICES ASSUME TypeInv, LifeInv, [Next]_vars PROVE LifeInv'
    OBVIOUS
  <1>1. ASSUME NEW p \in Procs, Handle(p) PROVE LifeInv'
    BY <1>1, WinLife, RecordLife, UpdateLife, DeletionLife, SweepLife, OtherLife DEF Handle
  <1>2. CASE (\E c \in ChunkIds, size \in Sizes : PutChunk(c, size)) \/ UNCHANGED vars
    <2>1. UNCHANGED <<man, req, now>>
      BY <1>2 DEF PutChunk, vars, record, clock
    <2> QED
      BY <2>1 DEF LifeInv, Guarded, CompleteLive, Live, Exists
  <1> QED
    BY <1>1, <1>2, TickLife, StartLife, SweepLife, OtherLife DEF Next, Nightly, Procs

-----------------------------------------------------------------------------
(* Every step is a step of the lifecycle, or none of its business.          *)

\* A new transfer is at the start of its lifecycle.
LEMMA InitMaps == Init => L!LInit
  <1> SUFFICES ASSUME Init PROVE L!LInit
    OBVIOUS
  <1>1. PICK arm \in Arming : man = FreshManifest(arm)
    BY DEF Init
  <1>2. man \in ManifestRecord
    BY <1>1, SizeAssumption DEF FreshManifest, ManifestRecord, TimeOrNone, NoTime, RootOrNone
  <1>3. Phase = "uploading"
    BY <1>1, <1>2, SentinelAssumption DEF Phase, FreshManifest, Exists
  <1>4. ~(releases > 0)
    BY DEF Init
  <1> QED
    BY <1>3, <1>4 DEF L!LInit

\* A handler that wins the conditional put finalises the transfer, ends it, or
\* leaves its phase alone.
LEMMA WinMaps ==
  ASSUME TypeInv, LifeInv, NEW p \in Procs, UpdateWin(p)
  PROVE  [L!LNext]_(L!lvars)
  <1>0. /\ req[p].op \in Callers /\ Exists(man) /\ ~man.consumed /\ man \in ManifestRecord
        /\ man' = Mutated(req[p], man) /\ releases' = releases /\ man.total_chunks
    BY SentinelAssumption DEF UpdateWin, At, TypeInv, TypeOK, RequestOK, Live, Exists, LifeInv
  <1>1. TypeInv'
    BY UpdateWinType
  <1>2. man' = NoManifest \/ man' \in ManifestRecord
    BY <1>1 DEF TypeInv, TypeOK, ManifestOrNone
  <1>3. Phase = (IF man.upload_complete THEN "complete" ELSE "uploading")
    BY <1>0 DEF Phase
  <1>4. CASE req[p].op = "finalise"
    <2>1. man' = Completed(man, req[p].root)
      BY <1>0, <1>4 DEF Mutated, Latchers
    <2>2. /\ man' = [man EXCEPT !.upload_complete = TRUE, !.merkle_root = req[p].root]
          /\ ~man'.consumed /\ man'.upload_complete
      BY <1>0, <2>1 DEF Completed, ManifestRecord
    <2>3. man' # NoManifest
      <3>1. [man EXCEPT !.upload_complete = TRUE, !.merkle_root = req[p].root] \in ManifestRecord
        BY <1>0 DEF ManifestRecord, TypeInv, TypeOK, Request
      <3> QED
        BY <2>2, <3>1, SentinelAssumption
    <2>4. Phase' = "complete"
      BY <2>2, <2>3 DEF Phase, Exists
    <2> QED
      BY <1>0, <1>3, <2>4 DEF L!LNext, L!Finalise, L!lvars
  <1>5. CASE req[p].op = "download"
    <2>1. man' = Stamped(man, req[p].t) /\ req[p].t \in Time
      BY <1>0, <1>5 DEF Mutated, Latchers, TypeInv, TypeOK, Request
    <2>2. man' \in ManifestRecord
      BY <1>0, <2>1 DEF Stamped, ManifestRecord, TimeOrNone
    <2>3. /\ man' # NoManifest /\ ~man'.consumed
          /\ man'.upload_complete = man.upload_complete
      BY <1>0, <2>1, <2>2, SentinelAssumption DEF Stamped, ManifestRecord
    <2>4. Phase' = Phase
      BY <1>3, <2>3 DEF Phase, Exists
    <2> QED
      BY <1>0, <2>4 DEF L!lvars
  <1>6. CASE req[p].op \in Latchers
    <2>1. man' = Latched(man, req[p].t, req[p].removed) /\ req[p].t \in Time /\ req[p].removed \in BOOLEAN
      BY <1>0, <1>6 DEF Mutated, Latchers, TypeInv, TypeOK, Request
    <2>2. man' \in ManifestRecord
      BY <1>0, <2>1 DEF Latched, ManifestRecord, TimeOrNone
    <2>3. man' # NoManifest /\ man'.consumed /\ man'.total_chunks
      BY <1>0, <2>1, <2>2, SentinelAssumption DEF Latched, ManifestRecord
    <2>4. Phase' = "ending"
      BY <2>3 DEF Phase, Exists
    <2> QED
      BY <1>0, <1>3, <2>4 DEF L!LNext, L!End, L!lvars
  <1> QED
    BY <1>0, <1>4, <1>5, <1>6 DEF Callers, Latchers

\* Whoever gives the hold back does it after the end, and is the first to.
LEMMA ReleaseMaps ==
  ASSUME TypeInv, ReleaseInv, NEW p \in Procs, Release(p)
  PROVE  [L!LNext]_(L!lvars)
  <1>1. ~Live(man) /\ releases = 0 /\ releases' = releases + 1 /\ man' = man
    BY DEF Release, ReleaseInv, record
  <1>2. Phase \in {"ending", "ended", "forgotten"} /\ Phase' = Phase
    BY <1>1 DEF Phase, Live, Exists
  <1>3. ~(releases > 0) /\ (releases > 0)' = TRUE
    BY <1>1
  <1> QED
    BY <1>2, <1>3 DEF L!LNext, L!Credit

\* The leftover record is written over a transfer that is over, or gone.
LEMMA TombstoneMaps ==
  ASSUME TypeInv, EndInv, NEW p \in Procs, PutTombstone(p)
  PROVE  [L!LNext]_(L!lvars)
  <1>1. /\ Finisher(req[p]) /\ req[p] \in Request /\ man' = Tombstone(req[p].at, req[p].removed)
        /\ releases' = releases
    BY DEF PutTombstone, At, Finisher, TypeInv, TypeOK
  <1>2. ~Live(man)
    BY <1>1 DEF EndInv
  <1>3. man' \in ManifestRecord
    BY <1>1 DEF Tombstone, ManifestRecord, Request, TimeOrNone, NoTime, RootOrNone, Arms
  <1>4. Phase' = "ended"
    BY <1>1, <1>3, SentinelAssumption DEF Phase, Exists, Tombstone
  <1>5. Phase \in {"ending", "ended", "forgotten"}
    BY <1>2 DEF Phase, Live, Exists
  <1> QED
    BY <1>1, <1>4, <1>5 DEF L!LNext, L!Finish, L!lvars

\* No finalised live transfer loses its manifest.
LEMMA RemoveMaps ==
  ASSUME TypeInv, LifeInv, NEW p \in Procs, RemoveManifest(p)
  PROVE  [L!LNext]_(L!lvars)
  <1>1. man' = NoManifest /\ req[p].pc = "remove" /\ releases' = releases
    BY DEF RemoveManifest, At
  <1>2. ~CompleteLive(man)
    BY <1>1 DEF LifeInv, Guarded, CompleteLive
  <1>3. Phase \in {"uploading", "ending", "ended", "forgotten"}
    BY <1>2 DEF Phase, CompleteLive, Live, Exists
  <1>4. Phase' = "forgotten"
    BY <1>1 DEF Phase, Exists
  <1> QED
    BY <1>1, <1>3, <1>4 DEF L!LNext, L!Forget, L!lvars

\* No other step is the lifecycle's business.
LEMMA StepMaps ==
  TypeInv /\ ReleaseInv /\ EndInv /\ LifeInv /\ [Next]_vars => [L!LNext]_(L!lvars)
  <1> SUFFICES ASSUME TypeInv, ReleaseInv, EndInv, LifeInv, [Next]_vars PROVE [L!LNext]_(L!lvars)
    OBVIOUS
  <1>1. \/ UNCHANGED <<man, releases>>
        \/ \E p \in Procs : UpdateWin(p) \/ Release(p) \/ PutTombstone(p) \/ RemoveManifest(p)
    BY DEF Next, Nightly, Procs, Handle, Start, NightlyList, NightlyRead, Crash, UpdateRead, UpdateLose,
       PutChunk, Tick, vars,
       FinaliseStart, FinaliseList, FinaliseDeleteWrong, FinaliseSidecar, FinaliseDockRead,
       FinaliseDockPut, DownloadStart, DownloadServe, DeleteStart, ConfirmStart, TakedownStart,
       List, DeleteGroup, DeletePart, PutTombstoneFails, DockOff, DockMark, OrphanList,
       OrphanRead, record
  <1>2. CASE UNCHANGED <<man, releases>>
    BY <1>2 DEF L!lvars, Phase, Exists
  <1> QED
    BY <1>1, <1>2, WinMaps, ReleaseMaps, TombstoneMaps, RemoveMaps

\* Requests and sweeps, interleaved and interrupted in any way, implement the
\* lifecycle: forward only, nothing finalised lost before its end, and the quota
\* hold given back at most once, after it.
THEOREM LifecycleImplemented == Spec => ImplementsLifecycle
  <1>1. Spec => []TypeInv
    BY InitType, TypeStep, PTL DEF Spec
  <1>2. Spec => []ReleaseInv
    BY <1>1, InitRelease, ReleaseStep, PTL DEF Spec
  <1>3. Spec => []EndInv
    BY <1>1, InitEnd, StepEnd, PTL DEF Spec
  <1>4. Spec => []LifeInv
    BY <1>1, InitLife, StepLife, PTL DEF Spec
  <1> QED
    BY <1>1, <1>2, <1>3, <1>4, InitMaps, StepMaps, PTL DEF Spec, ImplementsLifecycle, L!LSpec

-----------------------------------------------------------------------------
(* No object without a manifest, and no finalised transfer without its      *)
(* objects, for every value of the constants.                               *)

\* The steps of a handler that neither list, nor decide on a listing, nor finalise.
Simple(p) ==
  \/ UpdateRead(p) \/ UpdateWin(p) \/ UpdateLose(p) \/ Release(p)
  \/ FinaliseDeleteWrong(p) \/ FinaliseDockRead(p) \/ FinaliseDockPut(p) \/ DownloadServe(p)
  \/ List(p) \/ DeletePart(p) \/ PutTombstone(p) \/ PutTombstoneFails(p) \/ DockOff(p) \/ DockMark(p)
  \/ RemoveManifest(p) \/ Crash(p)
  \/ p \in Reqs /\ (DeleteStart(p) \/ ConfirmStart(p) \/ TakedownStart(p) \/ \E c \in ChunkIds : DownloadStart(p, c))

Updating(r) == r.pc \in {"update_read", "update_put"} /\ r.op = "finalise"

\* What they may make of it.  A date is one the handler had, has just read, or now writes.
Plain(p, r) ==
  /\ r.pc \notin {"complete", "sidecar", "wrong_size", "orphan_read", "nightly_read", "remove"}
  /\ r.pc = "delete" => r.op \in {"destroy", "purge"}
  /\ Updating(r) => Updating(req[p])
  /\ Finisher(r) => \/ Finisher(req[p]) /\ r.at = req[p].at
                    \/ Consumed(man) /\ r.at = man.consumed_at
                    \/ r.at = req[p].t

\* Most labels are no concern here.
LEMMA PlainLabels ==
  ASSUME NEW p \in Procs
  PROVE  /\ \A r : r.pc \in {"idle", "serve", "dock_read", "dock_open", "dock_keep", "dock_off", "dock_mark"} => Plain(p, r)
         /\ \A r : r.pc \in {"update_read", "update_put"} /\ r.op # "finalise" => Plain(p, r)
  BY DEF Plain, Finisher, Updating

LEMMA PlainUpdate ==
  ASSUME TypeInv, NEW p \in Procs, UpdateRead(p) \/ UpdateWin(p) \/ UpdateLose(p)
  PROVE  \E r : Become(p, r) /\ Plain(p, r)
  <1>0. /\ req[p] \in Request /\ RequestOK(req[p]) /\ Idle.pc = "idle"
        /\ req[p].pc \in {"update_read", "update_put"} /\ req[p].op \in Callers
    BY DEF TypeInv, TypeOK, UpdateRead, UpdateWin, UpdateLose, At, Idle, RequestOK
  <1>1. \A label : Go(req[p], label).pc = label
    BY <1>0 DEF Go, Request
  <1>2. CASE UpdateLose(p)
    <2> DEFINE again == [req[p] EXCEPT !.pc = "update_read", !.seen = NoManifest, !.tries = @ + 1]
    <2>1. again.pc = "update_read" /\ again.op = req[p].op
      BY <1>0 DEF Request
    <2>2. Become(p, again) \/ Become(p, Idle) \/ Become(p, Go(req[p], "serve"))
      BY <1>2 DEF UpdateLose, AfterContention
    <2> HIDE DEF again
    <2>3. Plain(p, again)
      BY <1>0, <2>1 DEF Plain, Finisher, Updating
    <2> QED
      BY <1>0, <1>1, <2>2, <2>3, PlainLabels
  <1>3. CASE UpdateRead(p)
    <2> DEFINE put == [req[p] EXCEPT !.pc = "update_put", !.seen = man]
               list == [req[p] EXCEPT !.pc = "list", !.at = man.consumed_at,
                                      !.removed = @ \/ man.removed, !.tries = 0]
    <2>1. /\ put.pc = "update_put" /\ put.op = req[p].op
          /\ list.pc = "list" /\ list.at = man.consumed_at
      BY <1>0 DEF Request
    <2>2. \/ Exists(man) /\ Declines(req[p], man) /\ AfterDecline(req[p], man) = list => Consumed(man)
          \/ AfterDecline(req[p], man) \in {Idle, Go(req[p], "serve"), Go(req[p], "dock_off")}
      <3>1. CASE req[p].op = "destroy"
        BY <3>1 DEF Declines, Consumed
      <3>2. CASE req[p].op # "destroy"
        BY <3>2 DEF AfterDecline
      <3> QED
        BY <3>1, <3>2
    <2>3. \/ Become(p, put) \/ Become(p, Idle)
          \/ Become(p, AfterDecline(req[p], man)) /\ Exists(man) /\ Declines(req[p], man)
      BY <1>3 DEF UpdateRead
    <2>5. AfterDecline(req[p], man) \in {list, Idle, Go(req[p], "serve"), Go(req[p], "dock_off")}
      BY DEF AfterDecline
    <2> HIDE DEF put, list
    <2>4. Plain(p, put) /\ (Consumed(man) => Plain(p, list))
      BY <1>0, <2>1 DEF Plain, Finisher, Updating
    <2> QED
      BY <1>0, <1>1, <2>2, <2>3, <2>4, <2>5, PlainLabels
  <1>4. CASE UpdateWin(p)
    <2>1. CASE req[p].op \in Latchers
      <3>1. AfterWrite(req[p]) =
              [[req[p] EXCEPT !.seen = NoManifest, !.tries = 0] EXCEPT !.pc = "release", !.at = req[p].t]
        BY <1>0, <2>1 DEF AfterWrite, Latchers, Request
      <3>2. AfterWrite(req[p]).pc = "release" /\ AfterWrite(req[p]).at = req[p].t
        BY <1>0, <3>1 DEF Request
      <3> QED
        BY <1>4, <3>2 DEF UpdateWin, Plain, Updating
    <2>2. CASE req[p].op \notin Latchers
      <3>1. AfterWrite(req[p]).pc \in {"dock_read", "serve"}
        BY <1>0, <2>2 DEF AfterWrite, Callers, Latchers, Request
      <3> QED
        BY <1>4, <3>1, PlainLabels DEF UpdateWin
    <2> QED
      BY <2>1, <2>2
  <1> QED
    BY <1>2, <1>3, <1>4

LEMMA PlainDeletion ==
  ASSUME TypeInv, NEW p \in Procs, Release(p) \/ List(p) \/ DeletePart(p) \/ PutTombstone(p) \/ RemoveManifest(p)
  PROVE  \E r : Become(p, r) /\ Plain(p, r)
  <1>0. /\ req[p] \in Request /\ RequestOK(req[p]) /\ Idle.pc = "idle"
        /\ \A label : /\ Go(req[p], label).pc = label /\ Go(req[p], label).op = req[p].op
                      /\ Go(req[p], label).at = req[p].at
    BY DEF TypeInv, TypeOK, Idle, Go, Request
  <1>1. CASE Release(p)
    <2> DEFINE list == [req[p] EXCEPT !.pc = "list", !.op = "destroy"]
    <2>1. list.pc = "list" /\ list.at = req[p].at /\ Finisher(req[p])
      BY <1>0, <1>1 DEF Request, Release, At, Finisher
    <2>2. CASE req[p].op = "purge"
      <3>1. Become(p, Go(req[p], "delete"))
        BY <1>1, <2>2 DEF Release
      <3> QED
        BY <1>0, <2>1, <2>2, <3>1 DEF Plain, Updating
    <2>3. CASE req[p].op # "purge"
      <3>1. Become(p, list)
        BY <1>1, <2>3 DEF Release
      <3> HIDE DEF list
      <3> QED
        BY <2>1, <3>1 DEF Plain, Updating
    <2> QED
      BY <2>2, <2>3
  <1>2. CASE List(p)
    <2> DEFINE r == [req[p] EXCEPT !.pc = "delete", !.keys = Stored]
    <2>1. r.pc = "delete" /\ r.at = req[p].at /\ r.op = "destroy" /\ Finisher(req[p])
      BY <1>0, <1>2 DEF Request, List, At, Finisher, RequestOK
    <2>2. Become(p, r)
      BY <1>2 DEF List
    <2> HIDE DEF r
    <2> QED
      BY <2>1, <2>2 DEF Plain, Updating
  <1>3. CASE DeletePart(p)
    <2> DEFINE r == [req[p] EXCEPT !.pc = "tombstone", !.keys = {}]
    <2>1. r.pc = "tombstone" /\ r.at = req[p].at
      BY <1>0 DEF Request
    <2>2. CASE req[p].op = "purge"
      <3>1. Become(p, r) /\ Finisher(req[p])
        BY <1>3, <2>2 DEF DeletePart, At, Finisher
      <3> HIDE DEF r
      <3> QED
        BY <2>1, <3>1 DEF Plain, Updating
    <2>3. CASE req[p].op # "purge"
      <3>1. Become(p, Idle)
        BY <1>3, <2>3 DEF DeletePart
      <3> QED
        BY <1>0, <3>1, PlainLabels
    <2> QED
      BY <2>2, <2>3
  <1>4. CASE PutTombstone(p) \/ RemoveManifest(p)
    <2>1. Become(p, Idle) \/ \E label \in {"dock_mark", "dock_off"} : Become(p, Go(req[p], label))
      BY <1>4 DEF PutTombstone, RemoveManifest, AfterTombstone, Goto, Done
    <2> QED
      BY <1>0, <2>1, PlainLabels
  <1> QED
    BY <1>1, <1>2, <1>3, <1>4

LEMMA PlainStart ==
  ASSUME TypeInv, NEW p \in Reqs,
         DeleteStart(p) \/ ConfirmStart(p) \/ TakedownStart(p) \/ \E c \in ChunkIds : DownloadStart(p, c)
  PROVE  \E r : Become(p, r) /\ Plain(p, r)
  <1>0. p \in Procs
    BY DEF Procs
  <1>1. ASSUME NEW gone, Exists(man), Begin(p, DestroyEntry(gone)) PROVE \E r : Become(p, r) /\ Plain(p, r)
    <2> DEFINE r == [DestroyEntry(gone) EXCEPT !.t = now]
    <2>1. CASE man.consumed
      <3>1. r = [[NewReq("list", "destroy") EXCEPT !.at = man.consumed_at,
                    !.removed = gone \/ man.removed] EXCEPT !.t = now]
        BY <2>1 DEF DestroyEntry
      <3>2. r.at = man.consumed_at /\ r.pc = "list"
        BY <3>1 DEF NewReq, Idle
      <3> QED
        BY <1>1, <2>1, <3>2 DEF Begin, Plain, Consumed, Updating
    <2>2. CASE ~man.consumed
      <3>1. r = [[NewReq("update_read", "destroy") EXCEPT !.removed = gone] EXCEPT !.t = now]
        BY <2>2 DEF DestroyEntry
      <3>2. r.pc = "update_read" /\ r.op = "destroy"
        BY <3>1 DEF NewReq, Idle
      <3> QED
        BY <1>0, <1>1, <3>2, PlainLabels DEF Begin
    <2> QED
      BY <2>1, <2>2
  <1>2. CASE DeleteStart(p) \/ TakedownStart(p)
    BY <1>1, <1>2 DEF DeleteStart, TakedownStart
  <1>3. CASE ConfirmStart(p)
    <2> DEFINE r == [NewReq("update_read", "confirm") EXCEPT !.t = now]
    <2>1. r.pc = "update_read" /\ r.op = "confirm"
      BY DEF NewReq, Idle
    <2> QED
      BY <1>0, <1>3, <2>1, PlainLabels DEF ConfirmStart, Begin
  <1>4. ASSUME NEW c \in ChunkIds, DownloadStart(p, c) PROVE \E r : Become(p, r) /\ Plain(p, r)
    <2>1. PICK label \in {"update_read", "serve"} :
            Become(p, [[NewReq(label, "download") EXCEPT !.c = c, !.m = man] EXCEPT !.t = now])
      BY <1>4 DEF DownloadStart, Begin
    <2> DEFINE r == [[NewReq(label, "download") EXCEPT !.c = c, !.m = man] EXCEPT !.t = now]
    <2>2. r.pc = label /\ r.op = "download"
      BY DEF NewReq, Idle
    <2>3. Become(p, r)
      BY <2>1
    <2> HIDE DEF r
    <2>4. Plain(p, r)
      BY <1>0, <2>2, PlainLabels
    <2> QED
      BY <2>3, <2>4
  <1> QED
    BY <1>2, <1>3, <1>4

LEMMA PlainSteps ==
  ASSUME TypeInv, NEW p \in Procs, Simple(p)
  PROVE  \E r : Become(p, r) /\ Plain(p, r)
  <1>0. req[p] \in Request /\ Idle.pc = "idle" /\ \A label : Go(req[p], label).pc = label
    BY DEF TypeInv, TypeOK, Idle, Go, Request
  <1>1. CASE DownloadServe(p)
    <2> DEFINE r == [NewReq("update_read", "destroy") EXCEPT !.t = now]
    <2>1. r.pc = "update_read" /\ r.op = "destroy"
      BY DEF NewReq, Idle
    <2>2. Become(p, r) \/ Become(p, Idle)
      BY <1>1 DEF DownloadServe, Done, Begin
    <2> HIDE DEF r
    <2>3. Plain(p, r) /\ Plain(p, Idle)
      BY <1>0, <2>1, PlainLabels
    <2> QED
      BY <2>2, <2>3
  <1>2. CASE FinaliseDockRead(p) \/ PutTombstoneFails(p)
    <2>1. PICK label \in {"dock_keep", "dock_open", "dock_mark", "dock_off"} : Become(p, Go(req[p], label))
      BY <1>2 DEF FinaliseDockRead, PutTombstoneFails, AfterTombstone, Goto
    <2> QED
      BY <1>0, <2>1, PlainLabels
  <1>3. CASE FinaliseDeleteWrong(p) \/ FinaliseDockPut(p) \/ DockOff(p) \/ DockMark(p) \/ Crash(p)
    BY <1>0, <1>3, PlainLabels DEF FinaliseDeleteWrong, FinaliseDockPut, DockOff, DockMark, Crash, Done
  <1> QED
    BY <1>1, <1>2, <1>3, PlainUpdate, PlainDeletion, PlainStart DEF Simple

-----------------------------------------------------------------------------
(* Objects come only while a session lives                                  *)

\* A PUT, or the sidecar of a finalise, lands before the sessions are over.
LEMMA NothingAdded ==
  ASSUME TypeInv, LifeInv, [Next]_vars, now > SessionExp
  PROVE  Stored' \subseteq Stored
  <1>1. SessionExp \in Nat /\ now \in Nat
    BY TimesAssumption DEF SessionExp, TypeInv, TypeOK, Time
  <1>2. \A K : Remove(K) => Stored' \subseteq Stored
    BY DEF Remove, Stored
  <1>3. UNCHANGED objects => Stored' = Stored
    BY DEF objects, Stored
  <1>4. ASSUME NEW p \in Procs, FinaliseSidecar(p) PROVE FALSE
    <2>1. req[p].pc # "idle" /\ req[p].op = "finalise" /\ req[p].t \in Nat
      BY <1>4 DEF FinaliseSidecar, At, TypeInv, RequestOK, TypeOK, Request, Time
    <2>2. now <= req[p].t + 1 /\ req[p].t < SessionExp
      BY <2>1 DEF LifeInv, Guarded
    <2> QED
      BY <1>1, <2>1, <2>2
  <1>5. \A c \in ChunkIds, size \in Sizes : ~PutChunk(c, size)
    BY <1>1 DEF PutChunk
  <1>6. \/ UNCHANGED objects
        \/ \E K : Remove(K)
        \/ \E p \in Procs : FinaliseSidecar(p)
        \/ \E c \in ChunkIds, size \in Sizes : PutChunk(c, size)
    BY DEF Next, Nightly, Procs, Handle, Start, NightlyList, NightlyRead, Crash, UpdateRead, UpdateLose, UpdateWin,
       Release, Tick, vars, FinaliseStart, FinaliseList, FinaliseDeleteWrong, FinaliseDockRead,
       FinaliseDockPut, DownloadStart, DownloadServe, DeleteStart, ConfirmStart, TakedownStart,
       List, DeleteGroup, DeletePart, PutTombstone, PutTombstoneFails, DockOff, DockMark, OrphanList,
       OrphanRead, RemoveManifest, objects
  <1> QED
    BY <1>2, <1>3, <1>4, <1>5, <1>6

-----------------------------------------------------------------------------
(* No object without a manifest                                             *)

\* What a handler knows of the objects, when those stored are S: a listing made after the
\* sessions misses none, and the manifest is removed after them and when none is left.  The
\* date of a deletion is a date.
Listed(r, S) ==
  /\ r.pc \in {"orphan_read", "nightly_read"} /\ r.t > SessionExp => S \subseteq r.keys
  /\ r.pc = "delete" /\ r.op = "stale" => S \subseteq r.keys
  /\ r.pc = "remove" => r.t > SessionExp /\ S = {}
  /\ Finisher(r) => r.at >= 0

EmptyInv ==
  /\ ~Exists(man) => now > SessionExp /\ Stored = {}
  /\ Consumed(man) => man.consumed_at >= 0
  /\ \A p \in Procs : Listed(req[p], Stored)

LEMMA Times ==
  /\ SessionExp \in Nat /\ SessionExp <= SessionLife /\ SessionExp < StaleAfter /\ SessionExp < TombKeep
  /\ SessionLife \in Nat /\ StaleAfter \in Nat /\ TombKeep \in Nat
  BY TimesAssumption DEF SessionExp

\* What a handler knows stays so, as nothing is added once the sessions are over.
LEMMA ListedStays ==
  ASSUME TypeInv, LifeInv, EmptyInv, [Next]_vars, NEW q \in Procs
  PROVE  Listed(req[q], Stored')
  <1>1. req[q].t \in Nat /\ now \in Nat
    BY DEF TypeInv, TypeOK, Request, Time
  <1>2. Listed(req[q], Stored) /\ Guarded(req[q])
    BY DEF EmptyInv, LifeInv
  <1>3. CASE req[q].pc # "idle" /\ req[q].t > SessionExp
    <2>1. now > SessionExp
      BY <1>1, <1>2, <1>3, Times DEF Guarded
    <2>2. Stored' \subseteq Stored
      BY <2>1, NothingAdded
    <2> QED
      BY <1>2, <2>2 DEF Listed
  <1>4. CASE req[q].pc = "idle" \/ ~(req[q].t > SessionExp)
    <2>1. ~(req[q].pc = "delete" /\ req[q].op = "stale")
      BY <1>1, <1>2, <1>4, Times DEF Guarded
    <2> QED
      BY <1>2, <1>4, <2>1 DEF Listed
  <1> QED
    BY <1>3, <1>4

LEMMA PlainListed ==
  ASSUME TypeInv, EmptyInv, NEW p \in Procs
  PROVE  \A r, S : Plain(p, r) => Listed(r, S)
  <1>1. req[p].t \in Nat
    BY DEF TypeInv, TypeOK, Request, Time
  <1>2. (Finisher(req[p]) => req[p].at >= 0) /\ (Consumed(man) => man.consumed_at >= 0)
    BY DEF EmptyInv, Listed
  <1> QED
    BY <1>1, <1>2 DEF Plain, Listed

\* Labels that are no concern of the listings.
LEMMA UnlistedLabels ==
  \A r, S : r.pc \in {"idle", "complete", "sidecar", "wrong_size", "update_read", "dock_off"} => Listed(r, S)
  BY DEF Listed, Finisher

\* The sweeps list, and decide on what they have listed.
LEMMA SweepListed ==
  ASSUME TypeInv, LifeInv, EmptyInv, NEW p \in Procs,
         \/ p \in Reqs /\ OrphanList(p)
         \/ OrphanRead(p) \/ (p = Cron /\ (NightlyList \/ NightlyRead))
  PROVE  \E r : Become(p, r) /\ Listed(r, Stored)
  <1>0. /\ req[p] \in Request /\ req[p].t \in Nat /\ Guarded(req[p]) /\ Listed(req[p], Stored)
        /\ (Consumed(man) => man.consumed_at \in Nat /\ man \in ManifestRecord)
    BY SentinelAssumption
       DEF TypeInv, TypeOK, Request, Time, LifeInv, EmptyInv, Consumed, Exists, ManifestOrNone, ManifestRecord, TimeOrNone, NoTime
  <1>1. CASE p \in Reqs /\ OrphanList(p)
    <2> DEFINE r == [[NewReq("orphan_read", "orphan") EXCEPT
                        !.keys = Stored, !.at = IF activity > written THEN activity ELSE written] EXCEPT !.t = now]
    <2>1. r.pc = "orphan_read" /\ r.keys = Stored
      BY DEF NewReq, Idle
    <2>2. Become(p, r)
      BY <1>1 DEF OrphanList, Begin
    <2> HIDE DEF r
    <2> QED
      BY <2>1, <2>2 DEF Listed, Finisher
  <1>2. CASE p = Cron /\ NightlyList
    <2> DEFINE r == [[NewReq("nightly_read", "nightly") EXCEPT !.keys = Stored] EXCEPT !.t = now]
    <2>1. r.pc = "nightly_read" /\ r.keys = Stored
      BY DEF NewReq, Idle
    <2>2. Become(p, r)
      BY <1>2 DEF NightlyList, Begin
    <2> HIDE DEF r
    <2> QED
      BY <2>1, <2>2 DEF Listed, Finisher
  <1>3. CASE OrphanRead(p)
    <2> DEFINE purge == [req[p] EXCEPT !.pc = "update_read", !.op = "purge"]
               residue == [req[p] EXCEPT !.pc = "delete", !.op = "orphan_residue"]
               stale == [req[p] EXCEPT !.pc = "delete", !.op = "stale"]
    <2>1. /\ purge.pc = "update_read"
          /\ residue.pc = "delete" /\ residue.op = "orphan_residue"
          /\ stale.pc = "delete" /\ stale.op = "stale" /\ stale.keys = req[p].keys
          /\ req[p].pc = "orphan_read"
      BY <1>0, <1>3 DEF Request, OrphanRead, At
    <2>2. \/ Become(p, Idle) \/ Become(p, purge) \/ Become(p, residue)
          \/ Become(p, stale) /\ IsStale(req[p].at, req[p].t)
      BY <1>3 DEF OrphanRead, OrphanPlan
    <2>3. IsStale(req[p].at, req[p].t) => req[p].t > SessionExp
      BY <1>0, Times DEF IsStale
    <2> HIDE DEF purge, residue, stale
    <2>4. Listed(purge, Stored) /\ Listed(residue, Stored) /\ (req[p].t > SessionExp => Listed(stale, Stored))
      BY <1>0, <2>1 DEF Listed, Finisher
    <2>5. Listed(Idle, Stored)
      BY UnlistedLabels DEF Idle
    <2> QED
      BY <2>2, <2>3, <2>4, <2>5
  <1>4. CASE p = Cron /\ NightlyRead
    <2> DEFINE purge == [req[p] EXCEPT !.pc = "update_read", !.op = "purge"]
               forget == [req[p] EXCEPT !.pc = "remove", !.op = "forget"]
               residue == [req[p] EXCEPT !.pc = "delete", !.op = "residue", !.m = man,
                             !.at = man.consumed_at, !.removed = man.removed]
    <2>1. /\ purge.pc = "update_read"
          /\ residue.pc = "delete" /\ residue.op = "residue" /\ residue.at = man.consumed_at
          /\ forget.pc = "remove" /\ forget.t = req[p].t
          /\ req[p].pc = "nightly_read"
      BY <1>0, <1>4 DEF Request, NightlyRead, At
    <2>2. NightlyPlan(req[p]) \in {Idle, purge, residue, forget}
      BY DEF NightlyPlan
    <2>3. NightlyPlan(req[p]) = residue => Consumed(man)
      <3>1. CASE Exists(man) /\ man.consumed
        BY <3>1 DEF Consumed
      <3>2. CASE ~(Exists(man) /\ man.consumed)
        <4>1. NightlyPlan(req[p]) \in {Idle, purge, forget}
          BY <3>2 DEF NightlyPlan
        <4>2. residue # Idle /\ residue # purge /\ residue # forget
          <5> HIDE DEF purge, residue, forget
          <5> QED
            BY <2>1 DEF Idle
        <4> QED
          BY <4>1, <4>2
      <3> QED
        BY <3>1, <3>2
    <2>4. NightlyPlan(req[p]) = forget => req[p].keys = {} /\ req[p].t > SessionExp
      <3> DEFINE due == IsTombstone(man) /\ man.consumed_at <= req[p].t - TombKeep
      <3>1. CASE req[p].keys = {} /\ due
        BY <1>0, <3>1, Times DEF IsTombstone
      <3>2. CASE ~(req[p].keys = {} /\ due)
        <4>1. NightlyPlan(req[p]) \in {Idle, purge, residue}
          BY <3>2 DEF NightlyPlan
        <4>2. forget # Idle /\ forget # purge /\ forget # residue
          <5> HIDE DEF purge, residue, forget
          <5> QED
            BY <2>1 DEF Idle
        <4> QED
          BY <4>1, <4>2
      <3> QED
        BY <3>1, <3>2
    <2>5. Become(p, NightlyPlan(req[p]))
      BY <1>4 DEF NightlyRead
    <2> HIDE DEF purge, residue, forget
    <2>6. Listed(NightlyPlan(req[p]), Stored)
      <3>1. CASE NightlyPlan(req[p]) = Idle
        BY <3>1, UnlistedLabels DEF Idle
      <3>2. CASE NightlyPlan(req[p]) = purge
        BY <2>1, <3>2, UnlistedLabels
      <3>3. CASE NightlyPlan(req[p]) = residue
        BY <1>0, <2>1, <2>3, <3>3 DEF Listed
      <3>4. CASE NightlyPlan(req[p]) = forget
        BY <1>0, <2>1, <2>4, <3>4 DEF Listed, Finisher
      <3> QED
        BY <2>2, <3>1, <3>2, <3>3, <3>4
    <2> QED
      BY <2>5, <2>6
  <1> QED
    BY <1>1, <1>2, <1>3, <1>4

\* What is deleted of a listing leaves nothing else stored.
LEMMA DeleteListed ==
  ASSUME TypeInv, LifeInv, EmptyInv, NEW p \in Procs, DeleteGroup(p)
  PROVE  \E r : Become(p, r) /\ Listed(r, Stored')
  <1>0. /\ req[p] \in Request /\ req[p].t \in Nat /\ RequestOK(req[p]) /\ Guarded(req[p]) /\ Listed(req[p], Stored)
        /\ req[p].pc = "delete"
    BY DEF TypeInv, TypeOK, Request, Time, LifeInv, EmptyInv, DeleteGroup, At
  <1> DEFINE g == Group(req[p])
             all == [req[p] EXCEPT !.pc = AfterDelete(req[p]), !.keys = {}]
             some == [req[p] EXCEPT !.keys = @ \ g]
  <1>1. /\ all.pc = AfterDelete(req[p]) /\ all.at = req[p].at /\ all.t = req[p].t
        /\ some.pc = "delete" /\ some.op = req[p].op /\ some.at = req[p].at /\ some.keys = req[p].keys \ g
    BY <1>0 DEF Request
  <1>2. Stored' \subseteq Stored \ g
    <2> HIDE DEF g
    <2>1. Remove(g)
      BY DEF DeleteGroup, g
    <2> QED
      BY <2>1 DEF Remove, Stored, ChunkIds, Hashes
  <1>3. (Become(p, all) /\ req[p].keys = g) \/ Become(p, some)
    <2>1. CASE req[p].keys = g
      BY <2>1 DEF DeleteGroup
    <2>2. CASE req[p].keys # g
      BY <2>2 DEF DeleteGroup
    <2> QED
      BY <2>1, <2>2
  <1>4. /\ AfterDelete(req[p]) \in {"tombstone", "dock_off", "remove"}
        /\ AfterDelete(req[p]) = "tombstone" => Finisher(req[p])
        /\ AfterDelete(req[p]) = "remove" => req[p].op = "stale"
    BY <1>0 DEF AfterDelete, RequestOK, Finisher
  <1>5. Finisher(some) => Finisher(req[p])
    <2> HIDE DEF some
    <2> QED BY <1>0, <1>1 DEF Finisher
  <1> HIDE DEF all, some, g
  <1>6. Listed(some, Stored')
    BY <1>0, <1>1, <1>2, <1>5 DEF Listed
  <1>7. req[p].keys = g => Listed(all, Stored')
    <2>1. req[p].op = "stale" => req[p].t > SessionExp
      BY <1>0, Times DEF Guarded
    <2> QED
      BY <1>0, <1>1, <1>2, <1>4, <2>1 DEF Listed, Finisher
  <1> QED
    BY <1>3, <1>6, <1>7

\* Whatever its step, the handler that takes it knows as much of what is then stored.
LEMMA HandlerListed ==
  ASSUME TypeInv, LifeInv, EmptyInv, [Next]_vars, NEW p \in Procs,
         Handle(p) \/ (p \in Reqs /\ Start(p)) \/ (p = Cron /\ (NightlyList \/ NightlyRead)) \/ Crash(p)
  PROVE  \A q \in Procs : Listed(req'[q], Stored')
  <1>0. req[p] \in Request /\ Idle.pc = "idle" /\ \A label : Go(req[p], label).pc = label
    BY DEF TypeInv, TypeOK, Idle, Go, Request
  <1>1. ASSUME NEW r, Become(p, r), Listed(r, Stored') PROVE \A q \in Procs : Listed(req'[q], Stored')
    <2>1. req'[p] = r /\ \A q \in Procs : q # p => req'[q] = req[q]
      BY <1>1 DEF Become, TypeInv, TypeOK
    <2> QED
      BY <1>1, <2>1, ListedStays
  <1>2. CASE Simple(p)
    BY <1>1, <1>2, PlainSteps, PlainListed
  <1>3. CASE (p \in Reqs /\ OrphanList(p)) \/ OrphanRead(p) \/ (p = Cron /\ (NightlyList \/ NightlyRead))
    <2>1. Stored' = Stored
      BY <1>3 DEF OrphanList, OrphanRead, NightlyList, NightlyRead, objects, Stored
    <2> QED
      BY <1>1, <1>3, <2>1, SweepListed
  <1>4. CASE DeleteGroup(p)
    BY <1>1, <1>4, DeleteListed
  <1>5. CASE FinaliseList(p)
    <2> DEFINE bad == {c \in ChunkIds : chunk[c] = "bad"}
               r == [req[p] EXCEPT !.pc = "wrong_size", !.keys = bad]
    <2>1. r.pc = "wrong_size"
      BY <1>0 DEF Request
    <2>2. Become(p, Idle) \/ Become(p, r) \/ Become(p, Go(req[p], "sidecar"))
      BY <1>5 DEF FinaliseList
    <2> HIDE DEF r
    <2> QED
      BY <1>0, <1>1, <2>1, <2>2, UnlistedLabels
  <1>6. CASE FinaliseSidecar(p)
    <2> DEFINE r == [req[p] EXCEPT !.pc = "update_read", !.body = NoBody]
    <2>1. r.pc = "update_read"
      BY <1>0 DEF Request
    <2>2. Become(p, r)
      BY <1>6 DEF FinaliseSidecar
    <2> HIDE DEF r
    <2> QED
      BY <1>1, <2>1, <2>2, UnlistedLabels
  <1>7. ASSUME NEW b \in Bodies, NEW root \in Bodies, FinaliseStart(p, b, root)
        PROVE  \A q \in Procs : Listed(req'[q], Stored')
    <2> DEFINE r == [[NewReq("complete", "finalise") EXCEPT !.body = b, !.root = root] EXCEPT !.t = now]
    <2>1. r.pc = "complete"
      BY DEF NewReq, Idle
    <2>2. Become(p, r)
      BY <1>7 DEF FinaliseStart, Begin
    <2> HIDE DEF r
    <2> QED
      BY <1>1, <2>1, <2>2, UnlistedLabels
  <1> QED
    BY <1>2, <1>3, <1>4, <1>5, <1>6, <1>7 DEF Handle, Start, Simple

LEMMA StepEmpty == TypeInv /\ EndInv /\ LifeInv /\ EmptyInv /\ [Next]_vars => EmptyInv'
  <1> SUFFICES ASSUME TypeInv, EndInv, LifeInv, EmptyInv, [Next]_vars PROVE EmptyInv'
    OBVIOUS
  <1>0. SessionExp \in Nat /\ now \in Nat /\ \A p \in Procs : req[p] \in Request /\ req[p].t \in Nat
    BY Times DEF TypeInv, TypeOK, Time, Request
  <1>1. \A q \in Procs : Listed(req'[q], Stored')
    <2>1. CASE \E p \in Procs : Handle(p) \/ (p \in Reqs /\ Start(p))
                                \/ (p = Cron /\ (NightlyList \/ NightlyRead)) \/ Crash(p)
      BY <2>1, HandlerListed
    <2>2. CASE UNCHANGED req
      BY <2>2, ListedStays
    <2> QED
      BY <2>1, <2>2 DEF Next, Nightly, Procs, PutChunk, Tick, vars
  <1>2. now' \in Nat /\ now' >= now
    <2>1. now' = now \/ Tick
      BY DEF Next, Nightly, Procs, Handle, Start, NightlyList, NightlyRead, Crash, UpdateRead, UpdateLose, UpdateWin,
         Release, PutChunk, vars, clock,
         FinaliseStart, FinaliseList, FinaliseDeleteWrong, FinaliseSidecar, FinaliseDockRead,
         FinaliseDockPut, DownloadStart, DownloadServe, DeleteStart, ConfirmStart, TakedownStart,
         List, DeleteGroup, DeletePart, PutTombstone, PutTombstoneFails, DockOff, DockMark, OrphanList,
         OrphanRead, RemoveManifest
    <2>2. Tick => now' = now + 1
      BY DEF Tick
    <2> QED
      BY <1>0, <2>1, <2>2
  <1>3. CASE man' = man
    <2>1. ~Exists(man) => now' > SessionExp /\ Stored' = {}
      <3> SUFFICES ASSUME ~Exists(man) PROVE now' > SessionExp /\ Stored' = {}
        OBVIOUS
      <3>1. now > SessionExp /\ Stored = {}
        BY DEF EmptyInv
      <3> QED
        BY <1>0, <1>2, <3>1, NothingAdded
    <2> QED
      BY <1>1, <1>3, <2>1 DEF EmptyInv, Consumed, Exists
  <1>4. ASSUME NEW p \in Procs, UpdateWin(p) PROVE EmptyInv'
    <2>0. /\ req[p].op \in Callers /\ ~man.consumed /\ man \in ManifestRecord /\ req[p] \in Request
          /\ man' = Mutated(req[p], man)
      BY <1>4 DEF UpdateWin, At, TypeInv, TypeOK, RequestOK
    <2>1. Exists(man') /\ (Consumed(man') => man'.consumed_at = req[p].t)
      <3>1. CASE req[p].op = "finalise"
        <4>1. man' = [man EXCEPT !.upload_complete = TRUE, !.merkle_root = req[p].root] /\ man' \in ManifestRecord
          BY <2>0, <3>1 DEF Mutated, Latchers, Completed, ManifestRecord, Request
        <4> QED
          BY <2>0, <4>1, SentinelAssumption DEF Exists, Consumed, ManifestRecord
      <3>2. CASE req[p].op = "download"
        <4>1. man' = [man EXCEPT !.download_initiated_at = req[p].t] /\ man' \in ManifestRecord
          BY <2>0, <3>2 DEF Mutated, Latchers, Stamped, ManifestRecord, Request, TimeOrNone
        <4> QED
          BY <2>0, <4>1, SentinelAssumption DEF Exists, Consumed, ManifestRecord
      <3>3. CASE req[p].op \in Latchers
        <4>1. man' = Latched(man, req[p].t, req[p].removed) /\ man' \in ManifestRecord
          BY <2>0, <3>3 DEF Mutated, Latchers, Latched, ManifestRecord, Request, TimeOrNone
        <4> QED
          BY <2>0, <4>1, SentinelAssumption DEF Exists, Latched, ManifestRecord
      <3> QED
        BY <2>0, <3>1, <3>2, <3>3 DEF Callers, Latchers
    <2> QED
      BY <1>0, <1>1, <2>1 DEF EmptyInv
  <1>5. ASSUME NEW p \in Procs, PutTombstone(p) PROVE EmptyInv'
    <2>1. Finisher(req[p]) /\ req[p].at >= 0
      BY <1>5 DEF PutTombstone, At, Finisher, EmptyInv, Listed
    <2>2. man' = Tombstone(req[p].at, req[p].removed) /\ man' \in ManifestRecord
      BY <1>0, <1>5 DEF PutTombstone, Tombstone, ManifestRecord, Request, TimeOrNone, NoTime, RootOrNone, Arms
    <2>3. Exists(man') /\ man'.consumed_at = req[p].at
      BY <2>2, SentinelAssumption DEF Tombstone, Exists
    <2> QED
      BY <1>1, <2>1, <2>3 DEF EmptyInv
  <1>6. ASSUME NEW p \in Procs, RemoveManifest(p) PROVE EmptyInv'
    <2>1. ~Exists(man') /\ Stored' = Stored /\ now' = now /\ req[p].pc = "remove"
      BY <1>6 DEF RemoveManifest, Exists, objects, Stored, clock, At
    <2>2. Stored = {} /\ req[p].t > SessionExp /\ req[p].t <= now
      BY <2>1 DEF EmptyInv, Listed, LifeInv, Guarded
    <2> QED
      BY <1>0, <1>1, <2>1, <2>2 DEF EmptyInv, Consumed
  <1>7. \/ man' = man
        \/ \E p \in Procs : UpdateWin(p) \/ PutTombstone(p) \/ RemoveManifest(p)
    BY DEF Next, Nightly, Procs, Handle, Start, NightlyList, NightlyRead, Crash, UpdateRead, UpdateLose,
       Release, PutChunk, Tick, vars,
       FinaliseStart, FinaliseList, FinaliseDeleteWrong, FinaliseSidecar, FinaliseDockRead,
       FinaliseDockPut, DownloadStart, DownloadServe, DeleteStart, ConfirmStart, TakedownStart,
       List, DeleteGroup, DeletePart, PutTombstoneFails, DockOff, DockMark, OrphanList,
       OrphanRead, record
  <1> QED
    BY <1>3, <1>4, <1>5, <1>6, <1>7

\* The manifest is the last object of a transfer to go, whatever PUTs, finalises, deletions and
\* sweeps come in between and whichever of them dies or half fails: the sweeps' listings are
\* younger than any session (NoOrphanObjects).
THEOREM NothingOrphaned == Spec => []NoOrphanObjects
  <1>1. Spec => []TypeInv
    BY InitType, TypeStep, PTL DEF Spec
  <1>2. Spec => []EndInv
    BY <1>1, InitEnd, StepEnd, PTL DEF Spec
  <1>3. Spec => []LifeInv
    BY <1>1, InitLife, StepLife, PTL DEF Spec
  <1>4. Init => EmptyInv
    <2> SUFFICES ASSUME Init PROVE EmptyInv
      OBVIOUS
    <2>1. PICK arm \in Arming : man = FreshManifest(arm)
      BY DEF Init
    <2>2. man \in ManifestRecord
      BY <2>1, SizeAssumption DEF FreshManifest, ManifestRecord, TimeOrNone, NoTime, RootOrNone
    <2>3. Exists(man) /\ ~Consumed(man)
      BY <2>1, <2>2, SentinelAssumption DEF Exists, Consumed, FreshManifest
    <2> QED
      BY <2>3, UnlistedLabels DEF EmptyInv, Init, Idle
  <1>5. EmptyInv => NoOrphanObjects
    BY DEF EmptyInv, NoOrphanObjects
  <1> QED
    BY <1>1, <1>2, <1>3, <1>4, <1>5, StepEmpty, PTL DEF Spec

-----------------------------------------------------------------------------
(* No finalised transfer without its objects, when every PUT is of the      *)
(* right size                                                               *)

\* What a handler relies on, when those stored are S and the transfer is live or not: a
\* finalise that has listed every chunk still has them, and only what is over is deleted
\* for any other reason than being stale.
Backed(r, S, live) ==
  /\ r.pc # "wrong_size"
  /\ r.pc \in {"complete", "sidecar"} => r.body \in Bodies
  /\ r.pc = "sidecar" /\ live => ChunkIds \subseteq S
  /\ Updating(r) /\ live => Keys \subseteq S
  /\ r.pc = "delete" /\ r.op # "stale" => ~live

BackInv ==
  /\ \A c \in ChunkIds : chunk[c] # "bad"
  /\ CompleteLive(man) => Keys \subseteq Stored
  /\ \A p \in Procs : Backed(req[p], Stored, Live(man))

Completing(r) == r.pc \in {"complete", "sidecar", "update_read", "update_put"} /\ r.op = "finalise"

\* Nothing is taken from under a finalised transfer, or one that a finalise is at.
LEMMA NothingTaken ==
  ASSUME TypeInv, LifeInv, BackInv, [Next]_vars, Live(man),
         CompleteLive(man) \/ \E q \in Procs : Completing(req[q])
  PROVE  Stored \subseteq Stored'
  <1>1. UNCHANGED objects => Stored' = Stored
    BY DEF objects, Stored
  <1>2. ASSUME NEW c \in ChunkIds, NEW size \in Sizes, PutChunk(c, size) PROVE Stored \subseteq Stored'
    <2>1. size # "none" /\ chunk' = [chunk EXCEPT ![c] = size] /\ sidecar' = sidecar
      BY <1>2, SizeAssumption DEF PutChunk
    <2> QED
      BY <2>1 DEF Stored, TypeInv, TypeOK
  <1>3. ASSUME NEW p \in Procs, FinaliseSidecar(p) PROVE Stored \subseteq Stored'
    <2>1. sidecar' = req[p].body /\ req[p].body # NoBody /\ chunk' = chunk
      BY <1>3, SentinelAssumption DEF FinaliseSidecar, At, BackInv, Backed
    <2> QED
      BY <2>1 DEF Stored
  <1>4. ASSUME NEW p \in Procs, req[p].pc = "delete" PROVE FALSE
    <2>1. req[p].op = "stale"
      BY <1>4 DEF BackInv, Backed
    <2>2. ~CompleteLive(man) /\ req[p].t > StaleAfter /\ req[p].t <= now
      BY <1>4, <2>1 DEF LifeInv, Guarded
    <2>3. PICK q \in Procs : Completing(req[q])
      BY <2>2
    <2>4. now < StaleAfter
      BY <2>3, SessionBeforeStale DEF LifeInv, Completing
    <2>5. req[p].t \in Nat /\ now \in Nat
      BY DEF TypeInv, TypeOK, Request, Time
    <2> QED
      BY <2>2, <2>4, <2>5, Times
  <1>5. \A p \in Procs : ~DeleteGroup(p) /\ ~DeletePart(p)
    BY <1>4 DEF DeleteGroup, DeletePart, At
  <1>6. \A p \in Procs : ~FinaliseDeleteWrong(p)
    BY DEF FinaliseDeleteWrong, At, BackInv, Backed
  <1>7. \/ UNCHANGED objects
        \/ \E p \in Procs : DeleteGroup(p) \/ DeletePart(p) \/ FinaliseDeleteWrong(p) \/ FinaliseSidecar(p)
        \/ \E c \in ChunkIds, size \in Sizes : PutChunk(c, size)
    BY DEF Next, Nightly, Procs, Handle, Start, NightlyList, NightlyRead, Crash, UpdateRead, UpdateLose, UpdateWin,
       Release, Tick, vars, FinaliseStart, FinaliseList, FinaliseDockRead,
       FinaliseDockPut, DownloadStart, DownloadServe, DeleteStart, ConfirmStart, TakedownStart,
       List, PutTombstone, PutTombstoneFails, DockOff, DockMark, OrphanList,
       OrphanRead, RemoveManifest, objects
  <1> QED
    BY <1>1, <1>2, <1>3, <1>5, <1>6, <1>7

\* No step makes a transfer live again, and only a finalise completes one.
LEMMA StaysOver ==
  ASSUME TypeInv, [Next]_vars
  PROVE  /\ Live(man') => Live(man)
         /\ CompleteLive(man') /\ ~CompleteLive(man) =>
              \E p \in Procs : UpdateWin(p) /\ req[p].op = "finalise"
  <1>1. CASE man' = man
    BY <1>1 DEF Live, CompleteLive, Exists
  <1>2. ASSUME NEW p \in Procs, UpdateWin(p)
        PROVE  Live(man) /\ (req[p].op # "finalise" /\ CompleteLive(man') => CompleteLive(man))
    <2>0. /\ req[p].op \in Callers /\ Live(man) /\ man \in ManifestRecord /\ req[p] \in Request
          /\ man' = Mutated(req[p], man)
      BY <1>2, SentinelAssumption DEF UpdateWin, At, TypeInv, TypeOK, RequestOK, Live, Exists
    <2>1. CASE req[p].op = "download"
      <3>1. man' = [man EXCEPT !.download_initiated_at = req[p].t]
        BY <2>0, <2>1 DEF Mutated, Latchers, Stamped
      <3>2. man'.upload_complete = man.upload_complete
        BY <2>0, <3>1 DEF ManifestRecord
      <3> QED
        BY <2>0, <3>2 DEF CompleteLive
    <2>2. CASE req[p].op \in Latchers
      <3>1. man' = Latched(man, req[p].t, req[p].removed)
        BY <2>0, <2>2 DEF Mutated, Latchers
      <3>2. man'.consumed
        BY <2>0, <3>1 DEF Latched, ManifestRecord
      <3> QED
        BY <2>0, <3>2 DEF CompleteLive, Live
    <2> QED
      BY <2>0, <2>1, <2>2 DEF Callers, Latchers
  <1>3. ASSUME NEW p \in Procs, PutTombstone(p) \/ RemoveManifest(p) PROVE ~Live(man')
    BY <1>3 DEF PutTombstone, RemoveManifest, Tombstone, Live, Exists
  <1>4. \/ man' = man
        \/ \E p \in Procs : UpdateWin(p) \/ PutTombstone(p) \/ RemoveManifest(p)
    BY DEF Next, Nightly, Procs, Handle, Start, NightlyList, NightlyRead, Crash, UpdateRead, UpdateLose,
       Release, PutChunk, Tick, vars,
       FinaliseStart, FinaliseList, FinaliseDeleteWrong, FinaliseSidecar, FinaliseDockRead,
       FinaliseDockPut, DownloadStart, DownloadServe, DeleteStart, ConfirmStart, TakedownStart,
       List, DeleteGroup, DeletePart, PutTombstoneFails, DockOff, DockMark, OrphanList,
       OrphanRead, record
  <1> QED
    BY <1>1, <1>2, <1>3, <1>4 DEF CompleteLive

LEMMA BackedStays ==
  ASSUME TypeInv, LifeInv, BackInv, [Next]_vars, NEW q \in Procs
  PROVE  Backed(req[q], Stored', Live(man'))
  <1>1. Backed(req[q], Stored, Live(man)) /\ (Live(man') => Live(man)) /\ RequestOK(req[q])
    BY StaysOver DEF BackInv, TypeInv
  <1>2. Live(man) /\ (req[q].pc = "sidecar" \/ Updating(req[q])) => Stored \subseteq Stored'
    BY <1>1, NothingTaken DEF Completing, Updating, RequestOK
  <1> QED
    BY <1>1, <1>2 DEF Backed

LEMMA BackedLabels ==
  \A r, S, live : r.pc \in {"idle", "orphan_read", "nightly_read", "remove", "dock_off", "tombstone"} => Backed(r, S, live)
  BY DEF Backed, Updating

\* Whatever its step, the handler that takes it has what it relies on.
LEMMA HandlerBacked ==
  ASSUME TypeInv, LifeInv, EndInv, BackInv, [Next]_vars, NEW p \in Procs,
         Handle(p) \/ (p \in Reqs /\ Start(p)) \/ (p = Cron /\ (NightlyList \/ NightlyRead)) \/ Crash(p)
  PROVE  \A q \in Procs : Backed(req'[q], Stored', Live(man'))
  <1>0. req[p] \in Request /\ RequestOK(req[p]) /\ Idle.pc = "idle" /\ \A label : Go(req[p], label).pc = label
    BY DEF TypeInv, TypeOK, Idle, Go, Request
  <1>1. ASSUME NEW r, Become(p, r), Backed(r, Stored', Live(man'))
        PROVE  \A q \in Procs : Backed(req'[q], Stored', Live(man'))
    <2>1. req'[p] = r /\ \A q \in Procs : q # p => req'[q] = req[q]
      BY <1>1 DEF Become, TypeInv, TypeOK
    <2> QED
      BY <1>1, <2>1, BackedStays
  <1>2. CASE Simple(p)
    <2>1. PICK r : Become(p, r) /\ Plain(p, r)
      BY <1>2, PlainSteps
    <2>2. req'[p] = r
      BY <2>1 DEF Become, TypeInv, TypeOK
    <2>3. Finisher(r) => ~Live(man')
      BY <2>2, StepEnd DEF EndInv
    <2>4. Updating(r) /\ Live(man') => Keys \subseteq Stored'
      BY <2>1, BackedStays DEF Plain, Backed
    <2>5. Backed(r, Stored', Live(man'))
      BY <2>1, <2>3, <2>4 DEF Plain, Backed, Finisher
    <2> QED
      BY <1>1, <2>1, <2>5
  <1>3. CASE DeleteGroup(p)
    <2> DEFINE g == Group(req[p])
               all == [req[p] EXCEPT !.pc = AfterDelete(req[p]), !.keys = {}]
               some == [req[p] EXCEPT !.keys = @ \ g]
    <2>1. req[p].pc = "delete" /\ man' = man
      BY <1>3 DEF DeleteGroup, At, record
    <2>2. AfterDelete(req[p]) \in {"tombstone", "dock_off", "remove"}
      BY <1>0, <2>1 DEF AfterDelete, RequestOK
    <2>3. /\ all.pc = AfterDelete(req[p])
          /\ some.pc = "delete" /\ some.op = req[p].op
      BY <1>0, <2>1 DEF Request
    <2>4. Become(p, all) \/ Become(p, some)
      BY <1>3 DEF DeleteGroup
    <2> HIDE DEF all, some
    <2>5. req[p].op # "stale" => ~Live(man')
      BY <2>1, BackedStays DEF Backed
    <2>6. Backed(some, Stored', Live(man'))
      BY <2>3, <2>5 DEF Backed, Updating
    <2>7. Backed(all, Stored', Live(man'))
      BY <2>2, <2>3, BackedLabels
    <2> QED
      BY <1>1, <2>4, <2>6, <2>7
  <1>4. CASE FinaliseList(p)
    <2>1. {c \in ChunkIds : chunk[c] = "bad"} = {}
      BY DEF BackInv
    <2>2. \/ Become(p, Idle)
          \/ Become(p, Go(req[p], "sidecar")) /\ \A c \in ChunkIds : chunk[c] # "none"
      BY <1>4, <2>1 DEF FinaliseList
    <2>3. Go(req[p], "sidecar").body = req[p].body /\ req[p].body \in Bodies
      BY <1>0, <1>4 DEF Go, Request, FinaliseList, At, BackInv, Backed
    <2>4. (\A c \in ChunkIds : chunk[c] # "none") => ChunkIds \subseteq Stored'
      BY <1>4 DEF FinaliseList, objects, Stored
    <2>5. (\A c \in ChunkIds : chunk[c] # "none") => Backed(Go(req[p], "sidecar"), Stored', Live(man'))
      BY <1>0, <2>3, <2>4 DEF Backed, Updating
    <2> QED
      BY <1>0, <1>1, <2>2, <2>5, BackedLabels
  <1>5. CASE FinaliseSidecar(p)
    <2> DEFINE r == [req[p] EXCEPT !.pc = "update_read", !.body = NoBody]
    <2>1. r.pc = "update_read" /\ req[p].pc = "sidecar"
      BY <1>0, <1>5 DEF Request, FinaliseSidecar, At
    <2>2. Become(p, r) /\ man' = man /\ chunk' = chunk /\ sidecar' = req[p].body
      BY <1>5 DEF FinaliseSidecar, record
    <2>3. sidecar' # NoBody /\ (Live(man') => ChunkIds \subseteq Stored)
      BY <2>1, <2>2, SentinelAssumption DEF BackInv, Backed
    <2>4. Live(man') => Keys \subseteq Stored'
      BY <2>2, <2>3 DEF Stored, Keys, ChunkIds, Hashes
    <2> HIDE DEF r
    <2>5. Backed(r, Stored', Live(man'))
      BY <2>1, <2>4 DEF Backed
    <2> QED
      BY <1>1, <2>2, <2>5
  <1>6. ASSUME NEW b \in Bodies, NEW root \in Bodies, FinaliseStart(p, b, root)
        PROVE  \A q \in Procs : Backed(req'[q], Stored', Live(man'))
    <2> DEFINE r == [[NewReq("complete", "finalise") EXCEPT !.body = b, !.root = root] EXCEPT !.t = now]
    <2>1. r.pc = "complete" /\ r.body = b
      BY DEF NewReq, Idle
    <2>2. Become(p, r)
      BY <1>6 DEF FinaliseStart, Begin
    <2> HIDE DEF r
    <2>3. Backed(r, Stored', Live(man'))
      BY <2>1 DEF Backed, Updating
    <2> QED
      BY <1>1, <2>2, <2>3
  <1>7. CASE OrphanRead(p)
    <2> DEFINE purge == [req[p] EXCEPT !.pc = "update_read", !.op = "purge"]
               residue == [req[p] EXCEPT !.pc = "delete", !.op = "orphan_residue"]
               stale == [req[p] EXCEPT !.pc = "delete", !.op = "stale"]
    <2>1. /\ purge.pc = "update_read" /\ purge.op = "purge"
          /\ residue.pc = "delete" /\ residue.op = "orphan_residue"
          /\ stale.pc = "delete" /\ stale.op = "stale"
      BY <1>0 DEF Request
    <2>2. \/ OrphanPlan(req[p]) \in {Idle, purge, stale}
          \/ OrphanPlan(req[p]) = residue /\ ~Live(man)
      <3>1. CASE Exists(man) /\ man.consumed
        BY <3>1 DEF OrphanPlan, Live
      <3>2. CASE ~(Exists(man) /\ man.consumed)
        BY <3>2 DEF OrphanPlan
      <3> QED
        BY <3>1, <3>2
    <2>3. Become(p, OrphanPlan(req[p]))
      BY <1>7 DEF OrphanRead
    <2> HIDE DEF purge, residue, stale
    <2>4. Backed(OrphanPlan(req[p]), Stored', Live(man'))
      BY <1>0, <2>1, <2>2, StaysOver DEF Backed, Updating
    <2> QED
      BY <1>1, <2>3, <2>4
  <1>8. CASE p = Cron /\ NightlyRead
    <2> DEFINE purge == [req[p] EXCEPT !.pc = "update_read", !.op = "purge"]
               forget == [req[p] EXCEPT !.pc = "remove", !.op = "forget"]
               residue == [req[p] EXCEPT !.pc = "delete", !.op = "residue", !.m = man,
                             !.at = man.consumed_at, !.removed = man.removed]
    <2>1. /\ purge.pc = "update_read" /\ purge.op = "purge"
          /\ residue.pc = "delete" /\ residue.op = "residue"
          /\ forget.pc = "remove"
      BY <1>0 DEF Request
    <2>2. NightlyPlan(req[p]) \in {Idle, purge, residue, forget}
      BY DEF NightlyPlan
    <2>3. Become(p, NightlyPlan(req[p]))
      BY <1>8 DEF NightlyRead
    <2>4. req'[p] = NightlyPlan(req[p])
      BY <2>3 DEF Become, TypeInv, TypeOK
    <2>5. Finisher(NightlyPlan(req[p])) => ~Live(man')
      BY <2>4, StepEnd DEF EndInv
    <2> HIDE DEF purge, residue, forget
    <2>6. Backed(NightlyPlan(req[p]), Stored', Live(man'))
      BY <1>0, <2>1, <2>2, <2>5 DEF Backed, Updating, Finisher
    <2> QED
      BY <1>1, <2>3, <2>6
  <1>9. CASE (p \in Reqs /\ OrphanList(p)) \/ (p = Cron /\ NightlyList)
    <2>1. PICK r : Become(p, r) /\ r.pc \in {"orphan_read", "nightly_read"}
      <3>1. CASE p \in Reqs /\ OrphanList(p)
        <4> DEFINE r == [[NewReq("orphan_read", "orphan") EXCEPT
                            !.keys = Stored, !.at = IF activity > written THEN activity ELSE written] EXCEPT !.t = now]
        <4>1. r.pc = "orphan_read"
          BY DEF NewReq, Idle
        <4>2. Become(p, r)
          BY <3>1 DEF OrphanList, Begin
        <4> HIDE DEF r
        <4> QED
          BY <4>1, <4>2
      <3>2. CASE p = Cron /\ NightlyList
        <4> DEFINE r == [[NewReq("nightly_read", "nightly") EXCEPT !.keys = Stored] EXCEPT !.t = now]
        <4>1. r.pc = "nightly_read"
          BY DEF NewReq, Idle
        <4>2. Become(p, r)
          BY <3>2 DEF NightlyList, Begin
        <4> HIDE DEF r
        <4> QED
          BY <4>1, <4>2
      <3> QED
        BY <1>9, <3>1, <3>2
    <2> QED
      BY <1>1, <2>1, BackedLabels
  <1> QED
    BY <1>2, <1>3, <1>4, <1>5, <1>6, <1>7, <1>8, <1>9 DEF Handle, Start, Simple

LEMMA StepBack ==
  ASSUME Sizes \subseteq {"good"}
  PROVE  TypeInv /\ EndInv /\ LifeInv /\ BackInv /\ [Next]_vars => BackInv'
  <1> SUFFICES ASSUME TypeInv, EndInv, LifeInv, BackInv, [Next]_vars PROVE BackInv'
    OBVIOUS
  <1>1. \A q \in Procs : Backed(req'[q], Stored', Live(man'))
    <2>1. CASE \E p \in Procs : Handle(p) \/ (p \in Reqs /\ Start(p))
                                \/ (p = Cron /\ (NightlyList \/ NightlyRead)) \/ Crash(p)
      BY <2>1, HandlerBacked
    <2>2. CASE UNCHANGED req
      BY <2>2, BackedStays
    <2> QED
      BY <2>1, <2>2 DEF Next, Nightly, Procs, PutChunk, Tick, vars
  <1>2. \A c \in ChunkIds : chunk'[c] # "bad"
    <2>1. CASE UNCHANGED chunk
      BY <2>1 DEF BackInv
    <2>2. CASE \E K : Remove(K)
      BY <2>2 DEF Remove, BackInv
    <2>3. CASE \E c \in ChunkIds, size \in Sizes : PutChunk(c, size)
      BY <2>3 DEF PutChunk, BackInv, TypeInv, TypeOK
    <2> QED
      BY <2>1, <2>2, <2>3
      DEF Next, Nightly, Procs, Handle, Start, NightlyList, NightlyRead, Crash, UpdateRead, UpdateLose, UpdateWin,
       Release, Tick, vars, FinaliseStart, FinaliseList, FinaliseDeleteWrong, FinaliseSidecar, FinaliseDockRead,
       FinaliseDockPut, DownloadStart, DownloadServe, DeleteStart, ConfirmStart, TakedownStart,
       List, DeleteGroup, DeletePart, PutTombstone, PutTombstoneFails, DockOff, DockMark, OrphanList,
       OrphanRead, RemoveManifest, objects
  <1>3. CompleteLive(man') => Keys \subseteq Stored'
    <2>1. CASE CompleteLive(man)
      BY <2>1, NothingTaken DEF BackInv, CompleteLive
    <2>2. ASSUME NEW p \in Procs, UpdateWin(p), req[p].op = "finalise", CompleteLive(man')
          PROVE  Keys \subseteq Stored'
      <3>1. Updating(req[p]) /\ Live(man) /\ Stored' = Stored
        BY <2>2, StaysOver DEF UpdateWin, At, Updating, CompleteLive, objects, Stored
      <3> QED
        BY <3>1 DEF BackInv, Backed
    <2> QED
      BY <2>1, <2>2, StaysOver
  <1> QED
    BY <1>1, <1>2, <1>3 DEF BackInv

\* Every chunk and the sidecar of a finalised transfer are there until it ends: no sweep, no
\* request that was left behind and no deletion of anything else has taken one, when every PUT
\* is of the size its URL was signed for (CompleteIsBacked).
THEOREM CompleteIsWhole ==
  ASSUME Sizes \subseteq {"good"}
  PROVE  Spec => []CompleteIsBacked
  <1>1. Spec => []TypeInv
    BY InitType, TypeStep, PTL DEF Spec
  <1>2. Spec => []EndInv
    BY <1>1, InitEnd, StepEnd, PTL DEF Spec
  <1>3. Spec => []LifeInv
    BY <1>1, InitLife, StepLife, PTL DEF Spec
  <1>4. Init => BackInv
    <2> SUFFICES ASSUME Init PROVE BackInv
      OBVIOUS
    <2>1. ~CompleteLive(man) /\ \A p \in Procs : req[p].pc = "idle"
      BY DEF Init, FreshManifest, CompleteLive, Idle
    <2> QED
      BY <2>1, BackedLabels DEF BackInv, Init
  <1>5. TypeInv /\ EndInv /\ LifeInv /\ BackInv /\ [Next]_vars => BackInv'
    BY StepBack
  <1>6. BackInv => CompleteIsBacked
    BY StoredKeys DEF BackInv, CompleteIsBacked, CompleteLive
  <1> QED
    BY <1>1, <1>2, <1>3, <1>4, <1>5, <1>6, PTL DEF Spec
=============================================================================
