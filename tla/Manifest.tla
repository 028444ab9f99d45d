------------------------------ MODULE Manifest ------------------------------
(***************************************************************************)
(* The record a transfer keeps at {uuid}/manifest.json and the pure rules   *)
(* the Worker applies to it.  Time is counted in coarse units (a unit       *)
(* stands for a day or two); the transfer is created at time 0.             *)
(***************************************************************************)
EXTENDS Integers

CONSTANTS
  NoManifest,     \* the value of a manifest object that does not exist
  Bodies,         \* what a finalise body can carry: one value per set of chunk hashes
  NoBody,         \* no sidecar written / no merkle_root recorded
  Expiry,         \* expiry_timestamp - created_at
  SessionLife,    \* UPLOAD_WINDOW: the longest life of an upload session
  Grace,          \* EXPIRY_GRACE_SECONDS
  StaleAfter,     \* MIN_STALE_HOURS, the floor of the orphan sweep's stale threshold
  TombKeep        \* TOMBSTONE_KEEP_SECONDS

\* The code fixes UPLOAD_WINDOW at 6 days, the stale floor a day above it
\* (IN_FLIGHT_CUTOFF_SECONDS), and keeps the leftover record for 30 days.
ASSUME TimesAssumption ==
  /\ Expiry \in Nat \ {0} /\ SessionLife \in Nat \ {0}
  /\ Grace \in Nat
  /\ StaleAfter \in Nat /\ StaleAfter > SessionLife
  /\ TombKeep \in Nat /\ TombKeep > SessionLife

\* Absent timestamp.  Unix seconds are never negative, so the code's truthiness
\* tests on timestamps read as comparisons with NoTime.
NoTime == -1
Time == Nat
TimeOrNone == Time \cup {NoTime}

\* pending_destruction: absent ("off"), false ("armed": destroy after download)
\* or true ("served": only a manifest older than the destroy-at-download code).
Arms == {"off", "armed", "served"}

RootOrNone == Bodies \cup {NoBody}

ManifestRecord ==
  [consumed : BOOLEAN, consumed_at : TimeOrNone, removed : BOOLEAN,
   total_chunks : BOOLEAN,            \* whether the field is still present
   upload_complete : BOOLEAN, merkle_root : RootOrNone,
   download_initiated_at : TimeOrNone, pending_destruction : Arms]

ASSUME SentinelAssumption == NoManifest \notin ManifestRecord /\ NoBody \notin Bodies

ManifestOrNone == ManifestRecord \cup {NoManifest}

\* What initiate writes.
FreshManifest(arm) ==
  [consumed |-> FALSE, consumed_at |-> NoTime, removed |-> FALSE,
   total_chunks |-> TRUE, upload_complete |-> FALSE, merkle_root |-> NoBody,
   download_initiated_at |-> NoTime, pending_destruction |-> arm]

\* The final record of a deleted transfer: nothing but how and when it ended.
Tombstone(at, gone) ==
  [consumed |-> TRUE, consumed_at |-> at, removed |-> gone,
   total_chunks |-> FALSE, upload_complete |-> FALSE, merkle_root |-> NoBody,
   download_initiated_at |-> NoTime, pending_destruction |-> "off"]

Exists(m) == m # NoManifest
Consumed(m) == Exists(m) /\ m.consumed
Live(m) == Exists(m) /\ ~m.consumed
IsTombstone(m) == Consumed(m) /\ ~m.total_chunks
InProgress(m) == Consumed(m) /\ m.total_chunks

SessionExp == IF SessionLife < Expiry THEN SessionLife ELSE Expiry

\* A verified upload session admits a finalise, or a presigned PUT, begun at t.
SessionValid(t) == t < SessionExp

\* Expired, unless the download began before the expiry.
DownloadBlocked(m, t) ==
  /\ t > Expiry
  /\ ~(m.download_initiated_at # NoTime /\ m.download_initiated_at < Expiry)

\* Mutant: a transfer whose download has begun is never purged.
SparesDownloaded(m, t) ==
  /\ m.upload_complete /\ ~m.consumed
  /\ t > Expiry + Grace
  /\ m.download_initiated_at = NoTime

\* Finalised, not consumed, past expiry and grace, no download in its own grace.
IsPurgeableExpired(m, t) ==
  /\ m.upload_complete /\ ~m.consumed
  /\ t > Expiry + Grace
  /\ ~(m.download_initiated_at # NoTime /\ t - m.download_initiated_at <= Grace)

\* Mutant: the stale threshold has no floor above the life of a session.
StaleWithoutFloor(lastActivity, t) == 0 < t /\ lastActivity < t

\* Neither the upload's start nor its last activity is recent.
IsStale(lastActivity, t) == 0 < t - StaleAfter /\ lastActivity < t - StaleAfter

\* The manifests updateManifest's callers write over the one they read.
Completed(m, root) == [m EXCEPT !.upload_complete = TRUE, !.merkle_root = root]
Stamped(m, t) == [m EXCEPT !.download_initiated_at = t]
Latched(m, t, gone) ==
  [m EXCEPT !.consumed = TRUE, !.consumed_at = t, !.removed = @ \/ gone]
=============================================================================
