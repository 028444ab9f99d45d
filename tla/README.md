# Formal models of Refueler Share

This directory holds TLA+ models of the Refueler Share Worker (`src/worker/src`)
and of the Postgres functions it calls (`src/supabase/migrations`), the TLC
configurations that check them on small instances, and proofs that TLAPS checks
for every value of the constants. Paths below are relative to the repository's
`src/` unless they begin with `src/`.

## 1. The system

Refueler Share moves encrypted files. A browser asks the Worker to *initiate* a
transfer, PUTs chunks straight to R2 with presigned URLs, and asks the Worker to
*finalise*; a recipient downloads chunk by chunk; a transfer ends by a deletion, by
its expiry or by a moderator. There is no lock anywhere: a request is a Worker
invocation that runs from one `await` to the next, and every other request, the
nightly cron job and R2 itself run in between. Three stores keep state, and no
transaction spans two of them:

- **R2** holds `{uuid}/manifest.json`, the chunks and the hashes sidecar. It offers
  atomic puts of one object, conditional puts on an etag, listings and batched deletes.
- **KV** holds the Execution Dock's index, soak-test flags and the webhook queue,
  with no conditional write.
- **Supabase** holds the quota accounts, the spent credentials, the credit pools,
  sessions, subscriptions and API keys. Each SQL function is one transaction, but a
  call can be lost before or after the database ran it.

### Inventory

| Component | State it keeps | Operations | What is hard | What makes it correct |
|---|---|---|---|---|
| Manifest latch, conditional update (`worker/src/latch.js`) | the manifest | read + mutate + conditional put with retries; the live -> consumed latch; hand the quota hold back | every deletion path races every other, and finalise and download | one path wins the latch; the hold is handed back at most once |
| Destruction (`handlers/delete_transfer.js`, `confirm_transfer.js`) | objects, manifest, dock entry | owner and recipient DELETE, confirm, destroy-after-download | dies between any two steps; two finish the same deletion | end date fixed, record keeps `removed`, objects gone |
| Finalise (`handlers/finalise.js`) | sidecar, manifest, dock entry | list, delete wrong sizes, put sidecar, complete, convert the quota | two finalises at once; a deletion meanwhile; a delete against a re-upload | runs once; a completed transfer keeps its chunks |
| Download (`handlers/download.js`) | `download_initiated_at` | serve from a copy of the manifest, destroy after the last chunk | stale copy of the manifest | does not resurrect or re-latch |
| Nightly sweep (`nightly_sweep.js`, `sweep_rules.js`) | - | clear residue, purge expired, forget old records | decides on an old listing; batches half fail; 500 reads a night | never strands a chunk; everything is swept in the end |
| Orphan sweep (`handlers/orphan_sweep.js`) | - | residue, expired, stale uploads, chunks without a manifest | deletes without a latch | never takes an upload that can still finish |
| Take-down (`handlers/reports.js`, `report_store.js`, `supabase/migrations/20261022_osa_tools_1_reports.sql`) | register of reports | open, update and clear cases; destroy, resume, record | races the other deletions; the case is edited between the check and the record | the record says `removed`; the register says what happened, once |
| Root patch (`handlers/patch_merkle_root.js`) | manifest | read, put without a condition | clobbers a concurrent latch | one hand-back, which it breaks (6.1) |
| Quota ledger (`supabase/migrations/20261011_b12_3_quota.sql`, `quota_store.js`) | account, reservations | reserve, finalise, release, provision, refresh | retries of calls already applied, expiry | reserved = sum of rows; used covers what R2 holds; limit binds |
| Quota reconcile (`handlers/quota_reconcile.js`) | used, reconciled_at | clock, scan, write | the total is minutes old when written | never loses a transfer; repairs drift |
| Initiate (`index.js` `handleInitiate`) | reservation, spent serial, credits, manifest | check, reserve, spend, debit, create, and the undoing of each | every step can fail or be raced after the ones before took effect | one credential pays once; nobody's reservation is cancelled by another; refusals leave nothing |
| Upload sessions (`upload_session.js`) | stateless token | make, verify | same transfer, count and end give the same hash | a retry cannot hold twice |
| Execution Dock (`handlers/execution_dock.js`) | KV entries | made by initiate, merged by finalise, removed by deletions | read-merge-put against a delete | cosmetic: entry of an ended transfer may survive till its TTL |
| Credit pool, API issue (`quota.js`, `api_store.js`, `supabase/migrations/20261009_kv_fix_2_api_keys.sql`) | pool: remaining, overage, period | spend, lazy reset, refund, provision, cancel | a debit applied whose answer is lost; a refund in another period; one rule written twice (SQL and JavaScript) | nothing free, nothing charged twice, both rules agree |
| API keys (`api_auth.js`, `api_store.js`, `handlers/api_admin.js`, `sandbox.js`) | key rows, a cache per isolate | look up, onboard, revoke, activate | a lookup under way while the key is revoked; onboarding dies half-way | a revoked key is out within the cache's life; no identity-rail key without its pool, none with one on the anonymous rail |
| Webhooks, receipts (`webhook_reg.js`, `webhook_delivery.js`, `receipts.js`) | registration, receipts, dead-letter queue and guard in KV | send off the response path, queue, retry nightly | crash between send and delete; registration replaced in between | no event lost or sent without cause; a letter is tried every night |
| Subscriptions (`handlers/stripe_sub.js`, `stripe.js`) | subscription row | webhook fetches and upserts | events late, doubled, out of order; two webhooks at once | the tier is open only for a period Stripe gave; the row settles on what Stripe says |
| Sign-in (`handlers/auth.js`, `auth_store.js`, `supabase/migrations/20261012_b12_4a_auth.sql`) | links, sessions | request, click, look up, sign out, revoke | a link clicked twice; an address that changes under a request | one session per link; ended stays ended; the old address is out |
| Upload page (`frontend/upload*.js`) | IndexedDB record, R2 parts | send, stop, try again, refresh, resume, finalise | a changed file, several tabs, a lost answer, writes nobody awaits | the link is one whole file; the record counts only what R2 has; no stop for ever |
| Unlock and meta, rate limits, operations, cryptographic primitives, download page, Navy Office | - | reads, counters, pure functions | - | not modelled (section 8) |

`PROJECT.json` lists the same components with their files and status, and every
hazard with the line at which it bites and the properties that would catch it.

## 2. The modules

| Module | Lines it stands for | What it models |
|---|---|---|
| `Manifest` | `manifest.js`, `manifest_tg.js`, `sweep_rules.js`, `upload_session.js` | the manifest record and the pure rules on it: consumed, tombstone, session, expiry, grace, stale |
| `Transfer` | `latch.js`, `finalise.js`, `download.js`, `delete_transfer.js`, `confirm_transfer.js`, `reports.js`, `nightly_sweep.js`, `orphan_sweep.js`, `sweep_rules.js` | one transfer in R2 and everything that acts on it concurrently |
| `Lifecycle` | (abstract) | what `Transfer` promises: five phases and the credit |
| `RootPatch` | `patch_merkle_root.js` | `Transfer` with the admin's root patch beside it |
| `Ledger` | `20261011_b12_3_quota.sql` | one quota account, one operator per SQL function |
| `Occupancy` | `quota_reconcile.js`, the quota calls of initiate, finalise and `latch.js` | an account over the life of several transfers, R2 and Supabase apart |
| `Allowance` | (abstract) | what `Occupancy` promises while calls are prompt: one number of chunks left |
| `Initiate` | `index.js` `handleInitiate`, `api_store.js` | several initiates of several kinds at once |
| `Credits` | `20261009_kv_fix_2_api_keys.sql`, `quota.js`, `api_store.js`, `api_auth.js`, `api_admin.js`, `sandbox.js`, the API issue of `index.js` | keys, their caches, pools, the admin's routes and the requests that authenticate and pay |
| `Delivery` | `webhook_reg.js`, `webhook_delivery.js`, `receipts.js`, `receipt_store.js`, the events of `finalise.js`, `download.js`, `confirm_transfer.js`, `timestamp.js` | a registration, the tasks that send an event, the dead-letter queue and its job |
| `Register` | `reports.js`, `20261022_osa_tools_1_reports.sql`, and of `delete_transfer.js` what a take-down can tell apart | the cases, and the take-downs and other deletions of their links |
| `Subscriber` | `stripe_sub.js`, `stripe.js`, `20261027_stripe_account_1_citizen.sql` | one customer's row, with Stripe outside |
| `SignIn` | `auth.js`, `auth_store.js`, `20261012_b12_4a_auth.sql`, `20261013_b12_4a2_citizen.sql` | links and sessions of one principal |
| `Upload` | `frontend/upload-*.js`, and of the Worker what the page sees | one file sent from several tabs |
| `TransferProofs` | - | `Transfer`: types, one release, one end date, implements `Lifecycle`, nothing orphaned, nothing lost |
| `OccupancyProofs` | - | `Ledger` and `Occupancy`: types, the sum, the reservation of an upload, what the account covers, the limit, implements `Allowance` |
| `InitiateProofs` | - | `Initiate`: types, who owns a reservation and a credential, that each transfer is paid for and each refusal releases |
| `CreditsProofs` | - | `Credits`: types, keys and pools, revocation, one rule, every credit accounted for |
| `DeliveryProofs` | - | `Delivery`: types, nothing lost, nothing sent without cause, each letter tried every night |
| `RegisterProofs` | - | `Register`: what a case says of its link, and that one case says it |
| `UploadProofs` | - | `Upload`: the link is one file, the record is backed |
| `CitizenProofs` | - | `SignIn`: links, sessions, the old address; `Subscriber`: types, what opens the tier, the row settles |
| `MCTransfer`, `MCRootPatch`, `MCOccupancy`, `MCInitiate`, `MCCredits`, `MCDelivery`, `MCSubscriber`, `MCSignIn`, `MCUpload`, `MCRegister` | - | the instances TLC checks |

`Transfer` extends `Manifest`, `RootPatch` extends `Transfer`; `Occupancy` and
`Initiate` both extend `Ledger`; each proof module extends the module it is about,
and `CitizenProofs` both `SignIn` and `Subscriber`, whose names are therefore kept apart (`SubInit`, `SubNext`, `Elapse`). `Occupancy` meets `Transfer` at the latch: what is a
sequence of steps there (latch, then release) is the pair `Latch`, `Release` here, and
the fact that there is one release per latch is `ReleasedOnce`, proved of `Transfer`.
`Credits` has the pool that `Initiate` debits, with everybody else who changes it.
`Delivery` keeps of the manifest only the state the events depend on, and `Upload`
of the Worker only what the page is answered; that what they rely on holds (a finalised
transfer keeps its chunks, a record outlives the retention of a letter) is checked of `Transfer`.

Operators marked "Mutant" are not used by any specification. Each is a plausible wrong
version of the definition beside it, and `PROJECT.json` says which property catches it.

### How a handler becomes actions

`req[p]` is the handler in slot `p`: its label `pc`, what it was called for (`op`) and
the locals it still needs. Each action is what the code does from one `await` to the
next, so a local read earlier (the manifest `m` a download serves from, the `seen` copy
whose etag a conditional put carries, the `keys` of a listing) is a copy that may be
stale. A slot is reused when its handler returns, so any number of requests can be made
one after another, with as many in flight as there are slots.

| Code | Actions of `Transfer` |
|---|---|
| `updateManifest`, `latchConsumed` | `UpdateRead`, `UpdateWin`, `UpdateLose`, with `Declines`, `Mutated`, `AfterDecline`, `AfterWrite`, `AfterContention` for each caller |
| `releaseHeld` | `Release` (counted in `releases`) |
| `handleFinalise` | `FinaliseStart`, `FinaliseList`, `FinaliseDeleteWrong`, `FinaliseSidecar`, update, `FinaliseDockRead`, `FinaliseDockPut` |
| `handleDownload` | `DownloadStart`, update (first chunk), `DownloadServe` |
| `destroyTransfer` and its callers | `DeleteStart`, `ConfirmStart`, `TakedownStart`, update, `Release`, `List`, `DeleteGroup`/`DeletePart`, `PutTombstone`, `DockOff` |
| `runNightlySweep` | `NightlyList`, `NightlyRead`, then residue / purge / forget |
| `handleOrphanSweep` | `OrphanList`, `OrphanRead`, then residue / purge / stale |
| the browser's PUT (`Upload` has the browser) | `PutChunk`, whatever the manifest says, while a session lives or just after |
| eviction, an R2 call that throws, a batch that half fails | `Crash`, `PutTombstoneFails`, `DeletePart` |

In the other modules a handler is again a record with a label, and an action is what the code does
from one `await` to the next:

| Code | Actions |
|---|---|
| `requireApiAuth` and the keyed cache | `Credits`: `Arrive`, `Ask`, `CacheAnswer`, `Check`, `Evict` |
| `api_credits_spend`, `handleApiCredentialIssue` | `Spend`, `SpendRefused`, `SpendLost`, `Sign`, `SignFails`, `Refund`, `RefundLost` |
| onboarding, sandbox activation, provision, cancel, revoke | `Create`, `CreateKey`, `CreateAnonymous`, `Forget`, `Find`, `Provision`, `Cancel`, `Revoke` |
| the events and `sendEvent` | `Delivery`: `Accept`, `Seal`, `Discharge`, `Destroy` and `Confirm`, then `ReadGuard` ... `DeadLetter` |
| `retryDeadLetterQueue` | `List`, `Read`, `JobConfig`, `JobPost`, `Delete`, each with its failure |
| the Stripe webhook | `Subscriber`: `Deliver`, `Fetch`, `Upsert` and their failures |
| `sendMagic`, `handleVerify`, `requireSession`, sign-outs | `SignIn`: `LookUp`, `Issue`, `Mail`, `Verify`, `Create`, `Present`, `Again`, `SignOut`, `SignOutEverywhere` |
| the trigger on the address, `auth_revoke_principal`, the hourly sweep | `Change`, `Return`, `Revoke`, `Sweep` |
| `report_open`, `report_update`, `report_delete_training`, `report_takedown` | `Register`: `Open`, `Update`, `DeleteTraining`, `Record` |
| `handleReportsTakedown` and whatever else destroys | `Takedown`, `Deletion`, then `Read`, `Latch`, `Delete`, `Tombstone` |
| the upload page | `Upload`: `Begin`, `Resume`, `Recheck`, `FetchUrls`, `Send`, `Acked`, `Sent`, `Finalised`, `Persist`, `Retry`, `Close` |

### Abstractions

`Manifest` and `Transfer`
- One transfer. Requests on different transfers share no object in R2.
- An R2 etag is a digest of the bytes, so `etagMatches` is equality with the manifest
  read. The one place where that could matter (a manifest changed and changed back)
  is therefore possible in the model as it is in R2.
- Time is in coarse units, 0 at creation. `SessionLife < StaleAfter` is the day's margin
  between `UPLOAD_WINDOW` and `MIN_STALE_HOURS`; `Tick` lets a handler outlive the unit
  it began in by one. `SessionLife < TombKeep` stands for six days at most against the thirty
  a leftover record is kept. `PutChunk` is allowed up to and including `SessionExp`: a PUT
  whose URL was valid when it began and that lands late.
- Left out: the KV flag `root_verified` (a cached answer of the comparison that `CanServe` makes each time), receipts, webhooks, the tidal window, the
  timestamp stamp, byte ranges and incremental verification. None is read by the paths
  that change the manifest or the objects.
- The nightly sweep's window of 500 and the action caps: the one transfer is always
  reached. `NightlyList` starts a sweep only when the listing makes this transfer
  worth a read.
- Orphan rule 2 (chunks under no manifest) has nothing to act on, as
  `NoOrphanObjects` holds; R2's own 92-day lifecycle rule is left out, as is
  `wrong_size=delete` of the orphan sweep.
- `pending_destruction: true` ("served") is written by no code any more; it enters only
  through `Arming`, as a manifest of an earlier version.

`Ledger`, `Occupancy`
- A reservation is known by its session hash. A session stands for a transfer's one
  upload in `Occupancy`.
- `updated_at` is reduced to what `quota_reconcile` asks of it: was the account written
  at or after `t0`? `fresh` says that the last write was in the present second, so
  that a scan begun in the same second counts it as touched (the SQL compares with `<`).
- `Slow` and `Lossy` name the assumptions of a run: which calls may be overtaken and
  which may be lost. With both empty every call is answered before the session ends
  and before the next reconcile writes.
- The account is provisioned; changes of limit are not modelled.

`Initiate`
- Two requests in flight, several transfers, sessions and credentials; `session_hash` is
  the primary key of the whole reservations table, so a hash held by the *other* account
  is an error too (`Answer`). No session expires here: `Occupancy` has that.
- Header validation, expiry ceilings and tier caps are refusals before the first
  change of state and are left out. The pool is a hard stop and a transfer costs one
  credit; overage, periods and cancellation are in `Credits`.
- An applied reservation whose answer is lost is the same behaviour as `Reserve`
  followed by `Crash`: the request ends and the row stays.
- After `Create` come the dock entry and the presigned URLs; when they fail, nothing is
  undone, and `Transfer` starts with the dock entry there or not.

`Credits`
- An org has one key, as onboarding makes it. Timestamps are ticks; a period is `Month` ticks and a
  cache entry lives `Ttl`.
- A sandbox key is of the identity rail, with a pool made first, or of the anonymous rail, with none: its tokens are
  the client's, and a spend with it is refused before a pool is looked for (`CanSpend`).
- Onboarding's middle call, the storage account, is left out (`Initiate` and `Occupancy` have that
  account), as are quota warnings, request signatures and the statistics.
- `granted`, `carried`, `lost` and `gen` are history: what work was done against the present filling
  of the pool, which refunds came over from an earlier one, and what an answer that was lost charged to nobody.

`Delivery`
- One transfer, one endpoint, days for time. A task is one event that came up, sent once at once and
  then by the nightly job. An endpoint may accept, refuse, or accept without being heard (`PostUnanswered`).
- A destruction is its latch (`Destroy`) and, some time later the same day, its notice (`Confirm`): what lies between is
  `Transfer`'s. Two downloads that both destroy give two notices; a deletion, and a destruction that
  is only partial, give none. In `SentOnce` each of these, and each last chunk served, is a time the event came up.
- The address checks of `webhook_url.js`, the MAC of an envelope and the signature of a receipt are left
  out but for *which* secret they are made with (`id`).

`Subscriber`
- Stripe is external: checkout, payment, renewal, failure, abandonment, cancellation and a trial begun by hand change a
  subscription and put out an event; an event is there until it is answered 200. A trial counts as active (`stripe_sub.js:54`), and it may be on a price that is not
  Citizen, with no end to its item: the row is then `free`, or has no end. `past_due` stands for `unpaid` and `paused` too.
  A subscription whose price is changed by hand is left out.
- `given` is history: the periods Stripe gave on a Citizen price, paid for or in trial. `overlap` is history: two
  webhooks of the customer have run at once.
- Signatures, the portal and the customer's e-mail are left out: the look-up of the address lies between fetch and
  write, which are two steps here as well, and when it fails the write goes on without it. A delivery whose signature fails changes nothing.

`SignIn`
- One principal. Rate limits, Turnstile, CSRF, and the choice of organisation are left out; the idle
  window of the first look-up, an org admin's and shorter than the Citizen's, is not.
- `raced` is history: the tokens and sessions made by a request that had begun before a change of
  address. The code lets those live (section 6.8), and `OldAddressOut` says that nothing else does.

`Upload`
- One file of `N` parts; a part is named by the content it was made from, since a part is encrypted the
  same way every time. Folders, progress and the wording of stops are left out.
- `clash` is history: a file was resumed that is not the one another tab sends, or not the one the
  finished transfer has, or from a card whose note R2 no longer bears out (section 6.8 has the three tabs that
  takes). The page cannot know of it, and the properties are about every other case.
- A transfer destroyed while it is uploaded is left out. A URL fetch or a finalise is answered 410, or 404, then
  (`index.js:2024-2025`, `handlers/finalise.js:165-166`); the page takes a finalise's 404 for the end, and for the others stops with
  *Try again* (`upload-send.js:113-117`, `233-241`). The session's end is the only end from outside, and
  `UploadEnds` says nothing of a transfer that was destroyed.
- Every write to IndexedDB is queued (`pending`) and lands in order, later; a closed tab loses what is queued.

`Register`
- A transfer is its manifest's state (`live`, `ending`, `ended`, `gone`) and whether anything is under it; that a
  deletion's listing misses nothing, and what a late PUT leaves, is `Transfer`'s. A link is known by its eight characters, as the
  register knows it; two transfers that share them are not modelled.
- A case is the link, the category, whether it is open, and the take-down's date. Reasons, the reporter's answer, the log of events,
  exports and the numbers beyond 9999 are left out.
- `met` and `unsaid` are history: which links were under two deletions at once, and which had a take-down that nobody recorded for one
  of the reasons the code has (section 6.8).

## 3. The runs

`root_patch` expects a violation: it checks a statement of the repository's own comments, which the
code does not keep (section 6).

| Run | Question | Instance | Answer |
|---|---|---|---|
| `transfer_races` | Do any two requests and the nightly sweep race safely on one transfer? | 2 request slots, 1 chunk, 4 time units, no faults | `ReleasedOnce`, `CompleteIsBacked`, `NoOrphanObjects`, `EndDateFixed` hold; `Lifecycle` is implemented |
| `transfer_live` | Is everything cleaned up in the end? | fairness, 1 slot + cron, bad sizes, a manifest of the earlier version (so `/confirm` works), 1 crash or half-failed batch | residue is cleared for good, expired transfers end, records are forgotten |
| `root_patch` | Does the latch hold beside the root patch? | 2 slots | no (6.1) |
| `occupancy` | Do the meters cover what R2 holds, and does the limit bind, with the reconcile running through everything? | 3 transfers of 1, 1, 2 chunks, limit 3, 2 in flight, releases and initiates lost | yes, and `Allowance` is implemented |
| `occupancy_repair` | Do the meters recover from any lost or late call? | fairness, 2 transfers, all of `Slow` and `Lossy` | yes |
| `initiate` | Can requests pay twice, ride free or cancel one another? | 2 slots, 2 transfers, 3 sessions, 2 credentials, 4 kinds, 1 credit, 2 faults | no |
| `credits` | Is a credit given away or charged twice, and does a revoked key get in? | 1 org, 2 isolates, 2 requests at a time, 2 arrivals, 3 admin operations, 3 ticks, 1 lost answer or crash | no; both rules of a pool agree |
| `register` | Does the register say what happened to a link? | 1 link, 2 cases of either kind, 2 edits, 2 requests at once, 2 instants, 1 failure | yes, but for the cases of 6.8 |
| `delivery` | Is an event lost, or sent again without cause? | 2 events, 1 registration client, 4 days, 1 failure | no, and each letter is tried every night |
| `subscriber` | Does the row follow what Stripe says? | fairness, 2 subscriptions, checkouts or trials, on a Citizen price or another, 2 webhooks at once, 3 events, 1 failure | yes, but for two webhooks at once (6.8) |
| `signin` | Does a link, or a session, outlive what should end it? | 2 addresses, 2 links, 2 sessions, 2 requests at once, 1 change of address, 1 crash | no, but for requests under way (6.8) |
| `upload` | Does what the page sends come to one whole file, and does it end? | fairness, 2 tabs, 3 parts, 3 files of one name and size, 1 failure, 1 refresh | yes |

### The properties

- `ReleasedOnce`: the hold is handed back at most once and never while the transfer is
  live. Breaking it takes two deletion paths or a deletion and a stale writer.
- `CompleteIsBacked`: a live, finalised transfer has every chunk and its sidecar. It
  relates finalise's listing to the stale rule, to a lagging deletion and to the
  deadline of the session. Checked with chunks of the right size only: with wrong ones the
  code lets a PUT of the same session, or the deferred wrong-size delete of an earlier
  finalise, change an object after completion.
- `NoOrphanObjects`: the manifest never goes while an object remains. It rests on the
  order of `deleteGroups`, on the nightly sweep's "alone" test, and on the leftover record
  outliving every session and every handler; `TombKeep > SessionLife` and
  `StaleAfter > SessionLife` are those margins.
- `EndDateFixed`: the date the latch wrote survives every finisher, since it starts
  the thirty days of the leftover record.
- `ImplementsLifecycle`: refinement of `Lifecycle` under `phase <- Phase`,
  `credited <- releases > 0`. In particular, a transfer that is complete is never forgotten without
  having ended, and no phase is gone back to, except that a deletion overtaken by a
  stale-upload sweep may write a leftover record after the manifest went.
- `EndedIsEmptied`, `ExpiredIsEnded`, `RecordIsForgotten`: liveness.
- `ReservedMatchesRows`, `Covered`, `SessionBacked`, `HeldWithinLimit`: the account against R2.
  `Covered` says that each finalised live transfer is in `used_chunks` or still has
  its reservation to convert, whatever the reconcile overwrote.
- `ImplementsAllowance`: refinement of `Allowance` under `standing <- Standing(t)` (what R2, the session's clock and
  the initiates under way make of a transfer) and `left <- Limit - Held(Charging)`. However far the meters lag behind, a grant fits what is
  really left, a transfer is charged once, and what is over is neither stored nor granted again.
- `DriftIsRepaired`: once users leave the account alone the meters agree with R2 for ever.
- `PaidOnce`, `CreatedIsPaid`, `OwnerKeepsReservation`, `RefusalReleases`: see `Initiate`. The
  un-spend is the hazard: the credential goes back to a ledger other requests read.
- `NothingFree`, `ChargedOnce`: two halves of one balance. What the pool is short of is exactly the work
  done, the work under way, and what a lost answer or an immediate cancellation forfeited. Breaking them
  takes a spend, a refund and the end of a period, or an admin, in a bad order.
- `RevokedWithinTtl`: a request that arrives a cache's life after the revocation is refused everywhere, a
  lookup on its way included. `KeyHasPool`: onboarding and its undoing, dying anywhere, leave no identity-rail key
  without a pool, and the admin's routes give none to a key of the anonymous rail. `RulesAgree`: the SQL rule and `quota.js` give one answer for each pool that comes about.
- `NotLost`, `SentOnce`, `TriedNightly`: an event that came up is delivered, under way or queued (until a letter's
  seven days are over); it is sent once for each time it came up and once more per failed call; the job's
  listing leaves no letter out, whatever the others in it do.
- `OpenIsBacked`, `SettlesCurrent`, `PaymentCounts`: the tier is open only to the end of a period that a subscription was
  given on a Citizen price, paid for or in trial, and if that subscription has changed since, an event that
  says so is still to be answered (one webhook at a time); once all events are answered the row says what Stripe
  says, its tier and its end included; a payment or a trial opens the tier in the end (`Entitled`).
- `OldAddressOut`, `LinkOnce`, `EndedStays`, `IdleEnds`: what a change of address, a click, a sign-out and
  the idle window must each put an end to, with other requests between any two calls.
- `TakedownTrue`, `RecordedOnce`: what a case says of a take-down is true of the link, with the date its end got from whoever latched
  it; a link that says removed is recorded in one case, whichever of several cases asked, after crashes and resumptions.
- `LinkIsWhole`, `RecordIsBacked`, `UploadEnds`: the finished transfer is one file, the one in the tab
  that shows the link; a resume record never counts a part R2 lacks; each stop leads on to the link or to "can't be
  resumed".
- `TypeOK`, where a run checks it (`occupancy_repair`, `initiate`): for the meters and the pool it says in addition that
  none falls below zero. `Transfer`, `Credits`, `Subscriber` and `Delivery` have theirs as theorems only.

### Bounds, and why they are enough

- `MaxNow = 4` with `Expiry = SessionLife = 1`, `StaleAfter = TombKeep = 2`: the clock passes the
  end of the session, the expiry, the stale threshold and the end of the leftover record,
  each with handlers begun before and finished after.
- `Tries = 2` (4 in the code): one lost race that is retried and one that is not. Both
  outcomes of a loss occur; more tries add only more of the first.
- Two request slots and the cron: every pair of handlers, with a third (the sweep),
  each at any await. The theorems of section 5 have no such bound.
- `Credits`: pools of one credit, a cost of two beside the issue's one (so that a spend falls short in either
  plan), a month of one tick and three instants: a spend, its refund and a refill can lie in three
  different periods. Three admin operations make, empty and end an account; two arrivals are a race.
- `Delivery`: retention of two days in four, so that a letter is retried, tried again and dropped; two registrations,
  so that one replaces the other. It starts while the upload runs or already live.
- `Subscriber`: three changes: pay, fail or cancel, and another subscription's; two webhooks can cross in any way. Two
  instants and a period of one tick: a period ends. A trial is on a Citizen price with an end, or on another without; the
  theorems have all four kinds.
- `SignIn`: windows of 1, 2 and 3 ticks in four instants and a cap of one session, so that every end (expiry, idle,
  absolute, cap) is passed.
- `Upload`: three parts one URL at a time: a first, a middle and the tail, whose URL is another one. The files
  differ from the original in the first or in the last part; two tries a part; one refresh.
- `MaxFaults = 1` (`MaxFailures` in `Subscriber`) in most runs with faults: a crash or half-failed batch at any one place. Two in
  `initiate`, where an undoing that fails needs the failure before it.
- One chunk and its sidecar, so that a batch can stop between two objects; that nothing is orphaned and no phase is gone back to
  with more chunks, and with faults, is proved (section 5).
- `Register`: two cases, so that a second report meets a link that is removed, half removed or being removed; two edits close a
  case and open it again between the check and the record; two instants tell one end's date from another's.
- `Limit = 3` against holdings of 1, 1 and 2: the limit and `max_in_flight` both bind.
- Symmetry (`Symmetric`, `Symmetry`) is over request slots and finalise bodies, slots and
  serials, requests of `Register`, isolates, tasks, or links and sessions, which are interchangeable; it is used only where safety is checked.
- `CHECK_DEADLOCK FALSE` everywhere: the clock stops at `MaxNow`, a transfer that is gone
  and an account whose sessions are all over have no step left; the same goes for the bounds on events,
  arrivals and days of the other modules.

## 4. Fairness

- `Transfer`: weak fairness of the handlers (the platform runs a handler until it returns or is
  evicted; eviction is a step too), of the nightly sweep (the cron trigger of
  `index.js` `scheduled` fires every night) and of the clock. No upload,
  download, deletion or moderator is obliged to act.
- `Occupancy`: weak fairness of handlers, the reconcile and the second's tick; strong
  fairness of a session's end (it is an absolute time, although a concurrent initiate can
  disable the step for a moment); and `[]<>ReconcileWrite`: again and again there is a
  night whose scan is not cut short. A reconcile that aborts every night repairs nothing, in the
  code as in the model.
- `Subscriber`: strong fairness of each event's delivery, as Stripe retries it until it is answered and a busy or
  failing webhook only disables it for a time; weak fairness of a webhook's steps. Nobody is obliged to subscribe, pay or cancel.
- `Upload`: weak fairness of the page's own steps, of a PUT's arrival, and of *Try again*: the sender of a stopped
  upload goes on pressing it. Nothing obliges anyone to open a tab, to resume or to close.
- `Initiate`, `Credits`, `Delivery`, `SignIn` and `Register` check safety only. `TriedNightly` is the daily job's progress
  written as an invariant on its days.

## 5. What is proved

The eight proof modules are checked by TLAPS. What they say of `Transfer` holds for every
number of slots, chunks, tries, time units and faults and every combination of handlers; what they
say of the others, for every number of requests, transfers, sessions, credentials, orgs, isolates,
subscriptions, links, cases, tabs, parts, addresses and faults, and every length of a period, a window or a cache's life
that the assumptions allow. These are the named ones of the modules (`TimesAssumption`, `SentinelAssumption`,
`SizeAssumption`, `LedgerAssumption`, `OccupancyAssumption`, `InitiateAssumption`, `CreditsAssumption`,
`SubscriberAssumption`, `SignInAssumption`, `RegisterAssumption`, `UploadAssumption`, `DeliveryAssumption`), which TLC evaluates in the runs.
Four theorems have one more, in their statement: `CompleteIsWhole` has `Sizes \subseteq {"good"}`; `UsedCovers`,
`LimitHolds` and `AllowanceImplemented` have `Prompt`, which says which calls may not be slow or lost (below). The runs that check the four
properties satisfy it. No theorem uses fairness.

`Transfer`:

- **`TypeCorrect`**: `Spec => []TypeOK`. `TypeOK` is not inductive: that a written manifest
  is a manifest record needs to know that the handler at `update_put` holds a copy of one, which
  it read as not consumed, and that only callers with a `mutate` get there. `RequestOK`
  states, label by label, what a handler at that await holds; `TypeInv` is the
  conjunction. One lemma per operation or per group of small ones.
- **`ReleaseOnce`**: `Spec => []ReleasedOnce`, that is, at most one hand-back, never while live.
  The inductive invariant `ReleaseInv` says that at most one handler is about to
  release; that while one is, nothing has been given back and the transfer is not live; and
  that once something has been given back it is not live. The argument: only
  `UpdateWin` brings a handler to its release, it needs the manifest
  to equal the copy read, which `RequestOK` says was live, so by
  `ReleaseInv` nobody else is at its release and nothing has been given back; and no
  other step makes a consumed or missing manifest live again (`OtherHandlers`). That last
  fact is exactly what the root patch breaks (6.1).

- **`EndDateKept`**: `Spec => EndDateFixed`. Call a *finisher* a handler from its `release` to its
  `tombstone`. `EndInv` says that no finisher exists under a live transfer, that all finishers carry
  one date, and that it is the manifest's while there is a consumed manifest. The second part is
  what makes it inductive: after a stale-upload sweep has removed the manifest under a deletion,
  nothing but the other finishers remembers the date. A handler that becomes a finisher read the date
  from a consumed manifest, or has just won the latch, when by the first part it is the only
  one; a finisher that goes on keeps its date (`Fits`).
- **`LifecycleImplemented`**: `Spec => ImplementsLifecycle`, the refinement. Four kinds of step
  touch what the mapping sees. `UpdateWin` maps to `Finalise`, to `End` or to a stutter (`WinMaps`);
  `Release` to `Credit`, by `ReleaseInv`; `PutTombstone` to `Finish`, as by `EndInv` a
  finisher never writes over a live transfer; `RemoveManifest` to `Forget`. Only the
  last needs more: what is removed must not be a finalised live transfer. `LifeInv` has the argument
  about time: a handler is at most one unit old (`Tick` waits for it); a finalise began while the session
  lived; a removal of a stale upload began later than `StaleAfter`; and
  `StaleAfter > SessionLife`, so that no finalise is left that could complete the transfer between the
  orphan sweep's read and its removal (`SessionBeforeStale`). That margin is the code's day between
  `UPLOAD_WINDOW` and `MIN_STALE_HOURS`.
- **`NothingOrphaned`**: `Spec => []NoOrphanObjects`. A manifest is removed by a handler at `remove`, on the
  strength of a listing it took before. `EmptyInv` says of such a handler that it began after the session's end and that
  nothing is stored; of a stale deletion, that its keys are all there is; and of a sweep between listing and read, that
  if it began after the session's end its listing still has everything. After `SessionExp` no step adds an object
  (`NothingAdded`: no PUT, and no finalise old enough to still put a sidecar), so listings only grow too
  large. Whether a sweep began late enough is the two margins: a stale upload is older than `StaleAfter`, a
  leftover record older than `TombKeep`, and both outlast a session.
- **`CompleteIsWhole`**: `Spec => []CompleteIsBacked`. `BackInv` says what a finaliser knows: from its listing on, all
  chunks are there, and from its sidecar on, the sidecar is too, while the transfer is live. That no deletion
  undoes this is `NothingTaken`: whoever deletes is either a finisher, under which the transfer is not live
  (`EndInv`), or a stale-upload sweep, which is younger than any finalise may be (`LifeInv`).

`Initiate`:

- **`ReservationKept`**: `Spec => []OwnerKeepsReservation`. By `HoldInv`, a request between its
  reservation and its creation has a row of its own, which no other such request holds and no created
  transfer keeps; so the row it cancels is nobody else's. It rests on the reserve call being answered
  "ok" only for a session that had no row.
- **`CredentialPaysOnce`**: `Spec => []PaidOnce`. By `PayInv`, a request whose spend succeeded owns its serial
  alone until it creates or un-spends, so that an un-spend never returns a serial some transfer was paid with.
- **`EachIsPaid`**: `Spec => []CreatedIsPaid`. The serial's half follows from `PayInv`. The credits' half is a
  count: by `CreditInv` the Chartered transfers, the requests about to create one and what is left in the pool add up
  to no more than the pool. Only the debit moves one unit from the third to the second, and only the creation one
  from the second to the first; the cardinalities of a set with and without one element are the library's theorems.
- **`RefusalsRelease`**: `Spec => []RefusalReleases`. `OwnedInv` is stronger than the property: as long as no call has failed, a
  row of the account is of a request that is *bound to cancel or create* (`Holds`), not just of one that is running. A
  request leaves the labels of `Holds` by a creation, a cancellation, or a fault.
- **`InitiateTypes`**: `Spec => []TypeOK`. What is left beside the other invariants is that accounts stay accounts
  (`StoreTypes`); that a sum of reservations is a number is taken from `OccupancyProofs` through an instance of it (`Quota`).

`Occupancy`:

- **`ReservedIsSum`**, **`OccupancyTypes`**, **`UploadKeepsReservation`**: `Spec => []ReservedMatchesRows`, `[]TypeOK` and
  `[]SessionBacked`, whatever calls are slow or lost. `Core` says what each handler in flight is for (`Shape`):
  a creation has its row and its open session, a release a consumed manifest, the scan only transfers that were finalised.
  So the rows a release, a conversion or the reconcile takes away are of transfers that upload no more, and
  expiry takes those whose session is over. That `reserved_chunks` is the sum is one lemma for each function of
  `Ledger` (`Balanced`). The sum is a fold, and what it is of a union or a difference is an induction over subsets:
  the library's induction theorem takes an operator and cannot be used, so `SubsetInduction` goes
  by the well-founded order of strict subsets (`WFMin`).
- **`UsedCovers`**, **`LimitHolds`**: under `Prompt`, `Spec => []Covered` and `Spec => []HeldWithinLimit`. `Answers` names what an account has to
  answer for, `Charged`: the finalised transfers, those whose release is on its way, and what the scan saw, as long as
  it will be written. All of it is in `used_chunks`, or has a row and a conversion on its way. The hard
  step is the reconcile's write, which throws `used_chunks` away: it is right because a change during the scan marks
  the account (`touched`), and because a finalised transfer that the listing missed has its row still, with the conversion to
  come (`Missed`). `Prompt` is needed and not for convenience: without it both properties are false, of the code as of the
  model. A conversion that is lost leaves a finalised transfer uncounted until the next reconcile, and a release overtaken by
  the reconcile's write is subtracted twice (6.5), so that the next upload is let in beyond the limit (TLC finds that with chunks 1, 2, 2). `occupancy_repair` checks what holds then.
- **`AllowanceImplemented`**: under `Prompt`, `Spec => ImplementsAllowance`, the refinement. `TransferMaps` takes the steps of one transfer:
  each changes the standing of that transfer alone, and `MoveMaps` names the step of `Allowance` for each change. The only one with a guard
  to be met is the grant, and it does not follow from the answer of `quota_reserve` directly: the meters that function looks at count
  expired reservations, transfers already latched and the reconcile's leftovers too. It follows from what `Core` and `Answers` say *after* the
  step (`ChargingFits`): what is finalised is in `used_chunks` or has its row, what is uploading or being created has
  its row, and used and reserved together are within the limit. The reconcile, conversions and releases change the meters
  and nobody's standing, so they map to stutters (`StayMaps`): that is what makes the two stores one number.

`Credits`:

- **`TypeCorrect`**, **`KeyNeedsPool`**: `Spec => []KeyHasPool`, an equivalence: a key that was made is of the identity rail if and
  only if its org has a pool. `PoolInv` adds that onboarding at its second call has its pool, that an admin's route
  past its look-up has a key of the identity rail, and that a request in flight is one of an org with a key,
  and, once it has paid, with a pool; no pool is ever taken away, and no anonymous org gets one.
- **`RulesNeverDiffer`**: `Spec => []RulesAgree`, the equality of `api_credits_spend` and
  `applyQuotaSpend`. It is no identity: it rests on balances and overage within their bounds, which `TypeOK` keeps.
- **`RevocationBinds`**: `Spec => []RevokedWithinTtl`. `AliveInv` follows an answer of the key table: a
  lookup that was answered "active" began no later than the revocation, a cache entry is dated with the
  request's beginning and not with the answer's arrival, and so is at most `Ttl` past the revocation when used.
- **`NothingIsFree`**, **`NothingChargedTwice`**: `Spec => []NothingFree` and `[]ChargedOnce`, the books of a pool from both
  sides. `MoneyInv` has them as two inequalities on the credits of the pool's present filling (`Fair`), with
  the requests that hold a credit of that filling as a finite set (`Holders`); and what a request remembers of the filling it was
  charged on is never later than the pool's (`CallOK`), so that a refund that comes after a period's end or after a cancellation
  is told apart from one that comes in time.

`Subscriber`:

- **`TypeCorrect`**, **`TierIsBacked`**: `Spec => []OpenIsBacked`. The row alone is not inductive, as it is written from what was
  read some time before. `BackInv` asks the same (`Backed`) of what a webhook is about to write, with the webhook's own event
  already answered; it holds when it is read, since what is fetched is what Stripe has then, and a change after that
  puts out an event that no running webhook holds.
- **`RowSettles`**: `Spec => []SettlesCurrent`. The property speaks of the moment when nothing is left to handle; `SettleInv` has the debt
  on the way there: whenever the row, or what a webhook is about to write over it, is not what Stripe says, some *other* event
  is still unanswered (`Settling`). It holds because each change at Stripe puts out an event, because a webhook
  fetches after it was called, and because an event goes only when its webhook has written. The two together hold of one webhook at a time.

`Delivery`:

- **`TypeCorrect`**: `Spec => []TypeOK`, with what places things (`TypeInv`): a letter is the last word of a task that is done, no older
  than its life; the job holds one letter of those it has still to go through; an active registration has a number.
- **`TriedEveryNight`**: `Spec => []TriedNightly`. `Tried` counts the try that is still to come: while the job is due, or has the letter
  before it, the tries are one behind the nights. A night's end moves that one from what is to come to what was made.
- **`ArrivesOnce`**: `Spec => []SentOnce`. The property counts the tasks an event came up for, the invariant (`Counted`) only those
  that will not send again (`Spent`): neither running nor with a letter, but for a letter that is being deleted because it has
  arrived. Each arrival puts its task there or costs a failure, and no step takes a task out of it without one (`CountMoves`).
- **`NothingLost`**: `Spec => []NotLost`, the longest. `Base` is what holds whatever fails: nothing is posted before there is a registration;
  the transfer's state bears out the events that came up; and a receipt outlives the letter it goes with, so that the job
  finds it. `Safe` is the argument, under the property's own conditions (`Good`): an event is carried by a task or a
  letter until it is settled; the discharge's guard, once put, has a task behind it that carries the event, so the tasks
  that find the guard may give up; a letter is deleted only when its event is settled; and the
  confirmation's letter is of the day the transfer ended, so it is over before the record it needs is forgotten,
  as `RecordLife > Retention` (thirty days against seven in the code).

`SignIn`:

- **`OneSessionPerLink`**: by `LinkInv`, a click that is about to make a session has spent its token, alone, and no session
  was made with it.
- **`EndedStaysEnded`**, **`IdleSessionsEnd`**: what one step may make of a session's row (`SessionStep`: nothing, deleted,
  found, made), and by `SessionInv` the row's windows count from its last look-up.
- **`OldAddressHoldsNothing`**: `Spec => []OldAddressOut`. `AddressInv`: rows, and calls about to make one, have the present
  address or were crossed by a change; a change deletes the rows and crosses the calls in one step.

`Register`:

- **`TakedownIsTrue`**, **`TakedownRecordedOnce`**: `Spec => []TakedownTrue` and `[]RecordedOnce`. `Known` says what a request knows
  at each of its steps, above all that the date it carries is the latch's; `Numbered`, that a case's number is never given again,
  so that a case deleted under a take-down is not replaced by another's. `Alone` and `Marked` are about links where no
  request met a take-down: whoever is at work once the manifest says *removed* carries it on, so the leftover record has it.
  `Paired` and `Said` are about links where no two take-downs met: one is at work at a time, it does not pass its
  reading once a case has the date, and one that is done has its case or is among the exceptions (`unsaid`).

`Upload`:

- **`WholeLink`**, **`BackedRecord`**: `Spec => []LinkIsWhole` and `[]RecordIsBacked`, by one invariant. As long as nothing clashed, all tabs at
  work have one file (`OneFile`), and what R2 holds of the parts a tab counts is that file's, or what the note says
  that the tab carries on from and has not compared yet (`StoredFits`). The same is said of the record and of the writes
  queued for it (`RecordFits`, `PendingFits`). The comparison of `_carryOn` is what turns the second case into the first
  before anything is sent. A write is asked for after its part arrived, so it is backed whenever it lands; and parts are
  never taken away, only put again, with the same content as long as there is one file.
  The first attempt at this proof failed for a good reason: with `clash` as it was defined first, a stale card resumed after
  another tab's note had come and gone broke the step `Resume`, and TLC has the counterexample with three tabs, two parts
  and two refreshes, more tabs than the run has. `Differs` has that case since (6.8).

Only model-checked: liveness and everything else under fairness (`UploadEnds`, `PaymentCounts`, `DriftIsRepaired`, the properties of
`transfer_live`), which are out of the prover's reach. Every invariant and every safety property a passing run checks is a theorem, and so are
the two refinements.

## 6. Findings

6.1 has a run. 6.2 to 6.7 were each found by a run of TLC with the named formula as its invariant or property;
the formulas are kept in the modules, marked "Does not hold", to be checked again.

1. **The root patch can undo a latch** (run `root_patch`): the one writer that does not go
   through `updateManifest`, against `latch.js:12-15`.
2. **A record can lose `removed`** (`RemovedKept` of `Transfer`). `delete_transfer.js:27-29` says every
   path that finishes a deletion keeps it. The leftover record is put unconditionally, so a
   deletion that latched before the take-down, and is slower, overwrites it.
3. **Finalise's sidecar can be re-written** (`FinaliseOnce` of `Transfer`). `finalise.js:167-168` says
   a replay must never do that. The check precedes the awaits, and the sidecar is put before
   the conditional update that decides which of two finalises wins.
4. **A deletion that dies before its record is never finished by a sweep**
   (`DiedPartWayIsFinished` of `Transfer`). The full manifest stands alone under its prefix; the nightly sweep reads
   lone manifests only up to 64 bytes. `nightly_sweep.js:135-136` says it is finished.
5. **Drift in the user's favour** (`NoUserFavour` of `Occupancy`): a release that arrives after the
   reconcile's write is subtracted twice, against `docs/B12-SR-spec-v1.md:128`. It lasts until the
   next night, and the clamp keeps the meter from going below zero.
6. **An exception after the reservation leaves it behind** (`FailureReleases` of `Initiate`), against
   `index.js:1794-1796`.
7. **Two secrets for one event** (`OneSecret` of `Delivery`). A receipt is signed when the task reads
   the registration, the envelope when it posts: with a DELETE and a POST of the registration in between, one
   carries the old secret and the other the new. `webhook_delivery.js:32-33` says they share it.
8. **What the properties except**, met while modelling:
   - *Credits*: a refund after an immediate cancellation revives a credit (`index.js:1138`, `quota.js:35`); a refund
     that crosses a period's end gives one more in the new one (`carried`); provisioning does not ask whether the
     key is active; nothing sets `grace_until`.
   - *Subscriptions*: two webhooks of a customer at once, and the older fetch is written last (`stripe_sub.js:27-28`);
     each press of *Continue* makes another subscription, whose `incomplete_expired` event writes
     `inactive` over the row of a customer who pays for the first (`stripe_sub.js:23-24`).
   - *Sign-in*: a link issued, or a session made, by a request that had looked the address up before
     it changed survives the change (`supabase/migrations/20261012_b12_4a_auth.sql:235-237`).
   - *Take-downs*: two of them at work at once both write their case, against `reports.js:215-216` ("a second report about the same
     link didn't do the take-down"); one that the sweep or another deletion finishes is recorded by nobody, nor is one whose
     case was closed, or moved out of a helper's categories, between the check and the record: the answer says
     `register_updated: false`, but the transfer is gone by then, and asking again answers *already removed*.
   - *Webhooks*: the discharge's guard is read and put by two calls: two last chunks served together issue two receipts
    (`download.js:327-333`). `SentOnce` allows one for each last chunk served.
  - *Upload*: the answer of a successful finalise is lost; the page offers *Try again finishes it*
     (`upload-stop.js:55`), gets 409 and takes it for missing parts; the next try finds no URLs to sign, and the page
     says the upload can't be resumed, though it is complete. With a single part no URLs are asked for
     and the 409 comes back at every try: `UploadEnds` holds of files of two parts and more (`N = 3` here).
     The tail's URL stays valid for six days, so a finished upload's card that comes back (its removal was
     lost with the tab) and a changed file of the same name and size can overwrite the tail of a complete
     transfer (`clash`); so can two tabs with different files, or three one after the other: one has a card that is older than
     another tab's note; the note is discarded; a third tab resumes a changed file from an older card too, puts
     a part over the first file's and is closed before its note is written. The first card then resumes its file on top: its parts
     and its note agree, and R2 holds one part of the other file (found by a proof attempt, section 5).
     `upload-send.js:184-187` submits the date seal before finalise, which `timestamp.js:37` refuses; no
     page reaches that yet.

Smaller differences between the documents and the code, met while modelling and without a run:
- `docs/B12-SR-spec-v1.md:111` writes `updated_at <= T0`; the SQL has `<`. The code's form is
  the safe one and the one modelled.
- The same document's line 127 says a missed conversion counts as reserved *and* used until
  `session_exp`; `quota_reconcile` deletes the reservations of the sessions it counted,
  so it is counted once.
- Its line 77 holds for the upload; the *conversion* runs after the answer and can come after the
  session's end, when the reservation may have been dropped. Then nothing is
  converted until the next reconcile (`occupancy_repair` shows it is repaired).
- The header of `confirm_transfer.js` says the download handler only flips
  `pending_destruction` to true and `/confirm` deletes; the download handler now destroys the
  transfer itself and flips nothing.
- When the conditional create is lost, the reservation is cancelled but neither the
  credential (as the comment at `index.js:1942` says) nor the credits are returned.

## 7. Plan

Order of the work, most important behaviour first.

1. `Manifest`, `Transfer`, `Lifecycle`: the latch and everything that ends a transfer. Done.
2. `Ledger`, `Occupancy`: the quota against R2. Done.
3. `Initiate`: the chain of reservations and payments. Done.
4. `Credits`, `Delivery`, `Subscriber`, `SignIn`, `Upload`, `Register`: the accounts around a transfer, the page that sends it and
   the register of what was taken down. Done.
5. The proofs of section 5. Done.
6. Next: `SweepWindow`, the nightly window of 500 reads over a changing list (the hazard at
   `nightly_sweep.js:110`): its start moves by 500 modulo the list's length, and with records in the list the windows
   of two nights may leave a gap between them.
7. The date seal's put and its manifest update (`handlers/timestamp.js`) in `Transfer`; the
   Merkle construction against a reference over bounded inputs.

The abstract specifications are `Lifecycle` (of `Transfer`) and `Allowance` (of `Occupancy`). Worth stating next is one for `Delivery`: a mailbox
from which an event goes when it arrives or its days are over.

## 8. Not modelled

- *Cryptography* (`merkle.js`, `blake3.js`, `seal.js`, `nut00.js`, `kvmac.js`, `access_jwt.js`, `locke.js`): pure
  functions. A token or a hash is a model value here: unforgeable, and equal when made of
  the same inputs.
- *Unlock and meta*, the dock's listings, statistics, capabilities: reads only.
- *Rate limiting, Turnstile, counters, price and news feeds, logs* (`ops.js`, `admin.js`): best effort; nothing
  that is modelled depends on them.
- *Download page, Navy Office, the site's other pages*: they keep no state that outlives them, and `Transfer` lets any
  request come at any time, which covers what a page can ask for. They are about a third of the program's lines.
- *Folders and the parts of the upload page that draw* it.
- *The nightly window, the date seal's blob*: see the plan.
