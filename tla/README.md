# HomeCloud: a verification project

TLA+ models of HomeCloud, checked with TLC and, where stated, proved with
TLAPS. HomeCloud is a self-hosted file store: a NestJS service over PostgreSQL
and one or two filesystems, a browser client, and operator scripts for backup
and restore. What can go wrong in it goes wrong where two of these meet,
because nothing updates them together. The project is about those places.

    tlc -workers 2 -config MCPublication.cfg MCLegacyUpload.tla
    tlapm LegacyUploadProofs.tla          # several minutes from nothing

`PROJECT.json` lists runs, mutants, theorems, findings and hazards, and maps
the definitions to the source lines they stand for: every action, and the
operators that stand for lines of their own. A helper that only abbreviates may
have no entry: it is part of the mapped definitions that use it and translates
no line besides theirs.

## 1. Inventory

Paths are relative to `src/backend/src` unless they start with `frontend`
(`src/frontend/src`) or `scripts` (`src/scripts`).

| Component | State | Operations | Hard behaviour |
|---|---|---|---|
| Legacy uploads (`uploads/uploads.service.ts`) | `upload_sessions`, `upload_chunks`; per session a directory with chunk files and `.assembly-<attempt>` files; final objects | create, chunk, reconcile, complete, abort, hourly sweep, startup reclamation | connection loss releases locks while the handler goes on; lost COMMIT; crash; sweep against completion |
| SSD uploads (`uploads/ssd-*.ts`, `migrations/17468251*`) | the same rows; `ssd_finalization_operations` and its triggers; SSD chunk files; one HDD artifact per operation; a flock; open descriptors | create, chunk, complete, recover, abort, startup pass | a copy across filesystems in eight durable steps, each of which may be the last before a crash or a power failure; directories replaced under it |
| Quota (`users/users.service.ts`) | `users.storageUsed` | charge, release | reservations of open uploads against charges of everybody else |
| Files and folders (`files/files.service.ts`) | `files`, `folders`, objects | create, copy, move, trash, restore, delete, empty trash | stale entity saves, cycles, names, object and row out of step |
| Share links (`sharing/sharing.service.ts`) | `share_links` | verify password, count download, list, archive, revoke | counters under concurrency, lock expiry, a tree that changes between two queries |
| Public folders and uploads (`sharing/public-*.ts`) | `public_share_operations` receipts | create folder, create upload, replay, complete | lost answers, idempotency keys, expiry of receipt and link |
| Authentication (`auth/auth.service.ts`) | `refresh_tokens` | login, refresh, logout, change password, cleanup | rotation races, reuse detection, chain walk |
| Upload admission (`uploads/upload-rate-limit.ts` and interceptors) | in-memory buckets, leases, ingress files | throttle, lease, parse, hand over, release, sweep | a client that leaves between two callbacks |
| Upload limits (`uploads/uploads.service.ts`, `uploads/ssd-uploads.service.ts`) | configuration, owner's quota | tell limits, admit, expect chunks | the same arithmetic in three places |
| Downloads, archives (`files/download-capability.service.ts`, `files/archive-downloads.service.ts`, `common/archive-stream.ts`) | capability rows, in-memory counters, descriptors | prepare, authorize, plan, stream | single use, stale manifests, descriptors on every way out |
| Browser queue (`frontend/files/uploadQueue.ts`, `frontend/files/upload.ts`, `frontend/files/wholeSha256.ts`) | jobs, persisted records, retry budgets | add, hash, pause, resume, cancel, discover, dispose | lost create, cancel against complete, waits |
| Browser session (`frontend/api/client.ts`, `frontend/auth/*`) | tokens in the tab, one shared refresh | login, bootstrap, request, refresh, logout | answers of an earlier session, rotation |
| Browser pages (`frontend/files/FileBrowserPage.tsx`, `frontend/sharing/*`) | what is listed, selected and under way | load, select, trash, move, create | late answers, changes of other tabs |
| Mounts, placement (`storage/*`, `uploads/upload-workspace.ts`) | registry of approved roots, pins, anchors | probe, assert access, enrol | identity of a mount changes between two system calls |
| Backup and restore (`scripts/backup.sh`, `scripts/restore.sh`, `scripts/backup-production.py`) | sets, generations, lock directories, the storage volume | back up, retain, restore, swap | kills and power loss between two renames |
| Scheduled jobs (`scripts/scheduled-operations.py`) | lock, `alerts.json`, success marker | run a job, judge it, alert | a lie of the wrapper, a lost answer of the receiver |
| Previews, updates, common, deployment | none, configuration, or the operator's | | |

How they interact. The controllers call the services; public uploads call the
upload service with an access object whose hooks run inside its transactions.
Upload services and the file service meet in `users.storageUsed`, in the row
locks on user, folder and session (taken in that order), and in the `files`
rows. The browser meets them over HTTP only, and repeats requests. SSD
uploads, their recovery and the startup pass exclude each other with a
nonblocking flock on the workspace root and an in-process slot; legacy uploads
with PostgreSQL advisory locks that live as long as the connection. Backup and
restore share a directory lock with each other and nothing with the service,
which `restore.sh` stops.

What makes each correct:

- Uploads: a File has its whole object and keeps it; it is made once and charged
  once, of the bytes that were acknowledged; reservations fit the quota; an
  expired upload is reclaimed; the journal of an SSD upload is never ambiguous,
  and nothing is removed before its copy is durable and committed.
- Files: the folders are a forest, names are unique in a folder, the bytes
  charged are the bytes stored, a deletion strands nothing.
- Share links: counters stay within their limits, and a revoked or expired link
  gives nothing. Public uploads: one result per idempotency key.
- Authentication: one live token per login; a tab uses its own tokens only.
- Admission: leases, locks and ingress files come back exactly once.
- Downloads: a capability is used once, and what is sent is what was asked for.
- Browser: a job ends in the state the server is in, and a page shows the folder
  it is on.
- Host: there is always something whole to restore, and writes go to the volume
  that was enrolled.

The hazards that decide most are in `PROJECT.json`, each at its line with the
properties that cover it. One has none: a completion repeated after the
session's lifetime is refused although it succeeded
(`uploads/uploads.service.ts:914`); no document promises more.

## 2. Plan

The order was: what can lose a user's bytes (legacy and SSD uploads), then what
can give them to somebody else (sharing, sessions, downloads), then the tree,
admission, browser, and the host. All of it is modelled and checked. The proofs
follow the same order; section 6 says how far they go.

What is left to prove: the property of the run *host*.

## 3. Modules

Each component has a module named after its subject. A module `MC...` makes the
instances that TLC checks; `Sessions`, `NativeDownloads` and `AdmittedUploads` compose components and have
their instances for TLC with them, `Files` has three instances of `FilesTree`, `Finalizations` those of `SsdFinalization` and `FinalizationPins`; a module `...Proofs` holds theorems.

### How the MC modules compose components

Components that share no state are checked in one run. Such an MC module
declares the variables of each, makes one instance of each component (or several,
with different constants, over the same variables), and a variable `part` that
no step changes. `part` says which instance takes steps; the others stay in one
initial state. The reachable states are the disjoint union of those of the parts,
so that a property `part = "x" => X!P` of the run is `P` of the instance
`X`; nothing is lost by looking at the parts side by side. Fairness is restated
for the actions of a part together with `part = "x"`. Bounds that differ in a
module's parts differ in the substitutions of its INSTANCEs.

### UploadPromise

An upload is *absent*, *open*, *published* or *over*, and its owner reads its
content when it is published. It is published at most once, whole, and only while
it is open; the content does not change until it is deleted. Only uploads an
earlier release left behind (`Historical`) may be open again after their file was
deleted: that release could store a File and leave its session active.

### LegacyUpload

One owner, several sessions, the request handlers of the one server process
and the timer of the hourly sweep. Database (`status`, `hydrated`, `rec`, `file`,
`used`), filesystem (`dir`, `disk`, `marker`, `obj`) and handlers (`w`) are
separate, and an action changes what one statement, transaction or filesystem
call changes. `w[p].conn` says whether the handler's connection is alive: with
it go the transaction, the row locks and the advisory fence, while the handler
keeps making filesystem calls (`LoseConnection`).

| Actions | Code |
|---|---|
| `Create`, `Mkdir`, `MkdirFails` | `createUploadSession` |
| `ChunkBegin`, `ChunkRename`, `RowsCommit` | `uploadChunk` |
| `ReconcileBegin`, `RowsCommit` | `reconcileUploadSession` |
| `List`, `Query`, `Unlink`, `Unmark`, `CleanupDone` | `cleanupUnpublishedAssembly` |
| `CompleteBegin` ... `PublishCommit`, `Repair`, `DeleteTempFiles`, `Undo`, `UnmarkOwn` | `completeUpload` |
| `AbortBegin`, cleanup, `AbortCommit` | `abortUpload` |
| `ExpireBegin`, cleanup, `ExpireCommit` | `cleanupExpiredSessions` |
| `Restart` | `onModuleInit`, `cleanupOrphanedTempDirs` |
| `Fail`, `Fault`, `Crash`, `Tick` | errors the code meets, errors of the world, process death, the clock |
| `Charge`, `Release`, `DeleteFile` | `FilesService` and `UsersService` on the same owner |

What is abstracted: the shared fence together with the session's row lock is one
exclusion, which is what they amount to between mutations; the attempt id is drawn
when the fence is taken rather than after the cleanup (nobody sees it in between);
`deleteTempFiles` is one step; a lost acknowledgement of COMMIT is the commit
followed by an error; the creating handler's compensation that fails is
`Crash` between `Create` and `Mkdir`. The replay of a completed upload
also runs when the file is in the trash, which the code refuses: more
behaviour than the code has.

A publication that fails after its hard link removes object and assembly file
and ignores the errors of both removals (`uploads/uploads.service.ts:1171`): an object may
stay that no cleanup finds. No data is lost by it, space is, and no property here
says otherwise.

### SsdFinalization, JournalPromise, JournalGuards, FinalizationPins

`SsdFinalization` has the sessions of one owner, the journal row `op` of each, the
chunk files on the SSD, the HDD artifact `art` and the flock `lock`. The artifact
records under which name it is found, under which name it would be found after a
power failure, which bytes it has and whether they are synced; `PowerLoss` keeps
what was synced and chooses the rest.

| Actions | Code |
|---|---|
| `Create` ... `ChunkCommit` | `SsdUploadsService.createUploadSession`, `uploadChunk` |
| `FinalizeBegin` | `completeUpload`, store `begin` |
| `CreateTemp` ... `Commit` | `SsdCrossFsFinalizer.finalize`, stream `assemble`, filesystem `publish`, store `commit` |
| `Recover`, `Reopen`, `Inspect...`, `VerifyFinal`, `Preflight`, `RemoveChunk`, `FinishCleanup` | `SsdFinalizationRecovery.recover` |
| `Abort`, `PurgeChunk`, `PurgeDone` | `abortUpload` and the expiry sweep, which calls it |
| `Fault`, `Crash`, `PowerLoss`, `Decay` | errors before or after a step took effect, and the machine |
| `Trash`, `Untrash`, `Charge`, `Release`, `DeleteFile` | `FilesService` on the same rows |

`recover()` is not a copy of the finalizer: after every step both take, it looks
at journal and artifact again (`Then`), so the model does too. What is abstracted:
the copy moves chunk by chunk; a look-up of the journal and the reopening of the
directory are one step (the flock excludes the others); refusals for lack of disk
space are left out, since they only refuse more; after a power failure the bytes
that were not synced are a prefix of those written, which is what an ordered-mode
journalling filesystem gives; the trash only holds the destination folder itself.

`JournalPromise` is what the journal promises of the tables it guards, a step being
a COMMIT. Two modules implement it: `SsdFinalization`, which takes each
transaction of the store as one step (`JournalKept`), and `JournalGuards`
(`KeepsPromise` of the run *journal*), in which the transactions are statements that interleave
with those of services that know nothing of the journal, under READ COMMITTED with row
locks, and with the triggers of the migrations (`LocksSession`,
`TakesSession`, `Order` are what they lock). `FinalizationPins` looks at the
descriptors below: directories and artifact are pinned by open descriptors and compared with what
is at their paths before each operation, while the world replaces them (`World`)
and a second worker recovers the operation (`Acquire`, `Operate`, `Recover`, `Throw`, `Die`, `Again`).

### FilesTree, Files

The folders, mirrors, files and trash of one owner. Transactions that start with
`SELECT ... FOR UPDATE` on the owner's row are one action each (`AtOnce`); what runs outside that lock
takes steps: the checks before a move (`MoveFolder`), `removeFile` (`RemoveLoad`, `RemoveWrite`: TypeORM's
save writes the columns that differ, or inserts a row that is gone), the physical copy
(`CopyObject`, `CopyInsert`, `CopyFails`, `CopyUnknown`, `CopyReconcile`, `CopyCleanup`) and the unlinks. `Files` runs four mixtures of requests, up to two at once.

Some requests write what they do not protect. The model has all of it, and variables that no step reads (`stray`, `bare`, `revived`,
`revivals`) record where it happened, so that the properties say exactly how far the damage goes, and hold everywhere else:

- `removeFile` reads a file and saves it without a lock (`files/files.service.ts:430`). If the file is deleted for good in between, the
  save inserts the row again (`RemoveInsert`): a file in the trash without an object, and not charged, whose later deletion
  releases bytes that were not charged for it. `used + revivals` is the bytes of the rows.
- TypeORM's save reads the row again and writes the columns in which the entity differs from it. If the file was trashed and restored under another name or in
  another place since it was first read, `RemoveWrite` writes the old name and place back, and `isDeleted` only if the row it read again was live.
  A file restored after that second read, but before the write, is left live under a name nobody asked the allocator for, and two live
  items may share one.
- `restoreFolder` moves a folder to the root if its parent is in the trash, and asks for a name only if the folder is in the trash itself: a live one takes
  its name along to the root without an allocation (`files/files.service.ts:515`).
- `DELETE /files/:id` with the id of a folder deletes its mirror only (`DeleteMirror`). The pages list folders and never ask that.

### ShareLinks, SharedFolder, PublicUploads, Sharing

`ShareLinks`: a visitor's request finds the link (`Find`), counts and compares a password
(`Advance`, `Compare`), opens the file (`Open`), takes a slot (`Admit`); the owner revokes, trashes
and moves meanwhile. `SharedFolder`: a listing is `Find`, `Query`, `Answer`, an archive
`Probe` ... `Entries`, and the page of `PublicSharePage.tsx` (`Visits`) leaves requests behind whose answers
still come. `PublicUploads`: `Ask`, `LockUser`, `LockLink`, `Replay`, `Check`, `Make`, `CommitMade`, `Publish`,
`CommitPublished` are the statements of `PublicUploadsService` and `PublicFolderService` around a receipt; sweep,
abort, deletion, moves, expiry of session, receipt and link interleave. `Sharing` has links
and uploads side by side, for the run and for the proofs.

### RefreshTokens, BrowserSession, Sessions

`RefreshTokens`: the rows of one user's tokens, READ COMMITTED. A rotation is
`AskRefresh`, `Lock`, `Rotate`; a logout walks the chain (`LockLogout`, `Follow`); bulk statements take a
snapshot and visit row by row (`Snapshot`, `Visit`, `BulkCommit`), so that rows committed later are missed,
as PostgreSQL does. `BrowserSession`: one tab, one callback per action: requests
(`Begin`, `Send`, `Answered`, `Refused`), the shared refresh (`Serve`, `RefreshOk`, `RefreshRefused`, `RefreshLost`), login, bootstrap, logout, reload.

Two differences from what one might expect, seen while modelling and left without a run: a rotation under
way while all sessions are revoked inserts a token the bulk UPDATE does not see
(`auth/auth.service.ts:297`), and the lock of password attempts can be passed through the missing
parentheses of `andWhere` (`sharing/sharing.service.ts:186`). The models have both behaviours.

### UploadAdmission, UploadLimits, AdmittedUploads

`UploadAdmission`: one action per callback between Express, Multer, the interceptors and the handler: `Throttle`,
`Enter`, `TryLock`, `Acquire`, `Refuse`, `Open`, `Finish`, `Break`, `Close`, `Serve`, `Served`, `Finalize`, and `Disconnect` between any two.
`AdmittedUploads` composes the two, with the waits of the browser (`Retries`). `UploadLimits`: `getUploadLimits` (`Tell`), the browser's cut and both services' admission (`Create`), chunks (`Send`), the layout check
of the finalization (`Complete`), and another upload that comes in between (`Others`). An SSD workspace also refuses with 503 what one of its two
volumes has no room for (`HasRoom`, `NoRoom`; `uploads/ssd-uploads.service.ts:124`), a limit the owner is not told: the
model has any room on either volume, and `LimitsTrue` names the refusal as the one exception besides other uploads. The same question before
each chunk (`acquireIngress`) is left out: a chunk refused there is sent again and changes nothing.

### Downloads, ArchiveStream, Ranges

`Downloads`: capabilities of both kinds issued by a transaction of several
statements (`Prepare`, `Issue`), consumed by one GET (`Fetch`, `Authorize`, `Serve`), and the descriptors of private and public
handlers. A stream is handed over to the response, and its close listened for, after the last await (`HandOver`): if the client left
before that, no `close` comes any more and the descriptor stays open (`late`), which the comment at `sharing/sharing.controller.ts:426` puts otherwise.
`SingleUse` allows an open descriptor in that case only. `ArchiveStream`: `Prepare`, `Plan`, `Get`, `Engine`, `Close`, each query a step between which the owner edits
the tree; the loop over the entries and the promise its caller awaits settle
independently. `Ranges`: the two parsers of Range headers, and a reference definition of what a header asks for. `NativeDownloads` composes the three.

### UploadQueue, Retries, WholeDigest, TreeManifest, DirectoryPage

`UploadQueue`: a job from `Enqueue` through `Runs` and `Cancels`, each await a step, with requests lost before or after they are served
and served late (`ServeStray`). `Retries`: how long a call waits, before its first attempt (`Enter`) and between attempts (`Retry`), and who may cut
the wait short; times are what is left of them and `Tick` takes one off each. The reads of the session, the receipt of a
completion that failed (`Receipt`) and the lookup after a resume or a reload (`Looked`), wait for nothing in the code and in the model.
`WholeDigest`: slices, pieces, padding and cancellation of the SHA-256 in the page; the compression function is left out, the
state being the bytes compressed. `TreeManifest`: what a chosen tree is made of, one entry after another. `DirectoryPage`: the folder
page, one action per handler and await. An address that names no folder is shown as the root is (`FolderId`) until the effect that reports it has run, and a dialog
knows that its page has gone only once the cleanup of an effect has run (`Unmount`), which is after the render.

### StorageMounts, Backups, Restore, Generations, ScheduledJobs

`StorageMounts`: the registry's inspection system call by system call (`InspectStep`), uses of a workspace (`UseStep`), enrolment
(`EnrolBegin` ... `EnrolSync`) and a world that mounts, unmounts and replaces (`WorldStep`); inode numbers and
timestamps are reused as the kernel reuses them. `Backups`: the commands of `backup.sh` and `restore.sh` that others can see, and
their lock, which each releases by its own rule (`OwnLock`). `Restore`: the destructive half of `restore.sh` and the storage container, which goes on when the script is killed.
`Generations`: `backup-production.py` with two roots, retention and its lock. `ScheduledJobs`: the
timed jobs, their lock, their verdicts and alerts.

Behaviours of the scripts that a document puts otherwise, which the models have: a contender that
looks at the lock between `mkdir` and the write of `LOCK_PID` takes it for stale (`scripts/backup.sh:340`, against the comment at `scripts/backup.sh:315`), and
so does the second of two that found the same dead process; a signal
during cleanup ends `backup.sh` with the status of its last command (`scripts/backup.sh:270`); a restore that is signalled
between writing the lock's token and `RESTORE_HOLDS_LOCK=1` leaves a complete lock (`scripts/restore.sh:308`). `LockExcludes` and
`Released`, parts of `RestorePointKept`, are about every process and name these cases: two are never past the lock unless it was wrested from
its holder (`Wrested`), and it is free in the end unless it was, a process was killed, or a signal cut off the making of it (`cut`).

## 4. Runs

TLC, two workers. Deadlock is not checked where a system may rightly stop (all
sessions over, all requests answered). Symmetry is used in runs without liveness
only. Invariants unless marked: A an action property, T a temporal one.

| Run | Configuration | Properties | Distinct states |
|---|---|---|---|
| publication | `MCPublication` of `MCLegacyUpload` | `PublishedObjectKept`, `KeepsPromise` (A), `PublishesRecordedBytes` (A) | 992 000 |
| accounts | `MCAccounts` of `MCLegacyUpload` | `UsedAccounts`, `ReservationsFit`, `ExpiredReclaimed` (T) | 362 000 |
| finalization | `Finalizations` | `BytesSafe` (A), `KeepsPromise` (A), `JournalKept` (A), `TogetherSafe` (A), `RecoveryEnds` (T), `FinalizationPinned` | 472 000 |
| name_taken | `MCNameTaken` of `Finalizations` | `PublishedCommits` (T), violated | 129 |
| journal | `MCJournal` | `NeverAmbiguous`, `KeepsPromise` (A), `NoLockCycle` | 1 880 000 |
| files | `Files` | `TreeSound`, `BytesAccounted`, `NothingIsStranded` (A) | 281 000 |
| sharing | `MCSharing` | `WithinLimit`, `ShownWhole`, `OnePerKey`, `ScopeKept` (A) | 952 000 |
| sessions | `Sessions` | `OneLivePerLogin`, `LogoutEnds`, `OwnTokensOnly`, `RequestsSettle` (T) | 933 000 |
| admission | `AdmittedUploads` | `AdmittedWhole`, `LimitsTrue` (A), `LeasesAccount`, `WindowKept`, `VolumeKept`, `KeptThenReturned` (A, T), `NeverEarly` (A) | 2 049 000 |
| downloads | `NativeDownloads` | `SingleUse`, `ArchiveWhole`, `SendsAsked` (A), `SentLive` (A, T) | 355 000 |
| browser | `MCBrowser` | `AsChosen`, `EndsAsAsked` (A, T) | 2 185 000 |
| host | `MCHost` | `RestorePointKept` (A) | 1 326 000 |

Instances, and why they are enough:

- *publication.* Attempts of a session are serialised by the fence except for those
  that lost it: two live handlers, the sweep and two attempts are the smallest
  instance with a zombie, a retry and a cleanup at the same time, and the faults allow
  for one lost connection per actor. Two contents of a chunk distinguish match from
  mismatch, two chunks first from last.
- *accounts.* Two sessions, one of an earlier release, are enough for a sum against a bound. `Few` keeps the instance small: both sessions and the other services with
  one request at a time and no fault; or one session, of either kind, with two requests at a time and up to two faults, so that a sweep meets it fenced,
  loses its connection, fails or is cut off by a crash before it must succeed. `Few` bounds requests, charges and faults, never a step that is fair. `ReservationsFit` subtracts
  what other services charged: `copyFile` and `createFile`
  compare with `storageUsed` only, so that they can use up what uploads have reserved, and
  the publication then refuses, safely.
- *finalization.* The first three properties are those of `SsdFinalization` itself, of which `alone` and `fair` are instances; `TogetherSafe`
  is the same and the account of `together`. `alone`: one upload of two chunks, an SSD that decays, four faults (one in the finalization,
  one in its recovery, one in the next, one decay); `together`: two uploads, other charges, a
  folder that is trashed, two faults; `fair`: one upload, three faults, fair
  handlers. The flock serialises everything else. `pins`: the descriptors of the first worker and of one that
  recovers, with one replacement by the world and two faults.
- *journal.* `two`: two transactions of two statements and two sessions; `three`: three
  transactions of one session, of one statement each. A deadlock needs two transactions, a third shows a
  waiter that is not in the circle.
- *files.* `moves`: three folders, the least for a cycle of two legal moves; `trash`: files and folders of
  two names trashed and restored; `deletes`: copies, deletions for good and `removeFile` at once, with a fault; `stale`: `removeFile` beside
  restores, placements and deletions of two files. Two requests at once where races matter; a save inserts one deleted row again at most, the proof allows any number.
- *sharing.* Two visitors and one or two links; a folder of two pages with one edit; two
  targets, one key, two results.
- *sessions.* Four tokens of one user and two requests at once; a tab with two users and a reload, and one with a
  lost answer and fair callbacks. That no token is sent twice is said of the states before any disturbance.
- *admission.* `limits`: every configuration and quota to either side of each limit, sizes 1..10, volumes with and without room;
  `requests`: two requests of one and of two users, disconnected anywhere, with fair callbacks; `bucket`: the same while time passes and
  the users displace each other's bucket. Two requests never meet `MaxActive`; the proof does. `waits`: three attempts, a server that asks to wait for less and for more than the browser will, pauses, a cancellation and a reload.
  `mounts`, `probes`, `chunks`, `enrols`: the volumes, with two changes of the world, reads and writes of an enrolled one, probes on the
  host of a developer, chunks through both kinds of workspace, and enrolments.
- *downloads.* Every header over small and inexact numbers; two processes and two tokens; archives
  of a nested selection, of every tree of three folders, with three edits, of two requests for one slot, and fair callbacks.
- *browser.* `fair`, `timed` run `Retries` with all, and with only the timers' fairness;
  `creates`, `sends`, `digests`, `settles` the queue; `hash` sizes 0..15 in blocks of 4, slices of 8; `manifest` three entries of two names and
  two spellings; `loads`, `bulk`, `adds`, `moves` the folder page, with invalid addresses; that no removed row is on a page at rest is checked in `bulk` and `moves` too, where
  rows are trashed and moved.
- *host.* `sets`, `single` two shell scripts on one lock, `locked` three restores; `volume` two attempts of a restore
  with a kill and a fault; `kept`, `fetched` generations; `timers`, `alerts` jobs.

The constants named `Max...`, `Slots`, `Attempts`, `Reloads` are the models' own bounds; the others are
the code's parameters.

What the violated property shows. *name_taken*: while an SSD upload is being finalized, another file of the same
name enters its folder. `commit` asks for a free name and gets another one
(`ssd-finalization-store.ts:619`); the guard on the journal accepts only the name the
operation began with. The operation stays `published` for as long as the name is
taken, and since one operation may be pending, no other SSD upload finishes in the meantime.
`docs/multi-storage-architecture.md:560` has recovery commit the placement in this state.

## 5. Fairness

- Handlers are weakly fair: Node runs a handler's continuation when its I/O is
  done or has failed. I/O that never returns is not modelled, except for the requests of
  a cancellation (`CancelEnds`), where a timer ends it.
- `Restart` is weakly fair: the service manager starts the service again.
- `ExpireBegin` is strongly fair for each active session: the hourly sweep visits every
  session that is pending or uploading, and finds it fenced only while a request
  is at work on it. This assumes that not every sweep meets the session fenced, and
  that no session sorted before it makes each sweep fail: the loop has no handler
  of errors per session.
- `Recover` is strongly fair: a client that got no answer repeats `completeUpload`,
  and the startup pass visits pending operations. Nothing in the service retries on its own: if
  the owner gives up, the operation waits for the next start, and that holds only for
  the recovery mode `once`.
- Admission, archives, the session of a tab and the upload queue: each callback that is due runs (weak fairness),
  the network answers or fails (`RequestsSettle`, `Settles`, `CallEnds`), time passes (`Tick`).
- Requests, faults, decay, the clock, users and the other services owe nothing.

`ExpiredReclaimed` leaves out what the code leaves to the next start: a
directory created after an abort overtook `mkdir`, and one a completed upload
could not delete. `RecoveryEnds` leaves out an HDD temporary whose inode was
not recorded in time, which recovery must not trust, and chunks that do not add up
to the digest the client declared.

## 6. Proofs

All obligations are proved, from the named assumption on the constants of each
module alone: any number of sessions, handlers, chunks, contents, attempts, faults, any quota and any size.

| Module | Theorem | Statement |
|---|---|---|
| `LegacyUploadProofs` | `Invariance` | `Spec => []IInv` |
| | `TypeCorrect` | `Spec => []TypeOK` |
| | `ObjectKept` | `Spec => []PublishedObjectKept` |
| | `RecordedBytes` | `Spec => PublishesRecordedBytes` |
| | `PromiseKept` | `Spec => KeepsPromise` (refinement of `UploadPromise`) |
| | `ChargedOnce` | `Spec => []UsedAccounts` |
| | `ReservationsHold` | `HistoryFits` implies `Spec => []ReservationsFit` |
| `SsdFinalizationProofs` | `PublishedIsDurable` | `Spec => []PublishedDurable` |
| | `SourceIsKept` | `Spec => [](SsdDecays \/ SourceKept)` |
| | `CopyIsKept` | `Spec => CopyKept` |
| | `BytesAreSafe` | `Spec => BytesSafe` |
| | `JournalIsKept` | `Spec => JournalKept` (refinement of `JournalPromise`) |
| | `PromiseIsKept` | `Spec => KeepsPromise` (refinement of `UploadPromise`) |
| | `PinsHold` | `D!Spec => []FinalizationPinned` |
| `JournalGuardsProofs` | `JournalNeverAmbiguous` | `JP!Spec => []JP!NeverAmbiguous` |
| | `JournalIsReceipt` | `JP!Spec => JP!Receipt` |
| | `GuardsTypeCorrect` | `Spec => []TypeOK` |
| | `GuardsKeepPromise` | `Spec => KeepsPromise` (refinement of `JournalPromise`) |
| | `StatementsNeverAmbiguous` | `Spec => []NeverAmbiguous` |
| | `StatementsKeepReceipt` | `Spec => JP!Receipt` |
| | `LocksNeverCycle` | `Spec => []NoLockCycle` |
| `DownloadsProofs` | `CapabilitiesHold` | `Spec => []SingleUse` |
| | `SendsAskedAlways` | `R!Spec => SendsAsked` |
| `AdmissionProofs` | `LeasesHold` | `Spec => []LeasesAccount` |
| | `FilesStay` | `Spec => FilesKept` (the action part of `KeptThenReturned`) |
| | `AlwaysLimitsTrue` | `L!Spec => LimitsTrue` |
| | `AlwaysAdmittedWhole` | `L!Spec => []AdmittedWhole` |
| | `WaitsWithinWindow` | `W!Spec => []WindowKept` |
| | `SentWhenAllowed` | `W!Spec => NeverEarly` |
| | `VolumesHold` | `V!Spec => []VolumeKept` |
| `FilesProofs` | `TreeStaysSound` | `Spec => []TreeSound` |
| | `NothingLeftBehind` | `Spec => NothingIsStranded` |
| | `BytesStayAccounted` | `Spec => []BytesAccounted` |
| `SessionsProofs` | `RotationNeverForks` | `Spec => []OneLivePerLogin` |
| | `LogoutIsFinal` | `Spec => []LogoutEnds` |
| | `RevocationIsTerminal` | `Spec => RevokedForGood` |
| | `TabKeepsItsTokens` | `B!Spec => []OwnTokensOnly` |
| `SharingProofs` | `LimitKept` | `Spec => []WithinLimit` |
| | `RevocationHolds` | `Spec => RevokedForGood` |
| | `OneResultPerKey` | `U!Spec => []OnePerKey` |
| | `UploadsLandInside` | `U!Spec => U!LandsInside` |
| | `RevocationEndsUploads` | `U!Spec => U!RevokedMakesNothing` |
| | `RepliesInPlace` | `U!Spec => U!AnsweredInPlace` |

*Legacy uploads.* `PublishedObjectKept` is not inductive: a step that unlinks an object
harms it only if that object belongs to a File, and which one does was learnt earlier,
perhaps on a connection that is gone. `IInv` supplies what the step relies on:

- *Who may be where.* `InvWork` ties operation and step; `InvFence` says that live
  handlers of one session exclude each other.
- *Attempts are private.* `InvFresh`, `InvDrawn` and `InvDistinct` say that attempt ids
  are fresh and no two handlers share one; `InvUncommitted` that an attempt
  which is not past its COMMIT is no File. So a failing handler removes its own object only.
- *A stale cleanup is harmless.* `InvUnstarted` and `InvUnlisted` say that no cleanup has listed
  an attempt that may still commit: it listed attempts before it lost its fence, and
  later ones are not among them. `InvKnown` says that what it did list and is a File, it knows
  to be one. This is why the code lists the attempts before it asks the database:
  an attempt listed after the query could be committed in between.
- *What is committed is there.* `InvLinked`: a publisher with a live connection has
  linked the object, its bytes agree with the chunk rows, the session is active and has no File.
- *The life of a session.* `InvUnmade`, `InvAlone`, `InvAbsent`, `InvDisk`, `InvCompleted`,
  `InvAborting` and `InvChunk` say what cannot have happened yet, or any more; the
  refinement needs them to exclude a second publication and a return from *over*.

Each action has a lemma for the types and the handler's state afterwards and one
for the rest of the invariant; `NextInv` puts them together.

*Accounts of legacy uploads.* Both are about sums over sets of sessions, so they need the recurrence of a sum: one member more adds its
value (`TotalAdd`). The library's induction theorems cannot be used for that, but well-foundedness can: among finite sets for which it fails
there is one without a smaller such (`Smallest`), and that one is refuted. `Fits` then follows the bytes of a session. Admission adds them to
what is reserved, after a comparison with all of it under the lock on the owner's row; COMMIT takes them from the reservations and adds them to the
charges in one step, and a repair of a session that an earlier release committed moves the reservation only, the charge being made. `HistoryFits` is what
admission cannot vouch for: uploads of that release, each of which may be a File and still a reservation.

*SSD uploads.* That a File's object is durable is decided long before there is a File, by up to three handlers of which
two may have died. `IInv` of `SsdFinalizationProofs` says what each leaves to the next:

- `Artifact` names, for each state of the journal, where the artifact may be found, where it may be found after a
  power failure, and from when on it is whole and synced: from `verified`. `PowerLoss` therefore finds nothing to lose there,
  and between rename and sync it may choose either name, which `publishing` allows for.
- `Work` says what a handler relies on at each step: `mark` is reached with a whole, synced and named temporary only,
  `settle` with the final name synced. Nothing disturbs it, because who is at work holds the flock (`Locked`), and because
  of the two that do not ask for the flock one (`DeleteFile`) is refused while the operation is pending and the other
  (`Decay`) touches chunks only.
- `Journalled`: the rows of a pending operation are what it was begun with; so the inode is recorded once the copy is
  verified, and the type once the rename is intended. `Single`: it is the only one.
- `Filed` and `Source` tie File, session status and chunks. `Source` is where the decay of the SSD matters: with it
  acknowledged chunks may be lost before they are copied; a whole copy is not (`CopyIsKept`), since recovery begins again only from
  a temporary that lacks a chunk.

A step changes one session, and whatever it does not change stays good (`GoodFrame`, `SessionStep`); each action
has one lemma. `JournalIsKept` and `PromiseIsKept` then look at the steps that write the journal row, or status and File.
`TypeOK` has bounds on `used`, a sum, and is only checked; `Types` is what the proofs need of it.

*Descriptors of a finalization.* A worker compares the identities of open descriptors with what is at the paths; `FinalizationPinned` is about
the files themselves, which the world moves away from those paths meanwhile. `PinInv` joins the two. `OneOwns`: whoever is past `lock` has the fence of the source root
for itself, and of that root there is one, the workspace's recorded root, whatever is at its path by then. So while one worker owns it the others
are before their lock, and rely on nothing of the operation but that it exists (`OthersKnow`). `Pushed` and `Accounted` give for each
step the directories pinned so far and the descriptors that are open, each of them once. `Knows` says what a step may presume of the artifact it has pinned: it is the file the journal
recorded, or the one the worker has just created. `Recorded` is what the journal may presume: a file under a final name got there
by a rename, in the directory of that rename (`Tracked`), and nothing else was touched. A replacement by the world changes what is at a path, with
a new identity, so it disturbs none of it (`WorldInv`). `D` is the instance of `FinalizationPins` in `Finalizations`; `PinsFit` says
that identities are positive numbers, 1 to 4, which exist at the start, among them.

*The journal.* `SsdFinalization` takes a transaction as one step, `JournalGuards` a statement. `IInv` of
`JournalGuardsProofs` is what a statement may rely on until COMMIT:

- `Held`: a lock belongs to a transaction of its session that has come past the statement which takes it; so the place of a
  transaction says which locks it has, and two of one session exclude each other where they must.
- `GoodSession`, `GoodFile`, `GoodBegin`, `GoodMethod`, `Wrote` and `WroteRows`: what a transaction has read still holds, since the rows it
  read are locked, and what it has written is what it read, with the columns that its statements changed.
- `OneBegins`: the unique index lets one transaction at a time past its INSERT. Two begins of *different* sessions lock no
  common row, so this is what keeps them apart (`JP!OneAtATime`).

Only COMMIT changes rows that others see; every other step has to keep its own part (`StepKeeps`), and a COMMIT spares the rows others rely
on (`CommitKeepsOthers`). `GuardsKeepPromise` then finds for each kind of transaction the step of the promise that its COMMIT is;
`StatementsNeverAmbiguous` and `StatementsKeepReceipt` follow by the theorems on the promise, and `JournalIsKept` gives the same to
`SsdFinalization`. `LocksNeverCycle` is about the order of locks: journal row, File row, session row, then the
unique index. Who is waited for waits further along or not at all, so every set of transactions has one that
waits for nobody in it. A deletion waits for a session under the lock on its File, and `begin()` for the index under the lock on
its session, both in that order; the mutant that swaps two rows is found by TLC.
`GuardsAssumption` says that distinct things are distinct (a transaction's number is no NULL, the states and
the labels of rows differ); the run *journal* evaluates it.

*Downloads.* `SingleUse` is five statements, and `DInv` says on what they rest. An issue counts the pending capabilities and
inserts its own in different statements: `HasRoom` says that what it counted holds until it commits, since nobody else of its
kind is past the advisory lock (`LockHeld`) and whatever others do takes rows away (`NoneAppears`). `Writes`: the rows it
has deleted are locked by it and still there for everyone else, and its own row is seen by nobody; so a rollback restores what was.
`Once`: a GET takes the row along that let it through. `Opened` ties each descriptor to the step of its request: while it streams, the client is there to close it, or had left before the hand-over
(`late`) and nobody will. The two
counters are tied to the requests they count by `CountersMove`: a step moves one request, in or out of each. `DownloadsAssumption` says
that limits are numbers, and requests finitely many; `R` is the instance of `Ranges` in `NativeDownloads`.

*Ranges and limits.* The state is the last answer, or the stage of one upload; the work is arithmetic: `ParseFaithful` and `SameParse` for
every header and size, and in `AdmissionProofs` that the limits told are exact, that chunks cut by the
browser are those expected, and that they partition the file. `L` is the instance of `UploadLimits` in `AdmittedUploads`.

*Requests with chunks.* What holds a lease, a lock or a file is let go in several places, and a request may be disconnected between
any two. `AInv` says for each request, by its step, what it has: the lease (`LeaseFits`), the listeners and whatever exists only once
they are attached (`Heard`), writer and file and who has cleaned up or will (`Filed`), and the lock, which stays with a handler at work whoever
has asked for it (`Locks`). No step of another request touches these (`OthersSound`). `Counted`: a lease is counted by
the bucket it was drawn from and returned to no later one, because the sweep drops only buckets without leases. `Earned` bounds what a user has drawn, with or
without a bucket; a bucket that is dropped may be replaced by a full one, and that gives nothing away only if it had time to fill up: `AdmissionFit` has
`Burst <= Rate * Idle`, and the service's numbers are 50, 25 a second, and 300 seconds (`uploads/upload-rate-limit.ts:16`).

*Refresh tokens.* That no two tokens of a login can be used is not inductive: a rotation under way could rotate a
row somebody else has rotated or deleted since. The invariant says why it cannot. `Chains`: a row without a successor is the
last of its login, and only such a row is unrevoked, so there is one at most; `Locked`: who rotates a row holds it, and it is
as it was found; `Apart`: a row has one holder, so nobody else writes it. A logout follows the chain under the
same locks, hence ends at the one row that may be unrevoked; `EndedAll` says that the login has none
afterwards, not even an expired one that a rotation under way might extend. `HolderStep` and `WriterStep` are the two ways a request moves:
it writes nothing and holds rows that were free, or it ends and has written only what it held.

*The browser's session.* A tab tells a late answer by two numbers, and `BInv` says what they are worth. `CallOwn`: the epoch of a
refresh is the current one if and only if the token it sent is the one kept, and what it was answered is of the same login and
user; so its answer is stored where it belongs. `RequestOwn`: while the generation is that of a request, the tokens kept are of its owner, and
there are some; so it is sent or repeated with those or not at all. `FlowOwn` is the same for the user that the provider is
loading. A reload sets both numbers back to 0, which is safe because it leaves no request and no refresh behind. `Undisturbed`
is why no refresh token is sent twice: a rotated token is kept only while the answer is under way that replaces it. `B` is the
instance of `BrowserSession` in `Sessions`.

*Share links.* `WithinLimit` is inductive together with the types (`AnyRow`). Counter and served downloads part only where a
revocation saves a stale entity, and then the link is not active; every other statement writes the columns of the row it reads
(`SameCounts`). How stale the entity is does not matter.

*Public uploads.* A key makes one result for two reasons, and `UInv` states both. A request that is past the owner's row is alone
(`HoldsLocks`), so what it has read stays as it was up to its COMMIT (`Works`: the link is active, the target inside, the receipt
missing, and there is room for one more). And what was made has a receipt until that is cleaned up (`HasReceipt`), so where there is no
receipt nothing that counts has been made. `NamesItsResult` says that a receipt is of the request it answers; it gives `AnswersFit`, whatever
became of the result since. The steps of owner, sweep and time make nothing (`Settles`): they end results and receipts, and
cannot move what a request holds (`WorldKeeps`). The theorems on actions look at the two COMMITs and the two steps that tell
a visitor. `UploadsAssumption` says that bounds are numbers and keys are finitely many; `PublicUploads` appears as the
instance `U` of `Sharing`, since its variables are not those of `ShareLinks`.

*Retries.* `notBefore` is one number, and what asks for time are answers to several requests. `BarsKept`: the number is at
least what each of them asks for yet; `ReadyToSend`: it has run out wherever a call is about to send, because of
`TimersCover`: the timers were set to no less, and time takes as much off both. `WindowSpent` ties what was waited to what is left: a wait before the first attempt of a call is not taken from the window, but there is at most one of them, since
`notBefore` has run out once it is over (`Starting` says where it may still be due).
`ThrowInv` has the one delicate place: a cancellation that failed hands the job's notBefore to its replay. `TypeOK` of `Retries`,
which bounds a wait by a power of two, is only checked: that powers grow is an induction. `W` is the instance of `Retries` in `AdmittedUploads`.

*Volumes.* The world may exchange a mount, a marker or a directory between any two system calls, also within a check. `VolumeInv` follows what an inspection
has found out (`Inspected`): as long as nothing has moved since the call began (`calm`), what it read is still so, from the first inspection of a probe to its last;
and once something has moved it claims nothing. Other claims hold although the world moves. `Anchored`: the marker that was pinned is held open, so its number
goes to no other file, and a marker with the pinned number is the pinned one. `Bound`: the same for the directory a workspace holds; hence equal
numbers mean the same directory, the boundary is the directory of the descriptor, and `Landed` that all chunks of a workspace are in it. Numbers are given out by
`FreeOnce`, and `FreeIsUnheld` is all that is used of it. `Enrolling` says what an enrolment has written and synced as long as nobody changed the volume,
so that no inspection admits its marker before it has its text (`EnrolStep`) and a power loss spares it once reported. `V` is the instance of `StorageMounts` in
`AdmittedUploads`; `VolumesFit` says that three of its volumes exist and that NULL is no volume, file or row.

*Files and folders.* `Below(f)` is an iteration, so what it contains is not plain from its definition. Its argument is again the smallest
counterexample: of the sets of folders on the way to it, the first that breaks a claim. `BelowClosed` says that it has `f` and the children of what it
has, `BelowLeast` that it has nothing else. `Forest` speaks of paths, and a step that moves a folder changes many; `Acyclic`
says the same of sets, in each of which a folder has its parent outside. A move is looked at in the set less what is below the moved folder
(`ShapeMoves`); this uses that the transaction asks for the destination's ancestors under the owner's lock, not before it. `Closed` is what deletions have
in common: with a folder they take everything in it, so that nothing is stranded and no foreign key has work to do. Names are what `Occupied`
says, asked in the step that writes (`FilePlaced`, `FolderPlaced`); whatever else writes a name or a place adds its item to `stray`, and an allocation takes
it out again, so the claim is about all items that are not in it. Folder and mirror are written together by every request except the
deletion of a mirror as if it were a file, which `bare` records.

`BytesInv` says what the requests under way rely on. `Has`: an id of a copy is drawn, has no row, and has its object once the copy is at `insert`; what is left to
unlink has no row any more. `Apart`: no two copies, and no copy and no unlink, are about one id. `Known`: ids are not drawn twice. So an object is
taken away only where no row is, and `UsedExact` follows from one row more or fewer at each change of `storageUsed` (`UsedGrows`, `UsedShrinks`). A row that a save inserts again is one more row and one more in
`revivals`, so the sum stays exact, and the files in `revived` are the only ones that may lack their object. No request is excluded.

TLC checked each inductive invariant on small instances before it was proved.

Only model-checked, and why. The liveness properties: fairness and ENABLED are out of the provers' reach.
`ArchiveWhole`, `ShownWhole`, `AsChosen`: recursion over
data. `ScopeKept` (the listings) and
`EndsAsAsked`, and the host's `RestorePointKept` could be proved and have not been.

## 7. Not modelled, and why

- Host power loss in `LegacyUpload`: the process crash is modelled. The
  code syncs files and directories before it commits; the SSD module checks such an argument in
  detail.
- Ingress files of legacy uploads: multer writes a chunk to a private temporary first and a sweep by
  age removes what stays behind; no session refers to them.
- Two server processes on one database: the legacy service keeps its handlers in one.
- The panel of public uploads (`frontend/sharing/PublicUploadPanel.tsx`), the sequence of folder creations of a private tree
  (`frontend/files/treeUpload.ts`) and the trash page: they drive what `PublicUploads`, `TreeManifest`, `UploadQueue` and `DirectoryPage` model.
- MIME detection, names of objects, DTO validation, HMAC proofs: data the
  properties do not distinguish.
- Previews, the update check, configuration, headers and logging, deployment and experiments: no state of the service.
