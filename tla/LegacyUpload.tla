---------------------------- MODULE LegacyUpload ----------------------------
(***************************************************************************)
(* Resumable uploads on the legacy (single filesystem) workspace:          *)
(* UploadsService in src/backend/src/uploads/uploads.service.ts.           *)
(*                                                                         *)
(* A session row, its chunk rows and the owner's quota live in PostgreSQL; *)
(* the chunk files, the ".assembly-<attempt>" file of each completion      *)
(* attempt and the final objects live on disk.  The two are not updated    *)
(* atomically: a request handler interleaves database statements with      *)
(* filesystem calls, may lose its connection at any point (the database    *)
(* then rolls its transaction back and frees its locks while the handler   *)
(* keeps running its filesystem calls), and may be cut off by a crash.     *)
(*                                                                         *)
(* One owner is modelled: sessions of different owners share no row.       *)
(***************************************************************************)
EXTENDS Integers, FiniteSets, FiniteSetsExt

CONSTANTS Sessions,     \* upload ids
          Handlers,     \* request handlers of the one server process
          Timer,        \* the handler of the expiry sweep
          NChunks,      \* chunks of a session
          Contents,     \* what a chunk may contain (its SHA-256)
          None,         \* no content, no row, no object
          Deleted,      \* a File row that was deleted for good
          Size,         \* totalSize of each session
          Want,         \* expectedSha256 of each session: a body, or None
          Quota,        \* storageQuota of the owner
          MaxTotal,     \* MAX_TOTAL_SIZE, 0 when unlimited
          OtherBytes,   \* amounts other services charge to the owner at once
          Slots,        \* assemblies the connection pool allows at once
          MaxAttempts,  \* bound: completion attempts per session
          MaxFaults,    \* bound: crashes, lost connections and thrown errors
          Historical    \* sessions left behind by an earlier release

Procs  == Handlers \cup {Timer}
Chunks == 1..NChunks
Rows   == [Chunks -> Contents \cup {None}]
Bodies == [Chunks -> Contents]
NoRows == [i \in Chunks |-> None]

\* The final object of attempt a has key a; key 0 is the deterministic object
\* name that releases before the attempt ids used.
Attempts == 1..MaxAttempts
Keys     == {0} \cup Attempts

ASSUME ConstantsAssumption ==
  /\ IsFiniteSet(Sessions)
  /\ Timer \notin Handlers /\ None \notin Sessions
  /\ NChunks \in Nat \ {0}
  /\ None \notin Contents
  /\ None \notin Keys /\ Deleted \notin Keys /\ None # Deleted
  /\ None \notin Bodies
  /\ Size \in [Sessions -> Nat \ {0}]
  /\ Want \in [Sessions -> Bodies \cup {None}]
  /\ Quota \in Nat /\ MaxTotal \in Nat
  /\ OtherBytes \subseteq Nat
  /\ Slots \in Nat \ {0} /\ MaxAttempts \in Nat /\ MaxFaults \in Nat
  /\ Historical \subseteq Sessions

VARIABLES
  status,    \* upload_sessions.status; "none" before, "gone" after the row
  expired,   \* sessions whose expiresAt has passed
  hydrated,  \* sessions whose accountingInitialized is set
  rec,       \* upload_chunks: the recorded content of each chunk
  file,      \* the File row of a session: the key of its object
  used,      \* users.storageUsed
  other,     \* the part of used that other services charged
  dir,       \* the session's workspace directory exists
  disk,      \* the chunk files in it
  marker,    \* the ".assembly-<attempt>" files in it
  obj,       \* final objects of a session, by key
  w,         \* the state of each handler
  next,      \* next fresh attempt id of a session
  faults,    \* faults so far
  up         \* the server process is running

dbVars  == <<status, hydrated, rec, file, used, other>>
fsVars  == <<dir, disk, marker, obj>>
envVars == <<expired, next, faults, up>>
vars    == <<dbVars, fsVars, envVars, w>>

Statuses == {"none", "pending", "uploading", "completed", "aborted", "gone"}
Active   == {"pending", "uploading"}

PublishOps == {"complete", "replay"}
FencedOps  == PublishOps \cup {"chunk", "reconcile", "abort", "expire"}
Labels == {"idle", "mkdir", "rename", "rows", "list", "query", "unlink",
           "unmark", "attempt", "read", "publish", "link", "save", "commit",
           "repair", "deltemp", "endtx", "undo", "unmarkOwn"}

\* A handler: the operation, the session it is about, whether its connection
\* (and with it the advisory fence and every row lock) is alive, its attempt,
\* the attempts its cleanup listed and the one it is removing, the committed
\* key it saw, the rows or bytes it has read, and the chunk it carries.
Handler == [op: FencedOps \cup {"idle", "create"}, pc: Labels,
            s: Sessions \cup {None}, conn: BOOLEAN, att: Keys,
            seen: SUBSET Attempts, cur: Keys, comm: Keys \cup {None, Deleted},
            buf: Rows, i: Chunks \cup {0}, c: Contents \cup {None},
            hit: BOOLEAN]

Idle == [op |-> "idle", pc |-> "idle", s |-> None, conn |-> FALSE,
         att |-> 0, seen |-> {}, cur |-> 0, comm |-> None, buf |-> NoRows,
         i |-> 0, c |-> None, hit |-> FALSE]

-----------------------------------------------------------------------------
(* Shared vocabulary *)

Begin(o, l, s) == [Idle EXCEPT !.op = o, !.pc = l, !.s = s, !.conn = TRUE]
Goto(p, l) == w' = [w EXCEPT ![p].pc = l]
Stop(p)    == w' = [w EXCEPT ![p] = Idle]
At(p, l)   == up /\ w[p].pc = l
Free(p)    == up /\ w[p].pc = "idle"

\* Mutant: assembly takes the fence shared, like everyone else.
SharedFenceFree(s) ==
  \A q \in Procs :
    ~(w[q].op \in FencedOps \ PublishOps /\ w[q].s = s /\ w[q].conn)

\* Assembly takes the session-level advisory lock exclusively; every other
\* mutation takes it shared and then the session row FOR UPDATE.  Either way
\* two live holders of one session exclude each other.
FenceFree(s) ==
  \A q \in Procs : ~(w[q].op \in FencedOps /\ w[q].s = s /\ w[q].conn)

\* The owner's row is locked by a publication from its checks to its COMMIT.
OwnerRowFree ==
  \A q \in Procs : ~(w[q].conn /\ w[q].pc \in {"link", "save", "commit"})

\* A session's row is locked by the transaction of every other mutation, and by
\* a publication from its checks on.
RowFree(s) ==
  \A q \in Procs :
    ~(w[q].conn /\ w[q].s = s /\ (\/ w[q].op \in FencedOps \ PublishOps
                                 \/ w[q].pc \in {"link", "save", "commit"}))

ActiveSessions == {s \in Sessions : status[s] \in Active}

\* The bytes of some sessions, as SUM(totalSize) adds them up.
Total(S) == MapThenSumSet(LAMBDA s : Size[s], S)
Reserved == Total(ActiveSessions)

\* Mutant: admission forgets the uploads that are under way.
AdmissionIgnoresReserved(s) ==
  /\ MaxTotal > 0 => Size[s] <= MaxTotal
  /\ used + Size[s] <= Quota

AdmissionFits(s) ==
  /\ MaxTotal > 0 => Reserved + Size[s] <= MaxTotal
  /\ used + Reserved + Size[s] <= Quota

-----------------------------------------------------------------------------
(* createUploadSession: the row is committed, then the directory is made *)

Create(p, s) ==
  /\ Free(p) /\ p # Timer
  /\ status[s] = "none"
  /\ OwnerRowFree /\ AdmissionFits(s)
  /\ status' = [status EXCEPT ![s] = "pending"]
  /\ hydrated' = hydrated \cup {s}
  /\ w' = [w EXCEPT ![p] = Begin("create", "mkdir", s)]
  /\ UNCHANGED <<rec, file, used, other, fsVars, envVars>>

Mkdir(p) ==
  /\ At(p, "mkdir")
  /\ dir' = [dir EXCEPT ![w[p].s] = TRUE]
  /\ Stop(p)
  /\ UNCHANGED <<dbVars, disk, marker, obj, envVars>>

\* A failure deletes the row again, once nobody holds it.
MkdirFails(p) ==
  /\ At(p, "mkdir") /\ RowFree(w[p].s)
  /\ status' = [status EXCEPT ![w[p].s] = "gone"]
  /\ rec' = [rec EXCEPT ![w[p].s] = NoRows]
  /\ Stop(p)
  /\ UNCHANGED <<hydrated, file, used, other, fsVars, envVars>>

-----------------------------------------------------------------------------
(* uploadChunk and reconcileUploadSession *)

\* hydrateLegacyAccounting: a session without accounting takes its rows from
\* the chunk files, once.
HydratedRows(s) == IF s \in hydrated THEN rec[s] ELSE disk[s]

ChunkBegin(p, s, i, c) ==
  /\ Free(p) /\ p # Timer
  /\ FenceFree(s)
  /\ status[s] \in Active /\ s \notin expired
  /\ HydratedRows(s)[i] \in {None, c}
  /\ disk[s][i] \in {None, c}
  /\ w' = [w EXCEPT ![p] =
             [Begin("chunk", "rename", s) EXCEPT
                !.buf = HydratedRows(s), !.i = i, !.c = c,
                !.hit = disk[s][i] = c]]
  /\ UNCHANGED <<dbVars, fsVars, envVars>>

\* The staged file is renamed over the chunk's name and the directory synced;
\* a chunk that was already there is only synced.
ChunkRename(p) ==
  LET s == w[p].s IN
  /\ At(p, "rename")
  /\ w[p].hit \/ dir[s]
  /\ disk' = IF w[p].hit THEN disk
             ELSE [disk EXCEPT ![s][w[p].i] = w[p].c]
  /\ Goto(p, "rows")
  /\ UNCHANGED <<dbVars, dir, marker, obj, envVars>>

ReconcileBegin(p, s) ==
  /\ Free(p) /\ p # Timer
  /\ FenceFree(s)
  /\ status[s] \in Active /\ s \notin expired /\ s \notin hydrated
  /\ w' = [w EXCEPT ![p] = [Begin("reconcile", "rows", s) EXCEPT
                              !.buf = HydratedRows(s)]]
  /\ UNCHANGED <<dbVars, fsVars, envVars>>

\* COMMIT of either: the hydrated rows, and the row of the uploaded chunk.
RowsCommit(p) ==
  LET s == w[p].s IN
  /\ At(p, "rows") /\ w[p].conn
  /\ rec' = [rec EXCEPT ![s] =
               [i \in Chunks |-> IF w[p].op = "chunk" /\ i = w[p].i
                                 THEN w[p].c ELSE w[p].buf[i]]]
  /\ hydrated' = hydrated \cup {s}
  /\ status' = IF w[p].op = "chunk"
               THEN [status EXCEPT ![s] = "uploading"] ELSE status
  /\ Stop(p)
  /\ UNCHANGED <<file, used, other, fsVars, envVars>>

-----------------------------------------------------------------------------
(* cleanupUnpublishedAssembly, as completeUpload, abortUpload and the expiry *)
(* sweep run it: list the attempts, ask the database for the committed File, *)
(* then remove object and assembly file of every listed attempt but its own. *)

List(p) ==
  /\ At(p, "list") /\ w[p].conn
  /\ w' = [w EXCEPT ![p].seen = marker[w[p].s], ![p].pc = "query"]
  /\ UNCHANGED <<dbVars, fsVars, envVars>>

Query(p) ==
  /\ At(p, "query") /\ w[p].conn
  /\ w' = [w EXCEPT ![p].comm = file[w[p].s], ![p].pc = "unlink"]
  /\ UNCHANGED <<dbVars, fsVars, envVars>>

Unlink(p, a) ==
  LET s == w[p].s IN
  /\ At(p, "unlink") /\ a \in w[p].seen
  /\ obj' = IF a = w[p].comm THEN obj ELSE [obj EXCEPT ![s][a] = None]
  /\ w' = [w EXCEPT ![p].cur = a, ![p].pc = "unmark"]
  /\ UNCHANGED <<dbVars, dir, disk, marker, envVars>>

Unmark(p) ==
  LET s == w[p].s IN
  /\ At(p, "unmark")
  /\ marker' = [marker EXCEPT ![s] = @ \ {w[p].cur}]
  /\ w' = [w EXCEPT ![p].seen = @ \ {w[p].cur}, ![p].pc = "unlink"]
  /\ UNCHANGED <<dbVars, dir, disk, obj, envVars>>

NoFile(k) == k \in {None, Deleted}

AfterCleanup(p) ==
  IF w[p].op # "complete" THEN "deltemp"
  ELSE IF NoFile(w[p].comm) THEN "attempt" ELSE "repair"

CleanupDone(p) ==
  /\ At(p, "unlink") /\ w[p].seen = {}
  /\ obj' = IF NoFile(w[p].comm) THEN [obj EXCEPT ![w[p].s][0] = None] ELSE obj
  /\ Goto(p, AfterCleanup(p))
  /\ UNCHANGED <<dbVars, dir, disk, marker, envVars>>

-----------------------------------------------------------------------------
(* completeUpload *)

AssemblySlotFree ==
  Cardinality({q \in Procs : w[q].op \in PublishOps}) < Slots

\* The fence, then the session is read.  A completed session with a File is
\* replayed.  (The attempt id is drawn here; the code draws it after cleanup.)
CompleteBegin(p, s) ==
  /\ Free(p) /\ p # Timer
  /\ AssemblySlotFree /\ FenceFree(s)
  /\ s \notin expired
  /\ next[s] <= MaxAttempts
  /\ \/ /\ status[s] \in Active
        /\ w' = [w EXCEPT ![p] = [Begin("complete", "list", s) EXCEPT
                                    !.att = next[s]]]
        /\ next' = [next EXCEPT ![s] = @ + 1]
     \/ /\ status[s] = "completed" /\ ~NoFile(file[s])
        /\ w' = [w EXCEPT ![p] = Begin("replay", "list", s)]
        /\ next' = next
  /\ UNCHANGED <<dbVars, fsVars, expired, faults, up>>

\* Open ".assembly-<attempt>" exclusively, in a directory that must exist.
StartAttempt(p) ==
  LET s == w[p].s IN
  /\ At(p, "attempt") /\ dir[s]
  /\ marker' = [marker EXCEPT ![s] = @ \cup {w[p].att}]
  /\ Goto(p, "read")
  /\ UNCHANGED <<dbVars, dir, disk, obj, envVars>>

\* Mutant: recorded digests are not compared when the chunks are assembled.
ReadableUnverified(p, i) ==
  /\ w[p].buf[i] = None /\ \A j \in Chunks : j < i => w[p].buf[j] # None
  /\ disk[w[p].s][i] # None

\* Chunks are appended in order; a recorded digest must match, a chunk
\* without a row is taken as it is.
Readable(p, i) ==
  LET s == w[p].s IN
  /\ w[p].buf[i] = None /\ \A j \in Chunks : j < i => w[p].buf[j] # None
  /\ disk[s][i] # None
  /\ rec[s][i] \in {None, disk[s][i]}

ReadChunk(p, i) ==
  /\ At(p, "read") /\ w[p].conn
  /\ Readable(p, i)
  /\ w' = [w EXCEPT ![p].buf[i] = disk[w[p].s][i]]
  /\ UNCHANGED <<dbVars, fsVars, envVars>>

\* Whole size and digest, then fsync of the assembly file by name.
Sealable(p) ==
  LET s == w[p].s IN
  /\ \A i \in Chunks : w[p].buf[i] # None
  /\ Want[s] \in {None, w[p].buf}
  /\ w[p].att \in marker[s]

Seal(p) ==
  /\ At(p, "read")
  /\ Sealable(p)
  /\ Goto(p, "publish")
  /\ UNCHANGED <<dbVars, fsVars, envVars>>

\* The publication transaction: owner, folder and session row locks, then
\* every admission check again.
PublishBegin(p) ==
  LET s == w[p].s IN
  /\ At(p, "publish") /\ w[p].conn
  /\ OwnerRowFree
  /\ status[s] \in Active /\ s \notin expired
  /\ used + Reserved <= Quota
  /\ Goto(p, "link")
  /\ UNCHANGED <<dbVars, fsVars, envVars>>

Link(p) ==
  LET s == w[p].s IN
  /\ At(p, "link")
  /\ w[p].att \in marker[s]
  /\ obj' = [obj EXCEPT ![s][w[p].att] = w[p].buf]
  /\ Goto(p, "save")
  /\ UNCHANGED <<dbVars, dir, disk, marker, envVars>>

\* The statements of the transaction up to COMMIT: File row, conditional
\* charge, session status, chunk rows.
Save(p) ==
  /\ At(p, "save") /\ w[p].conn
  /\ used + Size[w[p].s] <= Quota
  /\ Goto(p, "commit")
  /\ UNCHANGED <<dbVars, fsVars, envVars>>

\* COMMIT succeeds in the database.  A lost acknowledgement is this step
\* followed by an error at "deltemp".
PublishCommit(p) ==
  LET s == w[p].s IN
  /\ At(p, "commit") /\ w[p].conn
  /\ file' = [file EXCEPT ![s] = w[p].att]
  /\ used' = used + Size[s]
  /\ status' = [status EXCEPT ![s] = "completed"]
  /\ hydrated' = hydrated \cup {s}
  /\ rec' = [rec EXCEPT ![s] = NoRows]
  /\ Goto(p, "deltemp")
  /\ UNCHANGED <<other, fsVars, envVars>>

\* Mutant: the repair charges the File a second time.
RepairCharges(p) ==
  LET s == w[p].s IN
  /\ At(p, "repair") /\ w[p].conn
  /\ OwnerRowFree
  /\ status[s] \in Active /\ s \notin expired
  /\ file[s] = w[p].comm
  /\ status' = [status EXCEPT ![s] = "completed"]
  /\ rec' = [rec EXCEPT ![s] = NoRows]
  /\ used' = used + Size[s]
  /\ Goto(p, "deltemp")
  /\ UNCHANGED <<hydrated, file, other, fsVars, envVars>>

\* A committed File next to an active session: only the reservation is
\* released, the File was charged when it was published.
Repair(p) ==
  LET s == w[p].s IN
  /\ At(p, "repair") /\ w[p].conn
  /\ OwnerRowFree
  /\ status[s] \in Active /\ s \notin expired
  /\ file[s] = w[p].comm
  /\ status' = [status EXCEPT ![s] = "completed"]
  /\ rec' = [rec EXCEPT ![s] = NoRows]
  /\ Goto(p, "deltemp")
  /\ UNCHANGED <<hydrated, file, used, other, fsVars, envVars>>

DeleteTempFiles(p) ==
  LET s == w[p].s IN
  /\ At(p, "deltemp")
  /\ dir' = [dir EXCEPT ![s] = FALSE]
  /\ disk' = [disk EXCEPT ![s] = NoRows]
  /\ marker' = [marker EXCEPT ![s] = {}]
  /\ IF w[p].op \in PublishOps THEN Stop(p) ELSE Goto(p, "endtx")
  /\ UNCHANGED <<dbVars, obj, envVars>>

\* The catch block of an attempt whose COMMIT was not sent; it ignores errors.
Undo(p) ==
  /\ At(p, "undo")
  /\ \/ obj' = [obj EXCEPT ![w[p].s][w[p].att] = None]
     \/ obj' = obj
  /\ Goto(p, "unmarkOwn")
  /\ UNCHANGED <<dbVars, dir, disk, marker, envVars>>

UnmarkOwn(p) ==
  /\ At(p, "unmarkOwn")
  /\ \/ marker' = [marker EXCEPT ![w[p].s] = @ \ {w[p].att}]
     \/ marker' = marker
  /\ Stop(p)
  /\ UNCHANGED <<dbVars, dir, disk, obj, envVars>>

-----------------------------------------------------------------------------
(* abortUpload and cleanupExpiredSessions *)

AbortBegin(p, s) ==
  /\ Free(p) /\ p # Timer
  /\ FenceFree(s)
  /\ status[s] \in Active \cup {"aborted"}
  /\ w' = [w EXCEPT ![p] = Begin("abort", "list", s)]
  /\ UNCHANGED <<dbVars, fsVars, envVars>>

AbortCommit(p) ==
  LET s == w[p].s IN
  /\ At(p, "endtx") /\ w[p].op = "abort" /\ w[p].conn
  /\ status' = [status EXCEPT ![s] = "aborted"]
  /\ rec' = [rec EXCEPT ![s] = NoRows]
  /\ Stop(p)
  /\ UNCHANGED <<hydrated, file, used, other, fsVars, envVars>>

\* Mutant: the sweep selects only sessions that have not received a chunk.
ExpireBeginPending(s) ==
  /\ Free(Timer)
  /\ FenceFree(s)
  /\ \/ status[s] = "pending" /\ s \in expired
     \/ status[s] \in {"completed", "aborted"}
  /\ w' = [w EXCEPT ![Timer] = Begin("expire", "list", s)]
  /\ UNCHANGED <<dbVars, fsVars, envVars>>

\* A candidate of the sweep was active when it was selected; it may have
\* become terminal by the time the sweep locks it.
ExpireBegin(s) ==
  /\ Free(Timer)
  /\ FenceFree(s)
  /\ \/ status[s] \in Active /\ s \in expired
     \/ status[s] \in {"completed", "aborted"}
  /\ w' = [w EXCEPT ![Timer] = Begin("expire", "list", s)]
  /\ UNCHANGED <<dbVars, fsVars, envVars>>

ExpireCommit ==
  LET s == w[Timer].s IN
  /\ At(Timer, "endtx") /\ w[Timer].conn
  /\ rec' = [rec EXCEPT ![s] = NoRows]
  /\ status' = IF status[s] \in Active
               THEN [status EXCEPT ![s] = "gone"] ELSE status
  /\ Stop(Timer)
  /\ UNCHANGED <<hydrated, file, used, other, fsVars, envVars>>

-----------------------------------------------------------------------------
(* Errors, lost connections, crashes *)

\* Mutant: the catch block does not ask whether COMMIT was sent.
UnpublishedAlways == {"read", "publish", "link", "save", "commit", "deltemp"}

Unpublished == {"read", "publish", "link", "save"}

\* Where an exception takes a handler: its transaction rolls back; an attempt
\* whose COMMIT was not sent removes what it made, one whose COMMIT was sent
\* keeps it.
Throw(p) ==
  IF w[p].pc \in Unpublished THEN Goto(p, "undo") ELSE Stop(p)

DatabaseLabels == {"rows", "list", "query", "read", "publish", "save",
                   "commit", "repair", "endtx"}

\* A step that cannot succeed: a statement on a lost connection, a missing
\* file, a failed comparison, a publication that is refused.
Fail(p) ==
  LET s == w[p].s IN
  /\ up
  /\ \/ w[p].pc \in DatabaseLabels /\ ~w[p].conn
     \/ w[p].pc = "rename" /\ ~w[p].hit /\ ~dir[s]
     \/ w[p].pc = "attempt" /\ ~dir[s]
     \/ w[p].pc = "read" /\ ~Sealable(p) /\ ~ \E i \in Chunks : Readable(p, i)
     \/ w[p].pc = "publish"
     \/ w[p].pc = "link" /\ w[p].att \notin marker[s]
     \/ w[p].pc = "save" /\ used + Size[s] > Quota
     \/ w[p].pc = "repair"
  /\ Throw(p)
  /\ UNCHANGED <<dbVars, fsVars, envVars>>

\* Any other error (I/O, a refused statement), at any step.
Fault(p) ==
  /\ up /\ w[p].op \in FencedOps /\ w[p].pc \notin {"undo", "unmarkOwn"}
  /\ faults < MaxFaults /\ faults' = faults + 1
  /\ Throw(p)
  /\ UNCHANGED <<dbVars, fsVars, expired, next, up>>

\* The connection is lost: its transaction, its fence and its row locks go
\* with it, the handler does not notice before its next statement.
LoseConnection(p) ==
  /\ up /\ w[p].op \in FencedOps /\ w[p].conn
  /\ faults < MaxFaults /\ faults' = faults + 1
  /\ w' = [w EXCEPT ![p].conn = FALSE]
  /\ UNCHANGED <<dbVars, fsVars, expired, next, up>>

Crash ==
  /\ up /\ faults < MaxFaults /\ faults' = faults + 1
  /\ up' = FALSE
  /\ w' = [p \in Procs |-> Idle]
  /\ UNCHANGED <<dbVars, fsVars, expired, next>>

\* onModuleInit: cleanupOrphanedTempDirs reclaims every directory that no
\* active session refers to; a database error reclaims none.
Restart ==
  /\ ~up /\ up' = TRUE
  /\ \E kept \in {Sessions, ActiveSessions} :
       /\ dir' = [s \in Sessions |-> dir[s] /\ s \in kept]
       /\ disk' = [s \in Sessions |-> IF s \in kept THEN disk[s] ELSE NoRows]
       /\ marker' = [s \in Sessions |-> IF s \in kept THEN marker[s] ELSE {}]
  /\ UNCHANGED <<dbVars, obj, expired, next, faults, w>>

-----------------------------------------------------------------------------
(* The clock, and the other services that touch the owner's rows *)

\* The lifetime is at least an hour: it outlasts the creating request.
Tick(s) ==
  /\ status[s] \in Active /\ s \notin expired
  /\ \A p \in Procs : ~(w[p].pc = "mkdir" /\ w[p].s = s)
  /\ expired' = expired \cup {s}
  /\ UNCHANGED <<dbVars, fsVars, next, faults, up, w>>

\* updateStorageUsed and decrementStorageUsed as FilesService calls them.
Charge(b) ==
  /\ up /\ OwnerRowFree /\ used + b <= Quota
  /\ used' = used + b /\ other' = other + b
  /\ UNCHANGED <<status, hydrated, rec, file, fsVars, envVars, w>>

Release(b) ==
  /\ up /\ OwnerRowFree /\ other >= b
  /\ used' = used - b /\ other' = other - b
  /\ UNCHANGED <<status, hydrated, rec, file, fsVars, envVars, w>>

\* deleteFilePermanently of a published file; the object goes after COMMIT,
\* or stays when the process stops in between.
DeleteFile(s) ==
  /\ up /\ OwnerRowFree /\ file[s] \in Keys
  /\ file' = [file EXCEPT ![s] = Deleted]
  /\ used' = used - Size[s]
  /\ obj' \in {obj, [obj EXCEPT ![s][file[s]] = None]}
  /\ UNCHANGED <<status, hydrated, rec, other, dir, disk, marker, envVars, w>>

-----------------------------------------------------------------------------
Init ==
  /\ \E published \in SUBSET Historical, body \in Bodies :
       /\ file = [s \in Sessions |-> IF s \in published THEN 0 ELSE None]
       /\ obj = [s \in Sessions |-> [k \in Keys |->
                   IF s \in Historical /\ k = 0 THEN body ELSE None]]
       /\ disk = [s \in Sessions |->
                    IF s \in Historical THEN body ELSE NoRows]
       /\ used = Total(published)
  /\ status = [s \in Sessions |->
                 IF s \in Historical THEN "uploading" ELSE "none"]
  /\ dir = [s \in Sessions |-> s \in Historical]
  /\ rec = [s \in Sessions |-> NoRows]
  /\ marker = [s \in Sessions |-> {}]
  /\ next = [s \in Sessions |-> 1]
  /\ w = [p \in Procs |-> Idle]
  /\ expired = {} /\ hydrated = {} /\ other = 0 /\ faults = 0 /\ up = TRUE

UploadStep(p) ==
  \/ Mkdir(p) \/ MkdirFails(p) \/ ChunkRename(p) \/ RowsCommit(p)

CleanupStep(p) ==
  \/ List(p) \/ Query(p) \/ (\E a \in Attempts : Unlink(p, a)) \/ Unmark(p)
  \/ CleanupDone(p)

CompleteStep(p) ==
  \/ StartAttempt(p) \/ (\E i \in Chunks : ReadChunk(p, i)) \/ Seal(p)
  \/ PublishBegin(p) \/ Link(p) \/ Save(p) \/ PublishCommit(p) \/ Repair(p)
  \/ DeleteTempFiles(p) \/ Undo(p) \/ UnmarkOwn(p)

HandlerStep(p) ==
  \/ UploadStep(p) \/ CleanupStep(p) \/ CompleteStep(p) \/ AbortCommit(p)
  \/ Fail(p)

Request(p) ==
  \E s \in Sessions :
    \/ Create(p, s)
    \/ \E i \in Chunks, c \in Contents : ChunkBegin(p, s, i, c)
    \/ ReconcileBegin(p, s)
    \/ CompleteBegin(p, s)
    \/ AbortBegin(p, s)

Sweep == (\E s \in Sessions : ExpireBegin(s)) \/ ExpireCommit

Failure == Crash \/ Restart \/ \E p \in Procs : Fault(p) \/ LoseConnection(p)

Environment ==
  \/ \E s \in Sessions : Tick(s) \/ DeleteFile(s)
  \/ \E b \in OtherBytes : Charge(b) \/ Release(b)

Next ==
  \/ \E p \in Procs : Request(p) \/ HandlerStep(p)
  \/ Sweep \/ Failure \/ Environment

Spec == Init /\ [][Next]_vars

\* Handlers run to their end, a stopped server is started again, and the hourly
\* sweep, which visits every active session, does not find the same session
\* fenced every time.  Requests, faults and other services owe nothing.
Fairness ==
  /\ \A p \in Procs : WF_vars(HandlerStep(p))
  /\ WF_vars(ExpireCommit) /\ WF_vars(Restart)
  /\ \A s \in Sessions : SF_vars(status[s] \in Active /\ ExpireBegin(s))

FairSpec == Spec /\ Fairness
-----------------------------------------------------------------------------
(* Properties *)

\* The state is of the shape the code's columns, paths and locals have; the
\* amount charged is UsedAccounts' matter.
TypeOK ==
  /\ status \in [Sessions -> Statuses]
  /\ rec \in [Sessions -> Rows] /\ disk \in [Sessions -> Rows]
  /\ file \in [Sessions -> Keys \cup {None, Deleted}]
  /\ dir \in [Sessions -> BOOLEAN]
  /\ marker \in [Sessions -> SUBSET Attempts]
  /\ obj \in [Sessions -> [Keys -> Bodies \cup {None}]]
  /\ w \in [Procs -> Handler]
  /\ next \in [Sessions -> Nat \ {0}]
  /\ expired \subseteq Sessions /\ hydrated \subseteq Sessions

\* A File row always has its whole object: no cleanup, by whichever handler,
\* however late and on however stale a view, removes what was published.
PublishedObjectKept ==
  \A s \in Sessions : file[s] \in Keys => obj[s][file[s]] \in Bodies

\* What is published is what the client had acknowledged: every recorded chunk
\* has its recorded content in the object and the declared digest is met, even
\* if a handler that lost its connection overwrote a chunk file meanwhile.
PublishesRecordedBytes ==
  [][\A s \in Sessions :
       file'[s] # file[s] /\ file'[s] \in Attempts =>
         LET body == obj[s][file'[s]] IN
         /\ \A i \in Chunks : rec[s][i] \in {None, body[i]}
         /\ Want[s] \in {None, body}]_vars

\* An upload as its owner sees it: open until it is published whole or over,
\* published at most once, whatever retry, replay or repair follows a crash or
\* a lost COMMIT, and readable with the same bytes until it is deleted.
PhaseOf == [s \in Sessions |->
  IF file[s] \in Keys THEN "published"
  ELSE IF status[s] = "none" THEN "absent"
  ELSE IF status[s] \in Active THEN "open" ELSE "over"]

ContentOf == [s \in Sessions |->
  IF file[s] \in Keys THEN obj[s][file[s]] ELSE None]

UP == INSTANCE UploadPromise WITH phase <- PhaseOf, content <- ContentOf

KeepsPromise == UP!Spec

\* The owner is charged for each published file, once, and for nothing else.
UsedAccounts ==
  used = other + Total({s \in Sessions : file[s] \in Keys})

\* An admitted upload fits: what is used and what is reserved stay within the
\* quota, so that no admitted upload is refused for space when it completes.
\* (What other services charged meanwhile is theirs: copies and new files are
\* admitted without regard to reservations.)
ReservationsFit ==
  /\ used - other + Reserved <= Quota
  /\ MaxTotal > 0 => Reserved <= MaxTotal

\* What an earlier release has left behind does, as Files and as reservations.
HistoryFits ==
  /\ 2 * Total(Historical) <= Quota
  /\ MaxTotal > 0 => Total(Historical) <= MaxTotal

\* An expired upload gives its reservation back, and its workspace: unless its
\* owner completes or aborts it meanwhile, the sweep removes row and directory.
\* (An abort that overtakes the creating request leaves an empty directory, a
\* completion that cannot delete its own leaves it, both until the next start.)
ExpiredReclaimed ==
  \A s \in Sessions :
    (s \in expired /\ status[s] \in Active) ~>
      (\/ status[s] \in {"completed", "aborted"}
       \/ status[s] = "gone" /\ ~dir[s])

-----------------------------------------------------------------------------
(* The inductive invariant behind PublishedObjectKept and KeepsPromise *)

CleanupLabels == {"list", "query", "unlink", "unmark"}
AttemptLabels == {"read", "publish", "link", "save", "commit", "undo",
                  "unmarkOwn"}
Publishing(p) == w[p].op = "complete" /\ w[p].conn

\* Which operation a handler can be at which step of.
InvWork ==
  \A p \in Procs :
    /\ w[p].pc = "idle" => w[p] = Idle
    /\ w[p].pc # "idle" => w[p].s \in Sessions
    /\ w[p].pc = "mkdir" => w[p].op = "create"
    /\ w[p].pc \in {"rename", "rows"} => w[p].op \in {"chunk", "reconcile"}
    /\ w[p].op = "chunk" => /\ w[p].pc \in {"rename", "rows"}
                           /\ w[p].i \in Chunks /\ w[p].c \in Contents
    /\ w[p].pc = "rename" => w[p].op = "chunk"
    /\ w[p].pc \in CleanupLabels \cup {"deltemp"} =>
         w[p].op \in PublishOps \cup {"abort", "expire"}
    /\ w[p].pc = "endtx" => w[p].op \in {"abort", "expire"}
    /\ w[p].pc \in AttemptLabels \cup {"attempt", "repair"} =>
         w[p].op = "complete"
    /\ w[p].op = "complete" /\ w[p].pc \in CleanupLabels \cup {"attempt"} =>
         w[p].buf = NoRows
    /\ w[p].pc \in {"publish", "link", "save", "commit"} => w[p].buf \in Bodies
    /\ w[p].pc = "unmark" => w[p].cur \in w[p].seen

\* The fence: live handlers of one session exclude each other.
InvFence ==
  \A p, q \in Procs :
    /\ p # q /\ w[p].conn /\ w[q].conn
    /\ w[p].op \in FencedOps /\ w[q].op \in FencedOps
    => w[p].s # w[q].s

\* Attempt ids are fresh ...
InvFresh ==
  \A s \in Sessions : \A a \in Attempts :
    a \in marker[s] \/ file[s] = a => a < next[s]

InvDrawn ==
  \A p \in Procs : w[p].pc # "idle" =>
    /\ \A a \in w[p].seen : a < next[w[p].s]
    /\ w[p].op = "complete" =>
         w[p].att \in Attempts /\ w[p].att < next[w[p].s]

\* ... and nobody shares one.
InvDistinct ==
  \A p, q \in Procs :
    /\ p # q /\ w[p].op = "complete" /\ w[q].op = "complete"
    /\ w[p].s = w[q].s
    => w[p].att # w[q].att

\* An attempt that has not committed is no File.
InvUncommitted ==
  \A p \in Procs : w[p].op = "complete" /\ w[p].pc # "deltemp" =>
    file[w[p].s] # w[p].att

\* An attempt that has not started has no assembly file, and no cleanup has
\* listed it, nor the attempt of a publisher that is still connected.
Preparing(p) == w[p].op = "complete"
                /\ w[p].pc \in CleanupLabels \cup {"attempt", "repair"}

InvUnstarted ==
  \A p \in Procs : Preparing(p) => w[p].att \notin marker[w[p].s]

InvUnlisted ==
  \A p, q \in Procs :
    (Publishing(p) \/ Preparing(p)) /\ w[q].s = w[p].s
    => w[p].att \notin w[q].seen

\* A cleanup that asked for the committed File knows the one it has listed.
InvKnown ==
  \A p \in Procs : w[p].pc \in {"unlink", "unmark"} =>
    \A k \in w[p].seen \cup {0} : file[w[p].s] = k => w[p].comm = k

\* What a connected publisher is about to commit is linked and agrees with
\* the rows; its session is still active and has no File.
Linked(p) ==
  LET s == w[p].s IN
  /\ w[p].pc \in {"attempt", "read", "publish", "link", "save", "commit"} =>
       file[s] \notin Keys
  /\ w[p].pc \in {"unlink", "unmark"} /\ NoFile(w[p].comm) =>
       file[s] \notin Keys
  /\ w[p].pc \in {"read", "publish", "link", "save", "commit"} =>
       \A i \in Chunks : w[p].buf[i] # None => rec[s][i] \in {None, w[p].buf[i]}
  /\ w[p].pc \in {"publish", "link", "save", "commit"} =>
       Want[s] \in {None, w[p].buf}
  /\ w[p].pc \in {"link", "save", "commit"} => status[s] \in Active
  /\ w[p].pc \in {"save", "commit"} => obj[s][w[p].att] = w[p].buf

InvLinked == \A p \in Procs : Publishing(p) => Linked(p)

\* Before its directory exists nothing happens to a session.
InvUnmade ==
  \A p \in Procs : w[p].pc = "mkdir" =>
    ~dir[w[p].s] /\ file[w[p].s] = None /\ w[p].s \notin Historical

InvAlone ==
  \A p, q \in Procs :
    w[p].pc = "mkdir" /\ p # q /\ w[q].s = w[p].s =>
      /\ w[q].pc \notin
           {"mkdir", "rows"} \cup (AttemptLabels \ {"undo", "unmarkOwn"})
      /\ ~w[q].hit

InvAbsent ==
  /\ \A s \in Sessions : status[s] = "none" =>
       ~dir[s] /\ file[s] = None /\ s \notin Historical
  /\ \A p \in Procs : w[p].pc # "idle" => status[w[p].s] # "none"

\* Accounting is set from the start; chunk files live in the directory.
InvDisk ==
  \A s \in Sessions :
    /\ ~dir[s] => disk[s] = NoRows
    /\ s \notin Historical => s \in hydrated \/ status[s] = "none"

\* A File, once there, keeps the session completed.
InvCompleted ==
  \A s \in Sessions :
    s \notin Historical /\ file[s] # None => status[s] = "completed"

\* What the open transaction of an abort or a chunk found is still so.
InvAborting ==
  \A p \in Procs :
    w[p].op = "abort" /\ w[p].conn => status[w[p].s] # "completed"

InvChunk ==
  \A p \in Procs : w[p].op = "chunk" /\ w[p].conn => status[w[p].s] \in Active

IInv ==
  /\ TypeOK /\ InvWork /\ InvFence
  /\ InvFresh /\ InvDrawn /\ InvDistinct
  /\ InvUncommitted /\ InvUnstarted /\ InvUnlisted /\ InvKnown /\ InvLinked
  /\ InvUnmade /\ InvAlone /\ InvAbsent /\ InvDisk /\ InvCompleted
  /\ InvAborting /\ InvChunk
  /\ PublishedObjectKept

=============================================================================
