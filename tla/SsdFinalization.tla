-------------------------- MODULE SsdFinalization --------------------------
(***************************************************************************)
(* Uploads that are collected on the SSD workspace and finalized onto the  *)
(* HDD under a journal: SsdUploadsService, SsdCrossFsFinalizer,            *)
(* SsdFinalizationRecovery, PostgresSsdFinalizationStore and the file      *)
(* system capability they share (src/backend/src/uploads/ssd-*.ts), with   *)
(* the guards the migrations put on the tables.                            *)
(*                                                                         *)
(* Every operation that changes the workspace holds a nonblocking flock on *)
(* its root; every database step is a short transaction of its own.  What  *)
(* happens between two of them - an error after a step was applied or      *)
(* before, a crash of the process, a power failure that takes what was not *)
(* synced - is left to recover(), which has the journal row and the files  *)
(* to go by.                                                               *)
(*                                                                         *)
(* The sessions are those of one owner.  A journal operation has one HDD   *)
(* artifact: it is created exclusively, never removed, and renamed once.   *)
(***************************************************************************)
EXTENDS Integers, FiniteSets, FiniteSetsExt

CONSTANTS Sessions,   \* upload ids
          Handlers,   \* request handlers and the startup sweep
          NChunks,    \* chunks of a session
          Contents,   \* what a chunk may contain (its SHA-256)
          None,       \* no content, no row, nobody
          Deleted,    \* a File row that was deleted for good
          Size,       \* totalSize of each session
          Want,       \* expectedSha256 of each session: a body
          Quota,      \* storageQuota of the owner
          MaxTotal,   \* MAX_TOTAL_SIZE, 0 when unlimited
          OtherBytes, \* amounts other services charge to the owner at once
          Taken,      \* sessions whose filename another file of the folder has
          Foldered,   \* sessions whose folder may be trashed and restored
          SsdDecays,  \* whether the SSD may lose or damage a chunk file
          MaxFaults   \* bound: errors, crashes, power failures, decay

ASSUME ConstantsAssumption ==
  /\ NChunks \in Nat \ {0}
  /\ None \notin Contents \cup Handlers \cup {"live"}
  /\ Deleted \notin {None, "live"}
  /\ Want \in [Sessions -> [1..NChunks -> Contents]]

Chunks == 1..NChunks
Rows   == [Chunks -> Contents \cup {None}]
Bodies == [Chunks -> Contents]
NoRows == [i \in Chunks |-> None]

VARIABLES
  status,   \* upload_sessions.status
  expired,  \* sessions whose expiresAt has passed
  rec,      \* upload_chunks: the recorded content of each chunk
  op,       \* ssd_finalization_operations, with its sealed manifest
  file,     \* the File row of a session: None, "live" or Deleted
  used,     \* users.storageUsed
  other,    \* the part of used that other services charged
  trashed,  \* sessions whose destination folder is in the trash
  dir,      \* the session's directory exists on the SSD
  chunk,    \* the chunk files in it
  art,      \* the HDD artifact of a session's operation
  lock,     \* who holds the flock on the SSD root
  w,        \* the state of each handler
  faults    \* faults so far

dbVars == <<status, rec, op, file, used>>
fsVars == <<dir, chunk, art>>
env    == <<expired, other, trashed>>
vars   == <<dbVars, fsVars, env, lock, w, faults>>

Active == {"pending", "uploading"}
States == {"none", "assembling", "verified", "publishing", "published",
           "committed"}
Places == {"none", "temp", "final"}
Labels == {"idle", "mkdir", "store", "row", "create", "record", "assemble",
           "mark", "mime", "intent", "rename", "sync", "settle", "commit",
           "reopen", "inspect", "preflight", "remove", "purge"}

\* A journal row: its state, the sealed manifest, whether the inode of the
\* artifact and its MIME type are recorded, and whether cleanup is over.
NoOp == [state |-> "none", man |-> NoRows, target |-> FALSE, mime |-> FALSE,
         cleaned |-> FALSE]

\* An artifact: under which name it is found, under which name it is found
\* after a power failure, the chunks appended to it, whether they are synced.
NoArt == [place |-> "none", named |-> "none", bytes |-> NoRows,
          synced |-> FALSE]

\* A handler: its operation, the session it is about, the chunk it carries (or
\* the last one it purged).  One that is not idle holds the flock, but for
\* "reopen": between finalize() and the recover() that cleans up after it.
Idle == [op |-> "idle", pc |-> "idle", s |-> None, i |-> 0, c |-> None]

-----------------------------------------------------------------------------
(* Shared vocabulary *)

Pending(s) == op[s].state # "none" /\ ~op[s].cleaned
Full(rows) == \A i \in Chunks : rows[i] # None
Free(p)    == w[p].pc = "idle"
At(p, l)   == w[p].pc = l

Goto(p, l) == w' = [w EXCEPT ![p].pc = l]
Start(p, o, l, s) ==
  w' = [w EXCEPT ![p] = [Idle EXCEPT !.op = o, !.pc = l, !.s = s]]
Done(p) == /\ w' = [w EXCEPT ![p] = Idle]
           /\ lock' = IF lock = p THEN None ELSE lock

\* After a step that both finalize() and recover() take, recover() looks at the
\* journal and the artifact again.
Then(p, l) == Goto(p, IF w[p].op = "recover" THEN "inspect" ELSE l)

ActiveSessions == {s \in Sessions : status[s] \in Active}
Reserved == MapThenSumSet(LAMBDA s : Size[s], ActiveSessions)

Advance(s, from, to) ==
  /\ op[s].state = from
  /\ op' = [op EXCEPT ![s].state = to]

\* What outcome() makes sure of before any step relies on the journal row.
Unambiguous(s) ==
  IF op[s].state = "committed"
  THEN status[s] = "completed" /\ file[s] = "live"
  ELSE status[s] \in Active /\ file[s] = None

\* Mutant: the reservation ends with the commit, not with the cleanup.
UnreservedOnceCommitted(s) == op[s].state \in {"none", "committed"}

Unreserved(s) == ~Pending(s)

-----------------------------------------------------------------------------
(* createUploadSession, under the flock: the row, then the directory *)

Create(p, s) ==
  /\ Free(p) /\ lock = None
  /\ status[s] = "none"
  /\ used + Reserved + Size[s] <= Quota
  /\ MaxTotal > 0 => Reserved + Size[s] <= MaxTotal
  /\ s \notin trashed
  /\ status' = [status EXCEPT ![s] = "pending"]
  /\ Start(p, "create", "mkdir", s) /\ lock' = p
  /\ UNCHANGED <<rec, op, file, used, fsVars, env, faults>>

Mkdir(p) ==
  /\ At(p, "mkdir")
  /\ dir' = [dir EXCEPT ![w[p].s] = TRUE]
  /\ Done(p)
  /\ UNCHANGED <<dbVars, chunk, art, env, faults>>

\* Its directory may be there all the same; the compensation may fail as well.
MkdirFails(p) ==
  LET s == w[p].s IN
  /\ At(p, "mkdir")
  /\ \/ dir' = dir \/ dir' = [dir EXCEPT ![s] = TRUE]
  /\ \/ status' = status \/ status' = [status EXCEPT ![s] = "aborted"]
  /\ Done(p)
  /\ UNCHANGED <<rec, op, file, used, chunk, art, env, faults>>

-----------------------------------------------------------------------------
(* uploadChunk *)

ChunkBegin(p, s, i, c) ==
  /\ Free(p) /\ lock = None
  /\ status[s] \in Active /\ s \notin expired /\ Unreserved(s)
  /\ rec[s][i] \in {None, c} /\ chunk[s][i] \in {None, c}
  /\ w' = [w EXCEPT ![p] = [op |-> "chunk", pc |-> "store", s |-> s,
                            i |-> i, c |-> c]]
  /\ lock' = p
  /\ UNCHANGED <<dbVars, fsVars, env, faults>>

\* The staged file is renamed to the chunk's name unless that is there already;
\* file and directory are synced.
ChunkStore(p) ==
  LET s == w[p].s IN
  /\ At(p, "store") /\ dir[s]
  /\ chunk' = [chunk EXCEPT ![s][w[p].i] = w[p].c]
  /\ Goto(p, "row")
  /\ UNCHANGED <<dbVars, dir, art, env, lock, faults>>

ChunkCommit(p) ==
  LET s == w[p].s IN
  /\ At(p, "row")
  /\ status[s] \in Active /\ s \notin expired /\ Unreserved(s)
  /\ rec[s][w[p].i] \in {None, w[p].c}
  /\ rec' = [rec EXCEPT ![s][w[p].i] = w[p].c]
  /\ status' = [status EXCEPT ![s] = "uploading"]
  /\ Done(p)
  /\ UNCHANGED <<op, file, used, fsVars, env, faults>>

-----------------------------------------------------------------------------
(* completeUpload: the journal operation and finalize() *)

\* prepare() and begin().  One operation is pending at a time, whoever's.
FinalizeBegin(p, s) ==
  /\ Free(p) /\ lock = None
  /\ op[s].state = "none" /\ \A t \in Sessions : ~Pending(t)
  /\ status[s] \in Active /\ s \notin expired /\ s \notin trashed
  /\ Full(rec[s]) /\ file[s] = None /\ dir[s]
  /\ op' = [op EXCEPT ![s] = [NoOp EXCEPT !.state = "assembling",
                                          !.man = rec[s]]]
  /\ Start(p, "finalize", "create", s) /\ lock' = p
  /\ UNCHANGED <<status, rec, file, used, fsVars, env, faults>>

\* createTemporary, exclusively.
CreateTemp(p) ==
  LET s == w[p].s IN
  /\ At(p, "create") /\ art[s].place = "none"
  /\ art' = [art EXCEPT ![s] = [NoArt EXCEPT !.place = "temp"]]
  /\ Goto(p, "record")
  /\ UNCHANGED <<dbVars, dir, chunk, env, lock, faults>>

\* The directory is synced, then the inode is recorded.  A second recording of
\* the same inode changes nothing.
RecordTarget(p) ==
  LET s == w[p].s IN
  /\ At(p, "record") /\ op[s].state = "assembling"
  /\ art' = [art EXCEPT ![s].named = "temp"]
  /\ op' = [op EXCEPT ![s].target = TRUE]
  /\ Goto(p, "assemble")
  /\ UNCHANGED <<status, rec, file, used, dir, chunk, env, lock, faults>>

\* assemble: the chunks of the manifest in order.  The digest of a chunk is
\* compared after its bytes were appended; a chunk that was damaged leaves them.
Appendable(s, i) ==
  /\ art[s].bytes[i] = None /\ \A j \in Chunks : j < i => art[s].bytes[j] # None
  /\ chunk[s][i] # None

AppendChunk(p, i) ==
  LET s == w[p].s IN
  /\ At(p, "assemble") /\ Appendable(s, i)
  /\ art' = [art EXCEPT ![s].bytes[i] = chunk[s][i]]
  /\ IF chunk[s][i] = op[s].man[i] THEN UNCHANGED <<w, lock>> ELSE Done(p)
  /\ UNCHANGED <<dbVars, dir, chunk, env, faults>>

Sealable(s) == art[s].bytes = Want[s]

\* Mutant: the copy is not synced.
SealTempUnsynced(p) ==
  LET s == w[p].s IN
  /\ At(p, "assemble") /\ Sealable(s)
  /\ art' = art
  /\ Goto(p, "mark")
  /\ UNCHANGED <<dbVars, dir, chunk, env, lock, faults>>

\* Size and digest of the whole, then fsync.
SealTemp(p) ==
  LET s == w[p].s IN
  /\ At(p, "assemble") /\ Sealable(s)
  /\ art' = [art EXCEPT ![s].synced = TRUE]
  /\ Goto(p, "mark")
  /\ UNCHANGED <<dbVars, dir, chunk, env, lock, faults>>

\* recover() syncs the artifact by its name once more before this.
MarkVerified(p) ==
  LET s == w[p].s IN
  /\ At(p, "mark") /\ Advance(s, "assembling", "verified")
  /\ Then(p, "mime")
  /\ UNCHANGED <<status, rec, file, used, fsVars, env, lock, faults>>

Mime(p) ==
  LET s == w[p].s IN
  /\ At(p, "mime") /\ op[s].state = "verified" /\ Unambiguous(s)
  /\ op' = [op EXCEPT ![s].mime = TRUE]
  /\ Goto(p, "intent")
  /\ UNCHANGED <<status, rec, file, used, fsVars, env, lock, faults>>

Intent(p) ==
  /\ At(p, "intent") /\ Advance(w[p].s, "verified", "publishing")
  /\ Goto(p, "rename")
  /\ UNCHANGED <<status, rec, file, used, fsVars, env, lock, faults>>

\* publish: the rename, and the sync of the directory after it.
Rename(p) ==
  LET s == w[p].s IN
  /\ At(p, "rename") /\ art[s].place = "temp"
  /\ art' = [art EXCEPT ![s].place = "final"]
  /\ Goto(p, "sync")
  /\ UNCHANGED <<dbVars, dir, chunk, env, lock, faults>>

\* Mutant: the directory is not synced after the rename.
SyncNameSkipped(p) ==
  /\ At(p, "sync") /\ art[w[p].s].place = "final"
  /\ Goto(p, "settle")
  /\ UNCHANGED <<dbVars, fsVars, env, lock, faults>>

SyncName(p) ==
  LET s == w[p].s IN
  /\ At(p, "sync") /\ art[s].place = "final"
  /\ art' = [art EXCEPT ![s].named = "final", ![s].synced =
               @ \/ w[p].op = "recover"]
  /\ Goto(p, "settle")
  /\ UNCHANGED <<dbVars, dir, chunk, env, lock, faults>>

Settle(p) ==
  /\ At(p, "settle") /\ Advance(w[p].s, "publishing", "published")
  /\ Then(p, "commit")
  /\ UNCHANGED <<status, rec, file, used, fsVars, env, lock, faults>>

\* The File row, the charge and the session's status, in one transaction.  The
\* guard on the journal demands the name that the operation was begun with.
Committable(s) ==
  /\ op[s].state = "published" /\ op[s].mime /\ Unambiguous(s)
  /\ s \notin trashed /\ s \notin Taken
  /\ used + Size[s] <= Quota

\* Mutant: the owner is not charged.
CommitUncharged(p) ==
  LET s == w[p].s IN
  /\ At(p, "commit") /\ Committable(s)
  /\ op' = [op EXCEPT ![s].state = "committed"]
  /\ file' = [file EXCEPT ![s] = "live"]
  /\ status' = [status EXCEPT ![s] = "completed"]
  /\ Then(p, "reopen")
  /\ lock' = IF w[p].op = "finalize" THEN None ELSE p
  /\ UNCHANGED <<rec, used, fsVars, env, faults>>

\* finalize() then lets the flock go; its caller asks recover() to clean up.
Commit(p) ==
  LET s == w[p].s IN
  /\ At(p, "commit") /\ Committable(s)
  /\ op' = [op EXCEPT ![s].state = "committed"]
  /\ file' = [file EXCEPT ![s] = "live"]
  /\ used' = used + Size[s]
  /\ status' = [status EXCEPT ![s] = "completed"]
  /\ Then(p, "reopen")
  /\ lock' = IF w[p].op = "finalize" THEN None ELSE p
  /\ UNCHANGED <<rec, fsVars, env, faults>>

-----------------------------------------------------------------------------
(* recover(): a replay of completeUpload, after finalize(), or at startup *)

\* The journal is looked up, the flock taken, the artifact inspected: what is
\* there must be the inode that was recorded.
Reopenable(s) ==
  /\ lock = None
  /\ Pending(s) /\ Unambiguous(s)
  /\ dir[s]
  /\ art[s].place # "none" => op[s].target

Recover(p, s) ==
  /\ Free(p) /\ Reopenable(s)
  /\ Start(p, "recover", "inspect", s) /\ lock' = p
  /\ UNCHANGED <<dbVars, fsVars, env, faults>>

Reopen(p) ==
  /\ At(p, "reopen") /\ Reopenable(w[p].s)
  /\ Start(p, "recover", "inspect", w[p].s) /\ lock' = p
  /\ UNCHANGED <<dbVars, fsVars, env, faults>>

AllSources(s) == \A i \in Chunks : chunk[s][i] = op[s].man[i]

\* Mutant: a whole temporary is thrown away like a partial one.
RestartableWhole(s) ==
  /\ AllSources(s)
  /\ IF art[s].place = "temp" THEN TRUE
     ELSE art[s].place = "none" /\ ~op[s].target

\* A partial temporary is truncated, a missing one created, but only once every
\* source chunk has been verified.
Restartable(s) ==
  /\ AllSources(s)
  /\ IF art[s].place = "temp" THEN ~Full(art[s].bytes)
     ELSE art[s].place = "none" /\ ~op[s].target

\* Where a whole artifact may be found, and in which other case there is a way
\* on; everything else is left to an operator.
WholeAt == [assembling |-> {"temp"}, verified |-> {"temp"},
            publishing |-> {"temp", "final"},
            published |-> {"final"}, committed |-> {"final"}]

Inspectable(s) ==
  \/ art[s].bytes = Want[s] /\ art[s].place \in WholeAt[op[s].state]
  \/ op[s].state = "assembling" /\ Restartable(s)

\* An operation that was being assembled: a whole temporary is synced and kept.
InspectAssembling(p) ==
  LET s == w[p].s IN
  /\ At(p, "inspect") /\ op[s].state = "assembling"
  /\ \/ /\ art[s].place = "temp" /\ Sealable(s)
        /\ art' = [art EXCEPT ![s].synced = TRUE, ![s].named = "temp"]
        /\ Goto(p, "mark")
     \/ /\ Restartable(s)
        /\ art' = [art EXCEPT ![s].bytes = NoRows, ![s].synced = FALSE]
        /\ Goto(p, IF art[s].place = "temp" THEN "record" ELSE "create")
  /\ UNCHANGED <<dbVars, dir, chunk, env, lock, faults>>

InspectVerified(p) ==
  LET s == w[p].s IN
  /\ At(p, "inspect") /\ op[s].state = "verified"
  /\ art[s].place = "temp" /\ art[s].bytes = Want[s]
  /\ art' = [art EXCEPT ![s].synced = TRUE, ![s].named = "temp"]
  /\ Goto(p, IF op[s].mime THEN "intent" ELSE "mime")
  /\ UNCHANGED <<dbVars, dir, chunk, env, lock, faults>>

\* Mutant: a rename that happened is not recognised.
InspectPublishingTemp(p) ==
  LET s == w[p].s IN
  /\ At(p, "inspect") /\ op[s].state = "publishing"
  /\ art[s].place = "temp" /\ art[s].bytes = Want[s]
  /\ art' = [art EXCEPT ![s].synced = TRUE, ![s].named = "temp"]
  /\ Goto(p, "rename")
  /\ UNCHANGED <<dbVars, dir, chunk, env, lock, faults>>

\* The rename may have happened, and may not have been synced.
InspectPublishing(p) ==
  LET s == w[p].s IN
  /\ At(p, "inspect") /\ op[s].state = "publishing"
  /\ art[s].place # "none" /\ art[s].bytes = Want[s]
  /\ art' = [art EXCEPT ![s].synced = TRUE, ![s].named = art[s].place]
  /\ Goto(p, IF art[s].place = "temp" THEN "rename" ELSE "sync")
  /\ UNCHANGED <<dbVars, dir, chunk, env, lock, faults>>

VerifyFinal(p) ==
  LET s == w[p].s IN
  /\ At(p, "inspect") /\ op[s].state \in {"published", "committed"}
  /\ art[s].place = "final" /\ art[s].bytes = Want[s]
  /\ art' = [art EXCEPT ![s].synced = TRUE, ![s].named = "final"]
  /\ Goto(p, IF op[s].state = "published" THEN "commit" ELSE "preflight")
  /\ UNCHANGED <<dbVars, dir, chunk, env, lock, faults>>

\* No chunk is removed unless every chunk that is there is the manifest's.
Owned(s) == \A i \in Chunks : chunk[s][i] \in {None, op[s].man[i]}

Preflight(p) ==
  /\ At(p, "preflight") /\ op[w[p].s].state = "committed" /\ Owned(w[p].s)
  /\ Goto(p, "remove")
  /\ UNCHANGED <<dbVars, fsVars, env, lock, faults>>

RemoveChunk(p, i) ==
  LET s == w[p].s IN
  /\ At(p, "remove")
  /\ chunk[s][i] = op[s].man[i] /\ \A j \in Chunks : j < i => chunk[s][j] = None
  /\ chunk' = [chunk EXCEPT ![s][i] = None]
  /\ UNCHANGED <<dbVars, dir, art, env, lock, w, faults>>

\* The removals are synced; then the operation is over and the rows go.
FinishCleanup(p) ==
  LET s == w[p].s IN
  /\ At(p, "remove") /\ chunk[s] = NoRows
  /\ op[s].state = "committed" /\ Unambiguous(s)
  /\ op' = [op EXCEPT ![s].cleaned = TRUE]
  /\ rec' = [rec EXCEPT ![s] = NoRows]
  /\ Done(p)
  /\ UNCHANGED <<status, file, used, fsVars, env, faults>>

-----------------------------------------------------------------------------
(* abortUpload, of the owner or of the expiry sweep *)

Abort(p, s) ==
  /\ Free(p) /\ lock = None
  /\ status[s] \in Active \cup {"aborted"} /\ Unreserved(s)
  /\ status' = [status EXCEPT ![s] = "aborted"]
  /\ Start(p, "abort", "purge", s) /\ lock' = p
  /\ UNCHANGED <<rec, op, file, used, fsVars, env, faults>>

\* Recorded chunks are removed one by one, file before row; a chunk that cannot
\* be removed, and a row that cannot be deleted, are retained.
PurgeChunk(p) ==
  LET s == w[p].s
      i == w[p].i + 1 IN
  /\ At(p, "purge") /\ i <= NChunks
  /\ \/ /\ rec[s][i] # None /\ chunk[s][i] = rec[s][i]
        /\ chunk' = [chunk EXCEPT ![s][i] = None]
        /\ rec' \in {rec, [rec EXCEPT ![s][i] = None]}
     \/ UNCHANGED <<chunk, rec>>
  /\ w' = [w EXCEPT ![p].i = i]
  /\ UNCHANGED <<status, op, file, used, dir, art, env, lock, faults>>

PurgeDone(p) ==
  /\ At(p, "purge") /\ w[p].i = NChunks
  /\ Done(p)
  /\ UNCHANGED <<dbVars, fsVars, env, faults>>

-----------------------------------------------------------------------------
(* Errors, crashes, power failures, decay *)

\* A step that cannot succeed ends the handler; nothing is compensated.
Fail(p) ==
  LET s == w[p].s IN
  /\ \/ At(p, "store") /\ ~dir[s]
     \/ At(p, "row") /\ (status[s] \notin Active \/ s \in expired)
     \/ /\ At(p, "assemble") /\ ~Sealable(s)
        /\ ~ \E i \in Chunks : Appendable(s, i)
     \/ At(p, "commit") /\ ~Committable(s)
     \/ At(p, "reopen") /\ ~Reopenable(s)
     \/ At(p, "inspect") /\ ~Inspectable(s)
     \/ w[p].pc \in {"preflight", "remove"} /\ ~Owned(s)
  /\ Done(p)
  /\ UNCHANGED <<dbVars, fsVars, env, faults>>

\* Any other error, before a step or after it: the answer to a statement that
\* took effect may be lost as well.
Fault(p) ==
  /\ ~Free(p) /\ ~At(p, "mkdir")
  /\ faults < MaxFaults /\ faults' = faults + 1
  /\ Done(p)
  /\ UNCHANGED <<dbVars, fsVars, env>>

\* The process dies and is started again; the kernel frees its flock.
Died == /\ faults < MaxFaults /\ faults' = faults + 1
        /\ w' = [p \in Handlers |-> Idle] /\ lock' = None

Crash == Died /\ UNCHANGED <<dbVars, fsVars, env>>

\* The machine dies.  What was synced is kept, of the rest anything may be: the
\* artifact has its old or its new name and some of the bytes appended to it,
\* a chunk that is not recorded may be gone, one whose removal was not synced
\* may be back.  (The flock leaves one session at a time with such a rest.)
Surviving(a) ==
  {b \in [place: {a.place, a.named}, named: {a.place, a.named},
          bytes: {NoRows} \cup
                 {[i \in Chunks |-> IF i <= n THEN a.bytes[i] ELSE None] :
                    n \in Chunks},
          synced: {a.synced}] :
     /\ b.named = b.place
     /\ a.synced => b.bytes = a.bytes
     /\ b.place = "none" => b = NoArt}

SurvivingChunks(s) ==
  {r \in Rows : \A i \in Chunks :
     \/ r[i] = chunk[s][i]
     \/ rec[s][i] = None /\ r[i] = None
     \/ op[s].state = "committed" /\ Pending(s) /\ r[i] = op[s].man[i]}

PowerLoss(s) ==
  /\ Died
  /\ \E a \in Surviving(art[s]) : art' = [art EXCEPT ![s] = a]
  /\ \E r \in SurvivingChunks(s) : chunk' = [chunk EXCEPT ![s] = r]
  /\ UNCHANGED <<dbVars, dir, env>>

Decay(s, i) ==
  /\ SsdDecays /\ chunk[s][i] # None
  /\ faults < MaxFaults /\ faults' = faults + 1
  /\ \E c \in Contents \cup {None} :
       c # chunk[s][i] /\ chunk' = [chunk EXCEPT ![s][i] = c]
  /\ UNCHANGED <<dbVars, dir, art, env, lock, w>>

-----------------------------------------------------------------------------
(* The clock, and the other services that touch the owner's rows *)

\* The lifetime of a session outlasts the request that creates it.
Tick(s) ==
  /\ status[s] \in Active /\ s \notin expired
  /\ \A p \in Handlers : ~(At(p, "mkdir") /\ w[p].s = s)
  /\ expired' = expired \cup {s}
  /\ UNCHANGED <<dbVars, fsVars, other, trashed, lock, w, faults>>

Trash(s) ==
  /\ s \in Foldered /\ s \notin trashed
  /\ trashed' = trashed \cup {s}
  /\ UNCHANGED <<dbVars, fsVars, expired, other, lock, w, faults>>

Untrash(s) ==
  /\ s \in trashed /\ trashed' = trashed \ {s}
  /\ UNCHANGED <<dbVars, fsVars, expired, other, lock, w, faults>>

\* updateStorageUsed and decrementStorageUsed as FilesService calls them.
Charge(b) ==
  /\ used + b <= Quota
  /\ used' = used + b /\ other' = other + b
  /\ UNCHANGED <<status, rec, op, file, fsVars, expired, trashed, lock, w,
                 faults>>

Release(b) ==
  /\ other >= b
  /\ used' = used - b /\ other' = other - b
  /\ UNCHANGED <<status, rec, op, file, fsVars, expired, trashed, lock, w,
                 faults>>

\* deleteFilePermanently, which the journal's guard refuses until cleanup is
\* over; the object goes after COMMIT, or stays when the process stops.
DeleteFile(s) ==
  /\ file[s] = "live" /\ Unreserved(s)
  /\ file' = [file EXCEPT ![s] = Deleted]
  /\ used' = used - Size[s]
  /\ art' \in {art, [art EXCEPT ![s] = NoArt]}
  /\ UNCHANGED <<status, rec, op, dir, chunk, env, lock, w, faults>>

-----------------------------------------------------------------------------
Init ==
  /\ status = [s \in Sessions |-> "none"]
  /\ rec = [s \in Sessions |-> NoRows] /\ chunk = [s \in Sessions |-> NoRows]
  /\ op = [s \in Sessions |-> NoOp] /\ art = [s \in Sessions |-> NoArt]
  /\ file = [s \in Sessions |-> None] /\ dir = [s \in Sessions |-> FALSE]
  /\ w = [p \in Handlers |-> Idle]
  /\ expired = {} /\ trashed = {} /\ used = 0 /\ other = 0 /\ lock = None
  /\ faults = 0

UploadStep(p) ==
  \/ Mkdir(p) \/ MkdirFails(p) \/ ChunkStore(p) \/ ChunkCommit(p)

AssemblyStep(p) ==
  \/ CreateTemp(p) \/ RecordTarget(p) \/ (\E i \in Chunks : AppendChunk(p, i))
  \/ SealTemp(p) \/ MarkVerified(p) \/ Mime(p)

PublishStep(p) ==
  Intent(p) \/ Rename(p) \/ SyncName(p) \/ Settle(p) \/ Commit(p)

RecoveryStep(p) ==
  \/ Reopen(p) \/ InspectAssembling(p) \/ InspectVerified(p)
  \/ InspectPublishing(p) \/ VerifyFinal(p) \/ Preflight(p)
  \/ (\E i \in Chunks : RemoveChunk(p, i)) \/ FinishCleanup(p)

HandlerStep(p) ==
  \/ UploadStep(p) \/ AssemblyStep(p) \/ PublishStep(p) \/ RecoveryStep(p)
  \/ PurgeChunk(p) \/ PurgeDone(p) \/ Fail(p)

Request(p) ==
  \E s \in Sessions :
    \/ Create(p, s)
    \/ \E i \in Chunks, c \in Contents : ChunkBegin(p, s, i, c)
    \/ FinalizeBegin(p, s) \/ Recover(p, s)
    \/ Abort(p, s)

Failure == \/ (\E p \in Handlers : Fault(p)) \/ Crash
           \/ \E s \in Sessions : \/ PowerLoss(s)
                                  \/ \E i \in Chunks : Decay(s, i)

Environment ==
  \/ \E s \in Sessions : Tick(s) \/ Trash(s) \/ Untrash(s) \/ DeleteFile(s)
  \/ \E b \in OtherBytes : Charge(b) \/ Release(b)

Next ==
  \/ \E p \in Handlers : Request(p) \/ HandlerStep(p)
  \/ Failure \/ Environment

Spec == Init /\ [][Next]_vars

\* Handlers run to their end, and an owner whose upload is reserved repeats
\* completeUpload until it is answered, not always while the workspace is busy.
Fairness ==
  /\ \A p \in Handlers : WF_vars(HandlerStep(p))
  /\ \A s \in Sessions : SF_vars(\E p \in Handlers : Recover(p, s))

FairSpec == Spec /\ Fairness
-----------------------------------------------------------------------------
(* Properties *)

\* The state is of the shape of the tables, the files and the handlers' locals;
\* the owner's storageUsed is never negative nor above the quota.
TypeOK ==
  /\ status \in [Sessions -> {"none", "completed", "aborted"} \cup Active]
  /\ rec \in [Sessions -> Rows] /\ chunk \in [Sessions -> Rows]
  /\ op \in [Sessions -> [state: States, man: Rows, target: BOOLEAN,
                          mime: BOOLEAN, cleaned: BOOLEAN]]
  /\ art \in [Sessions -> [place: Places, named: Places, bytes: Rows,
                           synced: BOOLEAN]]
  /\ file \in [Sessions -> {None, "live", Deleted}]
  /\ dir \in [Sessions -> BOOLEAN]
  /\ lock \in Handlers \cup {None}
  /\ w \in [Handlers ->
              [op: {"idle", "create", "chunk", "finalize", "recover", "abort"},
               pc: Labels, s: Sessions \cup {None}, i: 0..NChunks,
               c: Contents \cup {None}]]
  /\ used \in 0..Quota /\ other \in Nat /\ faults \in 0..MaxFaults
  /\ expired \subseteq Sessions /\ trashed \subseteq Sessions

\* A File has its whole and verified object under its final name, and a power
\* failure does not take it: bytes and name are synced before the File commits.
PublishedDurable ==
  \A s \in Sessions : file[s] = "live" =>
    /\ art[s].place = "final" /\ art[s].named = "final"
    /\ art[s].synced /\ art[s].bytes = Want[s]

\* Until the File is committed every chunk the client had acknowledged is still
\* there to assemble it from again.  (While the SSD does not decay.)
SourceKept ==
  \A s \in Sessions : status[s] \in Active =>
    \A i \in Chunks : rec[s][i] # None => chunk[s][i] = rec[s][i]

\* A copy that was assembled and synced whole is not given up before its
\* operation is over, however the chunks it was made from fare: not by an
\* error, a crash or a power failure, nor by the recovery that follows.
KeepsCopy ==
  \A s \in Sessions : Pending(s) /\ art[s].synced /\ art[s].bytes = Want[s] =>
    art'[s].bytes = Want[s] /\ art'[s].place # "none"

CopyKept == [][KeepsCopy]_vars

\* At every moment the bytes of an upload are whole somewhere, where neither an
\* error nor a crash or a power failure reaches them.
BytesSafe == [](PublishedDurable /\ (SsdDecays \/ SourceKept)) /\ CopyKept

\* The owner is charged for each published file, once, and for nothing else.
UsedAccounts ==
  used = other + MapThenSumSet(LAMBDA s : Size[s],
                               {s \in Sessions : file[s] = "live"})

\* What an upload promises its owner, kept across journal, rename and recovery.
PhaseOf == [s \in Sessions |->
  IF file[s] = "live" THEN "published"
  ELSE IF status[s] = "none" THEN "absent"
  ELSE IF status[s] \in Active THEN "open" ELSE "over"]

ContentOf == [s \in Sessions |->
  IF file[s] = "live" THEN art[s].bytes ELSE None]

UP == INSTANCE UploadPromise WITH phase <- PhaseOf, content <- ContentOf,
                                  Historical <- {}

KeepsPromise == UP!Spec

\* What the journal promises of the tables it guards, kept by the transactions
\* of uploads, finalization, recovery, abort and the owner's deletions.
JP == INSTANCE JournalPromise

JournalKept == JP!Spec

\* An operation that was begun is finished and cleaned up, whatever step errors,
\* crashes and power failures stopped it at.  Two cases are left to an operator,
\* by design: an HDD temporary whose inode was not recorded in time, and chunks
\* that do not make up the digest the client declared.
Orphaned(s) == art[s].place = "temp" /\ ~op[s].target

RecoveryCompletes ==
  \A s \in Sessions :
    Pending(s) ~> (~Pending(s) \/ Orphaned(s) \/ op[s].man # Want[s])

\* An upload whose object was renamed to its final name gets its File.
PublishedCommits ==
  \A s \in Sessions : op[s].state = "published" ~> file[s] # None
=============================================================================
