------------------------------- MODULE Backups -------------------------------
(***************************************************************************)
(* The backup directory shared by scripts/backup.sh and scripts/restore.sh *)
(* and the directory lock they take in it.                                 *)
(*                                                                         *)
(* Each process is a shell script: one action is one command that other    *)
(* processes can see (mkdir, a write into the lock, a mv, an rm).  A       *)
(* backup stages four artifacts in a private session directory, checks     *)
(* them, moves them one by one into the backup directory and then drops    *)
(* sets that are past the retention window.  A restore picks the newest    *)
(* set before it takes the lock and checks its hashes again under it; what *)
(* it then does to the database and the volume is module Restore.          *)
(*                                                                         *)
(* A set is named by the order of its timestamp: BACKUP_ID is taken when a *)
(* run starts, before the lock.  The contents of an artifact are whether   *)
(* it is there.                                                            *)
(***************************************************************************)
EXTENDS Integers, FiniteSets, FiniteSetsExt

CONSTANTS
  Runs,         \* processes of backup.sh
  Restores,     \* processes of restore.sh
  None,         \* an empty lock file
  OldSets,      \* sets already published
  MinBackups,   \* MIN_BACKUPS
  MaxKills,     \* bound: processes that die without their trap
  MaxSignals,   \* bound: SIGINT and SIGTERM
  MaxFaults     \* bound: commands that fail

VARIABLES
  lock,      \* .backup.lock: the directory, LOCK_PID and LOCK_TOKEN
  dir,       \* the artifacts of each set in BACKUP_DIR
  session,   \* runs whose session directory exists under .staging
  staged,    \* the artifacts in it
  w,         \* the processes
  clock,     \* the newest BACKUP_ID taken
  old,       \* sets up to this one are past RETENTION_DAYS
  kills, signals, faults

vars == <<lock, dir, session, staged, w, clock, old, kills, signals, faults>>
budget == <<kills, signals, faults>>

Procs == Runs \cup Restores
Ids == 1 .. OldSets + Cardinality(Runs)
Parts == {"db", "storage", "meta", "sidecar"}

\* Mutant: the metadata is moved before what it describes.
PublishOrderAs == <<"meta", "sidecar", "db", "storage">>

\* The order of the four mv commands, and of os.remove in the retention.
PublishOrder == <<"db", "storage", "meta", "sidecar">>
RemovalOrder == <<"meta", "db", "storage", "sidecar">>

NoLock == [dir |-> FALSE, pid |-> None, token |-> None]
LockLabels == {"mkdir", "made", "pid", "token", "checked", "look",
               "rmPid", "rmToken", "rmDir", "again"}
BodyLabels == {"held", "session", "dump", "archive", "validate", "meta",
               "publish", "list", "retain", "select", "load", "storage"}
Labels == LockLabels \cup BodyLabels
            \cup {"idle", "cleanup", "release", "ended", "killed"}

\* The last two are history variables: the lock that the process took away,
\* and whether a signal came before its own was complete.
Idle == [pc |-> "idle", after |-> "none", rc |-> 0, id |-> 0, step |-> 1,
         doom |-> {}, refused |-> FALSE, held |-> FALSE,
         took |-> "none", cut |-> FALSE]

Running(p) == w[p].pc \notin {"idle", "ended", "killed"}
At(p, l) == w[p].pc = l
Go(p, l) == w' = [w EXCEPT ![p].pc = l]
Leave(p, rc) == w' = [w EXCEPT ![p].pc = "cleanup", ![p].rc = rc]

\* safe_remove_lock_dir is three commands; after is what its caller does.
RemoveLock(p, after) ==
  w' = [w EXCEPT ![p].pc = "rmPid", ![p].after = after]

Init ==
  /\ lock = NoLock
  /\ dir = [v \in Ids |-> IF v <= OldSets THEN Parts ELSE {}]
  /\ session = {}
  /\ staged = [r \in Runs |-> {}]
  /\ w = [p \in Procs |-> Idle]
  /\ clock = OldSets
  /\ old = 0
  /\ kills = 0 /\ signals = 0 /\ faults = 0

-----------------------------------------------------------------------------
(* The lock *)

Mkdir(p) ==
  /\ At(p, "mkdir")
  /\ IF lock.dir THEN Go(p, "look") /\ UNCHANGED lock
     ELSE lock' = [NoLock EXCEPT !.dir = TRUE] /\ Go(p, "made")
  /\ UNCHANGED <<dir, session, staged, clock, old, budget>>

\* A redirection into a directory that has gone fails; into another
\* process's directory it does not.
WritePid(p) ==
  /\ At(p, "made")
  /\ IF lock.dir THEN lock' = [lock EXCEPT !.pid = p] /\ Go(p, "pid")
     ELSE Leave(p, 1) /\ UNCHANGED lock
  /\ UNCHANGED <<dir, session, staged, clock, old, budget>>

WriteToken(p) ==
  /\ At(p, "pid")
  /\ IF lock.dir THEN lock' = [lock EXCEPT !.token = p] /\ Go(p, "token")
     ELSE Leave(p, 1) /\ UNCHANGED lock
  /\ UNCHANGED <<dir, session, staged, clock, old, budget>>

\* chmod needs both files; then LOCK_PID is read back.
ReadBackPid(p) ==
  /\ At(p, "token")
  /\ IF lock.dir /\ lock.pid = p /\ lock.token # None
     THEN Go(p, "checked") ELSE RemoveLock(p, "fail")
  /\ UNCHANGED <<lock, dir, session, staged, clock, old, budget>>

ReadBackToken(p) ==
  /\ At(p, "checked")
  /\ IF lock.token = p
     THEN w' = [w EXCEPT ![p].pc = "held", ![p].held = TRUE]
     ELSE RemoveLock(p, "fail")
  /\ UNCHANGED <<lock, dir, session, staged, clock, old, budget>>

\* A lock is stale when its process is gone.  backup.sh also takes a lock
\* without a PID for stale (backup.sh:340-343, against its own comment at
\* 315-316); restore.sh fails closed on it.
Stale(p) ==
  IF lock.pid = None THEN p \in Runs ELSE ~Running(lock.pid)

Look(p) ==
  /\ At(p, "look")
  /\ IF lock.dir /\ Stale(p)
     THEN w' = [w EXCEPT ![p].pc = "rmPid", ![p].after = "again",
                  ![p].took = IF lock.pid = None THEN "blank" ELSE "dead"]
     ELSE Leave(p, 2)
  /\ UNCHANGED <<lock, dir, session, staged, clock, old, budget>>

MkdirAgain(p) ==
  /\ At(p, "again")
  /\ IF lock.dir THEN Leave(p, 2) /\ UNCHANGED lock
     ELSE lock' = [NoLock EXCEPT !.dir = TRUE] /\ Go(p, "made")
  /\ UNCHANGED <<dir, session, staged, clock, old, budget>>

Removed(p) ==
  CASE w[p].after = "again" -> Go(p, "again")
    [] w[p].after = "fail" -> Leave(p, 1)
    [] w[p].after = "exit" -> Go(p, "ended")

NotRemoved(p) ==
  CASE w[p].after = "again" -> Leave(p, 2)
    [] w[p].after = "fail" -> Leave(p, 1)
    [] w[p].after = "exit" -> Go(p, "ended")

RemovePid(p) ==
  /\ At(p, "rmPid")
  /\ IF lock.dir
     THEN lock' = [lock EXCEPT !.pid = None] /\ Go(p, "rmToken")
     ELSE Removed(p) /\ UNCHANGED lock
  /\ UNCHANGED <<dir, session, staged, clock, old, budget>>

RemoveToken(p) ==
  /\ At(p, "rmToken")
  /\ lock' = [lock EXCEPT !.token = None]
  /\ Go(p, "rmDir")
  /\ UNCHANGED <<dir, session, staged, clock, old, budget>>

RemoveDir(p) ==
  /\ At(p, "rmDir")
  /\ IF lock = [NoLock EXCEPT !.dir = TRUE]
     THEN lock' = NoLock /\ Removed(p)
     ELSE NotRemoved(p) /\ UNCHANGED lock
  /\ UNCHANGED <<dir, session, staged, clock, old, budget>>

-----------------------------------------------------------------------------
(* backup.sh *)

StartBackup(p) ==
  /\ p \in Runs /\ At(p, "idle")
  /\ clock' = clock + 1
  /\ w' = [w EXCEPT ![p].pc = "mkdir", ![p].id = clock']
  /\ UNCHANGED <<lock, dir, session, staged, old, budget>>

\* Every other session directory is taken for a leftover.
CleanStaleStaging(p) ==
  /\ p \in Runs /\ At(p, "held")
  /\ session' = {}
  /\ staged' = [r \in Runs |-> {}]
  /\ Go(p, "session")
  /\ UNCHANGED <<lock, dir, clock, old, budget>>

MakeSession(p) ==
  /\ At(p, "session")
  /\ session' = session \cup {p}
  /\ Go(p, "dump")
  /\ UNCHANGED <<lock, dir, staged, clock, old, budget>>

\* One artifact, or the pair of metadata files, written into the session.
Stage(p, at, parts, next) ==
  /\ At(p, at)
  /\ IF p \in session
     THEN /\ staged' = [staged EXCEPT ![p] = @ \cup parts]
          /\ Go(p, next)
     ELSE Leave(p, 1) /\ UNCHANGED staged
  /\ UNCHANGED <<lock, dir, session, clock, old, budget>>

DumpDatabase(p) == Stage(p, "dump", {"db"}, "archive")
ArchiveStorage(p) == Stage(p, "archive", {"storage"}, "validate")
WriteMeta(p) == Stage(p, "meta", {"meta", "sidecar"}, "publish")

Validate(p) ==
  /\ At(p, "validate")
  /\ IF {"db", "storage"} \subseteq staged[p] THEN Go(p, "meta")
     ELSE Leave(p, 1)
  /\ UNCHANGED <<lock, dir, session, staged, clock, old, budget>>

\* The first mv follows a check that all four artifacts are staged.
Publish(p) ==
  LET i == w[p].step
      part == PublishOrder[i]
  IN /\ At(p, "publish")
     /\ IF part \in staged[p] /\ (i = 1 => staged[p] = Parts)
        THEN /\ staged' = [staged EXCEPT ![p] = @ \ {part}]
             /\ dir' = [dir EXCEPT ![w[p].id] = @ \cup {part}]
             /\ w' = IF i = 4 THEN [w EXCEPT ![p].pc = "list"]
                     ELSE [w EXCEPT ![p].step = i + 1]
        ELSE Leave(p, 1) /\ UNCHANGED <<staged, dir>>
     /\ UNCHANGED <<lock, session, clock, old, budget>>

Metas == {v \in Ids : "meta" \in dir[v]}
Newer(v) == {u \in Metas : u > v}

\* Beyond the MIN_BACKUPS newest names and past the window.
Expired == {v \in Metas : Cardinality(Newer(v)) >= MinBackups /\ v <= old}

ListExpired(p) ==
  /\ At(p, "list")
  /\ w' = [w EXCEPT ![p].pc = "retain", ![p].doom = Expired \X Parts]
  /\ UNCHANGED <<lock, dir, session, staged, clock, old, budget>>

\* The next file: the newest doomed set first, its files in RemovalOrder.
NextDoomed(p) ==
  LET v == Max({x[1] : x \in w[p].doom})
      i == Min({j \in 1 .. 4 : <<v, RemovalOrder[j]>> \in w[p].doom})
  IN <<v, RemovalOrder[i]>>

RemoveExpired(p) ==
  LET x == NextDoomed(p)
  IN /\ At(p, "retain") /\ w[p].doom # {}
     /\ w' = [w EXCEPT ![p].doom = @ \ {x}]
     /\ dir' = [dir EXCEPT ![x[1]] = @ \ {x[2]}]
     /\ UNCHANGED <<lock, session, staged, clock, old, budget>>

\* os.remove fails: the error is kept and the next file is tried.
RefuseRemoval(p) ==
  LET x == NextDoomed(p)
  IN /\ At(p, "retain") /\ w[p].doom # {}
     /\ x[2] \in dir[x[1]]
     /\ faults < MaxFaults /\ faults' = faults + 1
     /\ w' = [w EXCEPT ![p].doom = @ \ {x}, ![p].refused = TRUE]
     /\ UNCHANGED <<lock, dir, session, staged, clock, old, kills, signals>>

FinishBackup(p) ==
  /\ At(p, "retain") /\ w[p].doom = {}
  /\ Leave(p, IF w[p].refused THEN 1 ELSE 0)
  /\ UNCHANGED <<lock, dir, session, staged, clock, old, budget>>

-----------------------------------------------------------------------------
(* restore.sh, up to what it does to the database and the volume *)

StartRestore(p) ==
  /\ p \in Restores /\ At(p, "idle")
  /\ Go(p, "select")
  /\ UNCHANGED <<lock, dir, session, staged, clock, old, budget>>

\* Phase A reads the newest metadata, without the lock.
SelectLatest(p) ==
  /\ At(p, "select")
  /\ IF Metas # {} /\ dir[Max(Metas)] = Parts
     THEN w' = [w EXCEPT ![p].pc = "mkdir", ![p].id = Max(Metas)]
     ELSE Leave(p, 1)
  /\ UNCHANGED <<lock, dir, session, staged, clock, old, budget>>

Needs(p, at, parts) == At(p, at) /\ parts \subseteq dir[w[p].id]

\* The hashes again, under the lock; after this the database is wiped.
Rehash(p) ==
  /\ p \in Restores /\ At(p, "held")
  /\ IF Needs(p, "held", {"meta", "db", "storage"}) THEN Go(p, "load")
     ELSE Leave(p, 1)
  /\ UNCHANGED <<lock, dir, session, staged, clock, old, budget>>

LoadDatabase(p) ==
  /\ At(p, "load")
  /\ IF Needs(p, "load", {"db"}) THEN Go(p, "storage") ELSE Leave(p, 1)
  /\ UNCHANGED <<lock, dir, session, staged, clock, old, budget>>

LoadStorage(p) ==
  /\ At(p, "storage")
  /\ Leave(p, IF Needs(p, "storage", {"storage"}) THEN 0 ELSE 1)
  /\ UNCHANGED <<lock, dir, session, staged, clock, old, budget>>

-----------------------------------------------------------------------------
(* The EXIT traps, failures and signals *)

Cleanup(p) ==
  /\ At(p, "cleanup")
  /\ session' = session \ {p}
  /\ staged' = IF p \in Runs THEN [staged EXCEPT ![p] = {}] ELSE staged
  /\ Go(p, "release")
  /\ UNCHANGED <<lock, dir, clock, old, budget>>

\* Mutant: whoever exits takes the lock with it.
OwnLockAs(p) == lock.dir

\* backup.sh goes by the token alone, restore.sh also by its own flag.
OwnLock(p) == lock.dir /\ lock.token = p /\ (p \in Restores => w[p].held)

Release(p) ==
  /\ At(p, "release")
  /\ IF OwnLock(p)
     THEN RemoveLock(p, "exit") ELSE Go(p, "ended")
  /\ UNCHANGED <<lock, dir, session, staged, clock, old, budget>>

\* A full disk, a refused guard, a failing tool: err and exit.
Fail(p) ==
  /\ w[p].pc \in BodyLabels \ {"list", "retain"}
  /\ faults < MaxFaults /\ faults' = faults + 1
  /\ Leave(p, 1)
  /\ UNCHANGED <<lock, dir, session, staged, clock, old, kills, signals>>

\* The trap of backup.sh exits with the status of the command that has just
\* ended; restore.sh has traps of its own that exit with 130 and 143.
Signal(p) ==
  /\ w[p].pc \in LockLabels \cup BodyLabels
  /\ w[p].after # "exit"
  /\ signals < MaxSignals /\ signals' = signals + 1
  /\ \E rc \in {0, 1} :
       /\ p \in Restores => rc = 1
       /\ w' = [w EXCEPT ![p].pc = "cleanup", ![p].rc = rc,
                  ![p].cut = @ \/ w[p].pc \in LockLabels]
  /\ UNCHANGED <<lock, dir, session, staged, clock, old, kills, faults>>

Kill(p) ==
  /\ Running(p)
  /\ kills < MaxKills /\ kills' = kills + 1
  /\ Go(p, "killed")
  /\ UNCHANGED <<lock, dir, session, staged, clock, old, signals, faults>>

Age ==
  /\ old < clock
  /\ old' = old + 1
  /\ UNCHANGED <<lock, dir, session, staged, w, clock, budget>>

LockStep(p) ==
  \/ Mkdir(p) \/ WritePid(p) \/ WriteToken(p) \/ ReadBackPid(p)
  \/ ReadBackToken(p) \/ Look(p) \/ MkdirAgain(p)
  \/ RemovePid(p) \/ RemoveToken(p) \/ RemoveDir(p)

BackupStep(p) ==
  \/ StartBackup(p) \/ CleanStaleStaging(p) \/ MakeSession(p)
  \/ DumpDatabase(p) \/ ArchiveStorage(p) \/ Validate(p) \/ WriteMeta(p)
  \/ Publish(p) \/ ListExpired(p) \/ RemoveExpired(p) \/ RefuseRemoval(p)
  \/ FinishBackup(p)

RestoreStep(p) ==
  StartRestore(p) \/ SelectLatest(p) \/ Rehash(p) \/ LoadDatabase(p)
    \/ LoadStorage(p)

ExitStep(p) == Cleanup(p) \/ Release(p) \/ Fail(p) \/ Signal(p) \/ Kill(p)

Next ==
  \/ \E p \in Procs : LockStep(p) \/ ExitStep(p)
  \/ \E p \in Runs : BackupStep(p)
  \/ \E p \in Restores : RestoreStep(p)
  \/ Age

Spec == Init /\ [][Next]_vars

-----------------------------------------------------------------------------
(* Properties *)

\* What restore.sh would accept by its metadata has its dump and its
\* archive, whatever process died or was pushed aside by another: metadata
\* is published last and removed first (backup.sh:753-757, 860).  The one
\* exception is a removal the file system refused.
RestorableWhole ==
  \A v \in Ids :
    {"meta", "sidecar"} \subseteq dir[v] =>
      dir[v] = Parts \/ \E r \in Runs : w[r].refused

\* A whole set is only ever taken away when it is past the window and
\* MIN_BACKUPS newer ones are there, also when two runs overlap
\* (backup.sh:841-875).
NewestKept ==
  \A v \in Ids :
    dir[v] = Parts /\ dir'[v] # Parts =>
      v <= old /\ Cardinality(Newer(v)) >= MinBackups

Took(found) == {p \in Procs : w[p].took = found}

\* A lock was taken for stale that was not: by a backup that found no PID in
\* it yet, or by the second of two that found the same dead process.
Wrested == Took("blank") # {} \/ Cardinality(Took("dead")) > 1

\* Unless a lock was wrested from its holder, two processes are never both
\* past it, whoever is killed or signalled (backup.sh:302-378,
\* restore.sh:817-902).
Holding(p) == Running(p) /\ w[p].held /\ w[p].after # "exit"
LockExcludes ==
  \A p, q \in Procs : Holding(p) /\ Holding(q) /\ p # q => Wrested

\* When nobody runs any more the lock is free, unless it was wrested from its
\* holder, whose token is gone then, a process was killed, or a signal came
\* while it made its lock: the traps go by the token, which is written last
\* (backup.sh:252-271), or by a flag set later still (restore.sh:308).
Released ==
  lock.dir =>
    \/ \E p \in Procs : Running(p) \/ At(p, "killed") \/ w[p].cut
    \/ Wrested
=============================================================================
