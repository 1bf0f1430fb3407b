-------------------------------- MODULE MCHost --------------------------------
(***************************************************************************)
(* The host below the service: backup.sh and restore.sh on one lock,       *)
(* restore.sh and the storage volume, the generations of                   *)
(* backup-production.py and the scheduled jobs.  `part` says which runs;   *)
(* no step changes it.                                                     *)
(***************************************************************************)
EXTENDS Naturals, FiniteSets, Sequences, TLC

CONSTANTS b1, b2, r1, r2, r3, files, marker, None

VARIABLES
  part,
  held, sets, session, staged, runs, taken, old,            \* Backups
  bkills, bsignals, bfaults,
  arch, rows, db, serving, root, stage, swap, stageDir,     \* Restore
  swapDir, script, helper, kept, rkills, rfaults,
  here, unsynced, created, partial, plaintext, glock,       \* Generations
  good, day, gens, decayed, seen, gbudget,
  time, due, flock, alerts, event, heartbeat, stuck, jobs,  \* ScheduledJobs
  inbox, told, backed, jbudget

backups  == <<held, sets, session, staged, runs, taken, old, bkills, bsignals,
              bfaults>>
restore  == <<arch, rows, db, serving, root, stage, swap, stageDir, swapDir,
              script, helper, kept, rkills, rfaults>>
archived == <<here, unsynced, created, partial, plaintext, glock, good, day,
              gens, decayed, seen, gbudget>>
timers   == <<time, due, flock, alerts, event, heartbeat, stuck, jobs, inbox,
              told, backed, jbudget>>
mcvars   == <<part, backups, restore, archived, timers>>
-----------------------------------------------------------------------------
\* Two runs of backup.sh; three of restore.sh, of which one may be killed.
Sets == INSTANCE Backups WITH
  Runs <- {b1, b2}, Restores <- {}, OldSets <- 2, MinBackups <- 2,
  MaxKills <- 1, MaxSignals <- 0, MaxFaults <- 0,
  lock <- held, dir <- sets, w <- runs, clock <- taken, kills <- bkills,
  signals <- bsignals, faults <- bfaults

Locked == INSTANCE Backups WITH
  Runs <- {}, Restores <- {r1, r2, r3}, OldSets <- 1, MinBackups <- 1,
  MaxKills <- 1, MaxSignals <- 1, MaxFaults <- 1,
  lock <- held, dir <- sets, w <- runs, clock <- taken, kills <- bkills,
  signals <- bsignals, faults <- bfaults

Single == INSTANCE Backups WITH
  Runs <- {b1}, Restores <- {r1}, OldSets <- 2, MinBackups <- 2,
  MaxKills <- 0, MaxSignals <- 1, MaxFaults <- 1,
  lock <- held, dir <- sets, w <- runs, clock <- taken, kills <- bkills,
  signals <- bsignals, faults <- bfaults

\* A directory and a regular file at the top of the storage root.
Volume == INSTANCE Restore WITH
  Keys <- {files, marker}, Plain <- {marker}, MaxAttempts <- 2,
  MaxKills <- 1, MaxFaults <- 1, kills <- rkills, faults <- rfaults

Kept == INSTANCE Generations WITH
  Ops <- {b1, b2}, Fetches <- {}, OldGens <- 2, Count <- 2, Days <- 0,
  MaxDay <- 1, MaxSteps <- 1, MaxKills <- 1, MaxErrors <- 1, MaxDecays <- 0,
  lock <- glock, marker <- good, w <- gens, budget <- gbudget

Fetched == INSTANCE Generations WITH
  Ops <- {b1}, Fetches <- {r1}, OldGens <- 1, Count <- 2, Days <- 0,
  MaxDay <- 0, MaxSteps <- 0, MaxKills <- 1, MaxErrors <- 1, MaxDecays <- 1,
  lock <- glock, marker <- good, w <- gens, budget <- gbudget

Timers == INSTANCE ScheduledJobs WITH
  Jobs <- {"backup", "freshness"}, Cooldown <- 2, MaxAge <- 1, Daily <- 1,
  MaxClock <- 2, MaxSteps <- 0, MaxKills <- 1, MaxOutages <- 1, MaxLies <- 1,
  MaxTimeouts <- 1,
  clock <- time, lock <- flock, marker <- event, w <- jobs, budget <- jbudget

Alerts == INSTANCE ScheduledJobs WITH
  Jobs <- {"cert-check", "cert-renew"}, Cooldown <- 2, MaxAge <- 1,
  Daily <- 1, MaxClock <- 2, MaxSteps <- 1, MaxKills <- 0, MaxOutages <- 1,
  MaxLies <- 0, MaxTimeouts <- 0,
  clock <- time, lock <- flock, marker <- event, w <- jobs, budget <- jbudget
-----------------------------------------------------------------------------
\* Numbers of inodes are only compared, and which two are taken first does not
\* matter; a component that does not run has one initial state.
MCInit ==
  /\ part \in {"sets", "locked", "single", "volume", "kept", "fetched",
              "timers", "alerts"}
  /\ CASE part = "sets" -> Sets!Init
       [] part = "locked" -> Locked!Init
       [] OTHER -> Single!Init
  /\ Volume!Init
  /\ (part = "volume" \/ (arch = rows /\ \A k \in DOMAIN rows : rows[k] = 1))
  /\ IF part = "kept" THEN Kept!Init ELSE Fetched!Init
  /\ IF part = "timers" THEN Timers!Init ELSE Alerts!Init
  /\ (part = "timers" \/ part = "alerts" \/ event = 0)

MCNext ==
  /\ part' = part
  /\ \/ /\ \/ part = "sets" /\ Sets!Next
           \/ part = "locked" /\ Locked!Next
           \/ part = "single" /\ Single!Next
        /\ UNCHANGED <<restore, archived, timers>>
     \/ /\ part = "volume" /\ Volume!Next
        /\ UNCHANGED <<backups, archived, timers>>
     \/ /\ \/ part = "kept" /\ Kept!Next
           \/ part = "fetched" /\ Fetched!Next
        /\ UNCHANGED <<backups, restore, timers>>
     \/ /\ \/ part = "timers" /\ Timers!Next
           \/ part = "alerts" /\ Alerts!Next
        /\ UNCHANGED <<backups, restore, archived>>

MCSpec == MCInit /\ [][MCNext]_mcvars
-----------------------------------------------------------------------------
\* Something whole can be restored at any time: sets and generations that look
\* complete are, retention leaves enough of them, a restore always has either
\* the old storage or the new and serves neither in part; one process has the
\* lock and gives it back, unless another took it for stale that was not; and
\* a problem is told to the operator.
RestorePointKept ==
  /\ [](/\ part = "sets" => /\ Sets!RestorableWhole /\ Sets!Released
                            /\ Sets!LockExcludes
        /\ part = "single" => /\ Single!RestorableWhole /\ Single!Released
                              /\ Single!LockExcludes
        /\ part = "locked" => Locked!Released /\ Locked!LockExcludes
        /\ part = "volume" => /\ Volume!SomethingSurvives
                              /\ Volume!RetainedKept /\ Volume!ServesWhole
        /\ part = "kept" => Kept!RestorePoint /\ Kept!OneAtWork
        /\ part = "fetched" => /\ Fetched!DiscoverableWhole
                               /\ Fetched!RestoresVerified
        /\ part = "timers" => Timers!WellMeansBackedUp
        /\ part = "alerts" => Alerts!FailureTold)
  /\ [][/\ part = "sets" => Sets!NewestKept
        /\ part = "single" => Single!NewestKept
        /\ part = "kept" => Kept!RetentionKeeps
        /\ part = "timers" => Timers!OwnEntries]_mcvars
=============================================================================
