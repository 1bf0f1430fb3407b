----------------------------- MODULE Generations -----------------------------
(***************************************************************************)
(* scripts/backup-production.py: encrypted generations in a local and an   *)
(* offsite root.                                                           *)
(*                                                                         *)
(* A backup runs backup.sh into a private directory, encrypts its set to a *)
(* generation, publishes the generation in both roots (copied under a      *)
(* hidden name, verified, synced, renamed), drops what is past retention   *)
(* and writes the success marker.  A restore fetches a generation from the *)
(* offsite root and hands it to restore.sh.  One directory, made by mkdir, *)
(* is the lock of both; no process takes it from another.                  *)
(*                                                                         *)
(* A generation under its final name is "none", "whole", "torn" (whole,    *)
(* but its data is not on the disk) or "bad".  A power failure undoes any  *)
(* rename that was not synced.  Each ended process runs its finally        *)
(* clauses; one that is killed does not, SIGTERM included.                 *)
(***************************************************************************)
EXTENDS Integers, FiniteSets, FiniteSetsExt

CONSTANTS
  Ops,         \* processes that back up
  Fetches,     \* processes that restore
  None,        \* no lock
  OldGens,     \* generations published before
  Count,       \* BACKUP_RETAIN_COUNT
  Days,        \* BACKUP_RETENTION_DAYS
  MaxDay,      \* bound: days
  MaxSteps,    \* bound: times the clock is set back
  MaxKills,    \* bound: killed processes and power failures
  MaxErrors,   \* bound: failing commands and bad copies
  MaxDecays    \* bound: generations that go bad on the disk

VARIABLES
  here,       \* what is under the final name, per root and generation
  unsynced,   \* <<root, generation>> whose last rename is not on the disk
  created,    \* created_at in the manifest
  partial,    \* <<root, process>> of each .partial_ directory
  plaintext,  \* processes whose .plaintext_ or .restore_ directory exists
  lock,       \* .production.lock; who made it is history
  marker,     \* generation in last-backup-success.json, 0 for none
  day,        \* the clock
  w,          \* the processes
  decayed, seen,   \* history: what went bad, what a scan found whole
  budget

vars == <<here, unsynced, created, partial, plaintext, lock, marker, day, w,
          decayed, seen, budget>>
disk == <<here, unsynced, partial, plaintext>>
past == <<decayed, seen>>

Roots == {"local", "remote"}
Procs == Ops \cup Fetches
Gens == 1 .. OldGens + Cardinality(Ops)
Fresh == {g \in Gens : created[g] = -1}

Working == {"prepare", "encrypt", "copy", "check", "sync", "rename", "syncdir",
            "verify", "scan", "expire", "complete", "select", "fetch",
            "compare", "restoring", "cleanup", "unlock"}
Labels == Working \cup {"idle", "lock", "ended", "killed"}

Idle == [pc |-> "idle", g |-> 0, root |-> "local", copy |-> "none",
         doom |-> {}]

At(p, l) == w[p].pc = l
Go(p, l) == w' = [w EXCEPT ![p].pc = l]
Leave(p, l) == w' = [w EXCEPT ![p] = [Idle EXCEPT !.pc = l]]
Spend(kind, max) ==
  budget[kind] < max /\ budget' = [budget EXCEPT ![kind] = @ + 1]

\* verify: the members, the manifest and the digest.
Verified(r, g) == here[r][g] \in {"whole", "torn"}

Init ==
  /\ here = [r \in Roots |->
               [g \in Gens |-> IF g <= OldGens THEN "whole" ELSE "none"]]
  /\ unsynced = {}
  /\ created = [g \in Gens |-> IF g <= OldGens THEN 0 ELSE -1]
  /\ partial = {} /\ plaintext = {} /\ lock = None
  /\ marker = OldGens
  /\ day = 0
  /\ w = [p \in Procs |-> Idle]
  /\ decayed = {} /\ seen = {}
  /\ budget = [kills |-> 0, errors |-> 0, decays |-> 0, steps |-> 0]

-----------------------------------------------------------------------------
(* The lock *)

Begin(p) ==
  /\ At(p, "idle")
  /\ Go(p, "lock")
  /\ UNCHANGED <<disk, created, lock, marker, day, past, budget>>

TakeLock(p) ==
  /\ At(p, "lock")
  /\ IF lock = None
     THEN /\ lock' = p
          /\ Go(p, IF p \in Ops THEN "prepare" ELSE "select")
     ELSE Leave(p, "ended") /\ UNCHANGED lock
  /\ UNCHANGED <<disk, created, marker, day, past, budget>>

Unlock(p) ==
  /\ At(p, "unlock")
  /\ lock' = None
  /\ Leave(p, "ended")
  /\ UNCHANGED <<disk, created, marker, day, past, budget>>

\* "stale lock requires operator inspection": nothing runs, so it goes.
Inspect ==
  /\ lock # None
  /\ \A p \in Procs : w[p].pc \notin Working
  /\ lock' = None
  /\ UNCHANGED <<disk, created, marker, day, w, past, budget>>

-----------------------------------------------------------------------------
(* A backup *)

Prepare(p) ==
  /\ At(p, "prepare")
  /\ plaintext' = plaintext \cup {p}
  /\ Go(p, "encrypt")
  /\ UNCHANGED <<here, unsynced, created, partial, lock, marker, day, past,
                 budget>>

\* backup.sh, the bundle, age and the manifest, all in the private
\* directory; created_at and the name are of this moment.
Encrypt(p) ==
  LET g == Min(Fresh)
  IN /\ At(p, "encrypt")
     /\ created' = [created EXCEPT ![g] = day]
     /\ w' = [w EXCEPT ![p].pc = "copy", ![p].g = g, ![p].root = "local"]
     /\ UNCHANGED <<disk, lock, marker, day, past, budget>>

\* copytree into .partial_; a copy can go wrong.
Copy(p) ==
  /\ At(p, "copy")
  /\ partial' = partial \cup {<<w[p].root, p>>}
  /\ \/ /\ w' = [w EXCEPT ![p].pc = "check", ![p].copy = "torn"]
        /\ UNCHANGED budget
     \/ /\ w' = [w EXCEPT ![p].pc = "check", ![p].copy = "bad"]
        /\ Spend("errors", MaxErrors)
  /\ UNCHANGED <<here, unsynced, created, plaintext, lock, marker, day, past>>

\* The copy is verified under the final name, inside the hidden directory.
Check(p) ==
  /\ At(p, "check")
  /\ Go(p, IF w[p].copy = "bad" THEN "cleanup" ELSE "sync")
  /\ UNCHANGED <<disk, created, lock, marker, day, past, budget>>

Sync(p) ==
  /\ At(p, "sync")
  /\ w' = [w EXCEPT ![p].pc = "rename", ![p].copy = "whole"]
  /\ UNCHANGED <<disk, created, lock, marker, day, past, budget>>

Rename(p) ==
  LET r == w[p].root
      g == w[p].g
  IN /\ At(p, "rename")
     /\ here' = [here EXCEPT ![r][g] = w[p].copy]
     /\ unsynced' = unsynced \cup {<<r, g>>}
     /\ Go(p, "syncdir")
     /\ UNCHANGED <<created, partial, plaintext, lock, marker, day, past,
                    budget>>

\* The root is synced and, at last, .partial_ removed.
SyncDir(p) ==
  LET r == w[p].root
  IN /\ At(p, "syncdir")
     /\ unsynced' = {x \in unsynced : x[1] # r}
     /\ partial' = partial \ {<<r, p>>}
     /\ w' = [w EXCEPT ![p].pc = IF r = "local" THEN "copy" ELSE "verify",
                       ![p].root = "remote"]
     /\ UNCHANGED <<here, created, plaintext, lock, marker, day, past, budget>>

\* The offsite copy again; leaving the with block removes the plaintext.
VerifyOffsite(p) ==
  /\ At(p, "verify")
  /\ IF Verified("remote", w[p].g)
     THEN /\ plaintext' = plaintext \ {p}
          /\ w' = [w EXCEPT ![p].pc = "scan", ![p].root = "local"]
     ELSE Go(p, "cleanup") /\ UNCHANGED plaintext
  /\ UNCHANGED <<here, unsynced, created, partial, lock, marker, day, past,
                 budget>>

-----------------------------------------------------------------------------
(* Retention *)

\* Only what verifies counts, and only that is ever removed.
Valid(r) == {g \in Gens : Verified(r, g)}

\* The sort: created_at, then the generation just made, then the name.
Ahead(h, g, protected) ==
  \/ created[h] > created[g]
  \/ /\ created[h] = created[g]
     /\ h = protected \/ (h > g /\ g # protected)

\* Mutant: the generation just made is expired like any other.
DoomedAs(r, protected) ==
  {g \in Valid(r) :
     /\ Cardinality({h \in Valid(r) : Ahead(h, g, protected)}) >= Count
     /\ created[g] < day - Days}

Doomed(r, protected) ==
  {g \in Valid(r) \ {protected} :
     /\ Cardinality({h \in Valid(r) : Ahead(h, g, protected)}) >= Count
     /\ created[g] < day - Days}

\* A scan that fails is a warning.
Scan(p) ==
  LET r == w[p].root
  IN /\ At(p, "scan")
     /\ \/ /\ w' = [w EXCEPT ![p].pc = "expire",
                             ![p].doom = Doomed(r, w[p].g)]
           /\ UNCHANGED budget
        \/ Go(p, "expire") /\ Spend("errors", MaxErrors)
     /\ seen' = {g \in Gens : here[r][g] = "whole"}
     /\ UNCHANGED <<disk, created, lock, marker, day, decayed>>

\* A rename to .expired_ takes the generation away; it may fail.
Expire(p) ==
  LET r == w[p].root
      g == Max(w[p].doom)
  IN /\ At(p, "expire") /\ w[p].doom # {}
     /\ w' = [w EXCEPT ![p].doom = @ \ {g}]
     /\ \/ /\ here' = [here EXCEPT ![r][g] = "none"]
           /\ unsynced' = unsynced \cup {<<r, g>>}
           /\ UNCHANGED budget
        \/ Spend("errors", MaxErrors) /\ UNCHANGED <<here, unsynced>>
     /\ UNCHANGED <<created, partial, plaintext, lock, marker, day, past>>

NextRoot(p) ==
  /\ At(p, "expire") /\ w[p].doom = {}
  /\ w' = IF w[p].root = "local"
          THEN [w EXCEPT ![p].pc = "scan", ![p].root = "remote"]
          ELSE [w EXCEPT ![p].pc = "complete"]
  /\ seen' = {}
  /\ UNCHANGED <<disk, created, lock, marker, day, decayed, budget>>

\* The event is printed and the marker replaced.
Complete(p) ==
  /\ At(p, "complete")
  /\ marker' = w[p].g
  /\ Go(p, "unlock")
  /\ UNCHANGED <<disk, created, lock, day, past, budget>>

-----------------------------------------------------------------------------
(* A restore from the offsite root *)

Select(p) ==
  /\ At(p, "select")
  /\ \E g \in Gens :
       IF Verified("remote", g)
       THEN /\ w' = [w EXCEPT ![p].pc = "fetch", ![p].g = g]
            /\ plaintext' = plaintext \cup {p}
       ELSE Go(p, "cleanup") /\ UNCHANGED plaintext
  /\ UNCHANGED <<here, unsynced, created, partial, lock, marker, day, past,
                 budget>>

\* What is copied is what is there by now, and the copy can go wrong.
Fetch(p) ==
  /\ At(p, "fetch")
  /\ \/ /\ w' = [w EXCEPT ![p].pc = "compare",
                          ![p].copy = here["remote"][w[p].g]]
        /\ UNCHANGED budget
     \/ /\ w' = [w EXCEPT ![p].pc = "compare", ![p].copy = "bad"]
        /\ Spend("errors", MaxErrors)
  /\ UNCHANGED <<disk, created, lock, marker, day, past>>

Compare(p) ==
  /\ At(p, "compare")
  /\ Go(p, IF w[p].copy = "bad" THEN "cleanup" ELSE "restoring")
  /\ UNCHANGED <<disk, created, lock, marker, day, past, budget>>

\* Decryption, the four members and restore.sh, module Restore.
Restored(p) ==
  /\ At(p, "restoring")
  /\ plaintext' = plaintext \ {p}
  /\ Go(p, "unlock")
  /\ UNCHANGED <<here, unsynced, created, partial, lock, marker, day, past,
                 budget>>

-----------------------------------------------------------------------------
(* Failures and the environment *)

\* Any command may raise.
Fail(p) ==
  /\ w[p].pc \in Working \ {"cleanup", "unlock"}
  /\ Go(p, "cleanup")
  /\ Spend("errors", MaxErrors)
  /\ UNCHANGED <<disk, created, lock, marker, day, past>>

\* The finally clauses and the failure marker.
Cleanup(p) ==
  /\ At(p, "cleanup")
  /\ partial' = {x \in partial : x[2] # p}
  /\ plaintext' = plaintext \ {p}
  /\ Go(p, "unlock")
  /\ UNCHANGED <<here, unsynced, created, lock, marker, day, past, budget>>

Kill(p) ==
  /\ w[p].pc \in Working
  /\ Leave(p, "killed")
  /\ Spend("kills", MaxKills)
  /\ UNCHANGED <<disk, created, lock, marker, day, past>>

\* Undone renames: a new name disappears, an expired one comes back.
Undone(r, g) == IF here[r][g] = "none" THEN "whole" ELSE "none"
PowerFailure ==
  /\ \E lost \in SUBSET unsynced :
       here' = [r \in Roots |-> [g \in Gens |->
                  IF <<r, g>> \in lost THEN Undone(r, g)
                  ELSE IF here[r][g] = "torn" THEN "bad" ELSE here[r][g]]]
  /\ unsynced' = {}
  /\ w' = [p \in Procs |-> IF w[p].pc \in Working \cup {"lock"}
                           THEN [Idle EXCEPT !.pc = "killed"] ELSE w[p]]
  /\ Spend("kills", MaxKills)
  /\ seen' = {}
  /\ UNCHANGED <<created, partial, plaintext, lock, marker, day, decayed>>

Decay ==
  /\ \E r \in Roots, g \in Gens :
       /\ here[r][g] = "whole"
       /\ here' = [here EXCEPT ![r][g] = "bad"]
       /\ decayed' = decayed \cup {<<r, g>>}
  /\ Spend("decays", MaxDecays)
  /\ UNCHANGED <<unsynced, created, partial, plaintext, lock, marker, day, w,
                 seen>>

Tick ==
  /\ day < MaxDay /\ day' = day + 1
  /\ UNCHANGED <<disk, created, lock, marker, w, past, budget>>

SetBack ==
  /\ day > 0 /\ day' = day - 1
  /\ Spend("steps", MaxSteps)
  /\ UNCHANGED <<disk, created, lock, marker, w, past>>

BackupStep(p) ==
  \/ Prepare(p) \/ Encrypt(p) \/ Copy(p) \/ Check(p) \/ Sync(p) \/ Rename(p)
  \/ SyncDir(p) \/ VerifyOffsite(p) \/ Scan(p) \/ Expire(p) \/ NextRoot(p)
  \/ Complete(p)

RestoreStep(p) == Select(p) \/ Fetch(p) \/ Compare(p) \/ Restored(p)

AnyStep(p) ==
  Begin(p) \/ TakeLock(p) \/ Unlock(p) \/ Fail(p) \/ Cleanup(p) \/ Kill(p)

Next ==
  \/ \E p \in Ops : BackupStep(p)
  \/ \E p \in Fetches : RestoreStep(p)
  \/ \E p \in Procs : AnyStep(p)
  \/ Inspect \/ PowerFailure \/ Decay \/ Tick \/ SetBack

Spec == Init /\ [][Next]_vars

-----------------------------------------------------------------------------
(* Properties *)

\* The lock of one process is not removed by another: backups and restores
\* never overlap, also when one finds the lock taken
\* (backup-production.py:188-195).
OneAtWork ==
  \A p, q \in Procs : w[p].pc \in Working /\ w[q].pc \in Working => p = q

\* What is under a final name is a whole generation, after any kill or
\* power failure, unless the disk spoilt it (backup-production.py:95-112).
DiscoverableWhole ==
  \A r \in Roots, g \in Gens : here[r][g] = "bad" => <<r, g>> \in decayed

\* The success marker implies that some generation can be restored from
\* either root, however often later backups failed half way, and whatever
\* the clock did (backup-production.py:114-128, 157-163).
RestorePoint ==
  marker # 0 =>
    \E g \in Gens : \A r \in Roots :
      here[r][g] = "whole" \/ <<r, g>> \in decayed

\* Retention removes a generation only when Count others that are no older
\* were whole when it looked (backup-production.py:114-123).
RetentionKeeps ==
  \A r \in Roots, g \in Gens :
    (\E p \in Ops : Expire(p)) /\ here[r][g] # here'[r][g] =>
      Count <= Cardinality({h \in seen \ {g} : created[h] >= created[g]})

\* restore.sh is only given what was verified after it was fetched
\* (backup-production.py:167-171).
RestoresVerified ==
  \A p \in Fetches : At(p, "restoring") => w[p].copy = "whole"
=============================================================================
