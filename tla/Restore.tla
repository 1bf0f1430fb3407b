------------------------------- MODULE Restore -------------------------------
(***************************************************************************)
(* The destructive half of scripts/restore.sh: stop the application, wipe  *)
(* and load the database, swap the storage volume, migrate, reconcile and  *)
(* start the application again.                                            *)
(*                                                                         *)
(* The volume is changed by a container that the script starts and waits   *)
(* for.  It is a process of its own: when the script is killed, it loses   *)
(* its input and goes on.  The volume is the top level of the storage      *)
(* root, .restore-staging and .restore-swap, one rename or removal at a    *)
(* time; .tmp, which the swap leaves alone, is not in it.  The archive and *)
(* the dump are those of one backup, taken one after the other, so they    *)
(* need not agree: reconcile.py is what tells.                             *)
(***************************************************************************)
EXTENDS Integers, FiniteSets

CONSTANTS
  Keys,         \* names at the top of the storage root
  Plain,        \* those that are regular files, such as the identity marker
  MaxAttempts,  \* bound: runs of restore.sh
  MaxKills,     \* bound: the script alone, or the host, dies
  MaxFaults     \* bound: commands that fail

Attempts == 1 .. MaxAttempts

VARIABLES
  arch,      \* size of each object in the archive, 0 when it is not there
  rows,      \* live rows of the dump: size, 0 for none, -1 for a row whose
             \* placement is not under the storage root
  db,        \* "old", "empty", "part" or "new"
  serving,   \* the application containers run
  root, stage, swap,      \* <<key, generation>> in each directory
  stageDir, swapDir,      \* whether .restore-staging and .restore-swap exist
  script,    \* restore.sh: pc, attempt, and RESTORE_DESTRUCTIVE
  helper,    \* the storage container of each attempt
  kept,      \* history: artifacts an ended container has left
  kills, faults

volume == <<root, stage, swap, stageDir, swapDir>>
budget == <<kills, faults>>
vars == <<arch, rows, db, serving, volume, script, helper, kept, budget>>

Old == Keys \X {"old"}
New == {k \in Keys : arch[k] > 0} \X {"new"}
Expected == Cardinality(New)

Working(a) == helper[a] \notin {"idle", "ok", "failed"}
Init ==
  /\ arch \in [Keys -> 0 .. 2]
  /\ rows \in [Keys -> -1 .. 2]
  /\ db = "old" /\ serving = TRUE
  /\ root = Old /\ stage = {} /\ swap = {}
  /\ stageDir = FALSE /\ swapDir = FALSE
  /\ script = [pc |-> "idle", attempt |-> 0, destructive |-> FALSE]
  /\ helper = [a \in Attempts |-> "idle"]
  /\ kept = <<>>
  /\ kills = 0 /\ faults = 0

data == <<arch, rows>>
At(l) == script.pc = l
Go(l) == script' = [script EXCEPT !.pc = l]

Abandoned == stageDir \/ swapDir

\* Mutant: only the staging directory is looked for.
LeftoverAs == stageDir

\* assert_clean, in the preflight, after the stop and in the container.
Leftover == stageDir \/ swapDir

-----------------------------------------------------------------------------
(* restore.sh *)

Begin ==
  /\ script.pc \in {"idle", "failed", "killed", "done"}
  /\ script.attempt < MaxAttempts
  /\ script' = [pc |-> "preflight", attempt |-> script.attempt + 1,
                destructive |-> FALSE]
  /\ UNCHANGED <<data, db, serving, volume, helper, kept, budget>>

Preflight ==
  /\ At("preflight")
  /\ Go(IF Leftover THEN "cleanup" ELSE "confirmed")
  /\ UNCHANGED <<data, db, serving, volume, helper, kept, budget>>

Arm ==
  /\ At("confirmed")
  /\ script' = [script EXCEPT !.pc = "armed", !.destructive = TRUE]
  /\ UNCHANGED <<data, db, serving, volume, helper, kept, budget>>

Stop ==
  /\ At("armed")
  /\ serving' = FALSE
  /\ Go("fenced")
  /\ UNCHANGED <<data, db, volume, helper, kept, budget>>

CheckFenced ==
  /\ At("fenced")
  /\ Go(IF Leftover THEN "cleanup" ELSE "wipe")
  /\ UNCHANGED <<data, db, serving, volume, helper, kept, budget>>

Wipe ==
  /\ At("wipe")
  /\ db' = "empty"
  /\ Go("load")
  /\ UNCHANGED <<data, serving, volume, helper, kept, budget>>

\* The dump replayed in the isolated database before, so what makes it fail
\* here is a fault; ON_ERROR_STOP leaves what was loaded up to then.
Load ==
  /\ At("load")
  /\ \/ db' = "new" /\ Go("helper") /\ UNCHANGED faults
     \/ /\ faults < MaxFaults /\ faults' = faults + 1
        /\ db' = "part" /\ Go("cleanup")
  /\ UNCHANGED <<data, serving, volume, helper, kept, kills>>

StartHelper ==
  /\ At("helper")
  /\ helper' = [helper EXCEPT ![script.attempt] = "check"]
  /\ Go("await")
  /\ UNCHANGED <<data, db, serving, volume, kept, budget>>

Await ==
  /\ At("await")
  /\ ~Working(script.attempt)
  /\ Go(IF helper[script.attempt] = "ok" THEN "migrate" ELSE "cleanup")
  /\ UNCHANGED <<data, db, serving, volume, helper, kept, budget>>

Migrate ==
  /\ At("migrate")
  /\ Go("reconcile")
  /\ UNCHANGED <<data, db, serving, volume, helper, kept, budget>>

\* reconcile.py: the size of each file on the volume by its path.
Size(e) == IF e[2] = "new" THEN arch[e[1]] ELSE 1
Seen == {e[1] : e \in root}
SeenSize(k) == Size(CHOOSE e \in root : e[1] = k)
Live == {k \in Keys : rows[k] # 0}
Misplaced == {k \in Live : rows[k] < 0}
Dangling == (Live \ Misplaced) \ Seen
SizeMismatch ==
  {k \in (Live \ Misplaced) \cap Seen : SeenSize(k) # rows[k]}

\* Files without a row are warnings.
Critical == Misplaced \cup Dangling \cup SizeMismatch

Reconcile ==
  /\ At("reconcile")
  /\ Go(IF Critical = {} THEN "restart" ELSE "cleanup")
  /\ UNCHANGED <<data, db, serving, volume, helper, kept, budget>>

Restart ==
  /\ At("restart")
  /\ serving' = TRUE
  /\ Go("health")
  /\ UNCHANGED <<data, db, volume, helper, kept, budget>>

Healthy ==
  /\ At("health")
  /\ Go("done")
  /\ UNCHANGED <<data, db, serving, volume, helper, kept, budget>>

\* Any gate may fail: a command, a check of the volume's identity, the
\* migration, the probe of the restarted application.
Fail ==
  /\ script.pc \in {"preflight", "confirmed", "armed", "fenced", "wipe",
                    "helper", "migrate", "reconcile", "restart", "health"}
  /\ faults < MaxFaults /\ faults' = faults + 1
  /\ Go("cleanup")
  /\ UNCHANGED <<data, db, serving, volume, helper, kept, kills>>

\* The EXIT trap stops the application after a destructive failure; when
\* that fails too, the operator is told.
Cleanup ==
  /\ At("cleanup")
  /\ \/ /\ serving' = (serving /\ ~script.destructive)
        /\ UNCHANGED faults
     \/ /\ script.destructive /\ UNCHANGED serving
        /\ faults < MaxFaults /\ faults' = faults + 1
  /\ Go("failed")
  /\ UNCHANGED <<data, db, volume, helper, kept, kills>>

-----------------------------------------------------------------------------
(* The storage container *)

In(a, l) == helper[a] = l
To(a, l) == helper' = [helper EXCEPT ![a] = l]

\* The container ends with an error and leaves the volume as it is.  What
\* it leaves is nobody's once no other container is at work.
Abort(a) ==
  /\ To(a, "failed")
  /\ kept' = IF Abandoned /\ \A b \in Attempts \ {a} : ~Working(b)
             THEN <<stage, swap>> ELSE kept
  /\ UNCHANGED volume

Rest == <<arch, rows, db, serving, script>>

CheckArtifacts(a) ==
  /\ In(a, "check")
  /\ IF Leftover THEN To(a, "failed") ELSE To(a, "mkdir")
  /\ UNCHANGED <<Rest, volume, kept, budget>>

MakeStage(a) ==
  /\ In(a, "mkdir")
  /\ stageDir' = TRUE
  /\ To(a, "extract")
  /\ UNCHANGED <<Rest, root, stage, swap, swapDir, kept, budget>>

\* tar reads the archive from the script; without it the input ends early.
Fed(a) == script.attempt = a /\ At("await")
Extracted(a) == In(a, "extract") /\ New \subseteq stage

Extract(a) ==
  /\ In(a, "extract")
  /\ \/ \E e \in New \ stage :
          /\ Fed(a)
          /\ stage' = stage \cup {e}
          /\ UNCHANGED <<root, swap, stageDir, swapDir, helper, kept>>
     \/ Fed(a) /\ Extracted(a) /\ To(a, "count") /\ UNCHANGED <<volume, kept>>
     \/ ~Fed(a) /\ Abort(a)
  /\ UNCHANGED <<Rest, budget>>

Count(a) ==
  /\ In(a, "count")
  /\ IF Cardinality(stage) >= Expected
     THEN To(a, "swapdir") /\ UNCHANGED <<stage, stageDir>>
     ELSE To(a, "failed") /\ stage' = {} /\ stageDir' = FALSE
  /\ UNCHANGED <<Rest, root, swap, swapDir, kept, budget>>

MakeSwap(a) ==
  /\ In(a, "swapdir")
  /\ swapDir' = TRUE
  /\ To(a, "out")
  /\ UNCHANGED <<Rest, root, stage, swap, stageDir, kept, budget>>

Cleared == root = {}

\* Old entries to the swap, then the staged ones to the root.
MoveOut(a) ==
  /\ In(a, "out")
  /\ \/ \E e \in root :
          /\ root' = root \ {e} /\ swap' = swap \cup {e}
          /\ UNCHANGED helper
     \/ Cleared /\ To(a, "in") /\ UNCHANGED <<root, swap>>
  /\ UNCHANGED <<Rest, stage, stageDir, swapDir, kept, budget>>

\* A rename can be lost by the file system: what the count is there for.
MoveIn(a) ==
  /\ In(a, "in")
  /\ \/ \E e \in stage :
          /\ stage' = stage \ {e}
          /\ \/ root' = root \cup {e} /\ UNCHANGED faults
             \/ /\ faults < MaxFaults /\ faults' = faults + 1
                /\ UNCHANGED root
          /\ UNCHANGED <<stageDir, helper>>
     \/ /\ stage = {} /\ stageDir' = FALSE
        /\ To(a, "verify")
        /\ UNCHANGED <<root, stage, faults>>
  /\ UNCHANGED <<Rest, swap, swapDir, kept, kills>>

Verify(a) ==
  /\ In(a, "verify")
  /\ To(a, IF Cardinality(root) >= Expected THEN "drop" ELSE "undo")
  /\ UNCHANGED <<Rest, volume, kept, budget>>

\* safe_remove_dir refuses an entry that is not a directory.
Undo(a) ==
  /\ In(a, "undo")
  /\ \/ \E e \in root :
          IF e[1] \in Plain THEN Abort(a)
          ELSE /\ root' = root \ {e}
               /\ UNCHANGED <<stage, swap, stageDir, swapDir, helper, kept>>
     \/ root = {} /\ To(a, "back") /\ UNCHANGED <<volume, kept>>
  /\ UNCHANGED <<Rest, budget>>

MoveBack(a) ==
  /\ In(a, "back")
  /\ \/ \E e \in swap :
          /\ swap' = swap \ {e} /\ root' = root \cup {e}
          /\ UNCHANGED <<swapDir, helper>>
     \/ swap = {} /\ swapDir' = FALSE /\ To(a, "failed")
          /\ UNCHANGED <<root, swap>>
  /\ UNCHANGED <<Rest, stage, stageDir, kept, budget>>

DropSwap(a) ==
  /\ In(a, "drop")
  /\ \/ \E e \in swap : swap' = swap \ {e} /\ UNCHANGED <<swapDir, helper>>
     \/ swap = {} /\ swapDir' = FALSE /\ To(a, "own") /\ UNCHANGED swap
  /\ UNCHANGED <<Rest, root, stage, stageDir, kept, budget>>

Own(a) ==
  /\ In(a, "own")
  /\ To(a, "ok")
  /\ UNCHANGED <<Rest, volume, kept, budget>>

HelperFails(a) ==
  /\ Working(a)
  /\ faults < MaxFaults /\ faults' = faults + 1
  /\ Abort(a)
  /\ UNCHANGED <<Rest, kills>>

-----------------------------------------------------------------------------
(* Death *)

Active == script.pc \notin {"idle", "done", "failed", "killed"}

\* kill -9 of the script: no trap, and the container stays.  One that has
\* read the whole archive goes on.
KillScript ==
  /\ Active
  /\ kills < MaxKills /\ kills' = kills + 1
  /\ Go("killed")
  /\ helper' = [a \in Attempts |-> IF Fed(a) /\ Extracted(a) THEN "count"
                                   ELSE helper[a]]
  /\ UNCHANGED <<data, db, serving, volume, kept, faults>>

\* After a reboot Docker starts again what had not been stopped.
CrashHost ==
  /\ Active \/ \E a \in Attempts : Working(a)
  /\ kills < MaxKills /\ kills' = kills + 1
  /\ script' = [script EXCEPT !.pc = IF Active THEN "killed" ELSE @]
  /\ helper' = [a \in Attempts |-> IF Working(a) THEN "failed" ELSE helper[a]]
  /\ kept' = IF Abandoned THEN <<stage, swap>> ELSE kept
  /\ UNCHANGED <<data, db, serving, volume, faults>>

ScriptStep ==
  \/ Begin \/ Preflight \/ Arm \/ Stop \/ CheckFenced \/ Wipe \/ Load
  \/ StartHelper \/ Await \/ Migrate \/ Reconcile \/ Restart \/ Healthy
  \/ Fail \/ Cleanup

HelperStep(a) ==
  \/ CheckArtifacts(a) \/ MakeStage(a) \/ Extract(a) \/ Count(a)
  \/ MakeSwap(a) \/ MoveOut(a) \/ MoveIn(a) \/ Verify(a) \/ Undo(a)
  \/ MoveBack(a) \/ DropSwap(a) \/ Own(a) \/ HelperFails(a)

Next ==
  ScriptStep \/ (\E a \in Attempts : HelperStep(a)) \/ KillScript \/ CrashHost

Spec == Init /\ [][Next]_vars

-----------------------------------------------------------------------------
(* Properties *)

\* "Old storage data is NEVER deleted before new data is verified in
\* staging" (restore.sh:13), carried through every failure, kill and later
\* attempt: the volume always holds all the old entries or all the new.
SomethingSurvives ==
  Old \subseteq root \cup swap \/ New \subseteq root \cup swap

\* "Preserve every retained artifact; automatic ownership guesses are
\* unsafe" (restore.sh:979-980): what an ended container has left in the
\* staging and swap directories is what a later attempt finds and leaves.
RetainedKept == kept # <<>> => kept = <<stage, swap>>

\* The application only ever runs on the state from before the restore or
\* on a restored one where every live row names a file of its size
\* (restore.sh:298-306, 1097-1118).
Backed(k) ==
  rows[k] # 0 => \E e \in root : e[1] = k /\ Size(e) = rows[k]
ServesWhole ==
  serving =>
    \/ db = "old" /\ root = Old
    \/ db = "new" /\ \A k \in Keys : Backed(k)
=============================================================================
