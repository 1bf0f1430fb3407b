---------------------------- MODULE ScheduledJobs ----------------------------
(***************************************************************************)
(* scripts/scheduled-operations.py: the four timed jobs, their alerts and  *)
(* the state that keeps an alert from being sent twice.                    *)
(*                                                                         *)
(* The systemd units start each job by the calendar (ops/systemd); one     *)
(* instance of a unit runs at a time.  A runner takes an flock without     *)
(* waiting, reads alerts.json, runs the job's command, judges it by exit   *)
(* code, printed events and the success marker, and sends what changed:    *)
(* the state is saved after the receiver confirmed.  The backup command is *)
(* module Generations behind a wrapper of the operator's that may lie.     *)
(*                                                                         *)
(* Time is counted in timer instants; the tolerances of seconds (a minute  *)
(* for clocks, five seconds for the marker) are less than one.             *)
(***************************************************************************)
EXTENDS Integers, Sequences

CONSTANTS
  Jobs,         \* the jobs of an instance
  None,         \* nobody, nothing yet
  Cooldown,     \* cooldown_seconds
  MaxAge,       \* backup_max_age and cert_max_age
  Daily,        \* instants in a day
  MaxClock,     \* bound: instants
  MaxSteps,     \* bound: times the clock is set back
  MaxKills,     \* bound: runners killed
  MaxOutages,   \* bound: deliveries that fail
  MaxLies,      \* bound: wrappers that exit 0 without a backup
  MaxTimeouts   \* bound: commands that exceed job_timeout

VARIABLES
  clock, due,  \* the host's clock; jobs whose timer has elapsed
  lock,        \* scheduler.lock: whose flock
  alerts,      \* alerts.json: per service nothing, or reason and sent_at
  marker,      \* timestamp of last-backup-success.json
  heartbeat,   \* timestamp of cert-check-heartbeat.json
  stuck,       \* a .production.lock that nobody will remove
  w,           \* the runners
  inbox, told, \* history: the last reason accepted, and when each was last
  backed,      \* history: a backup was completed in the current run
  budget

vars == <<clock, due, lock, alerts, marker, heartbeat, stuck, w, inbox, told,
          backed, budget>>
marks == <<marker, heartbeat, stuck>>
heard == <<inbox, told>>

Keys == {"backup", "backup-retention", "cert-renew", "cert-check",
         "backup-stale", "cert-check-stale"}
Reasons == {"configuration", "replication", "timeout", "failed", "retention",
            "renewal", "warning", "critical", "certificate", "stale"}
Labels == {"idle", "flock", "read", "execute", "judge", "turn", "deliver",
           "save", "ended"}
Idle == [pc |-> "idle", now |-> 0, state |-> [k \in Keys |-> None],
         code |-> 0, claims |-> FALSE, warned |-> FALSE, reason |-> "ok",
         todo |-> <<>>, says |-> "ok", found |-> {}]
Running(j) == w[j].pc \notin {"idle", "ended"}
At(j, l) == w[j].pc = l
Go(j, l) == w' = [w EXCEPT ![j].pc = l]
End(j, code) ==
  /\ w' = [w EXCEPT ![j] = [Idle EXCEPT !.pc = "ended", !.code = code,
                              !.now = w[j].now, !.found = w[j].found]]
  /\ lock' = IF lock = j THEN None ELSE lock
Spend(kind, max) ==
  budget[kind] < max /\ budget' = [budget EXCEPT ![kind] = @ + 1]

\* OnCalendar: freshness hourly; the daily jobs at instants that are also
\* those of freshness; cert-renew twice a day.
Elapsed(t) ==
  {j \in Jobs :
     \/ j = "freshness"
     \/ j = "backup" /\ t % Daily = 0
     \/ j = "cert-check" /\ t % Daily = 1 % Daily
     \/ j = "cert-renew" /\ t % Daily \in {0, Daily \div 2}}

Init ==
  /\ clock = 1 /\ due = {}
  /\ lock = None
  /\ alerts = [k \in Keys |-> None]
  /\ marker \in {None, 0} /\ heartbeat = None /\ stuck = FALSE
  /\ w = [j \in Jobs |-> Idle]
  /\ inbox = [k \in Keys |-> "ok"]
  /\ told = [k \in Keys |-> [r \in Reasons |-> None]]
  /\ backed = FALSE
  /\ budget = [steps |-> 0, kills |-> 0, outages |-> 0, lies |-> 0,
               timeouts |-> 0]

-----------------------------------------------------------------------------
(* Timers *)

\* A unit that is still active is not started again.  The last instant
\* stands for all later ones of the hourly timer.
Tick ==
  /\ clock' = IF clock < MaxClock THEN clock + 1 ELSE clock
  /\ due' = due \cup {j \in Elapsed(clock') :
                       ~Running(j) /\ (j = "freshness" \/ clock' > clock)}
  /\ UNCHANGED <<lock, alerts, marks, w, heard, backed, budget>>

SetBack ==
  /\ clock > 0 /\ clock' = clock - 1
  /\ Spend("steps", MaxSteps)
  /\ UNCHANGED <<due, lock, alerts, marks, w, heard, backed>>

Fire(j) ==
  /\ j \in due /\ ~Running(j)
  /\ due' = due \ {j}
  /\ w' = [w EXCEPT ![j] = [Idle EXCEPT !.pc = "flock"]]
  /\ UNCHANGED <<clock, lock, alerts, marks, heard, backed, budget>>

-----------------------------------------------------------------------------
(* A run *)

\* LOCK_NB: a busy lock ends the run with 75.
Flock(j) ==
  /\ At(j, "flock")
  /\ IF lock = None
     THEN /\ lock' = j
          /\ w' = [w EXCEPT ![j].pc = "read", ![j].now = clock]
     ELSE End(j, 75)
  /\ backed' = (backed /\ j # "backup")
  /\ UNCHANGED <<clock, due, alerts, marks, heard, budget>>

\* An entry from the future is refused, and with it the whole state.
Readable == \A k \in Keys : alerts[k] # None => alerts[k].sent <= clock

Services(j) ==
  IF j = "freshness" THEN <<"backup-stale", "cert-check-stale">> ELSE <<j>>

Read(j) ==
  /\ At(j, "read")
  /\ IF Readable
     THEN /\ w' = [w EXCEPT ![j].pc = IF j = "freshness" THEN "turn"
                                      ELSE "execute",
                            ![j].state = alerts, ![j].todo = Services(j)]
          /\ UNCHANGED lock
     ELSE End(j, 70)
  /\ UNCHANGED <<clock, due, alerts, marks, heard, backed, budget>>

Ends(j, code, claims, warned) ==
  w' = [w EXCEPT ![j].pc = "judge", ![j].code = code, ![j].claims = claims,
                 ![j].warned = warned]

\* The wrapper and backup-production.py.  A lock that a killed run has left
\* ends it with 2.
ExecuteBackup ==
  LET j == "backup"
  IN /\ j \in Jobs /\ At(j, "execute")
     /\ \/ /\ ~stuck
           /\ \E warned \in BOOLEAN : Ends(j, 0, TRUE, warned)
           /\ marker' = clock /\ backed' = TRUE
           /\ UNCHANGED budget
        \/ /\ Ends(j, IF stuck THEN 2 ELSE 14, FALSE, FALSE)
           /\ UNCHANGED <<marker, backed, budget>>
        \/ /\ Spend("lies", MaxLies)
           /\ \E claims \in BOOLEAN : Ends(j, 0, claims, FALSE)
           /\ UNCHANGED <<marker, backed>>
     /\ UNCHANGED <<clock, due, lock, alerts, heartbeat, stuck, heard>>

\* certificate-lifecycle.py: check ends with 0 to 3, renew with 0 or 3.
ExecuteCert(j) ==
  /\ j \in {"cert-check", "cert-renew"} /\ At(j, "execute")
  /\ \E code \in IF j = "cert-check" THEN 0 .. 3 ELSE {0, 3} :
       Ends(j, code, TRUE, FALSE)
  /\ UNCHANGED <<clock, due, lock, alerts, marks, heard, backed, budget>>

\* SIGTERM and SIGKILL to the process group: a backup leaves its lock.
TimeOut(j) ==
  /\ At(j, "execute")
  /\ Spend("timeouts", MaxTimeouts)
  /\ Ends(j, 124, FALSE, FALSE)
  /\ stuck' = (stuck \/ j = "backup")
  /\ UNCHANGED <<clock, due, lock, alerts, marker, heartbeat, heard, backed>>

-----------------------------------------------------------------------------
(* The verdict *)

\* Seconds since the timestamp; without one, or in the future, too many.
Young(time, at, limit) ==
  time # None /\ time <= at /\ at - time <= limit

\* The marker must be as young as the run.
Completed(j) == w[j].claims /\ Young(marker, clock, clock - w[j].now)

BackupCode(j) == IF w[j].code = 0 /\ ~Completed(j) THEN 1 ELSE w[j].code

BackupReason(code) ==
  CASE code = 0 -> "ok" [] code = 2 -> "configuration"
    [] code = 14 -> "replication" [] code = 124 -> "timeout"
    [] OTHER -> "failed"

CheckReason(code) ==
  CASE code = 0 -> "ok" [] code = 1 -> "warning" [] code = 2 -> "critical"
    [] OTHER -> "certificate"

\* A successful backup has a second service to report.
JudgeBackup ==
  LET j == "backup"
      code == BackupCode(j)
  IN /\ j \in Jobs /\ At(j, "judge")
     /\ w' = [w EXCEPT ![j].pc = "turn", ![j].code = code,
                       ![j].reason = BackupReason(code),
                       ![j].todo = IF code = 0
                                   THEN <<j, "backup-retention">> ELSE <<j>>]
     /\ UNCHANGED <<clock, due, lock, alerts, marks, heard, backed, budget>>

\* A check with a verdict, good or bad, is the heartbeat.
JudgeCheck ==
  LET j == "cert-check"
  IN /\ j \in Jobs /\ At(j, "judge")
     /\ heartbeat' = IF w[j].code \in 0 .. 2 THEN w[j].now ELSE heartbeat
     /\ w' = [w EXCEPT ![j].pc = "turn", ![j].reason = CheckReason(w[j].code)]
     /\ UNCHANGED <<clock, due, lock, alerts, marker, stuck, heard, backed,
                    budget>>

JudgeRenewal ==
  LET j == "cert-renew"
  IN /\ j \in Jobs /\ At(j, "judge")
     /\ w' = [w EXCEPT ![j].pc = "turn",
                       ![j].reason = IF w[j].code = 0 THEN "ok"
                                     ELSE "renewal"]
     /\ UNCHANGED <<clock, due, lock, alerts, marks, heard, backed, budget>>

-----------------------------------------------------------------------------
(* transition, deliver and save *)

Stale(j, k) ==
  ~Young(IF k = "backup-stale" THEN marker ELSE heartbeat, w[j].now, MaxAge)

\* What is reported of a service.
Verdict(j, k) ==
  CASE k \in {"backup-stale", "cert-check-stale"} ->
         IF Stale(j, k) THEN "stale" ELSE "ok"
    [] k = "backup-retention" -> IF w[j].warned THEN "retention" ELSE "ok"
    [] OTHER -> w[j].reason

\* Mutant: a changed reason does not end the cooldown.
QuietAs(old, reason, now) ==
  IF old = None THEN reason = "ok"
  ELSE reason # "ok" /\ now - old.sent < Cooldown

\* Nothing to say: still well, or the same problem within the cooldown.
Quiet(old, reason, now) ==
  IF old = None THEN reason = "ok"
  ELSE reason = old.reason /\ now - old.sent < Cooldown

\* One service is done with; freshness fails when it found a problem.
Popped(j, k, reason) ==
  LET found == w[j].found \cup IF reason = "ok" THEN {} ELSE {<<k, reason>>}
  IN [w[j] EXCEPT !.pc = "turn", !.todo = Tail(@), !.found = found,
        !.code = IF j = "freshness" /\ found # {} THEN 1 ELSE @]

Turn(j) ==
  /\ At(j, "turn") /\ w[j].todo # <<>>
  /\ LET k == Head(w[j].todo)
         reason == Verdict(j, k)
     IN w' = IF Quiet(w[j].state[k], reason, w[j].now)
             THEN [w EXCEPT ![j] = Popped(j, k, reason)]
             ELSE [w EXCEPT ![j].pc = "deliver", ![j].says = reason]
  /\ UNCHANGED <<clock, due, lock, alerts, marks, heard, backed, budget>>

Hear(k, reason, now) ==
  /\ inbox' = [inbox EXCEPT ![k] = reason]
  /\ told' = IF reason = "ok" THEN told
             ELSE [told EXCEPT ![k][reason] = now]

\* Up to attempts requests; when none is confirmed the run ends with 70,
\* and the receiver may have accepted one all the same.
Deliver(j) ==
  /\ At(j, "deliver")
  /\ LET k == Head(w[j].todo)
     IN \/ /\ Hear(k, w[j].says, w[j].now)
           /\ Go(j, "save")
           /\ UNCHANGED <<lock, budget>>
        \/ /\ Spend("outages", MaxOutages)
           /\ End(j, 70)
           /\ (Hear(k, w[j].says, w[j].now) \/ UNCHANGED heard)
  /\ UNCHANGED <<clock, due, alerts, marks, backed>>

\* mkstemp, fsync, replace: one step to a reader.
Save(j) ==
  /\ At(j, "save")
  /\ LET k == Head(w[j].todo)
         reason == w[j].says
         entry == IF reason = "ok" THEN None
                  ELSE [reason |-> reason, sent |-> w[j].now]
         state == [w[j].state EXCEPT ![k] = entry]
     IN /\ alerts' = state
        /\ w' = [w EXCEPT ![j] = [Popped(j, k, reason) EXCEPT !.state = state]]
  /\ UNCHANGED <<clock, due, lock, marks, heard, backed, budget>>

Finish(j) ==
  /\ At(j, "turn") /\ w[j].todo = <<>>
  /\ End(j, w[j].code)
  /\ UNCHANGED <<clock, due, alerts, marks, heard, backed, budget>>

-----------------------------------------------------------------------------
(* The environment *)

\* The unit's control group dies with the runner, a backup included.
Kill(j) ==
  /\ Running(j)
  /\ Spend("kills", MaxKills)
  /\ End(j, 137)
  /\ stuck' = (stuck \/ (j = "backup" /\ At(j, "execute")))
  /\ UNCHANGED <<clock, due, alerts, marker, heartbeat, heard, backed>>

\* The operator looks at a production lock that nobody holds.
Inspect ==
  /\ stuck /\ stuck' = FALSE
  /\ UNCHANGED <<clock, due, lock, alerts, marker, heartbeat, w, heard, backed,
                 budget>>

JobStep(j) ==
  \/ Fire(j) \/ Flock(j) \/ Read(j) \/ ExecuteCert(j) \/ TimeOut(j)
  \/ Turn(j) \/ Deliver(j) \/ Save(j) \/ Finish(j) \/ Kill(j)

Next ==
  \/ \E j \in Jobs : JobStep(j)
  \/ ExecuteBackup \/ JudgeBackup \/ JudgeCheck \/ JudgeRenewal
  \/ Tick \/ SetBack \/ Inspect

Spec == Init /\ [][Next]_vars

-----------------------------------------------------------------------------
(* Properties *)

\* An entry of alerts.json changes only in the run that reports its service:
\* no runner saves a state that another has changed since it was read
\* (scheduled-operations.py:174-177, 242-249).
OwnEntries ==
  \A k \in Keys :
    alerts[k] # alerts'[k] =>
      \E j \in Jobs : At(j, "save") /\ Head(w[j].todo) = k

\* A run that reports a problem by its exit code, and is not stopped, has
\* been accepted by the receiver, now or within the cooldown, for each
\* problem it found (scheduled-operations.py:117-129).
FailureTold ==
  \A j \in Jobs :
    At(j, "ended") /\ w[j].code \notin {70, 75, 137} =>
      \A x \in w[j].found :
        LET at == told[x[1]][x[2]]
        IN at # None /\ w[j].now - at < Cooldown

\* "A lying/stale wrapper exit0 must not refresh successful backup state"
\* (scheduled-operations.py:209): the service of the backup is only ever
\* reported well by a run in which a backup was completed.
WellMeansBackedUp ==
  \A j \in Jobs \cap {"backup"} :
    backed \/ ~( \/ At(j, "ended") /\ w[j].code = 0
                 \/ At(j, "save") /\ Head(w[j].todo) = j /\ w[j].says = "ok")

=============================================================================
