------------------------------- MODULE Retries -------------------------------
(***************************************************************************)
(* How long the browser waits before it sends again: withChunkRetry,       *)
(* withAdmissionRetry and completeUploadSession of                         *)
(* src/frontend/src/files/upload.ts, as UploadQueue calls them for a job   *)
(* with its RetryBudget, for a cancellation with one of its own, and for   *)
(* the replay of a completion that a cancellation finds; and the GET that  *)
(* looks the session up after Resume and after a failed cancellation,      *)
(* which is not withChunkRetry's and waits for nothing.                    *)
(*                                                                         *)
(* Times are what is left of them: Tick takes one unit off each, and a     *)
(* timer fires at zero or later.  What the requests do to the upload is    *)
(* UploadQueue's.                                                          *)
(***************************************************************************)
EXTENDS Integers

CONSTANTS
  Attempts,    \* MAX_CHUNK_ATTEMPTS
  MaxWait,     \* MAX_RETRY_WAIT_MS
  Window,      \* WAIT_BUDGET_MS
  Cancelling,  \* ten seconds for a cancellation
  Replaying,   \* five seconds for its replay
  MaxAsked     \* bound: the longest Retry-After

RetriesFit ==
  /\ Attempts \in Nat \ {0}
  /\ {MaxWait, Window, Cancelling, Replaying, MaxAsked} \subseteq Nat \ {0}

ASSUME RetriesAssumption == RetriesFit

VARIABLES
  st,       \* of the job: running, stopped, ending, cancelling, done
  stage,    \* the request the job is at
  call,     \* the lookup, or withChunkRetry: its point, attempt and timer
  budget,   \* the job's: time left to wait, and until notBefore
  own,      \* that of a cancellation or of its replay
  abort,    \* the signal is aborted
  till,     \* until the deadline of a cancellation or its replay
  barred,   \* what answers to the job, and to its cancellation, ask to wait yet
  waited    \* waits of the job's calls since the last Resume
            \* (barred and waited are history)

vars == <<st, stage, call, budget, own, abort, till, barred, waited>>

Stages == {"limits", "create", "chunk", "complete", "delete", "replay"}
Points == {"idle", "lookup",
           "entry", "backoff", "try", "sent", "receipt", "delay"}
CallAt(p) == [pc |-> p, n |-> 1, timer |-> 0]
NoCall == CallAt("idle")
Greater(a, b) == IF a >= b THEN a ELSE b
Less(a, b) == IF a <= b THEN a ELSE b
Longest == Greater(MaxAsked, 2 ^ Attempts + 1)
Fresh(left, before) == [left |-> left, before |-> before]

\* Budgets stay within what the user granted.
TypeOK ==
  /\ st \in {"running", "stopped", "ending", "cancelling", "done"}
  /\ stage \in Stages
  /\ call \in [pc: Points, n: 1..Attempts, timer: 0..Longest]
  /\ budget \in [left: 0..Window, before: 0..Longest]
  /\ own \in [left: 0..Greater(Cancelling, Replaying), before: 0..Longest]
  /\ abort \in BOOLEAN /\ till \in 0..Greater(Cancelling, Replaying)
  /\ barred \in [job: 0..Longest, own: 0..Longest] /\ waited \in Nat

Init ==
  /\ st = "running" /\ stage = "limits" /\ call = NoCall
  /\ budget = Fresh(Window, 0) /\ own = Fresh(0, 0)
  /\ abort = FALSE /\ till = 0 /\ waited = 0
  /\ barred = [job |-> 0, own |-> 0]

Limited == stage \in {"delete", "replay"}     \* it has a deadline
Signal == stage # "complete" /\ abort         \* complete is given no signal
Current == IF Limited THEN own ELSE budget
Keep(b) == IF Limited THEN own' = b /\ UNCHANGED budget
           ELSE budget' = b /\ UNCHANGED own

At(p) == call.pc = p
Goto(p) == call' = [call EXCEPT !.pc = p, !.timer = 0]

(***************************************************************************)
(* What a call returns to: run and finishCancellation                      *)
(***************************************************************************)
\* finishCancellation: a job that has a session deletes it.
StartCancel ==
  IF stage \in {"limits", "create"} THEN
    /\ st' = "done" /\ call' = NoCall
    /\ UNCHANGED <<stage, own, abort, till, barred>>
  ELSE
    /\ st' = "cancelling" /\ stage' = "delete" /\ abort' = FALSE
    /\ call' = CallAt("entry")
    /\ till' = Cancelling /\ own' = Fresh(Cancelling, 0)
    /\ barred' = [barred EXCEPT !.own = 0]

Follows == CASE stage = "limits" -> {"create"}
             [] stage = "create" -> {"chunk"}
             [] OTHER            -> {"chunk", "complete"}

\* The next request, unless the user paused or cancelled in the meantime.
Return ==
  /\ Keep([Current EXCEPT !.before = 0])
  /\ call' = NoCall
  /\ IF Limited \/ stage = "complete" THEN st' = "done" /\ UNCHANGED stage
     ELSE /\ stage' \in Follows
          /\ st' = IF st = "running" /\ abort THEN "stopped" ELSE st
  /\ UNCHANGED <<abort, till, barred, waited>>

\* A failure leaves the job to the user.  A cancellation that failed looks
\* whether the upload was completed after all, and then replays that: with
\* the job's notBefore, in a budget of its own.
Throw(left, bars) ==
  /\ IF stage = "delete" THEN
       /\ call' = CallAt("lookup") /\ stage' = "replay"
       /\ abort' = FALSE /\ till' = Replaying
       /\ own' = Fresh(Replaying, budget.before)
       /\ barred' = [bars EXCEPT !.own = 0]
       /\ UNCHANGED <<st, budget>>
     ELSE
       /\ call' = NoCall /\ st' = IF st = "ending" THEN st ELSE "stopped"
       /\ Keep(left) /\ barred' = bars /\ UNCHANGED <<stage, abort, till>>

(***************************************************************************)
(* withChunkRetry                                                          *)
(***************************************************************************)
Begin ==
  /\ At("idle") /\ st = "running" /\ ~Signal /\ Goto("entry")
  /\ UNCHANGED <<st, stage, budget, own, abort, till, barred, waited>>

Stay == UNCHANGED <<st, stage, budget, own, abort, till, barred>>

\* The wait an earlier answer asks for yet is not taken off the budget.
Enter ==
  /\ At("entry")
  /\ LET wait == Current.before IN
     \/ /\ wait > MaxWait \/ (wait > 0 /\ Signal)
        /\ Throw(Current, barred) /\ UNCHANGED waited
     \/ /\ wait \in 1..MaxWait /\ ~Signal /\ Stay
        /\ call' = [call EXCEPT !.pc = "backoff", !.timer = wait]
        /\ waited' = IF Limited THEN waited ELSE waited + wait
     \/ wait = 0 /\ Goto("try") /\ Stay /\ UNCHANGED waited

\* A timer fires, or the signal ends the wait.
\* Mutant: the signal clears the timer and nothing else.
WakeAs ==
  /\ call.pc \in {"backoff", "delay"} /\ UNCHANGED waited
  /\ call.timer = 0 /\ ~Signal /\ Goto("try") /\ Stay

Wake ==
  /\ call.pc \in {"backoff", "delay"} /\ UNCHANGED waited
  /\ \/ call.timer = 0 /\ ~Signal /\ Goto("try") /\ Stay
     \/ Signal /\ Throw(Current, barred)

Try ==
  /\ At("try") /\ UNCHANGED waited
  /\ IF Signal \/ (Limited /\ till = 0) THEN Throw(Current, barred)
     ELSE Goto("sent") /\ Stay

\* Answers; with those that may be tried again, the wait asked for, or none.
Outcomes == [is: {"ok", "refused"}, asks: {0}]
              \cup [is: {"lost", "busy", "limited"}, asks: 0..MaxAsked]

\* withAdmissionRetry: a create is sent again only when it was surely not
\* admitted; anything else is handed to the caller as a result.
Retryable(a) ==
  a.is \in {"busy", "limited"} \/ (a.is = "lost" /\ stage # "create")

\* Doubled with each attempt, with jitter for a 503; the server's wait if that
\* is longer.
Fallback(a) == 2 ^ (call.n - 1) + (IF a.is = "busy" THEN 1 ELSE 0)
Delay(a, base) == Greater(base, a.asks)

\* Mutant: only a wait that is granted is kept.
NoteAs(d, granted) == IF granted THEN Greater(Current.before, d)
                      ELSE Current.before
Note(d, granted) == Greater(Current.before, d)

Available == IF Limited THEN Less(Current.left, till) ELSE Current.left

\* Mutant: the time granted is not taken off.
SpendAs(left, d) == left
Spend(left, d) == left - d

\* An answer that allows another attempt.
Retry(a) ==
  \E base \in 2 ^ (call.n - 1) .. Fallback(a) :
    LET d == Delay(a, base)
        granted == /\ ~Signal /\ call.n < Attempts
                   /\ d <= MaxWait /\ d <= Available
        noted == [Current EXCEPT !.before = Note(d, granted)]
        bars == IF Limited THEN [barred EXCEPT !.own = Greater(@, a.asks)]
                ELSE [barred EXCEPT !.job = Greater(@, a.asks)]
    IN IF granted
       THEN /\ Keep([noted EXCEPT !.left = Spend(@, d)])
            /\ call' = [pc |-> "delay", n |-> call.n + 1, timer |-> d]
            /\ waited' = IF Limited THEN waited ELSE waited + d
            /\ barred' = bars
            /\ UNCHANGED <<st, stage, abort, till>>
       ELSE Throw(noted, bars) /\ UNCHANGED waited

\* completeUploadSession reads the receipt of a completion that failed, and
\* throws what failed whatever it read: the wait is the completion's.
Answer ==
  /\ At("sent")
  /\ \E a \in Outcomes :
       \/ a.is = "ok" /\ Return
       \/ /\ a.is # "ok" /\ ~Retryable(a) /\ UNCHANGED waited
          /\ Throw(IF stage = "create" THEN [Current EXCEPT !.before = 0]
                   ELSE Current, barred)
       \/ Retryable(a) /\ stage \notin {"complete", "replay"} /\ Retry(a)
       \/ /\ Retryable(a) /\ stage \in {"complete", "replay"}
          /\ Goto("receipt") /\ Stay /\ UNCHANGED waited

Receipt == At("receipt") /\ \E a \in Outcomes : Retryable(a) /\ Retry(a)

(***************************************************************************)
(* reconcile                                                               *)
(***************************************************************************)
\* A completed session has its completion sent again; an open one goes on
\* from its chunks, unless the user paused or cancelled in the meantime; and
\* one that cannot be had is a failure.
Found ==
  \/ /\ call' = CallAt("entry")
     /\ stage' = IF Limited THEN stage ELSE "complete"
     /\ UNCHANGED st
  \/ /\ ~Limited /\ call' = NoCall /\ stage' \in {"chunk", "complete"}
     /\ st' = IF st = "running" /\ abort THEN "stopped" ELSE st
  \/ /\ call' = NoCall /\ st' = IF st = "ending" THEN st ELSE "stopped"
     /\ UNCHANGED stage

Looked ==
  /\ At("lookup") /\ Found
  /\ UNCHANGED <<budget, own, abort, till, barred, waited>>

(***************************************************************************)
(* Cancellation                                                            *)
(***************************************************************************)
\* The end of a run that was cancelled.
Finish ==
  /\ st = "ending" /\ At("idle") /\ StartCancel
  /\ UNCHANGED <<budget, waited>>

Expire ==
  /\ st = "cancelling" /\ Limited /\ till = 0 /\ ~abort /\ UNCHANGED waited
  /\ IF stage = "delete" \/ call.pc \in {"lookup", "sent", "receipt"}
     THEN Throw(Current, barred)
     ELSE abort' = TRUE
            /\ UNCHANGED <<st, stage, call, budget, own, till, barred>>

(***************************************************************************)
(* The user, the page and time                                             *)
(***************************************************************************)
Pause ==
  /\ st = "running" /\ (stage # "complete" \/ At("lookup")) /\ ~abort
  /\ abort' = TRUE /\ st' = IF At("idle") THEN "stopped" ELSE st
  /\ UNCHANGED <<stage, call, budget, own, till, barred, waited>>

\* Another window, with the old notBefore.  A session is looked up first.
Resume ==
  /\ st = "stopped" /\ ~Limited
  /\ st' = "running" /\ abort' = FALSE
  /\ call' = CallAt(IF stage \in {"limits", "create"} THEN "idle"
                    ELSE "lookup")
  /\ budget' = [budget EXCEPT !.left = Window] /\ waited' = 0
  /\ UNCHANGED <<stage, own, till, barred>>

\* Also Resume, for a job whose cancellation failed.
Cancel ==
  /\ UNCHANGED <<budget, waited>>
  /\ \/ /\ st \in {"running", "stopped"} /\ At("idle") /\ StartCancel
     \/ /\ st = "running" /\ ~At("idle")
        /\ st' = "ending" /\ abort' = TRUE
        /\ UNCHANGED <<stage, call, own, till, barred>>

\* The page is loaded again; publish saved the session, with notBefore
\* and a cancellation not yet confirmed.
Reload ==
  /\ st # "done" /\ stage \notin {"limits", "create"}
  /\ st' = "stopped" /\ call' = NoCall /\ abort' = FALSE
  /\ budget' = [budget EXCEPT !.left = Window] /\ waited' = 0
  /\ stage' = IF st \in {"ending", "cancelling"} THEN "delete" ELSE stage
  /\ UNCHANGED <<own, till, barred>>

Down(n) == IF n > 0 THEN n - 1 ELSE 0
Tick ==
  /\ call' = [call EXCEPT !.timer = Down(@)]
  /\ budget' = [budget EXCEPT !.before = Down(@)]
  /\ own' = [own EXCEPT !.before = Down(@)]
  /\ till' = Down(till)
  /\ barred' = [job |-> Down(barred.job), own |-> Down(barred.own)]
  /\ UNCHANGED <<st, stage, abort, waited>>

Own == Begin \/ Enter \/ Wake \/ Try \/ Finish \/ Expire
Answered == Answer \/ Receipt \/ Looked
Next == \/ Own \/ Answered
        \/ Pause \/ Resume \/ Cancel \/ Reload \/ Tick

Spec == Init /\ [][Next]_vars

\* Time passes, timers fire, a request has a timeout.  The user need do
\* nothing.
FairSpec ==
  Spec /\ WF_vars(Tick) /\ WF_vars(Own) /\ WF_vars(Answered)

\* A server that never answers: the cancellation has a timer.
TimedSpec == Spec /\ WF_vars(Tick) /\ WF_vars(Own)

(***************************************************************************)
(* Properties                                                              *)
(***************************************************************************)
\* No request of the retry loop, the first of a call or another, is sent
\* before the time an answer asked to wait for: whether the answer came while
\* a pause was waited for, whether the wait was interrupted, and across Resume
\* and a reload of the page.  (A cancellation goes by the answers it got
\* itself; its replay by the job's, too.  Only reads of the session wait for
\* nothing: the receipt of a completion that failed, and the lookup.)
NeverEarly ==
  [][ ~At("sent") /\ call'.pc = "sent" =>
        /\ Limited => barred.own = 0
        /\ stage # "delete" => barred.job = 0 ]_vars

\* Between two acts of the user no more is waited, over all requests of the
\* upload, than one window and the one wait that an answer from before Resume
\* or the reload asks for yet, which is at most MaxWait and no window pays for.
\* (A cancellation and its replay have budgets, and deadlines, of their own.)
WindowKept == waited <= Window + MaxWait

\* A call ends.
CallEnds == call.pc # "idle" ~> call.pc = "idle"

\* A cancellation comes to an end, though the server never answers.
CancelEnds == st = "cancelling" ~> st # "cancelling"
==============================================================================
