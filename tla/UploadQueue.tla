----------------------------- MODULE UploadQueue -----------------------------
(***************************************************************************)
(* The browser's side of a resumable upload: UploadQueue                   *)
(* (src/frontend/src/files/uploadQueue.ts) with the retries of upload.ts.  *)
(*                                                                         *)
(* A job is created, runs until it is done, paused, failed or cancelled,   *)
(* and survives a reload of the page without its file.  The user may press *)
(* any button between two awaits.  A request is sent, served and answered  *)
(* in separate steps; it can be lost before or after it was served, and a  *)
(* request the client has given up on can still be served.                 *)
(*                                                                         *)
(* The server is external here (LegacyUpload and SsdFinalization model     *)
(* it): sessions, chunks accepted by digest, an idempotent completion.     *)
(***************************************************************************)
EXTENDS Integers, FiniteSets

CONSTANTS MaxJobs, MaxSessions, \* bounds
          Chunks,               \* 1..n
          Files,     \* files of one name, size and sampled fingerprint
          Body,      \* Body[f][i]: the bytes of chunk i of file f
          None,      \* no file
          Whole,     \* the server wants expectedSha256 (SSD mode)
          Concurrent,\* CONCURRENT_FILES
          Attempts,  \* MAX_CHUNK_ATTEMPTS
          MaxStray,  \* bound: given up requests still on their way
          Reloads    \* bound: reloads of the page

VARIABLES
  job,       \* the jobs of the queue
  disposed,  \* unmounted
  out,       \* the request each caller waits for
  stray,     \* requests nobody waits for any more
  sess,      \* the server's sessions
  wish,      \* jobs the user asked to cancel
  reloads

vars == <<job, disposed, out, stray, sess, wish, reloads>>

Jobs     == 1..MaxJobs
Sessions == 1..MaxSessions
Run(j)    == <<j, "run">>
Cancel(j) == <<j, "cancel">>
List      == <<0, "list">>
Callers   == {Run(j) : j \in Jobs} \cup {Cancel(j) : j \in Jobs} \cup {List}

Blank == [i \in Chunks |-> 0]
NoSession == [st |-> "none", chunk |-> Blank, want |-> None, by |-> 0,
              acked |-> FALSE]
NoReq == [kind |-> "none"]

States == {"free", "selected", "queued", "preparing", "hashing", "uploading",
           "pausing", "paused", "retrying", "completing", "completed",
           "error", "cancelling", "cancelled", "needs-file"}
Labels == {"idle", "begin", "prep", "hash", "create", "get", "replay",
           "verify", "send", "wait", "finish"}

\* cur is the file run() took, file the job's; hashed says hashVerifiedFile is
\* cur; pick is a reselected file whose fingerprint is being read; cpc is
\* where finishCancellation is, fin whether the end of a run began it.
Job == [st: States, pc: Labels, file: Files \cup {None},
        cur: Files \cup {None}, want: Files \cup {None}, hashed: BOOLEAN,
        pick: Files \cup {None}, up: 0..MaxSessions, seen: [Chunks -> Int],
        verify: BOOLEAN, pause: BOOLEAN, cancel: BOOLEAN, uncertain: BOOLEAN,
        tries: 1..Attempts, cpc: {"none", "delete", "get", "replay"},
        fin: BOOLEAN]
FreeJob ==
  [st |-> "free", pc |-> "idle", file |-> None, cur |-> None, want |-> None,
   hashed |-> FALSE, pick |-> None, up |-> 0, seen |-> Blank,
   verify |-> FALSE, pause |-> FALSE, cancel |-> FALSE, uncertain |-> FALSE,
   tries |-> 1, cpc |-> "none", fin |-> FALSE]

Busy(js) == {j \in Jobs : js[j].pc # "idle"}

\* The values the state can have; no more jobs run than may.
TypeOK ==
  /\ job \in [Jobs -> Job] /\ Cardinality(Busy(job)) <= Concurrent
  /\ DOMAIN out = Callers /\ Cardinality(stray) <= MaxStray
  /\ \A s \in Sessions : sess[s].st \in {"none", "pending", "completed",
                                         "aborted"}
  /\ disposed \in BOOLEAN /\ wish \subseteq Jobs /\ reloads \in 0..Reloads

Init ==
  /\ job = [j \in Jobs |-> FreeJob] /\ disposed = FALSE
  /\ out = [c \in Callers |-> NoReq] /\ stray = {}
  /\ sess = [s \in Sessions |-> NoSession]
  /\ wish = {} /\ reloads = 0

-----------------------------------------------------------------------------
(* The server, external to this module *)

Ask(kind, j, s, i, f) ==
  [kind |-> kind, by |-> j, s |-> s, i |-> i, f |-> f, st |-> "sent",
   ans |-> "none", id |-> 0, read |-> NoSession, list |-> {}]

Open == {s \in Sessions : sess[s].st = "pending"}
Unused == {s \in Sessions : sess[s] = NoSession}

\* A session takes chunks that fit, and completes once it has them all.
Fits(r, q) == r.st = "pending" /\ r.chunk[q.i] \in {0, Body[q.f][q.i]}
Ready(r) ==
  r.st = "pending" /\ (\A i \in Chunks : r.chunk[i] # 0)
    /\ (r.want = None \/ r.chunk = Body[r.want])

\* What comes of a request: its answer, and the session it changes to.
Outcomes(q) ==
  LET r == IF q.s = 0 THEN NoSession ELSE sess[q.s]
      Says(a) == {[q |-> [q EXCEPT !.st = "answered", !.ans = a], r |-> r]}
      Does(n) == {[q |-> [q EXCEPT !.st = "answered", !.ans = "ok"],
                   r |-> n]}
  IN CASE q.kind = "create" ->
            Says("busy") \cup Says("refused") \cup
              {[q |-> [q EXCEPT !.st = "answered", !.ans = "ok", !.id = s],
                r |-> [NoSession EXCEPT !.st = "pending", !.want = q.f,
                                        !.by = q.by]] :
                 s \in {s \in Unused : \A t \in Unused : s <= t}}
       [] q.kind = "chunk" -> Says("busy") \cup
            IF Fits(r, q) THEN Does([r EXCEPT !.chunk[q.i] = Body[q.f][q.i]])
            ELSE Says("refused")
       [] q.kind = "complete" -> Says("busy") \cup
            IF r.st = "completed" THEN Does(r)
            ELSE IF Ready(r) THEN Does([r EXCEPT !.st = "completed"])
            ELSE Says("refused")
       [] q.kind = "delete" -> Says("busy") \cup
            IF r.st = "completed" THEN Says("refused")
            ELSE Does([r EXCEPT !.st = "aborted", !.chunk = Blank])
       [] q.kind = "get" ->
            {[q |-> [q EXCEPT !.st = "answered", !.ans = "ok", !.read = r],
              r |-> r]}
       [] q.kind = "list" ->
            {[q |-> [q EXCEPT !.st = "answered", !.ans = "ok",
                              !.list = Open], r |-> r]}

Target(q) == IF q.kind = "create" THEN q.id ELSE q.s
Change(o) ==
  sess' = IF Target(o.q) = 0 THEN sess
          ELSE [sess EXCEPT ![Target(o.q)] = o.r]

Serve(c) ==
  /\ out[c] # NoReq /\ out[c].st = "sent"
  /\ \E o \in Outcomes(out[c]) : Change(o) /\ out' = [out EXCEPT ![c] = o.q]
  /\ UNCHANGED <<job, disposed, stray, wish, reloads>>

ServeStray(q) ==
  /\ q \in stray /\ stray' = stray \ {q}
  /\ \E o \in Outcomes(q) : Change(o)
  /\ UNCHANGED <<job, disposed, out, wish, reloads>>

\* A session's lifetime ends.
Expire(s) ==
  /\ sess[s].st = "pending"
  /\ sess' = [sess EXCEPT ![s].st = "aborted", ![s].chunk = Blank]
  /\ UNCHANGED <<job, disposed, out, stray, wish, reloads>>

\* The caller goes on: with the answer, or without one ("lost": a network
\* error or a timeout).  A request not served yet may be served later.
Got(c, a) ==
  /\ out[c] # NoReq
  /\ a = "lost" \/ (out[c].st = "answered" /\ a = out[c].ans)
Left(c, a) ==
  IF a = "lost" /\ out[c].st = "sent" /\ Cardinality(stray) < MaxStray
     /\ out[c].kind \notin {"get", "list"}
  THEN stray' \in {stray, stray \cup {out[c]}}
  ELSE UNCHANGED stray

-----------------------------------------------------------------------------
(* UploadQueue *)

Terminal(r) == r.st \in {"completed", "cancelled"}
Stopped(r)  == r.pause \/ r.cancel \/ disposed
Retry(a)    == a \in {"lost", "busy"}

\* pump(): queued jobs start, in the order of the map, while there is room.
Startable(js, j) ==
  ~disposed /\ js[j].st = "queued" /\ js[j].pc = "idle" /\ js[j].file # None
Ahead(js, j) == Busy(js) \cup {k \in Jobs : k < j /\ Startable(js, k)}
Pumped(js) ==
  [j \in Jobs |->
     IF Startable(js, j) /\ Cardinality(Ahead(js, j)) < Concurrent
     THEN [js[j] EXCEPT !.pc = "begin", !.st = "preparing",
                        !.cur = js[j].file, !.hashed = FALSE]
     ELSE js[j]]

CancelledJob(r) ==
  [r EXCEPT !.st = "cancelled", !.file = None, !.cancel = FALSE,
            !.cpc = "none", !.fin = FALSE]

\* A cancellation without a session is done at once, else it sends DELETE.
GivenUp(j, r, fin, o) ==
  IF r.up = 0
  THEN /\ job' = IF fin THEN Pumped([job EXCEPT ![j] = CancelledJob(r)])
                 ELSE [job EXCEPT ![j] = CancelledJob(r)]
       /\ out' = o
  ELSE /\ job' = [job EXCEPT ![j] = [r EXCEPT !.cpc = "delete", !.fin = fin]]
       /\ out' = [o EXCEPT ![Cancel(j)] = Ask("delete", j, r.up, 0, None)]

\* The run is over: finally.  look: its catch starts discovery.
Settle(j, q, look) ==
  LET r == [q EXCEPT !.pc = "idle", !.cur = None, !.tries = 1,
                     !.hashed = FALSE]
      o == [out EXCEPT ![Run(j)] = NoReq,
              ![List] = IF look /\ @ = NoReq THEN Ask("list", 0, 0, 0, None)
                        ELSE @]
  IN IF r.cancel /\ r.st # "completed" THEN GivenUp(j, r, TRUE, o)
     ELSE job' = Pumped([job EXCEPT ![j] = r]) /\ out' = o

Rest(r) == IF r.file # None THEN "paused" ELSE "needs-file"

\* stopped(): the state of a job that was paused or cancelled.
Halted(r) == [r EXCEPT !.st = IF r.cancel THEN "cancelling" ELSE Rest(r)]

\* if (this.stopped(job)) return
Halt(j, r) == Settle(j, Halted(r), FALSE)

\* The catch of run().
Caught(r) ==
  [r EXCEPT !.verify = r.up # 0,
            !.st = IF r.cancel THEN @
                   ELSE IF r.pause \/ disposed THEN Rest(r)
                   ELSE IF r.file # None THEN "error" ELSE "needs-file"]
Fail(j, r) == Settle(j, Caught(r), r.uncertain /\ ~disposed)

\* Sends the next request of a run.
Send(j, r, l, q) ==
  /\ job' = [job EXCEPT ![j] = [r EXCEPT !.pc = l]]
  /\ out' = [out EXCEPT ![Run(j)] = q]
Wait(j, r, l) ==
  /\ job' = [job EXCEPT ![j] = [r EXCEPT !.pc = l]]
  /\ out' = [out EXCEPT ![Run(j)] = NoReq]

Missing(r) == {i \in Chunks : r.seen[i] = 0}
FirstOf(S) == CHOOSE i \in S : \A k \in S : i <= k

\* The loop over the chunks, and the completion after it.
Continue(j, r) ==
  IF Stopped(r) THEN Halt(j, r)
  ELSE IF Missing(r) # {}
  THEN Send(j, [r EXCEPT !.st = "uploading"], "send",
            Ask("chunk", j, r.up, FirstOf(Missing(r)), r.cur))
  ELSE Send(j, [r EXCEPT !.st = "completing", !.tries = 1], "finish",
            Ask("complete", j, r.up, 0, None))

Elsewhere == UNCHANGED <<disposed, sess, wish, reloads>>
At(j, l) == job[j].pc = l

\* A new job looks at limits and fingerprint, one with a session reads it.
Begin(j) ==
  /\ At(j, "begin") /\ UNCHANGED stray /\ Elsewhere
  /\ LET r == job[j] IN
     IF r.up = 0 THEN Wait(j, r, "prep")
     ELSE IF Stopped(r) THEN Halt(j, r)
     ELSE Send(j, r, "get", Ask("get", j, r.up, 0, None))

Create(j, r) ==
  Send(j, [r EXCEPT !.uncertain = TRUE], "create",
       Ask("create", j, 0, 0, r.want))

\* The limits are there, or they refuse the file.
Prepared(j) ==
  /\ At(j, "prep") /\ UNCHANGED stray /\ Elsewhere
  /\ LET r == job[j] IN
     \/ Stopped(r) /\ Halt(j, r)
     \/ ~Stopped(r) /\ Whole /\ Wait(j, [r EXCEPT !.st = "hashing"], "hash")
     \/ ~Stopped(r) /\ ~Whole /\ Create(j, r)
     \/ Fail(j, r)

\* The digest agrees with the one already known.
SameWhole(r) == r.want \in {None, r.file}

\* A pause or a cancellation interrupts it.  hashWholeFile digests the job's
\* file, not the run's.
Hashed(j) ==
  /\ At(j, "hash") /\ UNCHANGED stray /\ Elsewhere
  /\ LET r == job[j]
         k == [r EXCEPT !.want = r.file, !.hashed = r.file = r.cur]
     IN IF r.file = None \/ Stopped(r) THEN Fail(j, r)
        ELSE IF ~SameWhole(r) THEN Fail(j, [r EXCEPT !.file = None])
        ELSE IF r.up = 0 THEN Create(j, k)
        ELSE Wait(j, k, "verify")

\* The answer to the creation.  Only a definite refusal is certain.
Created(j, a) ==
  /\ At(j, "create") /\ Got(Run(j), a) /\ Left(Run(j), a)
  /\ UNCHANGED <<disposed, wish, reloads>>
  /\ LET r == job[j]
         sure == [r EXCEPT !.uncertain = FALSE]
         s == out[Run(j)].id
     IN /\ sess' = IF a = "ok" THEN [sess EXCEPT ![s].acked = TRUE] ELSE sess
        /\ CASE a = "ok" ->
                  LET k == [sure EXCEPT !.up = s, !.seen = Blank,
                                        !.tries = 1]
                  IN IF r.verify /\ ~Stopped(r)
                     THEN Send(j, k, "get", Ask("get", j, s, 0, None))
                     ELSE Continue(j, k)
             [] a = "busy" /\ r.tries < Attempts /\ ~Stopped(r) ->
                  Create(j, [sure EXCEPT !.tries = @ + 1, !.st = "retrying"])
             [] a = "lost" -> Fail(j, r)
             [] OTHER -> Fail(j, sure)

\* reconcile(): the session as the server had it when it answered.
Reconciled(j, a) ==
  /\ At(j, "get") /\ Got(Run(j), a) /\ Left(Run(j), a) /\ Elsewhere
  /\ LET r == job[j]
         s == out[Run(j)].read
         k == [r EXCEPT !.seen = s.chunk]
     IN IF a = "lost" \/ s.st = "aborted" THEN Fail(j, r)
        ELSE IF s.st = "completed"
        THEN Send(j, [r EXCEPT !.st = "completing"], "replay",
                  Ask("complete", j, r.up, 0, None))
        ELSE IF Stopped(r) THEN Halt(j, k)
        ELSE IF r.want # None /\ ~r.hashed
        THEN Wait(j, [k EXCEPT !.st = "hashing"], "hash")
        ELSE IF r.verify THEN Wait(j, k, "verify")
        ELSE Continue(j, k)

Done(r) ==
  [r EXCEPT !.st = "completed", !.file = None, !.cancel = FALSE]

\* Its completion is asked for again, so that the server ends its cleanup;
\* the end of the upload itself is awaited in the same way.  Neither is
\* interrupted by a pause or a cancellation.
Completed(j, a) ==
  /\ job[j].pc \in {"replay", "finish"} /\ Got(Run(j), a) /\ Left(Run(j), a)
  /\ Elsewhere
  /\ LET r == job[j] IN
     IF a = "ok" THEN Settle(j, Done(r), FALSE)
     ELSE IF Retry(a) /\ r.tries < Attempts
     THEN Send(j, [r EXCEPT !.tries = @ + 1, !.st = "completing"], r.pc,
               Ask("complete", j, r.up, 0, None))
     ELSE Fail(j, r)

\* Mutant: the chunks the server has are believed.
MatchesAs(r) == TRUE

\* The digests of the chunks the server has are those of the file.
Matches(r) == \A i \in Chunks : r.seen[i] \in {0, Body[r.cur][i]}

Verified(j) ==
  /\ At(j, "verify") /\ UNCHANGED stray /\ Elsewhere
  /\ LET r == job[j] IN
     IF Stopped(r) THEN Halt(j, r)
     ELSE IF Matches(r) THEN Continue(j, [r EXCEPT !.verify = FALSE])
     ELSE Fail(j, [r EXCEPT !.file = None])

Sent(j, a) ==
  /\ At(j, "send") /\ Got(Run(j), a) /\ Left(Run(j), a) /\ Elsewhere
  /\ LET r == job[j]
         i == out[Run(j)].i
     IN CASE a = "ok" ->
               Continue(j, [r EXCEPT !.seen[i] = Body[r.cur][i],
                                     !.tries = 1])
          [] Retry(a) /\ r.tries < Attempts /\ ~Stopped(r) ->
               Wait(j, [r EXCEPT !.tries = @ + 1, !.st = "retrying"], "wait")
          [] OTHER -> Fail(j, r)

\* The backoff ends; a pause or a cancellation interrupts it.
Backoff(j) ==
  /\ At(j, "wait") /\ UNCHANGED stray /\ Elsewhere
  /\ IF Stopped(job[j]) THEN Fail(j, job[j])
     ELSE Send(j, [job[j] EXCEPT !.st = "uploading"], "send",
               Ask("chunk", j, job[j].up, FirstOf(Missing(job[j])),
                   job[j].cur))

\* finishCancellation is over; the queue goes on if the end of a run waited.
Uncancel(j, r) ==
  LET e == [r EXCEPT !.cpc = "none", !.fin = FALSE, !.tries = 1]
  IN /\ job' = IF r.fin THEN Pumped([job EXCEPT ![j] = e])
               ELSE [job EXCEPT ![j] = e]
     /\ out' = [out EXCEPT ![Cancel(j)] = NoReq]

Unconfirmed(r) == [r EXCEPT !.st = "error", !.cancel = TRUE]

\* Mutant: any answer to the DELETE confirms the cancellation.
ConfirmedAs(a) == a # "lost"

\* Only a success confirms it.
Confirmed(a) == a = "ok"

\* The next request of a cancellation, after one that failed for now too.
Again(j, l, kind, n) ==
  /\ job' = [job EXCEPT ![j].cpc = l, ![j].tries = n,
               ![j].st = IF l = "replay" THEN "completing" ELSE @]
  /\ out' = [out EXCEPT ![Cancel(j)] = Ask(kind, j, job[j].up, 0, None)]
Patient(j, a) == Retry(a) /\ job[j].tries < Attempts

Answered(j, l, a) ==
  job[j].cpc = l /\ Got(Cancel(j), a) /\ Left(Cancel(j), a) /\ Elsewhere

\* The DELETE fails: perhaps the file was stored, so the session is read.
Deleted(j, a) ==
  /\ Answered(j, "delete", a)
  /\ CASE Confirmed(a) ->
            Uncancel(j, [CancelledJob(job[j]) EXCEPT !.fin = job[j].fin])
       [] ~Confirmed(a) /\ Patient(j, a) ->
            Again(j, "delete", "delete", job[j].tries + 1)
       [] OTHER -> Again(j, "get", "get", 1)

CancelRead(j, a) ==
  /\ Answered(j, "get", a)
  /\ IF a # "lost" /\ out[Cancel(j)].read.st = "completed"
     THEN Again(j, "replay", "complete", 1)
     ELSE Uncancel(j, Unconfirmed(job[j]))

CancelReplayed(j, a) ==
  /\ Answered(j, "replay", a)
  /\ CASE a = "ok" -> Uncancel(j, Done(job[j]))
       [] Patient(j, a) ->
            Again(j, "replay", "complete", job[j].tries + 1)
       [] OTHER -> Uncancel(j, Unconfirmed(job[j]))

-----------------------------------------------------------------------------
(* The user and the page *)

User == UNCHANGED <<disposed, stray, sess, reloads>>
Free == {j \in Jobs : job[j].st = "free"}

\* Files are added, to be started now or with startAll.
Enqueue(j, f, st) ==
  /\ ~disposed /\ j \in Free /\ (\A k \in Free : j <= k) /\ User
  /\ job' = Pumped([job EXCEPT ![j] = [FreeJob EXCEPT !.st = st,
                                                      !.file = f]])
  /\ UNCHANGED <<out, wish>>

StartAll ==
  /\ ~disposed /\ User /\ UNCHANGED <<out, wish>>
  /\ \E j \in Jobs : job[j].st = "selected"
  /\ job' = Pumped([j \in Jobs |-> IF job[j].st = "selected"
                                   THEN [job[j] EXCEPT !.st = "queued"]
                                   ELSE job[j]])

Pause(j) ==
  /\ job[j].st # "free" /\ ~Terminal(job[j]) /\ ~job[j].cancel
  /\ job[j].st # "completing"
  /\ job' = [job EXCEPT ![j].pause = TRUE,
               ![j].st = IF job[j].pc # "idle" THEN "pausing" ELSE "paused"]
  /\ User /\ UNCHANGED <<out, wish>>

\* A job may be created only if no earlier attempt may have been.
Safe(r) == ~r.uncertain

\* cancel() of a job that does not run goes to work at once.
CancelNow(j) ==
  IF job[j].pc # "idle"
  THEN /\ job' = [job EXCEPT ![j].cancel = TRUE, ![j].pause = FALSE,
                             ![j].st = "cancelling"]
       /\ UNCHANGED out
  ELSE GivenUp(j, [job[j] EXCEPT !.cancel = TRUE, !.pause = FALSE,
                                    !.st = "cancelling"], FALSE, out)

\* resume(): what was asked for before goes first.
Resuming(js, j) ==
  LET r == js[j] IN
  IF ~Safe(r)
  THEN /\ job' = js
       /\ out' = [out EXCEPT ![List] = IF @ = NoReq
                                       THEN Ask("list", 0, 0, 0, None)
                                       ELSE @]
  ELSE /\ UNCHANGED out
       /\ job' = IF r.file = None
                 THEN [js EXCEPT ![j].st = "needs-file"]
                 ELSE Pumped([js EXCEPT ![j].pause = FALSE,
                                ![j].st = "queued", ![j].verify = r.up # 0])

Resume(j) ==
  /\ ~disposed /\ job[j].st # "free" /\ ~Terminal(job[j]) /\ User
  /\ job[j].pc = "idle" /\ UNCHANGED wish
  /\ IF job[j].cancel THEN job[j].cpc = "none" /\ CancelNow(j)
     ELSE Resuming(job, j)

AskCancel(j) ==
  /\ ~disposed /\ job[j].st # "free" /\ ~Terminal(job[j])
  /\ job[j].cpc = "none" /\ User
  /\ wish' = wish \cup {j} /\ CancelNow(j)

\* reselect(): the fingerprint of the file is read, then the job looked at
\* again; whether it runs is not.
Reselect(j, f) ==
  /\ ~disposed /\ job[j].st # "free" /\ ~Terminal(job[j])
  /\ job[j].pc = "idle" /\ ~job[j].cancel /\ job[j].pick = None
  /\ job' = [job EXCEPT ![j].pick = f] /\ User /\ UNCHANGED <<out, wish>>

Reselected(j) ==
  LET js == [job EXCEPT ![j].pick = None, ![j].file = job[j].pick,
                        ![j].verify = TRUE]
      r == job[j]
  IN /\ r.pick # None /\ User /\ UNCHANGED wish
     /\ IF disposed \/ r.cancel \/ Terminal(r)
        THEN job' = [job EXCEPT ![j].pick = None] /\ UNCHANGED out
        ELSE IF r.pc # "idle" THEN job' = js /\ UNCHANGED out
        ELSE Resuming(js, j)

\* What publish() saved of a job, as restore() reads it after a reload.
Restored(r) ==
  [FreeJob EXCEPT !.st = IF r.cancel THEN "error" ELSE "needs-file",
                  !.want = r.want, !.up = r.up, !.verify = TRUE,
                  !.pause = TRUE, !.cancel = r.cancel]

\* Jobs with a session are saved, until they are completed or cancelled.
Saved(r) == r.up # 0 /\ ~Terminal(r)

\* The page is closed and opened: requests on their way may still be served.
Reload ==
  /\ reloads < Reloads /\ reloads' = reloads + 1
  /\ job' = [j \in Jobs |->
       IF Saved(job[j]) THEN Restored(job[j])
       ELSE IF job[j].st = "free" THEN job[j]
       ELSE IF Terminal(job[j]) THEN job[j]
       ELSE [FreeJob EXCEPT !.st = "cancelled"]]
  /\ \E S \in SUBSET {out[c] : c \in {c \in Callers \ {List} :
                 out[c] # NoReq /\ out[c].st = "sent"}} :
       /\ Cardinality(stray \cup S) <= MaxStray /\ stray' = stray \cup S
  /\ out' = [c \in Callers |-> NoReq]
  /\ disposed' = FALSE /\ UNCHANGED <<sess, wish>>

\* dispose(): logout or unmount; nothing is cancelled.
Dispose ==
  /\ ~disposed /\ disposed' = TRUE
  /\ job' = [j \in Jobs |->
       IF job[j].st = "free" \/ Terminal(job[j]) \/ job[j].cancel
       THEN job[j]
       ELSE [job[j] EXCEPT !.pause = TRUE,
               !.st = IF job[j].pc # "idle" THEN "pausing" ELSE "paused"]]
  /\ UNCHANGED <<out, stray, sess, wish, reloads>>

\* discover(): the page is mounted again, or the user looks.
Discover ==
  /\ disposed \/ out[List] = NoReq
  /\ disposed' = FALSE
  /\ out' = [out EXCEPT ![List] = IF @ = NoReq
                                  THEN Ask("list", 0, 0, 0, None) ELSE @]
  /\ UNCHANGED <<job, stray, sess, wish, reloads>>

Known == {job[j].up : j \in Jobs}

\* Sessions no job knows become jobs that need a file.
Discovered(a) ==
  /\ Got(List, a) /\ out' = [out EXCEPT ![List] = NoReq] /\ UNCHANGED stray
  /\ LET new == IF a = "lost" \/ disposed THEN {}
                ELSE out[List].list \ Known
     IN /\ Cardinality(new) <= Cardinality(Free)
        /\ \E S \in SUBSET Free :
             /\ Cardinality(S) = Cardinality(new)
             /\ \A j \in S, k \in Free \ S : j < k
             /\ \E b \in [S -> new] :
                  /\ \A j, k \in S : j < k => b[j] < b[k]
                  /\ job' = [j \in Jobs |->
                       IF j \in S THEN [Restored(FreeJob) EXCEPT !.up = b[j]]
                       ELSE job[j]]
  /\ UNCHANGED <<disposed, sess, wish, reloads>>

Runs(j) ==
  \/ Begin(j) \/ Prepared(j) \/ Hashed(j) \/ Verified(j) \/ Backoff(j)
  \/ \E a \in {"ok", "busy", "refused", "lost"} :
       Created(j, a) \/ Reconciled(j, a) \/ Completed(j, a) \/ Sent(j, a)
Cancels(j) ==
  \E a \in {"ok", "busy", "refused", "lost"} :
    Deleted(j, a) \/ CancelRead(j, a) \/ CancelReplayed(j, a)

Next ==
  \/ \E c \in Callers : Serve(c)
  \/ \E q \in stray : ServeStray(q)
  \/ \E s \in Sessions : Expire(s)
  \/ \E j \in Jobs : Runs(j) \/ Cancels(j)
  \/ \E j \in Jobs : Pause(j) \/ Resume(j) \/ AskCancel(j) \/ Reselected(j)
  \/ \E j \in Jobs, f \in Files :
       Reselect(j, f) \/ (\E st \in {"queued", "selected"} :
                            Enqueue(j, f, st))
  \/ \E a \in {"ok", "lost"} : Discovered(a)
  \/ StartAll \/ Reload \/ Dispose \/ Discover

Spec == Init /\ [][Next]_vars

-----------------------------------------------------------------------------
\* A job makes one session at most: a creation whose answer was lost is never
\* repeated, and a stray one finds no second.
OneSession ==
  \A s, t \in Sessions :
    sess[s].by = sess[t].by /\ sess[s].by # 0 => s = t

\* A completed row is a stored file, a cancelled one is not.
Truthful ==
  \A j \in Jobs :
    /\ job[j].st = "completed" => sess[job[j].up].st = "completed"
    /\ job[j].st = "cancelled" /\ job[j].up # 0 =>
         sess[job[j].up].st = "aborted"

\* What an upload that ends successfully has stored is the file it read,
\* whatever was committed before it by another one of that name and size.
StoresItsFile ==
  \A j \in Jobs : At(j, "finish") /\ job'[j].st = "completed" =>
    sess[job[j].up].chunk = Body[job[j].cur]

\* No chunk of a job is sent after its cancellation was asked for, not even
\* after a reload.
CancelledSendsNothing ==
  \A j \in wish :
    LET q == out'[Run(j)] IN
    q # NoReq /\ q.kind = "chunk" =>
      \/ q = out[Run(j)]
      \/ [q EXCEPT !.st = "sent", !.ans = "none"] = out[Run(j)]

\* A session the queue was told of stays in its list while it is open, so
\* that the user can end it.
Remembered ==
  \A s \in Sessions : sess[s].st = "pending" /\ sess[s].acked =>
    \E j \in Jobs : job[j].up = s /\ ~Terminal(job[j])

\* A pause or a cancellation comes to an end.
Settles ==
  \A j \in Jobs : job[j].st \in {"pausing", "cancelling"} ~>
    job[j].st \notin {"pausing", "cancelling"}

=============================================================================
