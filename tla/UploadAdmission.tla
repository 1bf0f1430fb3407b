--------------------------- MODULE UploadAdmission ---------------------------
(***************************************************************************)
(* How a chunk request is let in and let go (src/backend/src/uploads/):    *)
(* UploadRateLimitService and its interceptor give it a token and a        *)
(* concurrency lease, IngressFileCleanupInterceptor takes the SSD          *)
(* workspace lock for it, Multer writes its body through                   *)
(* abortableDiskStorage, the handler gives the file to the upload service. *)
(*                                                                         *)
(* The client may disconnect between any two callbacks.  The lease, the    *)
(* lock and the ingress file each have several places that let them go.    *)
(* Multer itself is external: it calls the storage engine, and reports a   *)
(* request that ended.  Abort requests, which only draw tokens from a map  *)
(* of their own, and the maps keyed by address, are the same take().       *)
(***************************************************************************)
EXTENDS Integers, FiniteSets

CONSTANTS Requests, Users,
          Rate, Burst,          \* tokens per second, tokens a bucket holds
          Idle,                 \* seconds after which a bucket is dropped
          PerUser, MaxActive,   \* concurrent leases: of a user, of all
          MaxKeys,              \* users with a bucket
          MaxTime               \* bound: seconds

\* Requests are finitely many, and a bucket is dropped no sooner than it would
\* be full again: UPLOAD_RATE_POLICY has 50 <= 25 * 300.
AdmissionFit ==
  /\ IsFiniteSet(Requests) /\ "nobody" \notin Users
  /\ Rate \in Nat /\ Burst \in Nat /\ Idle \in Nat /\ Burst <= Rate * Idle
  /\ PerUser \in Nat /\ MaxActive \in Nat /\ MaxTime \in Nat

ASSUME AdmissionAssumption == AdmissionFit

VARIABLES
  now, lastSweep,
  bucket,      \* the users' buckets: a function on some of the users
  active,      \* leases of all users
  taken,       \* tokens each user has drawn
  req,         \* the requests
  lock         \* who holds the SSD workspace lock: one or nobody

vars == <<now, lastSweep, bucket, active, taken, req, lock>>

Labels == {"idle", "lookup", "locked", "ready", "writing", "parsed",
           "serving", "failing", "done"}

\* writer: the stream abortableDiskStorage opened; finished before its close.
\* pending: ingressFinalizePending.
Request == [pc: Labels, user: Users \cup {"nobody"}, born: 0..MaxTime,
            ssd: BOOLEAN, conn: BOOLEAN, heard: BOOLEAN, cleaned: BOOLEAN,
            pending: BOOLEAN, lease: {"none", "ingress", "processing",
            "released"}, writer: {"none", "open", "finished", "broken",
            "closed"}, file: {"none", "there", "moved", "deferred"}]
NoRequest ==
  [pc |-> "idle", user |-> "nobody", born |-> 0, ssd |-> FALSE,
   conn |-> TRUE, heard |-> FALSE, cleaned |-> FALSE, pending |-> FALSE,
   lease |-> "none", writer |-> "none", file |-> "none"]

Init ==
  /\ now = 0 /\ lastSweep = 0
  /\ bucket = [u \in {} |-> {}]
  /\ active = 0
  /\ taken = [u \in Users |-> 0]
  /\ req = [r \in Requests |-> NoRequest]
  /\ lock = {}

-----------------------------------------------------------------------------
(* UploadRateLimitService *)

Lesser(a, b) == IF a < b THEN a ELSE b

\* Mutant: a bucket is dropped though leases count on it.
StaleAs(e) == now - e.seenAt >= Idle

\* A bucket that the sweep of take() drops.
Stale(e) == e.active = 0 /\ now - e.seenAt >= Idle

Kept ==
  {u \in DOMAIN bucket : now > lastSweep => ~Stale(bucket[u])}

\* A new key has to fit; none is dropped for it.
Room(u) == u \in Kept \/ Cardinality(Kept) < MaxKeys

\* The user's bucket after the sweep: the old one refilled, or a new one.
Entry(u) ==
  IF u \in Kept
  THEN LET e == bucket[u]
       IN [e EXCEPT !.tokens = Lesser(Burst, @ + (now - e.refillAt) * Rate),
                    !.refillAt = now, !.seenAt = now]
  ELSE [tokens |-> Burst, refillAt |-> now, seenAt |-> now, active |-> 0,
        born |-> now]

With(u, e) == [v \in Kept \cup {u} |-> IF v = u THEN e ELSE bucket[v]]

Crowded(e) == e.active >= PerUser \/ active >= MaxActive

\* take() refuses: too many keys, or no token left.
Throttle(r, u) ==
  /\ req[r].pc = "idle"
  /\ IF ~Room(u) THEN bucket' = [v \in Kept |-> bucket[v]]
     ELSE Entry(u).tokens < 1 /\ bucket' = With(u, Entry(u))
  /\ lastSweep' = now
  /\ UNCHANGED <<now, active, taken, req, lock>>

\* enter() draws a token and gives a lease, or refuses and has drawn it.
Enter(r, u) ==
  /\ req[r].pc = "idle"
  /\ Room(u)
  /\ LET e == Entry(u) IN
     /\ e.tokens >= 1
     /\ bucket' = With(u, [e EXCEPT !.tokens = @ - 1,
                             !.active = IF Crowded(e) THEN @ ELSE @ + 1])
     /\ active' = IF Crowded(e) THEN active ELSE active + 1
     /\ req' = IF Crowded(e) THEN req
               ELSE [req EXCEPT ![r].pc = "lookup", ![r].user = u,
                       ![r].born = e.born, ![r].lease = "ingress"]
  /\ taken' = [taken EXCEPT ![u] = @ + 1]
  /\ lastSweep' = now
  /\ UNCHANGED <<now, lock>>

Live(q) == q.lease \in {"ingress", "processing"}

\* The release closure of a lease, once; its bucket may have been replaced.
Return(q) ==
  IF ~Live(q) THEN UNCHANGED <<bucket, active>>
  ELSE /\ active' = active - 1
       /\ bucket' = [u \in DOMAIN bucket |->
            IF u = q.user /\ bucket[u].born = q.born
            THEN [bucket[u] EXCEPT !.active = @ - 1, !.seenAt = now]
            ELSE bucket[u]]

Tick ==
  /\ now < MaxTime /\ now' = now + 1
  /\ UNCHANGED <<lastSweep, bucket, active, taken, req, lock>>

-----------------------------------------------------------------------------
(* IngressFileCleanupInterceptor *)

Writing(q) == q.writer \in {"open", "finished", "broken"}
Removed(f) == IF f = "there" THEN {"none", "deferred"} ELSE {f}

\* cleanup(): left to the writer while there is one, and done once.  A
\* removal that fails is deferred to the sweep of stale ingress files.
Cleaned(q) ==
  IF q.cleaned THEN {q}
  ELSE IF Writing(q) THEN {[q EXCEPT !.pending = TRUE]}
  ELSE {[q EXCEPT !.cleaned = TRUE, !.file = f] : f \in Removed(q.file)}

\* Stores a request; the capability of a cleaned one lets the lock go, but
\* while uploadChunk is among its users.
Put(r, q) ==
  /\ req' = [req EXCEPT ![r] = q]
  /\ lock' = IF q.cleaned /\ q.pc # "serving" THEN lock \ {r} ELSE lock

At(r, l) == req[r].pc = l
Goto(r, l) == req' = [req EXCEPT ![r].pc = l]
Idling == UNCHANGED <<now, lastSweep, bucket, active, taken>>

\* The session is looked up.  A legacy one: the listeners are attached.
Resolve(r) ==
  /\ At(r, "lookup") /\ Idling /\ UNCHANGED lock
  /\ req' = [req EXCEPT ![r].pc = "ready", ![r].heard = TRUE]

\* An SSD one: acquireIngress takes the lock, which it does not wait for.
TryLock(r) ==
  /\ At(r, "lookup") /\ lock = {} /\ lock' = {r} /\ Idling
  /\ req' = [req EXCEPT ![r].pc = "locked", ![r].ssd = TRUE]

\* It has checked session, journal and capacity: the listeners are attached.
Acquire(r) ==
  /\ At(r, "locked") /\ Idling /\ UNCHANGED lock
  /\ req' = [req EXCEPT ![r].pc = "ready", ![r].heard = TRUE]

\* Mutant: a refused session keeps the lock that was taken for it.
RefuseAs(r) ==
  At(r, "locked") /\ Goto(r, "failing") /\ Idling /\ UNCHANGED lock

\* One of these checks fails, in a session that is not writable for instance.
Refuse(r) ==
  /\ At(r, "lookup") \/ At(r, "locked")
  /\ Goto(r, "failing") /\ lock' = lock \ {r} /\ Idling

\* Mutant: the file of an SSD request is removed at once, too.
OnDisconnectAs(q) ==
  IF ~q.heard THEN {q} ELSE Cleaned([q EXCEPT !.pending = TRUE])

\* disconnected(): an SSD request is only marked.
OnDisconnect(q) ==
  IF ~q.heard THEN {q}
  ELSE IF q.ssd THEN {[q EXCEPT !.pending = TRUE]}
  ELSE Cleaned([q EXCEPT !.pending = TRUE])

\* The client leaves.  Its listeners run in the order they were attached: the
\* lease is let go unless the handler runs, the interceptor cleans, the
\* writer is destroyed.
Disconnect(r) ==
  /\ req[r].conn /\ ~At(r, "idle") /\ ~At(r, "done")
  /\ LET q == [req[r] EXCEPT !.conn = FALSE,
                 !.lease = IF @ = "ingress" THEN "released" ELSE @]
     IN \E c \in OnDisconnect(q) :
          Put(r, [c EXCEPT !.writer =
                    IF @ \in {"open", "finished"} THEN "broken" ELSE @])
  /\ IF req[r].lease = "ingress" THEN Return(req[r])
     ELSE UNCHANGED <<bucket, active>>
  /\ UNCHANGED <<now, lastSweep, taken>>

\* finalize: the listeners are detached, the interceptor cleans if it got so
\* far, and the lease goes.
Finalize(r) ==
  /\ At(r, "failing")
  /\ LET q == [req[r] EXCEPT !.pc = "done", !.heard = FALSE,
                 !.lease = "released"]
     IN \E c \in IF req[r].heard THEN Cleaned(q) ELSE {q} : Put(r, c)
  /\ Return(req[r])
  /\ UNCHANGED <<now, lastSweep, taken>>

-----------------------------------------------------------------------------
(* Multer and abortableDiskStorage *)

\* The file part begins: a stream on a new file, destroyed if the client left.
Open(r) ==
  /\ At(r, "ready") /\ Idling /\ UNCHANGED lock
  /\ req' = [req EXCEPT ![r].pc = "writing", ![r].file = "there",
               ![r].writer = IF req[r].conn THEN "open" ELSE "broken"]

\* No file part, a field too large, a request that ended, a failed guard.
Unparsed(r) ==
  /\ At(r, "ready") /\ Goto(r, "failing") /\ Idling /\ UNCHANGED lock

\* The stream of the part ends, or breaks.
Finish(r) ==
  /\ req[r].writer = "open" /\ req' = [req EXCEPT ![r].writer = "finished"]
  /\ Idling /\ UNCHANGED lock
Break(r) ==
  /\ req[r].writer = "open" /\ req' = [req EXCEPT ![r].writer = "broken"]
  /\ Idling /\ UNCHANGED lock

\* Multer reports an error before its storage engine has called back.
GiveUp(r) ==
  /\ At(r, "writing") /\ Goto(r, "failing") /\ Idling /\ UNCHANGED lock

\* _handleFile of uploads.module: a request to clean up is caught up with.
AfterCallback(q) == IF q.pending THEN Cleaned(q) ELSE {q}

\* The stream's close: the file is handed over, or removed.
Close(r) ==
  /\ req[r].writer \in {"finished", "broken"}
  /\ LET ok == req[r].writer = "finished"
     IN \E f \in IF ok THEN {req[r].file} ELSE Removed(req[r].file) :
          LET q == [req[r] EXCEPT !.writer = "closed", !.file = f,
                      !.pc = IF @ # "writing" THEN @
                             ELSE IF ok THEN "parsed" ELSE "failing"]
          IN \E c \in AfterCallback(q) : Put(r, c)
  /\ Idling

-----------------------------------------------------------------------------
(* UploadsController.uploadChunk *)

\* markUploadProcessing lets the handler begin.
Processable(q) == q.conn /\ q.lease # "released"

Serve(r) ==
  /\ At(r, "parsed") /\ Idling /\ UNCHANGED lock
  /\ req' = IF Processable(req[r])
            THEN [req EXCEPT ![r].pc = "serving",
                    ![r].lease = IF @ = "ingress" THEN "processing" ELSE @]
            ELSE [req EXCEPT ![r].pc = "failing"]

\* The service is done: it moved the file to its chunk, removed it or, having
\* failed before it looked, left it.  The lock goes if it was asked for.
Served(r) ==
  /\ At(r, "serving") /\ Idling
  /\ \E f \in IF req[r].file = "there" THEN {"moved", "none", "there"}
              ELSE {req[r].file} :
       Put(r, [req[r] EXCEPT !.pc = "failing", !.file = f])

Progress(r) ==
  \/ Resolve(r) \/ TryLock(r) \/ Acquire(r) \/ Refuse(r) \/ Finalize(r)
  \/ Open(r) \/ Unparsed(r) \/ Finish(r) \/ Break(r) \/ GiveUp(r)
  \/ Close(r) \/ Serve(r) \/ Served(r)

\* The response is sent; the next request comes.
Respond(r) ==
  /\ At(r, "done") /\ ~Writing(req[r])
  /\ req' = [req EXCEPT ![r] = NoRequest] /\ Idling /\ UNCHANGED lock

Next ==
  \/ \E r \in Requests : Progress(r) \/ Disconnect(r) \/ Respond(r)
  \/ \E r \in Requests, u \in Users : Throttle(r, u) \/ Enter(r, u)
  \/ Tick

Spec == Init /\ [][Next]_vars

\* Callbacks run, and a stalled body ends: the proxy in front gives up on one
\* (client_body_timeout in deploy/ingress/default.conf.template).  Nobody has
\* to send a request, or to leave.
FairSpec ==
  Spec /\ \A r \in Requests :
    /\ WF_vars(Resolve(r) \/ TryLock(r) \/ Acquire(r) \/ Refuse(r))
    /\ WF_vars(Open(r) \/ Unparsed(r))
    /\ WF_vars(Finish(r) \/ Break(r)) /\ WF_vars(Close(r))
    /\ WF_vars(Serve(r)) /\ WF_vars(Served(r)) /\ WF_vars(Finalize(r))

-----------------------------------------------------------------------------
Leased(u) == {r \in Requests : Live(req[r]) /\ req[r].user = u}

\* The counters are the leases that are out, within the limits, whatever the
\* sweep dropped and however often a lease was given back.
CountersAgree ==
  /\ active = Cardinality({r \in Requests : Live(req[r])})
  /\ active <= MaxActive
  /\ \A u \in Users : Cardinality(Leased(u)) <= PerUser
  /\ \A u \in Users : Leased(u) # {} =>
       u \in DOMAIN bucket /\ bucket[u].active = Cardinality(Leased(u))

\* Dropping idle buckets gives nobody more tokens than their rate.
RateHeld == \A u \in Users : taken[u] <= Burst + Rate * now

\* A handler at work has its lease, and an SSD one the lock, though its client
\* may have left.
WorkProtected ==
  \A r \in Requests : At(r, "serving") =>
    req[r].lease = "processing" /\ (req[r].ssd => r \in lock)

\* No step removes the file of an SSD request that waits for its handler or is
\* served, or of any request under its writer.
FileKept ==
  \A r \in Requests :
    LET q == req[r] IN
    /\ q.ssd /\ q.pc \in {"parsed", "serving"} /\ q.pc = req'[r].pc
         => req'[r].file = q.file
    /\ Writing(q) /\ Writing(req'[r]) => req'[r].file = q.file

\* A request that is over leaves no ingress file but a deferred one, no lock
\* and no lease.
NothingLeft ==
  \A r \in Requests : At(r, "done") /\ ~Writing(req[r]) =>
    req[r].file # "there" /\ r \notin lock /\ ~Live(req[r])

\* The workspace lock comes back, or every other SSD upload would be refused.
LockReturned == \A r \in Requests : r \in lock ~> r \notin lock
=============================================================================
