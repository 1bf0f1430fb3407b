--------------------------- MODULE AdmissionProofs ---------------------------
(***************************************************************************)
(* Proofs about UploadAdmission, for any number of requests and users, and *)
(* about UploadLimits, for limits, quotas and files of any size, and for   *)
(* the numbers of JavaScript ending anywhere; about Retries, for any       *)
(* bounds on attempts, waits and deadlines, and any wait a server asks for.*)
(* And about StorageMounts, for any volumes, workspaces and inode numbers. *)
(*                                                                         *)
(* A lease is given back by closures that have kept their bucket; it may   *)
(* count on none but the one that gave it (Counted), since the sweep only  *)
(* drops buckets without leases.  What a user may have drawn is bounded by *)
(* what the bucket has, or had when it was dropped (Earned, Dropped).  A   *)
(* request is seen as its lease, its listeners, its file and its lock; no  *)
(* other request touches these (OthersSound), so each callback has to keep *)
(* them of its own.                                                        *)
(*                                                                         *)
(* An inspection that nothing has disturbed knows what it has found out    *)
(* (Inspected), from one round of a probe to the next; a number that a     *)
(* descriptor holds goes to no other file, so the same number is the same  *)
(* marker (Anchored) and the same directory (Bound).                       *)
(***************************************************************************)
EXTENDS AdmittedUploads, FiniteSetTheorems, TLAPS

(***************************************************************************)
(* Requests with chunks                                                    *)
(***************************************************************************)
\* A bucket.
Bucket == [tokens: Nat, refillAt: Nat, seenAt: Nat, active: Nat,
           born: 0..MaxTime]

\* What kind of value each variable has.
AdmissionTypes ==
  /\ now \in 0..MaxTime /\ lastSweep \in Nat /\ active \in Int
  /\ DOMAIN bucket \subseteq Users /\ bucket \in [DOMAIN bucket -> Bucket]
  /\ taken \in [Users -> Nat] /\ req \in [Requests -> Request]
  /\ lock \subseteq Requests

\* What a bucket, and a user without one, can have been given by now.
Earned(u) ==
  IF u \in DOMAIN bucket
  THEN /\ taken[u] + bucket[u].tokens <= Burst + Rate * bucket[u].refillAt
       /\ bucket[u].refillAt <= bucket[u].seenAt /\ bucket[u].seenAt <= now
  ELSE taken[u] <= Rate * now

\* Requests with a lease.
LiveOnes == {r \in Requests : Live(req[r])}

\* The counters: a lease counts on the bucket that gave it.
Counted ==
  /\ active = Cardinality(LiveOnes) /\ active <= MaxActive
  /\ \A r \in LiveOnes :
       req[r].user \in DOMAIN bucket /\ req[r].born = bucket[req[r].user].born
  /\ \A u \in DOMAIN bucket :
       /\ bucket[u].active = Cardinality(Leased(u))
       /\ bucket[u].active <= PerUser

\* The lease, as far as the request has come.
LeaseFits(q) ==
  /\ q.lease = "none" <=> q.pc = "idle"
  /\ q.pc = "serving" => q.lease = "processing"
  /\ q.lease = "processing" => q.pc \in {"serving", "failing"}
  /\ q.pc = "done" => q.lease = "released"

\* The listeners, and what is there before they are attached.
Heard(q) ==
  /\ q.heard => q.pc \notin {"idle", "lookup", "locked", "done"}
  /\ ~q.heard =>
       /\ q.pc \in {"idle", "lookup", "locked", "failing", "done"}
       /\ q.pc # "done" =>
            q.file = "none" /\ q.writer = "none" /\ ~q.cleaned /\ ~q.pending

\* The writer and its file; who has cleaned up, or is asked to.
Filed(q) ==
  /\ q.pc \in {"idle", "lookup", "locked", "ready"} => q.writer = "none"
  /\ q.pc = "writing" => Writing(q)
  /\ q.pc \in {"parsed", "serving"} => q.writer = "closed"
  /\ q.pc = "ready" => q.file = "none"
  /\ q.cleaned \/ q.pending => ~q.conn \/ q.pc = "done"
  /\ q.cleaned /\ Writing(q) => q.writer = "broken"
  /\ q.cleaned /\ ~Writing(q) => q.file # "there"
  /\ q.pc = "done" =>
       q.cleaned \/ IF Writing(q) THEN q.pending ELSE q.file = "none"

\* The lock on the workspace.
Locks(q, has) ==
  /\ has => q.ssd
  /\ q.ssd => q.pc \notin {"idle", "lookup"}
  /\ has /\ ~q.heard => q.pc = "locked" \/ (q.pc = "done" /\ Writing(q))
  /\ has /\ q.cleaned => q.pc = "serving"
  /\ q.ssd /\ q.pc \in {"locked", "ready", "writing", "parsed"} =>
       has \/ q.cleaned
  /\ q.ssd /\ q.pc = "serving" => has

\* What is said of each request.
Sound(r) ==
  LeaseFits(req[r]) /\ Heard(req[r]) /\ Filed(req[r])
    /\ Locks(req[r], r \in lock)

\* The invariant.
AInv ==
  /\ AdmissionTypes /\ Counted
  /\ \A u \in Users : Earned(u)
  /\ \A r \in Requests : Sound(r)
-----------------------------------------------------------------------------
\* A step of r leaves the other requests alone.
Moved(r) ==
  /\ req' \in [Requests -> Request]
  /\ \A s \in Requests \ {r} : req'[s] = req[s]
  /\ lock' \subseteq Requests /\ lock' \ {r} = lock \ {r}

\* r has its lease for the same user, or neither now nor before.
SameLease(r) ==
  /\ Live(req'[r]) <=> Live(req[r])
  /\ Live(req[r]) =>
       req'[r].user = req[r].user /\ req'[r].born = req[r].born

\* The file is where its handler or its writer needs it.
FileSafe(o, q) ==
  /\ o.ssd /\ o.pc \in {"parsed", "serving"} /\ o.pc = q.pc => q.file = o.file
  /\ Writing(o) /\ Writing(q) => q.file = o.file

\* A step of r that is careful with the file of r is careful with all.
LEMMA CarefulStep ==
  ASSUME NEW r \in Requests, Moved(r), FileSafe(req[r], req'[r])
  PROVE  FileKept
<1>1. ASSUME NEW s \in Requests PROVE FileSafe(req[s], req'[s])
  <2>1. CASE s = r
    BY <2>1
  <2>2. CASE s # r
    BY <2>2 DEF Moved, FileSafe
  <2> QED BY <2>1, <2>2
<1> QED BY <1>1 DEF FileSafe, FileKept

\* Others stay sound.
LEMMA OthersSound ==
  ASSUME AInv, NEW r \in Requests, Moved(r), Sound(r)'
  PROVE  \A s \in Requests : Sound(s)'
<1>1. ASSUME NEW s \in Requests, s # r PROVE Sound(s)'
  <2>1. req'[s] = req[s] /\ (s \in lock' <=> s \in lock)
    BY <1>1 DEF Moved
  <2>2. Sound(s)
    BY DEF AInv
  <2> QED BY <2>1, <2>2 DEF Sound
<1> QED BY <1>1

\* Leases are finitely many.
LEMMA FiniteLeases ==
  ASSUME AdmissionFit
  PROVE  /\ IsFiniteSet(LiveOnes) /\ Cardinality(LiveOnes) \in Nat
         /\ \A u : /\ IsFiniteSet(Leased(u)) /\ Leased(u) \subseteq LiveOnes
                   /\ Cardinality(Leased(u)) \in Nat
<1>1. LiveOnes \subseteq Requests
  BY DEF LiveOnes
<1>2. IsFiniteSet(LiveOnes) /\ Cardinality(LiveOnes) \in Nat
  BY <1>1, FS_Subset, FS_CardinalityType DEF AdmissionFit
<1>3. ASSUME NEW u
      PROVE  /\ IsFiniteSet(Leased(u)) /\ Leased(u) \subseteq LiveOnes
             /\ Cardinality(Leased(u)) \in Nat
  <2>1. Leased(u) \subseteq LiveOnes
    BY DEF Leased, LiveOnes
  <2> QED BY <1>2, <2>1, FS_Subset, FS_CardinalityType
<1> QED BY <1>2, <1>3

\* Steps that only concern a request's progress keep the counters.
LEMMA QuietStep ==
  ASSUME AInv, NEW r \in Requests, Moved(r), Sound(r)', SameLease(r), Idling
  PROVE  AInv'
<1>1. \A s \in Requests : Sound(s)'
  BY OthersSound
<1>2. \A s \in Requests :
        /\ Live(req'[s]) <=> Live(req[s])
        /\ Live(req[s]) =>
             req'[s].user = req[s].user /\ req'[s].born = req[s].born
  BY DEF SameLease, Moved
<1>3. LiveOnes' = LiveOnes
  BY <1>2 DEF LiveOnes
<1>4. \A u : Leased(u)' = Leased(u)
  BY <1>2 DEF Leased
<1>5. Counted'
  BY <1>2, <1>3, <1>4 DEF AInv, Counted, Idling, LiveOnes
<1>6. \A u \in Users : Earned(u)'
  BY DEF AInv, Earned, Idling
<1>7. AdmissionTypes'
  BY DEF AInv, AdmissionTypes, Idling, Moved
<1> QED BY <1>1, <1>5, <1>6, <1>7 DEF AInv

-----------------------------------------------------------------------------
\* A request goes on as q, with its lease: what is left to see is that q is
\* sound.
LEMMA GoesOn ==
  ASSUME AInv, NEW r \in Requests, NEW q \in Request,
         req' = [req EXCEPT ![r] = q], Idling,
         lock' \subseteq Requests, lock' \ {r} = lock \ {r},
         LeaseFits(q), Heard(q), Filed(q), Locks(q, r \in lock'),
         FileSafe(req[r], q),
         Live(q) <=> Live(req[r]),
         Live(q) => q.user = req[r].user /\ q.born = req[r].born
  PROVE  AInv' /\ FileKept
<1>1. Moved(r) /\ req'[r] = q
  BY DEF AInv, AdmissionTypes, Moved
<1>2. Sound(r)'
  BY <1>1 DEF Sound
<1>3. SameLease(r)
  BY <1>1 DEF SameLease
<1> QED BY <1>1, <1>2, <1>3, QuietStep, CarefulStep

\* The session is looked up.
LEMMA ResolveStep ==
  ASSUME AInv, NEW r \in Requests, Resolve(r) PROVE AInv' /\ FileKept
<1> DEFINE q == [req[r] EXCEPT !.pc = "ready", !.heard = TRUE]
<1>0. /\ req \in [Requests -> Request] /\ req[r] \in Request
      /\ lock \subseteq Requests /\ Sound(r)
  BY DEF AInv, AdmissionTypes
<1>1. req' = [req EXCEPT ![r] = q] /\ Idling
  BY <1>0 DEF Resolve
<1>2. q \in Request
  BY <1>0 DEF Request, Labels
<1>3. /\ q.pc = "ready" /\ q.user = req[r].user /\ q.born = req[r].born
      /\ q.lease = req[r].lease /\ q.writer = req[r].writer
      /\ q.file = req[r].file /\ (q.ssd <=> req[r].ssd)
      /\ (q.conn <=> req[r].conn) /\ q.heard
      /\ (q.cleaned <=> req[r].cleaned)
      /\ (q.pending <=> req[r].pending) /\ req[r].pc = "lookup"
  BY <1>0 DEF Resolve, Request, At
<1>4. lock' = lock
  BY DEF Resolve
<1> HIDE DEF q
<1>5. LeaseFits(q)
  BY <1>0, <1>3 DEF Sound, LeaseFits, Heard, Filed, Writing
<1>6. Heard(q)
  BY <1>0, <1>3 DEF Sound, Heard, Filed, Writing
<1>7. Filed(q)
  BY <1>0, <1>3 DEF Sound, Filed, Heard, Writing
<1>8. Locks(q, r \in lock')
  BY <1>0, <1>3, <1>4 DEF Sound, Locks, Heard, Filed, Writing
<1>9. FileSafe(req[r], q)
  BY <1>0, <1>3, <1>4 DEF Sound, FileSafe, Heard, Filed, Writing
<1> QED BY <1>0, <1>1, <1>2, <1>3, <1>4, <1>5, <1>6, <1>7, <1>8, <1>9, GoesOn
     DEF Live

\* The lock was free.
LEMMA TryLockStep ==
  ASSUME AInv, NEW r \in Requests, TryLock(r) PROVE AInv' /\ FileKept
<1> DEFINE q == [req[r] EXCEPT !.pc = "locked", !.ssd = TRUE]
<1>0. /\ req \in [Requests -> Request] /\ req[r] \in Request
      /\ lock \subseteq Requests /\ Sound(r)
  BY DEF AInv, AdmissionTypes
<1>1. req' = [req EXCEPT ![r] = q] /\ Idling
  BY <1>0 DEF TryLock
<1>2. q \in Request
  BY <1>0 DEF Request, Labels
<1>3. /\ q.pc = "locked" /\ q.user = req[r].user /\ q.born = req[r].born
      /\ q.lease = req[r].lease /\ q.writer = req[r].writer
      /\ q.file = req[r].file /\ q.ssd /\ (q.conn <=> req[r].conn)
      /\ (q.heard <=> req[r].heard) /\ (q.cleaned <=> req[r].cleaned)
      /\ (q.pending <=> req[r].pending) /\ req[r].pc = "lookup"
  BY <1>0 DEF TryLock, Request, At
<1>4. lock = {} /\ lock' = {r}
  BY DEF TryLock
<1> HIDE DEF q
<1>5. LeaseFits(q)
  BY <1>0, <1>3 DEF Sound, LeaseFits, Heard, Filed, Writing
<1>6. Heard(q)
  BY <1>0, <1>3 DEF Sound, Heard, Filed, Writing
<1>7. Filed(q)
  BY <1>0, <1>3 DEF Sound, Filed, Heard, Writing
<1>8. Locks(q, r \in lock')
  BY <1>0, <1>3, <1>4 DEF Sound, Locks, Heard, Filed, Writing
<1>9. FileSafe(req[r], q)
  BY <1>0, <1>3, <1>4 DEF Sound, FileSafe, Heard, Filed, Writing
<1> QED BY <1>0, <1>1, <1>2, <1>3, <1>4, <1>5, <1>6, <1>7, <1>8, <1>9, GoesOn
     DEF Live

\* The session is writable.
LEMMA AcquireStep ==
  ASSUME AInv, NEW r \in Requests, Acquire(r) PROVE AInv' /\ FileKept
<1> DEFINE q == [req[r] EXCEPT !.pc = "ready", !.heard = TRUE]
<1>0. /\ req \in [Requests -> Request] /\ req[r] \in Request
      /\ lock \subseteq Requests /\ Sound(r)
  BY DEF AInv, AdmissionTypes
<1>1. req' = [req EXCEPT ![r] = q] /\ Idling
  BY <1>0 DEF Acquire
<1>2. q \in Request
  BY <1>0 DEF Request, Labels
<1>3. /\ q.pc = "ready" /\ q.user = req[r].user /\ q.born = req[r].born
      /\ q.lease = req[r].lease /\ q.writer = req[r].writer
      /\ q.file = req[r].file /\ (q.ssd <=> req[r].ssd)
      /\ (q.conn <=> req[r].conn) /\ q.heard
      /\ (q.cleaned <=> req[r].cleaned)
      /\ (q.pending <=> req[r].pending) /\ req[r].pc = "locked"
  BY <1>0 DEF Acquire, Request, At
<1>4. lock' = lock
  BY DEF Acquire
<1> HIDE DEF q
<1>5. LeaseFits(q)
  BY <1>0, <1>3 DEF Sound, LeaseFits, Heard, Filed, Writing
<1>6. Heard(q)
  BY <1>0, <1>3 DEF Sound, Heard, Filed, Writing
<1>7. Filed(q)
  BY <1>0, <1>3 DEF Sound, Filed, Heard, Writing
<1>8. Locks(q, r \in lock')
  BY <1>0, <1>3, <1>4 DEF Sound, Locks, Heard, Filed, Writing
<1>9. FileSafe(req[r], q)
  BY <1>0, <1>3, <1>4 DEF Sound, FileSafe, Heard, Filed, Writing
<1> QED BY <1>0, <1>1, <1>2, <1>3, <1>4, <1>5, <1>6, <1>7, <1>8, <1>9, GoesOn
     DEF Live

\* It is not, and the lock is let go.
LEMMA RefuseStep ==
  ASSUME AInv, NEW r \in Requests, Refuse(r) PROVE AInv' /\ FileKept
<1> DEFINE q == [req[r] EXCEPT !.pc = "failing"]
<1>0. /\ req \in [Requests -> Request] /\ req[r] \in Request
      /\ lock \subseteq Requests /\ Sound(r)
  BY DEF AInv, AdmissionTypes
<1>1. req' = [req EXCEPT ![r] = q] /\ Idling
  BY <1>0 DEF Refuse, Goto
<1>2. q \in Request
  BY <1>0 DEF Request, Labels
<1>3. /\ q.pc = "failing" /\ q.user = req[r].user
      /\ q.born = req[r].born /\ q.lease = req[r].lease
      /\ q.writer = req[r].writer /\ q.file = req[r].file
      /\ (q.ssd <=> req[r].ssd) /\ (q.conn <=> req[r].conn)
      /\ (q.heard <=> req[r].heard) /\ (q.cleaned <=> req[r].cleaned)
      /\ (q.pending <=> req[r].pending)
      /\ req[r].pc \in {"lookup", "locked"}
  BY <1>0 DEF Refuse, Request, At, Goto
<1>4. lock' = lock \ {r}
  BY DEF Refuse, Goto
<1> HIDE DEF q
<1>5. LeaseFits(q)
  BY <1>0, <1>3 DEF Sound, LeaseFits, Heard, Filed, Writing
<1>6. Heard(q)
  BY <1>0, <1>3 DEF Sound, Heard, Filed, Writing
<1>7. Filed(q)
  BY <1>0, <1>3 DEF Sound, Filed, Heard, Writing
<1>8. Locks(q, r \in lock')
  BY <1>0, <1>3, <1>4 DEF Sound, Locks, Heard, Filed, Writing
<1>9. FileSafe(req[r], q)
  BY <1>0, <1>3, <1>4 DEF Sound, FileSafe, Heard, Filed, Writing
<1> QED BY <1>0, <1>1, <1>2, <1>3, <1>4, <1>5, <1>6, <1>7, <1>8, <1>9, GoesOn
     DEF Live

\* The request ends before its file part.
LEMMA UnparsedStep ==
  ASSUME AInv, NEW r \in Requests, Unparsed(r) PROVE AInv' /\ FileKept
<1> DEFINE q == [req[r] EXCEPT !.pc = "failing"]
<1>0. /\ req \in [Requests -> Request] /\ req[r] \in Request
      /\ lock \subseteq Requests /\ Sound(r)
  BY DEF AInv, AdmissionTypes
<1>1. req' = [req EXCEPT ![r] = q] /\ Idling
  BY <1>0 DEF Unparsed, Goto
<1>2. q \in Request
  BY <1>0 DEF Request, Labels
<1>3. /\ q.pc = "failing" /\ q.user = req[r].user
      /\ q.born = req[r].born /\ q.lease = req[r].lease
      /\ q.writer = req[r].writer /\ q.file = req[r].file
      /\ (q.ssd <=> req[r].ssd) /\ (q.conn <=> req[r].conn)
      /\ (q.heard <=> req[r].heard) /\ (q.cleaned <=> req[r].cleaned)
      /\ (q.pending <=> req[r].pending) /\ req[r].pc = "ready"
  BY <1>0 DEF Unparsed, Request, At, Goto
<1>4. lock' = lock
  BY DEF Unparsed, Goto
<1> HIDE DEF q
<1>5. LeaseFits(q)
  BY <1>0, <1>3 DEF Sound, LeaseFits, Heard, Filed, Writing
<1>6. Heard(q)
  BY <1>0, <1>3 DEF Sound, Heard, Filed, Writing
<1>7. Filed(q)
  BY <1>0, <1>3 DEF Sound, Filed, Heard, Writing
<1>8. Locks(q, r \in lock')
  BY <1>0, <1>3, <1>4 DEF Sound, Locks, Heard, Filed, Writing
<1>9. FileSafe(req[r], q)
  BY <1>0, <1>3, <1>4 DEF Sound, FileSafe, Heard, Filed, Writing
<1> QED BY <1>0, <1>1, <1>2, <1>3, <1>4, <1>5, <1>6, <1>7, <1>8, <1>9, GoesOn
     DEF Live

\* Multer gives up under the writer.
LEMMA GiveUpStep ==
  ASSUME AInv, NEW r \in Requests, GiveUp(r) PROVE AInv' /\ FileKept
<1> DEFINE q == [req[r] EXCEPT !.pc = "failing"]
<1>0. /\ req \in [Requests -> Request] /\ req[r] \in Request
      /\ lock \subseteq Requests /\ Sound(r)
  BY DEF AInv, AdmissionTypes
<1>1. req' = [req EXCEPT ![r] = q] /\ Idling
  BY <1>0 DEF GiveUp, Goto
<1>2. q \in Request
  BY <1>0 DEF Request, Labels
<1>3. /\ q.pc = "failing" /\ q.user = req[r].user
      /\ q.born = req[r].born /\ q.lease = req[r].lease
      /\ q.writer = req[r].writer /\ q.file = req[r].file
      /\ (q.ssd <=> req[r].ssd) /\ (q.conn <=> req[r].conn)
      /\ (q.heard <=> req[r].heard) /\ (q.cleaned <=> req[r].cleaned)
      /\ (q.pending <=> req[r].pending) /\ req[r].pc = "writing"
  BY <1>0 DEF GiveUp, Request, At, Goto
<1>4. lock' = lock
  BY DEF GiveUp, Goto
<1> HIDE DEF q
<1>5. LeaseFits(q)
  BY <1>0, <1>3 DEF Sound, LeaseFits, Heard, Filed, Writing
<1>6. Heard(q)
  BY <1>0, <1>3 DEF Sound, Heard, Filed, Writing
<1>7. Filed(q)
  BY <1>0, <1>3 DEF Sound, Filed, Heard, Writing
<1>8. Locks(q, r \in lock')
  BY <1>0, <1>3, <1>4 DEF Sound, Locks, Heard, Filed, Writing
<1>9. FileSafe(req[r], q)
  BY <1>0, <1>3, <1>4 DEF Sound, FileSafe, Heard, Filed, Writing
<1> QED BY <1>0, <1>1, <1>2, <1>3, <1>4, <1>5, <1>6, <1>7, <1>8, <1>9, GoesOn
     DEF Live

\* The part ends.
LEMMA FinishStep ==
  ASSUME AInv, NEW r \in Requests, Finish(r) PROVE AInv' /\ FileKept
<1> DEFINE q == [req[r] EXCEPT !.writer = "finished"]
<1>0. /\ req \in [Requests -> Request] /\ req[r] \in Request
      /\ lock \subseteq Requests /\ Sound(r)
  BY DEF AInv, AdmissionTypes
<1>1. req' = [req EXCEPT ![r] = q] /\ Idling
  BY <1>0 DEF Finish
<1>2. q \in Request
  BY <1>0 DEF Request, Labels
<1>3. /\ q.pc = req[r].pc /\ q.user = req[r].user
      /\ q.born = req[r].born /\ q.lease = req[r].lease
      /\ q.writer = "finished" /\ q.file = req[r].file
      /\ (q.ssd <=> req[r].ssd) /\ (q.conn <=> req[r].conn)
      /\ (q.heard <=> req[r].heard) /\ (q.cleaned <=> req[r].cleaned)
      /\ (q.pending <=> req[r].pending) /\ req[r].writer = "open"
  BY <1>0 DEF Finish, Request, At
<1>4. lock' = lock
  BY DEF Finish
<1> HIDE DEF q
<1>5. LeaseFits(q)
  BY <1>0, <1>3 DEF Sound, LeaseFits, Heard, Filed, Writing
<1>6. Heard(q)
  BY <1>0, <1>3 DEF Sound, Heard, Filed, Writing
<1>7. Filed(q)
  BY <1>0, <1>3 DEF Sound, Filed, Heard, Writing
<1>8. Locks(q, r \in lock')
  BY <1>0, <1>3, <1>4 DEF Sound, Locks, Heard, Filed, Writing
<1>9. FileSafe(req[r], q)
  BY <1>0, <1>3, <1>4 DEF Sound, FileSafe, Heard, Filed, Writing
<1> QED BY <1>0, <1>1, <1>2, <1>3, <1>4, <1>5, <1>6, <1>7, <1>8, <1>9, GoesOn
     DEF Live

\* The part breaks.
LEMMA BreakStep ==
  ASSUME AInv, NEW r \in Requests, Break(r) PROVE AInv' /\ FileKept
<1> DEFINE q == [req[r] EXCEPT !.writer = "broken"]
<1>0. /\ req \in [Requests -> Request] /\ req[r] \in Request
      /\ lock \subseteq Requests /\ Sound(r)
  BY DEF AInv, AdmissionTypes
<1>1. req' = [req EXCEPT ![r] = q] /\ Idling
  BY <1>0 DEF Break
<1>2. q \in Request
  BY <1>0 DEF Request, Labels
<1>3. /\ q.pc = req[r].pc /\ q.user = req[r].user
      /\ q.born = req[r].born /\ q.lease = req[r].lease
      /\ q.writer = "broken" /\ q.file = req[r].file
      /\ (q.ssd <=> req[r].ssd) /\ (q.conn <=> req[r].conn)
      /\ (q.heard <=> req[r].heard) /\ (q.cleaned <=> req[r].cleaned)
      /\ (q.pending <=> req[r].pending) /\ req[r].writer = "open"
  BY <1>0 DEF Break, Request, At
<1>4. lock' = lock
  BY DEF Break
<1> HIDE DEF q
<1>5. LeaseFits(q)
  BY <1>0, <1>3 DEF Sound, LeaseFits, Heard, Filed, Writing
<1>6. Heard(q)
  BY <1>0, <1>3 DEF Sound, Heard, Filed, Writing
<1>7. Filed(q)
  BY <1>0, <1>3 DEF Sound, Filed, Heard, Writing
<1>8. Locks(q, r \in lock')
  BY <1>0, <1>3, <1>4 DEF Sound, Locks, Heard, Filed, Writing
<1>9. FileSafe(req[r], q)
  BY <1>0, <1>3, <1>4 DEF Sound, FileSafe, Heard, Filed, Writing
<1> QED BY <1>0, <1>1, <1>2, <1>3, <1>4, <1>5, <1>6, <1>7, <1>8, <1>9, GoesOn
     DEF Live

\* The file part begins.
LEMMA OpenStep ==
  ASSUME AInv, NEW r \in Requests, Open(r) PROVE AInv' /\ FileKept
<1> DEFINE w == IF req[r].conn THEN "open" ELSE "broken"
           q == [req[r] EXCEPT !.pc = "writing", !.file = "there",
                               !.writer = w]
<1>0. /\ req \in [Requests -> Request] /\ req[r] \in Request
      /\ lock \subseteq Requests /\ Sound(r)
  BY DEF AInv, AdmissionTypes
<1>1. req' = [req EXCEPT ![r] = q] /\ Idling /\ lock' = lock
  BY <1>0 DEF Open
<1>2. q \in Request
  BY <1>0 DEF Request, Labels
<1>3. /\ q.pc = "writing" /\ q.user = req[r].user
      /\ q.born = req[r].born /\ q.lease = req[r].lease /\ q.writer = w
      /\ q.file = "there" /\ (q.ssd <=> req[r].ssd)
      /\ (q.conn <=> req[r].conn) /\ (q.heard <=> req[r].heard)
      /\ (q.cleaned <=> req[r].cleaned)
      /\ (q.pending <=> req[r].pending)
      /\ req[r].pc = "ready" /\ w \in {"open", "broken"}
      /\ req[r].conn \/ w = "broken"
  BY <1>0 DEF Open, Request, At
<1> HIDE DEF q, w
<1>4. LeaseFits(q)
  BY <1>0, <1>1, <1>3 DEF Sound, LeaseFits, Heard, Filed, Writing
<1>5. Heard(q)
  BY <1>0, <1>1, <1>3 DEF Sound, Heard, Filed, Writing
<1>6. Filed(q)
  BY <1>0, <1>1, <1>3 DEF Sound, Filed, Heard, Writing
<1>7. Locks(q, r \in lock')
  BY <1>0, <1>1, <1>3 DEF Sound, Locks, Heard, Filed, Writing
<1>8. FileSafe(req[r], q)
  BY <1>0, <1>1, <1>3 DEF Sound, FileSafe, Heard, Filed, Writing
<1> QED BY <1>0, <1>1, <1>2, <1>3, <1>4, <1>5, <1>6, <1>7, <1>8, GoesOn
     DEF Live

\* The handler begins, or finds the client gone.
LEMMA ServeStep ==
  ASSUME AInv, NEW r \in Requests, Serve(r) PROVE AInv' /\ FileKept
<1>0. /\ req \in [Requests -> Request] /\ req[r] \in Request
      /\ lock \subseteq Requests /\ Sound(r)
  BY DEF AInv, AdmissionTypes
<1>1. CASE Processable(req[r])
  <2> DEFINE q == [req[r] EXCEPT !.pc = "serving", !.lease = "processing"]
  <2>1. req[r].lease = "ingress" /\ req[r].pc = "parsed" /\ req[r].conn
    BY <1>0, <1>1 DEF Serve, At, Sound, LeaseFits, Processable, Request
  <2>2. req' = [req EXCEPT ![r] = q] /\ Idling /\ lock' = lock
    BY <1>0, <1>1, <2>1 DEF Serve
  <2>3. q \in Request
    BY <1>0 DEF Request, Labels
  <2>4. /\ q.pc = "serving" /\ q.user = req[r].user
        /\ q.born = req[r].born /\ q.lease = "processing"
        /\ q.writer = req[r].writer /\ q.file = req[r].file
        /\ (q.ssd <=> req[r].ssd) /\ (q.conn <=> req[r].conn)
        /\ (q.heard <=> req[r].heard) /\ (q.cleaned <=> req[r].cleaned)
        /\ (q.pending <=> req[r].pending)
    BY <1>0 DEF Request
  <2> HIDE DEF q
  <2>5. LeaseFits(q)
    BY <1>0, <2>1, <2>2, <2>4 DEF Sound, LeaseFits, Heard, Filed, Writing
  <2>6. Heard(q)
    BY <1>0, <2>1, <2>2, <2>4 DEF Sound, Heard, Filed, Writing
  <2>7. Filed(q)
    BY <1>0, <2>1, <2>2, <2>4 DEF Sound, Filed, Heard, Writing
  <2>8. Locks(q, r \in lock')
    BY <1>0, <2>1, <2>2, <2>4 DEF Sound, Locks, Heard, Filed, Writing
  <2>9. FileSafe(req[r], q)
    BY <1>0, <2>1, <2>2, <2>4 DEF Sound, FileSafe, Heard, Filed, Writing
  <2> QED BY <1>0, <2>1, <2>2, <2>3, <2>4, <2>5, <2>6, <2>7, <2>8, <2>9, GoesOn
       DEF Live
<1>2. CASE ~Processable(req[r])
  <2> DEFINE q == [req[r] EXCEPT !.pc = "failing"]
  <2>1. req[r].pc = "parsed"
    BY DEF Serve, At
  <2>2. req' = [req EXCEPT ![r] = q] /\ Idling /\ lock' = lock
    BY <1>0, <1>2 DEF Serve
  <2>3. q \in Request
    BY <1>0 DEF Request, Labels
  <2>4. /\ q.pc = "failing" /\ q.user = req[r].user
        /\ q.born = req[r].born /\ q.lease = req[r].lease
        /\ q.writer = req[r].writer /\ q.file = req[r].file
        /\ (q.ssd <=> req[r].ssd) /\ (q.conn <=> req[r].conn)
        /\ (q.heard <=> req[r].heard) /\ (q.cleaned <=> req[r].cleaned)
        /\ (q.pending <=> req[r].pending)
    BY <1>0 DEF Request
  <2> HIDE DEF q
  <2>5. LeaseFits(q)
    BY <1>0, <2>1, <2>2, <2>4 DEF Sound, LeaseFits, Heard, Filed, Writing
  <2>6. Heard(q)
    BY <1>0, <2>1, <2>2, <2>4 DEF Sound, Heard, Filed, Writing
  <2>7. Filed(q)
    BY <1>0, <2>1, <2>2, <2>4 DEF Sound, Filed, Heard, Writing
  <2>8. Locks(q, r \in lock')
    BY <1>0, <2>1, <2>2, <2>4 DEF Sound, Locks, Heard, Filed, Writing
  <2>9. FileSafe(req[r], q)
    BY <1>0, <2>1, <2>2, <2>4 DEF Sound, FileSafe, Heard, Filed, Writing
  <2> QED BY <1>0, <2>1, <2>2, <2>3, <2>4, <2>5, <2>6, <2>7, <2>8, <2>9, GoesOn
       DEF Live
<1> QED BY <1>1, <1>2

\* The service is done.
LEMMA ServedStep ==
  ASSUME AInv, NEW r \in Requests, Served(r) PROVE AInv' /\ FileKept
<1>0. /\ req \in [Requests -> Request] /\ req[r] \in Request
      /\ lock \subseteq Requests /\ Sound(r)
  BY DEF AInv, AdmissionTypes
<1>1. req[r].pc = "serving" /\ Idling
  BY DEF Served, At
<1>2. PICK f \in {"none", "there", "moved", "deferred"} :
        /\ req[r].file # "there" => f = req[r].file
        /\ Put(r, [req[r] EXCEPT !.pc = "failing", !.file = f])
  BY <1>0 DEF Served, Request
<1> DEFINE q == [req[r] EXCEPT !.pc = "failing", !.file = f]
<1>3. q \in Request
  BY <1>0 DEF Request, Labels
<1>4. /\ q.pc = "failing" /\ q.user = req[r].user
      /\ q.born = req[r].born /\ q.lease = req[r].lease
      /\ q.writer = req[r].writer /\ q.file = f
      /\ (q.ssd <=> req[r].ssd) /\ (q.conn <=> req[r].conn)
      /\ (q.heard <=> req[r].heard) /\ (q.cleaned <=> req[r].cleaned)
      /\ (q.pending <=> req[r].pending)
  BY <1>0 DEF Request
<1>5. /\ req' = [req EXCEPT ![r] = q]
      /\ lock' = IF q.cleaned THEN lock \ {r} ELSE lock
  BY <1>2, <1>4 DEF Put
<1> HIDE DEF q
<1>6. LeaseFits(q)
  BY <1>0, <1>1, <1>2, <1>4, <1>5 DEF Sound, LeaseFits, Heard, Filed, Writing
<1>7. Heard(q)
  BY <1>0, <1>1, <1>2, <1>4, <1>5 DEF Sound, Heard, Filed, Writing
<1>8. Filed(q)
  BY <1>0, <1>1, <1>2, <1>4, <1>5 DEF Sound, Filed, Heard, Writing
<1>9. Locks(q, r \in lock')
  BY <1>0, <1>1, <1>2, <1>4, <1>5 DEF Sound, Locks, Heard, Filed, Writing
<1>10. FileSafe(req[r], q)
  BY <1>0, <1>1, <1>2, <1>4, <1>5 DEF Sound, FileSafe, Heard, Filed, Writing
<1> QED BY <1>0, <1>1, <1>3, <1>4, <1>5, <1>6, <1>7, <1>8, <1>9, <1>10, GoesOn
     DEF Live

\* The response is sent.
LEMMA RespondStep ==
  ASSUME AInv, AdmissionFit, NEW r \in Requests, Respond(r)
  PROVE  AInv' /\ FileKept
<1> DEFINE q == NoRequest
<1>0. /\ req \in [Requests -> Request] /\ req[r] \in Request
      /\ lock \subseteq Requests /\ Sound(r)
  BY DEF AInv, AdmissionTypes
<1>1. /\ req' = [req EXCEPT ![r] = q] /\ Idling /\ lock' = lock
      /\ req[r].pc = "done" /\ ~Writing(req[r])
  BY DEF Respond, At
<1>2. q \in Request
  <2>1. 0 \in 0..MaxTime
    BY DEF AInv, AdmissionTypes, AdmissionFit
  <2> QED BY <2>1 DEF NoRequest, Request, Labels
<1>3. /\ q.pc = "idle" /\ q.lease = "none" /\ q.writer = "none" /\ ~q.ssd
      /\ q.file = "none" /\ q.conn /\ ~q.heard /\ ~q.cleaned /\ ~q.pending
  BY DEF NoRequest
<1> HIDE DEF q
<1>4. LeaseFits(q)
  BY <1>0, <1>1, <1>3 DEF Sound, LeaseFits, Heard, Filed, Writing
<1>5. Heard(q)
  BY <1>0, <1>1, <1>3 DEF Sound, Heard, Filed, Writing
<1>6. Filed(q)
  BY <1>0, <1>1, <1>3 DEF Sound, Filed, Heard, Writing
<1>7. Locks(q, r \in lock')
  BY <1>0, <1>1, <1>3 DEF Sound, Locks, Heard, Filed, Writing
<1>8. FileSafe(req[r], q)
  BY <1>0, <1>1, <1>3 DEF Sound, FileSafe, Heard, Filed, Writing
<1> QED BY <1>0, <1>1, <1>2, <1>3, <1>4, <1>5, <1>6, <1>7, <1>8, GoesOn
     DEF Live, Sound, LeaseFits

\* What cleanup() makes of a request.
LEMMA CleanedIs ==
  ASSUME NEW q \in Request, NEW c \in Cleaned(q)
  PROVE  /\ c \in Request
         /\ c.pc = q.pc /\ c.user = q.user /\ c.born = q.born
         /\ c.lease = q.lease /\ c.writer = q.writer /\ (c.ssd <=> q.ssd)
         /\ (c.conn <=> q.conn) /\ (c.heard <=> q.heard)
         /\ q.cleaned => c = q
         /\ ~q.cleaned /\ Writing(q) =>
              c.pending /\ ~c.cleaned /\ c.file = q.file
         /\ ~q.cleaned /\ ~Writing(q) =>
              /\ c.cleaned /\ (c.pending <=> q.pending)
              /\ c.file # "there"
              /\ q.file # "there" => c.file = q.file
<1>1. CASE q.cleaned
  BY <1>1 DEF Cleaned
<1>2. CASE ~q.cleaned /\ Writing(q)
  <2>1. c = [q EXCEPT !.pending = TRUE]
    BY <1>2 DEF Cleaned
  <2> QED BY <1>2, <2>1 DEF Request
<1>3. CASE ~q.cleaned /\ ~Writing(q)
  <2>1. PICK f \in Removed(q.file) :
          c = [q EXCEPT !.cleaned = TRUE, !.file = f]
    BY <1>3 DEF Cleaned
  <2>2. /\ f \in {"none", "moved", "deferred"}
        /\ q.file # "there" => f = q.file
    BY DEF Removed, Request
  <2> QED BY ZenonT(90), <1>3, <2>1, <2>2 DEF Request
<1> QED BY <1>1, <1>2, <1>3

\* The writer's stream closes.
LEMMA CloseStep ==
  ASSUME AInv, NEW r \in Requests, Close(r) PROVE AInv' /\ FileKept
<1> DEFINE ok == req[r].writer = "finished"
           pc == IF req[r].pc # "writing" THEN req[r].pc
                 ELSE IF ok THEN "parsed" ELSE "failing"
<1>0. /\ req \in [Requests -> Request] /\ req[r] \in Request
      /\ lock \subseteq Requests /\ Sound(r)
  BY DEF AInv, AdmissionTypes
<1>1. req[r].writer \in {"finished", "broken"} /\ Idling
  BY DEF Close
<1>2. PICK f \in {"none", "there", "moved", "deferred"} :
        LET m == [req[r] EXCEPT !.writer = "closed", !.file = f, !.pc = pc] IN
        /\ ok => f = req[r].file
        /\ ~ok => f # "there"
        /\ \E d \in AfterCallback(m) : Put(r, d)
  <2>1. PICK f \in IF ok THEN {req[r].file} ELSE Removed(req[r].file) :
          \E d \in AfterCallback([req[r] EXCEPT !.writer = "closed",
                       !.file = f, !.pc = IF @ # "writing" THEN @
                         ELSE IF ok THEN "parsed" ELSE "failing"]) :
            Put(r, d)
    BY DEF Close
  <2>2. /\ f \in {"none", "there", "moved", "deferred"}
        /\ ok => f = req[r].file
        /\ ~ok => f # "there"
    BY <1>0, <2>1 DEF Removed, Request
  <2>3. [req[r] EXCEPT !.writer = "closed", !.file = f, !.pc = pc] =
          [req[r] EXCEPT !.writer = "closed", !.file = f,
             !.pc = IF @ # "writing" THEN @
                    ELSE IF ok THEN "parsed" ELSE "failing"]
    BY <1>0 DEF Request
  <2> QED BY <2>1, <2>2, <2>3
<1> DEFINE m == [req[r] EXCEPT !.writer = "closed", !.file = f, !.pc = pc]
<1>3. PICK q \in AfterCallback(m) : Put(r, q)
  BY <1>2
<1>4. m \in Request
  BY ZenonT(90), <1>0 DEF Request, Labels
<1>5. /\ m.pc = pc /\ m.user = req[r].user /\ m.born = req[r].born
      /\ m.lease = req[r].lease /\ m.writer = "closed" /\ m.file = f
      /\ (m.ssd <=> req[r].ssd) /\ (m.conn <=> req[r].conn)
      /\ (m.heard <=> req[r].heard) /\ (m.cleaned <=> req[r].cleaned)
      /\ (m.pending <=> req[r].pending)
  BY <1>0 DEF Request
<1> HIDE DEF m
<1>6. /\ q \in Request
      /\ q.pc = pc /\ q.user = req[r].user /\ q.born = req[r].born
      /\ q.lease = req[r].lease /\ q.writer = "closed"
      /\ (q.ssd <=> req[r].ssd) /\ (q.conn <=> req[r].conn)
      /\ (q.heard <=> req[r].heard) /\ (q.pending <=> req[r].pending)
      /\ req[r].cleaned => q.cleaned /\ q.file = f
      /\ req[r].pending => q.cleaned
      /\ q.cleaned => req[r].pending \/ req[r].cleaned
      /\ q.cleaned /\ ~req[r].cleaned => q.file # "there"
      /\ ~q.cleaned => q.file = f
      /\ f # "there" => q.file # "there"
      /\ f = "none" => q.file = "none"
  <2>1. CASE m.pending
    <3>1. q \in Cleaned(m)
      BY <1>3, <2>1 DEF AfterCallback
    <3>2. ~Writing(m)
      BY <1>5 DEF Writing
    <3> QED BY <1>4, <1>5, <2>1, <3>1, <3>2, CleanedIs
  <2>2. CASE ~m.pending
    BY <1>3, <1>4, <1>5, <2>2 DEF AfterCallback
  <2> QED BY <2>1, <2>2
<1>7. /\ req' = [req EXCEPT ![r] = q]
      /\ lock' = IF q.cleaned /\ q.pc # "serving" THEN lock \ {r} ELSE lock
  BY <1>3 DEF Put
<1>8. LeaseFits(q)
  BY <1>0, <1>1, <1>6 DEF Sound, LeaseFits, Filed, Writing
<1>9. Heard(q)
  BY <1>0, <1>1, <1>6 DEF Sound, Heard, Filed, Writing
<1>10. Filed(q)
  BY <1>0, <1>1, <1>2, <1>6 DEF Sound, Filed, Heard, Writing
<1>11. Locks(q, r \in lock')
  BY <1>0, <1>1, <1>6, <1>7 DEF Sound, Locks, Heard, Filed, Writing
<1>12. FileSafe(req[r], q)
  BY <1>0, <1>1, <1>6, <1>7 DEF Sound, FileSafe, Heard, Filed, Writing
<1> QED BY <1>0, <1>1, <1>6, <1>7, <1>8, <1>9, <1>10, <1>11, <1>12, GoesOn
     DEF Live

-----------------------------------------------------------------------------
\* A lease is given back to the bucket it came from.
LEMMA LeaseReturned ==
  ASSUME AInv, AdmissionFit, NEW r \in Requests, NEW q \in Request,
         req' = [req EXCEPT ![r] = q], Live(req[r]), ~Live(q),
         Return(req[r]), UNCHANGED <<now, lastSweep, taken>>
  PROVE  /\ active' \in Int /\ DOMAIN bucket' = DOMAIN bucket
         /\ bucket' \in [DOMAIN bucket' -> Bucket]
         /\ Counted' /\ \A u \in Users : Earned(u)'
<1>1. PICK v : v = req[r].user
  OBVIOUS
<1>2. /\ req \in [Requests -> Request] /\ DOMAIN bucket \subseteq Users
      /\ bucket \in [DOMAIN bucket -> Bucket]
      /\ now \in Nat /\ active \in Int
  BY DEF AInv, AdmissionTypes
<1>3. r \in LiveOnes /\ r \in Leased(v)
  BY <1>1 DEF LiveOnes, Leased
<1>4. LiveOnes' = LiveOnes \ {r}
  BY <1>2 DEF LiveOnes
<1>5. /\ Cardinality(LiveOnes') = Cardinality(LiveOnes) - 1
      /\ Cardinality(LiveOnes') \in Nat
  BY <1>3, <1>4, FiniteLeases, FS_RemoveElement, FS_CardinalityType
<1>6. \A u : Leased(u)' = IF u = v THEN Leased(u) \ {r} ELSE Leased(u)
  BY <1>1, <1>2, <1>3 DEF Leased
<1>7. /\ Cardinality(Leased(v)') = Cardinality(Leased(v)) - 1
      /\ Cardinality(Leased(v)') \in Nat
  <2>1. Leased(v)' = Leased(v) \ {r}
    BY <1>6
  <2> QED BY <1>3, <2>1, FiniteLeases, FS_RemoveElement, FS_CardinalityType
<1>8. v \in DOMAIN bucket /\ req[r].born = bucket[v].born
  BY <1>1, <1>3 DEF AInv, Counted
<1> DEFINE e == [bucket[v] EXCEPT !.active = @ - 1, !.seenAt = now]
<1>9. /\ DOMAIN bucket' = DOMAIN bucket
      /\ \A u \in DOMAIN bucket : bucket'[u] = IF u = v THEN e ELSE bucket[u]
      /\ bucket' = [u \in DOMAIN bucket |-> bucket'[u]]
  <2>1. bucket' = [u \in DOMAIN bucket |->
                     IF u = v /\ bucket[u].born = req[r].born
                     THEN [bucket[u] EXCEPT !.active = @ - 1, !.seenAt = now]
                     ELSE bucket[u]]
    BY <1>1 DEF Return
  <2>2. bucket'[v] = e
    BY <1>8, <2>1
  <2>3. \A u \in DOMAIN bucket : u # v => bucket'[u] = bucket[u]
    BY <2>1
  <2>4. DOMAIN bucket' = DOMAIN bucket
    BY <2>1
  <2>5. bucket' = [u \in DOMAIN bucket' |-> bucket'[u]]
    BY <2>1
  <2> HIDE DEF e
  <2> QED BY <2>2, <2>3, <2>4, <2>5
<1>10. bucket[v].active = Cardinality(Leased(v)) /\ bucket[v].active <= PerUser
  BY <1>8 DEF AInv, Counted
<1>11. /\ e \in Bucket /\ e.tokens = bucket[v].tokens /\ e.seenAt = now
      /\ e.refillAt = bucket[v].refillAt /\ e.born = bucket[v].born
      /\ e.active = Cardinality(Leased(v)')
  BY <1>2, <1>7, <1>8, <1>10 DEF Bucket
<1> HIDE DEF e
<1>12. bucket' \in [DOMAIN bucket' -> Bucket]
  BY <1>2, <1>9, <1>11
<1>13. active' = Cardinality(LiveOnes') /\ active' <= MaxActive
  <2>1. active' = active - 1
    BY DEF Return
  <2>2. active = Cardinality(LiveOnes) /\ active <= MaxActive
    BY DEF AInv, Counted
  <2> QED BY <1>2, <1>5, <2>1, <2>2 DEF AdmissionFit
<1>14. ASSUME NEW s \in LiveOnes'
       PROVE  /\ req'[s].user \in DOMAIN bucket'
              /\ req'[s].born = bucket'[req'[s].user].born
  <2>1. s \in LiveOnes /\ req'[s] = req[s]
    BY <1>2, <1>4, <1>14 DEF LiveOnes
  <2> QED BY <1>9, <1>11, <2>1 DEF AInv, Counted
<1>15. ASSUME NEW u \in DOMAIN bucket'
       PROVE  /\ bucket'[u].active = Cardinality(Leased(u)')
              /\ bucket'[u].active <= PerUser
  <2>1. CASE u = v
    <3>1. bucket'[v] = e
      BY <1>8, <1>9
    <3>2. e.active <= PerUser
      BY <1>7, <1>10, <1>11, FiniteLeases DEF AdmissionFit
    <3> QED BY <1>11, <2>1, <3>1, <3>2
  <2>2. CASE u # v
    BY <1>6, <1>9, <1>15, <2>2 DEF AInv, Counted
  <2> QED BY <2>1, <2>2
<1>16. Counted'
  BY <1>13, <1>14, <1>15 DEF Counted
<1>17. ASSUME NEW u \in Users PROVE Earned(u)'
  <2>1. CASE u = v
    <3>1. bucket[v] \in Bucket
      BY <1>2, <1>8
    <3> QED BY <1>2, <1>8, <1>9, <1>11, <2>1, <3>1 DEF AInv, Earned, Bucket
  <2>2. CASE u # v
    BY <1>9, <2>2 DEF AInv, Earned
  <2> QED BY <2>1, <2>2
<1> QED BY <1>9, <1>12, <1>13, <1>5, <1>16, <1>17

\* A request goes on as q, without its lease.
LEMMA GoesWithout ==
  ASSUME AInv, AdmissionFit, NEW r \in Requests, NEW q \in Request,
         req' = [req EXCEPT ![r] = q], ~Live(q),
         Return(req[r]), UNCHANGED <<now, lastSweep, taken>>,
         lock' \subseteq Requests, lock' \ {r} = lock \ {r},
         LeaseFits(q), Heard(q), Filed(q), Locks(q, r \in lock'),
         FileSafe(req[r], q)
  PROVE  AInv' /\ FileKept
<1>1. CASE ~Live(req[r])
  <2>1. Idling
    BY <1>1 DEF Return, Idling
  <2> QED BY <1>1, <2>1, GoesOn
<1>2. CASE Live(req[r])
  <2>1. Moved(r) /\ req'[r] = q
    BY DEF AInv, AdmissionTypes, Moved
  <2>2. Sound(r)'
    BY <2>1 DEF Sound
  <2>3. \A s \in Requests : Sound(s)'
    BY <2>1, <2>2, OthersSound
  <2>4. /\ active' \in Int /\ DOMAIN bucket' = DOMAIN bucket
        /\ bucket' \in [DOMAIN bucket' -> Bucket]
        /\ Counted' /\ \A u \in Users : Earned(u)'
    BY <1>2, LeaseReturned
  <2>5. AdmissionTypes'
    BY <2>1, <2>4 DEF AInv, AdmissionTypes, Moved
  <2> QED BY <2>1, <2>3, <2>4, <2>5, CarefulStep DEF AInv
<1> QED BY <1>1, <1>2

\* The request is over.
LEMMA FinalizeStep ==
  ASSUME AInv, AdmissionFit, NEW r \in Requests, Finalize(r)
  PROVE  AInv' /\ FileKept
<1>0. /\ req \in [Requests -> Request] /\ req[r] \in Request
      /\ lock \subseteq Requests /\ Sound(r)
  BY DEF AInv, AdmissionTypes
<1> DEFINE m == [req[r] EXCEPT !.pc = "done", !.heard = FALSE,
                                !.lease = "released"]
<1>1. PICK q \in IF req[r].heard THEN Cleaned(m) ELSE {m} : Put(r, q)
  BY DEF Finalize
<1>2. m \in Request
  BY <1>0 DEF Request, Labels
<1>3. /\ m.pc = "done" /\ m.user = req[r].user /\ m.born = req[r].born
      /\ m.lease = "released" /\ m.writer = req[r].writer
      /\ m.file = req[r].file
      /\ (m.ssd <=> req[r].ssd) /\ (m.conn <=> req[r].conn)
      /\ ~m.heard /\ (m.cleaned <=> req[r].cleaned)
      /\ (m.pending <=> req[r].pending)
  BY <1>0 DEF Request
<1>4. req[r].pc = "failing" /\ Writing(m) = Writing(req[r])
  BY <1>3 DEF Finalize, At, Writing
<1> HIDE DEF m
<1>5. /\ q \in Request /\ q.pc = "done" /\ q.lease = "released"
      /\ q.writer = req[r].writer /\ (q.ssd <=> req[r].ssd) /\ ~q.heard
      /\ req[r].cleaned => q.cleaned /\ q.file = req[r].file
      /\ ~req[r].cleaned /\ req[r].heard /\ Writing(req[r]) =>
           q.pending /\ ~q.cleaned /\ q.file = req[r].file
      /\ ~req[r].cleaned /\ req[r].heard /\ ~Writing(req[r]) =>
           q.cleaned /\ q.file # "there"
      /\ ~req[r].heard => (q.cleaned <=> req[r].cleaned) /\ q.file = req[r].file
  <2>1. CASE req[r].heard
    BY <1>1, <1>2, <1>3, <1>4, <2>1, CleanedIs
  <2>2. CASE ~req[r].heard
    BY <1>1, <1>2, <1>3, <2>2
  <2> QED BY <2>1, <2>2
<1>6. /\ req' = [req EXCEPT ![r] = q]
      /\ lock' = IF q.cleaned THEN lock \ {r} ELSE lock
  BY <1>1, <1>5 DEF Put
<1>7. LeaseFits(q)
  BY <1>5 DEF LeaseFits
<1>8. Heard(q)
  BY <1>5 DEF Heard
<1>9. Filed(q)
  BY <1>0, <1>4, <1>5 DEF Sound, Filed, Heard, Writing
<1>10. Locks(q, r \in lock')
  BY <1>0, <1>4, <1>5, <1>6 DEF Sound, Locks, Heard, Filed, Writing
<1>11. FileSafe(req[r], q)
  BY <1>0, <1>4, <1>5, <1>6 DEF Sound, FileSafe, Heard, Filed, Writing
<1> QED BY <1>0, <1>5, <1>6, <1>7, <1>8, <1>9, <1>10, <1>11, GoesWithout
     DEF Live, Finalize

\* The client leaves.
LEMMA DisconnectStep ==
  ASSUME AInv, AdmissionFit, NEW r \in Requests, Disconnect(r)
  PROVE  AInv' /\ FileKept
<1>0. /\ req \in [Requests -> Request] /\ req[r] \in Request
      /\ lock \subseteq Requests /\ Sound(r)
  BY DEF AInv, AdmissionTypes
<1> DEFINE w == IF req[r].writer \in {"open", "finished"} THEN "broken"
                ELSE req[r].writer
           l == IF req[r].lease = "ingress" THEN "released" ELSE req[r].lease
           m == [req[r] EXCEPT !.conn = FALSE, !.lease = l]
           mp == [m EXCEPT !.pending = TRUE]
<1>1. /\ req[r].pc \notin {"idle", "done"}
      /\ \E c \in OnDisconnect([req[r] EXCEPT !.conn = FALSE,
               !.lease = IF @ = "ingress" THEN "released" ELSE @]) :
           Put(r, [c EXCEPT !.writer =
                     IF @ \in {"open", "finished"} THEN "broken" ELSE @])
  BY DEF Disconnect, At
<1>2. m = [req[r] EXCEPT !.conn = FALSE,
             !.lease = IF @ = "ingress" THEN "released" ELSE @]
  BY <1>0 DEF Request
<1>3. PICK c \in OnDisconnect(m) :
        Put(r, [c EXCEPT !.writer =
                  IF @ \in {"open", "finished"} THEN "broken" ELSE @])
  BY <1>1, <1>2
<1>4. m \in Request /\ mp \in Request
  BY <1>0 DEF Request
<1>5. /\ m.pc = req[r].pc /\ m.user = req[r].user /\ m.born = req[r].born
      /\ m.lease = l /\ m.writer = req[r].writer /\ m.file = req[r].file
      /\ (m.ssd <=> req[r].ssd) /\ ~m.conn /\ (m.heard <=> req[r].heard)
      /\ (m.cleaned <=> req[r].cleaned) /\ (m.pending <=> req[r].pending)
  BY <1>0 DEF Request
<1>6. /\ mp.pc = m.pc /\ mp.user = m.user /\ mp.born = m.born
      /\ mp.lease = m.lease /\ mp.writer = m.writer /\ mp.file = m.file
      /\ (mp.ssd <=> m.ssd) /\ ~mp.conn /\ (mp.heard <=> m.heard)
      /\ (mp.cleaned <=> m.cleaned) /\ mp.pending
  BY <1>0 DEF Request
<1>7. ~m.heard => c = m
  BY <1>3 DEF OnDisconnect
<1>8. m.heard /\ m.ssd => c = mp
  BY <1>3 DEF OnDisconnect
<1>9. m.heard /\ ~m.ssd => c \in Cleaned(mp)
  BY <1>3 DEF OnDisconnect
<1> HIDE DEF m, mp
<1>10. Writing(mp) = Writing(req[r])
  BY <1>5, <1>6 DEF Writing
<1>11. /\ c \in Request
       /\ c.pc = req[r].pc /\ c.user = req[r].user /\ c.born = req[r].born
       /\ c.lease = l /\ c.writer = req[r].writer
       /\ (c.ssd <=> req[r].ssd) /\ ~c.conn /\ (c.heard <=> req[r].heard)
       /\ req[r].cleaned => c.cleaned
       /\ c.cleaned /\ ~req[r].cleaned =>
            c.file # "there" /\ ~Writing(req[r]) /\ ~c.ssd /\ c.heard
       /\ req[r].file # "there" => c.file = req[r].file
       /\ req[r].cleaned \/ Writing(req[r]) \/ c.ssd => c.file = req[r].file
       /\ ~c.heard => /\ c.file = req[r].file
                      /\ (c.pending <=> req[r].pending)
                      /\ (c.cleaned <=> req[r].cleaned)
  <2>1. CASE ~m.heard
    BY <1>4, <1>5, <1>7, <2>1
  <2>2. CASE m.heard /\ m.ssd
    BY <1>4, <1>5, <1>6, <1>8, <2>2
  <2>3. CASE m.heard /\ ~m.ssd
    BY <1>4, <1>5, <1>6, <1>9, <1>10, <2>3, CleanedIs
  <2> QED BY <2>1, <2>2, <2>3
<1> DEFINE q == [c EXCEPT !.writer = w]
<1>12. Put(r, q)
  BY <1>3, <1>11 DEF Request
<1>13. /\ q \in Request
       /\ q.pc = req[r].pc /\ q.user = req[r].user /\ q.born = req[r].born
       /\ q.lease = l /\ q.writer = w /\ q.file = c.file
       /\ (q.ssd <=> req[r].ssd) /\ ~q.conn /\ (q.heard <=> req[r].heard)
       /\ (q.cleaned <=> c.cleaned) /\ (q.pending <=> c.pending)
  BY <1>0, <1>11 DEF Request
<1> HIDE DEF q
<1>14. /\ req' = [req EXCEPT ![r] = q]
       /\ lock' = IF q.cleaned /\ q.pc # "serving" THEN lock \ {r} ELSE lock
  BY <1>12 DEF Put
<1>15. LeaseFits(q)
  BY <1>0, <1>1, <1>13 DEF Sound, LeaseFits
<1>16. Heard(q)
  BY <1>0, <1>1, <1>11, <1>13 DEF Sound, Heard, Filed, Writing
<1>17. Filed(q)
  BY <1>0, <1>1, <1>11, <1>13 DEF Sound, Filed, Heard, Writing
<1>18. Locks(q, r \in lock')
  BY <1>0, <1>1, <1>11, <1>13, <1>14
     DEF Sound, Locks, Heard, Filed, Writing
<1>19. FileSafe(req[r], q)
  BY <1>0, <1>1, <1>11, <1>13, <1>14
     DEF Sound, FileSafe, Heard, Filed, Writing
<1>20. CASE req[r].lease = "ingress"
  BY <1>0, <1>13, <1>14, <1>15, <1>16, <1>17, <1>18, <1>19, <1>20, GoesWithout
     DEF Live, Disconnect
<1>21. CASE req[r].lease # "ingress"
  BY <1>0, <1>13, <1>14, <1>15, <1>16, <1>17, <1>18, <1>19, <1>21, GoesOn
     DEF Live, Disconnect, Idling
<1> QED BY <1>20, <1>21

-----------------------------------------------------------------------------
\* Multiplying keeps the order, and distributes.
LEMMA RateTimes ==
  ASSUME NEW n \in Nat, NEW a \in Nat, NEW b \in Nat
  PROVE  /\ n * a \in Nat /\ n * (a + b) = n * a + n * b
         /\ a <= b => n * a <= n * b
         /\ a <= b => n * (b - a) = n * b - n * a /\ (b - a) * n = n * (b - a)
<1>1. n * a \in Nat /\ n * b \in Nat /\ n * (a + b) = n * a + n * b
  OBVIOUS
<1>2. ASSUME a <= b
      PROVE  /\ n * (b - a) \in Nat
             /\ n * (b - a) = n * b - n * a /\ (b - a) * n = n * (b - a)
  <2>1. b - a \in Nat
    BY <1>2
  <2> QED BY <2>1
<1>3. a <= b => n * a <= n * b
  BY <1>1, <1>2
<1> QED BY <1>1, <1>2, <1>3

\* Who has no bucket after the sweep has no lease, and has drawn no more than
\* would have been given without any burst.
LEMMA Dropped ==
  ASSUME AInv, AdmissionFit, NEW u \in Users, u \notin Kept
  PROVE  taken[u] <= Rate * now /\ Leased(u) = {}
<1>1. CASE u \notin DOMAIN bucket
  <2>1. taken[u] <= Rate * now
    BY <1>1 DEF AInv, Earned
  <2>2. Leased(u) = {}
    BY <1>1 DEF AInv, Counted, Leased, LiveOnes
  <2> QED BY <2>1, <2>2
<1>2. CASE u \in DOMAIN bucket
  <2> DEFINE e == bucket[u]
  <2>1. e \in Bucket /\ now \in Nat /\ taken[u] \in Nat
    BY <1>2 DEF AInv, AdmissionTypes
  <2>2. e.active = 0 /\ now - e.seenAt >= Idle
    BY <1>2 DEF Kept, Stale
  <2>3. /\ taken[u] + e.tokens <= Burst + Rate * e.refillAt
        /\ e.refillAt <= e.seenAt
    BY <1>2 DEF AInv, Earned
  <2>4. /\ e.tokens \in Nat /\ e.refillAt \in Nat /\ e.seenAt \in Nat
    BY <2>1 DEF Bucket
  <2> HIDE DEF e
  <2>5. Rate \in Nat /\ Idle \in Nat /\ Burst \in Nat /\ Burst <= Rate * Idle
    BY DEF AdmissionFit
  <2>6. e.refillAt + Idle <= now /\ e.refillAt + Idle \in Nat
    BY <2>1, <2>2, <2>3, <2>4, <2>5
  <2>7. /\ Rate * (e.refillAt + Idle) = Rate * e.refillAt + Rate * Idle
        /\ Rate * (e.refillAt + Idle) <= Rate * now
    BY <2>1, <2>4, <2>5, <2>6, RateTimes
  <2>8. /\ Rate * e.refillAt \in Nat /\ Rate * Idle \in Nat
        /\ Rate * now \in Nat
    BY <2>1, <2>4, <2>5, RateTimes
  <2>9. taken[u] <= Rate * now
    BY <2>1, <2>3, <2>4, <2>5, <2>7, <2>8
  <2>10. Cardinality(Leased(u)) = 0
    BY <1>2, <2>2 DEF AInv, Counted, e
  <2> QED BY <2>9, <2>10, FiniteLeases, FS_EmptySet
<1> QED BY <1>1, <1>2

\* The bucket that take() draws from: full at most, and up to date.
LEMMA EntryIs ==
  ASSUME AInv, AdmissionFit, NEW u \in Users
  PROVE  /\ Entry(u) \in Bucket
         /\ taken[u] + Entry(u).tokens <= Burst + Rate * now
         /\ Entry(u).refillAt = now /\ Entry(u).seenAt = now
         /\ Entry(u).active = Cardinality(Leased(u))
         /\ Entry(u).active <= PerUser
         /\ \A r \in Leased(u) : req[r].born = Entry(u).born
<1>0. /\ now \in Nat /\ now \in 0..MaxTime /\ taken[u] \in Nat
      /\ Burst \in Nat /\ Rate \in Nat /\ PerUser \in Nat
  BY DEF AInv, AdmissionTypes, AdmissionFit
<1>1. CASE u \in Kept
  <2> DEFINE e == bucket[u]
             more == e.tokens + (now - e.refillAt) * Rate
             full == Lesser(Burst, more)
  <2>1. u \in DOMAIN bucket
    BY <1>1 DEF Kept
  <2>2. e \in Bucket
    BY <2>1 DEF AInv, AdmissionTypes
  <2>3. /\ taken[u] + e.tokens <= Burst + Rate * e.refillAt
        /\ e.refillAt <= e.seenAt /\ e.seenAt <= now
    BY <2>1 DEF AInv, Earned
  <2>4. /\ e.active = Cardinality(Leased(u)) /\ e.active <= PerUser
        /\ \A r \in Leased(u) : req[r].born = e.born
    BY <2>1 DEF AInv, Counted, Leased, LiveOnes
  <2>5. Entry(u) = [e EXCEPT !.tokens = full, !.refillAt = now, !.seenAt = now]
    BY <1>1, <2>2 DEF Entry, Bucket
  <2>6. e.tokens \in Nat /\ e.refillAt \in Nat /\ e.refillAt <= now
    BY <2>2, <2>3, <1>0 DEF Bucket
  <2>7. full \in Nat /\ taken[u] + full <= Burst + Rate * now
    <3> HIDE DEF e
    <3>1. /\ (now - e.refillAt) * Rate = Rate * now - Rate * e.refillAt
          /\ Rate * e.refillAt <= Rate * now
          /\ Rate * now \in Nat /\ Rate * e.refillAt \in Nat
      BY <1>0, <2>6, RateTimes
    <3>2. more \in Nat /\ taken[u] + more <= Burst + Rate * now
      BY <1>0, <2>3, <2>6, <3>1
    <3> HIDE DEF more
    <3> QED BY <1>0, <3>2 DEF Lesser
  <2> HIDE DEF full
  <2> QED BY <1>0, <2>2, <2>4, <2>5, <2>7 DEF Bucket
<1>2. CASE u \notin Kept
  <2>1. Entry(u) = [tokens |-> Burst, refillAt |-> now, seenAt |-> now,
                    active |-> 0, born |-> now]
    BY <1>2 DEF Entry
  <2>2. taken[u] <= Rate * now /\ Leased(u) = {}
    BY <1>2, Dropped
  <2>3. Cardinality(Leased(u)) = 0
    BY <2>2, FS_EmptySet
  <2>4. Rate * now \in Nat
    BY <1>0, RateTimes
  <2> QED BY <1>0, <2>1, <2>2, <2>3, <2>4 DEF Bucket
<1> QED BY <1>1, <1>2

\* A user whose bucket is only swept.
LEMMA OnlySwept ==
  ASSUME AInv, AdmissionFit, NEW v \in Users, now' = now,
         taken'[v] = taken[v], Leased(v)' = Leased(v),
         v \in DOMAIN bucket' <=> v \in Kept,
         v \in Kept => bucket'[v] = bucket[v]
  PROVE  /\ Earned(v)'
         /\ v \in DOMAIN bucket' =>
              /\ bucket'[v] \in Bucket /\ bucket'[v].active <= PerUser
              /\ bucket'[v].active = Cardinality(Leased(v)')
         /\ \A r \in Leased(v) :
              v \in DOMAIN bucket' /\ req[r].born = bucket'[v].born
<1>1. CASE v \in Kept
  <2>1. v \in DOMAIN bucket
    BY <1>1 DEF Kept
  <2>2. bucket[v] \in Bucket
    BY <2>1 DEF AInv, AdmissionTypes
  <2>3. Earned(v)'
    BY <1>1, <2>1 DEF AInv, Earned
  <2>4. /\ bucket[v].active <= PerUser
        /\ bucket[v].active = Cardinality(Leased(v))
        /\ \A r \in Leased(v) : req[r].born = bucket[v].born
    BY <2>1 DEF AInv, Counted, Leased, LiveOnes
  <2> QED BY <1>1, <2>2, <2>3, <2>4
<1>2. CASE v \notin Kept
  <2>1. taken[v] <= Rate * now /\ Leased(v) = {}
    BY <1>2, Dropped
  <2>2. Earned(v)'
    BY <1>2, <2>1 DEF Earned
  <2> QED BY <1>2, <2>1, <2>2
<1> QED BY <1>1, <1>2

\* A refusal sweeps, and may make the user a bucket.
LEMMA ThrottleStep ==
  ASSUME AInv, AdmissionFit, NEW r \in Requests, NEW u \in Users,
         Throttle(r, u)
  PROVE  AInv'
<1> DEFINE e == Entry(u)
<1>0. /\ lastSweep' = now /\ UNCHANGED <<now, active, taken, req, lock>>
      /\ now \in Nat /\ Kept \subseteq Users
  BY DEF Throttle, AInv, AdmissionTypes, Kept
<1>1. /\ \A s : Leased(s)' = Leased(s)
      /\ LiveOnes' = LiveOnes
  BY <1>0 DEF Leased, LiveOnes
<1>2. \/ bucket' = [v \in Kept |-> bucket[v]]
      \/ bucket' = With(u, e)
  BY DEF Throttle
<1>3. /\ DOMAIN bucket' \subseteq Users
      /\ bucket' = [v \in DOMAIN bucket' |-> bucket'[v]]
  BY <1>0, <1>2 DEF With
<1>4. ASSUME NEW v \in Users
      PROVE  /\ Earned(v)'
             /\ v \in DOMAIN bucket' =>
                  /\ bucket'[v] \in Bucket /\ bucket'[v].active <= PerUser
                  /\ bucket'[v].active = Cardinality(Leased(v)')
             /\ \A s \in Leased(v) :
                  v \in DOMAIN bucket' /\ req[s].born = bucket'[v].born
  <2>1. CASE v = u /\ bucket' = With(u, e)
    <3>1. u \in DOMAIN bucket' /\ bucket'[u] = e
      BY <2>1 DEF With
    <3> HIDE DEF e
    <3>2. /\ e \in Bucket /\ taken[u] + e.tokens <= Burst + Rate * now
          /\ e.refillAt = now /\ e.seenAt = now
          /\ e.active = Cardinality(Leased(u)) /\ e.active <= PerUser
          /\ \A s \in Leased(u) : req[s].born = e.born
      BY EntryIs DEF e
    <3>3. Earned(u)'
      BY <1>0, <3>1, <3>2 DEF Earned
    <3> QED BY <1>1, <2>1, <3>1, <3>2, <3>3
  <2>2. CASE v # u \/ bucket' # With(u, e)
    <3>1. /\ v \in DOMAIN bucket' <=> v \in Kept
          /\ v \in Kept => bucket'[v] = bucket[v]
      BY <1>2, <2>2 DEF With
    <3> QED BY <1>0, <1>1, <3>1, OnlySwept
  <2> QED BY <2>1, <2>2
<1>5. AdmissionTypes'
  BY <1>0, <1>3, <1>4 DEF AInv, AdmissionTypes
<1>6. Counted'
  <2>1. \A s \in LiveOnes : s \in Leased(req[s].user) /\ req[s].user \in Users
    BY DEF LiveOnes, Leased, AInv, Counted, AdmissionTypes
  <2> QED BY <1>0, <1>1, <1>3, <1>4, <2>1 DEF AInv, Counted
<1>7. \A s \in Requests : Sound(s)'
  BY <1>0 DEF AInv, Sound
<1> QED BY <1>4, <1>5, <1>6, <1>7 DEF AInv

\* A second passes.
LEMMA TickStep ==
  ASSUME AInv, AdmissionFit, Tick PROVE AInv'
<1>0. /\ now \in 0..MaxTime /\ now' = now + 1 /\ now < MaxTime
      /\ UNCHANGED <<lastSweep, bucket, active, taken, req, lock>>
      /\ Rate \in Nat /\ MaxTime \in Nat
  BY DEF Tick, AInv, AdmissionTypes, AdmissionFit
<1>1. AdmissionTypes'
  BY <1>0 DEF AInv, AdmissionTypes
<1>2. ASSUME NEW u \in Users PROVE Earned(u)'
  <2>1. /\ Rate * now \in Nat /\ Rate * (now + 1) \in Nat
        /\ Rate * now <= Rate * (now + 1)
    BY <1>0, RateTimes
  <2>2. taken[u] \in Nat
    BY DEF AInv, AdmissionTypes
  <2>3. CASE u \in DOMAIN bucket
    <3>1. bucket[u] \in Bucket
      BY <2>3 DEF AInv, AdmissionTypes
    <3> QED BY <1>0, <2>3, <3>1 DEF AInv, Earned, Bucket
  <2>4. CASE u \notin DOMAIN bucket
    BY <1>0, <2>1, <2>2, <2>4 DEF AInv, Earned
  <2> QED BY <2>3, <2>4
<1>3. Counted'
  BY <1>0 DEF AInv, Counted, LiveOnes, Leased
<1>4. \A s \in Requests : Sound(s)'
  BY <1>0 DEF AInv, Sound
<1> QED BY <1>1, <1>2, <1>3, <1>4 DEF AInv

\* A token is drawn, and a lease given if there is room.
LEMMA EnterStep ==
  ASSUME AInv, AdmissionFit, NEW r \in Requests, NEW u \in Users, Enter(r, u)
  PROVE  AInv'
<1> DEFINE e == Entry(u)
           more == IF Crowded(e) THEN e.active ELSE e.active + 1
           f == [e EXCEPT !.tokens = @ - 1, !.active = more]
           q == [req[r] EXCEPT !.pc = "lookup", !.user = u, !.born = e.born,
                               !.lease = "ingress"]
<1>0. /\ lastSweep' = now /\ UNCHANGED <<now, lock>> /\ now \in Nat
      /\ taken \in [Users -> Nat] /\ taken' = [taken EXCEPT ![u] = @ + 1]
      /\ req \in [Requests -> Request] /\ req[r] \in Request
      /\ req[r].pc = "idle" /\ Sound(r) /\ lock \subseteq Requests
      /\ active \in Int /\ Kept \subseteq Users
  BY DEF Enter, AInv, AdmissionTypes, Kept, At
<1>1. /\ e \in Bucket /\ taken[u] + e.tokens <= Burst + Rate * now
      /\ e.refillAt = now /\ e.seenAt = now
      /\ e.active = Cardinality(Leased(u)) /\ e.active <= PerUser
      /\ \A s \in Leased(u) : req[s].born = e.born
  BY EntryIs
<1>2. /\ e.tokens >= 1
      /\ bucket' = With(u, [e EXCEPT !.tokens = @ - 1,
                              !.active = IF Crowded(e) THEN @ ELSE @ + 1])
      /\ active' = IF Crowded(e) THEN active ELSE active + 1
      /\ req' = IF Crowded(e) THEN req
                ELSE [req EXCEPT ![r].pc = "lookup", ![r].user = u,
                        ![r].born = e.born, ![r].lease = "ingress"]
  BY DEF Enter
<1> HIDE DEF e
<1>3. f = [e EXCEPT !.tokens = @ - 1,
             !.active = IF Crowded(e) THEN @ ELSE @ + 1]
  BY <1>1 DEF Bucket
<1>4. /\ bucket' = With(u, f)
      /\ ~Crowded(e) => req' = [req EXCEPT ![r] = q]
      /\ q \in Request
  <2>1. bucket' = With(u, f)
    BY <1>2, <1>3
  <2>2. q \in Request
    BY <1>0, <1>1 DEF Bucket, Request, Labels
  <2>3. ~Crowded(e) => req' = [req EXCEPT ![r] = q]
    BY <1>0, <1>2
  <2> QED BY <2>1, <2>2, <2>3
<1>5. /\ f \in Bucket /\ f.tokens = e.tokens - 1 /\ f.active = more
      /\ f.refillAt = now /\ f.seenAt = now /\ f.born = e.born
  <2>1. e.active \in Nat /\ e.tokens - 1 \in Nat /\ more \in Nat
    BY <1>1, <1>2 DEF Bucket
  <2> HIDE DEF more
  <2> QED BY <1>1, <2>1 DEF Bucket
<1>6. /\ q.pc = "lookup" /\ q.user = u /\ q.born = e.born
      /\ q.lease = "ingress" /\ q.writer = req[r].writer
      /\ q.file = req[r].file /\ (q.ssd <=> req[r].ssd)
      /\ (q.conn <=> req[r].conn) /\ (q.heard <=> req[r].heard)
      /\ (q.cleaned <=> req[r].cleaned) /\ (q.pending <=> req[r].pending)
  BY <1>0 DEF Request
<1> HIDE DEF f, q
<1>7. /\ DOMAIN bucket' \subseteq Users /\ u \in DOMAIN bucket'
      /\ bucket' = [v \in DOMAIN bucket' |-> bucket'[v]] /\ bucket'[u] = f
      /\ \A v \in Users \ {u} :
           /\ v \in DOMAIN bucket' <=> v \in Kept
           /\ v \in Kept => bucket'[v] = bucket[v]
  BY <1>0, <1>4 DEF With
<1>8. /\ taken' \in [Users -> Nat] /\ taken'[u] = taken[u] + 1
      /\ \A v \in Users \ {u} : taken'[v] = taken[v]
  BY <1>0
<1>9. ~Live(req[r]) /\ Live(q)
  BY <1>0, <1>6 DEF Live, Sound, LeaseFits
<1>10. \A v \in Users \ {u} : Leased(v)' = Leased(v)
  <2>1. CASE Crowded(e)
    BY <1>2, <2>1 DEF Leased
  <2>2. CASE ~Crowded(e)
    BY <1>0, <1>4, <1>6, <1>9, <2>2 DEF Leased
  <2> QED BY <2>1, <2>2
<1>11. /\ more = Cardinality(Leased(u)') /\ more <= PerUser
       /\ active' = Cardinality(LiveOnes') /\ active' <= MaxActive
  <2>1. active = Cardinality(LiveOnes) /\ active <= MaxActive
    BY DEF AInv, Counted
  <2>2. CASE Crowded(e)
    <3>1. Leased(u)' = Leased(u) /\ LiveOnes' = LiveOnes
      BY <1>2, <2>2 DEF Leased, LiveOnes
    <3> QED BY <1>1, <1>2, <2>1, <2>2, <3>1
  <2>3. CASE ~Crowded(e)
    <3>1. /\ Leased(u)' = Leased(u) \cup {r} /\ r \notin Leased(u)
          /\ LiveOnes' = LiveOnes \cup {r} /\ r \notin LiveOnes
      BY <1>0, <1>4, <1>6, <1>9, <2>3 DEF Leased, LiveOnes
    <3>2. /\ Cardinality(Leased(u)') = Cardinality(Leased(u)) + 1
          /\ Cardinality(LiveOnes') = Cardinality(LiveOnes) + 1
      BY <3>1, FiniteLeases, FS_AddElement
    <3>3. e.active < PerUser /\ active < MaxActive
      BY <1>0, <1>1, <2>3, FiniteLeases DEF Crowded, AdmissionFit
    <3> QED BY <1>0, <1>1, <1>2, <2>1, <2>3, <3>2, <3>3, FiniteLeases
         DEF AdmissionFit
  <2> QED BY <2>2, <2>3
<1>12. \A s \in LiveOnes' :
         /\ req'[s].user \in DOMAIN bucket'
         /\ req'[s].born = bucket'[req'[s].user].born
  <2>1. ASSUME NEW s \in LiveOnes
        PROVE  /\ req[s].user \in DOMAIN bucket'
               /\ req[s].born = bucket'[req[s].user].born
    <3>1. s \in Leased(req[s].user) /\ req[s].user \in Users
      BY DEF LiveOnes, Leased, AInv, Counted, AdmissionTypes
    <3>2. CASE req[s].user = u
      BY <1>1, <1>5, <1>7, <3>1, <3>2
    <3>3. CASE req[s].user # u
      <4>1. PICK v \in Users \ {u} : v = req[s].user
        BY <3>1, <3>3
      <4>2. /\ now' = now /\ taken'[v] = taken[v] /\ Leased(v)' = Leased(v)
            /\ v \in DOMAIN bucket' <=> v \in Kept
            /\ v \in Kept => bucket'[v] = bucket[v]
        <5>1. now' = now /\ taken'[v] = taken[v]
          BY <1>0, <1>8
        <5>2. Leased(v)' = Leased(v)
          BY <1>10
        <5>3. /\ v \in DOMAIN bucket' <=> v \in Kept
              /\ v \in Kept => bucket'[v] = bucket[v]
          BY <1>7
        <5> QED BY <5>1, <5>2, <5>3
      <4>3. \A t \in Leased(v) :
              v \in DOMAIN bucket' /\ req[t].born = bucket'[v].born
        BY <4>2, OnlySwept
      <4> QED BY <3>1, <4>1, <4>3
    <3> QED BY <3>2, <3>3
  <2>2. CASE Crowded(e)
    BY <1>2, <2>1, <2>2 DEF LiveOnes
  <2>3. CASE ~Crowded(e)
    <3>1. /\ LiveOnes' = LiveOnes \cup {r} /\ req'[r] = q
          /\ \A s \in LiveOnes : req'[s] = req[s]
      BY <1>0, <1>4, <1>9, <2>3 DEF LiveOnes
    <3> QED BY <1>5, <1>6, <1>7, <2>1, <3>1
  <2> QED BY <2>2, <2>3
<1>13. ASSUME NEW v \in Users
       PROVE  /\ Earned(v)'
              /\ v \in DOMAIN bucket' =>
                   /\ bucket'[v] \in Bucket /\ bucket'[v].active <= PerUser
                   /\ bucket'[v].active = Cardinality(Leased(v)')
  <2>1. CASE v = u
    <3>1. taken[u] \in Nat /\ e.tokens \in Nat
      BY <1>0, <1>1 DEF Bucket
    <3>2. Earned(u)'
      BY <1>0, <1>1, <1>5, <1>7, <1>8, <3>1 DEF Earned
    <3> QED BY <1>5, <1>7, <1>11, <2>1, <3>2
  <2>2. CASE v # u
    <3>1. /\ now' = now /\ taken'[v] = taken[v] /\ Leased(v)' = Leased(v)
          /\ v \in DOMAIN bucket' <=> v \in Kept
          /\ v \in Kept => bucket'[v] = bucket[v]
      <4>1. now' = now /\ taken'[v] = taken[v]
        BY <1>0, <1>8, <2>2
      <4>2. Leased(v)' = Leased(v)
        BY <1>10, <2>2
      <4>3. /\ v \in DOMAIN bucket' <=> v \in Kept
            /\ v \in Kept => bucket'[v] = bucket[v]
        BY <1>7, <2>2
      <4> QED BY <4>1, <4>2, <4>3
    <3> QED BY <3>1, OnlySwept
  <2> QED BY <2>1, <2>2
<1>14. Counted'
  BY <1>7, <1>11, <1>12, <1>13 DEF Counted
<1>15. req' \in [Requests -> Request] /\ \A s \in Requests : Sound(s)'
  <2>1. CASE Crowded(e)
    BY <1>0, <1>2, <2>1 DEF AInv, Sound
  <2>2. CASE ~Crowded(e)
    <3>1. Moved(r) /\ req'[r] = q
      BY <1>0, <1>4, <2>2 DEF Moved
    <3>2. LeaseFits(q) /\ Heard(q)
      BY <1>0, <1>6 DEF Sound, LeaseFits, Heard
    <3>3. Filed(q) /\ Locks(q, r \in lock')
      BY <1>0, <1>6 DEF Sound, Heard, Filed, Locks, Writing
    <3>4. Sound(r)'
      BY <3>1, <3>2, <3>3 DEF Sound
    <3> QED BY <3>1, <3>4, OthersSound DEF Moved
  <2> QED BY <2>1, <2>2
<1>16. AdmissionTypes'
  <2>1. active' \in Int
    BY <1>0, <1>2
  <2> QED BY <1>0, <1>7, <1>8, <1>13, <1>15, <2>1 DEF AInv, AdmissionTypes
<1> QED BY <1>13, <1>14, <1>15, <1>16 DEF AInv

-----------------------------------------------------------------------------
\* Nothing has happened yet.
LEMMA AdmissionInit == ASSUME AdmissionFit, Init PROVE AInv
<1>1. NoRequest \in Request
  BY DEF AdmissionFit, NoRequest, Request, Labels
<1>2. /\ NoRequest.pc = "idle" /\ NoRequest.lease = "none" /\ ~NoRequest.ssd
      /\ NoRequest.writer = "none" /\ NoRequest.file = "none"
      /\ ~NoRequest.heard /\ ~NoRequest.cleaned /\ ~NoRequest.pending
  BY DEF NoRequest
<1>3. \A r \in Requests : req[r] = NoRequest
  BY DEF Init
<1>4. \A r \in Requests : Sound(r)
  BY <1>2, <1>3 DEF Init, Sound, LeaseFits, Heard, Filed, Locks, Writing
<1>5. AdmissionTypes
  BY <1>1 DEF Init, AdmissionTypes, AdmissionFit
<1>6. LiveOnes = {}
  BY <1>2, <1>3 DEF LiveOnes, Live
<1>7. Counted
  BY <1>6, FS_EmptySet DEF Init, Counted, AdmissionFit
<1>8. \A u \in Users : Earned(u)
  BY RateTimes DEF Init, Earned, AdmissionFit
<1> QED BY <1>4, <1>5, <1>7, <1>8 DEF AInv

\* Every step keeps the invariant, and the files that are needed.
LEMMA AdmissionStep ==
  ASSUME AInv, AdmissionFit, [Next]_vars PROVE AInv' /\ FileKept
<1>1. CASE UNCHANGED vars
  BY <1>1 DEF vars, AInv, AdmissionTypes, Counted, Earned, Sound, LiveOnes,
     Leased, FileKept
<1>2. ASSUME NEW r \in Requests, Progress(r) PROVE AInv' /\ FileKept
  BY <1>2, ResolveStep, TryLockStep, AcquireStep, RefuseStep, FinalizeStep,
     OpenStep, UnparsedStep, FinishStep, BreakStep, GiveUpStep, CloseStep,
     ServeStep, ServedStep DEF Progress
<1>3. ASSUME NEW r \in Requests, Disconnect(r) \/ Respond(r)
      PROVE  AInv' /\ FileKept
  BY <1>3, DisconnectStep, RespondStep
<1>4. ASSUME NEW r \in Requests, NEW u \in Users,
             Throttle(r, u) \/ Enter(r, u)
      PROVE  AInv' /\ FileKept
  <2>1. AInv'
    BY <1>4, ThrottleStep, EnterStep
  <2>2. CASE req' = req
    BY <2>1, <2>2 DEF FileKept
  <2>3. CASE req' # req
    <3>1. /\ req[r].pc = "idle" /\ req \in [Requests -> Request]
          /\ \A s \in Requests \ {r} : req'[s] = req[s]
      BY <1>4, <2>3 DEF Throttle, Enter, At, AInv, AdmissionTypes
    <3>2. ~Writing(req[r])
      BY <3>1 DEF AInv, Sound, Filed, Writing
    <3> QED BY <2>1, <3>1, <3>2 DEF FileKept
  <2> QED BY <2>2, <2>3
<1>5. CASE Tick
  BY <1>5, TickStep DEF Tick, FileKept
<1> QED BY <1>1, <1>2, <1>3, <1>4, <1>5 DEF Next

\* The invariant holds in every reachable state of UploadAdmission.
THEOREM AdmissionInvariance == Spec => []AInv
<1>1. Init => AInv
  BY AdmissionInit, AdmissionAssumption
<1>2. AInv /\ [Next]_vars => AInv'
  BY AdmissionStep, AdmissionAssumption
<1> QED BY <1>1, <1>2, PTL DEF Spec

\* No step takes the file of a chunk from under its handler or its writer.
THEOREM FilesStay == Spec => FilesKept
<1>1. AInv /\ [Next]_vars => [FileKept]_requests
  BY AdmissionStep, AdmissionAssumption DEF requests
<1> QED BY <1>1, AdmissionInvariance, PTL DEF Spec, FilesKept, requests

\* What the invariant says of the counters, tokens, handlers and leftovers.
LEMMA AdmissionFollows ==
  ASSUME AInv, AdmissionFit
  PROVE  CountersAgree /\ RateHeld /\ WorkProtected /\ NothingLeft
<1>1. CountersAgree
  <2>1. /\ active = Cardinality({r \in Requests : Live(req[r])})
        /\ active <= MaxActive
    BY DEF AInv, Counted, LiveOnes
  <2>2. ASSUME NEW u \in Users, Leased(u) # {}
        PROVE  /\ u \in DOMAIN bucket
               /\ bucket[u].active = Cardinality(Leased(u))
               /\ Cardinality(Leased(u)) <= PerUser
    BY <2>2 DEF AInv, Counted, Leased, LiveOnes
  <2>3. ASSUME NEW u \in Users PROVE Cardinality(Leased(u)) <= PerUser
    <3>1. CASE Leased(u) = {}
      BY <3>1, FS_EmptySet DEF AdmissionFit
    <3>2. CASE Leased(u) # {}
      BY <2>2, <3>2
    <3> QED BY <3>1, <3>2
  <2> QED BY <2>1, <2>2, <2>3 DEF CountersAgree
<1>2. ASSUME NEW u \in Users PROVE taken[u] <= Burst + Rate * now
  <2>1. /\ now \in Nat /\ Rate \in Nat /\ Burst \in Nat /\ taken[u] \in Nat
        /\ Rate * now \in Nat
    BY RateTimes DEF AInv, AdmissionTypes, AdmissionFit
  <2>2. CASE u \in DOMAIN bucket
    <3> DEFINE e == bucket[u]
    <3>1. e.tokens \in Nat /\ e.refillAt \in Nat /\ e.seenAt \in Nat
      BY <2>2 DEF AInv, AdmissionTypes, Bucket
    <3>2. /\ taken[u] + e.tokens <= Burst + Rate * e.refillAt
          /\ e.refillAt <= e.seenAt /\ e.seenAt <= now
      BY <2>2 DEF AInv, Earned
    <3> HIDE DEF e
    <3>3. Rate * e.refillAt \in Nat /\ Rate * e.refillAt <= Rate * now
      BY <2>1, <3>1, <3>2, RateTimes
    <3> QED BY <2>1, <3>1, <3>2, <3>3
  <2>3. CASE u \notin DOMAIN bucket
    BY <2>1, <2>3 DEF AInv, Earned
  <2> QED BY <2>2, <2>3
<1>3. WorkProtected
  BY DEF AInv, Sound, LeaseFits, Locks, WorkProtected, At
<1>4. ASSUME NEW r \in Requests, At(r, "done"), ~Writing(req[r])
      PROVE  req[r].file # "there" /\ r \notin lock /\ ~Live(req[r])
  BY <1>4 DEF AInv, Sound, LeaseFits, Heard, Filed, Locks, Live, At
<1> QED BY <1>1, <1>2, <1>3, <1>4 DEF RateHeld, NothingLeft

\* Counters and leases agree within the limits, nobody gets more than the rate,
\* a handler at work has lease and lock, and a request that is over leaves
\* nothing, for any number of requests and users and in any order of callbacks.
THEOREM LeasesHold == Spec => []LeasesAccount
<1>1. AInv => LeasesAccount
  BY AdmissionFollows, AdmissionAssumption DEF LeasesAccount
<1> QED BY <1>1, AdmissionInvariance, PTL

(***************************************************************************)
(* Arithmetic                                                              *)
(***************************************************************************)
\* Division with a remainder.
LEMMA DivFacts ==
  ASSUME NEW a \in Nat, NEW b \in Nat \ {0}
  PROVE  /\ a \div b \in Nat
         /\ b * (a \div b) <= a
         /\ a < b * (a \div b) + b
OBVIOUS

\* Multiplying keeps the order.
LEMMA MulMono ==
  ASSUME NEW a \in Nat, NEW b \in Nat, NEW k \in Nat, a <= b
  PROVE  k * a <= k * b
BY SMT

\* A product less than the next multiple is no greater in its other factor.
LEMMA MulCancel ==
  ASSUME NEW a \in Nat, NEW b \in Nat, NEW k \in Nat \ {0}, k * a < k * b + k
  PROVE  a <= b
<1>1. SUFFICES ASSUME a >= b + 1 PROVE FALSE
  OBVIOUS
<1>2. k * (b + 1) <= k * a
  BY <1>1, MulMono
<1> QED BY <1>2, SMT

\* Math.ceil(n / k): the least number of chunks that hold n bytes.
LEMMA CeilFacts ==
  ASSUME NEW n \in Nat \ {0}, NEW k \in Nat \ {0}
  PROVE  /\ L!CeilDiv(n, k) \in Nat \ {0} /\ k * L!CeilDiv(n, k) \in Nat
         /\ n <= k * L!CeilDiv(n, k)
         /\ k * L!CeilDiv(n, k) < n + k
<1> DEFINE q == (n + k - 1) \div k
<1>1. q \in Nat /\ k * q <= n + k - 1 /\ n + k - 1 < k * q + k
  BY DivFacts
<1> HIDE DEF q
<1>2. k * q \in Nat
  BY <1>1
<1>3. q # 0
  <2>1. q = 0 => k * q = 0
    BY SMT
  <2> QED BY <1>1, <2>1
<1>4. L!CeilDiv(n, k) = q
  BY DEF L!CeilDiv, q
<1> QED BY <1>1, <1>2, <1>3, <1>4

\* n bytes fit m chunks of k bytes just if they are cut into at most m.
LEMMA CeilFits ==
  ASSUME NEW n \in Nat \ {0}, NEW k \in Nat \ {0}, NEW m \in Nat
  PROVE  L!CeilDiv(n, k) <= m <=> n <= k * m
<1> DEFINE q == L!CeilDiv(n, k)
<1>1. q \in Nat /\ n <= k * q /\ k * q < n + k
  BY CeilFacts
<1> HIDE DEF q
<1>2. k * q \in Nat /\ k * m \in Nat
  BY <1>1
<1>3. q <= m => n <= k * m
  <2> HAVE q <= m
  <2>1. k * q <= k * m
    BY <1>1, MulMono
  <2> QED BY <1>1, <1>2, <2>1
<1>4. n <= k * m => q <= m
  <2> HAVE n <= k * m
  <2>1. k * q < k * m + k
    BY <1>1, <1>2
  <2> QED BY <1>1, <2>1, MulCancel
<1> QED BY <1>3, <1>4 DEF q

\* What is assumed of the limits.
LEMMA LimitsGiven ==
  /\ MaxSafe \in Nat \ {0} /\ ChunkSize \in Nat \ {0}
  /\ Configs \subseteq L!ConfigType /\ Accounts \subseteq L!UserType
  /\ Sizes \subseteq Nat \ {0}
  /\ \A c \in Configs :
       c.maxFile <= MaxSafe /\ c.maxTotal <= MaxSafe /\ c.maxChunk <= MaxSafe
  /\ \A u \in Accounts : u.quota <= MaxSafe
BY LimitsAssumption DEF L!LimitsFit

\* An instance counts with its own copy of the operator.
LEMMA SameCount == \A S : L!Cardinality(S) = Cardinality(S)
BY DEF L!Cardinality, Cardinality

(***************************************************************************)
(* The limits told against the services that admit                         *)
(***************************************************************************)
\* The chunk the browser plans is one the deployment takes.
LEMMA PlannedFacts ==
  ASSUME NEW c \in L!ConfigType, NEW n \in Nat \ {0}
  PROVE  L!PlannedChunk(c, n) \in 1..c.maxChunk
<1>1. c.maxChunks \in Nat \ {0} /\ c.maxChunk \in Nat \ {0}
  BY DEF L!ConfigType
<1>2. L!CeilDiv(n, c.maxChunks) \in Nat
  BY <1>1, CeilFacts
<1> QED
  BY <1>1, <1>2, LimitsGiven DEF L!PlannedChunk, L!Least, L!Most

\* A file that fits the chunks of the deployment at all fits those planned.
LEMMA PlannedFits ==
  ASSUME NEW c \in L!ConfigType, NEW n \in Nat \ {0},
         n <= c.maxChunks * c.maxChunk
  PROVE  L!CeilDiv(n, L!PlannedChunk(c, n)) <= c.maxChunks
<1>1. c.maxChunks \in Nat \ {0} /\ c.maxChunk \in Nat \ {0}
  BY DEF L!ConfigType
<1> DEFINE q == L!CeilDiv(n, c.maxChunks)
           k == L!PlannedChunk(c, n)
<1>2. q \in Nat /\ n <= c.maxChunks * q
  BY <1>1, CeilFacts
<1>3. q <= c.maxChunk
  BY <1>1, CeilFits
<1>4. k \in Nat \ {0}
  BY <1>1, PlannedFacts
<1>5. q <= k
  BY <1>1, <1>2, <1>3, LimitsGiven DEF L!PlannedChunk, L!Least, L!Most
<1> HIDE DEF q, k
<1>6. c.maxChunks * q <= c.maxChunks * k
  BY <1>1, <1>2, <1>4, <1>5, MulMono
<1>7. c.maxChunks * k = k * c.maxChunks
  BY <1>1, <1>4, SMT
<1>8. n <= k * c.maxChunks
  BY <1>1, <1>2, <1>4, <1>6, <1>7, SMT
<1>9. L!CeilDiv(n, k) <= c.maxChunks
  BY <1>1, <1>4, <1>8, CeilFits
<1> QED BY <1>9 DEF k

\* The limit told is a size.
LEMMA LimitType ==
  ASSUME NEW c \in Configs, NEW u \in L!UserType
  PROVE  /\ L!effectiveMaxFileBytes(c, u) \in 0..MaxSafe
         /\ c \in L!ConfigType
<1>1. /\ c \in L!ConfigType /\ MaxSafe \in Nat /\ c.maxFile \in Nat
      /\ c.maxTotal \in Nat /\ c.maxFile <= MaxSafe
      /\ c.maxChunk \in Nat /\ c.maxChunks \in Nat
  BY LimitsGiven DEF L!ConfigType
<1>2. u.quota \in Nat /\ u.used \in Nat /\ u.active \in Nat
  BY DEF L!UserType
<1>3. c.maxChunks * c.maxChunk \in Nat
  BY <1>1
<1> QED
  BY <1>1, <1>2, <1>3
  DEF L!effectiveMaxFileBytes, L!maxFileBytes, L!remainingActiveBytes,
      L!quotaRemainingBytes, L!Least, L!Most

\* What is within the limit told.
LEMMA WithinLimit ==
  ASSUME NEW c \in Configs, NEW u \in L!UserType, NEW n \in Nat \ {0}
  PROVE  n <= L!effectiveMaxFileBytes(c, u) <=>
           /\ n <= MaxSafe
           /\ c.maxFile > 0 => n <= c.maxFile
           /\ c.maxTotal > 0 => u.active + n <= c.maxTotal
           /\ u.used + u.active + n <= u.quota
           /\ n <= c.maxChunks * c.maxChunk
<1>1. /\ MaxSafe \in Nat /\ c.maxFile \in Nat
      /\ c.maxTotal \in Nat /\ c.maxFile <= MaxSafe /\ c.maxTotal <= MaxSafe
      /\ c.maxChunk \in Nat /\ c.maxChunks \in Nat
  BY LimitsGiven DEF L!ConfigType
<1>2. u.quota \in Nat /\ u.used \in Nat /\ u.active \in Nat
  BY DEF L!UserType
<1> DEFINE r == c.maxChunks * c.maxChunk
<1>3. r \in Nat
  BY <1>1
<1> HIDE DEF r
<1>4. n <= L!maxFileBytes(c) <=>
        (IF c.maxFile > 0 THEN n <= c.maxFile ELSE n <= MaxSafe)
  BY DEF L!maxFileBytes
<1>5. n <= L!remainingActiveBytes(c, u) <=>
        (IF c.maxTotal > 0 THEN u.active + n <= c.maxTotal ELSE n <= MaxSafe)
  BY <1>1, <1>2 DEF L!remainingActiveBytes, L!Most
<1>6. n <= L!quotaRemainingBytes(u) <=> u.used + u.active + n <= u.quota
  BY <1>2 DEF L!quotaRemainingBytes, L!Most
<1>7. /\ L!maxFileBytes(c) \in Nat /\ L!remainingActiveBytes(c, u) \in Nat
      /\ L!quotaRemainingBytes(u) \in Nat
  BY <1>1, <1>2
  DEF L!maxFileBytes, L!remainingActiveBytes, L!quotaRemainingBytes, L!Most
<1>8. n <= L!effectiveMaxFileBytes(c, u) <=>
        /\ n <= L!maxFileBytes(c) /\ n <= L!remainingActiveBytes(c, u)
        /\ n <= L!quotaRemainingBytes(u) /\ n <= r /\ n <= MaxSafe
  BY <1>1, <1>3, <1>7 DEF L!effectiveMaxFileBytes, L!Least, r
<1> QED
  BY <1>1, <1>2, <1>3, <1>4, <1>5, <1>6, <1>8 DEF r

\* Both services admit what is offered within the limit.
LEMMA OfferedIsAdmitted ==
  ASSUME NEW c \in Configs, NEW u \in L!UserType, NEW n \in Nat \ {0},
         u.quota <= MaxSafe, ~L!LimitsFail(u),
         L!Offers(c, L!effectiveMaxFileBytes(c, u), n)
  PROVE  L!Admits(c, u, n, L!PlannedChunk(c, n))
<1>1. /\ MaxSafe \in Nat /\ c.maxFile \in Nat /\ c \in L!ConfigType
      /\ c.maxTotal \in Nat /\ c.maxFile <= MaxSafe /\ c.maxTotal <= MaxSafe
  BY LimitsGiven DEF L!ConfigType
<1>2. u.quota \in Nat /\ u.used \in Nat /\ u.active \in Nat
  BY DEF L!UserType
<1>3. /\ n <= MaxSafe
      /\ c.maxFile > 0 => n <= c.maxFile
      /\ c.maxTotal > 0 => u.active + n <= c.maxTotal
      /\ u.used + u.active + n <= u.quota
      /\ n <= c.maxChunks * c.maxChunk
  BY WithinLimit DEF L!Offers
<1>4. L!PlannedChunk(c, n) \in 1..c.maxChunk /\ c.maxChunk \in Nat
  BY <1>1, PlannedFacts DEF L!ConfigType
<1>5. L!CeilDiv(n, L!PlannedChunk(c, n)) <= c.maxChunks
  BY DEF L!Offers
<1>6. L!FitsSsd(c, u, n)
  BY <1>3 DEF L!FitsSsd
<1>7. L!FitsLegacy(c, u, n)
  BY <1>1, <1>2, <1>3 DEF L!FitsLegacy, L!LimitsFail, L!Safe
<1>8. /\ L!PlannedChunk(c, n) <= c.maxChunk /\ L!PlannedChunk(c, n) > 0
      /\ L!PlannedChunk(c, n) <= MaxSafe
  BY <1>1, <1>4, LimitsGiven
<1> QED
  BY <1>3, <1>5, <1>6, <1>7, <1>8 DEF L!Admits, L!Safe

\* What is not offered would not be admitted in chunks of any size.
LEMMA RefusedIsRefused ==
  ASSUME NEW c \in Configs, NEW u \in L!UserType, NEW n \in Nat \ {0},
         ~L!Offers(c, L!effectiveMaxFileBytes(c, u), n),
         NEW k \in 1..c.maxChunk
  PROVE  ~L!Admits(c, u, n, k)
<1>1. /\ c \in L!ConfigType /\ c.maxChunk \in Nat \ {0}
      /\ c.maxChunks \in Nat \ {0}
  BY LimitsGiven DEF L!ConfigType
<1>2. SUFFICES ASSUME L!Admits(c, u, n, k)
               PROVE  L!Offers(c, L!effectiveMaxFileBytes(c, u), n)
  OBVIOUS
<1>3. k \in Nat \ {0} /\ k <= c.maxChunk
  BY <1>1
<1>4. n <= k * c.maxChunks
  BY <1>1, <1>2, <1>3, CeilFits DEF L!Admits
<1>5. c.maxChunks * k <= c.maxChunks * c.maxChunk
  BY <1>1, <1>3, MulMono
<1>6. k * c.maxChunks = c.maxChunks * k
  BY <1>1, <1>3
<1>7. n <= c.maxChunks * c.maxChunk
  BY <1>1, <1>3, <1>4, <1>5, <1>6
<1>8. n <= L!effectiveMaxFileBytes(c, u)
  <2>1. /\ n <= MaxSafe
        /\ c.maxFile > 0 => n <= c.maxFile
    BY <1>2 DEF L!Admits, L!Safe
  <2>2. /\ c.maxTotal > 0 => u.active + n <= c.maxTotal
        /\ u.used + u.active + n <= u.quota
    BY <1>2 DEF L!Admits, L!FitsLegacy, L!FitsSsd
  <2> QED BY <1>7, <2>1, <2>2, WithinLimit
<1>9. L!CeilDiv(n, L!PlannedChunk(c, n)) <= c.maxChunks
  BY <1>1, <1>7, PlannedFits
<1> QED BY <1>8, <1>9 DEF L!Offers

(***************************************************************************)
(* Chunks cut against chunks expected                                      *)
(***************************************************************************)
\* Of a file in chunks, the i-th chunk starts within it, and ends within it
\* unless it is the last.
LEMMA ChunkStarts ==
  ASSUME NEW n \in Nat \ {0}, NEW k \in Nat \ {0},
         NEW i \in 0..(L!TotalChunks(n, k) - 1)
  PROVE  /\ i * k \in Nat /\ i * k < n
         /\ i # L!TotalChunks(n, k) - 1 => i * k + k <= n
         /\ i = L!TotalChunks(n, k) - 1 => n <= i * k + k
<1> DEFINE q == L!CeilDiv(n, k)
<1>1. q \in Nat \ {0} /\ n <= k * q /\ k * q < n + k /\ k * q \in Nat
  BY CeilFacts
<1>2. i \in 0..(q - 1)
  BY DEF L!TotalChunks
<1> HIDE DEF q
<1>3. i \in Nat /\ i + 1 <= q /\ (i # q - 1 => i + 2 <= q)
  BY <1>1, <1>2
<1>4. i * k \in Nat /\ k * (i + 1) = i * k + k /\ k * (i + 2) = i * k + k + k
  BY <1>3
<1>5. k * (i + 1) <= k * q
  BY <1>1, <1>3, MulMono
<1>6. i * k < n
  BY <1>1, <1>4, <1>5
<1>7. i # q - 1 => i * k + k <= n
  <2>1. i # q - 1 => k * (i + 2) <= k * q
    BY <1>1, <1>3, MulMono
  <2> QED BY <1>1, <1>4, <2>1
<1>8. i = q - 1 => n <= i * k + k
  <2>1. i = q - 1 => i + 1 = q
    BY <1>1, <1>3
  <2> QED BY <1>1, <1>4, <2>1
<1> QED BY <1>4, <1>6, <1>7, <1>8 DEF q, L!TotalChunks

\* The slice the browser sends has the size expected of it.
LEMMA SliceExpected ==
  ASSUME NEW n \in Nat \ {0}, NEW k \in Nat \ {0},
         NEW i \in 0..(L!TotalChunks(n, k) - 1)
  PROVE  /\ Cardinality(L!Slice(n, k, i)) = L!Expected(n, k, i)
         /\ L!Expected(n, k, i) <= k /\ n - i * k > 0
<1>1. /\ i * k \in Nat /\ i * k < n
      /\ i # L!TotalChunks(n, k) - 1 => i * k + k <= n
      /\ i = L!TotalChunks(n, k) - 1 => n <= i * k + k
  BY ChunkStarts
<1> DEFINE s == i * k
           e == L!Least(s + k, n) - 1
<1>2. s \in Nat /\ s < n
  BY <1>1
<1>3. e \in Int /\ s <= e /\ e - s + 1 = L!Expected(n, k, i)
  BY <1>1 DEF L!Expected, L!Least
<1>4. L!Expected(n, k, i) <= k
  BY <1>1 DEF L!Expected
<1> HIDE DEF e, s
<1>5. Cardinality(s..e) = e - s + 1
  BY <1>2, <1>3, FS_Interval
<1>6. L!Slice(n, k, i) = s..e
  BY DEF L!Slice, s, e
<1> QED BY <1>2, <1>3, <1>4, <1>5, <1>6 DEF s

\* Every byte of the file is in the slice of its chunk.
LEMMA SlicesCover ==
  ASSUME NEW n \in Nat \ {0}, NEW k \in Nat \ {0}, NEW x \in 0..(n - 1)
  PROVE  \E i \in 0..(L!TotalChunks(n, k) - 1) : x \in L!Slice(n, k, i)
<1> DEFINE i == x \div k
           q == L!CeilDiv(n, k)
<1>1. i \in Nat /\ k * i <= x /\ x < k * i + k
  BY DivFacts
<1>2. q \in Nat \ {0} /\ n <= k * q /\ k * q \in Nat
  BY CeilFacts
<1> HIDE DEF i, q
<1>3. k * i \in Nat /\ k * i = i * k /\ k * (i + 1) = k * i + k
  BY <1>1
<1>4. i + 1 <= q
  <2>1. k * i < k * q
    BY <1>1, <1>2, <1>3
  <2>2. SUFFICES ASSUME q <= i PROVE FALSE
    BY <1>1, <1>2
  <2>3. k * q <= k * i
    BY <1>1, <1>2, <2>2, MulMono
  <2> QED BY <1>2, <1>3, <2>1, <2>3
<1>5. i \in 0..(L!TotalChunks(n, k) - 1)
  BY <1>1, <1>2, <1>4 DEF L!TotalChunks, q
<1>6. x \in L!Slice(n, k, i)
  BY <1>1, <1>3 DEF L!Slice, L!Least
<1> QED BY <1>5, <1>6

\* No byte is in two slices, and none beyond the file.
LEMMA SlicesApart ==
  ASSUME NEW n \in Nat \ {0}, NEW k \in Nat \ {0},
         NEW i \in 0..(L!TotalChunks(n, k) - 1),
         NEW j \in 0..(L!TotalChunks(n, k) - 1)
  PROVE  /\ L!Slice(n, k, i) \subseteq 0..(n - 1)
         /\ i # j => L!Slice(n, k, i) \cap L!Slice(n, k, j) = {}
<1> DEFINE q == L!CeilDiv(n, k)
<1>1. q \in Nat
  BY CeilFacts
<1>2. i \in Nat /\ j \in Nat
  BY <1>1 DEF L!TotalChunks
<1>3. i * k \in Nat /\ i * k < n /\ j * k \in Nat
  BY ChunkStarts
<1>4. L!Slice(n, k, i) \subseteq 0..(n - 1)
  BY <1>3 DEF L!Slice, L!Least
<1>5. ASSUME NEW a \in Nat, NEW b \in Nat, a < b
      PROVE  L!Slice(n, k, a) \cap L!Slice(n, k, b) = {}
  <2>1. k * (a + 1) <= k * b
    BY <1>5, MulMono
  <2>2. a * k + k <= b * k /\ a * k \in Nat /\ b * k \in Nat
    BY <2>1
  <2> QED BY <2>2 DEF L!Slice, L!Least
<1>6. i # j => L!Slice(n, k, i) \cap L!Slice(n, k, j) = {}
  BY <1>2, <1>5
<1> QED BY <1>4, <1>6

(***************************************************************************)
(* The invariant                                                           *)
(***************************************************************************)
\* The browser goes by limits that hold for the owner as long as no other
\* upload came in between.
Answered ==
  /\ stage \in {"new", "told", "refused"} => user \in Accounts
  /\ stage \in {"told", "refused"} =>
       /\ ~L!LimitsFail(user)
       /\ told = L!effectiveMaxFileBytes(config, user)
       /\ stage = "told" <=> L!Offers(config, told, size)

\* What was admitted is the file, cut as planned.
Admitted ==
  stage \in {"admitted", "complete"} =>
    /\ session.size = size /\ session.chunk \in 1..config.maxChunk
    /\ session.chunks = L!TotalChunks(size, session.chunk)

\* What was sent are chunks of it, and in the end each of them.
SentSlices ==
  /\ stage \notin {"admitted", "complete", "stuck"} => sent = {}
  /\ stage \in {"admitted", "complete"} =>
       \A c \in sent : /\ c = L!Chunk(c.index)
                       /\ c.index \in 0..(session.chunks - 1)
  /\ stage = "complete" =>
       \A i \in 0..(session.chunks - 1) : \E c \in sent : c.index = i

\* TypeOK, without the numbers of the chunks, which SentSlices has.
LimitTypes ==
  /\ config \in Configs /\ size \in Sizes /\ user \in L!UserType
  /\ told \in -1..MaxSafe
  /\ session \in [size: Nat, chunk: Nat, chunks: Nat]
  /\ stage \in {"new", "failed", "refused", "told", "stale", "rejected", "full",
               "admitted", "complete"}

LInv == LimitTypes /\ Answered /\ Admitted /\ SentSlices

\* Types of what the arithmetic is about.
LEMMA TypesFacts ==
  ASSUME LimitTypes
  PROVE  /\ size \in Nat \ {0} /\ config \in L!ConfigType
         /\ config.maxChunk \in Nat \ {0} /\ config.maxChunks \in Nat \ {0}
BY LimitsGiven DEF LimitTypes, L!ConfigType

\* The invariant holds before the browser asks.
LEMMA InitLInv == L!Init => LInv
BY LimitsGiven
DEF L!Init, LInv, LimitTypes, Answered, Admitted, SentSlices, L!Nothing

\* getUploadLimits answers what Answered says, or fails.
LEMMA TellLInv ==
  ASSUME LInv, L!Tell
  PROVE  LInv'
<1>1. told' \in -1..MaxSafe
  BY LimitType DEF L!Tell, LInv, LimitTypes
<1>2. LimitTypes'
  BY <1>1 DEF L!Tell, LInv, LimitTypes
<1>3. Answered'
  BY DEF L!Tell, LInv, LimitTypes, Answered
<1>4. Admitted' /\ SentSlices'
  BY DEF L!Tell, LInv, Admitted, SentSlices
<1> QED BY <1>2, <1>3, <1>4 DEF LInv

\* Another upload leaves only the answer out of date.
LEMMA OthersLInv ==
  ASSUME LInv, L!Others
  PROVE  LInv'
BY LimitsGiven DEF L!Others, LInv, LimitTypes, Answered, Admitted, SentSlices

\* createUploadSession admits the file in the chunks planned, or nothing.
LEMMA CreateLInv ==
  ASSUME LInv, L!Create
  PROVE  LInv'
<1> DEFINE k == L!PlannedChunk(config, size)
<1>1. /\ k \in 1..config.maxChunk /\ k \in Nat \ {0}
      /\ L!TotalChunks(size, k) \in Nat
  <2>1. /\ size \in Nat \ {0} /\ config \in L!ConfigType
        /\ config.maxChunk \in Nat \ {0}
    BY TypesFacts DEF LInv
  <2>2. k \in 1..config.maxChunk
    BY <2>1, PlannedFacts
  <2> HIDE DEF k
  <2>3. k \in Nat \ {0}
    BY <2>1, <2>2
  <2>4. L!CeilDiv(size, k) \in Nat
    BY <2>1, <2>3, CeilFacts
  <2> QED BY <2>2, <2>3, <2>4 DEF L!TotalChunks
<1>2. size \in Nat
  BY TypesFacts DEF LInv
<1> HIDE DEF k
<1>0. PICK ssd, hdd \in Rooms : L!CreateIn(ssd, hdd)
  BY DEF L!Create
<1>3. CASE ~L!NoRoom(ssd, hdd) /\ L!Admits(config, user, size, k)
  <2>1. /\ session' = [size |-> size, chunk |-> k,
                       chunks |-> L!TotalChunks(size, k)]
        /\ user' = [user EXCEPT !.active = @ + size]
        /\ stage' = "admitted" /\ UNCHANGED <<config, size, told, sent>>
    BY <1>0, <1>3 DEF L!CreateIn, k
  <2>2. user' \in L!UserType
    BY <1>2, <2>1 DEF LInv, LimitTypes, L!UserType
  <2>3. sent = {}
    BY <1>0 DEF L!CreateIn, LInv, SentSlices
  <2> QED
    BY <1>1, <1>2, <2>1, <2>2, <2>3
    DEF LInv, LimitTypes, Answered, Admitted, SentSlices
<1>4. CASE L!NoRoom(ssd, hdd) \/ ~L!Admits(config, user, size, k)
  <2>1. /\ stage' = "rejected" \/ stage' = "full"
        /\ UNCHANGED <<config, user, size, told, session, sent>>
    BY <1>0, <1>4 DEF L!CreateIn, k
  <2>2. stage \in {"told", "stale"}
    BY <1>0 DEF L!CreateIn
  <2> QED
    BY <2>1, <2>2 DEF LInv, LimitTypes, Answered, Admitted, SentSlices
<1> QED BY <1>3, <1>4

\* The server takes every chunk the browser cuts.
LEMMA SliceAccepted ==
  ASSUME LInv, stage = "admitted", NEW i \in 0..(session.chunks - 1)
  PROVE  L!AcceptsChunk(config, session.size, session.chunk, i,
                      Cardinality(L!Chunk(i).bytes))
<1> DEFINE k == session.chunk
<1>1. /\ k \in 1..config.maxChunk /\ session.size = size
      /\ session.chunks = L!TotalChunks(size, k)
  BY DEF LInv, Admitted
<1>2. size \in Nat \ {0} /\ config.maxChunk \in Nat \ {0} /\ k \in Nat \ {0}
  BY <1>1, TypesFacts DEF LInv
<1> HIDE DEF k
<1>3. /\ Cardinality(L!Slice(size, k, i)) = L!Expected(size, k, i)
      /\ L!Expected(size, k, i) <= k /\ size - i * k > 0
  BY <1>1, <1>2, SliceExpected
<1>4. L!Chunk(i).bytes = L!Slice(size, k, i)
  BY <1>1 DEF L!Chunk, k
<1>5. L!TotalChunks(size, k) \in Nat
  BY <1>2, CeilFacts DEF L!TotalChunks
<1>6. i \in Nat /\ i < L!TotalChunks(size, k)
  BY <1>1, <1>5
<1>7. L!Expected(size, k, i) \in Int
  <2>1. i * k \in Nat
    BY <1>2, <1>6
  <2> QED BY <1>2, <2>1 DEF L!Expected
<1>8. L!Expected(size, k, i) <= config.maxChunk
  BY <1>1, <1>2, <1>3, <1>7
<1> QED BY <1>1, <1>3, <1>4, <1>6, <1>8 DEF L!AcceptsChunk, k

\* A chunk sent is stored, and is a slice of the file.
LEMMA SendLInv ==
  ASSUME LInv, L!Send
  PROVE  LInv'
<1>1. PICK i \in 0..(session.chunks - 1) :
        IF L!AcceptsChunk(config, session.size, session.chunk, i,
                        Cardinality(L!Chunk(i).bytes))
        THEN sent' = sent \cup {L!Chunk(i)} /\ UNCHANGED stage
        ELSE stage' = "stuck" /\ UNCHANGED sent
  BY SameCount DEF L!Send
<1>2. stage = "admitted" /\ UNCHANGED <<config, user, size, told, session>>
  BY DEF L!Send
<1>3. sent' = sent \cup {L!Chunk(i)} /\ stage' = stage
  BY <1>1, <1>2, SliceAccepted
<1>4. L!Chunk(i).index = i
  BY DEF L!Chunk
<1>5. LimitTypes' /\ Answered' /\ Admitted'
  BY <1>2, <1>3 DEF LInv, LimitTypes, Answered, Admitted
<1>6. SentSlices'
  BY <1>2, <1>3, <1>4 DEF LInv, SentSlices, L!Chunk
<1> QED BY <1>5, <1>6 DEF LInv

\* A complete upload has a layout the finalization accepts.
LEMMA CompleteLInv ==
  ASSUME LInv, L!Complete
  PROVE  LInv'
<1> DEFINE k == session.chunk
<1>1. /\ stage = "admitted"
      /\ UNCHANGED <<config, user, size, told, session, sent>>
      /\ \A i \in 0..(session.chunks - 1) : \E c \in sent : c.index = i
      /\ stage' = IF L!validateLayout(session) THEN "complete" ELSE "stuck"
  BY DEF L!Complete
<1>2. /\ k \in 1..config.maxChunk /\ session.size = size
      /\ session.chunks = L!CeilDiv(size, k)
  BY <1>1 DEF LInv, Admitted, L!TotalChunks
<1>3. size \in Nat \ {0} /\ config.maxChunk \in Nat \ {0} /\ k \in Nat \ {0}
  BY <1>2, TypesFacts DEF LInv
<1>4. L!CeilDiv(size, k) \in Nat \ {0}
  BY <1>3, CeilFacts
<1>5. L!validateLayout(session)
  BY <1>2, <1>3, <1>4 DEF L!validateLayout
<1>6. stage' = "complete"
  BY <1>1, <1>5
<1> QED
  BY <1>1, <1>6 DEF LInv, LimitTypes, Answered, Admitted, SentSlices, L!Chunk

\* Every step keeps the invariant.
LEMMA NextLInv == LInv /\ [L!Next]_(L!vars) => LInv'
<1> SUFFICES ASSUME LInv, [L!Next]_(L!vars) PROVE LInv'
  OBVIOUS
<1>1. CASE L!Tell
  BY <1>1, TellLInv
<1>2. CASE L!Others
  BY <1>2, OthersLInv
<1>3. CASE L!Create
  BY <1>3, CreateLInv
<1>4. CASE L!Send
  BY <1>4, SendLInv
<1>5. CASE L!Complete
  BY <1>5, CompleteLInv
<1>6. CASE UNCHANGED L!vars
  BY <1>6 DEF L!vars, LInv, LimitTypes, Answered, Admitted, SentSlices, L!Chunk
<1> QED BY <1>1, <1>2, <1>3, <1>4, <1>5, <1>6 DEF L!Next

\* The invariant of every upload.
THEOREM AlwaysLInv == L!Spec => []LInv
BY InitLInv, NextLInv, PTL DEF L!Spec

(***************************************************************************)
(* The theorems                                                            *)
(***************************************************************************)
\* A file within the limits its owner was told is admitted, by whichever
\* service, unless another upload came in between or a volume has no room.
LEMMA LimitsHoldStep == LInv => L!LimitsHold
<1>1. ASSUME LInv, stage = "told", NEW ssd \in Rooms, NEW hdd \in Rooms,
             L!CreateIn(ssd, hdd)
      PROVE  stage' = IF L!NoRoom(ssd, hdd) THEN "full" ELSE "admitted"
  <2>1. /\ config \in Configs /\ user \in L!UserType /\ size \in Nat \ {0}
        /\ user.quota <= MaxSafe /\ ~L!LimitsFail(user)
        /\ L!Offers(config, L!effectiveMaxFileBytes(config, user), size)
    BY <1>1, TypesFacts, LimitsGiven DEF LInv, LimitTypes, Answered
  <2>2. L!Admits(config, user, size, L!PlannedChunk(config, size))
    BY <2>1, OfferedIsAdmitted
  <2> QED BY <1>1, <2>2 DEF L!CreateIn
<1> QED BY <1>1 DEF L!LimitsHold

\* What the limits exclude would not have been admitted in any chunks.
LEMMA RefusedForReason == LInv => L!LimitsExact
<1> SUFFICES ASSUME LInv, stage = "refused", NEW k \in 1..config.maxChunk
             PROVE  ~L!Admits(config, user, size, k)
  BY DEF L!LimitsExact
<1>1. /\ config \in Configs /\ user \in L!UserType /\ size \in Nat \ {0}
      /\ ~L!Offers(config, L!effectiveMaxFileBytes(config, user), size)
  BY TypesFacts DEF LInv, LimitTypes, Answered
<1> QED BY <1>1, RefusedIsRefused

\* No chunk the browser cuts is refused for its size, and the layout is one
\* the finalization accepts.
LEMMA ChunksAccepted == LInv => L!NeverStuck
BY DEF LInv, LimitTypes, L!NeverStuck

\* The chunks of a completed upload are the file's bytes, each of them once.
LEMMA SentIsWhole == LInv => L!WholeFile
<1> SUFFICES ASSUME LInv, stage = "complete"
             PROVE  /\ UNION {c.bytes : c \in sent} = 0..(size - 1)
                    /\ \A c, d \in sent : c # d => c.bytes \cap d.bytes = {}
  BY DEF L!WholeFile
<1> DEFINE k == session.chunk
           Indices == 0..(L!TotalChunks(size, k) - 1)
<1>1. size \in Nat \ {0} /\ k \in Nat \ {0}
  BY TypesFacts DEF LInv, Admitted
<1>2. \A c \in sent : c.index \in Indices /\ c.bytes = L!Slice(size, k, c.index)
  BY DEF LInv, Admitted, SentSlices, L!Chunk
<1>3. \A i \in Indices : \E c \in sent : c.index = i
  BY DEF LInv, Admitted, SentSlices
<1>4. \A c, d \in sent : c # d => c.index # d.index
  BY DEF LInv, SentSlices, L!Chunk
<1> HIDE DEF k
<1>5. \A c \in sent : c.bytes \subseteq 0..(size - 1)
  BY <1>1, <1>2, SlicesApart
<1>6. ASSUME NEW x \in 0..(size - 1) PROVE \E c \in sent : x \in c.bytes
  <2>1. PICK i \in Indices : x \in L!Slice(size, k, i)
    BY <1>1, SlicesCover
  <2>2. PICK c \in sent : c.index = i
    BY <1>3
  <2> QED BY <1>2, <2>1, <2>2
<1>7. \A c, d \in sent : c # d => c.bytes \cap d.bytes = {}
  BY <1>1, <1>2, <1>4, SlicesApart
<1> QED BY <1>5, <1>6, <1>7

\* No admission exceeds the quota, however old the limits gone by.
LEMMA NeverOverStep == LInv => L!NeverOver
<1> SUFFICES ASSUME LInv, L!Create, stage' = "admitted"
             PROVE  /\ user'.used + user'.active <= user.quota
                    /\ config.maxTotal > 0 => user'.active <= config.maxTotal
  BY DEF L!NeverOver
<1>1. /\ size \in Nat /\ user.used \in Nat /\ user.active \in Nat
      /\ user.quota \in Nat
  BY TypesFacts DEF LInv, LimitTypes, L!UserType
<1>2. PICK ssd, hdd \in Rooms : L!CreateIn(ssd, hdd)
  BY DEF L!Create
<1>3. /\ L!Admits(config, user, size, L!PlannedChunk(config, size))
      /\ user' = [user EXCEPT !.active = @ + size]
  BY <1>2 DEF L!CreateIn
<1>4. user'.used = user.used /\ user'.active = user.active + size
  BY <1>3 DEF LInv, LimitTypes, L!UserType
<1>5. /\ user.used + user.active + size <= user.quota
      /\ config.maxTotal > 0 => user.active + size <= config.maxTotal
  BY <1>3 DEF L!Admits, L!FitsLegacy, L!FitsSsd
<1> QED BY <1>1, <1>4, <1>5

\* The limits an owner is told are those of the services, whatever the limits,
\* the quota and the size: what they allow is admitted unless another upload
\* came in between or a volume has no room, which nobody is told; and no
\* admission goes past quota or global limit.
THEOREM AlwaysLimitsTrue == L!Spec => LimitsTrue
<1>1. LInv => L!LimitsHold /\ L!NeverOver
  BY LimitsHoldStep, NeverOverStep
<1> QED BY <1>1, AlwaysLInv, PTL DEF LimitsTrue, L!LimitsTrue

\* What the limits exclude would not have been admitted in chunks of any size,
\* and what is admitted is sent as a partition of the file's bytes, no chunk
\* being refused for its size.
THEOREM AlwaysAdmittedWhole == L!Spec => []AdmittedWhole
<1>1. LInv => AdmittedWhole
  BY RefusedForReason, ChunksAccepted, SentIsWhole
     DEF AdmittedWhole, L!AdmittedWhole
<1> QED BY <1>1, AlwaysLInv, PTL

-----------------------------------------------------------------------------
(***************************************************************************)
(* Waits of the browser.  notBefore is one number, and what asks for time  *)
(* are answers of several requests, of a job and of its cancellation: the  *)
(* invariant says that the number is at least what each of them asks for   *)
(* yet (BarsKept), and that it has run out wherever a call is about to     *)
(* send (ReadyToSend), because the timers were set to no less              *)
(* (TimersCover).                                                          *)
(***************************************************************************)
\* Numbers, as far as the proofs need them: how long a wait can be is a
\* power of two, about which no induction is needed.
WaitTypes ==
  /\ step \in W!Stages
  /\ call \in [pc: W!Points, n: Nat, timer: Nat]
  /\ budget \in [left: Nat, before: Nat]
  /\ own \in [left: Nat, before: Nat]
  /\ till \in Nat /\ waited \in Nat
  /\ barred \in [job: Nat, own: Nat]

\* Where a call of the job may yet wait for what was asked before it.
Starting ==
  /\ ~W!Limited
  /\ \/ call.pc \in {"entry", "lookup"}
     \/ call.pc = "idle" /\ st = "running"

\* What is left of a window is what was not waited, but for one wait at the
\* start of a call; where there may be one yet, there was none.
WindowSpent ==
  /\ waited + budget.left <= Window + MaxWait
  /\ Starting /\ budget.before > 0 => waited + budget.left <= Window

\* A budget remembers the longest wait that answers to its requests ask for;
\* that of a replay those of the job as well.
BarsKept ==
  /\ barred.job <= budget.before /\ barred.own <= own.before
  /\ step = "replay" => barred.job <= own.before

\* No call is past its waits while it has some left.
ReadyToSend == call.pc \in {"try", "sent", "receipt"} => W!Current.before = 0

\* A timer runs at least as long as there is to wait.
TimersCover ==
  call.pc \in {"backoff", "delay"} => W!Current.before <= call.timer

WaitInv == WaitTypes /\ WindowSpent /\ BarsKept /\ ReadyToSend /\ TimersCover

(***************************************************************************)
(* Waits                                                                   *)
(***************************************************************************)
\* What an answer makes a call wait is a number, and at least what the answer
\* asked for.
LEMMA WaitBounds ==
  /\ Attempts \in Nat \ {0} /\ MaxWait \in Nat \ {0}
  /\ Window \in Nat \ {0} /\ Cancelling \in Nat \ {0}
  /\ Replaying \in Nat \ {0} /\ MaxAsked \in Nat \ {0}
BY WaitsAssumption DEF W!RetriesFit

LEMMA DelayFacts ==
  ASSUME NEW n, NEW m, NEW base \in n .. m, NEW a \in W!Outcomes,
         MaxAsked \in Nat
  PROVE  /\ a.asks \in Nat /\ W!Delay(a, base) \in Nat
         /\ a.asks <= W!Delay(a, base)
<1>1. a.asks \in 0 .. MaxAsked \/ a.asks = 0
  BY DEF W!Outcomes
<1>2. a.asks \in Nat
  BY <1>1
<1>3. base \in Int
  OBVIOUS
<1> QED
  BY <1>2, <1>3 DEF W!Delay, W!Greater

\* The budget a call goes by, and the number it keeps in it.
LEMMA CurrentWait ==
  ASSUME WaitTypes
  PROVE  /\ W!Current \in [left: Nat, before: Nat]
         /\ W!Available \in Nat /\ W!Available <= W!Current.left
<1>1. W!Current \in [left: Nat, before: Nat]
  BY DEF WaitTypes, W!Current
<1> QED
  BY <1>1 DEF WaitTypes, W!Available, W!Less

\* Initially there is nothing to wait for.
LEMMA WaitInit == W!Init => WaitInv
BY WaitBounds
DEF W!Init, WaitInv, WaitTypes, WindowSpent, BarsKept, ReadyToSend,
    TimersCover, W!Fresh, W!NoCall, W!CallAt, W!Stages, W!Points, W!Current,
    W!Limited, Starting

(***************************************************************************)
(* How a call ends                                                         *)
(***************************************************************************)
\* A call that fails leaves its budget and what bars it to the job, or, when
\* it was the cancellation's, to the replay, with the job's notBefore.
LEMMA ThrowInv ==
  ASSUME WaitInv, NEW left \in [left: Nat, before: Nat],
         NEW bars \in [job: Nat, own: Nat],
         left.left <= W!Current.left,
         W!Limited => bars.job = barred.job /\ bars.own <= left.before,
         step = "replay" => bars.job <= left.before,
         ~W!Limited => bars.own = barred.own /\ bars.job <= left.before,
         W!Throw(left, bars), waited' = waited
  PROVE  WaitInv'
<1> USE WaitBounds DEF WaitInv
<1>1. /\ call' \in [pc: W!Points, n: Nat, timer: Nat]
      /\ call'.pc \in {"idle", "lookup"} /\ waited' \in Nat
      /\ step # "delete" => call'.pc = "idle" /\ st' # "running"
  BY DEF W!Throw, WaitTypes, W!NoCall, W!CallAt, W!Points
<1>2. CASE step = "delete"
  <2>1. /\ step' = "replay" /\ till' = Replaying /\ budget' = budget
        /\ own' = W!Fresh(Replaying, budget.before)
        /\ barred' = [bars EXCEPT !.own = 0]
    BY <1>2 DEF W!Throw
  <2>2. bars.job = barred.job
    BY <1>2 DEF W!Limited
  <2> QED
    BY <1>1, <2>1, <2>2
    DEF WaitTypes, WindowSpent, Starting, W!Limited, BarsKept, ReadyToSend,
        TimersCover, W!Fresh, W!Stages
<1>3. CASE step # "delete"
  <2>1. /\ W!Keep(left) /\ barred' = bars /\ step' = step /\ till' = till
    BY <1>3 DEF W!Throw
  <2>2. CASE W!Limited
    <3>1. own' = left /\ budget' = budget
      BY <2>1, <2>2 DEF W!Keep
    <3> QED
      BY <1>1, <1>3, <2>1, <2>2, <3>1
      DEF WaitTypes, WindowSpent, Starting, BarsKept, ReadyToSend, TimersCover
  <2>3. CASE ~W!Limited
    <3>1. budget' = left /\ own' = own /\ W!Current = budget
      BY <2>1, <2>3 DEF W!Keep, W!Current
    <3>2. step # "replay"
      BY <2>3 DEF W!Limited
    <3> QED
      BY <1>1, <1>3, <2>1, <2>3, <3>1, <3>2
      DEF WaitTypes, WindowSpent, Starting, BarsKept, ReadyToSend, TimersCover
  <2> QED
    BY <2>2, <2>3
<1> QED
  BY <1>2, <1>3

\* Nothing new is learnt by a call that gives up waiting.
LEMMA ThrowPlain ==
  ASSUME WaitInv, W!Throw(W!Current, barred), waited' = waited
  PROVE  WaitInv'
<1>1. W!Current \in [left: Nat, before: Nat] /\ barred \in [job: Nat,
    own: Nat]
  BY CurrentWait DEF WaitInv, WaitTypes
<1>2. W!Limited => barred.own <= W!Current.before
  BY DEF WaitInv, BarsKept, W!Current
<1>3. step = "replay" => barred.job <= W!Current.before
  BY DEF WaitInv, BarsKept, W!Current, W!Limited
<1>4. ~W!Limited => barred.job <= W!Current.before
  BY DEF WaitInv, BarsKept, W!Current
<1> QED
  BY <1>1, <1>2, <1>3, <1>4, ThrowInv

\* A call that returns had nothing to wait for.
LEMMA ReturnInv ==
  ASSUME WaitInv, W!At("sent"), W!Return
  PROVE  WaitInv'
<1> USE DEF WaitInv
<1>1. W!Current \in [left: Nat, before: Nat] /\ W!Current.before = 0
  BY CurrentWait DEF ReadyToSend, W!At
<1>2. /\ call' = W!NoCall
      /\ waited' = waited /\ barred' = barred /\ till' = till
      /\ W!Keep([W!Current EXCEPT !.before = 0])
  BY DEF W!Return
<1>3. [W!Current EXCEPT !.before = 0] = W!Current
  BY <1>1
<1>4. budget' = budget /\ own' = own
  BY <1>2, <1>3 DEF W!Keep, W!Current
<1>5. /\ step' \in W!Stages /\ (step' = "replay" => step = "replay")
      /\ W!Limited' <=> W!Limited
  BY DEF W!Return, W!Follows, W!Stages, W!Limited, WaitTypes
<1>6. WindowSpent'
  BY <1>1, <1>2, <1>4, <1>5 DEF WindowSpent, Starting, W!Current
<1> QED
  BY <1>2, <1>4, <1>5, <1>6
  DEF WaitTypes, BarsKept, ReadyToSend, TimersCover, W!NoCall, W!CallAt,
      W!Points

\* An answer that asks to wait: whatever was promised before, the budget
\* remembers it; what is waited is taken off the window.
LEMMA RetryInv ==
  ASSUME WaitInv, call.pc \in {"sent", "receipt"},
         NEW a \in W!Outcomes, W!Retry(a)
  PROVE  WaitInv'
<1> USE DEF WaitInv
<1>1. PICK base \in 2 ^ (call.n - 1) .. W!Fallback(a) :
        LET d == W!Delay(a, base)
            granted == /\ ~W!Signal /\ call.n < Attempts
                       /\ d <= MaxWait /\ d <= W!Available
            noted == [W!Current EXCEPT !.before = W!Note(d, granted)]
            bars == IF W!Limited THEN [barred EXCEPT !.own = W!Greater(@,
                a.asks)]
                    ELSE [barred EXCEPT !.job = W!Greater(@, a.asks)]
        IN IF granted
           THEN /\ W!Keep([noted EXCEPT !.left = W!Spend(@, d)])
                /\ call' = [pc |-> "delay", n |-> call.n + 1, timer |-> d]
                /\ waited' = IF W!Limited THEN waited ELSE waited + d
                /\ barred' = bars
                /\ UNCHANGED <<st, step, abort, till>>
           ELSE W!Throw(noted, bars) /\ UNCHANGED waited
  BY DEF W!Retry
<1> DEFINE d == W!Delay(a, base)
           granted == /\ ~W!Signal /\ call.n < Attempts
                      /\ d <= MaxWait /\ d <= W!Available
           bars == IF W!Limited THEN [barred EXCEPT !.own = W!Greater(@,
               a.asks)]
                   ELSE [barred EXCEPT !.job = W!Greater(@, a.asks)]
           noted == [W!Current EXCEPT !.before = d]
<1>2. a.asks \in Nat /\ d \in Nat /\ a.asks <= d
  BY DelayFacts, WaitBounds
<1>3. /\ W!Current \in [left: Nat, before: Nat] /\ W!Current.before = 0
      /\ W!Available \in Nat /\ W!Available <= W!Current.left
  BY CurrentWait DEF ReadyToSend
<1>4. W!Note(d, granted) = d
  BY <1>2, <1>3 DEF W!Note, W!Greater
<1>5. noted \in [left: Nat, before: Nat] /\ noted.left = W!Current.left
      /\ noted.before = d
  BY <1>2, <1>3
<1>6. /\ bars \in [job: Nat, own: Nat]
      /\ W!Limited => bars.job = barred.job /\ bars.own <= d
      /\ ~W!Limited => bars.own = barred.own /\ bars.job <= d
      /\ step = "replay" => bars.job <= d
  <2>1. barred \in [job: Nat, own: Nat]
    BY DEF WaitTypes
  <2>2. CASE W!Limited
    <3>1. barred.own = 0 /\ (step = "replay" => barred.job = 0)
      BY <1>3, <2>1, <2>2 DEF BarsKept, W!Current, WaitTypes
    <3> QED
      BY <1>2, <2>1, <2>2, <3>1 DEF W!Greater
  <2>3. CASE ~W!Limited
    <3>1. barred.job = 0 /\ step # "replay"
      BY <1>3, <2>1, <2>3 DEF BarsKept, W!Current, WaitTypes, W!Limited
    <3> QED
      BY <1>2, <2>1, <2>3, <3>1 DEF W!Greater
  <2> QED
    BY <2>2, <2>3
<1>7. CASE granted
  <2>1. /\ W!Keep([noted EXCEPT !.left = W!Spend(@, d)]) /\ barred' = bars
        /\ call' = [pc |-> "delay", n |-> call.n + 1, timer |-> d]
        /\ waited' = IF W!Limited THEN waited ELSE waited + d
        /\ step' = step /\ till' = till
    BY <1>1, <1>4, <1>7
  <2> DEFINE spent == [noted EXCEPT !.left = W!Spend(@, d)]
  <2>2. /\ spent \in [left: Nat, before: Nat]
        /\ spent.left = W!Current.left - d /\ spent.before = d
    <3>1. d <= W!Current.left
      BY <1>2, <1>3, <1>7
    <3>2. W!Spend(noted.left, d) = W!Current.left - d
          /\ W!Spend(noted.left, d) \in Nat
      BY <1>2, <1>3, <1>5, <3>1 DEF W!Spend
    <3> HIDE DEF noted, d
    <3>3. spent = [left |-> W!Spend(noted.left, d), before |-> noted.before]
      BY <1>5
    <3> QED
      BY <1>5, <3>2, <3>3
  <2>3. call' \in [pc: W!Points, n: Nat, timer: Nat]
    BY <1>2, <2>1 DEF W!Points, WaitTypes
  <2> HIDE DEF spent
  <2>4. CASE W!Limited
    <3>1. /\ own' = spent /\ budget' = budget /\ waited' = waited
          /\ W!Current = own /\ W!Current' = own'
      BY <2>1, <2>4 DEF W!Keep, W!Current, W!Limited, spent
    <3> QED
      BY <1>2, <1>6, <2>1, <2>2, <2>3, <2>4, <3>1
      DEF WaitTypes, WindowSpent, Starting, BarsKept, ReadyToSend, TimersCover
  <2>5. CASE ~W!Limited
    <3>1. /\ budget' = spent /\ own' = own /\ waited' = waited + d
          /\ W!Current = budget /\ W!Current' = budget'
      BY <2>1, <2>5 DEF W!Keep, W!Current, W!Limited, spent
    <3>2. step' # "replay"
      BY <2>1, <2>5 DEF W!Limited
    <3> QED
      BY <1>2, <1>6, <2>1, <2>2, <2>3, <2>5, <3>1, <3>2, WaitBounds
      DEF WaitTypes, WindowSpent, Starting, BarsKept, ReadyToSend, TimersCover
  <2> QED
    BY <2>4, <2>5
<1>8. CASE ~granted
  <2>1. W!Throw(noted, bars) /\ waited' = waited
    BY <1>1, <1>4, <1>8
  <2>2. /\ noted.left <= W!Current.left
        /\ W!Limited => bars.job = barred.job /\ bars.own <= noted.before
        /\ step = "replay" => bars.job <= noted.before
        /\ ~W!Limited => bars.own = barred.own /\ bars.job <= noted.before
    BY <1>3, <1>5, <1>6
  <2> HIDE DEF WaitInv, noted, bars
  <2> QED
    BY <1>5, <1>6, <2>1, <2>2, ThrowInv
<1> QED
  BY <1>7, <1>8

(***************************************************************************)
(* Each action keeps the invariant                                         *)
(***************************************************************************)
\* A call begins, and looks at notBefore; what it waits is at least that.
LEMMA EnterInv == ASSUME WaitInv, W!Begin \/ W!Enter PROVE WaitInv'
<1> USE DEF WaitInv
<1>1. CASE W!Begin
  BY <1>1
  DEF W!Begin, W!At, W!Goto, WaitTypes, WindowSpent, Starting, W!Limited,
      BarsKept, ReadyToSend, TimersCover, W!Points
<1>2. CASE W!Enter
  <2>1. W!Current \in [left: Nat, before: Nat]
    BY CurrentWait
  <2>2. CASE W!Throw(W!Current, barred) /\ waited' = waited
    BY <2>2, ThrowPlain
  <2>3. CASE /\ W!Stay /\ W!Current.before \in 1 .. MaxWait
             /\ call' = [call EXCEPT !.pc = "backoff",
                                     !.timer = W!Current.before]
             /\ waited' = IF W!Limited THEN waited
                          ELSE waited + W!Current.before
    <3>1. W!Current' = W!Current
      BY <2>3 DEF W!Stay, W!Current, W!Limited
    <3>2. /\ call' \in [pc: W!Points, n: Nat, timer: Nat]
          /\ call'.pc = "backoff" /\ call'.timer = W!Current.before
      BY <2>1, <2>3 DEF WaitTypes, W!Points
    <3>3. WindowSpent' /\ waited' \in Nat
      <4>1. ~Starting' /\ budget' = budget
        BY <2>3, <3>2 DEF Starting, W!Stay
      <4>2. CASE W!Limited
        BY <2>3, <4>1, <4>2 DEF WindowSpent, WaitTypes
      <4>3. CASE ~W!Limited
        <5>1. call.pc = "entry"
          BY <1>2 DEF W!Enter, W!At
        <5>2. /\ budget.before > 0 /\ budget.before <= MaxWait
              /\ waited' = waited + budget.before
          BY <2>3, <4>3, WaitBounds DEF W!Current
        <5>3. waited + budget.left <= Window
          BY <4>3, <5>1, <5>2 DEF Starting, WindowSpent
        <5> QED
          BY <4>1, <5>2, <5>3, WaitBounds DEF WindowSpent, WaitTypes
      <4> QED
        BY <4>2, <4>3
    <3> QED
      BY <2>1, <2>3, <3>1, <3>2, <3>3
      DEF W!Stay, WaitTypes, BarsKept, ReadyToSend, TimersCover
  <2>4. CASE W!Current.before = 0 /\ W!Goto("try") /\ W!Stay /\ waited' = waited
    <3>1. W!Current' = W!Current
      BY <2>4 DEF W!Stay, W!Current, W!Limited
    <3> QED
      BY <2>1, <2>4, <3>1
      DEF W!Goto, W!Stay, WaitTypes, WindowSpent, Starting, BarsKept,
          ReadyToSend, TimersCover, W!Points
  <2> QED
    BY <1>2, <2>2, <2>3, <2>4 DEF W!Enter
<1> QED
  BY <1>1, <1>2

\* A timer that fires has covered what there was to wait.
LEMMA WakeInv == ASSUME WaitInv, W!Wake \/ W!Try PROVE WaitInv'
<1> USE DEF WaitInv
<1>1. W!Current \in [left: Nat, before: Nat] /\ waited' = waited
  BY CurrentWait DEF W!Wake, W!Try
<1>2. CASE W!Throw(W!Current, barred)
  BY <1>1, <1>2, ThrowPlain
<1>3. CASE /\ call.pc \in {"backoff", "delay"} /\ call.timer = 0
           /\ W!Goto("try") /\ W!Stay
  <2>1. W!Current' = W!Current /\ W!Current.before = 0
    BY <1>1, <1>3 DEF W!Stay, W!Current, W!Limited, TimersCover
  <2> QED
    BY <1>1, <1>3, <2>1
    DEF W!Goto, W!Stay, WaitTypes, WindowSpent, Starting, BarsKept,
        ReadyToSend, TimersCover, W!Points
<1>4. CASE W!At("try") /\ W!Goto("sent") /\ W!Stay
  <2>1. W!Current' = W!Current
    BY <1>4 DEF W!Stay, W!Current, W!Limited
  <2> QED
    BY <1>1, <1>4, <2>1
    DEF W!At, W!Goto, W!Stay, WaitTypes, WindowSpent, Starting, BarsKept,
        ReadyToSend, TimersCover, W!Points
<1> QED
  BY <1>2, <1>3, <1>4 DEF W!Wake, W!Try

\* Every answer: the request returned, failed, asks to wait, or was the
\* completion, whose receipt is read first.
LEMMA AnswerInv == ASSUME WaitInv, W!Answer \/ W!Receipt PROVE WaitInv'
<1>1. CASE W!At("sent") /\ W!Return
  BY <1>1, ReturnInv
<1>2. CASE /\ W!At("sent") /\ waited' = waited
           /\ W!Throw(IF step = "create" THEN [W!Current EXCEPT !.before = 0]
                    ELSE W!Current, barred)
  <2>1. W!Current \in [left: Nat, before: Nat] /\ W!Current.before = 0
    BY <1>2, CurrentWait DEF WaitInv, ReadyToSend, W!At
  <2>2. [W!Current EXCEPT !.before = 0] = W!Current
    BY <2>1
  <2>3. W!Throw(W!Current, barred)
    BY <1>2, <2>2
  <2> QED
    BY <1>2, <2>3, ThrowPlain
<1>3. ASSUME NEW a \in W!Outcomes, call.pc \in {"sent", "receipt"}, W!Retry(a)
      PROVE  WaitInv'
  BY <1>3, RetryInv
<1>4. CASE W!At("sent") /\ W!Goto("receipt") /\ W!Stay /\ waited' = waited
  <2>1. W!Current' = W!Current
    BY <1>4 DEF W!Stay, W!Current, W!Limited
  <2> QED
    BY <1>4, <2>1
    DEF W!At, W!Goto, W!Stay, WaitInv, WaitTypes, WindowSpent, Starting,
        BarsKept, ReadyToSend, TimersCover, W!Points
<1>5. CASE W!Answer
  <2>1. PICK a \in W!Outcomes :
          \/ a.is = "ok" /\ W!Return
          \/ /\ a.is # "ok" /\ ~W!Retryable(a) /\ UNCHANGED waited
             /\ W!Throw(IF step = "create" THEN [W!Current EXCEPT !.before = 0]
                      ELSE W!Current, barred)
          \/ /\ W!Retryable(a) /\ step \notin {"complete", "replay"}
             /\ W!Retry(a)
          \/ /\ W!Retryable(a) /\ step \in {"complete", "replay"}
             /\ W!Goto("receipt") /\ W!Stay /\ UNCHANGED waited
    BY <1>5 DEF W!Answer
  <2>2. W!At("sent")
    BY <1>5 DEF W!Answer
  <2>3. W!Retry(a) => WaitInv'
    BY <1>3, <2>2 DEF W!At
  <2> QED
    BY <1>1, <1>2, <1>4, <2>1, <2>2, <2>3
<1>6. CASE W!Receipt
  <2>1. PICK a \in W!Outcomes : W!Retry(a)
    BY <1>6 DEF W!Receipt
  <2>2. call.pc \in {"sent", "receipt"}
    BY <1>6 DEF W!Receipt, W!At
  <2> QED
    BY <1>3, <2>1, <2>2
<1> QED
  BY <1>5, <1>6

\* What a lookup finds takes nothing off the budgets, and a completed upload
\* has its completion sent by the job's.
LEMMA LookedInv == ASSUME WaitInv, W!Looked PROVE WaitInv'
<1>1. /\ budget' = budget /\ own' = own /\ till' = till /\ barred' = barred
      /\ waited' = waited /\ call.pc = "lookup"
  BY DEF W!Looked, W!At
<1>2. /\ call' \in [pc: W!Points, n: Nat, timer: Nat]
      /\ call'.pc \in {"idle", "entry"}
      /\ step' \in W!Stages /\ (W!Limited' <=> W!Limited)
      /\ step' = "replay" => step = "replay"
  BY DEF W!Looked, W!Found, W!NoCall, W!CallAt, W!Points, W!Stages, W!Limited,
         WaitInv, WaitTypes
<1>3. Starting' => Starting
  BY <1>1, <1>2 DEF Starting
<1>4. WindowSpent'
  BY <1>1, <1>3 DEF WaitInv, WindowSpent
<1> QED
  BY <1>1, <1>2, <1>4
  DEF WaitInv, WaitTypes, BarsKept, ReadyToSend, TimersCover

\* A cancellation has a budget of its own, and waits for none of the job's
\* answers.
LEMMA StartCancelInv ==
  ASSUME WaitInv, W!StartCancel, budget' = budget, waited' = waited
  PROVE  WaitInv'
<1> USE WaitBounds DEF WaitInv
<1>1. CASE step \in {"limits", "create"}
  BY <1>1
  DEF W!StartCancel, WaitTypes, WindowSpent, Starting, BarsKept, ReadyToSend,
      TimersCover, W!NoCall, W!CallAt, W!Points
<1>2. CASE step \notin {"limits", "create"}
  BY <1>2
  DEF W!StartCancel, WaitTypes, WindowSpent, Starting, W!Limited, BarsKept,
      ReadyToSend, TimersCover, W!CallAt, W!Points, W!Stages, W!Fresh
<1> QED
  BY <1>1, <1>2

\* The acts of the user, and a page loaded again: another window, never
\* another notBefore.
LEMMA UserInv ==
  ASSUME WaitInv, W!Pause \/ W!Resume \/ W!Cancel \/ W!Reload
  PROVE  WaitInv'
<1> USE WaitBounds DEF WaitInv
<1>1. CASE W!Pause
  BY <1>1
  DEF W!Pause, W!At, WaitTypes, WindowSpent, Starting, BarsKept, ReadyToSend,
      TimersCover, W!Current, W!Limited
<1>2. CASE W!Resume
  <2>1. /\ budget' \in [left: Nat, before: Nat] /\ budget'.left = Window
        /\ budget'.before = budget.before /\ waited' = 0
        /\ own' = own /\ step' = step /\ till' = till /\ barred' = barred
        /\ call' \in [pc: W!Points, n: Nat, timer: Nat]
        /\ call'.pc \in {"idle", "lookup"}
    BY <1>2 DEF W!Resume, WaitTypes, W!CallAt, W!Points
  <2>2. W!Current'.before = W!Current.before
    BY <2>1 DEF W!Current, W!Limited
  <2> QED
    BY <2>1, <2>2
    DEF WaitTypes, WindowSpent, BarsKept, ReadyToSend, TimersCover
<1>3. CASE W!Cancel
  <2>1. CASE W!StartCancel
    <3>1. budget' = budget /\ waited' = waited
      BY <1>3 DEF W!Cancel
    <3> QED
      BY <2>1, <3>1, StartCancelInv
  <2>2. CASE ~W!StartCancel
    BY <1>3, <2>2
    DEF W!Cancel, W!At, WaitTypes, WindowSpent, Starting, BarsKept,
        ReadyToSend, TimersCover, W!Current, W!Limited
  <2> QED
    BY <2>1, <2>2
<1>4. CASE W!Reload
  <2>1. /\ budget' \in [left: Nat, before: Nat] /\ budget'.left = Window
        /\ budget'.before = budget.before /\ waited' = 0 /\ own' = own
        /\ call' = W!NoCall /\ till' = till /\ barred' = barred
    BY <1>4 DEF W!Reload, WaitTypes
  <2>2. step' \in W!Stages /\ (step' = "replay" => step = "replay")
    BY <1>4 DEF W!Reload, WaitTypes, W!Stages
  <2> QED
    BY <2>1, <2>2
    DEF WaitTypes, WindowSpent, BarsKept, ReadyToSend, TimersCover, W!NoCall,
        W!CallAt, W!Points
<1> QED
  BY <1>1, <1>2, <1>3, <1>4

\* Time takes as much off a timer as off what it is to cover.
LEMMA TickInv == ASSUME WaitInv, W!Tick PROVE WaitInv'
<1> USE DEF WaitInv
<1>1. \A i, k \in Nat : /\ W!Down(i) \in Nat /\ W!Down(0) = 0
                        /\ i <= k => W!Down(i) <= W!Down(k)
  BY DEF W!Down
<1>2. /\ call' \in [pc: W!Points, n: Nat, timer: Nat]
      /\ call'.pc = call.pc /\ call'.timer = W!Down(call.timer)
  BY <1>1 DEF W!Tick, WaitTypes
<1>3. /\ budget' \in [left: Nat, before: Nat]
      /\ budget'.left = budget.left /\ budget'.before = W!Down(budget.before)
  BY <1>1 DEF W!Tick, WaitTypes
<1>4. /\ own' \in [left: Nat, before: Nat] /\ own'.before = W!Down(own.before)
  BY <1>1 DEF W!Tick, WaitTypes
<1>5. /\ barred' \in [job: Nat, own: Nat] /\ barred'.job = W!Down(barred.job)
      /\ barred'.own = W!Down(barred.own)
  BY <1>1 DEF W!Tick, WaitTypes
<1>6. till' \in Nat /\ step' = step /\ waited' = waited
  BY <1>1 DEF W!Tick, WaitTypes
<1>7. WaitTypes'
  BY <1>2, <1>3, <1>4, <1>5, <1>6 DEF WaitTypes
<1>8. WindowSpent'
  BY <1>2, <1>3, <1>6
  DEF WindowSpent, Starting, W!Limited, W!Tick, W!Down, WaitTypes
<1>9. BarsKept'
  BY <1>1, <1>3, <1>4, <1>5, <1>6 DEF BarsKept, WaitTypes
<1>10. W!Current'.before = W!Down(W!Current.before)
  BY <1>3, <1>4, <1>6 DEF W!Current, W!Limited
<1>11. ReadyToSend'
  BY <1>1, <1>2, <1>10 DEF ReadyToSend
<1>12. TimersCover'
  BY <1>1, <1>2, <1>10, CurrentWait DEF TimersCover, WaitTypes
<1> QED
  BY <1>7, <1>8, <1>9, <1>11, <1>12

\* The invariant is inductive.
LEMMA WaitStep == ASSUME WaitInv, [W!Next]_(W!vars) PROVE WaitInv'
<1>1. CASE UNCHANGED W!vars
  BY <1>1
  DEF W!vars, WaitInv, WaitTypes, WindowSpent, Starting, BarsKept, ReadyToSend,
      TimersCover, W!Current, W!Limited
<1>2. CASE W!Finish
  BY <1>2, StartCancelInv DEF W!Finish
<1>3. CASE W!Looked
  BY <1>3, LookedInv
<1>4. CASE W!Expire
  <2>1. CASE W!Throw(W!Current, barred)
    BY <1>4, <2>1, ThrowPlain DEF W!Expire
  <2>2. CASE ~W!Throw(W!Current, barred)
    BY <1>4, <2>2
    DEF W!Expire, WaitInv, WaitTypes, WindowSpent, Starting, BarsKept,
        ReadyToSend, TimersCover, W!Current, W!Limited
  <2> QED
    BY <2>1, <2>2
<1> QED
  BY <1>1, <1>2, <1>3, <1>4, EnterInv, WakeInv, AnswerInv, UserInv, TickInv
  DEF W!Next, W!Own, W!Answered

\* In every reachable state a budget remembers what answers ask for, and no
\* call is about to send before that is over.
THEOREM AlwaysWaitInv == W!Spec => []WaitInv
<1>1. W!Init => WaitInv
  BY WaitInit
<1>2. WaitInv /\ [W!Next]_(W!vars) => WaitInv'
  BY WaitStep
<1> QED
  BY <1>1, <1>2, PTL DEF W!Spec

(***************************************************************************)
(* What a reader should know of                                            *)
(***************************************************************************)
\* However the requests of an upload fail, between two acts of the user the
\* browser waits no longer than one window, and once for what an answer of
\* before asks for yet.
THEOREM WaitsWithinWindow == W!Spec => []WindowKept
<1>1. WaitInv => WindowKept
  BY WaitBounds DEF WaitInv, WaitTypes, WindowSpent, WindowKept, W!WindowKept
<1> QED
  BY <1>1, AlwaysWaitInv, PTL

\* Nothing goes out but by Try, which looks at the deadline and the signal.
LEMMA OnlyTrySends ==
  ASSUME WaitInv, [W!Next]_(W!vars), ~W!At("sent"), call'.pc = "sent"
  PROVE  W!Try
<1>1. \A left, bars : W!Throw(left, bars) => call'.pc # "sent"
  BY DEF W!Throw, W!NoCall, W!CallAt
<1>2. \A a : W!Retry(a) => call'.pc # "sent"
  BY <1>1 DEF W!Retry
<1>3. W!StartCancel => call'.pc # "sent"
  BY DEF W!StartCancel, W!NoCall, W!CallAt
<1>4. \A p \in W!Points :
        W!Goto(p) => call' = [pc |-> p, n |-> call.n, timer |-> 0]
  BY DEF W!Goto, WaitInv, WaitTypes
<1>5. ~W!Begin /\ ~W!Enter /\ ~W!Wake
  <2>1. ~W!Goto("entry") /\ ~W!Goto("try")
    BY <1>4 DEF W!Points
  <2>2. call' # [call EXCEPT !.pc = "backoff", !.timer = W!Current.before]
    BY DEF WaitInv, WaitTypes
  <2> QED
    BY <1>1, <2>1, <2>2 DEF W!Begin, W!Enter, W!Wake
<1>6. ~W!Answer /\ ~W!Receipt /\ ~W!Looked
  BY <1>1, <1>2
  DEF W!Answer, W!Receipt, W!Looked, W!Found, W!At, W!NoCall, W!CallAt,
      W!Retryable
<1>7. ~W!Finish /\ ~W!Expire /\ ~W!Pause /\ ~W!Resume /\ ~W!Cancel
  BY <1>1, <1>3
  DEF W!Finish, W!Expire, W!Pause, W!Resume, W!Cancel, W!At, W!CallAt
<1>8. ~W!Reload /\ ~W!Tick /\ ~UNCHANGED W!vars
  BY DEF W!Reload, W!Tick, W!vars, W!At, W!NoCall, W!CallAt, WaitInv,
         WaitTypes
<1> QED
  BY <1>5, <1>6, <1>7, <1>8 DEF W!Next, W!Own, W!Answered

\* No request of the retry loop is sent before the time an answer asked to
\* wait for: whatever waits are interrupted, paused, resumed, cancelled or lost
\* with the page.
THEOREM SentWhenAllowed == W!Spec => NeverEarly
<1>1. ASSUME WaitInv, [W!Next]_(W!vars), ~W!At("sent"), call'.pc = "sent"
      PROVE  /\ W!Limited => barred.own = 0
             /\ step # "delete" => barred.job = 0
  <2>1. W!Try
    BY <1>1, OnlyTrySends
  <2>2. W!Current.before = 0
    BY <1>1, <2>1 DEF WaitInv, ReadyToSend, W!Try, W!At
  <2> QED
    BY <1>1, <2>2 DEF WaitInv, BarsKept, WaitTypes, W!Current, W!Limited
<1>2. WaitInv /\ [W!Next]_(W!vars) =>
        [ ~W!At("sent") /\ call'.pc = "sent" =>
            /\ W!Limited => barred.own = 0
            /\ step # "delete" => barred.job = 0 ]_(W!vars)
  BY <1>1
<1> QED
  BY <1>2, AlwaysWaitInv, PTL DEF NeverEarly, W!NeverEarly, W!Spec

-----------------------------------------------------------------------------
(***************************************************************************)
(* The volumes (StorageMounts).                                            *)
(***************************************************************************)
Inspecting == {"stat", "mount", "marker", "compare", "pin", "rights"}
Probing    == {"probe", "again", "unlink", "verdict"}
Landing    == {"open", "bind", "check", "write"}
Marks   == [vol: Volumes, ino: Inodes, tick: Nat]
Markers == [ino: Inodes, tick: Nat, made: Nat, text: {"hdd", "ssd", "blank"}]
OrNone(S) == S \cup {None}

Volume ==
  [marker: OrNone(Markers), disk: {"none", "unnamed", "hdd", "ssd"},
   ro: BOOLEAN, tmp: [ino: Inodes, kind: {"dir", "link"}, made: Nat],
   user: {"dir", "link"}, probes: SUBSET Nat]
PinRow == [stat: Volumes, mount: OrNone(Volumes), mark: OrNone(Marks)]
Workspace == [fd: OrNone(V!Dirs), ident: OrNone(V!Dirs),
              boundary: OrNone(V!Dirs), failed: BOOLEAN]
Inspection ==
  [op: {"none", "probe", "read", "write", "chunk"},
   w: OrNone(V!Workspaces), root: V!Roots,
   pc: {"idle", "object", "use", "apart", "tmp"} \cup Inspecting
       \cup Probing \cup Landing,
   stat: Volumes, mount: OrNone(Volumes), ro: BOOLEAN, mark: OrNone(Marks),
   round: 1..3, failed: BOOLEAN, calm: BOOLEAN, shown: OrNone(V!Dirs)]
Enrolment ==
  [pc: {"idle", "create", "write", "sync", "dirsync"},
   vol: OrNone(Volumes), at: Nat, done: OrNone(Volumes), doneAt: Nat]

VolumeTypes ==
  /\ at \in [V!Roots -> Volumes] /\ vol \in [Volumes -> Volume]
  /\ clock \in Nat /\ changes \in Nat
  /\ pins \in [V!Roots -> OrNone(PinRow)]
  /\ anchors \in [V!Roots -> OrNone([vol: Volumes, ino: Inodes])]
  /\ born \in [V!Roots -> OrNone(Nat)]
  /\ ws \in [V!Workspaces -> Workspace] /\ check \in Inspection
  /\ counts \in [calls: Nat, starts: Nat, enrolments: Nat]
  /\ enrol \in Enrolment

\* A marker that is held gives its number to no other.
Anchored ==
  \A r \in V!Roots :
    /\ pins[r] # None /\ V!RequiresMarker(r) =>
         /\ anchors[r] # None /\ pins[r].mark # None
         /\ anchors[r].vol = pins[r].mark.vol
         /\ anchors[r].ino = pins[r].mark.ino
    /\ anchors[r] # None =>
         LET m == vol[anchors[r].vol].marker
         IN  m # None /\ m.ino = anchors[r].ino => m.made = born[r]

\* What the call under way is for.
CallFits(c) ==
  /\ c.pc = "idle" => c.op = "none" /\ c.round = 1
  /\ c.op # "chunk" => c.root = "hdd"
  /\ c.op = "chunk" => /\ c.w \in V!Workspaces /\ ~ws[c.w].failed
                       /\ (c.w = Ssd) <=> (c.root = "ssd")
  /\ c.round > 1 => c.op = "probe"
  /\ c.pc = "mount" => V!RequiresMount(c.root)
  /\ c.pc \in Probing => c.op = "probe"
  /\ c.pc = "probe" => c.round = 1
  /\ c.pc \in {"again", "unlink", "verdict"} => c.round > 1
  /\ c.pc \in {"apart", "tmp"} \cup Landing => c.op = "chunk"
  /\ c.pc = "apart" => c.w = Ssd
  /\ c.pc = "tmp" => c.w # Ssd
  /\ c.pc \in {"object", "use"} => c.op \notin {"probe", "chunk"}

\* What it has found out stays so while nothing moves, from one inspection of
\* a probe to the next.
Later(c, labels) == c.round > 1 \/ c.pc \notin labels \cup {"idle"}

Inspected(c) ==
  /\ Later(c, {"stat"}) => c.stat = at[c.root]
  /\ Later(c, {"stat", "mount"}) /\ V!RequiresMount(c.root) =>
       V!ExactMount(c.root) /\ c.mount = at[c.root]
  /\ Later(c, {"stat", "mount", "marker"}) /\ V!RequiresMarker(c.root) =>
       /\ V!SeesMarker(c.root) /\ vol[at[c.root]].marker.text = c.root
       /\ c.mark = V!MarkerStat(c.root)
  /\ Later(c, Inspecting \ {"rights"}) => pins[c.root] = V!Fingerprint(c)
  /\ c.op = "probe" /\ c.round > 1 => ~vol[at[c.root]].ro
  /\ c.op = "probe" /\ (c.round > 1 \/ c.pc = "probe") => ~c.ro
  /\ c.pc = "use" => vol[at["hdd"]].user = "dir"
  /\ c.pc \in Landing /\ c.w = Ssd => at["ssd"] # at["hdd"]
  /\ c.pc = "write" => c.shown # None /\ c.shown.vol = at[c.root]

\* Which volumes have the file of this probe.
ProbeOn(v) == counts.calls \in vol[v].probes

ProbesFit ==
  /\ \A v \in Volumes : \A n \in vol[v].probes : n <= counts.calls
  /\ check.op = "probe" /\ check.round = 1 => \A v \in Volumes : ~ProbeOn(v)
  /\ check.op = "probe" /\ check.calm =>
       /\ \A v \in Volumes : ProbeOn(v) => v = at["hdd"]
       /\ check.pc = "verdict" /\ ~check.failed =>
            \A v \in Volumes : ~ProbeOn(v)

\* A workspace that has a descriptor has, once it is bound, a boundary on the
\* very same directory.
Bound(w, c) ==
  LET x == ws[w] IN
  /\ x.fd # None =>
       IF w = Ssd THEN x.fd.ino = 0 /\ x.fd.made = 0
       ELSE LET t == vol[x.fd.vol].tmp
            IN  t.ino = x.fd.ino => t.made = x.fd.made
  /\ x.boundary # None => x.boundary = x.fd
  /\ x.fd # None /\ ~x.failed =>
       x.boundary # None \/ (c.pc = "bind" /\ c.w = w)

Lands(c) ==
  /\ c.pc = "open" => ws[c.w].fd = None
  /\ c.pc = "bind" => ws[c.w].fd # None /\ ws[c.w].boundary = None
  /\ c.pc \in {"check", "write"} => ws[c.w].boundary # None
  /\ c.pc = "write" => c.shown = ws[c.w].boundary

Landed ==
  \A l \in landed :
    /\ l.w \in V!Workspaces /\ l.dir = l.shown /\ (l.w = Ssd => l.apart)
    /\ ws[l.w].failed \/ (l.dir = ws[l.w].boundary /\ l.dir # None)

\* A marker that is being enrolled, and one that has been.
Enrolling ==
  /\ \A v \in Volumes : vol[v].marker = None => vol[v].disk = "none"
  /\ enrol.pc \in {"write", "sync", "dirsync"} =>
       /\ enrol.vol # None /\ enrol.at <= changes
       /\ changes = enrol.at =>
            /\ vol[enrol.vol].marker # None
            /\ vol[enrol.vol].marker.text =
                 IF enrol.pc = "write" THEN "blank" ELSE "hdd"
            /\ vol[enrol.vol].disk =
                 IF enrol.pc = "dirsync" THEN "unnamed" ELSE "none"
  /\ enrol.done # None =>
       /\ enrol.doneAt <= changes
       /\ changes = enrol.doneAt =>
            /\ vol[enrol.done].marker # None
            /\ vol[enrol.done].marker.text = "hdd"
            /\ vol[enrol.done].disk = "hdd"

\* A process that is down has no call.
Quiet == proc = "down" => check.pc = "idle"

VolumeInv ==
  /\ VolumeTypes /\ Anchored /\ CallFits(check) /\ Quiet
  /\ check.calm => Inspected(check)
  /\ ProbesFit /\ \A w \in V!Workspaces : Bound(w, check)
  /\ Lands(check) /\ Landed /\ V!OneDirectory /\ Enrolling

LEMMA VolumeConstants ==
  /\ {HddVolume, SsdVolume, System} \subseteq Volumes
  /\ Ops \subseteq {"probe", "read", "write", "chunk"} /\ Production \in BOOLEAN
  /\ Ssd # None /\ None \notin Volumes \cup Legacy
  /\ None \notin V!Dirs /\ None \notin Markers /\ None \notin Marks
  /\ None \notin [vol: Volumes, ino: Inodes] /\ None \notin PinRow
  /\ None \notin V!Workspaces
<1>1. V!VolumesFit
  BY VolumesAssumption
<1>2. None \notin V!Dirs
  BY <1>1 DEF V!VolumesFit, V!Dirs
<1>3. None \notin Markers /\ None \notin Marks
  BY <1>1 DEF V!VolumesFit, Markers, Marks
<1>4. None \notin PinRow
  BY <1>1 DEF V!VolumesFit, PinRow, OrNone, Marks
<1> QED
  BY <1>1, <1>2, <1>3, <1>4 DEF V!VolumesFit, V!Workspaces

\* The call that is under way when the process is idle, or starts.
LEMMA NoCallFits ==
  /\ V!NoCall \in Inspection /\ V!NoWs \in Workspace
  /\ \A c \in Inspection :
       c.op = "none" /\ c.pc = "idle" /\ c.round = 1 /\ c.root = "hdd" =>
         CallFits(c) /\ Inspected(c) /\ Lands(c)
<1>1. V!NoCall \in Inspection
  BY VolumeConstants
  DEF V!NoCall, Inspection, OrNone, V!Roots
<1>2. V!NoWs \in Workspace
  BY DEF V!NoWs, Workspace, OrNone
<1>3. ASSUME NEW c \in Inspection, c.op = "none", c.pc = "idle", c.round = 1,
             c.root = "hdd"
      PROVE  CallFits(c) /\ Inspected(c) /\ Lands(c)
  BY <1>3 DEF CallFits, Inspected, Lands, Later, Probing, Landing, Inspecting
<1> QED
  BY <1>1, <1>2, <1>3

LEMMA CheckIs ==
  ASSUME VolumeInv
  PROVE  /\ check \in Inspection /\ CallFits(check) /\ Lands(check)
         /\ check.calm => Inspected(check)
         /\ at \in [V!Roots -> Volumes] /\ vol \in [Volumes -> Volume]
         /\ check.root \in V!Roots /\ "hdd" \in V!Roots /\ "ssd" \in V!Roots
         /\ at[check.root] \in Volumes /\ at["hdd"] \in Volumes
         /\ at["ssd"] \in Volumes
  BY DEF VolumeInv, VolumeTypes, Inspection, V!Roots

\* A step of the call alone.
LEMMA CallStep ==
  ASSUME VolumeInv, V!Steady, check.pc # "idle",
         NEW c \in Inspection, check' = c,
         CallFits(c), c.calm => Inspected(c), Lands(c),
         \A x \in V!Workspaces : Bound(x, c),
         c.op = check.op \/ c.op # "probe", c.round >= check.round,
         c.op = "probe" /\ c.calm =>
           /\ check.calm
           /\ c.pc = "verdict" /\ ~c.failed => FALSE
  PROVE  VolumeInv'
<1>1. VolumeTypes'
  BY DEF VolumeInv, VolumeTypes, V!Steady, V!world, V!registry
<1>2. Anchored' /\ Landed' /\ V!OneDirectory' /\ Enrolling'
  BY DEF VolumeInv, Anchored, Landed, V!OneDirectory, Enrolling, V!Steady,
         V!world, V!registry, V!RequiresMarker
<1>3. CallFits(check)' /\ Lands(check)'
  BY DEF CallFits, Lands, V!Steady
<1>4. (check.calm => Inspected(check))'
  BY DEF Inspected, V!Steady, V!world, V!registry, V!RequiresMount,
         V!RequiresMarker, V!ExactMount, V!SeesMarker, V!MarkerStat,
         V!Fingerprint, Later
<1>5. \A x \in V!Workspaces : Bound(x, check)'
  BY DEF Bound, V!Steady, V!world
<1>6. ProbesFit'
  BY DEF VolumeInv, ProbesFit, ProbeOn, V!Steady, V!world, Inspection,
         VolumeTypes
<1>7. Quiet'
  BY DEF VolumeInv, Quiet, V!Steady
<1> QED
  BY <1>1, <1>2, <1>3, <1>4, <1>5, <1>6, <1>7 DEF VolumeInv

LEMMA OtherWays ==
  ASSUME VolumeInv, check.pc # "bind", NEW c
  PROVE  \A x \in V!Workspaces : Bound(x, c)
BY DEF VolumeInv, Bound

\* A step to another point of the same call.
LEMMA Onwards ==
  ASSUME VolumeInv, check.pc \notin {"idle", "bind"}, NEW c \in Inspection,
         V!Go(c), c.op = check.op, c.w = check.w, c.root = check.root,
         c.round = check.round, c.calm = check.calm, c.pc # "verdict",
         CallFits(c), c.calm => Inspected(c), Lands(c)
  PROVE  VolumeInv'
<1>1. check.round \in 1..3
  BY CheckIs DEF Inspection
<1> QED
  BY <1>1, OtherWays, CallStep DEF V!Go

\* A call is over, the rest is as it was.
Others == <<at, nested, vol, clock, changes, pins, anchors, born, ws, counts,
            enrol>>

LEMMA CallOver ==
  ASSUME VolumeInv, check.pc # "bind", check' = V!NoCall, UNCHANGED Others,
         Landed', V!OneDirectory'
  PROVE  VolumeInv'
<1>1. check.round \in 1..3 /\ V!NoCall \in Inspection
  BY CheckIs, NoCallFits DEF Inspection
<1> DEFINE c == V!NoCall
<1>2. c.op = "none" /\ c.pc = "idle" /\ c.round = 1 /\ c.root = "hdd"
  BY DEF V!NoCall
<1>3. CallFits(c) /\ Inspected(c) /\ Lands(c)
  BY <1>1, <1>2, NoCallFits
<1>4. \A x \in V!Workspaces : Bound(x, c)
  BY OtherWays
<1>5. VolumeTypes' /\ Quiet'
  BY <1>1, <1>2 DEF VolumeInv, VolumeTypes, Others, Quiet
<1>6. Anchored' /\ Enrolling'
  BY DEF VolumeInv, Anchored, Enrolling, Others, V!RequiresMarker
<1>7. CallFits(check)' /\ Lands(check)'
  BY <1>3 DEF CallFits, Lands, Others
<1>8. (check.calm => Inspected(check))'
  BY <1>3 DEF Inspected, Others, V!RequiresMount,
         V!RequiresMarker, V!ExactMount, V!SeesMarker, V!MarkerStat,
         V!Fingerprint, Later
<1>9. \A x \in V!Workspaces : Bound(x, check)'
  BY <1>4 DEF Bound, Others
<1>10. ProbesFit'
  BY <1>2 DEF VolumeInv, ProbesFit, ProbeOn, Others
<1> QED
  BY <1>5, <1>6, <1>7, <1>8, <1>9, <1>10 DEF VolumeInv

LEMMA CallEnds ==
  ASSUME VolumeInv, check.pc # "bind", check' = V!NoCall, UNCHANGED Others,
         UNCHANGED landed
  PROVE  VolumeInv'
<1>1. Landed' /\ V!OneDirectory'
  BY DEF VolumeInv, Landed, V!OneDirectory, Others
<1> QED
  BY <1>1, CallOver

\* The process ends, however it does.
LEMMA ExitInv ==
  ASSUME VolumeInv, V!Exit
  PROVE  VolumeInv'
<1> DEFINE c == V!NoCall
<1>1. c \in Inspection /\ V!NoWs \in Workspace
  BY NoCallFits
<1>2. c.op = "none" /\ c.pc = "idle" /\ c.round = 1 /\ c.root = "hdd"
  BY DEF V!NoCall
<1>3. CallFits(c) /\ Inspected(c) /\ Lands(c)
  BY <1>1, <1>2, NoCallFits
<1>4. check' = c
  BY DEF V!Exit
<1> HIDE DEF c
<1>5. VolumeTypes' /\ Quiet'
  BY <1>1, <1>2, <1>4
  DEF VolumeInv, VolumeTypes, Quiet, V!Exit, V!world, OrNone
<1>6. Anchored' /\ Landed' /\ V!OneDirectory' /\ Enrolling'
  <2>1. Anchored'
    BY DEF Anchored, V!Exit
  <2>2. Landed' /\ V!OneDirectory'
    BY DEF Landed, V!OneDirectory, V!Exit
  <2>3. Enrolling'
    BY DEF VolumeInv, Enrolling, V!Exit, V!world
  <2> QED
    BY <2>1, <2>2, <2>3
<1>7. CallFits(check)' /\ Lands(check)'
  BY <1>2, <1>4 DEF CallFits, Lands, Probing, Landing
<1>8. (check.calm => Inspected(check))'
  BY <1>2, <1>4 DEF Inspected, Later, Landing, Inspecting
<1>9. \A x \in V!Workspaces : Bound(x, check)'
  BY DEF Bound, V!Exit, V!NoWs
<1>10. ProbesFit'
  BY <1>2, <1>4 DEF VolumeInv, ProbesFit, ProbeOn, V!Exit, V!world
<1> QED
  BY <1>5, <1>6, <1>7, <1>8, <1>9, <1>10 DEF VolumeInv

\* A refusal; a probe that has written meets one only when something moved.
LEMMA RefuseInv ==
  ASSUME VolumeInv, V!Refuse, check.pc # "idle",
         check.op # "chunk" => check.pc # "bind",
         check.round > 1 => ~check.calm
  PROVE  VolumeInv'
<1>1. /\ check \in Inspection /\ CallFits(check) /\ Lands(check)
      /\ check.round \in 1..3
      /\ check.op = "chunk" => check.w \in V!Workspaces
  BY CheckIs DEF Inspection, CallFits
<1>2. CASE check.op = "chunk"
  <2> DEFINE c == V!NoCall
             f == V!Latched(check.w)
  <2>1. c \in Inspection /\ c.op = "none" /\ c.pc = "idle" /\ c.round = 1
        /\ c.root = "hdd"
    BY NoCallFits DEF V!NoCall
  <2>2. /\ check' = c /\ ws' = [ws EXCEPT ![check.w] = f]
        /\ UNCHANGED <<at, nested, vol, clock, changes, pins, anchors, born,
                       proc, counts, landed, enrol>>
    BY <1>2 DEF V!Refuse, V!world, V!registry
  <2>3. ws \in [V!Workspaces -> Workspace]
    BY DEF VolumeInv, VolumeTypes
  <2>4. /\ f \in Workspace /\ f.failed
        /\ f.fd = None \/ f = [ws[check.w] EXCEPT !.failed = TRUE]
        /\ f.boundary # None => f.fd # None
        /\ f.fd \in {None, ws[check.w].fd}
        /\ f.boundary \in {None, ws[check.w].boundary}
    <3>1. Bound(check.w, check) /\ ws[check.w] \in Workspace
      BY <1>1, <1>2, <2>3 DEF VolumeInv
    <3>2. CASE check.w = Ssd
      BY <3>2, NoCallFits DEF V!Latched, V!NoWs, Workspace
    <3>3. CASE check.w # Ssd
      <4>1. f = [ws[check.w] EXCEPT !.failed = TRUE]
        BY <3>3 DEF V!Latched
      <4>2. ws[check.w].boundary # None => ws[check.w].fd # None
        BY <3>1 DEF Bound
      <4> HIDE DEF f
      <4> QED
        BY <3>1, <4>1, <4>2 DEF Workspace
    <3> QED
      BY <3>2, <3>3
  <2> HIDE DEF c, f
  <2>5. VolumeTypes' /\ Quiet'
    BY <1>1, <1>2, <2>1, <2>2, <2>4 DEF VolumeInv, VolumeTypes, Quiet
  <2>6. Anchored' /\ Enrolling'
    BY <2>2 DEF VolumeInv, Anchored, Enrolling, V!RequiresMarker
  <2>7. Landed' /\ V!OneDirectory'
    BY <1>1, <1>2, <2>2, <2>3, <2>4
    DEF VolumeInv, Landed, V!OneDirectory
  <2>8. CallFits(check)' /\ Lands(check)'
    BY <2>1, <2>2 DEF CallFits, Lands, Probing, Landing
  <2>9. (check.calm => Inspected(check))'
    BY <2>1, <2>2 DEF Inspected, Later, Landing, Inspecting
  <2>10. ASSUME NEW x \in V!Workspaces PROVE Bound(x, check)'
    <3>1. Bound(x, check)
      BY DEF VolumeInv
    <3>2. CASE x = check.w
      BY <1>1, <1>2, <2>2, <2>3, <2>4, <3>1, <3>2 DEF Bound
    <3>3. CASE x # check.w
      BY <1>1, <1>2, <2>2, <2>3, <3>1, <3>3 DEF Bound
    <3> QED
      BY <3>2, <3>3
  <2>11. ProbesFit'
    BY <2>1, <2>2 DEF VolumeInv, ProbesFit, ProbeOn
  <2> QED
    BY <2>5, <2>6, <2>7, <2>8, <2>9, <2>10, <2>11 DEF VolumeInv
<1>3. CASE check.op = "probe" /\ check.round = 2
  <2> DEFINE c == [check EXCEPT !.failed = TRUE, !.round = 3, !.pc = "stat"]
  <2>1. V!Go(c)
    BY <1>3 DEF V!Refuse, V!Go, V!Steady
  <2>2. c \in Inspection
    <3>1. 3 \in 1..3 /\ "stat" \in Inspecting
      BY DEF Inspecting
    <3> QED
      BY <1>1, <3>1 DEF Inspection
  <2>3. /\ c.op = "probe" /\ c.round = 3 /\ c.pc = "stat" /\ ~c.calm
        /\ c.root = check.root /\ c.w = check.w
    BY <1>1, <1>3 DEF Inspection
  <2> HIDE DEF c
  <2>4. CallFits(c) /\ Lands(c)
    BY <1>1, <1>3, <2>3 DEF CallFits, Lands, Probing, Landing
  <2> QED
    BY <1>1, <1>3, <2>1, <2>2, <2>3, <2>4, OtherWays, CallStep DEF V!Go
<1>4. CASE check.op = "probe" /\ check.round = 3 /\ ~check.failed
  <2> DEFINE c == [check EXCEPT !.pc = "verdict"]
  <2>1. V!Go(c)
    BY <1>4 DEF V!Refuse, V!Go, V!Steady, V!Goto
  <2>2. c \in Inspection
    BY <1>1 DEF Inspection, Probing
  <2>3. /\ c.op = "probe" /\ c.round = 3 /\ c.pc = "verdict" /\ ~c.calm
        /\ c.root = check.root /\ c.w = check.w
    BY <1>1, <1>4 DEF Inspection
  <2> HIDE DEF c
  <2>4. CallFits(c) /\ Lands(c)
    BY <1>1, <1>4, <2>3 DEF CallFits, Lands, Probing, Landing
  <2> QED
    BY <1>1, <1>4, <2>1, <2>2, <2>3, <2>4, OtherWays, CallStep DEF V!Go
<1>5. CASE /\ check.op # "chunk" /\ ~(check.op = "probe" /\ check.round = 2)
           /\ ~(check.op = "probe" /\ check.round = 3 /\ ~check.failed)
  BY <1>5, ExitInv, CallEnds DEF V!Refuse, V!world, V!registry, Others
<1> QED
  BY <1>2, <1>3, <1>4, <1>5

\* What an inspection leaves of its call.
LEMMA StillFits ==
  ASSUME VolumeInv, check.pc # "idle", NEW c, c.op = check.op, c.w = check.w,
         c.root = check.root, c.round = check.round, c.pc \in Inspecting,
         c.pc = "mount" => V!RequiresMount(c.root)
  PROVE  CallFits(c) /\ Lands(c)
BY CheckIs DEF CallFits, Lands, Inspecting, Probing, Landing

LEMMA StatRootInv ==
  ASSUME VolumeInv, V!StatRoot
  PROVE  VolumeInv'
<1> DEFINE l == IF V!RequiresMount(check.root) THEN "mount" ELSE "marker"
           c == [check EXCEPT !.stat = at[check.root], !.pc = l]
<1>1. check.pc = "stat" /\ V!Go(c)
  BY DEF V!StatRoot
<1>2. l \in {"mount", "marker"} /\ (V!RequiresMount(check.root) <=> l = "mount")
  OBVIOUS
<1>3. c \in Inspection
  BY <1>2, CheckIs DEF Inspection, Inspecting
<1>4. /\ c.op = check.op /\ c.w = check.w /\ c.root = check.root
      /\ c.round = check.round /\ c.calm = check.calm /\ c.ro = check.ro
      /\ c.mount = check.mount /\ c.mark = check.mark /\ c.pc = l
      /\ c.stat = at[check.root]
  BY CheckIs DEF Inspection
<1> HIDE DEF c, l
<1>5. CallFits(c) /\ Lands(c)
  BY <1>1, <1>2, <1>4, StillFits DEF Inspecting
<1>6. c.calm => Inspected(c)
  BY <1>1, <1>2, <1>4, CheckIs
  DEF Inspected, Later, V!Fingerprint, Inspecting, Landing
<1> QED
  BY <1>1, <1>2, <1>3, <1>4, <1>5, <1>6, Onwards

LEMMA ReadMountInv ==
  ASSUME VolumeInv, V!ReadMount
  PROVE  VolumeInv'
<1> DEFINE v == at[check.root]
           c == [check EXCEPT !.mount = v, !.ro = vol[v].ro, !.pc = "marker"]
<1>0. check.pc = "mount"
  BY DEF V!ReadMount
<1>1. CASE ~V!ExactMount(check.root)
  <2>1. V!Refuse
    BY <1>1 DEF V!ReadMount
  <2>2. check.round > 1 => ~check.calm
    BY <1>0, <1>1, CheckIs DEF CallFits, Inspected, Later
  <2> QED
    BY <1>0, <2>1, <2>2, RefuseInv
<1>2. CASE V!ExactMount(check.root)
  <2>1. V!Go(c)
    BY <1>2 DEF V!ReadMount
  <2>2. vol[v].ro \in BOOLEAN /\ v \in Volumes
    BY CheckIs DEF Volume
  <2>3. c \in Inspection
    BY <2>2, CheckIs DEF Inspection, Inspecting, OrNone
  <2>4. /\ c.op = check.op /\ c.w = check.w /\ c.root = check.root
        /\ c.round = check.round /\ c.calm = check.calm /\ c.ro = vol[v].ro
        /\ c.mount = v /\ c.mark = check.mark /\ c.pc = "marker"
        /\ c.stat = check.stat
    BY CheckIs DEF Inspection
  <2> HIDE DEF c
  <2>5. CallFits(c) /\ Lands(c)
    BY <1>0, <2>4, StillFits DEF Inspecting
  <2>6. c.calm => Inspected(c)
    BY <1>0, <1>2, <2>4, CheckIs
    DEF CallFits, Inspected, Later, V!Fingerprint, Inspecting, Landing
  <2> QED
    BY <1>0, <2>1, <2>3, <2>4, <2>5, <2>6, Onwards
<1> QED
  BY <1>1, <1>2

LEMMA ReadMarkerInv ==
  ASSUME VolumeInv, V!ReadMarker
  PROVE  VolumeInv'
<1> DEFINE r == check.root
<1>0. check.pc = "marker" /\ check.pc \notin {"idle", "bind"}
  BY DEF V!ReadMarker
<1>1. CASE ~V!RequiresMarker(r)
  <2> DEFINE c == [check EXCEPT !.pc = "compare"]
  <2>1. V!Go(c)
    BY <1>1 DEF V!ReadMarker
  <2>2. c \in Inspection
    BY CheckIs DEF Inspection, Inspecting
  <2>3. /\ c.op = check.op /\ c.w = check.w /\ c.root = r /\ c.ro = check.ro
        /\ c.round = check.round /\ c.calm = check.calm /\ c.pc = "compare"
        /\ c.mount = check.mount /\ c.mark = check.mark /\ c.stat = check.stat
    BY CheckIs DEF Inspection
  <2> HIDE DEF c
  <2>4. CallFits(c) /\ Lands(c)
    BY <1>0, <2>3, StillFits DEF Inspecting
  <2>5. c.calm => Inspected(c)
    BY <1>0, <1>1, <2>3, CheckIs
    DEF Inspected, Later, V!Fingerprint, Inspecting, Landing
  <2> QED
    BY <1>0, <2>1, <2>2, <2>3, <2>4, <2>5, Onwards
<1>2. CASE V!RequiresMarker(r) /\ V!MarkerFits(r)
  <2> DEFINE k == V!MarkerStat(r)
             c == [check EXCEPT !.mark = k, !.pc = "compare"]
  <2>1. V!Go(c)
    BY <1>2 DEF V!ReadMarker
  <2>2. k \in Marks
    <3>1. vol[at[r]] \in Volume /\ vol[at[r]].marker # None
      BY <1>2, CheckIs DEF V!MarkerFits, V!SeesMarker
    <3> QED
      BY <3>1, CheckIs DEF V!MarkerStat, Volume, OrNone, Markers, Marks
  <2>3. c \in Inspection
    <3> HIDE DEF k
    <3> QED
      BY <2>2, CheckIs DEF Inspection, Inspecting, OrNone
  <2>4. /\ c.op = check.op /\ c.w = check.w /\ c.root = r /\ c.ro = check.ro
        /\ c.round = check.round /\ c.calm = check.calm /\ c.pc = "compare"
        /\ c.mount = check.mount /\ c.mark = k /\ c.stat = check.stat
    BY CheckIs DEF Inspection
  <2> HIDE DEF c
  <2>5. CallFits(c) /\ Lands(c)
    BY <1>0, <2>4, StillFits DEF Inspecting
  <2>6. c.calm => Inspected(c)
    BY <1>0, <1>2, <2>4, CheckIs
    DEF Inspected, Later, V!Fingerprint, Inspecting, Landing, V!MarkerFits
  <2> QED
    BY <1>0, <2>1, <2>3, <2>4, <2>5, <2>6, Onwards
<1>3. CASE V!RequiresMarker(r) /\ ~V!MarkerFits(r)
  <2>1. V!Refuse
    BY <1>3 DEF V!ReadMarker
  <2>2. check.round > 1 => ~check.calm
    BY <1>3, CheckIs DEF Inspected, Later, V!MarkerFits
  <2> QED
    BY <1>0, <2>1, <2>2, RefuseInv
<1> QED
  BY <1>1, <1>2, <1>3

LEMMA ComparePinInv ==
  ASSUME VolumeInv, V!ComparePin
  PROVE  VolumeInv'
<1>0. check.pc = "compare" /\ check.pc \notin {"idle", "bind"}
  BY DEF V!ComparePin
<1>1. ASSUME NEW l \in {"pin", "rights"}, V!Go([check EXCEPT !.pc = l]),
             l = "rights" => pins[check.root] = V!Fingerprint(check)
      PROVE  VolumeInv'
  <2> DEFINE c == [check EXCEPT !.pc = l]
  <2>1. c \in Inspection
    BY CheckIs DEF Inspection, Inspecting
  <2>2. /\ c.op = check.op /\ c.w = check.w /\ c.root = check.root
        /\ c.ro = check.ro /\ c.round = check.round /\ c.calm = check.calm
        /\ c.pc = l /\ c.mount = check.mount /\ c.mark = check.mark
        /\ c.stat = check.stat
    BY CheckIs DEF Inspection
  <2>3. V!Go(c)
    BY <1>1
  <2> HIDE DEF c
  <2>4. CallFits(c) /\ Lands(c)
    BY <1>0, <2>2, StillFits DEF Inspecting
  <2>5. c.calm => Inspected(c)
    BY <1>0, <1>1, <2>2, CheckIs
    DEF Inspected, Later, V!Fingerprint, Inspecting, Landing
  <2> QED
    BY <1>0, <2>1, <2>2, <2>3, <2>4, <2>5, Onwards
<1>2. ASSUME V!Refuse, pins[check.root] # V!Fingerprint(check)
      PROVE  VolumeInv'
  <2>1. check.round > 1 => ~check.calm
    BY <1>2, CheckIs DEF Inspected, Later
  <2> QED
    BY <1>0, <1>2, <2>1, RefuseInv
<1> QED
  BY <1>1, <1>2 DEF V!ComparePin

LEMMA PinVolumeInv ==
  ASSUME VolumeInv, V!Pin
  PROVE  VolumeInv'
<1> DEFINE r == check.root
           f == V!Fingerprint(check)
           c == [check EXCEPT !.pc = "rights"]
           sees == V!MarkerFits(r) /\ V!MarkerStat(r) = check.mark
<1>0. check.pc = "pin" /\ check.pc \notin {"idle", "bind"}
  BY DEF V!Pin
<1>1. CASE V!RequiresMarker(r) /\ ~sees
  <2>1. V!Refuse
    BY <1>1 DEF V!Pin
  <2>2. check.round > 1 => ~check.calm
    BY <1>1, CheckIs DEF Inspected, Later, V!MarkerFits
  <2> QED
    BY <1>0, <2>1, <2>2, RefuseInv
<1>2. CASE ~V!RequiresMarker(r) \/ sees
  <2>1. /\ pins' = [pins EXCEPT ![r] = f] /\ check' = c
        /\ UNCHANGED <<at, nested, vol, clock, changes, ws, proc, counts,
                       landed, enrol>>
        /\ \/ ~V!RequiresMarker(r) /\ UNCHANGED <<anchors, born>>
           \/ /\ V!RequiresMarker(r) /\ sees
              /\ anchors' = [anchors EXCEPT ![r] = V!AnchorOf(r)]
              /\ born' = [born EXCEPT ![r] = vol[at[r]].marker.made]
    BY <1>2 DEF V!Pin, V!Goto, V!world
  <2>2. f \in PinRow /\ c \in Inspection /\ r \in V!Roots
    BY CheckIs DEF V!Fingerprint, PinRow, Inspection, Inspecting
  <2>3. /\ c.op = check.op /\ c.w = check.w /\ c.root = r /\ c.pc = "rights"
        /\ c.ro = check.ro /\ c.round = check.round /\ c.calm = check.calm
        /\ c.mount = check.mount /\ c.mark = check.mark
        /\ c.stat = check.stat /\ c.failed = check.failed
    BY CheckIs DEF Inspection
  <2>4. f = V!Fingerprint(c) /\ f.mark = check.mark
    BY <2>3 DEF V!Fingerprint
  <2>5. sees => /\ V!AnchorOf(r) \in [vol: Volumes, ino: Inodes]
                /\ vol[at[r]].marker.made \in Nat /\ check.mark # None
                /\ V!AnchorOf(r).vol = at[r]
                /\ V!AnchorOf(r).ino = vol[at[r]].marker.ino
                /\ check.mark.vol = at[r]
                /\ check.mark.ino = vol[at[r]].marker.ino
    <3>1. ASSUME sees
          PROVE  vol[at[r]].marker \in Markers /\ check.mark \in Marks
      <4>1. vol[at[r]] \in Volume /\ vol[at[r]].marker # None
        BY <3>1, CheckIs DEF V!MarkerFits, V!SeesMarker
      <4>2. vol[at[r]].marker \in Markers
        BY <4>1 DEF Volume, OrNone
      <4> QED
        BY <3>1, <4>2, CheckIs DEF V!MarkerStat, Markers, Marks
    <3> QED
      BY <3>1, CheckIs, VolumeConstants
      DEF V!AnchorOf, V!MarkerStat, Markers, Marks
  <2> HIDE DEF c, f
  <2>6. VolumeTypes'
    BY <2>1, <2>2, <2>5 DEF VolumeInv, VolumeTypes, OrNone
  <2>7. Anchored'
    <3> SUFFICES ASSUME NEW q \in V!Roots
                 PROVE  /\ (pins[q] # None /\ V!RequiresMarker(q))' =>
                             /\ anchors'[q] # None /\ pins'[q].mark # None
                             /\ anchors'[q].vol = pins'[q].mark.vol
                             /\ anchors'[q].ino = pins'[q].mark.ino
                        /\ anchors'[q] # None =>
                             LET m == vol'[anchors'[q].vol].marker
                             IN  m # None /\ m.ino = anchors'[q].ino =>
                                   m.made = born'[q]
      BY DEF Anchored
    <3>1. /\ pins \in [V!Roots -> OrNone(PinRow)]
          /\ anchors \in [V!Roots -> OrNone([vol: Volumes, ino: Inodes])]
          /\ born \in [V!Roots -> OrNone(Nat)]
      BY DEF VolumeInv, VolumeTypes
    <3>2. CASE q # r
      BY <2>1, <3>1, <3>2 DEF VolumeInv, Anchored, V!RequiresMarker
    <3>3. CASE q = r /\ V!RequiresMarker(r)
      BY <2>1, <2>2, <2>4, <2>5, <3>1, <3>3, VolumeConstants
      DEF V!RequiresMarker
    <3>4. CASE q = r /\ ~V!RequiresMarker(r)
      BY <2>1, <3>1, <3>4 DEF VolumeInv, Anchored, V!RequiresMarker
    <3> QED
      BY <3>2, <3>3, <3>4
  <2>8. CallFits(c) /\ Lands(c)
    BY <1>0, <2>3, StillFits DEF Inspecting
  <2>9. CallFits(check)' /\ Lands(check)'
    BY <2>1, <2>8 DEF CallFits, Lands, V!RequiresMount
  <2>10. (check.calm => Inspected(check))'
    <3>1. pins \in [V!Roots -> OrNone(PinRow)]
      BY DEF VolumeInv, VolumeTypes
    <3>2. pins'[r] = V!Fingerprint(c)
      BY <2>1, <2>2, <2>4, <3>1
    <3>3. \A q \in V!Roots : /\ V!ExactMount(q)' = V!ExactMount(q)
                             /\ V!SeesMarker(q)' = V!SeesMarker(q)
                             /\ V!MarkerStat(q)' = V!MarkerStat(q)
      BY <2>1 DEF V!ExactMount, V!SeesMarker, V!MarkerStat
    <3> QED
      BY <1>0, <2>1, <2>3, <3>2, <3>3, CheckIs
      DEF Inspected, Later, V!Fingerprint, Inspecting, Landing,
          V!RequiresMount, V!RequiresMarker
  <2>11. \A x \in V!Workspaces : Bound(x, check)'
    BY <1>0, <2>1, OtherWays DEF Bound
  <2>12. ProbesFit'
    BY <1>0, <2>1, <2>3 DEF VolumeInv, ProbesFit, ProbeOn
  <2>13. Landed' /\ V!OneDirectory' /\ Enrolling' /\ Quiet'
    BY <1>0, <2>1
    DEF VolumeInv, Landed, V!OneDirectory, Enrolling, Quiet
  <2> QED
    BY <2>6, <2>7, <2>9, <2>10, <2>11, <2>12, <2>13 DEF VolumeInv
<1> QED
  BY <1>1, <1>2

LEMMA CheckRightsInv ==
  ASSUME VolumeInv, V!CheckRights
  PROVE  VolumeInv'
<1> DEFINE l == V!Admitted
           c == [check EXCEPT !.pc = l]
           full == V!Writes(check.op) /\ (check.ro \/ vol[at[check.root]].ro)
<1>0. check.pc = "rights" /\ check.pc \notin {"idle", "bind"}
  BY DEF V!CheckRights
<1>1. CASE full
  <2>1. V!Refuse
    BY <1>1 DEF V!CheckRights
  <2>2. check.round > 1 => ~check.calm
    BY <1>1, CheckIs DEF CallFits, Inspected, Later
  <2> QED
    BY <1>0, <2>1, <2>2, RefuseInv
<1>2. CASE ~full
  <2>1. V!Go(c)
    BY <1>2 DEF V!CheckRights
  <2>2. \/ check.op = "probe" /\ check.round = 1 /\ l = "probe"
        \/ check.op = "probe" /\ check.round = 2 /\ l = "again"
        \/ check.op = "probe" /\ check.round = 3 /\ l = "unlink"
        \/ check.op = "chunk" /\ check.w = Ssd /\ l = "apart"
        \/ check.op = "chunk" /\ check.w # Ssd /\ l = "tmp"
        \/ check.op \notin {"probe", "chunk"} /\ l = "object"
    <3>1. check.round \in 1..3
      BY CheckIs DEF Inspection
    <3>2. CASE check.op = "probe"
      <4>1. check.round = 1 \/ check.round = 2 \/ check.round = 3
        BY <3>1
      <4>2. CASE check.round = 1
        BY <3>2, <4>2 DEF V!Admitted
      <4>3. CASE check.round = 2
        BY <3>2, <4>3 DEF V!Admitted
      <4>4. CASE check.round = 3
        BY <3>2, <4>4 DEF V!Admitted
      <4> QED
        BY <4>1, <4>2, <4>3, <4>4
    <3>3. CASE check.op = "chunk"
      <4>1. CASE check.w = Ssd
        BY <3>3, <4>1 DEF V!Admitted
      <4>2. CASE check.w # Ssd
        BY <3>3, <4>2 DEF V!Admitted
      <4> QED
        BY <4>1, <4>2
    <3>4. CASE check.op \notin {"probe", "chunk"}
      BY <3>4 DEF V!Admitted
    <3> QED
      BY <3>2, <3>3, <3>4
  <2>3. c \in Inspection
    <3>1. l \in {"probe", "again", "unlink", "apart", "tmp", "object"}
      BY <2>2
    <3> HIDE DEF l
    <3> QED
      BY <3>1, CheckIs DEF Inspection, Probing
  <2>4. /\ c.op = check.op /\ c.w = check.w /\ c.root = check.root
        /\ c.ro = check.ro /\ c.round = check.round /\ c.calm = check.calm
        /\ c.pc = l /\ c.mount = check.mount /\ c.mark = check.mark
        /\ c.stat = check.stat
    BY CheckIs DEF Inspection
  <2> HIDE DEF c, l
  <2>5. CallFits(c) /\ Lands(c)
    BY <1>0, <2>2, <2>4, CheckIs DEF CallFits, Lands, Probing, Landing
  <2>6. c.op = "probe" => ~c.ro
    BY <1>2, <2>4 DEF V!Writes
  <2>7. c.calm => Inspected(c)
    BY <1>0, <2>2, <2>4, <2>6, CheckIs
    DEF Inspected, Later, V!Fingerprint, Inspecting, Landing
  <2> QED
    BY <1>0, <2>1, <2>2, <2>3, <2>4, <2>5, <2>7, Onwards
<1> QED
  BY <1>1, <1>2

\* Files of probes are no part of what else is known of a volume.
SameButProbes ==
  \A v \in Volumes :
    /\ vol'[v].marker = vol[v].marker /\ vol'[v].disk = vol[v].disk
    /\ vol'[v].ro = vol[v].ro /\ vol'[v].tmp = vol[v].tmp
    /\ vol'[v].user = vol[v].user

LEMMA ProbesOnly ==
  ASSUME VolumeInv, NEW v \in Volumes, NEW S \in SUBSET Nat,
         vol' = [vol EXCEPT ![v].probes = S]
  PROVE  /\ vol' \in [Volumes -> Volume] /\ SameButProbes
         /\ vol'[v].probes = S
         /\ \A u \in Volumes : u # v => vol'[u].probes = vol[u].probes
<1>1. vol \in [Volumes -> Volume]
  BY DEF VolumeInv, VolumeTypes
<1>2. vol[v] \in Volume /\ [vol[v] EXCEPT !.probes = S] \in Volume
  BY <1>1 DEF Volume
<1>3. vol'[v] = [vol[v] EXCEPT !.probes = S]
  BY <1>1
<1>4. \A u \in Volumes : u # v => vol'[u] = vol[u]
  BY <1>1
<1>5. vol' \in [Volumes -> Volume]
  BY <1>1, <1>2
<1>6. vol'[v].probes = S
  BY <1>2, <1>3 DEF Volume
<1>7. /\ vol'[v].marker = vol[v].marker /\ vol'[v].disk = vol[v].disk
      /\ vol'[v].ro = vol[v].ro /\ vol'[v].tmp = vol[v].tmp
      /\ vol'[v].user = vol[v].user
  BY <1>2, <1>3 DEF Volume
<1> QED
  BY <1>4, <1>5, <1>6, <1>7 DEF SameButProbes

LEMMA ProbesAlone ==
  ASSUME VolumeInv, check.pc # "bind", vol' \in [Volumes -> Volume],
         SameButProbes, NEW c \in Inspection, check' = c,
         CallFits(c), c.calm => Inspected(c), Lands(c), Quiet',
         UNCHANGED <<at, nested, clock, changes, ws, counts, landed, enrol>>,
         \/ UNCHANGED <<pins, anchors, born>>
         \/ /\ pins' = [r \in V!Roots |-> None]
            /\ anchors' = [r \in V!Roots |-> None]
            /\ born' = [r \in V!Roots |-> None] /\ c.pc = "idle" /\ c.round = 1
  PROVE  ProbesFit' => VolumeInv'
<1>1. VolumeTypes'
  BY DEF VolumeInv, VolumeTypes, OrNone
<1>2. /\ at \in [V!Roots -> Volumes] /\ vol \in [Volumes -> Volume]
      /\ ws \in [V!Workspaces -> Workspace] /\ c.root \in V!Roots
      /\ "hdd" \in V!Roots /\ "ssd" \in V!Roots
      /\ anchors \in [V!Roots -> OrNone([vol: Volumes, ino: Inodes])]
  BY CheckIs DEF VolumeInv, VolumeTypes, Inspection
<1>3. Anchored'
  <2>1. CASE UNCHANGED <<pins, anchors, born>>
    <3>1. \A r \in V!Roots : anchors[r] # None => anchors[r].vol \in Volumes
      BY <1>2 DEF OrNone
    <3> QED
      BY <2>1, <3>1 DEF VolumeInv, Anchored, V!RequiresMarker, SameButProbes
  <2>2. CASE /\ pins' = [r \in V!Roots |-> None]
             /\ anchors' = [r \in V!Roots |-> None]
    BY <2>2 DEF Anchored
  <2> QED
    BY <2>1, <2>2
<1>4. Landed' /\ V!OneDirectory'
  BY DEF VolumeInv, Landed, V!OneDirectory
<1>5. Enrolling'
  BY DEF VolumeInv, VolumeTypes, Enrolment, OrNone, Enrolling, SameButProbes
<1>6. CallFits(check)' /\ Lands(check)'
  BY DEF CallFits, Lands, V!RequiresMount
<1>7. (check.calm => Inspected(check))'
  <2>1. CASE UNCHANGED <<pins, anchors, born>>
    BY <1>2, <2>1
    DEF Inspected, V!RequiresMount, V!RequiresMarker, V!ExactMount,
        V!SeesMarker, V!MarkerStat, V!Fingerprint, Later, SameButProbes
  <2>2. CASE c.pc = "idle" /\ c.round = 1
    BY <2>2, <1>6 DEF Inspected, Later, CallFits, Landing, Inspecting
  <2> QED
    BY <2>1, <2>2
<1>8. \A x \in V!Workspaces : Bound(x, check)'
  <2>1. \A x \in V!Workspaces : ws[x].fd # None => ws[x].fd.vol \in Volumes
    BY <1>2 DEF Workspace, OrNone, V!Dirs
  <2> QED
    BY <2>1, OtherWays DEF Bound, SameButProbes
<1> QED
  BY <1>1, <1>3, <1>4, <1>5, <1>6, <1>7, <1>8 DEF VolumeInv

LEMMA WriteProbeInv ==
  ASSUME VolumeInv, V!WriteProbe
  PROVE  VolumeInv'
<1> DEFINE v == at["hdd"]
           c == [check EXCEPT !.round = 2, !.pc = "stat"]
           S == vol[v].probes \cup {counts.calls}
<1>0. /\ check.pc = "probe" /\ check.op = "probe" /\ check.round = 1
      /\ check.root = "hdd"
  BY CheckIs DEF V!WriteProbe, CallFits, Probing
<1>1. CASE vol[v].ro
  BY <1>0, <1>1, RefuseInv DEF V!WriteProbe
<1>2. CASE ~vol[v].ro
  <2>1. /\ vol' = [vol EXCEPT ![v].probes = S] /\ check' = c
        /\ UNCHANGED <<at, nested, clock, changes, ws, counts, landed, enrol>>
        /\ UNCHANGED <<pins, anchors, born>> /\ UNCHANGED proc
    BY <1>2 DEF V!WriteProbe, V!registry
  <2>2. S \in SUBSET Nat /\ v \in Volumes /\ counts.calls \in Nat
    <3>1. vol[v] \in Volume /\ v \in Volumes
      BY CheckIs
    <3>2. counts.calls \in Nat
      BY DEF VolumeInv, VolumeTypes
    <3> QED
      BY <3>1, <3>2 DEF Volume
  <2> HIDE DEF S
  <2>3. /\ vol' \in [Volumes -> Volume] /\ SameButProbes
        /\ vol'[v].probes = S
        /\ \A u \in Volumes : u # v => vol'[u].probes = vol[u].probes
    BY <2>1, <2>2, ProbesOnly
  <2>4. c \in Inspection
    <3>1. 2 \in 1..3 /\ "stat" \in Inspecting
      BY DEF Inspecting
    <3> QED
      BY <3>1, CheckIs DEF Inspection
  <2>5. /\ c.op = "probe" /\ c.w = check.w /\ c.root = "hdd"
        /\ c.ro = check.ro /\ c.round = 2 /\ c.calm = check.calm
        /\ c.pc = "stat" /\ c.mount = check.mount /\ c.mark = check.mark
        /\ c.stat = check.stat
    BY <1>0, CheckIs DEF Inspection
  <2> HIDE DEF c
  <2>6. CallFits(c) /\ Lands(c)
    BY <2>5 DEF CallFits, Lands, Probing, Landing
  <2>7. c.calm => Inspected(c)
    BY <1>0, <1>2, <2>5, CheckIs
    DEF Inspected, Later, V!Fingerprint, Inspecting, Landing
  <2>8. Quiet'
    BY <1>0, <2>1 DEF VolumeInv, Quiet
  <2>9. ProbesFit'
    <3>1. \A u \in Volumes : u # v => ~ProbeOn(u)'
      BY <1>0, <2>1, <2>3 DEF VolumeInv, ProbesFit, ProbeOn
    <3>2. \A u \in Volumes : \A n \in vol'[u].probes : n <= counts.calls
      BY <2>2, <2>3 DEF VolumeInv, ProbesFit, S
    <3> QED
      BY <2>1, <2>5, <3>1, <3>2 DEF ProbesFit
  <2> QED
    BY <1>0, <2>1, <2>3, <2>4, <2>6, <2>7, <2>8, <2>9, ProbesAlone
<1> QED
  BY <1>1, <1>2

LEMMA AgainInv ==
  ASSUME VolumeInv, V!Again
  PROVE  VolumeInv'
<1> DEFINE c == [check EXCEPT !.round = 3, !.pc = "stat"]
<1>0. /\ check.pc = "again" /\ check.op = "probe" /\ check.round \in 2..3
      /\ check.root = "hdd"
  BY CheckIs DEF V!Again, CallFits, Probing, Inspection
<1>1. V!Go(c)
  BY DEF V!Again
<1>2. c \in Inspection
  <2>1. 3 \in 1..3 /\ "stat" \in Inspecting
    BY DEF Inspecting
  <2> QED
    BY <2>1, CheckIs DEF Inspection
<1>3. /\ c.op = "probe" /\ c.w = check.w /\ c.root = "hdd"
      /\ c.ro = check.ro /\ c.round = 3 /\ c.calm = check.calm
      /\ c.pc = "stat" /\ c.mount = check.mount /\ c.mark = check.mark
      /\ c.stat = check.stat
  BY <1>0, CheckIs DEF Inspection
<1> HIDE DEF c
<1>4. CallFits(c) /\ Lands(c)
  BY <1>3 DEF CallFits, Lands, Probing, Landing
<1>5. c.calm => Inspected(c)
  BY <1>0, <1>3, CheckIs
  DEF Inspected, Later, V!Fingerprint, Inspecting, Landing
<1>6. c.round >= check.round
  BY <1>0, <1>3
<1> QED
  BY <1>0, <1>1, <1>2, <1>3, <1>4, <1>5, <1>6, OtherWays, CallStep DEF V!Go

LEMMA UnlinkProbeInv ==
  ASSUME VolumeInv, V!UnlinkProbe
  PROVE  VolumeInv'
<1> DEFINE v == at["hdd"]
           k == counts.calls
           S == vol[v].probes \ {k}
<1>0. /\ check.pc = "unlink" /\ check.op = "probe" /\ check.round > 1
      /\ check.root = "hdd" /\ check.round \in 1..3
  BY CheckIs DEF V!UnlinkProbe, CallFits, Probing, Inspection
<1>1. CASE ~(k \in vol[v].probes /\ ~vol[v].ro)
  <2> DEFINE c == [check EXCEPT !.failed = TRUE, !.pc = "verdict"]
  <2>1. V!Go(c)
    BY <1>1 DEF V!UnlinkProbe, V!Go
  <2>2. c \in Inspection
    BY CheckIs DEF Inspection, Probing
  <2>3. /\ c.op = "probe" /\ c.w = check.w /\ c.root = "hdd"
        /\ c.ro = check.ro /\ c.round = check.round /\ c.calm = check.calm
        /\ c.pc = "verdict" /\ c.mount = check.mount /\ c.mark = check.mark
        /\ c.stat = check.stat /\ c.failed
    BY <1>0, CheckIs DEF Inspection
  <2> HIDE DEF c
  <2>4. CallFits(c) /\ Lands(c)
    BY <1>0, <2>3 DEF CallFits, Lands, Probing, Landing
  <2>5. c.calm => Inspected(c)
    BY <1>0, <2>3, CheckIs
    DEF Inspected, Later, V!Fingerprint, Inspecting, Landing
  <2> QED
    BY <1>0, <2>1, <2>2, <2>3, <2>4, <2>5, OtherWays, CallStep DEF V!Go
<1>2. CASE k \in vol[v].probes /\ ~vol[v].ro
  <2>1. /\ vol' = [vol EXCEPT ![v].probes = S]
        /\ UNCHANGED <<at, nested, clock, changes, ws, counts, landed, enrol>>
        /\ IF check.failed THEN check' = V!NoCall
           ELSE check' = [check EXCEPT !.pc = "verdict"]
        /\ IF check.failed /\ proc = "starting"
           THEN /\ proc' = "down"
                /\ pins' = [r \in V!Roots |-> None]
                /\ anchors' = [r \in V!Roots |-> None]
                /\ born' = [r \in V!Roots |-> None]
           ELSE UNCHANGED <<pins, anchors, born, proc>>
    BY <1>2 DEF V!UnlinkProbe, V!Unlinks, V!registry, V!Goto
  <2>2. S \in SUBSET Nat /\ v \in Volumes
    <3>1. vol[v] \in Volume /\ v \in Volumes
      BY CheckIs
    <3> QED
      BY <3>1 DEF Volume
  <2> HIDE DEF S
  <2>3. /\ vol' \in [Volumes -> Volume] /\ SameButProbes
        /\ vol'[v].probes = S
        /\ \A u \in Volumes : u # v => vol'[u].probes = vol[u].probes
    BY <2>1, <2>2, ProbesOnly
  <2>4. /\ \A u \in Volumes : \A n \in vol'[u].probes : n <= k
        /\ check.calm => \A u \in Volumes : k \notin vol'[u].probes
    BY <1>0, <2>3 DEF VolumeInv, ProbesFit, ProbeOn, S
  <2>5. CASE check.failed
    <3> DEFINE c == V!NoCall
    <3>1. /\ c \in Inspection /\ c.op = "none" /\ c.pc = "idle" /\ c.round = 1
          /\ c.root = "hdd"
      BY NoCallFits DEF V!NoCall
    <3>2. CallFits(c) /\ Inspected(c) /\ Lands(c)
      BY <3>1, NoCallFits
    <3>3. check' = c
      BY <2>1, <2>5
    <3> HIDE DEF c
    <3>4. Quiet'
      BY <3>1, <3>3 DEF Quiet
    <3>5. ProbesFit'
      BY <2>1, <2>4, <3>1, <3>3 DEF ProbesFit, ProbeOn
    <3> QED
      BY <1>0, <2>1, <2>3, <3>1, <3>2, <3>3, <3>4, <3>5, ProbesAlone
  <2>6. CASE ~check.failed
    <3> DEFINE c == [check EXCEPT !.pc = "verdict"]
    <3>1. c \in Inspection
      BY CheckIs DEF Inspection, Probing
    <3>2. /\ c.op = "probe" /\ c.w = check.w /\ c.root = "hdd"
          /\ c.ro = check.ro /\ c.round = check.round /\ c.calm = check.calm
          /\ c.pc = "verdict" /\ c.mount = check.mount /\ c.mark = check.mark
          /\ c.stat = check.stat
      BY <1>0, CheckIs DEF Inspection
    <3>3. check' = c
      BY <2>1, <2>6
    <3> HIDE DEF c
    <3>4. CallFits(c) /\ Lands(c)
      BY <1>0, <3>2 DEF CallFits, Lands, Probing, Landing
    <3>5. c.calm => Inspected(c)
      BY <1>0, <3>2, CheckIs
      DEF Inspected, Later, V!Fingerprint, Inspecting, Landing
    <3>6. Quiet'
      BY <1>0, <2>1, <2>6 DEF VolumeInv, Quiet
    <3>7. ProbesFit'
      BY <1>0, <2>1, <2>4, <3>2, <3>3 DEF ProbesFit, ProbeOn
    <3> QED
      BY <1>0, <2>1, <2>3, <2>6, <3>1, <3>3, <3>4, <3>5, <3>6, <3>7,
         ProbesAlone
  <2> QED
    BY <2>5, <2>6
<1> QED
  BY <1>1, <1>2

LEMMA VerdictInv ==
  ASSUME VolumeInv, V!Verdict
  PROVE  VolumeInv'
BY ExitInv, CallEnds DEF V!Verdict, V!Go, V!Steady, Others, V!world, V!registry

LEMMA CheckObjectInv ==
  ASSUME VolumeInv, V!CheckObject
  PROVE  VolumeInv'
<1> DEFINE c == [check EXCEPT !.pc = "use"]
<1>0. /\ check.pc = "object" /\ check.op \notin {"probe", "chunk"}
      /\ check.round \in 1..3 /\ ~(check.round > 1)
  BY CheckIs DEF V!CheckObject, CallFits, Inspection
<1>1. CASE V!Refuse
  BY <1>0, <1>1, RefuseInv
<1>2. CASE V!Confined(at["hdd"]) /\ V!Go(c)
  <2>1. c \in Inspection
    BY CheckIs DEF Inspection
  <2>2. /\ c.op = check.op /\ c.w = check.w /\ c.root = check.root
        /\ c.ro = check.ro /\ c.round = check.round /\ c.calm = check.calm
        /\ c.pc = "use" /\ c.mount = check.mount /\ c.mark = check.mark
        /\ c.stat = check.stat
    BY CheckIs DEF Inspection
  <2> HIDE DEF c
  <2>3. CallFits(c) /\ Lands(c)
    BY <1>0, <2>2, CheckIs DEF CallFits, Lands, Probing, Landing
  <2>4. c.calm => Inspected(c)
    BY <1>0, <1>2, <2>2, CheckIs
    DEF Inspected, Later, V!Fingerprint, Inspecting, Landing, V!Confined
  <2> QED
    BY <1>0, <1>2, <2>1, <2>2, <2>3, <2>4, Onwards
<1> QED
  BY <1>1, <1>2 DEF V!CheckObject

LEMMA UseObjectInv ==
  ASSUME VolumeInv, V!UseObject
  PROVE  VolumeInv'
BY CallEnds DEF V!UseObject, V!Go, V!Steady, Others, V!world, V!registry

\* The workspace of a chunk that is under way.
LEMMA ChunkIs ==
  ASSUME VolumeInv, check.pc \in {"apart", "tmp"} \cup Landing
  PROVE  /\ check.op = "chunk" /\ check.round = 1 /\ check.w \in V!Workspaces
         /\ ws[check.w] \in Workspace /\ ~ws[check.w].failed
         /\ (check.w = Ssd) <=> (check.root = "ssd")
         /\ Bound(check.w, check)
         /\ check.pc = "apart" => check.w = Ssd
         /\ check.pc = "tmp" => check.w # Ssd
<1>1. /\ CallFits(check) /\ check.round \in 1..3
      /\ ws \in [V!Workspaces -> Workspace]
      /\ \A w \in V!Workspaces : Bound(w, check)
  BY CheckIs DEF VolumeInv, VolumeTypes, Inspection
<1> QED
  BY <1>1 DEF CallFits

\* A chunk whose workspace has its descriptor goes on with it.
LEMMA ChunkGoes ==
  ASSUME VolumeInv, check.pc \in {"apart", "tmp"},
         NEW l \in {"open", "check"}, V!Go([check EXCEPT !.pc = l]),
         (l = "open") <=> (ws[check.w].fd = None),
         check.w = Ssd => at["ssd"] # at["hdd"]
  PROVE  VolumeInv'
<1> DEFINE c == [check EXCEPT !.pc = l]
<1>1. c \in Inspection
  BY CheckIs DEF Inspection, Landing
<1>2. /\ c.op = check.op /\ c.w = check.w /\ c.root = check.root
      /\ c.ro = check.ro /\ c.round = check.round /\ c.calm = check.calm
      /\ c.pc = l /\ c.mount = check.mount /\ c.mark = check.mark
      /\ c.stat = check.stat
  BY CheckIs DEF Inspection
<1>3. V!Go(c)
  OBVIOUS
<1> HIDE DEF c
<1>4. CallFits(c)
  BY <1>2, CheckIs, ChunkIs DEF CallFits, Probing, Landing
<1>5. Lands(c)
  BY <1>2, ChunkIs DEF Lands, Bound
<1>6. c.calm => Inspected(c)
  BY <1>2, CheckIs, ChunkIs
  DEF Inspected, Later, V!Fingerprint, Inspecting, Landing
<1> QED
  BY <1>1, <1>2, <1>3, <1>4, <1>5, <1>6, Onwards

LEMMA CheckApartInv ==
  ASSUME VolumeInv, V!CheckApart
  PROVE  VolumeInv'
<1>1. /\ check.pc = "apart" /\ check.op = "chunk" /\ check.round = 1
      /\ check.w = Ssd
  BY ChunkIs DEF V!CheckApart
<1>2. CASE V!Refuse
  BY <1>1, <1>2, RefuseInv
<1>3. CASE /\ V!Apart
           /\ V!Go([check EXCEPT !.pc = IF ws[Ssd].fd = None THEN "open"
                                        ELSE "check"])
  <2> DEFINE l == IF ws[Ssd].fd = None THEN "open" ELSE "check"
  <2>1. /\ l \in {"open", "check"} /\ (l = "open" <=> ws[Ssd].fd = None)
        /\ V!Go([check EXCEPT !.pc = l])
    BY <1>3
  <2> HIDE DEF l
  <2> QED
    BY <1>1, <1>3, <2>1, ChunkGoes DEF V!Apart
<1> QED
  BY <1>2, <1>3 DEF V!CheckApart

\* The directory that a root's path leads to.
LEMMA DirAtIs ==
  ASSUME VolumeInv, NEW r \in V!Roots
  PROVE  V!DirAt(r) \in V!Dirs /\ V!DirAt(r) # None /\ V!DirAt(r).vol = at[r]
<1>1. at[r] \in Volumes /\ vol[at[r]] \in Volume
  BY DEF VolumeInv, VolumeTypes
<1>2. vol[at[r]].tmp.ino \in Inodes /\ vol[at[r]].tmp.made \in Int
  BY <1>1 DEF Volume
<1> QED
  BY <1>1, <1>2, VolumeConstants DEF V!DirAt, V!Dirs

\* A descriptor that has the number of what the path leads to is on it.
LEMMA SameDirectory ==
  ASSUME VolumeInv, check.pc \in Landing, ws[check.w].fd # None,
         V!SameFile(V!DirAt(check.root), ws[check.w].fd)
  PROVE  V!DirAt(check.root) = ws[check.w].fd
<1> DEFINE r == check.root
           d == V!DirAt(r)
           f == ws[check.w].fd
<1>1. /\ ws[check.w] \in Workspace /\ Bound(check.w, check)
      /\ (check.w = Ssd) <=> (r = "ssd")
  BY ChunkIs
<1>2. /\ d \in V!Dirs /\ f \in V!Dirs /\ d.vol = f.vol /\ d.ino = f.ino
  BY <1>1, CheckIs, DirAtIs DEF V!SameFile, Workspace, OrNone
<1>3. d.made = f.made
  <2>1. CASE check.w = Ssd
    BY <1>1, <2>1 DEF Bound, V!DirAt
  <2>2. CASE check.w # Ssd
    <3>1. r = "hdd"
      BY <1>1, <2>2, CheckIs DEF V!Roots
    <3>2. /\ d.vol = at[r] /\ d.ino = vol[at[r]].tmp.ino
          /\ d.made = vol[at[r]].tmp.made
      BY <3>1 DEF V!DirAt
    <3> QED
      BY <1>1, <1>2, <2>2, <3>2 DEF Bound
  <2> QED
    BY <2>1, <2>2
<1> QED
  BY <1>2, <1>3 DEF V!Dirs

\* A chunk changes its workspace and goes on.
LEMMA WorkspaceStep ==
  ASSUME VolumeInv, check.pc \in {"tmp", "open", "bind"}, NEW x \in Workspace,
         ws' = [ws EXCEPT ![check.w] = x], ~x.failed,
         ws[check.w].boundary \in {None, x.boundary},
         UNCHANGED <<at, nested, vol, clock, changes, pins, anchors, born,
                     proc, counts, landed, enrol>>,
         NEW l \in {"open", "bind", "check"},
         check' = [check EXCEPT !.pc = l],
         check.pc = "tmp" => check.w # Ssd,
         Lands(check)', Bound(check.w, check)'
  PROVE  VolumeInv'
<1> DEFINE c == [check EXCEPT !.pc = l]
           w == check.w
<1>1. c \in Inspection
  BY CheckIs DEF Inspection, Landing
<1>2. /\ c.op = check.op /\ c.w = check.w /\ c.root = check.root
      /\ c.ro = check.ro /\ c.round = check.round /\ c.calm = check.calm
      /\ c.pc = l /\ c.mount = check.mount /\ c.mark = check.mark
      /\ c.stat = check.stat
  BY CheckIs DEF Inspection
<1>3. check' = c
  OBVIOUS
<1> HIDE DEF c
<1>4. /\ check.op = "chunk" /\ check.round = 1 /\ w \in V!Workspaces
      /\ ~ws[w].failed /\ ((w = Ssd) <=> (check.root = "ssd"))
  BY ChunkIs DEF Landing
<1>5. ws \in [V!Workspaces -> Workspace]
  BY DEF VolumeInv, VolumeTypes
<1>6. VolumeTypes'
  BY <1>1, <1>3, <1>4, <1>5 DEF VolumeInv, VolumeTypes
<1>7. Anchored' /\ Enrolling' /\ V!OneDirectory'
  BY DEF VolumeInv, Anchored, Enrolling, V!RequiresMarker, V!OneDirectory
<1>8. Landed'
  BY <1>4, <1>5 DEF VolumeInv, Landed
<1>9. CallFits(check)'
  BY <1>2, <1>3, <1>4, <1>5 DEF CallFits, Probing, Landing
<1>10. (check.calm => Inspected(check))'
  <2>1. check.calm => Inspected(c)
    BY <1>2, <1>4, CheckIs
    DEF Inspected, Later, V!Fingerprint, Inspecting, Landing
  <2> QED
    BY <1>2, <1>3, <2>1
    DEF Inspected, V!RequiresMount, V!RequiresMarker, V!ExactMount,
        V!SeesMarker, V!MarkerStat, V!Fingerprint, Later
<1>11. Quiet'
  BY DEF VolumeInv, Quiet
<1>12. ProbesFit'
  BY <1>2, <1>3, <1>4 DEF VolumeInv, ProbesFit, ProbeOn
<1>13. ASSUME NEW y \in V!Workspaces PROVE Bound(y, check)'
  <2>1. CASE y = w
    <3>1. w' = w
      BY <1>2, <1>3
    <3> QED
      BY <2>1, <3>1
  <2>2. CASE y # w
    BY <1>4, <1>5, <2>2 DEF VolumeInv, Bound
  <2> QED
    BY <2>1, <2>2
<1> QED
  BY <1>6, <1>7, <1>8, <1>9, <1>10, <1>11, <1>12, <1>13 DEF VolumeInv

LEMMA CheckTmpInv ==
  ASSUME VolumeInv, V!CheckTmp
  PROVE  VolumeInv'
<1> DEFINE w == check.w
           d == V!DirAt("hdd")
<1>1. /\ check.pc = "tmp" /\ check.op = "chunk" /\ check.round = 1
      /\ w \in V!Workspaces /\ w # Ssd /\ ws[w] \in Workspace
      /\ ~ws[w].failed /\ Bound(w, check)
  BY ChunkIs DEF V!CheckTmp
<1>2. CASE V!Refuse
  BY <1>1, <1>2, RefuseInv
<1>3. CASE ws[w].fd # None /\ V!Go([check EXCEPT !.pc = "check"])
  BY <1>1, <1>3, ChunkGoes
<1>4. CASE /\ ws[w].fd = None /\ ws' = [ws EXCEPT ![w].ident = d]
           /\ V!Goto("open")
           /\ UNCHANGED <<at, nested, vol, clock, changes, pins, anchors, born,
                          proc, counts, landed, enrol>>
  <2> DEFINE x == [ws[w] EXCEPT !.ident = d]
  <2>1. d \in V!Dirs
    BY CheckIs, DirAtIs
  <2> HIDE DEF d
  <2>2. x \in Workspace
    BY <1>1, <2>1 DEF Workspace, OrNone
  <2>3. /\ x.fd = None /\ x.boundary = ws[w].boundary /\ ~x.failed
    BY <1>1, <1>4 DEF Workspace
  <2>4. ws' = [ws EXCEPT ![w] = x] /\ check' = [check EXCEPT !.pc = "open"]
    BY <1>4 DEF V!Goto
  <2>5. ws'[w] = x /\ check'.pc = "open" /\ check'.w = w
    BY <1>1, <2>4, CheckIs DEF Inspection, VolumeInv, VolumeTypes
  <2> HIDE DEF x
  <2>6. Lands(check)'
    BY <2>3, <2>5 DEF Lands
  <2>7. Bound(w, check)'
    BY <1>1, <1>4, <2>3, <2>5 DEF Bound
  <2> QED
    BY <1>1, <1>4, <2>2, <2>3, <2>4, <2>6, <2>7, WorkspaceStep
<1> QED
  BY <1>2, <1>3, <1>4 DEF V!CheckTmp, V!world, V!registry

LEMMA OpenRootInv ==
  ASSUME VolumeInv, V!OpenRoot
  PROVE  VolumeInv'
<1> DEFINE w == check.w
           r == check.root
           d == V!DirAt(r)
<1>1. /\ check.pc = "open" /\ check.op = "chunk" /\ check.round = 1
      /\ w \in V!Workspaces /\ ws[w] \in Workspace /\ ~ws[w].failed
      /\ Bound(w, check) /\ ((w = Ssd) <=> (r = "ssd"))
  BY ChunkIs DEF V!OpenRoot, Landing
<1>2. CASE V!Refuse
  BY <1>1, <1>2, RefuseInv
<1>3. CASE /\ ws' = [ws EXCEPT ![w].fd = d,
                               ![w].ident = IF w = Ssd THEN d ELSE @]
           /\ V!Goto("bind")
           /\ UNCHANGED <<at, nested, vol, clock, changes, pins, anchors, born,
                          proc, counts, landed, enrol>>
  <2> DEFINE i == IF w = Ssd THEN d ELSE ws[w].ident
             x == [ws[w] EXCEPT !.fd = d, !.ident = i]
  <2>1. d \in V!Dirs /\ d # None /\ ws[w].fd = None
    BY <1>1, CheckIs, DirAtIs DEF Lands
  <2>2. IF w = Ssd THEN d.ino = 0 /\ d.made = 0
        ELSE d.ino = vol[d.vol].tmp.ino => vol[d.vol].tmp.made = d.made
    <3>1. w # Ssd => r = "hdd"
      BY <1>1, CheckIs DEF V!Roots
    <3> QED
      BY <1>1, <3>1 DEF V!DirAt
  <2>3. ws' = [ws EXCEPT ![w] = x] /\ check' = [check EXCEPT !.pc = "bind"]
    <3>1. ws \in [V!Workspaces -> Workspace]
      BY DEF VolumeInv, VolumeTypes
    <3> HIDE DEF d
    <3> QED
      BY <1>1, <1>3, <3>1 DEF V!Goto, Workspace
  <2> HIDE DEF d
  <2>4. i \in OrNone(V!Dirs)
    BY <1>1, <2>1 DEF Workspace, OrNone
  <2> HIDE DEF i
  <2>5. x \in Workspace
    BY <1>1, <2>1, <2>4 DEF Workspace, OrNone
  <2>6. x.fd = d /\ x.boundary = ws[w].boundary /\ ~x.failed
    BY <1>1 DEF Workspace
  <2>7. ws'[w] = x /\ check'.pc = "bind" /\ check'.w = w
    BY <1>1, <2>3, CheckIs DEF Inspection, VolumeInv, VolumeTypes
  <2> HIDE DEF x
  <2>8. x.boundary = None
    BY <1>1, <2>1, <2>6 DEF Bound
  <2>9. Lands(check)'
    BY <2>1, <2>6, <2>7, <2>8 DEF Lands
  <2>10. Bound(w, check)'
    BY <1>3, <2>2, <2>6, <2>7, <2>8 DEF Bound
  <2> QED
    BY <1>1, <1>3, <2>3, <2>5, <2>6, <2>9, <2>10, WorkspaceStep
<1> QED
  BY <1>2, <1>3 DEF V!OpenRoot, V!world, V!registry

LEMMA BindBoundaryInv ==
  ASSUME VolumeInv, V!BindBoundary
  PROVE  VolumeInv'
<1> DEFINE w == check.w
           r == check.root
           d == V!DirAt(r)
<1>1. /\ check.pc = "bind" /\ check.op = "chunk" /\ check.round = 1
      /\ w \in V!Workspaces /\ ws[w] \in Workspace /\ ~ws[w].failed
      /\ Bound(w, check)
  BY ChunkIs DEF V!BindBoundary, Landing
<1>2. CASE V!Refuse
  BY <1>1, <1>2, RefuseInv
<1>3. CASE /\ V!Binds(w, r) /\ ws' = [ws EXCEPT ![w].boundary = d]
           /\ V!Goto("check")
           /\ UNCHANGED <<at, nested, vol, clock, changes, pins, anchors, born,
                          proc, counts, landed, enrol>>
  <2> DEFINE x == [ws[w] EXCEPT !.boundary = d]
  <2>1. d \in V!Dirs /\ d # None /\ ws[w].fd # None /\ ws[w].boundary = None
    BY <1>1, CheckIs, DirAtIs DEF Lands
  <2>2. d = ws[w].fd
    BY <1>1, <1>3, <2>1, SameDirectory DEF V!Binds, Landing
  <2>3. ws' = [ws EXCEPT ![w] = x] /\ check' = [check EXCEPT !.pc = "check"]
    BY <1>3 DEF V!Goto
  <2> HIDE DEF d
  <2>4. x \in Workspace
    BY <1>1, <2>1 DEF Workspace, OrNone
  <2>5. x.fd = d /\ x.boundary = d /\ ~x.failed
    BY <1>1, <2>2 DEF Workspace
  <2>6. ws'[w] = x /\ check'.pc = "check" /\ check'.w = w
    BY <1>1, <2>3, CheckIs DEF Inspection, VolumeInv, VolumeTypes
  <2> HIDE DEF x
  <2>7. Lands(check)'
    BY <2>1, <2>5, <2>6 DEF Lands
  <2>8. Bound(w, check)'
    BY <1>1, <1>3, <2>1, <2>2, <2>5, <2>6 DEF Bound
  <2> QED
    BY <1>1, <1>3, <2>1, <2>3, <2>4, <2>5, <2>7, <2>8, WorkspaceStep
<1> QED
  BY <1>2, <1>3 DEF V!BindBoundary, V!world, V!registry

LEMMA CheckRootInv ==
  ASSUME VolumeInv, V!CheckRoot
  PROVE  VolumeInv'
<1> DEFINE w == check.w
           r == check.root
           d == V!DirAt(r)
           c == [check EXCEPT !.pc = "write", !.shown = d]
<1>1. /\ check.pc = "check" /\ check.op = "chunk" /\ check.round = 1
      /\ w \in V!Workspaces /\ ws[w] \in Workspace /\ ~ws[w].failed
      /\ Bound(w, check) /\ ws[w].boundary # None
  BY ChunkIs, CheckIs DEF V!CheckRoot, Landing, Lands
<1>2. CASE V!Refuse
  BY <1>1, <1>2, RefuseInv
<1>3. CASE V!RootStands(w, r) /\ V!Go(c)
  <2>1. d \in V!Dirs /\ d # None /\ d.vol = at[r]
    BY <1>1, CheckIs, DirAtIs
  <2>2. ws[w].boundary = ws[w].fd /\ ws[w].fd # None
    BY <1>1 DEF Bound
  <2>3. d = ws[w].boundary
    BY <1>1, <1>3, <2>2, SameDirectory
    DEF V!RootStands, V!SameFile, Landing
  <2> HIDE DEF d
  <2>4. c \in Inspection
    BY <2>1, CheckIs DEF Inspection, Landing, OrNone
  <2>5. /\ c.op = check.op /\ c.w = w /\ c.root = r /\ c.ro = check.ro
        /\ c.round = check.round /\ c.calm = check.calm /\ c.pc = "write"
        /\ c.mount = check.mount /\ c.mark = check.mark
        /\ c.stat = check.stat /\ c.shown = d
    BY CheckIs DEF Inspection
  <2> HIDE DEF c
  <2>6. CallFits(c)
    BY <1>1, <2>5, CheckIs DEF CallFits, Probing, Landing
  <2>7. Lands(c)
    BY <1>1, <2>3, <2>5 DEF Lands
  <2>8. c.calm => Inspected(c)
    BY <1>1, <2>1, <2>5, CheckIs
    DEF Inspected, Later, V!Fingerprint, Inspecting, Landing
  <2> QED
    BY <1>1, <1>3, <2>4, <2>5, <2>6, <2>7, <2>8, Onwards
<1> QED
  BY <1>2, <1>3 DEF V!CheckRoot

LEMMA WriteChunkInv ==
  ASSUME VolumeInv, V!WriteChunk
  PROVE  VolumeInv'
<1> DEFINE w == check.w
           b == ws[w].boundary
           a == check.calm => at["hdd"] # b.vol
           n == [w |-> w, dir |-> b, shown |-> check.shown, apart |-> a]
<1>1. /\ check.pc = "write" /\ check.op = "chunk" /\ w \in V!Workspaces
      /\ ~ws[w].failed /\ ((w = Ssd) <=> (check.root = "ssd"))
  BY ChunkIs DEF V!WriteChunk, Landing
<1>2. /\ landed' = landed \cup {n} /\ check' = V!NoCall
      /\ UNCHANGED Others
  BY DEF V!WriteChunk, Others, V!world, V!registry
<1>3. b # None /\ check.shown = b
  BY <1>1, CheckIs DEF Lands
<1>4. w = Ssd => a
  BY <1>1, <1>3, CheckIs DEF Inspected, Landing
<1> HIDE DEF a
<1>5. n.w = w /\ n.dir = b /\ n.shown = b /\ (n.w = Ssd => n.apart)
  BY <1>3, <1>4
<1> HIDE DEF n
<1>6. Landed'
  BY <1>1, <1>2, <1>3, <1>5 DEF VolumeInv, Landed, Others
<1>7. V!OneDirectory'
  <2>1. \A k \in landed : k.w = w => k.dir = b
    BY <1>1 DEF VolumeInv, Landed
  <2> QED
    BY <1>2, <1>5, <2>1 DEF VolumeInv, V!OneDirectory
<1> QED
  BY <1>1, <1>2, <1>6, <1>7, CallOver

\* The process starts, or a call begins.
LEMMA CallBegins ==
  ASSUME VolumeInv, check.pc = "idle", NEW c \in Inspection, check' = c,
         c.pc = "stat", c.round = 1, CallFits(c),
         counts' \in [calls: Nat, starts: Nat, enrolments: Nat],
         counts'.calls = counts.calls + 1, proc' # "down",
         UNCHANGED <<at, nested, vol, clock, changes, pins, anchors, born, ws,
                     landed, enrol>>
  PROVE  VolumeInv'
<1>1. VolumeTypes'
  BY DEF VolumeInv, VolumeTypes
<1>2. Anchored' /\ Enrolling' /\ Landed' /\ V!OneDirectory' /\ Quiet'
  BY DEF VolumeInv, Anchored, Enrolling, V!RequiresMarker, Landed,
         V!OneDirectory, Quiet
<1>3. CallFits(check)' /\ Lands(check)'
  BY DEF CallFits, V!RequiresMount, Lands
<1>4. (check.calm => Inspected(check))'
  BY DEF Inspected, Later, Inspecting, Landing
<1>5. ProbesFit'
  <2>1. counts.calls \in Nat /\ vol \in [Volumes -> Volume]
    BY DEF VolumeInv, VolumeTypes
  <2>2. \A v \in Volumes : vol[v].probes \subseteq Nat
    BY <2>1 DEF Volume
  <2>3. \A v \in Volumes : \A n \in vol[v].probes :
          n <= counts.calls + 1 /\ n # counts.calls + 1
    BY <2>1, <2>2 DEF VolumeInv, ProbesFit
  <2> QED
    BY <2>3 DEF ProbesFit, ProbeOn
<1>6. \A w \in V!Workspaces : Bound(w, check)'
  BY OtherWays DEF Bound
<1> QED
  BY <1>1, <1>2, <1>3, <1>4, <1>5, <1>6 DEF VolumeInv

LEMMA StartVolumesInv ==
  ASSUME VolumeInv, V!Start
  PROVE  VolumeInv'
<1> DEFINE c == [V!NoCall EXCEPT !.op = "probe", !.pc = "stat"]
<1>1. check.pc = "idle"
  BY DEF VolumeInv, Quiet, V!Start
<1>2. c \in Inspection
  BY NoCallFits DEF Inspection, Inspecting
<1>3. /\ c.op = "probe" /\ c.pc = "stat" /\ c.round = 1 /\ c.root = "hdd"
  BY DEF V!NoCall
<1>4. check' = c /\ proc' = "starting"
  BY DEF V!Start
<1> HIDE DEF c
<1>5. CallFits(c)
  BY <1>3 DEF CallFits, Probing, Landing
<1>6. /\ counts' \in [calls: Nat, starts: Nat, enrolments: Nat]
      /\ counts'.calls = counts.calls + 1
  <2>1. counts \in [calls: Nat, starts: Nat, enrolments: Nat]
    BY DEF VolumeInv, VolumeTypes
  <2>2. counts' = [counts EXCEPT !.calls = counts.calls + 1,
                                 !.starts = counts.starts + 1]
    BY <2>1 DEF V!Start
  <2>3. counts.calls + 1 \in Nat /\ counts.starts + 1 \in Nat
    BY <2>1
  <2> QED
    BY <2>1, <2>2, <2>3
<1> QED
  BY <1>1, <1>2, <1>3, <1>4, <1>5, <1>6, CallBegins
  DEF V!Start, V!world, V!registry

LEMMA BeginInv ==
  ASSUME VolumeInv, NEW op \in Ops, NEW w \in V!Workspaces, V!Begin(op, w)
  PROVE  VolumeInv'
<1> DEFINE x == IF op = "chunk" THEN w ELSE None
           r == IF op = "chunk" /\ w = Ssd THEN "ssd" ELSE "hdd"
           c == [V!NoCall EXCEPT !.op = op, !.pc = "stat", !.w = x, !.root = r]
<1>1. check.pc = "idle" /\ check' = c /\ proc' = "up"
  BY DEF V!Begin
<1>2. op \in {"probe", "read", "write", "chunk"}
  BY VolumeConstants
<1>3. /\ x \in OrNone(V!Workspaces) /\ r \in V!Roots
      /\ op # "chunk" => r = "hdd"
      /\ op = "chunk" => x = w /\ ((w = Ssd) <=> (r = "ssd"))
  BY DEF OrNone, V!Roots
<1>4. op = "chunk" => ~ws[w].failed
  BY DEF V!Begin
<1> HIDE DEF x, r
<1>5. c \in Inspection
  BY <1>2, <1>3, NoCallFits DEF Inspection, Inspecting
<1>6. /\ c.op = op /\ c.pc = "stat" /\ c.round = 1 /\ c.root = r /\ c.w = x
  BY DEF V!NoCall
<1> HIDE DEF c
<1>7. CallFits(c)
  BY <1>3, <1>4, <1>6 DEF CallFits, Probing, Landing
<1>8. /\ counts' \in [calls: Nat, starts: Nat, enrolments: Nat]
      /\ counts'.calls = counts.calls + 1
  BY DEF VolumeInv, VolumeTypes, V!Begin
<1> QED
  BY <1>1, <1>5, <1>6, <1>7, <1>8, CallBegins DEF V!Begin, V!world, V!registry

\* A change of the world, whatever it leaves of the volumes.
LEMMA ChangeInv ==
  ASSUME VolumeInv, V!Change, at' \in [V!Roots -> Volumes],
         vol' \in [Volumes -> Volume], Anchored',
         \A v \in Volumes : /\ vol'[v].probes = vol[v].probes
                            /\ vol'[v].marker = None => vol'[v].disk = "none",
         \A w \in V!Workspaces : w # Ssd /\ ws[w].fd # None =>
           LET f == ws[w].fd
           IN  vol'[f.vol].tmp.ino = f.ino => vol'[f.vol].tmp.made = f.made
  PROVE  VolumeInv'
<1> DEFINE c == V!Undisturbed(check)
<1>1. /\ check' = c /\ changes' = changes + 1
      /\ UNCHANGED <<clock, pins, anchors, born, ws, proc, counts, landed,
                     enrol>>
  BY DEF V!Change, V!registry
<1>2. c \in Inspection
  BY CheckIs DEF V!Undisturbed, Inspection
<1>3. /\ c.op = check.op /\ c.w = check.w /\ c.root = check.root
      /\ c.round = check.round /\ c.pc = check.pc /\ ~c.calm
      /\ c.shown = check.shown
  BY CheckIs DEF V!Undisturbed, Inspection
<1> HIDE DEF c
<1>4. VolumeTypes'
  <2>1. changes' \in Nat
    BY <1>1 DEF VolumeInv, VolumeTypes
  <2> QED
    BY <1>1, <1>2, <2>1 DEF VolumeInv, VolumeTypes
<1>5. Landed' /\ V!OneDirectory' /\ Quiet'
  BY <1>1, <1>3 DEF VolumeInv, Landed, V!OneDirectory, Quiet
<1>6. CallFits(check)' /\ Lands(check)'
  BY <1>1, <1>3, CheckIs DEF CallFits, Lands, V!RequiresMount
<1>7. (check.calm => Inspected(check))'
  BY <1>1, <1>3
<1>8. ProbesFit'
  BY <1>1, <1>3 DEF VolumeInv, ProbesFit, ProbeOn
<1>9. \A w \in V!Workspaces : Bound(w, check)'
  BY <1>1, <1>3 DEF VolumeInv, Bound
<1>10. Enrolling'
  <2>1. changes \in Nat /\ enrol \in Enrolment
    BY DEF VolumeInv, VolumeTypes
  <2>2. enrol.at \in Nat /\ enrol.doneAt \in Nat
    BY <2>1 DEF Enrolment
  <2>3. /\ enrol.pc \in {"write", "sync", "dirsync"} =>
             /\ enrol.vol # None /\ enrol.at <= changes + 1
             /\ changes + 1 # enrol.at
        /\ enrol.done # None =>
             /\ enrol.doneAt <= changes + 1
             /\ changes + 1 # enrol.doneAt
    BY <2>1, <2>2 DEF VolumeInv, Enrolling
  <2> QED
    BY <1>1, <2>3 DEF Enrolling
<1> QED
  BY <1>4, <1>5, <1>6, <1>7, <1>8, <1>9, <1>10 DEF VolumeInv

\* What holds of the volumes as they are.
LEMMA VolumesAre ==
  ASSUME VolumeInv
  PROVE  /\ vol \in [Volumes -> Volume] /\ at \in [V!Roots -> Volumes]
         /\ \A v \in Volumes : vol[v].marker = None => vol[v].disk = "none"
         /\ \A w \in V!Workspaces : w # Ssd /\ ws[w].fd # None =>
              LET f == ws[w].fd
              IN  vol[f.vol].tmp.ino = f.ino => vol[f.vol].tmp.made = f.made
         /\ \A w \in V!Workspaces : ws[w].fd # None => ws[w].fd.vol \in Volumes
         /\ \A r \in V!Roots : anchors[r] # None => anchors[r].vol \in Volumes
<1>1. /\ vol \in [Volumes -> Volume] /\ at \in [V!Roots -> Volumes]
      /\ ws \in [V!Workspaces -> Workspace]
      /\ anchors \in [V!Roots -> OrNone([vol: Volumes, ino: Inodes])]
  BY DEF VolumeInv, VolumeTypes
<1>2. \A w \in V!Workspaces : w # Ssd /\ ws[w].fd # None =>
        LET f == ws[w].fd
        IN  vol[f.vol].tmp.ino = f.ino => vol[f.vol].tmp.made = f.made
  BY DEF VolumeInv, Bound
<1>3. /\ \A w \in V!Workspaces : ws[w].fd # None => ws[w].fd.vol \in Volumes
      /\ \A r \in V!Roots : anchors[r] # None => anchors[r].vol \in Volumes
  BY <1>1 DEF Workspace, OrNone, V!Dirs
<1> QED
  BY <1>1, <1>2, <1>3 DEF VolumeInv, Enrolling

\* A number that is taken is not one a descriptor holds.
Unheld(v, i) ==
  /\ \A r \in V!Roots :
       anchors[r] # None /\ anchors[r].vol = v => anchors[r].ino # i
  /\ \A w \in V!Workspaces :
       ws[w].fd # None /\ ws[w].fd.vol = v => ws[w].fd.ino # i

LEMMA FreeIsUnheld ==
  ASSUME VolumeInv, NEW v \in Volumes
  PROVE  /\ \A i \in V!Free(v) : i \in Inodes /\ Unheld(v, i)
         /\ \A j \in Inodes : \A i \in V!FreeOnce(v, j) :
              i \in Inodes /\ Unheld(v, i)
<1>1. \A i \in V!Free(v) : i \in Inodes /\ Unheld(v, i)
  BY DEF V!Free, Unheld
<1>2. ASSUME NEW j \in Inodes, NEW i \in V!FreeOnce(v, j)
      PROVE  i \in Inodes /\ Unheld(v, i)
  <2>1. CASE i \in V!Free(v)
    BY <1>1, <2>1
  <2>2. CASE i \notin V!Free(v)
    BY <1>2, <2>2 DEF V!FreeOnce, Unheld
  <2> QED
    BY <2>1, <2>2
<1> QED
  BY <1>1, <1>2

\* A change of one volume.
LEMMA VolumeTurns ==
  ASSUME VolumeInv, V!Change, NEW v \in Volumes, NEW x \in Volume,
         vol' = [vol EXCEPT ![v] = x], at' = at,
         x.probes = vol[v].probes, x.marker = None => x.disk = "none",
         x.marker \in {None, vol[v].marker} \/ Unheld(v, x.marker.ino),
         x.tmp = vol[v].tmp \/ Unheld(v, x.tmp.ino)
  PROVE  VolumeInv'
<1>1. /\ vol \in [Volumes -> Volume] /\ at \in [V!Roots -> Volumes]
      /\ \A u \in Volumes : vol[u].marker = None => vol[u].disk = "none"
      /\ \A w \in V!Workspaces : w # Ssd /\ ws[w].fd # None =>
           LET f == ws[w].fd
           IN  vol[f.vol].tmp.ino = f.ino => vol[f.vol].tmp.made = f.made
      /\ \A w \in V!Workspaces : ws[w].fd # None => ws[w].fd.vol \in Volumes
      /\ \A r \in V!Roots : anchors[r] # None => anchors[r].vol \in Volumes
  BY VolumesAre
<1>2. vol' \in [Volumes -> Volume] /\ vol'[v] = x
  BY <1>1
<1>3. \A u \in Volumes : u # v => vol'[u] = vol[u]
  BY <1>1
<1>4. UNCHANGED <<pins, anchors, born>>
  BY DEF V!Change, V!registry
<1>5. Anchored'
  <2> SUFFICES ASSUME NEW r \in V!Roots, anchors[r] # None,
                      LET m == vol'[anchors[r].vol].marker
                      IN  m # None /\ m.ino = anchors[r].ino
               PROVE  vol'[anchors[r].vol].marker.made = born[r]
    BY <1>4 DEF VolumeInv, Anchored, V!RequiresMarker
  <2>1. CASE anchors[r].vol # v
    BY <1>1, <1>3, <2>1 DEF VolumeInv, Anchored
  <2>2. CASE anchors[r].vol = v
    BY <1>2, <2>2 DEF VolumeInv, Anchored, Unheld
  <2> QED
    BY <2>1, <2>2
<1>6. \A u \in Volumes : /\ vol'[u].probes = vol[u].probes
                         /\ vol'[u].marker = None => vol'[u].disk = "none"
  BY <1>1, <1>2, <1>3
<1>7. ASSUME NEW w \in V!Workspaces, w # Ssd, ws[w].fd # None,
             vol'[ws[w].fd.vol].tmp.ino = ws[w].fd.ino
      PROVE  vol'[ws[w].fd.vol].tmp.made = ws[w].fd.made
  <2>1. CASE ws[w].fd.vol # v
    BY <1>1, <1>3, <1>7, <2>1
  <2>2. CASE ws[w].fd.vol = v
    BY <1>1, <1>2, <1>7, <2>2 DEF Unheld
  <2> QED
    BY <2>1, <2>2
<1> QED
  BY <1>1, <1>2, <1>5, <1>6, <1>7, ChangeInv

\* What a volume that is changed in one respect keeps.
LEMMA VolumeIs ==
  ASSUME VolumeInv, NEW v \in Volumes
  PROVE  /\ vol[v] \in Volume /\ vol \in [Volumes -> Volume]
         /\ vol[v].tmp.ino \in Inodes /\ clock \in Nat /\ changes + 1 \in Nat
         /\ changes \in Nat
         /\ vol[v].marker # None =>
              vol[v].marker \in Markers /\ vol[v].marker.ino \in Inodes
         /\ vol[v].marker = None => vol[v].disk = "none"
<1>1. /\ vol \in [Volumes -> Volume] /\ clock \in Nat /\ changes \in Nat
      /\ vol[v] \in Volume
  BY DEF VolumeInv, VolumeTypes
<1> QED
  BY <1>1 DEF VolumeInv, Enrolling, Volume, Markers, OrNone

LEMMA WorldInv ==
  ASSUME VolumeInv, V!WorldStep
  PROVE  VolumeInv'
<1>1. ASSUME NEW r \in V!Roots, NEW v \in Volumes, V!Remount(r, v)
      PROVE  VolumeInv'
  <2>1. V!Change /\ at' = [at EXCEPT ![r] = v] /\ vol' = vol
    BY <1>1 DEF V!Remount
  <2>2. Anchored'
    BY <2>1 DEF VolumeInv, Anchored, V!RequiresMarker, V!Change, V!registry
  <2> QED
    BY <2>1, <2>2, VolumesAre, ChangeInv
<1>2. ASSUME NEW r \in V!Roots, V!Nest(r)
      PROVE  VolumeInv'
  <2>1. V!Change /\ at' = at /\ vol' = vol
    BY <1>2 DEF V!Nest
  <2>2. Anchored'
    BY <2>1 DEF VolumeInv, Anchored, V!RequiresMarker, V!Change, V!registry
  <2> QED
    BY <2>1, <2>2, VolumesAre, ChangeInv
<1>3. ASSUME NEW v \in Volumes, NEW text \in V!Roots, V!ReplaceMarker(v, text)
      PROVE  VolumeInv'
  <2>1. vol[v].marker # None
    BY <1>3 DEF V!ReplaceMarker
  <2>2. PICK i \in V!FreeOnce(v, vol[v].marker.ino) :
          vol' = [vol EXCEPT ![v].disk = text,
                             ![v].marker = [ino |-> i, tick |-> clock,
                                            text |-> text,
                                            made |-> changes + 1]]
    BY <1>3 DEF V!ReplaceMarker
  <2> DEFINE m == [ino |-> i, tick |-> clock, text |-> text,
                   made |-> changes + 1]
             x == [vol[v] EXCEPT !.disk = text, !.marker = m]
  <2>3. i \in Inodes /\ Unheld(v, i)
    BY <2>1, FreeIsUnheld, VolumeIs
  <2>4. m \in Markers /\ m # None /\ m.ino = i
    <3>1. m \in Markers /\ m.ino = i
      BY <2>3, VolumeIs DEF Markers, V!Roots
    <3> QED
      BY <3>1, VolumeConstants
  <2> HIDE DEF m
  <2>5. vol' = [vol EXCEPT ![v] = x]
    BY <2>2, VolumeIs DEF m, Volume
  <2>6. x \in Volume
    BY <2>4, VolumeIs DEF Volume, OrNone, V!Roots
  <2>7. x.probes = vol[v].probes /\ x.marker = m /\ x.tmp = vol[v].tmp
    BY VolumeIs DEF Volume
  <2>8. V!Change /\ at' = at
    BY <1>3 DEF V!ReplaceMarker
  <2> HIDE DEF x
  <2> QED
    BY <2>3, <2>4, <2>5, <2>6, <2>7, <2>8, VolumeTurns
<1>4. ASSUME NEW v \in Volumes, V!RemoveMarker(v)
      PROVE  VolumeInv'
  <2> DEFINE x == [vol[v] EXCEPT !.marker = None, !.disk = "none"]
  <2>1. vol' = [vol EXCEPT ![v] = x]
    BY <1>4, VolumeIs DEF Volume, V!RemoveMarker
  <2>2. x \in Volume
    BY VolumeIs DEF Volume, OrNone
  <2>3. /\ x.probes = vol[v].probes /\ x.marker = None
        /\ x.tmp = vol[v].tmp /\ x.disk = "none"
    BY VolumeIs DEF Volume
  <2>4. V!Change /\ at' = at
    BY <1>4 DEF V!RemoveMarker
  <2> HIDE DEF x
  <2> QED
    BY <2>1, <2>2, <2>3, <2>4, VolumeTurns
<1>5. ASSUME NEW v \in Volumes, NEW kind \in {"dir", "link"},
             V!ReplaceTmp(v, kind)
      PROVE  VolumeInv'
  <2>1. PICK i \in V!FreeOnce(v, vol[v].tmp.ino) :
          vol' = [vol EXCEPT ![v].tmp = [ino |-> i, kind |-> kind,
                                         made |-> changes + 1]]
    BY <1>5 DEF V!ReplaceTmp
  <2> DEFINE t == [ino |-> i, kind |-> kind, made |-> changes + 1]
             x == [vol[v] EXCEPT !.tmp = t]
  <2>2. i \in Inodes /\ Unheld(v, i)
    BY FreeIsUnheld, VolumeIs
  <2>3. /\ t \in [ino: Inodes, kind: {"dir", "link"}, made: Nat]
        /\ t.ino = i
    BY <2>2, VolumeIs
  <2> HIDE DEF t
  <2>4. vol' = [vol EXCEPT ![v] = x]
    BY <2>1, VolumeIs DEF t
  <2>5. x \in Volume
    BY <2>3, VolumeIs DEF Volume
  <2>6. /\ x.probes = vol[v].probes /\ x.marker = vol[v].marker
        /\ x.tmp = t /\ x.disk = vol[v].disk
    BY VolumeIs DEF Volume
  <2>7. V!Change /\ at' = at
    BY <1>5 DEF V!ReplaceTmp
  <2> HIDE DEF x
  <2> QED
    BY <2>2, <2>3, <2>4, <2>5, <2>6, <2>7, VolumeIs, VolumeTurns
<1>6. ASSUME NEW v \in Volumes, V!LinkUserDirectory(v)
      PROVE  VolumeInv'
  <2> DEFINE x == [vol[v] EXCEPT !.user = "link"]
  <2>1. vol' = [vol EXCEPT ![v] = x]
    BY <1>6 DEF V!LinkUserDirectory
  <2>2. x \in Volume
    BY VolumeIs DEF Volume
  <2>3. /\ x.probes = vol[v].probes /\ x.marker = vol[v].marker
        /\ x.tmp = vol[v].tmp /\ x.disk = vol[v].disk
    BY VolumeIs DEF Volume
  <2>4. V!Change /\ at' = at
    BY <1>6 DEF V!LinkUserDirectory
  <2> HIDE DEF x
  <2> QED
    BY <2>1, <2>2, <2>3, <2>4, VolumeIs, VolumeTurns
<1>7. ASSUME NEW v \in Volumes, V!ToggleReadOnly(v)
      PROVE  VolumeInv'
  <2> DEFINE x == [vol[v] EXCEPT !.ro = ~vol[v].ro]
  <2>1. vol' = [vol EXCEPT ![v] = x]
    BY <1>7, VolumeIs DEF V!ToggleReadOnly, Volume
  <2>2. x \in Volume
    BY ZenonT(90), VolumeIs DEF Volume
  <2>3. /\ x.probes = vol[v].probes /\ x.marker = vol[v].marker
        /\ x.tmp = vol[v].tmp /\ x.disk = vol[v].disk
    BY VolumeIs DEF Volume
  <2>4. V!Change /\ at' = at
    BY <1>7 DEF V!ToggleReadOnly
  <2> HIDE DEF x
  <2> QED
    BY <2>1, <2>2, <2>3, <2>4, VolumeIs, VolumeTurns
<1>8. ASSUME V!Tick
      PROVE  VolumeInv'
  <2>1. /\ clock' = clock + 1
        /\ UNCHANGED <<at, nested, vol, changes, pins, anchors, born, ws, proc,
                       check, counts, landed, enrol>>
    BY <1>8 DEF V!Tick, V!registry
  <2>2. VolumeTypes'
    <3>1. clock' \in Nat
      BY <2>1 DEF VolumeInv, VolumeTypes
    <3> QED
      BY <2>1, <3>1 DEF VolumeInv, VolumeTypes
  <2>3. Anchored' /\ Enrolling' /\ Landed' /\ V!OneDirectory' /\ Quiet'
    BY <2>1 DEF VolumeInv, Anchored, Enrolling, V!RequiresMarker, Landed,
                V!OneDirectory, Quiet
  <2>4. CallFits(check)' /\ Lands(check)' /\ ProbesFit'
    BY <2>1 DEF VolumeInv, CallFits, Lands, ProbesFit, ProbeOn,
                V!RequiresMount
  <2>5. (check.calm => Inspected(check))'
    BY <2>1 DEF VolumeInv, Inspected, V!RequiresMount, V!RequiresMarker,
      V!ExactMount, V!SeesMarker, V!MarkerStat, V!Fingerprint, Later
  <2>6. \A w \in V!Workspaces : Bound(w, check)'
    BY <2>1 DEF VolumeInv, Bound
  <2> QED
    BY <2>2, <2>3, <2>4, <2>5, <2>6 DEF VolumeInv
<1> QED
  BY <1>1, <1>2, <1>3, <1>4, <1>5, <1>6, <1>7, <1>8 DEF V!WorldStep

\* A step of the enrolment, under the call that may be at work: the marker it
\* touches is one that no inspection has admitted.
LEMMA EnrolStep ==
  ASSUME VolumeInv,
         UNCHANGED <<at, nested, clock, changes, pins, anchors, born, ws, proc,
                     check, landed>>,
         counts' \in [calls: Nat, starts: Nat, enrolments: Nat],
         counts'.calls = counts.calls, enrol' \in Enrolment,
         NEW v \in Volumes, NEW x \in Volume, vol' = [vol EXCEPT ![v] = x],
         x.probes = vol[v].probes, x.ro = vol[v].ro, x.tmp = vol[v].tmp,
         x.user = vol[v].user,
         \/ x.marker = vol[v].marker
         \/ vol[v].marker = None /\ Unheld(v, x.marker.ino)
         \/ /\ vol[v].marker # None /\ vol[v].marker.text = "blank"
            /\ x.marker.ino = vol[v].marker.ino
            /\ x.marker.made = vol[v].marker.made,
         Enrolling'
  PROVE  VolumeInv'
<1>1. /\ vol \in [Volumes -> Volume] /\ at \in [V!Roots -> Volumes]
      /\ \A w \in V!Workspaces : ws[w].fd # None => ws[w].fd.vol \in Volumes
      /\ \A r \in V!Roots : anchors[r] # None => anchors[r].vol \in Volumes
  BY VolumesAre
<1>2. vol' \in [Volumes -> Volume] /\ vol'[v] = x
  BY <1>1
<1>3. \A u \in Volumes : u # v => vol'[u] = vol[u]
  BY <1>1
<1>4. VolumeTypes'
  BY <1>2 DEF VolumeInv, VolumeTypes
<1>5. Anchored'
  <2> SUFFICES ASSUME NEW r \in V!Roots, anchors[r] # None,
                      LET m == vol'[anchors[r].vol].marker
                      IN  m # None /\ m.ino = anchors[r].ino
               PROVE  vol'[anchors[r].vol].marker.made = born[r]
    BY DEF VolumeInv, Anchored, V!RequiresMarker
  <2>1. CASE anchors[r].vol # v
    BY <1>1, <1>3, <2>1 DEF VolumeInv, Anchored
  <2>2. CASE anchors[r].vol = v
    BY <1>2, <2>2 DEF VolumeInv, Anchored, Unheld
  <2> QED
    BY <2>1, <2>2
<1>6. Landed' /\ V!OneDirectory' /\ Quiet'
  BY DEF VolumeInv, Landed, V!OneDirectory, Quiet
<1>7. CallFits(check)' /\ Lands(check)'
  BY DEF VolumeInv, CallFits, Lands, V!RequiresMount
<1>8. (check.calm => Inspected(check))'
  <2> DEFINE r == check.root
  <2>1. /\ r \in V!Roots /\ at[r] \in Volumes /\ at["hdd"] \in Volumes
        /\ check.calm => Inspected(check)
    BY CheckIs
  <2>2. \A u \in Volumes : vol'[u].ro = vol[u].ro /\ vol'[u].user = vol[u].user
    BY <1>2, <1>3
  <2>3. V!SeesMarker(r) /\ vol[at[r]].marker.text = r =>
          vol'[at[r]].marker = vol[at[r]].marker
    <3>1. CASE at[r] # v
      BY <1>3, <2>1, <3>1
    <3>2. CASE at[r] = v
      BY <1>2, <2>1, <3>2 DEF V!SeesMarker, V!Roots
    <3> QED
      BY <3>1, <3>2
  <2> QED
    BY <2>1, <2>2, <2>3
    DEF Inspected, V!RequiresMount, V!RequiresMarker, V!ExactMount,
        V!SeesMarker, V!MarkerStat, V!Fingerprint, Later
<1>9. ProbesFit'
  <2>1. \A u \in Volumes : vol'[u].probes = vol[u].probes
    BY <1>2, <1>3
  <2> QED
    BY <2>1 DEF VolumeInv, ProbesFit, ProbeOn
<1>10. \A w \in V!Workspaces : Bound(w, check)'
  <2>1. \A u \in Volumes : vol'[u].tmp = vol[u].tmp
    BY <1>2, <1>3
  <2> QED
    BY <1>1, <2>1 DEF VolumeInv, Bound
<1> QED
  BY <1>4, <1>5, <1>6, <1>7, <1>8, <1>9, <1>10 DEF VolumeInv

LEMMA EnrolIs ==
  ASSUME VolumeInv
  PROVE  /\ enrol \in Enrolment /\ counts.calls = counts.calls
         /\ counts \in [calls: Nat, starts: Nat, enrolments: Nat]
         /\ enrol.pc \in {"write", "sync", "dirsync"} => enrol.vol \in Volumes
         /\ enrol.done # None => enrol.done \in Volumes
         /\ \A u \in Volumes : vol[u].marker = None => vol[u].disk = "none"
         /\ Enrolling
  BY DEF VolumeInv, VolumeTypes, Enrolling, Enrolment, OrNone

\* An enrolment that leaves every volume as it is.
LEMMA EnrolRests ==
  ASSUME VolumeInv,
         UNCHANGED <<at, nested, vol, clock, changes, pins, anchors, born, ws,
                     proc, check, landed>>,
         counts' \in [calls: Nat, starts: Nat, enrolments: Nat],
         counts'.calls = counts.calls, enrol' \in Enrolment, Enrolling'
  PROVE  VolumeInv'
<1> DEFINE x == vol[System]
<1>1. System \in Volumes
  BY VolumeConstants
<1>2. x \in Volume /\ vol' = [vol EXCEPT ![System] = x]
  BY <1>1, VolumeIs
<1> QED
  BY <1>1, <1>2, EnrolStep

LEMMA EnrolBeginInv ==
  ASSUME VolumeInv, V!EnrolBegin
  PROVE  VolumeInv'
<1>1. enrol' = [enrol EXCEPT !.pc = "create"] /\ enrol.pc = "idle"
  BY DEF V!EnrolBegin
<1>2. /\ enrol' \in Enrolment /\ enrol'.pc = "create"
      /\ enrol'.done = enrol.done /\ enrol'.doneAt = enrol.doneAt
  BY <1>1, EnrolIs DEF Enrolment
<1>3. /\ counts' \in [calls: Nat, starts: Nat, enrolments: Nat]
      /\ counts'.calls = counts.calls
  <2>1. counts.enrolments + 1 \in Nat
    BY EnrolIs
  <2>2. counts' = [counts EXCEPT !.enrolments = counts.enrolments + 1]
    BY EnrolIs DEF V!EnrolBegin
  <2> QED
    BY <2>1, <2>2, EnrolIs
<1>4. Enrolling'
  BY <1>2, EnrolIs DEF Enrolling, V!EnrolBegin, V!world
<1> QED
  BY <1>2, <1>3, <1>4, EnrolRests DEF V!EnrolBegin, V!world, V!registry

LEMMA EnrolCreateInv ==
  ASSUME VolumeInv, V!EnrolCreate
  PROVE  VolumeInv'
<1> DEFINE v == at["hdd"]
<1>1. /\ enrol.pc = "create" /\ v \in Volumes
      /\ UNCHANGED <<at, nested, clock, changes, pins, anchors, born, ws, proc,
                     check, counts, landed>>
  BY CheckIs DEF V!EnrolCreate, V!registry
<1>2. CASE enrol' = [enrol EXCEPT !.pc = "idle"] /\ UNCHANGED vol
  <2>1. /\ enrol' \in Enrolment /\ enrol'.pc = "idle"
        /\ enrol'.done = enrol.done /\ enrol'.doneAt = enrol.doneAt
    BY <1>2, EnrolIs DEF Enrolment
  <2>2. Enrolling'
    BY <1>1, <1>2, <2>1, EnrolIs DEF Enrolling
  <2> QED
    BY <1>1, <1>2, <2>1, <2>2, EnrolIs, EnrolRests
<1>3. ASSUME vol[v].marker = None, NEW i \in V!Free(v),
             vol' = [vol EXCEPT ![v].marker =
                       [ino |-> i, tick |-> clock, text |-> "blank",
                        made |-> changes + 1]],
             enrol' = [enrol EXCEPT !.pc = "write", !.vol = v, !.at = changes]
      PROVE  VolumeInv'
  <2> DEFINE m == [ino |-> i, tick |-> clock, text |-> "blank",
                   made |-> changes + 1]
             x == [vol[v] EXCEPT !.marker = m]
  <2>1. i \in Inodes /\ Unheld(v, i)
    BY <1>1, FreeIsUnheld
  <2>2. m \in Markers /\ m # None /\ m.ino = i /\ m.text = "blank"
    <3>1. m \in Markers /\ m.ino = i /\ m.text = "blank"
      BY <1>1, <2>1, VolumeIs DEF Markers
    <3> QED
      BY <3>1, VolumeConstants
  <2>3. vol' = [vol EXCEPT ![v] = x]
    BY <1>1, <1>3, VolumeIs DEF Volume
  <2> HIDE DEF m
  <2>4. /\ x \in Volume /\ x.marker = m /\ x.disk = vol[v].disk
        /\ x.probes = vol[v].probes /\ x.ro = vol[v].ro
        /\ x.tmp = vol[v].tmp /\ x.user = vol[v].user
    BY <1>1, <2>2, VolumeIs DEF Volume, OrNone
  <2> HIDE DEF x
  <2>5. /\ enrol' \in Enrolment /\ enrol'.pc = "write" /\ enrol'.vol = v
        /\ enrol'.at = changes /\ enrol'.done = enrol.done
        /\ enrol'.doneAt = enrol.doneAt
    BY <1>1, <1>3, EnrolIs, VolumeIs DEF Enrolment, OrNone
  <2>6. v # None /\ changes \in Nat
    BY <1>1, VolumeConstants, VolumeIs
  <2>7. Enrolling'
    <3>1. vol'[v] = x /\ \A u \in Volumes : u # v => vol'[u] = vol[u]
      BY <1>1, <2>3, VolumeIs
    <3>2. \A u \in Volumes : vol'[u].marker = None => vol'[u].disk = "none"
      BY <2>2, <2>4, <3>1, EnrolIs
    <3>3. vol[v].disk = "none"
      BY <1>1, <1>3, VolumeIs
    <3>4. /\ enrol'.at <= changes /\ vol'[v].marker = m
          /\ vol'[v].disk = "none"
      BY <2>4, <2>5, <2>6, <3>1, <3>3
    <3>5. enrol.done # None =>
            /\ enrol.doneAt <= changes
            /\ changes = enrol.doneAt =>
                 /\ vol'[enrol.done].marker # None
                 /\ vol'[enrol.done].marker.text = "hdd"
                 /\ vol'[enrol.done].disk = "hdd"
      BY <1>3, <3>1, EnrolIs DEF Enrolling
    <3> QED
      BY <1>1, <2>2, <2>5, <2>6, <3>2, <3>4, <3>5 DEF Enrolling
  <2> QED
    BY ZenonT(90), <1>1, <1>3, <2>1, <2>2, <2>3, <2>4, <2>5, <2>7, EnrolIs,
       EnrolStep
<1> QED
  BY <1>2, <1>3 DEF V!EnrolCreate

LEMMA EnrolWriteInv ==
  ASSUME VolumeInv, V!EnrolWrite
  PROVE  VolumeInv'
<1> DEFINE v == enrol.vol
<1>1. /\ enrol.pc = "write" /\ v \in Volumes
      /\ enrol' = [enrol EXCEPT !.pc = "sync"]
      /\ UNCHANGED <<at, nested, clock, changes, pins, anchors, born, ws, proc,
                     check, counts, landed>>
  BY EnrolIs DEF V!EnrolWrite, V!registry
<1>2. /\ enrol' \in Enrolment /\ enrol'.pc = "sync" /\ enrol'.vol = v
      /\ enrol'.at = enrol.at /\ enrol'.done = enrol.done
      /\ enrol'.doneAt = enrol.doneAt
  BY <1>1, EnrolIs DEF Enrolment
<1>3. CASE ~V!Holds(v)
  <2>1. UNCHANGED vol
    BY <1>3 DEF V!EnrolWrite
  <2>2. changes # enrol.at
    BY <1>1, <1>3, EnrolIs DEF V!Holds, Enrolling
  <2>3. Enrolling'
    BY <1>1, <1>2, <2>1, <2>2, EnrolIs DEF Enrolling
  <2> QED
    BY <1>1, <1>2, <2>1, <2>3, EnrolIs, EnrolRests
<1>4. CASE V!Holds(v)
  <2> DEFINE m == [vol[v].marker EXCEPT !.text = "hdd", !.tick = clock]
             x == [vol[v] EXCEPT !.marker = m]
  <2>1. /\ vol[v].marker # None /\ vol[v].marker \in Markers
        /\ changes = enrol.at /\ vol[v].marker.text = "blank"
        /\ vol[v].disk = "none"
    BY <1>1, <1>4, VolumeIs, EnrolIs DEF V!Holds, Enrolling
  <2>2. /\ m \in Markers /\ m.ino = vol[v].marker.ino
        /\ m.made = vol[v].marker.made /\ m.text = "hdd"
    BY <1>1, <2>1, VolumeIs DEF Markers
  <2>3. vol' = [vol EXCEPT ![v] = x]
    BY <1>1, <1>4, VolumeIs DEF Volume, V!EnrolWrite
  <2>4. m # None
    BY <2>2, VolumeConstants
  <2> HIDE DEF m
  <2>5. /\ x \in Volume /\ x.marker = m /\ x.disk = vol[v].disk
        /\ x.probes = vol[v].probes /\ x.ro = vol[v].ro
        /\ x.tmp = vol[v].tmp /\ x.user = vol[v].user
    BY <1>1, <2>2, VolumeIs DEF Volume, OrNone
  <2> HIDE DEF x
  <2>6. Enrolling'
    <3>1. vol'[v] = x /\ \A u \in Volumes : u # v => vol'[u] = vol[u]
      BY <1>1, <2>3, VolumeIs
    <3> QED
      BY <1>1, <1>2, <2>1, <2>2, <2>4, <2>5, <3>1, EnrolIs DEF Enrolling
  <2> QED
    BY <1>1, <1>2, <2>1, <2>2, <2>3, <2>5, <2>6, EnrolIs, EnrolStep
<1> QED
  BY <1>3, <1>4

LEMMA EnrolSyncInv ==
  ASSUME VolumeInv, V!EnrolSync
  PROVE  VolumeInv'
<1> DEFINE v == enrol.vol
           d == IF enrol.pc = "sync" THEN V!SyncFile(vol[v].disk)
                ELSE V!SyncDirectory(vol[v].disk)
<1>1. /\ enrol.pc \in {"sync", "dirsync"} /\ v \in Volumes /\ v # None
      /\ UNCHANGED <<at, nested, clock, changes, pins, anchors, born, ws, proc,
                     check, counts, landed>>
  BY EnrolIs, VolumeConstants DEF V!EnrolSync, V!registry
<1>2. /\ enrol' \in Enrolment
      /\ \/ /\ enrol.pc = "sync" /\ enrol'.pc = "dirsync" /\ enrol'.vol = v
            /\ enrol'.at = enrol.at /\ enrol'.done = enrol.done
            /\ enrol'.doneAt = enrol.doneAt
         \/ /\ enrol.pc = "dirsync" /\ enrol'.pc = "idle"
            /\ enrol'.done = v /\ enrol'.doneAt = enrol.at
  <2>1. CASE enrol.pc = "sync"
    BY <2>1, EnrolIs DEF Enrolment, V!EnrolSync
  <2>2. CASE enrol.pc # "sync"
    BY <1>1, <2>2, EnrolIs DEF Enrolment, V!EnrolSync, OrNone
  <2> QED
    BY <2>1, <2>2
<1>3. CASE ~V!Holds(v)
  <2>1. UNCHANGED vol
    BY <1>3 DEF V!EnrolSync
  <2>2. changes # enrol.at
    BY <1>1, <1>3, EnrolIs DEF V!Holds, Enrolling
  <2>3. Enrolling'
    BY <1>1, <1>2, <2>1, <2>2, EnrolIs DEF Enrolling
  <2> QED
    BY <1>1, <1>2, <2>1, <2>3, EnrolIs, EnrolRests
<1>4. CASE V!Holds(v)
  <2> DEFINE x == [vol[v] EXCEPT !.disk = d]
  <2>1. /\ vol[v].marker # None /\ changes = enrol.at
        /\ vol[v].marker.text = "hdd"
        /\ enrol.pc = "sync" => vol[v].disk = "none"
        /\ enrol.pc = "dirsync" => vol[v].disk = "unnamed"
    BY <1>1, <1>4, EnrolIs DEF V!Holds, Enrolling
  <2>2. d = IF enrol.pc = "sync" THEN "unnamed" ELSE "hdd"
    BY <1>1, <2>1 DEF V!SyncFile, V!SyncDirectory
  <2>3. vol' = [vol EXCEPT ![v] = x]
    BY <1>1, <1>4, VolumeIs DEF Volume, V!EnrolSync
  <2> HIDE DEF d
  <2>4. /\ x \in Volume /\ x.marker = vol[v].marker /\ x.disk = d
        /\ x.probes = vol[v].probes /\ x.ro = vol[v].ro
        /\ x.tmp = vol[v].tmp /\ x.user = vol[v].user
    BY <1>1, <2>2, VolumeIs DEF Volume
  <2> HIDE DEF x
  <2>5. Enrolling'
    <3>1. vol'[v] = x /\ \A u \in Volumes : u # v => vol'[u] = vol[u]
      BY <1>1, <2>3, VolumeIs
    <3>2. \A u \in Volumes : vol'[u].marker = None => vol'[u].disk = "none"
      BY <2>1, <2>4, <3>1, EnrolIs
    <3> QED
      BY <1>1, <1>2, <2>1, <2>2, <2>4, <3>1, <3>2, EnrolIs DEF Enrolling
  <2> QED
    BY <1>1, <1>2, <2>3, <2>4, <2>5, EnrolIs, EnrolStep
<1> QED
  BY <1>3, <1>4

LEMMA PowerLossInv ==
  ASSUME VolumeInv, V!PowerLoss
  PROVE  VolumeInv'
<1> DEFINE c == V!NoCall
           left(u, lost) ==
             IF vol[u].marker = None \/ vol[u].disk \in V!Roots THEN vol[u]
             ELSE [vol[u] EXCEPT !.disk = "none",
                     !.marker = IF lost = None THEN None
                                ELSE [@ EXCEPT !.text = "blank"]]
<1>1. PICK lost \in {None, "blank"} : vol' = [u \in Volumes |-> left(u, lost)]
  BY DEF V!PowerLoss
<1>2. /\ proc' = "down" /\ check' = c
      /\ pins' = [r \in V!Roots |-> None]
      /\ anchors' = [r \in V!Roots |-> None]
      /\ born' = [r \in V!Roots |-> None]
      /\ ws' = [w \in V!Workspaces |-> V!NoWs] /\ landed' = {}
      /\ enrol' = [enrol EXCEPT !.pc = "idle"]
      /\ UNCHANGED <<at, nested, clock, changes, counts>>
  BY DEF V!PowerLoss
<1>3. /\ c \in Inspection /\ V!NoWs \in Workspace
      /\ c.op = "none" /\ c.pc = "idle" /\ c.round = 1 /\ c.root = "hdd"
  BY NoCallFits DEF V!NoCall
<1>4. CallFits(c) /\ Inspected(c) /\ Lands(c)
  BY <1>3, NoCallFits
<1> HIDE DEF c
<1>5. ASSUME NEW u \in Volumes
      PROVE  /\ vol'[u] \in Volume /\ vol'[u].probes = vol[u].probes
             /\ vol'[u].marker = None => vol'[u].disk = "none"
             /\ vol[u].marker # None /\ vol[u].disk \in V!Roots =>
                  vol'[u] = vol[u]
  <2>1. vol'[u] = left(u, lost)
    BY <1>1
  <2>2. CASE vol[u].marker = None \/ vol[u].disk \in V!Roots
    <3>1. vol'[u] = vol[u]
      BY <2>1, <2>2
    <3> QED
      BY <3>1, VolumeIs
  <2>3. CASE ~(vol[u].marker = None \/ vol[u].disk \in V!Roots)
    <3> DEFINE m == IF lost = None THEN None
                    ELSE [vol[u].marker EXCEPT !.text = "blank"]
               x == [vol[u] EXCEPT !.disk = "none", !.marker = m]
    <3>1. vol[u] \in Volume /\ vol[u].marker \in Markers
      BY <2>3, VolumeIs
    <3>2. m \in OrNone(Markers)
      BY <3>1 DEF OrNone, Markers
    <3>3. vol'[u] = x
      BY <2>1, <2>3, <3>1 DEF Volume
    <3> HIDE DEF m
    <3>4. x \in Volume /\ x.probes = vol[u].probes /\ x.disk = "none"
      BY <3>1, <3>2 DEF Volume
    <3> QED
      BY <2>3, <3>3, <3>4
  <2> QED
    BY <2>2, <2>3
<1>6. vol' \in [Volumes -> Volume]
  BY <1>1, <1>5
<1>7. /\ enrol' \in Enrolment /\ enrol'.pc = "idle"
      /\ enrol'.done = enrol.done /\ enrol'.doneAt = enrol.doneAt
  BY <1>2, EnrolIs DEF Enrolment
<1>8. VolumeTypes'
  BY <1>2, <1>3, <1>6, <1>7 DEF VolumeInv, VolumeTypes, OrNone
<1>9. Anchored' /\ Landed' /\ V!OneDirectory' /\ Quiet'
  BY <1>2, <1>3 DEF Anchored, Landed, V!OneDirectory, Quiet
<1>10. CallFits(check)' /\ Lands(check)'
  BY <1>2, <1>3 DEF CallFits, Lands, Probing, Landing
<1>11. (check.calm => Inspected(check))'
  BY <1>2, <1>3 DEF Inspected, Later, Landing, Inspecting
<1>12. \A w \in V!Workspaces : Bound(w, check)'
  BY <1>2 DEF Bound, V!NoWs
<1>13. ProbesFit'
  BY <1>2, <1>3, <1>5 DEF VolumeInv, ProbesFit, ProbeOn
<1>14. Enrolling'
  <2>1. enrol.done # None =>
          /\ enrol.done \in Volumes /\ enrol.doneAt <= changes
          /\ changes = enrol.doneAt =>
               /\ vol[enrol.done].marker # None
               /\ vol[enrol.done].marker.text = "hdd"
               /\ vol[enrol.done].disk = "hdd"
    BY EnrolIs DEF Enrolling
  <2>2. "hdd" \in V!Roots
    BY DEF V!Roots
  <2> QED
    BY <1>2, <1>5, <1>7, <2>1, <2>2 DEF Enrolling
<1> QED
  BY <1>8, <1>9, <1>10, <1>11, <1>12, <1>13, <1>14 DEF VolumeInv

LEMMA InitVolumes ==
  ASSUME V!Init
  PROVE  VolumeInv
<1> DEFINE c == V!NoCall
           text(v) == IF v = SsdVolume THEN "ssd" ELSE "hdd"
           mark(v, i) == IF v \in Enrolled \cup {SsdVolume}
                         THEN [ino |-> i, tick |-> 0, made |-> 0,
                               text |-> text(v)]
                         ELSE None
           disk(v) == IF v = SsdVolume THEN "ssd"
                      ELSE IF v \in Enrolled THEN "hdd" ELSE "none"
<1>1. PICK i \in Inodes, j \in Inodes :
        vol = [v \in Volumes |->
          [marker |-> mark(v, i), disk |-> disk(v), ro |-> FALSE,
           tmp |-> [ino |-> j, kind |-> "dir", made |-> 0],
           user |-> "dir", probes |-> {}]]
  BY DEF V!Init
<1>2. /\ at = [r \in V!Roots |-> IF r = "hdd" THEN HddVolume ELSE SsdVolume]
      /\ clock = 0 /\ changes = 0
      /\ pins = [r \in V!Roots |-> None] /\ anchors = [r \in V!Roots |-> None]
      /\ born = [r \in V!Roots |-> None]
      /\ ws = [w \in V!Workspaces |-> V!NoWs]
      /\ proc = "down" /\ check = c
      /\ counts = [calls |-> 0, starts |-> 0, enrolments |-> 0]
      /\ landed = {}
      /\ enrol = [pc |-> "idle", vol |-> None, at |-> 0,
                  done |-> None, doneAt |-> 0]
  BY DEF V!Init
<1>3. /\ c \in Inspection /\ V!NoWs \in Workspace
      /\ c.op = "none" /\ c.pc = "idle" /\ c.round = 1 /\ c.root = "hdd"
  BY NoCallFits DEF V!NoCall
<1>4. CallFits(c) /\ Inspected(c) /\ Lands(c)
  BY <1>3, NoCallFits
<1> HIDE DEF c
<1>5. ASSUME NEW v \in Volumes
      PROVE  /\ vol[v] \in Volume /\ vol[v].probes = {}
             /\ vol[v].marker = None => vol[v].disk = "none"
  <2>1. mark(v, i) \in OrNone(Markers)
    BY DEF OrNone, Markers
  <2>2. disk(v) \in {"none", "unnamed", "hdd", "ssd"}
    OBVIOUS
  <2>3. mark(v, i) = None => disk(v) = "none"
    <3>1. v \in Enrolled \cup {SsdVolume} => mark(v, i) \in Markers
      BY DEF Markers
    <3>2. v \notin Enrolled \cup {SsdVolume} => disk(v) = "none"
      OBVIOUS
    <3> HIDE DEF mark, disk
    <3> QED
      BY <3>1, <3>2, VolumeConstants
  <2> HIDE DEF mark, disk
  <2> QED
    BY <1>1, <2>1, <2>2, <2>3 DEF Volume
<1>6. vol \in [Volumes -> Volume]
  <2> HIDE DEF mark, disk
  <2> QED
    BY <1>1, <1>5
<1>7. VolumeTypes
  <2>1. at \in [V!Roots -> Volumes]
    BY <1>2, VolumeConstants
  <2>2. enrol \in Enrolment
    BY <1>2 DEF Enrolment, OrNone
  <2>3. counts \in [calls: Nat, starts: Nat, enrolments: Nat]
    BY <1>2
  <2> QED
    BY <1>2, <1>3, <1>6, <2>1, <2>2, <2>3 DEF VolumeTypes, OrNone
<1>8. Anchored /\ Landed /\ V!OneDirectory /\ Quiet
  BY <1>2, <1>3 DEF Anchored, Landed, V!OneDirectory, Quiet
<1>9. /\ CallFits(check) /\ Lands(check)
      /\ check.calm => Inspected(check)
  BY <1>2, <1>4
<1>10. \A w \in V!Workspaces : Bound(w, check)
  BY <1>2 DEF Bound, V!NoWs
<1>11. ProbesFit
  BY <1>2, <1>3, <1>5 DEF ProbesFit, ProbeOn
<1>12. Enrolling
  BY <1>2, <1>5 DEF Enrolling
<1> QED
  BY <1>7, <1>8, <1>9, <1>10, <1>11, <1>12 DEF VolumeInv

LEMMA NextVolumes ==
  ASSUME VolumeInv, [V!Next]_(V!vars)
  PROVE  VolumeInv'
<1>1. CASE V!WorldStep
  BY <1>1, WorldInv
<1>2. CASE V!InspectStep
  BY <1>2, StatRootInv, ReadMountInv, ReadMarkerInv, ComparePinInv,
     PinVolumeInv, CheckRightsInv, WriteProbeInv, AgainInv, UnlinkProbeInv,
     VerdictInv
  DEF V!InspectStep
<1>3. CASE V!UseStep
  BY <1>3, CheckObjectInv, UseObjectInv, CheckApartInv, CheckTmpInv,
     OpenRootInv, BindBoundaryInv, CheckRootInv, WriteChunkInv
  DEF V!UseStep
<1>4. CASE V!Start \/ V!StopProcess
  BY <1>4, StartVolumesInv, ExitInv DEF V!StopProcess
<1>5. CASE \E op \in Ops, w \in V!Workspaces : V!Begin(op, w)
  BY <1>5, BeginInv
<1>6. CASE V!EnrolBegin \/ V!EnrolCreate \/ V!EnrolWrite \/ V!EnrolSync
  BY <1>6, EnrolBeginInv, EnrolCreateInv, EnrolWriteInv, EnrolSyncInv
<1>7. CASE V!PowerLoss
  BY <1>7, PowerLossInv
<1>8. CASE UNCHANGED V!vars
  <2>1. UNCHANGED <<at, nested, vol, clock, changes, pins, anchors, born, ws,
                    proc, check, counts, landed, enrol>>
    BY <1>8 DEF V!vars, V!world, V!registry
  <2>2. enrol' \in Enrolment /\ Enrolling'
    BY <2>1, EnrolIs DEF Enrolling
  <2> QED
    BY <2>1, <2>2, EnrolIs, EnrolRests
<1> QED
  BY <1>1, <1>2, <1>3, <1>4, <1>5, <1>6, <1>7, <1>8 DEF V!Next

\* What an inspection that is over has admitted.
LEMMA VolumesMean ==
  ASSUME VolumeInv
  PROVE  VolumeKept
<1> DEFINE r == check.root
<1>1. /\ CallFits(check) /\ (check.calm => Inspected(check))
      /\ r \in V!Roots
  BY CheckIs
<1>2. ASSUME check.pc \in V!AdmittedAt, check.calm
      PROVE  /\ at[r] = check.stat /\ pins[r] = V!Fingerprint(check)
             /\ V!RequiresMount(r) => V!ExactMount(r)
             /\ V!RequiresMarker(r) =>
                  /\ V!SeesMarker(r) /\ vol[at[r]].marker.text = r
                  /\ check.mark = V!MarkerStat(r)
  BY <1>1, <1>2 DEF Inspected, Later, V!AdmittedAt, Inspecting
<1>3. V!AdmitsPinned
  <2> SUFFICES ASSUME check.pc \in V!AdmittedAt, check.calm
               PROVE  /\ at[r] = pins[r].stat
                      /\ V!RequiresMarker(r) =>
                           /\ vol[at[r]].marker # None
                           /\ vol[at[r]].marker.made = born[r]
    BY DEF V!AdmitsPinned
  <2>1. at[r] = pins[r].stat /\ pins[r].mark = check.mark
    BY <1>2 DEF V!Fingerprint
  <2>2. pins[r] # None
    <3>1. V!Fingerprint(check) \in PinRow
      BY CheckIs DEF V!Fingerprint, PinRow, Inspection
    <3> QED
      BY <1>2, <3>1, VolumeConstants
  <2>3. ASSUME V!RequiresMarker(r)
        PROVE  /\ vol[at[r]].marker # None
               /\ vol[at[r]].marker.made = born[r]
    <3>1. /\ check.mark.vol = at[r]
          /\ check.mark.ino = vol[at[r]].marker.ino
          /\ vol[at[r]].marker # None
      BY <1>2, <2>3 DEF V!MarkerStat, V!SeesMarker
    <3> QED
      BY <1>1, <2>1, <2>2, <2>3, <3>1 DEF VolumeInv, Anchored
  <2> QED
    BY <2>1, <2>3
<1>4. V!AdmitsEnrolled
  BY <1>2 DEF V!AdmitsEnrolled, V!ExactMount
<1>5. V!StaysInside
  BY <1>1 DEF V!StaysInside, Inspected
<1>6. V!ProbeGone
  <2>1. DOMAIN vol = Volumes
    BY CheckIs
  <2> QED
    BY <1>1, <2>1
    DEF VolumeInv, ProbesFit, ProbeOn, V!ProbeGone, CallFits, Probing
<1>7. V!LandsWhereShown /\ V!OneDirectory /\ V!SsdApart
  BY DEF VolumeInv, Landed, V!LandsWhereShown, V!SsdApart
<1>8. V!EnrolmentDurable
  BY DEF VolumeInv, Enrolling, V!EnrolmentDurable
<1> QED
  BY <1>3, <1>4, <1>5, <1>6, <1>7, <1>8 DEF VolumeKept

\* In every behaviour an inspection admits only the volume that was pinned, with
\* the very marker it had then, and in production an enrolled one; chunks land
\* where their call looked, in one directory; nothing of a probe stays; and an
\* enrolment that was reported survives a power loss.
THEOREM VolumesHold == V!Spec => []VolumeKept
<1>1. V!Init => VolumeInv
  BY InitVolumes
<1>2. VolumeInv /\ [V!Next]_(V!vars) => VolumeInv'
  BY NextVolumes
<1>3. VolumeInv => VolumeKept
  BY VolumesMean
<1> QED
  BY <1>1, <1>2, <1>3, PTL DEF V!Spec
=============================================================================
