---------------------------- MODULE JournalGuards ----------------------------
(***************************************************************************)
(* The finalization journal statement by statement: the transactions of    *)
(* PostgresSsdFinalizationStore (src/backend/src/uploads/                  *)
(* ssd-finalization-store.ts) and of the services that know nothing of it, *)
(* under READ COMMITTED with row locks, against the triggers of migrations *)
(* 1746825180000, 1746825190000 and 1746825200000.                         *)
(*                                                                         *)
(* SsdFinalization takes each transaction of the store as one step; here   *)
(* they interleave, with each other and with statements of anyone else on  *)
(* the same rows.  A BEFORE ROW trigger runs once the row is locked and    *)
(* sees what is committed by then, and what its own transaction wrote; a   *)
(* deferred one runs at COMMIT.  What a trigger raises rolls back.         *)
(***************************************************************************)
EXTENDS Naturals, FiniteSets

CONSTANTS Sessions, Txs, Chunks, Contents, Active, Deleted,
          None,           \* no content, no row, no lock
          Unset,          \* a column the transaction did not write
          MaxStatements   \* bound: statements of a service's transaction

ChunkRows == [Chunks -> Contents \cup {None}]
NoChunkRows == [i \in Chunks |-> None]
Full(r) == \A i \in Chunks : r[i] # None

VARIABLES op, rec, status, file,  \* what is committed
          lock,                   \* row locks
          tx                      \* the transactions

db == <<op, rec, status, file>>
vars == <<db, lock, tx>>

JP == INSTANCE JournalPromise WITH Rows <- ChunkRows, NoRows <- NoChunkRows

States == JP!States
NoOp == JP!NoOp

Statuses == {"none", "pending", "completed", "aborted"} \cup Active
Files    == {None, "live", Deleted}

(* What is distinct in the code: a transaction's number is no NULL, a      *)
(* column it did not write holds no value, states and rows differ.         *)
DistinctValues ==
  /\ None \notin Txs
  /\ None # "live" /\ Deleted # "live" /\ None # Deleted
  /\ "completed" \notin Active /\ "none" \notin Active
  /\ "pending" \in Active
  /\ Unset \notin JP!Journal /\ Unset \notin ChunkRows
  /\ Unset \notin Statuses /\ Unset \notin Files

ASSUME GuardsAssumption == DistinctValues

(* "session": upload_sessions and upload_chunks; "file": files; the others *)
(* are the methods of the store.                                           *)
Services == {"session", "file"}
Store == {"begin", "recordTarget", "recordMimeType", "transition", "commit",
          "finishCleanup"}
Tables == {"op", "session", "file"}

Clear == [op |-> Unset, rec |-> Unset, status |-> Unset, file |-> Unset]
Idle == [kind |-> "none", s |-> None, pc |-> "idle", own |-> Clear, n |-> 0]

S(t) == tx[t].s
At(t, l) == tx[t].pc = l
Is(t, k) == tx[t].kind = k

(* What a statement of t reads of its session.                             *)
Seen(own, committed) == IF own # Unset THEN own ELSE committed
Op(t) == Seen(tx[t].own.op, op[S(t)])
Rec(t) == Seen(tx[t].own.rec, rec[S(t)])
Status(t) == Seen(tx[t].own.status, status[S(t)])
File(t) == Seen(tx[t].own.file, file[S(t)])

(* "cleanupState"='pending', the index and the guards' condition.          *)
Pending(o) == o.state # "none" /\ ~o.cleaned

(* FOR UPDATE, FOR SHARE or the write itself: only a row that is there can *)
(* be locked.  A share lock only ever meets writers, so it is not told     *)
(* apart.                                                                  *)
Exists(t, r) ==
  CASE r = "op" -> Op(t).state # "none"
    [] r = "session" -> Status(t) # "none"
    [] r = "file" -> File(t) = "live"
Free(t, r) == lock[r][S(t)] \in {None, t}
Locks(t, r) ==
  lock' = IF Exists(t, r) THEN [lock EXCEPT ![r][S(t)] = t] ELSE lock
Takes(t, r) == Free(t, r) /\ Locks(t, r)

Goto(t, l) == tx' = [tx EXCEPT ![t].pc = l]
Writes(t, own, l) == tx' = [tx EXCEPT ![t].own = own, ![t].pc = l]

----------------------------------------------------------------------------
Init ==
  /\ op = [s \in Sessions |-> NoOp] /\ rec = [s \in Sessions |-> NoChunkRows]
  /\ status = [s \in Sessions |-> "none"] /\ file = [s \in Sessions |-> None]
  /\ lock = [r \in Tables |-> [s \in Sessions |-> None]]
  /\ tx = [t \in Txs |-> Idle]

First(k) ==
  CASE k \in Services -> "run"
    [] k = "begin" -> "lockSession"
    [] OTHER -> "lockOp"

Start(t, k, s) ==
  /\ At(t, "idle")
  /\ tx' = [tx EXCEPT ![t] = [Idle EXCEPT !.kind = k, !.s = s, !.pc = First(k)]]
  /\ UNCHANGED <<db, lock>>

(* The services' statements.  The bound is on their number.                *)
Again(t, own) ==
  tx' = [tx EXCEPT ![t].own = own, ![t].n = @ + 1, ![t].pc = "run"]
Ready(t, k) == Is(t, k) /\ At(t, "run") /\ tx[t].n < MaxStatements

\* guard_ssd_session_insert; the unique uploadId makes a second one wait.
InsertSession(t) ==
  /\ Ready(t, "session") /\ Status(t) = "none" /\ Free(t, "session")
  /\ ~Pending(Op(t))
  /\ lock' = [lock EXCEPT !["session"][S(t)] = t]
  /\ Again(t, [tx[t].own EXCEPT !.status = "pending"])
  /\ UNCHANGED db

\* guard_ssd_reserved_session: what the store itself may do is in Complete.
UpdateSession(t, st) ==
  /\ Ready(t, "session") /\ Exists(t, "session") /\ Takes(t, "session")
  /\ ~Pending(Op(t))
  /\ Again(t, [tx[t].own EXCEPT !.status = st])
  /\ UNCHANGED db

\* The chunk rows go with it.
DeleteSession(t) ==
  /\ Ready(t, "session") /\ Exists(t, "session") /\ Takes(t, "session")
  /\ ~Pending(Op(t))
  /\ Again(t, [tx[t].own EXCEPT !.status = "none", !.rec = NoChunkRows])
  /\ UNCHANGED db

\* Mutant: the trigger asks for an operation before it has the session.
TakesSessionAs(t) == UNCHANGED lock

(* guard_ssd_reserved_chunks first locks the session.                      *)
TakesSession(t) == Takes(t, "session")

WriteChunk(t, i, c) ==
  /\ Ready(t, "session") /\ Exists(t, "session") /\ TakesSession(t)
  /\ ~Pending(Op(t))
  /\ Again(t, [tx[t].own EXCEPT !.rec = [Rec(t) EXCEPT ![i] = c]])
  /\ UNCHANGED db

\* guard_ssd_reserved_file on INSERT, of a service that completes an upload.
InsertFile(t) ==
  /\ Ready(t, "session") /\ Exists(t, "session") /\ Takes(t, "session")
  /\ File(t) = None /\ ~Pending(Op(t))
  /\ Again(t, [tx[t].own EXCEPT !.file = "live"])
  /\ UNCHANGED db

\* UPDATE and DELETE of a File lock its row, then, in the trigger, the session.
TouchFile(t) ==
  /\ Ready(t, "file") /\ Exists(t, "file") /\ Takes(t, "file")
  /\ Goto(t, "trigger") /\ UNCHANGED db

GuardFile(t) ==
  /\ At(t, "trigger") /\ Takes(t, "session") /\ ~Pending(Op(t))
  /\ Again(t, [tx[t].own EXCEPT !.file = Deleted])
  /\ UNCHANGED db

----------------------------------------------------------------------------
(* begin().                                                                *)

\* Mutant: the session is read without FOR UPDATE.
LocksSessionAs(t) == UNCHANGED lock

LocksSession(t) == Takes(t, "session")

LockSession(t) ==
  /\ At(t, "lockSession") /\ Status(t) \in Active /\ LocksSession(t)
  /\ Goto(t, "check") /\ UNCHANGED db

CheckManifest(t) ==
  /\ At(t, "check") /\ File(t) = None /\ Full(Rec(t))
  /\ Goto(t, "insert") /\ UNCHANGED <<db, lock>>

(* The unique indexes: one operation per session, one pending operation;   *)
(* an operation that is being inserted or cleaned by another transaction   *)
(* makes this one wait for its end.                                        *)
Undecided(t) ==
  {u \in Txs \ {t} : /\ tx[u].own.op # Unset
                     /\ \/ tx[u].kind = "begin"
                        \/ tx[u].kind = "finishCleanup"}
ActiveIsUnique(t) ==
  /\ op[S(t)].state = "none"
  /\ \A s \in Sessions : ~JP!Pending(op[s])

InsertOp(t) ==
  /\ At(t, "insert") /\ Undecided(t) = {} /\ ActiveIsUnique(t)
  /\ Status(t) # "none"
  /\ Writes(t, [tx[t].own EXCEPT !.op = [NoOp EXCEPT !.state = "assembling"]],
            "seal")
  /\ UNCHANGED <<db, lock>>

(* INSERT ... SELECT of the chunk rows; guard_ssd_finalization_manifest    *)
(* allows it to the transaction that created the operation.                *)
SealManifest(t) ==
  /\ At(t, "seal") /\ Full(Rec(t))
  /\ Writes(t, [tx[t].own EXCEPT !.op.man = Rec(t)], "end")
  /\ UNCHANGED <<db, lock>>

----------------------------------------------------------------------------
(* The other methods: the journal row first.                               *)
Wants(k) ==
  CASE k = "recordTarget" -> {"assembling"}
    [] k = "recordMimeType" -> {"verified"}
    [] k = "transition" -> {"assembling", "verified", "publishing"}
    [] k = "commit" -> {"published"}
    [] k = "finishCleanup" -> {"committed"}

LockOp(t) ==
  /\ At(t, "lockOp") /\ Takes(t, "op")
  /\ Op(t).state \in Wants(tx[t].kind) /\ ~Op(t).cleaned
  /\ Goto(t, IF tx[t].kind \in {"recordTarget", "transition"} THEN "write"
             ELSE "outcome")
  /\ UNCHANGED db

\* Mutant: outcome() locks the session before the File.
OrderAs == <<"session", "file">>

(* outcome(): the File row, then the session, both FOR SHARE.              *)
Order == <<"file", "session">>

OutcomeFirst(t) ==
  /\ At(t, "outcome") /\ Takes(t, Order[1])
  /\ Goto(t, "outcome2") /\ UNCHANGED db

Unambiguous(t) ==
  IF Op(t).state = "committed"
  THEN Status(t) = "completed" /\ File(t) = "live"
  ELSE Status(t) \in Active /\ File(t) = None

OutcomeSecond(t) ==
  /\ At(t, "outcome2") /\ Takes(t, Order[2]) /\ Unambiguous(t)
  /\ Goto(t, "write") /\ UNCHANGED db

(* guard_ssd_finalization_operation on UPDATE.                             *)
Allowed(t, o, n) ==
  \/ o.state = "assembling" /\ ~o.target /\ n = [o EXCEPT !.target = TRUE]
  \/ o.state = "verified" /\ ~o.mime /\ n = [o EXCEPT !.mime = TRUE]
  \/ /\ o.state = "committed" /\ ~o.cleaned /\ n = [o EXCEPT !.cleaned = TRUE]
     /\ n.target /\ File(t) = "live" /\ Status(t) = "completed"
  \/ /\ <<o.state, n.state>> \in JP!Follows \cup {<<"published", "committed">>}
     /\ n = [o EXCEPT !.state = n.state]
     /\ n.target /\ (n.state = "publishing" => n.mime)

WriteOp(t, n, l) ==
  /\ Allowed(t, Op(t), n)
  /\ Writes(t, [tx[t].own EXCEPT !.op = n], l) /\ UNCHANGED <<db, lock>>

RecordTarget(t) ==
  /\ Is(t, "recordTarget") /\ At(t, "write")
  /\ IF Op(t).target THEN Goto(t, "end") /\ UNCHANGED <<db, lock>>
     ELSE WriteOp(t, [Op(t) EXCEPT !.target = TRUE], "end")

RecordMimeType(t) ==
  /\ Is(t, "recordMimeType") /\ At(t, "write")
  /\ IF Op(t).mime THEN Goto(t, "end") /\ UNCHANGED <<db, lock>>
     ELSE WriteOp(t, [Op(t) EXCEPT !.mime = TRUE], "end")

Transition(t) ==
  /\ Is(t, "transition") /\ At(t, "write")
  /\ \E to \in {"verified", "publishing", "published"} :
       WriteOp(t, [Op(t) EXCEPT !.state = to], "end")

\* commit(): the operation, the File, the session.
CommitOp(t) ==
  /\ Is(t, "commit") /\ At(t, "write")
  /\ Op(t).mime /\ Status(t) \in Active /\ File(t) = None
  /\ WriteOp(t, [Op(t) EXCEPT !.state = "committed"], "file")

\* guard_ssd_reserved_file lets only the committed operation's File in.
CommitFile(t) ==
  /\ At(t, "file") /\ Takes(t, "session") /\ Op(t).state = "committed"
  /\ Writes(t, [tx[t].own EXCEPT !.file = "live"], "complete")
  /\ UNCHANGED db

\* guard_ssd_reserved_session lets only this update through.
Complete(t) ==
  /\ At(t, "complete") /\ Takes(t, "session")
  /\ Op(t).state = "committed" /\ Status(t) \in Active /\ File(t) = "live"
  /\ Writes(t, [tx[t].own EXCEPT !.status = "completed"], "end")
  /\ UNCHANGED db

\* finishCleanup(): the operation, then the chunk rows it no longer reserves.
CleanOp(t) ==
  /\ Is(t, "finishCleanup") /\ At(t, "write")
  /\ WriteOp(t, [Op(t) EXCEPT !.cleaned = TRUE], "purge")

PurgeRows(t) ==
  /\ At(t, "purge") /\ TakesSession(t) /\ ~Pending(Op(t))
  /\ Writes(t, [tx[t].own EXCEPT !.rec = NoChunkRows], "end")
  /\ UNCHANGED db

----------------------------------------------------------------------------
(* check_ssd_finalization_commit and check_ssd_mime_commit, at COMMIT.     *)
Deferred(t) ==
  tx[t].own.op # Unset =>
    /\ Op(t).state = "committed" /\ ~Op(t).cleaned =>
         File(t) = "live" /\ Status(t) = "completed"
    /\ Op(t).cleaned => Rec(t) = NoChunkRows

Ends(t) == At(t, "end") \/ (At(t, "run") /\ tx[t].n > 0)

Released(t) ==
  [r \in Tables |-> [s \in Sessions |->
     IF lock[r][s] = t THEN None ELSE lock[r][s]]]

CommitTx(t) ==
  /\ Ends(t) /\ Deferred(t)
  /\ op' = [op EXCEPT ![S(t)] = Op(t)] /\ rec' = [rec EXCEPT ![S(t)] = Rec(t)]
  /\ status' = [status EXCEPT ![S(t)] = Status(t)]
  /\ file' = [file EXCEPT ![S(t)] = File(t)]
  /\ lock' = Released(t) /\ tx' = [tx EXCEPT ![t] = Idle]

(* An error, a refusal, a lost connection, a crash.                        *)
Rollback(t) ==
  /\ ~At(t, "idle")
  /\ lock' = Released(t) /\ tx' = [tx EXCEPT ![t] = Idle]
  /\ UNCHANGED db

----------------------------------------------------------------------------
ServiceStep(t) ==
  \/ InsertSession(t) \/ DeleteSession(t) \/ InsertFile(t)
  \/ \E st \in Active \cup {"completed", "aborted"} : UpdateSession(t, st)
  \/ \E i \in Chunks, c \in Contents \cup {None} : WriteChunk(t, i, c)
  \/ TouchFile(t) \/ GuardFile(t)

StoreStep(t) ==
  \/ LockSession(t) \/ CheckManifest(t) \/ InsertOp(t) \/ SealManifest(t)
  \/ LockOp(t) \/ OutcomeFirst(t) \/ OutcomeSecond(t)
  \/ RecordTarget(t) \/ RecordMimeType(t) \/ Transition(t)
  \/ CommitOp(t) \/ CommitFile(t) \/ Complete(t) \/ CleanOp(t) \/ PurgeRows(t)

Next ==
  \E t \in Txs :
    \/ \E k \in Services \cup Store, s \in Sessions : Start(t, k, s)
    \/ ServiceStep(t) \/ StoreStep(t) \/ CommitTx(t) \/ Rollback(t)

Spec == Init /\ [][Next]_vars

----------------------------------------------------------------------------
(* The committed rows have the shape of the tables; a lock is held by a    *)
(* transaction of that session, and an idle transaction holds none.        *)
TypeOK ==
  /\ op \in [Sessions -> JP!Journal] /\ rec \in [Sessions -> ChunkRows]
  /\ status \in [Sessions -> {"none", "completed", "aborted"} \cup Active]
  /\ file \in [Sessions -> {None, "live", Deleted}]
  /\ \A r \in Tables, s \in Sessions :
       lock[r][s] # None => tx[lock[r][s]].s = s

(* Seen from the commits alone, with the statements of the transactions    *)
(* interleaved, triggers and store keep the promise: session, chunk rows   *)
(* and File of a pending operation change in the journal's own             *)
(* transactions only.                                                      *)
KeepsPromise == JP!Spec

(* In particular what is committed is never ambiguous: session and File of *)
(* a pending operation are what its state says, and there is one at a time *)
(* although two begin() lock no common row.                                *)
NeverAmbiguous == JP!NeverAmbiguous

(* The store's transactions and the triggers of everybody else take their  *)
(* locks in compatible orders: no set of transactions ever waits in a      *)
(* circle, which PostgreSQL would only break by failing one of them.       *)
WaitsFor(t) ==
  LET held(r) == IF Exists(t, r) THEN {lock[r][S(t)]} \ {None, t} ELSE {} IN
  CASE At(t, "lockSession") \/ At(t, "trigger") \/ At(t, "file")
       \/ At(t, "complete") \/ At(t, "purge") -> held("session")
    [] At(t, "lockOp") -> held("op")
    [] At(t, "outcome") -> held(Order[1])
    [] At(t, "outcome2") -> held(Order[2])
    [] At(t, "insert") -> Undecided(t)
    [] At(t, "run") -> IF Is(t, "file") THEN held("file") ELSE held("session")
    [] OTHER -> {}

NoLockCycle ==
  \A c \in (SUBSET Txs) \ {{}} : \E t \in c : WaitsFor(t) \cap c = {}
============================================================================
