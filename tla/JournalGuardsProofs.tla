------------------------- MODULE JournalGuardsProofs -------------------------
(***************************************************************************)
(* The finalization journal, for any number of transactions, sessions and  *)
(* statements.  First the promise alone (JournalPromise): a pending        *)
(* operation is never ambiguous, and a journal row is a receipt.  Then the *)
(* statements (JournalGuards): interleaved as they may be, they keep the   *)
(* promise, hence both, and no transactions wait in a circle.              *)
(***************************************************************************)
EXTENDS JournalGuards, TLAPS

----------------------------------------------------------------------------
(* The invariant of JournalGuards.                                         *)

Labels == {"idle", "run", "trigger", "lockSession", "check", "insert", "seal",
           "lockOp", "outcome", "outcome2", "write", "file", "complete",
           "purge", "end"}
Owns == [op: JP!Journal \cup {Unset}, rec: ChunkRows \cup {Unset},
         status: Statuses \cup {Unset}, file: Files \cup {Unset}]
Transactions ==
  [kind: Services \cup Store \cup {"none"}, s: Sessions \cup {None},
   pc: Labels, own: Owns, n: Nat]
Types ==
  /\ op \in [Sessions -> JP!Journal] /\ rec \in [Sessions -> ChunkRows]
  /\ status \in [Sessions -> Statuses] /\ file \in [Sessions -> Files]
  /\ lock \in [Tables -> [Sessions -> Txs \cup {None}]]
  /\ tx \in [Txs -> Transactions]

(* A transaction that runs has a session.                                  *)
Running(t) ==
  /\ At(t, "idle") <=> Is(t, "none")
  /\ ~At(t, "idle") => S(t) \in Sessions
  /\ At(t, "idle") => tx[t].own = Clear

(* A service of uploads has locked the session whose rows it wrote, and    *)
(* found nothing reserved there.                                           *)
GoodSession(t) ==
  Is(t, "session") =>
    /\ At(t, "run") /\ tx[t].own.op = Unset
    /\ tx[t].own.file \in {Unset, "live"}
    /\ tx[t].own # Clear => lock["session"][S(t)] = t /\ ~Pending(op[S(t)])

JustOp(o) == [op |-> o, rec |-> Unset, status |-> Unset, file |-> Unset]
JustFile(f) == [op |-> Unset, rec |-> Unset, status |-> Unset, file |-> f]

(* One of files has locked the File that it looked at.                     *)
GoodFile(t) ==
  Is(t, "file") =>
    /\ At(t, "run") \/ At(t, "trigger")
    /\ tx[t].own.file \in {Unset, Deleted}
    /\ tx[t].own = JustFile(tx[t].own.file)
    /\ At(t, "trigger") \/ tx[t].n > 0 =>
         lock["file"][S(t)] = t /\ file[S(t)] # None
    /\ tx[t].own.file # Unset <=> tx[t].n > 0
    /\ tx[t].own.file # Unset => ~Pending(op[S(t)])

Begun(man) == [state |-> "assembling", man |-> man, target |-> FALSE,
               mime |-> FALSE, cleaned |-> FALSE]
Sealed(t) == At(t, "seal") \/ At(t, "end")

(* begin() holds an active session without File or operation, and while it *)
(* inserts its operation no other one is pending.                          *)
GoodBegin(t) ==
  Is(t, "begin") =>
    /\ tx[t].pc \in {"lockSession", "check", "insert", "seal", "end"}
    /\ tx[t].own = JustOp(tx[t].own.op)
    /\ ~At(t, "lockSession") =>
         lock["session"][S(t)] = t /\ status[S(t)] \in Active
    /\ At(t, "insert") \/ Sealed(t) => file[S(t)] = None
    /\ Sealed(t) <=> tx[t].own.op # Unset
    /\ Sealed(t) =>
         /\ op[S(t)].state = "none" /\ \A s \in Sessions : ~Pending(op[s])
         /\ tx[t].own.op =
              Begun(IF At(t, "end") THEN rec[S(t)] ELSE NoChunkRows)

Methods == Store \ {"begin"}
Visits(k) ==
  CASE k \in {"recordTarget", "transition"} -> {}
    [] k = "recordMimeType" -> {"outcome", "outcome2"}
    [] k = "commit" -> {"outcome", "outcome2", "file", "complete"}
    [] k = "finishCleanup" -> {"outcome", "outcome2", "purge"}

(* What a method has written of its operation once it is past "write".     *)
Wrote(t) ==
  LET o == op[S(t)]
      n == tx[t].own.op
  IN
  CASE Is(t, "recordTarget") -> n \in {Unset, [o EXCEPT !.target = TRUE]}
    [] Is(t, "recordMimeType") -> n \in {Unset, [o EXCEPT !.mime = TRUE]}
    [] Is(t, "transition") ->
         /\ o.target
         /\ \E to \in {"verified", "publishing", "published"} :
              /\ n = [o EXCEPT !.state = to] /\ <<o.state, to>> \in JP!Follows
              /\ to = "publishing" => o.mime
    [] Is(t, "commit") -> n = [o EXCEPT !.state = "committed"]
    [] Is(t, "finishCleanup") -> n = [o EXCEPT !.cleaned = TRUE]

(* And of the other rows.                                                  *)
WroteRows(t) ==
  tx[t].own = [op |-> tx[t].own.op,
    rec |-> IF Is(t, "finishCleanup") /\ At(t, "end") THEN NoChunkRows
            ELSE Unset,
    status |-> IF Is(t, "commit") /\ At(t, "end") THEN "completed" ELSE Unset,
    file |-> IF Is(t, "commit") /\ tx[t].pc \in {"complete", "end"} THEN "live"
             ELSE Unset]

(* A method holds its operation, pending and in a state it wants.          *)
GoodMethod(t) ==
  tx[t].kind \in Methods =>
    /\ tx[t].pc \in {"lockOp", "write", "end"} \cup Visits(tx[t].kind)
    /\ ~At(t, "lockOp") =>
         /\ lock["op"][S(t)] = t
         /\ op[S(t)].state \in Wants(tx[t].kind) /\ ~op[S(t)].cleaned
    /\ tx[t].pc \in {"lockOp", "outcome", "outcome2", "write"} =>
         tx[t].own.op = Unset
    /\ tx[t].pc \in {"file", "complete", "purge", "end"} => Wrote(t)
    /\ WroteRows(t)
    /\ Is(t, "finishCleanup") /\ tx[t].pc \in {"write", "purge", "end"} =>
         lock["session"][S(t)] = t
    /\ Is(t, "commit") /\ At(t, "end") => lock["session"][S(t)] = t

Good(t) ==
  /\ Running(t) /\ GoodSession(t) /\ GoodFile(t) /\ GoodBegin(t)
  /\ GoodMethod(t)

(* Who holds a lock, of which session, and where.                          *)
Holder(r, s, t) ==
  /\ S(t) = s
  /\ r = "op" => tx[t].kind \in Methods /\ ~At(t, "lockOp")
  /\ r = "file" =>
       \/ Is(t, "file") /\ (At(t, "trigger") \/ tx[t].n > 0)
       \/ tx[t].pc \in {"outcome2", "write", "file", "complete", "purge",
                        "end"}
  /\ r = "session" =>
       \/ Is(t, "session") \/ (Is(t, "file") /\ At(t, "run") /\ tx[t].n > 0)
       \/ tx[t].pc \in {"check", "insert", "seal", "end", "write", "file",
                        "complete", "purge"}

Held == \A r \in Tables, s \in Sessions :
          lock[r][s] # None => Holder(r, s, lock[r][s])

(* Of the transactions that insert an operation there is one at a time.    *)
OneBegins ==
  \A t, u \in Txs : Is(t, "begin") /\ Is(u, "begin")
                    /\ Sealed(t) /\ Sealed(u) => t = u

IInv ==
  /\ Types /\ Held /\ OneBegins /\ JP!OneAtATime(op)
  /\ \A t \in Txs : Good(t)
----------------------------------------------------------------------------
(* How a statement changes its transaction, and nobody else's.             *)
LEMMA GotoFacts ==
  ASSUME Types, NEW t \in Txs, NEW l \in Labels, Goto(t, l)
  PROVE  /\ tx' \in [Txs -> Transactions]
         /\ tx'[t] = [kind |-> tx[t].kind, s |-> S(t), pc |-> l,
                      own |-> tx[t].own, n |-> tx[t].n]
         /\ \A u \in Txs \ {t} : tx'[u] = tx[u]
BY DEF Types, Goto, Transactions, S

(* A statement moves its transaction on, and no other one.                 *)
LEMMA WritesFacts ==
  ASSUME Types, NEW t \in Txs, NEW l \in Labels, NEW own \in Owns,
         Writes(t, own, l)
  PROVE  /\ tx' \in [Txs -> Transactions]
         /\ tx'[t] = [kind |-> tx[t].kind, s |-> S(t), pc |-> l,
                      own |-> own, n |-> tx[t].n]
         /\ \A u \in Txs \ {t} : tx'[u] = tx[u]
BY ZenonT(90) DEF Types, Writes, Transactions, S

(* Another statement of a service begins, and nothing else.                *)
LEMMA AgainFacts ==
  ASSUME Types, NEW t \in Txs, NEW own \in Owns, Again(t, own)
  PROVE  /\ tx' \in [Txs -> Transactions]
         /\ tx'[t] = [kind |-> tx[t].kind, s |-> S(t), pc |-> "run",
                      own |-> own, n |-> tx[t].n + 1]
         /\ \A u \in Txs \ {t} : tx'[u] = tx[u]
<1>1. tx[t] \in Transactions /\ "run" \in Labels
  BY DEF Types, Labels
<1>2. tx' = [tx EXCEPT ![t] = [kind |-> tx[t].kind, s |-> S(t), pc |-> "run",
                               own |-> own, n |-> tx[t].n + 1]]
  BY <1>1 DEF Again, Types, Transactions, S
<1> QED
  BY <1>1, <1>2 DEF Types, Transactions, S

(* And the locks: it takes one that is free.                               *)
LEMMA TakesFacts ==
  ASSUME Types, DistinctValues, NEW t \in Txs, NEW r \in Tables,
         S(t) \in Sessions, Takes(t, r)
  PROVE  /\ lock' \in [Tables -> [Sessions -> Txs \cup {None}]]
         /\ lock[r][S(t)] \in {None, t}
         /\ Exists(t, r) => lock'[r][S(t)] = t
         /\ \A q \in Tables, s \in Sessions :
              lock'[q][s] # lock[q][s] =>
                /\ q = r /\ s = S(t)
                /\ lock'[q][s] = t /\ lock[q][s] = None
BY DEF Types, Takes, Free, Locks

----------------------------------------------------------------------------
(* What a step of t, that is no COMMIT, has to keep: its own part.         *)
StepOf(t) ==
  /\ UNCHANGED db /\ Types' /\ Good(t)'
  /\ \A u \in Txs \ {t} : tx'[u] = tx[u]
  /\ \A q \in Tables, s \in Sessions :
       /\ \/ lock'[q][s] = lock[q][s]
          \/ lock[q][s] = None /\ lock'[q][s] = t
          \/ lock[q][s] = t /\ lock'[q][s] = None
       /\ lock'[q][s] = t => Holder(q, s, t)'
  /\ (Is(t, "begin") /\ Sealed(t))' =>
       \/ Is(t, "begin") /\ Sealed(t)
       \/ Undecided(t) = {}

(* The part of a transaction that did not move, and kept its locks, holds. *)
LEMMA OtherGood ==
  ASSUME Types, NEW u \in Txs, Good(u), UNCHANGED db, tx'[u] = tx[u],
         \A q \in Tables, s \in Sessions : lock[q][s] = u => lock'[q][s] = u
  PROVE  Good(u)'
<1>1. /\ S(u)' = S(u)
      /\ \A l : (At(u, l)' <=> At(u, l)) /\ (Is(u, l)' <=> Is(u, l))
  BY DEF S, At, Is
<1>2. Running(u)'
  BY <1>1 DEF Good, Running
<1>3. S(u) \in Sessions \/ Is(u, "none")
  BY DEF Good, Running
<1> USE DEF db, Tables
<1>4. GoodSession(u)'
  BY <1>1, <1>3 DEF Good, GoodSession, Is, Pending
<1>5. GoodFile(u)'
  BY <1>1, <1>3 DEF Good, GoodFile, Is, Pending
<1>6. GoodBegin(u)'
  BY <1>1, <1>3 DEF Good, GoodBegin, Sealed, Is, At, Pending
<1>7. GoodMethod(u)'
  <2>1. Wrote(u)' <=> Wrote(u)
    BY <1>1 DEF Wrote, S, Is
  <2>2. WroteRows(u)' <=> WroteRows(u)
    BY <1>1 DEF WroteRows
  <2>3. tx[u].kind \in Methods => S(u) \in Sessions
    BY <1>3 DEF Methods, Store, Is
  <2> QED
    BY <1>1, <2>1, <2>2, <2>3 DEF Good, GoodMethod, Is, At
<1> QED
  BY <1>2, <1>4, <1>5, <1>6, <1>7 DEF Good

(* A step of a transaction that is no COMMIT keeps the invariant.          *)
LEMMA StepKeeps ==
  ASSUME IInv, DistinctValues, NEW t \in Txs, StepOf(t)
  PROVE  IInv'
<1>1. \A u \in Txs : Good(u)'
  <2>1. ASSUME NEW u \in Txs \ {t} PROVE Good(u)'
    <3>1. \A q \in Tables, s \in Sessions : lock[q][s] = u => lock'[q][s] = u
      BY DEF StepOf, DistinctValues
    <3> QED
      BY <3>1, OtherGood DEF IInv, StepOf
  <2>2. ASSUME NEW u \in Txs PROVE Good(u)'
    <3>1. CASE u = t
      BY <3>1 DEF StepOf
    <3>2. CASE u # t
      BY <2>1, <3>2
    <3> QED BY <3>1, <3>2
  <2> QED BY <2>2
<1>2. Held'
  <2>1. SUFFICES ASSUME NEW r \in Tables, NEW s \in Sessions, lock'[r][s] # None
                 PROVE  Holder(r, s, lock[r][s])'
    BY DEF Held
  <2>2. CASE lock'[r][s] = t
    BY <2>2 DEF StepOf, Holder, S, At, Is
  <2>3. CASE lock'[r][s] # t
    <3>1. lock'[r][s] = lock[r][s]
      BY <2>1, <2>3 DEF StepOf
    <3>2. PICK u \in Txs \ {t} : u = lock[r][s]
      BY <2>1, <2>3, <3>1 DEF IInv, Types
    <3>3. Holder(r, s, u) /\ tx'[u] = tx[u]
      BY <2>1, <3>1, <3>2 DEF IInv, Held, StepOf
    <3> QED
      BY <3>1, <3>2, <3>3 DEF Holder, S, At, Is
  <2> QED BY <2>2, <2>3
<1>3. OneBegins'
  <2>1. \A u \in Txs \ {t} : Is(u, "begin") /\ Sealed(u) =>
          Undecided(t) # {}
    BY DEF Undecided, IInv, Good, GoodBegin, Is
  <2>2. \A u \in Txs \ {t} : (Is(u, "begin") /\ Sealed(u))' <=>
                             Is(u, "begin") /\ Sealed(u)
    BY DEF StepOf, Is, Sealed, At
  <2> QED
    BY <2>1, <2>2 DEF IInv, OneBegins, StepOf
<1>4. JP!OneAtATime(op)'
  BY DEF IInv, StepOf, db, JP!OneAtATime
<1> QED
  BY <1>1, <1>2, <1>3, <1>4 DEF IInv, StepOf

(* A transaction that is idle holds nothing.                               *)
LEMMA IdleHoldsNothing ==
  ASSUME IInv, NEW t \in Txs, DistinctValues, At(t, "idle"),
         NEW r \in Tables, NEW s \in Sessions
  PROVE  lock[r][s] # t
<1>1. Is(t, "none") /\ ~Holder(r, s, t)
  BY DEF IInv, Good, Running, Holder, At, Is, Methods, Store, Tables
<1> QED
  BY <1>1 DEF IInv, Held, DistinctValues

(* A transaction begins with no locks and with nothing written.            *)
LEMMA StartStep ==
  ASSUME IInv, DistinctValues, NEW t \in Txs,
         NEW k \in Services \cup Store, NEW s \in Sessions, Start(t, k, s)
  PROVE  StepOf(t)
<1>2. First(k) \in Labels /\ Clear \in Owns /\ First(k) # "idle"
      /\ (k \in Services => First(k) = "run")
      /\ (k = "begin" => First(k) = "lockSession")
      /\ (k \in Methods => First(k) = "lockOp")
  BY DEF First, Services, Store, Methods, Labels, Clear, Owns
<1>0. Idle \in Transactions /\ Idle.own = Clear /\ Idle.n = 0
  BY <1>2 DEF Idle, Transactions, Labels
<1>1. /\ At(t, "idle") /\ UNCHANGED <<db, lock>>
      /\ tx' = [tx EXCEPT ![t] = [kind |-> k, s |-> s, pc |-> First(k),
                                  own |-> Clear, n |-> 0]]
  <2>1. ASSUME NEW r \in Transactions, NEW l \in Labels, NEW x,
               x = [r EXCEPT !.kind = k, !.s = s, !.pc = l]
        PROVE  x = [kind |-> k, s |-> s, pc |-> l, own |-> r.own, n |-> r.n]
    BY <2>1 DEF Transactions
  <2> QED BY <1>0, <1>2, <2>1 DEF Start
<1>3. Types' /\ \A u \in Txs \ {t} : tx'[u] = tx[u]
  BY <1>1, <1>2 DEF IInv, Types, Transactions, db
<1>4. /\ tx'[t].kind = k /\ tx'[t].s = s /\ tx'[t].pc = First(k)
      /\ tx'[t].own = Clear /\ tx'[t].n = 0
  BY <1>1 DEF IInv, Types
<1>5. /\ Clear.op = Unset /\ Clear.file = Unset
      /\ Clear = JustOp(Unset) /\ Clear = JustFile(Unset)
  BY DEF Clear, JustOp, JustFile
<1>6. k # "none" /\ k \in Services \cup {"begin"} \cup Methods
  BY DEF Services, Store, Methods
<1>7. Running(t)'
  BY <1>2, <1>4, <1>6 DEF Running, At, Is, S
<1>8. GoodSession(t)' /\ GoodFile(t)'
  BY <1>2, <1>4, <1>5 DEF GoodSession, GoodFile, At, Is, S, Services
<1>9. GoodBegin(t)'
  BY <1>2, <1>4, <1>5 DEF GoodBegin, Sealed, At, Is, S
<1>10. GoodMethod(t)'
  <2>1. WroteRows(t)'
    BY <1>2, <1>4, <1>6 DEF WroteRows, At, Is, Clear, Services, Methods, Store
  <2> QED
    BY <1>2, <1>4, <1>5, <2>1 DEF GoodMethod, At, Is, Methods, Store
<1>11. \A q \in Tables, z \in Sessions : lock'[q][z] # t
  BY <1>1, IdleHoldsNothing
<1>12. ~(Is(t, "begin") /\ Sealed(t))'
  BY <1>2, <1>4 DEF Is, Sealed, At
<1> QED
  BY <1>1, <1>3, <1>7, <1>8, <1>9, <1>10, <1>11, <1>12 DEF StepOf, Good

----------------------------------------------------------------------------
(* The services.                                                           *)
LEMMA SessionWrite ==
  ASSUME IInv, DistinctValues, NEW t \in Txs, NEW own \in Owns,
         Ready(t, "session"), own.op = Unset, own.file \in {Unset, "live"},
         Again(t, own),
         ~Pending(Op(t)), UNCHANGED db,
         lock' \in [Tables -> [Sessions -> Txs \cup {None}]],
         lock'["session"][S(t)] = t,
         \A q \in Tables, z \in Sessions :
           lock'[q][z] # lock[q][z] =>
             q = "session" /\ z = S(t) /\ lock'[q][z] = t /\ lock[q][z] = None
  PROVE  StepOf(t)
<1>1. /\ Is(t, "session") /\ At(t, "run") /\ S(t) \in Sessions
      /\ tx[t].own.op = Unset /\ ~Pending(op[S(t)])
  BY DEF Ready, IInv, Good, GoodSession, Running, At, Is, Op, Seen
<1>2. /\ tx' \in [Txs -> Transactions]
      /\ tx'[t] = [kind |-> tx[t].kind, s |-> S(t), pc |-> "run",
                   own |-> own, n |-> tx[t].n + 1]
      /\ \A u \in Txs \ {t} : tx'[u] = tx[u]
  BY AgainFacts DEF IInv
<1>3. Types'
  BY <1>2 DEF IInv, Types, db
<1>4. /\ tx'[t].kind = "session" /\ tx'[t].s = S(t) /\ tx'[t].pc = "run"
      /\ tx'[t].own = own
  BY <1>1, <1>2 DEF Is
<1>5. Running(t)' /\ GoodSession(t)'
  BY <1>1, <1>4 DEF Running, GoodSession, At, Is, S, Pending, db
<1>6. GoodFile(t)' /\ GoodBegin(t)' /\ GoodMethod(t)'
  BY <1>4 DEF GoodFile, GoodBegin, GoodMethod, Is, Methods, Store
<1>7. ASSUME NEW q \in Tables, NEW z \in Sessions, lock'[q][z] = t
      PROVE  Holder(q, z, t)'
  <2>1. q = "session" /\ z = S(t)
    <3>1. CASE lock[q][z] = t
      <4>1. Holder(q, z, t)
        BY <3>1 DEF IInv, Held, DistinctValues
      <4> QED
        BY <1>1, <4>1 DEF Holder, Tables, Methods, Store, Is, At
    <3>2. CASE lock[q][z] # t
      BY <1>7, <3>2
    <3> QED BY <3>1, <3>2
  <2> QED
    BY <1>4, <2>1 DEF Holder, S, Is
<1>8. ~(Is(t, "begin") /\ Sealed(t))'
  BY <1>4 DEF Is
<1> QED
  BY <1>2, <1>3, <1>5, <1>6, <1>7, <1>8 DEF StepOf, Good

(* The statements on sessions and chunks, and the File of an upload.       *)
LEMMA SessionSteps ==
  ASSUME IInv, DistinctValues, NEW t \in Txs,
         \/ InsertSession(t) \/ DeleteSession(t) \/ InsertFile(t)
         \/ \E st \in Active \cup {"completed", "aborted"} :
              UpdateSession(t, st)
         \/ \E i \in Chunks, c \in Contents \cup {None} : WriteChunk(t, i, c)
  PROVE  StepOf(t)
<1>1. /\ Ready(t, "session") /\ ~Pending(Op(t)) /\ UNCHANGED db
  BY DEF InsertSession, DeleteSession, InsertFile, UpdateSession, WriteChunk
<1>2. /\ S(t) \in Sessions /\ tx[t].own \in Owns /\ tx[t].own.op = Unset
      /\ tx[t].own.file \in {Unset, "live"} /\ "session" \in Tables
  BY <1>1
  DEF Ready, IInv, Good, GoodSession, Running, At, Is, Types, Transactions,
      Tables
<1>3. Rec(t) \in ChunkRows
  BY <1>2 DEF Rec, Seen, Owns, IInv, Types
<1>4. \E own \in Owns : /\ own.op = Unset /\ own.file \in {Unset, "live"}
                        /\ Again(t, own)
  <2>1. CASE InsertSession(t)
    BY <1>2, <2>1 DEF InsertSession, Owns, Statuses
  <2>2. CASE DeleteSession(t)
    BY <1>2, <2>2 DEF DeleteSession, Owns, Statuses, NoChunkRows, ChunkRows
  <2>3. CASE InsertFile(t)
    BY <1>2, <2>3 DEF InsertFile, Owns, Files
  <2>4. ASSUME NEW st \in Active \cup {"completed", "aborted"},
               UpdateSession(t, st)
        PROVE  \E own \in Owns : /\ own.op = Unset /\ Again(t, own)
                                   /\ own.file \in {Unset, "live"}
    BY <1>2, <2>4 DEF UpdateSession, Owns, Statuses
  <2>5. ASSUME NEW i \in Chunks, NEW c \in Contents \cup {None},
               WriteChunk(t, i, c)
        PROVE  \E own \in Owns : /\ own.op = Unset /\ Again(t, own)
                                   /\ own.file \in {Unset, "live"}
    <3>1. [Rec(t) EXCEPT ![i] = c] \in ChunkRows
      BY <1>3 DEF ChunkRows
    <3> QED
      BY <1>2, <2>5, <3>1 DEF WriteChunk, Owns
  <2> QED BY <2>1, <2>2, <2>3, <2>4, <2>5
<1>5. /\ lock' \in [Tables -> [Sessions -> Txs \cup {None}]]
      /\ lock'["session"][S(t)] = t
      /\ \A q \in Tables, z \in Sessions :
           lock'[q][z] # lock[q][z] =>
             q = "session" /\ z = S(t) /\ lock'[q][z] = t /\ lock[q][z] = None
  <2>1. CASE InsertSession(t)
    BY <1>2, <2>1 DEF InsertSession, Free, IInv, Types
  <2>2. CASE Takes(t, "session") /\ Exists(t, "session")
    BY <1>2, <2>2, TakesFacts DEF IInv
  <2> QED
    BY <2>1, <2>2
    DEF DeleteSession, InsertFile, UpdateSession, WriteChunk, TakesSession
<1> QED
  BY <1>1, <1>4, <1>5, SessionWrite

(* A step that only moves t on, with the locks it takes: what is left to   *)
(* show of it.                                                             *)
LEMMA MoveOn ==
  ASSUME IInv, DistinctValues, NEW t \in Txs, ~At(t, "idle"), UNCHANGED db,
         tx' \in [Txs -> Transactions],
         \A u \in Txs \ {t} : tx'[u] = tx[u],
         tx'[t].kind = tx[t].kind, tx'[t].s = S(t), tx'[t].pc # "idle",
         \/ lock' = lock
         \/ \E r \in Tables : Takes(t, r) /\ Holder(r, S(t), t)',
         \A q \in Tables : Holder(q, S(t), t) => Holder(q, S(t), t)',
         \/ tx'[t].kind \notin {"session", "file", "begin"} /\ GoodMethod(t)'
         \/ tx'[t].kind = "begin" /\ GoodBegin(t)'
            /\ (Sealed(t)' => Sealed(t) \/ Undecided(t) = {})
         \/ tx'[t].kind = "file" /\ GoodFile(t)'
  PROVE  StepOf(t)
<1>1. S(t) \in Sessions /\ ~Is(t, "none")
  BY DEF IInv, Good, Running
<1>2. /\ lock' \in [Tables -> [Sessions -> Txs \cup {None}]]
      /\ \A q \in Tables, z \in Sessions :
           lock'[q][z] # lock[q][z] =>
             /\ z = S(t) /\ lock'[q][z] = t /\ lock[q][z] = None
             /\ Holder(q, S(t), t)'
  <2>1. CASE lock' = lock
    BY <2>1 DEF IInv, Types
  <2>2. ASSUME NEW r \in Tables, Takes(t, r), Holder(r, S(t), t)'
        PROVE  <1>2!1 /\ <1>2!2
    BY <1>1, <2>2, TakesFacts DEF IInv
  <2> QED BY <2>1, <2>2
<1>3. Types'
  BY <1>2 DEF IInv, Types, db
<1>4. Running(t)'
  BY <1>1 DEF Running, At, Is, S
<1>5. /\ tx'[t].kind # "session" => GoodSession(t)'
      /\ tx'[t].kind # "file" => GoodFile(t)'
      /\ tx'[t].kind # "begin" => GoodBegin(t)' /\ ~Is(t, "begin")'
      /\ tx'[t].kind \notin Methods => GoodMethod(t)'
  BY DEF GoodSession, GoodFile, GoodBegin, GoodMethod, Is
<1>6. Good(t)'
  BY <1>4, <1>5 DEF Good, Methods, Store
<1>7. ASSUME NEW q \in Tables, NEW z \in Sessions, lock'[q][z] = t
      PROVE  Holder(q, z, t)'
  <2>1. z = S(t) /\ Holder(q, S(t), t)'
    <3>1. CASE lock[q][z] = t
      <4>1. Holder(q, z, t)
        BY <3>1 DEF IInv, Held, DistinctValues
      <4>2. z = S(t)
        BY <4>1 DEF Holder
      <4> QED
        BY <4>1, <4>2
    <3>2. CASE lock[q][z] # t
      BY <1>2, <1>7, <3>2
    <3> QED BY <3>1, <3>2
  <2> QED
    BY <2>1 DEF Holder, S, Is, At
<1>8. (Is(t, "begin") /\ Sealed(t))' =>
        \/ Is(t, "begin") /\ Sealed(t)
        \/ Undecided(t) = {}
  BY DEF Is
<1> QED
  BY <1>2, <1>3, <1>6, <1>7, <1>8 DEF StepOf

(* The statements on a File.                                               *)
LEMMA TouchFileStep ==
  ASSUME IInv, DistinctValues, NEW t \in Txs, TouchFile(t)
  PROVE  StepOf(t)
<1>1. /\ Is(t, "file") /\ At(t, "run") /\ S(t) \in Sessions /\ UNCHANGED db
      /\ "trigger" \in Labels /\ "file" \in Tables /\ Takes(t, "file")
      /\ Exists(t, "file") /\ Goto(t, "trigger") /\ tx[t] \in Transactions
  BY DEF TouchFile, Ready, IInv, Good, Running, At, Is, Labels, Tables, Types
<1>2. /\ tx' \in [Txs -> Transactions] /\ \A u \in Txs \ {t} : tx'[u] = tx[u]
      /\ tx'[t].kind = "file" /\ tx'[t].s = S(t) /\ tx'[t].pc = "trigger"
      /\ tx'[t].own = tx[t].own /\ tx'[t].n = tx[t].n
  <2>1. /\ tx' \in [Txs -> Transactions]
        /\ \A u \in Txs \ {t} : tx'[u] = tx[u]
        /\ tx'[t] = [kind |-> tx[t].kind, s |-> S(t), pc |-> "trigger",
                     own |-> tx[t].own, n |-> tx[t].n]
    BY <1>1, GotoFacts DEF IInv
  <2> QED BY <1>1, <2>1 DEF Is
<1>3. lock'["file"][S(t)] = t
  BY <1>1, TakesFacts DEF IInv
<1>4. File(t) = "live"
  BY <1>1 DEF Exists
<1>5. file[S(t)] # None /\ tx[t].own.file = Unset /\ ~(tx[t].n > 0)
  BY <1>1, <1>4
  DEF File, Seen, IInv, Good, GoodFile, DistinctValues
<1>6. GoodFile(t)'
  BY <1>1, <1>2, <1>3, <1>5
  DEF IInv, Good, GoodFile, Is, At, S, Pending, db
<1>7. \A q \in Tables : Holder(q, S(t), t) \/ q = "file" =>
                        Holder(q, S(t), t)'
  <2>1. ~Holder("op", S(t), t)
    BY <1>1 DEF Holder, Is, Methods, Store
  <2>2. Holder("file", S(t), t)'
    BY <1>2 DEF Holder, S, At, Is
  <2>3. Holder("session", S(t), t) => Holder("session", S(t), t)'
    BY <1>1, <1>5 DEF Holder, S, At, Is
  <2> QED BY <2>1, <2>2, <2>3 DEF Tables
<1> QED
  BY <1>1, <1>2, <1>6, <1>7, MoveOn DEF At, Is

(* Where each kind of transaction can be.                                  *)
LEMMA Places ==
  ASSUME IInv, NEW t \in Txs
  PROVE  /\ At(t, "trigger") => Is(t, "file")
         /\ tx[t].pc \in {"lockSession", "check", "insert", "seal"} =>
              Is(t, "begin")
         /\ tx[t].pc \in {"lockOp", "outcome", "outcome2", "write", "file",
                          "complete", "purge"} => tx[t].kind \in Methods
         /\ tx[t].pc \in {"file", "complete"} => Is(t, "commit")
         /\ At(t, "purge") => Is(t, "finishCleanup")
         /\ At(t, "end") => tx[t].kind \in Methods \cup {"begin"}
         /\ At(t, "run") => Is(t, "session") \/ Is(t, "file")
         /\ ~At(t, "idle") => S(t) \in Sessions
         /\ tx[t] \in Transactions
<1>1. tx[t] \in Transactions /\ Good(t)
  BY DEF IInv, Types
<1>2. tx[t].kind \in {"none", "session", "file", "begin"} \cup Methods
  BY <1>1 DEF Transactions, Services, Methods, Store
<1>3. ~At(t, "idle") => S(t) \in Sessions
  BY <1>1 DEF Good, Running
<1>4. Is(t, "none") => tx[t].pc = "idle"
  BY <1>1 DEF Good, Running, At
<1>5. Is(t, "session") => tx[t].pc = "run"
  BY <1>1 DEF Good, GoodSession, At
<1>6. Is(t, "file") => tx[t].pc \in {"run", "trigger"}
  BY <1>1 DEF Good, GoodFile, At
<1>7. Is(t, "begin") =>
        tx[t].pc \in {"lockSession", "check", "insert", "seal", "end"}
  BY <1>1 DEF Good, GoodBegin
<1>8. tx[t].kind \in Methods =>
        tx[t].pc \in {"lockOp", "write", "end"} \cup Visits(tx[t].kind)
  BY <1>1 DEF Good, GoodMethod
<1>9. tx[t].kind \in Methods =>
        /\ tx[t].pc \in {"lockOp", "write", "end", "outcome", "outcome2",
                         "file", "complete", "purge"}
        /\ tx[t].pc \in {"file", "complete"} => Is(t, "commit")
        /\ tx[t].pc = "purge" => Is(t, "finishCleanup")
  BY <1>8 DEF Methods, Store, Visits, Is
<1> QED
  BY <1>1, <1>2, <1>3, <1>4, <1>5, <1>6, <1>7, <1>9 DEF Is, At

(* A service looks at the File only under the lock on it.                  *)
LEMMA GuardFileStep ==
  ASSUME IInv, DistinctValues, NEW t \in Txs, GuardFile(t)
  PROVE  StepOf(t)
<1>1. /\ Is(t, "file") /\ At(t, "trigger") /\ S(t) \in Sessions
      /\ UNCHANGED db /\ Takes(t, "session") /\ ~Pending(Op(t))
      /\ Again(t, [tx[t].own EXCEPT !.file = Deleted])
      /\ tx[t] \in Transactions /\ "session" \in Tables
  BY Places DEF GuardFile, Tables, At
<1>2. /\ tx[t].own \in Owns /\ tx[t].own = JustFile(tx[t].own.file)
      /\ lock["file"][S(t)] = t /\ file[S(t)] # None /\ "file" \in Tables
      /\ tx[t].n \in Nat
  BY <1>1 DEF IInv, Good, GoodFile, Transactions, Tables
<1>3. [tx[t].own EXCEPT !.file = Deleted] \in Owns
  BY <1>2 DEF Owns, Files
<1>4. /\ tx' \in [Txs -> Transactions]
      /\ tx'[t] = [kind |-> tx[t].kind, s |-> S(t), pc |-> "run",
                   own |-> [tx[t].own EXCEPT !.file = Deleted],
                   n |-> tx[t].n + 1]
      /\ \A u \in Txs \ {t} : tx'[u] = tx[u]
  BY <1>1, <1>3, AgainFacts DEF IInv
<1>5. /\ tx'[t].kind = "file" /\ tx'[t].s = S(t) /\ tx'[t].pc = "run"
      /\ tx'[t].own = [tx[t].own EXCEPT !.file = Deleted]
      /\ tx'[t].n = tx[t].n + 1
  BY <1>1, <1>4 DEF Is
<1>6. tx'[t].own = JustFile(Deleted) /\ tx'[t].own.file = Deleted
  <2>1. ASSUME NEW x, x = [tx[t].own EXCEPT !.file = Deleted]
        PROVE  /\ x = [op |-> tx[t].own.op, rec |-> tx[t].own.rec,
                       status |-> tx[t].own.status, file |-> Deleted]
    BY <1>2, <2>1 DEF Owns
  <2>2. /\ tx[t].own.op = Unset /\ tx[t].own.rec = Unset
        /\ tx[t].own.status = Unset
    BY <1>2 DEF JustFile
  <2> QED
    BY <1>5, <2>1, <2>2 DEF JustFile
<1>7. ~Pending(op[S(t)]) /\ tx'[t].n > 0 /\ Deleted # Unset
  <2>1. tx[t].own.op = Unset
    BY <1>2 DEF JustFile
  <2> QED
    BY <1>1, <1>2, <1>5, <2>1 DEF Op, Seen, DistinctValues, Files
<1>8. lock'["file"][S(t)] = t
  BY <1>1, <1>2, TakesFacts DEF IInv, DistinctValues
<1>9. GoodFile(t)'
  BY <1>1, <1>2, <1>5, <1>6, <1>7, <1>8 DEF GoodFile, Is, At, S, Pending, db
<1>10. \A q \in Tables : Holder(q, S(t), t) \/ q = "session" =>
                         Holder(q, S(t), t)'
  <2>1. ~Holder("op", S(t), t)
    BY <1>1 DEF Holder, Is, Methods, Store
  <2>2. Holder("file", S(t), t)' /\ Holder("session", S(t), t)'
    BY <1>5, <1>7 DEF Holder, S, At, Is
  <2> QED BY <2>1, <2>2 DEF Tables
<1>11. ~At(t, "idle")
  BY <1>1 DEF At
<1> QED
  BY <1>1, <1>4, <1>5, <1>9, <1>10, <1>11, MoveOn

(* What Goto and Writes come to.                                           *)
LEMMA GotoParts ==
  ASSUME IInv, NEW t \in Txs, NEW l \in Labels, Goto(t, l)
  PROVE  /\ tx' \in [Txs -> Transactions]
         /\ \A u \in Txs \ {t} : tx'[u] = tx[u]
         /\ tx'[t].kind = tx[t].kind /\ tx'[t].s = S(t) /\ tx'[t].pc = l
         /\ tx'[t].own = tx[t].own /\ tx'[t].n = tx[t].n
<1>1. /\ tx' \in [Txs -> Transactions]
      /\ tx'[t] = [kind |-> tx[t].kind, s |-> S(t), pc |-> l,
                   own |-> tx[t].own, n |-> tx[t].n]
      /\ \A u \in Txs \ {t} : tx'[u] = tx[u]
  BY GotoFacts DEF IInv
<1> QED
  BY <1>1

(* What a statement leaves of its transaction.                             *)
LEMMA WritesParts ==
  ASSUME IInv, NEW t \in Txs, NEW l \in Labels, NEW own \in Owns,
         Writes(t, own, l)
  PROVE  /\ tx' \in [Txs -> Transactions]
         /\ \A u \in Txs \ {t} : tx'[u] = tx[u]
         /\ tx'[t].kind = tx[t].kind /\ tx'[t].s = S(t) /\ tx'[t].pc = l
         /\ tx'[t].own = own /\ tx'[t].n = tx[t].n
<1>1. /\ tx' \in [Txs -> Transactions]
      /\ tx'[t] = [kind |-> tx[t].kind, s |-> S(t), pc |-> l,
                   own |-> own, n |-> tx[t].n]
      /\ \A u \in Txs \ {t} : tx'[u] = tx[u]
  BY WritesFacts DEF IInv
<1> QED
  BY <1>1

----------------------------------------------------------------------------
(* begin().                                                                *)
LEMMA BeginPlace ==
  ASSUME IInv, DistinctValues, NEW t \in Txs,
         tx[t].pc \in {"lockSession", "check", "insert", "seal"}
  PROVE  /\ Is(t, "begin") /\ S(t) \in Sessions /\ ~At(t, "idle")
         /\ GoodBegin(t) /\ tx[t].own \in Owns
         /\ tx[t].own = JustOp(tx[t].own.op)
         /\ Status(t) = status[S(t)] /\ File(t) = file[S(t)]
         /\ Rec(t) = rec[S(t)]
<1>1. /\ Is(t, "begin") /\ S(t) \in Sessions /\ ~At(t, "idle")
      /\ GoodBegin(t) /\ tx[t].own \in Owns
  BY Places DEF At, IInv, Good, Transactions
<1>2. tx[t].own = JustOp(tx[t].own.op)
  BY <1>1 DEF GoodBegin
<1>3. /\ tx[t].own.status = Unset /\ tx[t].own.file = Unset
      /\ tx[t].own.rec = Unset
  BY <1>2 DEF JustOp
<1> QED
  BY <1>1, <1>2, <1>3 DEF Status, File, Rec, Seen

(* What is left to show of a statement of begin().                         *)
LEMMA BeginMoves ==
  ASSUME IInv, DistinctValues, NEW t \in Txs,
         tx[t].pc \in {"lockSession", "check", "insert", "seal"},
         UNCHANGED db, tx' \in [Txs -> Transactions],
         \A u \in Txs \ {t} : tx'[u] = tx[u],
         tx'[t].kind = tx[t].kind, tx'[t].s = S(t),
         tx'[t].pc \in {"check", "insert", "seal", "end"},
         lock' = lock \/ Takes(t, "session"),
         GoodBegin(t)',
         Sealed(t)' => Sealed(t) \/ Undecided(t) = {}
  PROVE  StepOf(t)
<1>1. Is(t, "begin") /\ S(t) \in Sessions /\ ~At(t, "idle")
  BY BeginPlace
<1>2. Holder("session", S(t), t)'
  BY DEF Holder, S, At, Is
<1>3. ASSUME NEW q \in Tables, Holder(q, S(t), t) PROVE Holder(q, S(t), t)'
  <2>1. q = "session"
    BY <1>1, <1>3 DEF Holder, Is, At, Tables, Methods, Store
  <2> QED
    BY <1>2, <2>1
<1>4. tx'[t].kind = "begin"
  BY <1>1 DEF Is
<1>5. lock' = lock \/ \E r \in Tables : Takes(t, r) /\ Holder(r, S(t), t)'
  BY <1>2 DEF Tables
<1>6. tx'[t].pc # "idle"
  OBVIOUS
<1> HIDE DEF Undecided
<1> QED
  BY <1>1, <1>3, <1>4, <1>5, <1>6, MoveOn

(* begin() locks the session, or gives up.                                 *)
LEMMA LockSessionStep ==
  ASSUME IInv, DistinctValues, NEW t \in Txs, LockSession(t)
  PROVE  StepOf(t)
<1>1. /\ tx[t].pc = "lockSession" /\ Status(t) \in Active
      /\ Takes(t, "session") /\ Goto(t, "check") /\ UNCHANGED db
      /\ "check" \in Labels /\ "session" \in Tables
  BY DEF LockSession, LocksSession, At, Labels, Tables
<1>2. /\ Is(t, "begin") /\ S(t) \in Sessions /\ GoodBegin(t)
      /\ tx[t].own = JustOp(tx[t].own.op) /\ status[S(t)] \in Active
  BY <1>1, BeginPlace
<1>3. /\ tx' \in [Txs -> Transactions]
      /\ \A u \in Txs \ {t} : tx'[u] = tx[u]
      /\ tx'[t].kind = tx[t].kind /\ tx'[t].s = S(t) /\ tx'[t].pc = "check"
      /\ tx'[t].own = tx[t].own
  BY <1>1, GotoParts
<1>4. lock'["session"][S(t)] = t
  BY <1>1, <1>2, TakesFacts DEF Exists, DistinctValues, IInv
<1>5. ~Sealed(t) /\ ~Sealed(t)' /\ tx[t].own.op = Unset
  BY <1>1, <1>2, <1>3 DEF Sealed, At, GoodBegin
<1>6. GoodBegin(t)'
  BY <1>1, <1>2, <1>3, <1>4, <1>5 DEF GoodBegin, At, S, db
<1> QED
  BY <1>1, <1>3, <1>5, <1>6, BeginMoves

(* begin() compares the manifest, or gives up.                             *)
LEMMA CheckManifestStep ==
  ASSUME IInv, DistinctValues, NEW t \in Txs, CheckManifest(t)
  PROVE  StepOf(t)
<1>1. /\ tx[t].pc = "check" /\ File(t) = None /\ Goto(t, "insert")
      /\ UNCHANGED <<db, lock>> /\ "insert" \in Labels
  BY DEF CheckManifest, At, Labels
<1>2. /\ Is(t, "begin") /\ S(t) \in Sessions /\ GoodBegin(t)
      /\ file[S(t)] = None
  BY <1>1, BeginPlace
<1>3. /\ tx' \in [Txs -> Transactions]
      /\ \A u \in Txs \ {t} : tx'[u] = tx[u]
      /\ tx'[t].kind = tx[t].kind /\ tx'[t].s = S(t) /\ tx'[t].pc = "insert"
      /\ tx'[t].own = tx[t].own
  BY <1>1, GotoParts
<1>5. ~Sealed(t) /\ ~Sealed(t)' /\ tx[t].own.op = Unset
  BY <1>1, <1>2, <1>3 DEF Sealed, At, GoodBegin
<1>6. GoodBegin(t)'
  BY <1>1, <1>2, <1>3, <1>5 DEF GoodBegin, At, S, db
<1> QED
  BY <1>1, <1>3, <1>5, <1>6, BeginMoves

(* begin() inserts where no operation is pending: the unique index.        *)
LEMMA InsertOpStep ==
  ASSUME IInv, DistinctValues, NEW t \in Txs, InsertOp(t)
  PROVE  StepOf(t)
<1> DEFINE o == [NoOp EXCEPT !.state = "assembling"]
           own == [tx[t].own EXCEPT !.op = o]
<1>1. /\ tx[t].pc = "insert" /\ Undecided(t) = {} /\ ActiveIsUnique(t)
      /\ Writes(t, own, "seal") /\ UNCHANGED <<db, lock>>
      /\ "seal" \in Labels
  BY DEF InsertOp, At, Labels
<1>2. /\ Is(t, "begin") /\ S(t) \in Sessions /\ GoodBegin(t)
      /\ tx[t].own \in Owns /\ tx[t].own = JustOp(tx[t].own.op)
  BY <1>1, BeginPlace
<1>3. o = Begun(NoChunkRows) /\ o \in JP!Journal
  <2>1. /\ NoOp \in JP!Journal /\ NoOp.man = NoChunkRows
        /\ NoOp.target = FALSE /\ NoOp.mime = FALSE /\ NoOp.cleaned = FALSE
    BY DEF NoOp, JP!NoOp, JP!Journal, JP!States, NoChunkRows, ChunkRows
  <2>2. ASSUME NEW n \in JP!Journal, NEW x,
               x = [n EXCEPT !.state = "assembling"]
        PROVE  /\ x = [state |-> "assembling", man |-> n.man,
                       target |-> n.target, mime |-> n.mime,
                       cleaned |-> n.cleaned]
               /\ x \in JP!Journal
    BY <2>2 DEF JP!Journal, JP!States
  <2>3. /\ o = [state |-> "assembling", man |-> NoChunkRows,
                target |-> FALSE, mime |-> FALSE, cleaned |-> FALSE]
        /\ o \in JP!Journal
    BY <2>1, <2>2
  <2> QED BY <2>3 DEF Begun
<1>4. own = JustOp(o) /\ own \in Owns
  <2>1. ASSUME NEW x, x = [tx[t].own EXCEPT !.op = o]
        PROVE  x = [op |-> o, rec |-> tx[t].own.rec,
                    status |-> tx[t].own.status, file |-> tx[t].own.file]
    BY <1>2, <2>1 DEF Owns
  <2>2. /\ tx[t].own.rec = Unset /\ tx[t].own.status = Unset
        /\ tx[t].own.file = Unset
    BY <1>2 DEF JustOp
  <2>3. own = JustOp(o)
    BY <2>1, <2>2 DEF JustOp
  <2> QED
    BY <1>3, <2>3 DEF JustOp, Owns
<1> HIDE DEF o, own
<1>5. /\ tx' \in [Txs -> Transactions]
      /\ \A u \in Txs \ {t} : tx'[u] = tx[u]
      /\ tx'[t].kind = tx[t].kind /\ tx'[t].s = S(t) /\ tx'[t].pc = "seal"
      /\ tx'[t].own = own
  BY <1>1, <1>4, WritesParts
<1>6. /\ own.op = o /\ o # Unset /\ op[S(t)].state = "none"
      /\ \A s \in Sessions : ~Pending(op[s])
  BY <1>1, <1>3, <1>4
  DEF ActiveIsUnique, JP!Pending, Pending, JustOp, DistinctValues
<1>7. GoodBegin(t)'
  BY <1>1, <1>2, <1>3, <1>4, <1>5, <1>6
  DEF GoodBegin, Sealed, At, S, db, Pending
<1> QED
  BY <1>1, <1>5, <1>7, BeginMoves

(* begin() seals the chunk rows of the session it holds.                   *)
LEMMA SealManifestStep ==
  ASSUME IInv, DistinctValues, NEW t \in Txs, SealManifest(t)
  PROVE  StepOf(t)
<1> DEFINE own == [tx[t].own EXCEPT !.op.man = Rec(t)]
<1>1. /\ tx[t].pc = "seal" /\ Writes(t, own, "end")
      /\ UNCHANGED <<db, lock>> /\ "end" \in Labels
  BY DEF SealManifest, At, Labels
<1>2. /\ Is(t, "begin") /\ S(t) \in Sessions /\ GoodBegin(t)
      /\ tx[t].own \in Owns /\ tx[t].own = JustOp(tx[t].own.op)
      /\ Rec(t) = rec[S(t)] /\ rec[S(t)] \in ChunkRows
  BY <1>1, BeginPlace DEF IInv, Types
<1>3. Sealed(t) /\ tx[t].own.op = Begun(NoChunkRows)
  BY <1>1, <1>2 DEF GoodBegin, Sealed, At
<1>4. own = JustOp(Begun(rec[S(t)])) /\ own \in Owns
  <2>1. tx[t].own = JustOp(Begun(NoChunkRows))
    BY <1>2, <1>3
  <2>4. ASSUME NEW c \in Owns, c.op \in JP!Journal, NEW r \in ChunkRows,
               NEW x, x = [c EXCEPT !.op.man = r]
        PROVE  x = [op |-> [state |-> c.op.state, man |-> r,
                            target |-> c.op.target, mime |-> c.op.mime,
                            cleaned |-> c.op.cleaned],
                    rec |-> c.rec, status |-> c.status, file |-> c.file]
    BY <2>4 DEF Owns, JP!Journal
  <2>5. Begun(NoChunkRows) \in JP!Journal
    BY DEF Begun, JP!Journal, JP!States, NoChunkRows, ChunkRows
  <2>6. /\ tx[t].own.op = Begun(NoChunkRows) /\ tx[t].own.rec = Unset
        /\ tx[t].own.status = Unset /\ tx[t].own.file = Unset
    BY <2>1 DEF JustOp
  <2>2. own = JustOp(Begun(rec[S(t)]))
    <3>1. own = [op |-> [state |-> tx[t].own.op.state, man |-> rec[S(t)],
                         target |-> tx[t].own.op.target,
                         mime |-> tx[t].own.op.mime,
                         cleaned |-> tx[t].own.op.cleaned],
                 rec |-> Unset, status |-> Unset, file |-> Unset]
      BY <1>2, <2>4, <2>5, <2>6
    <3>2. /\ tx[t].own.op.state = "assembling" /\ ~tx[t].own.op.target
          /\ ~tx[t].own.op.mime /\ ~tx[t].own.op.cleaned
          /\ tx[t].own.op \in JP!Journal
      BY <2>5, <2>6 DEF Begun
    <3> QED
      BY <3>1, <3>2 DEF JustOp, Begun, JP!Journal
  <2>3. Begun(rec[S(t)]) \in JP!Journal
    BY <1>2 DEF Begun, JP!Journal, JP!States
  <2> QED
    BY <2>2, <2>3 DEF JustOp, Owns
<1> HIDE DEF own
<1>5. /\ tx' \in [Txs -> Transactions]
      /\ \A u \in Txs \ {t} : tx'[u] = tx[u]
      /\ tx'[t].kind = tx[t].kind /\ tx'[t].s = S(t) /\ tx'[t].pc = "end"
      /\ tx'[t].own = own
  BY <1>1, <1>4, WritesParts
<1>6. own.op = Begun(rec[S(t)]) /\ own.op # Unset
  <2>1. own.op = Begun(rec[S(t)]) /\ Begun(rec[S(t)]) \in JP!Journal
    BY <1>2, <1>4 DEF JustOp, Begun, JP!Journal, JP!States
  <2> QED
    BY <2>1 DEF DistinctValues
<1>7. GoodBegin(t)'
  BY <1>1, <1>2, <1>3, <1>4, <1>5, <1>6
  DEF GoodBegin, Sealed, At, S, db, Pending
<1> QED
  BY <1>1, <1>3, <1>5, <1>7, BeginMoves

----------------------------------------------------------------------------
(* The other methods of the store.                                         *)
LEMMA JustOpEdit ==
  ASSUME NEW own \in Owns, own = JustOp(own.op), NEW n \in JP!Journal, NEW x,
         x = [own EXCEPT !.op = n]
  PROVE  x = JustOp(n) /\ x \in Owns /\ x.op = n
<1>1. x = [op |-> n, rec |-> own.rec, status |-> own.status,
           file |-> own.file]
  BY DEF Owns
<1>2. own.rec = Unset /\ own.status = Unset /\ own.file = Unset
  BY DEF JustOp
<1> QED
  BY <1>1, <1>2 DEF JustOp, Owns

(* What a method that has its session relies on.                           *)
LEMMA MethodPlace ==
  ASSUME IInv, DistinctValues, NEW t \in Txs,
         tx[t].pc \in {"lockOp", "outcome", "outcome2", "write", "file",
                       "complete", "purge"}
  PROVE  /\ tx[t].kind \in Methods /\ S(t) \in Sessions /\ ~At(t, "idle")
         /\ GoodMethod(t) /\ WroteRows(t) /\ tx[t].own \in Owns
         /\ op[S(t)] \in JP!Journal
<1>1. /\ tx[t].kind \in Methods /\ S(t) \in Sessions /\ ~At(t, "idle")
      /\ GoodMethod(t) /\ tx[t].own \in Owns
  BY Places DEF At, IInv, Good, Transactions
<1> QED
  BY <1>1 DEF GoodMethod, IInv, Types

(* Before it writes, it reads what is committed.                           *)
LEMMA MethodReads ==
  ASSUME IInv, DistinctValues, NEW t \in Txs,
         tx[t].pc \in {"lockOp", "outcome", "outcome2", "write"}
  PROVE  /\ tx[t].own = JustOp(Unset) /\ tx[t].own.op = Unset
         /\ Op(t) = op[S(t)] /\ Status(t) = status[S(t)]
         /\ File(t) = file[S(t)] /\ Rec(t) = rec[S(t)]
<1>1. GoodMethod(t) /\ WroteRows(t) /\ tx[t].kind \in Methods
  BY MethodPlace
<1>2. tx[t].own.op = Unset
  BY <1>1 DEF GoodMethod
<1>3. tx[t].own = JustOp(Unset)
  BY <1>1, <1>2 DEF WroteRows, JustOp, At
<1>4. /\ tx[t].own.status = Unset /\ tx[t].own.file = Unset
      /\ tx[t].own.rec = Unset
  BY <1>3 DEF JustOp
<1> QED
  BY <1>2, <1>3, <1>4 DEF Op, Status, File, Rec, Seen

(* What is left to show of a statement of a method.                        *)
LEMMA MethodMoves ==
  ASSUME IInv, DistinctValues, NEW t \in Txs,
         tx[t].pc \in {"lockOp", "outcome", "outcome2", "write", "file",
                       "complete", "purge"},
         UNCHANGED db, tx' \in [Txs -> Transactions],
         \A u \in Txs \ {t} : tx'[u] = tx[u],
         tx'[t].kind = tx[t].kind, tx'[t].s = S(t),
         tx'[t].pc \in {"write", "outcome", "outcome2", "file", "complete",
                        "purge", "end"},
         tx[t].pc \in {"outcome2", "write", "file", "complete", "purge"} =>
           tx'[t].pc \in {"write", "file", "complete", "purge", "end"},
         \/ lock' = lock
         \/ Takes(t, "op")
         \/ Takes(t, "file") /\ tx'[t].pc = "outcome2"
         \/ Takes(t, "session")
            /\ tx'[t].pc \in {"write", "file", "complete", "purge", "end"},
         GoodMethod(t)'
  PROVE  StepOf(t)
<1>1. /\ tx[t].kind \in Methods /\ tx'[t].kind \in Methods
      /\ S(t) \in Sessions /\ ~At(t, "idle")
  BY MethodPlace
<1>2. tx'[t].kind \notin {"session", "file", "begin"}
  BY <1>1 DEF Methods, Store
<1>3. Holder("op", S(t), t)'
  BY <1>1 DEF Holder, S, At, Is
<1>4. ASSUME NEW q \in Tables, Holder(q, S(t), t) PROVE Holder(q, S(t), t)'
  <2>1. CASE q = "op"
    BY <1>3, <2>1
  <2>2. CASE q = "file"
    BY <1>1, <1>2, <1>4, <2>2 DEF Holder, S, At, Is
  <2>3. CASE q = "session"
    BY <1>1, <1>2, <1>4, <2>3 DEF Holder, S, At, Is
  <2> QED
    BY <2>1, <2>2, <2>3 DEF Tables
<1>5. lock' = lock \/ \E r \in Tables : Takes(t, r) /\ Holder(r, S(t), t)'
  <2>1. tx'[t].pc = "outcome2" => Holder("file", S(t), t)'
    BY DEF Holder, S, At, Is
  <2>2. tx'[t].pc \in {"write", "file", "complete", "purge", "end"} =>
          Holder("session", S(t), t)'
    BY DEF Holder, S, At, Is
  <2> QED
    BY <1>3, <2>1, <2>2 DEF Tables
<1>6. tx'[t].pc # "idle"
  OBVIOUS
<1> QED
  BY <1>1, <1>2, <1>4, <1>5, <1>6, MoveOn

(* A method locks its operation, pending and in a state it wants.          *)
LEMMA LockOpStep ==
  ASSUME IInv, DistinctValues, NEW t \in Txs, LockOp(t)
  PROVE  StepOf(t)
<1> DEFINE l == IF tx[t].kind \in {"recordTarget", "transition"} THEN "write"
                ELSE "outcome"
<1>1. /\ tx[t].pc = "lockOp" /\ Takes(t, "op") /\ UNCHANGED db
      /\ Op(t).state \in Wants(tx[t].kind) /\ ~Op(t).cleaned
      /\ Goto(t, l) /\ l \in Labels /\ l \in {"write", "outcome"}
      /\ "op" \in Tables
  BY DEF LockOp, At, Labels, Tables
<1>2. /\ tx[t].kind \in Methods /\ S(t) \in Sessions /\ GoodMethod(t)
      /\ tx[t].own = JustOp(Unset) /\ tx[t].own.op = Unset
      /\ Op(t) = op[S(t)]
  BY <1>1, MethodPlace, MethodReads
<1>3. l \in {"write"} \cup Visits(tx[t].kind)
      /\ (tx[t].kind = "finishCleanup" => l = "outcome")
  BY <1>2 DEF Methods, Store, Visits
<1> HIDE DEF l
<1>4. /\ tx' \in [Txs -> Transactions]
      /\ \A u \in Txs \ {t} : tx'[u] = tx[u]
      /\ tx'[t].kind = tx[t].kind /\ tx'[t].s = S(t) /\ tx'[t].pc = l
      /\ tx'[t].own = tx[t].own
  BY <1>1, GotoParts
<1>5. lock'["op"][S(t)] = t
  <2>1. "none" \notin Wants(tx[t].kind)
    BY <1>2 DEF Methods, Store, Wants
  <2> QED
    BY <1>1, <1>2, <2>1, TakesFacts DEF Exists, IInv
<1>6. WroteRows(t)'
  BY <1>1, <1>2, <1>4 DEF WroteRows, JustOp, At, Is
<1>7. GoodMethod(t)'
  BY <1>1, <1>2, <1>3, <1>4, <1>5, <1>6 DEF GoodMethod, At, Is, S, db
<1> QED
  BY <1>1, <1>4, <1>7, MethodMoves

(* outcome() locks the File's row, then the session's.                     *)
LEMMA OutcomeSteps ==
  ASSUME IInv, DistinctValues, NEW t \in Txs,
         OutcomeFirst(t) \/ OutcomeSecond(t)
  PROVE  StepOf(t)
<1> DEFINE l == IF OutcomeFirst(t) THEN "outcome2" ELSE "write"
           r == IF OutcomeFirst(t) THEN "file" ELSE "session"
<1>1. /\ tx[t].pc = IF OutcomeFirst(t) THEN "outcome" ELSE "outcome2"
      /\ Takes(t, r) /\ UNCHANGED db /\ Goto(t, l) /\ l \in Labels
      /\ r \in Tables /\ r # "op" /\ (r = "file" => l = "outcome2")
      /\ (r = "session" => l = "write" /\ Unambiguous(t))
      /\ (l = "write" => r = "session")
  BY DEF OutcomeFirst, OutcomeSecond, At, Labels, Tables, Order
<1>2. /\ tx[t].kind \in Methods /\ S(t) \in Sessions /\ GoodMethod(t)
      /\ tx[t].own = JustOp(Unset) /\ tx[t].own.op = Unset
      /\ Op(t) = op[S(t)]
  BY <1>1, MethodPlace, MethodReads
<1>3. l \in {"write"} \cup Visits(tx[t].kind)
  BY <1>1, <1>2 DEF Methods, Store, Visits, GoodMethod
<1>4. /\ tx' \in [Txs -> Transactions]
      /\ \A u \in Txs \ {t} : tx'[u] = tx[u]
      /\ tx'[t].kind = tx[t].kind /\ tx'[t].s = S(t) /\ tx'[t].pc = l
      /\ tx'[t].own = tx[t].own
  BY <1>1, GotoParts
<1>5. lock["op"][S(t)] = t /\ lock'["op"][S(t)] = t
  <2>1. lock["op"][S(t)] = t /\ "op" \in Tables
    BY <1>1, <1>2 DEF GoodMethod, At, Tables
  <2> QED
    BY <1>1, <1>2, <2>1, TakesFacts DEF IInv
<1>6. l = "write" => lock'["session"][S(t)] = t
  <2>1. ASSUME l = "write" PROVE Exists(t, "session")
    BY <1>1, <2>1 DEF Unambiguous, Exists, DistinctValues
  <2> QED
    BY <1>1, <1>2, <2>1, TakesFacts DEF IInv
<1>7. WroteRows(t)'
  BY <1>1, <1>2, <1>4 DEF WroteRows, JustOp, At, Is
<1>8. l \in {"outcome2", "write"} /\ tx[t].pc \in {"outcome", "outcome2"}
      /\ (tx[t].pc = "outcome2" => l = "write")
  BY <1>1
<1> HIDE DEF l, r
<1>9. GoodMethod(t)'
  BY <1>1, <1>2, <1>3, <1>4, <1>5, <1>6, <1>7, <1>8
  DEF GoodMethod, At, Is, S, db
<1>10. r \in {"file", "session"}
  BY <1>1 DEF Tables
<1> QED
  BY <1>1, <1>4, <1>8, <1>9, <1>10, MethodMoves

(* The method's operation is written, what it writes is what Wrote says.   *)
LEMMA WriteStep ==
  ASSUME IInv, DistinctValues, NEW t \in Txs, At(t, "write"),
         NEW n \in JP!Journal, NEW l,
         l \in {"file", "purge", "end"}, l \in {"end"} \cup Visits(tx[t].kind),
         Is(t, "commit") \/ Is(t, "finishCleanup") => l # "end",
         Writes(t, [tx[t].own EXCEPT !.op = n], l),
         UNCHANGED <<db, lock>>, Wrote(t)'
  PROVE  StepOf(t)
<1>1. /\ tx[t].kind \in Methods /\ S(t) \in Sessions /\ GoodMethod(t)
      /\ tx[t].own \in Owns /\ tx[t].own = JustOp(tx[t].own.op)
      /\ tx[t].pc = "write" /\ l \in Labels
  BY MethodPlace, MethodReads DEF At, Labels
<1>2. \A x : x = [tx[t].own EXCEPT !.op = n] =>
               x = JustOp(n) /\ x \in Owns /\ x.op = n
  BY <1>1, JustOpEdit
<1>3. PICK own : own = [tx[t].own EXCEPT !.op = n]
  OBVIOUS
<1>4. Writes(t, own, l) /\ own \in Owns /\ own = JustOp(n) /\ own.op = n
  BY <1>2, <1>3
<1>5. /\ tx' \in [Txs -> Transactions]
      /\ \A u \in Txs \ {t} : tx'[u] = tx[u]
      /\ tx'[t].kind = tx[t].kind /\ tx'[t].s = S(t) /\ tx'[t].pc = l
      /\ tx'[t].own = own
  BY <1>1, <1>4, WritesParts
<1>6. WroteRows(t)'
  BY <1>4, <1>5 DEF WroteRows, JustOp, At, Is
<1>7. GoodMethod(t)'
  BY <1>1, <1>5, <1>6 DEF GoodMethod, At, Is, S, db
<1> QED
  BY <1>1, <1>5, <1>7, MethodMoves

(* What its transaction then holds, for Wrote.                             *)
LEMMA WriteFacts ==
  ASSUME IInv, DistinctValues, NEW t \in Txs, At(t, "write"),
         NEW n \in JP!Journal, NEW l \in Labels,
         Writes(t, [tx[t].own EXCEPT !.op = n], l),
         UNCHANGED <<db, lock>>
  PROVE  /\ tx'[t].own.op = n /\ op[S(t)]' = op[S(t)]
         /\ \A k : Is(t, k)' <=> Is(t, k)
<1>1. tx[t].own \in Owns /\ tx[t].own = JustOp(tx[t].own.op)
  BY MethodPlace, MethodReads DEF At
<1>2. PICK own : own = [tx[t].own EXCEPT !.op = n]
  OBVIOUS
<1>3. Writes(t, own, l) /\ own \in Owns /\ own.op = n
  BY <1>1, <1>2, JustOpEdit
<1>4. tx'[t].kind = tx[t].kind /\ tx'[t].s = S(t) /\ tx'[t].own = own
  BY <1>3, WritesParts
<1> QED
  BY <1>3, <1>4 DEF Is, S, db

(* It changes nothing, and is done.                                        *)
LEMMA NothingToWrite ==
  ASSUME IInv, DistinctValues, NEW t \in Txs, At(t, "write"),
         Is(t, "recordTarget") \/ Is(t, "recordMimeType"),
         Goto(t, "end"), UNCHANGED <<db, lock>>
  PROVE  StepOf(t)
<1>1. /\ tx[t].kind \in Methods /\ S(t) \in Sessions /\ GoodMethod(t)
      /\ tx[t].own = JustOp(Unset) /\ tx[t].own.op = Unset
      /\ tx[t].pc = "write" /\ "end" \in Labels
  BY MethodPlace, MethodReads DEF At, Labels
<1>2. /\ tx' \in [Txs -> Transactions]
      /\ \A u \in Txs \ {t} : tx'[u] = tx[u]
      /\ tx'[t].kind = tx[t].kind /\ tx'[t].s = S(t) /\ tx'[t].pc = "end"
      /\ tx'[t].own = tx[t].own
  BY <1>1, GotoParts
<1>3. WroteRows(t)' /\ Wrote(t)'
  BY <1>1, <1>2 DEF WroteRows, Wrote, JustOp, At, Is
<1>4. GoodMethod(t)'
  BY <1>1, <1>2, <1>3 DEF GoodMethod, At, Is, S, db
<1> QED
  BY <1>1, <1>2, <1>4, MethodMoves

(* A method records target, inode or type of its operation.                *)
LEMMA RecordSteps ==
  ASSUME IInv, DistinctValues, NEW t \in Txs,
         RecordTarget(t) \/ RecordMimeType(t)
  PROVE  StepOf(t)
<1>1. /\ At(t, "write") /\ (Is(t, "recordTarget") \/ Is(t, "recordMimeType"))
      /\ "end" \in Labels
  BY DEF RecordTarget, RecordMimeType, Labels
<1>2. Op(t) = op[S(t)] /\ op[S(t)] \in JP!Journal
  BY <1>1, MethodPlace, MethodReads DEF At
<1>3. CASE Goto(t, "end") /\ UNCHANGED <<db, lock>>
  BY <1>1, <1>3, NothingToWrite
<1>4. CASE ~(Goto(t, "end") /\ UNCHANGED <<db, lock>>)
  <2>1. PICK n \in JP!Journal :
          /\ WriteOp(t, n, "end")
          /\ \/ Is(t, "recordTarget") /\ n = [op[S(t)] EXCEPT !.target = TRUE]
             \/ Is(t, "recordMimeType") /\ n = [op[S(t)] EXCEPT !.mime = TRUE]
    <3>1. /\ [op[S(t)] EXCEPT !.target = TRUE] \in JP!Journal
          /\ [op[S(t)] EXCEPT !.mime = TRUE] \in JP!Journal
      BY <1>2 DEF JP!Journal
    <3> QED
      BY <1>2, <1>4, <3>1 DEF RecordTarget, RecordMimeType
  <2>2. /\ Writes(t, [tx[t].own EXCEPT !.op = n], "end")
        /\ UNCHANGED <<db, lock>>
    BY <2>1 DEF WriteOp
  <2>3. /\ tx'[t].own.op = n /\ op[S(t)]' = op[S(t)]
        /\ \A k : Is(t, k)' <=> Is(t, k)
    BY <1>1, <2>2, WriteFacts
  <2>4. Wrote(t)'
    BY <2>1, <2>3 DEF Wrote, Is
  <2>5. ~Is(t, "commit") /\ ~Is(t, "finishCleanup")
    BY <1>1 DEF Is
  <2> QED
    BY <1>1, <2>2, <2>4, <2>5, WriteStep
<1> QED
  BY <1>3, <1>4

(* A method moves its operation on to the next state.                      *)
LEMMA TransitionStep ==
  ASSUME IInv, DistinctValues, NEW t \in Txs, Transition(t)
  PROVE  StepOf(t)
<1>1. /\ At(t, "write") /\ Is(t, "transition") /\ "end" \in Labels
  BY DEF Transition, Labels
<1>2. Op(t) = op[S(t)] /\ op[S(t)] \in JP!Journal
  BY <1>1, MethodPlace, MethodReads DEF At
<1> DEFINE o == op[S(t)]
<1>3. PICK to \in {"verified", "publishing", "published"} :
        WriteOp(t, [o EXCEPT !.state = to], "end")
  BY <1>2 DEF Transition
<1>4. PICK n : n = [o EXCEPT !.state = to]
  OBVIOUS
<1>5. /\ n \in JP!Journal /\ n.state = to /\ n.target = o.target
      /\ n.mime = o.mime /\ n.cleaned = o.cleaned
  BY <1>2, <1>4 DEF JP!Journal, JP!States
<1>6. /\ Allowed(t, o, n) /\ Writes(t, [tx[t].own EXCEPT !.op = n], "end")
      /\ UNCHANGED <<db, lock>>
  BY <1>2, <1>3, <1>4 DEF WriteOp
<1>7. /\ <<o.state, to>> \in JP!Follows /\ o.target
      /\ to = "publishing" => o.mime
  <2>1. o.state = "assembling" /\ ~o.target => n # [o EXCEPT !.target = TRUE]
    BY <1>2, <1>5 DEF JP!Journal
  <2>2. o.state = "verified" /\ ~o.mime => n # [o EXCEPT !.mime = TRUE]
    BY <1>2, <1>5 DEF JP!Journal
  <2>3. o.state = "committed" /\ ~o.cleaned => n # [o EXCEPT !.cleaned = TRUE]
    BY <1>2, <1>5 DEF JP!Journal
  <2>4. /\ <<o.state, n.state>> \in
             JP!Follows \cup {<<"published", "committed">>}
        /\ n.target /\ (n.state = "publishing" => n.mime)
    BY <1>6, <2>1, <2>2, <2>3 DEF Allowed
  <2> QED
    BY <1>5, <2>4
<1>8. /\ tx'[t].own.op = n /\ op[S(t)]' = o
      /\ \A k : Is(t, k)' <=> Is(t, k)
  BY <1>1, <1>5, <1>6, WriteFacts
<1>9. Wrote(t)'
  BY <1>1, <1>4, <1>7, <1>8 DEF Wrote, Is
<1>10. ~Is(t, "commit") /\ ~Is(t, "finishCleanup")
  BY <1>1 DEF Is
<1> QED
  BY <1>1, <1>5, <1>6, <1>9, <1>10, WriteStep

(* A method commits its File, or cleans its operation.                     *)
LEMMA CommitAndCleanSteps ==
  ASSUME IInv, DistinctValues, NEW t \in Txs, CommitOp(t) \/ CleanOp(t)
  PROVE  StepOf(t)
<1> DEFINE l == IF Is(t, "commit") THEN "file" ELSE "purge"
<1>1. /\ At(t, "write") /\ (Is(t, "commit") \/ Is(t, "finishCleanup"))
      /\ l \in Labels /\ l \in {"file", "purge"}
  BY DEF CommitOp, CleanOp, Labels
<1>2. Op(t) = op[S(t)] /\ op[S(t)] \in JP!Journal
  BY <1>1, MethodPlace, MethodReads DEF At
<1>3. PICK n \in JP!Journal :
        /\ WriteOp(t, n, l)
        /\ \/ Is(t, "commit") /\ n = [op[S(t)] EXCEPT !.state = "committed"]
           \/ Is(t, "finishCleanup") /\ n = [op[S(t)] EXCEPT !.cleaned = TRUE]
  <2>1. /\ [op[S(t)] EXCEPT !.state = "committed"] \in JP!Journal
        /\ [op[S(t)] EXCEPT !.cleaned = TRUE] \in JP!Journal
    BY <1>2 DEF JP!Journal, JP!States
  <2> QED
    BY <1>2, <2>1 DEF CommitOp, CleanOp, Is
<1>4. l \in {"end"} \cup Visits(tx[t].kind)
  BY <1>1 DEF Visits, Is
<1> HIDE DEF l
<1>5. /\ Writes(t, [tx[t].own EXCEPT !.op = n], l)
      /\ UNCHANGED <<db, lock>>
  BY <1>3 DEF WriteOp
<1>6. /\ tx'[t].own.op = n /\ op[S(t)]' = op[S(t)]
      /\ \A k : Is(t, k)' <=> Is(t, k)
  BY <1>1, <1>5, WriteFacts
<1>7. Wrote(t)'
  BY <1>3, <1>6 DEF Wrote, Is
<1> QED
  BY <1>1, <1>4, <1>5, <1>7, WriteStep

(* The File and the session of commit(), and the rows finishCleanup()      *)
(* purges: the session is locked, the operation stays as it was written.   *)
LEMMA RowSteps ==
  ASSUME IInv, DistinctValues, NEW t \in Txs,
         CommitFile(t) \/ Complete(t) \/ PurgeRows(t)
  PROVE  StepOf(t)
<1> DEFINE l == IF CommitFile(t) THEN "complete" ELSE "end"
           own == tx[t].own
           new == [op |-> own.op,
                   rec |-> IF PurgeRows(t) THEN NoChunkRows ELSE Unset,
                   status |-> IF Complete(t) THEN "completed" ELSE Unset,
                   file |-> IF PurgeRows(t) THEN Unset ELSE "live"]
<1>1. /\ tx[t].pc = CASE CommitFile(t) -> "file" [] Complete(t) -> "complete"
                      [] PurgeRows(t) -> "purge"
      /\ CommitFile(t) => ~Complete(t) /\ ~PurgeRows(t)
      /\ Complete(t) => ~PurgeRows(t)
      /\ Takes(t, "session") /\ UNCHANGED db
      /\ l \in Labels /\ "session" \in Tables
      /\ Complete(t) => Status(t) \in Active
  BY DEF CommitFile, Complete, PurgeRows, TakesSession, At, Labels, Tables
<1>2. /\ tx[t].pc \in {"file", "complete", "purge"}
      /\ tx[t].kind \in Methods /\ S(t) \in Sessions /\ GoodMethod(t)
      /\ WroteRows(t) /\ own \in Owns /\ Wrote(t)
      /\ lock["op"][S(t)] = t
  BY <1>1, MethodPlace DEF GoodMethod, At
<1>3. /\ CommitFile(t) \/ Complete(t) => Is(t, "commit")
      /\ PurgeRows(t) => Is(t, "finishCleanup")
  BY <1>1, Places DEF At
<1>4. Writes(t, new, l)
  <2>1. own = [op |-> own.op, rec |-> Unset, status |-> Unset,
               file |-> IF Complete(t) THEN "live" ELSE Unset]
    BY <1>1, <1>2, <1>3 DEF WroteRows, At, Is
  <2>2. /\ own.rec = Unset /\ own.status = Unset
        /\ own.file = IF Complete(t) THEN "live" ELSE Unset
    BY <2>1
  <2>3. ASSUME NEW x, x = [own EXCEPT !.file = "live"]
        PROVE  x = [op |-> own.op, rec |-> own.rec, status |-> own.status,
                    file |-> "live"]
    BY <1>2, <2>3 DEF Owns
  <2>4. ASSUME NEW x, x = [own EXCEPT !.status = "completed"]
        PROVE  x = [op |-> own.op, rec |-> own.rec, status |-> "completed",
                    file |-> own.file]
    BY <1>2, <2>4 DEF Owns
  <2>5. ASSUME NEW x, x = [own EXCEPT !.rec = NoChunkRows]
        PROVE  x = [op |-> own.op, rec |-> NoChunkRows,
                    status |-> own.status, file |-> own.file]
    BY <1>2, <2>5 DEF Owns
  <2>6. CASE CommitFile(t)
    <3>1. PICK x : x = [own EXCEPT !.file = "live"]
      OBVIOUS
    <3>2. Writes(t, x, "complete")
      BY <2>6, <3>1 DEF CommitFile
    <3> QED
      BY <1>1, <2>2, <2>3, <2>6, <3>1, <3>2
  <2>7. CASE Complete(t)
    <3>1. PICK x : x = [own EXCEPT !.status = "completed"]
      OBVIOUS
    <3>2. Writes(t, x, "end")
      BY <2>7, <3>1 DEF Complete
    <3> QED
      BY <1>1, <2>2, <2>4, <2>7, <3>1, <3>2
  <2>8. CASE PurgeRows(t)
    <3>1. PICK x : x = [own EXCEPT !.rec = NoChunkRows]
      OBVIOUS
    <3>2. Writes(t, x, "end")
      BY <2>8, <3>1 DEF PurgeRows
    <3> QED
      BY <1>1, <2>2, <2>5, <2>8, <3>1, <3>2
  <2> QED
    BY <2>6, <2>7, <2>8
<1>5. new \in Owns
  BY <1>2 DEF Owns, Statuses, Files, ChunkRows, NoChunkRows
<1>6. /\ tx' \in [Txs -> Transactions]
      /\ \A u \in Txs \ {t} : tx'[u] = tx[u]
      /\ tx'[t].kind = tx[t].kind /\ tx'[t].s = S(t) /\ tx'[t].pc = l
      /\ tx'[t].own = new /\ tx'[t].own.op = own.op
  <2> HIDE DEF l, own
  <2>1. new.op = own.op
    OBVIOUS
  <2> HIDE DEF new
  <2> QED
    BY <1>1, <1>4, <1>5, <2>1, WritesParts
<1>7. lock'["op"][S(t)] = t
      /\ (lock["session"][S(t)] = t \/ Complete(t) =>
            lock'["session"][S(t)] = t)
  <2>1. Complete(t) => Exists(t, "session")
    BY <1>1 DEF Exists, DistinctValues
  <2> QED
    BY <1>1, <1>2, <2>1, TakesFacts DEF IInv, DistinctValues, Tables
<1>8. WroteRows(t)'
  BY <1>1, <1>3, <1>6 DEF WroteRows, At, Is
<1>9. Wrote(t)'
  <2>1. S(t)' = S(t) /\ op' = op /\ \A k : Is(t, k)' <=> Is(t, k)
    BY <1>1, <1>6 DEF S, db, Is
  <2>2. tx'[t].own.op = tx[t].own.op
    BY <1>6
  <2>3. op[S(t)]' = op[S(t)] /\ op[S(t)] \in JP!Journal
    BY <1>2, <2>1 DEF IInv, Types
  <2>4. tx'[t].kind = tx[t].kind /\ tx[t].kind \in {"commit", "finishCleanup"}
    BY <1>1, <1>3, <1>6 DEF Is
  <2> HIDE DEF l, own, new
  <2> QED
    BY <1>2, <2>2, <2>3, <2>4 DEF Wrote, Is
<1>10. l \in {"end"} \cup Visits(tx[t].kind) /\ l \in {"complete", "end"}
  BY <1>3 DEF Visits, Is
<1>11. /\ Is(t, "finishCleanup") => lock["session"][S(t)] = t
       /\ Is(t, "commit") /\ l = "end" => Complete(t)
  BY <1>1, <1>2, <1>3 DEF GoodMethod, At, Is
<1> HIDE DEF l, new, own
<1>12. GoodMethod(t)'
  <2>1. /\ S(t)' = S(t) /\ op' = op /\ \A k : Is(t, k)' <=> Is(t, k)
        /\ \A k : At(t, k)' <=> l = k
    BY <1>1, <1>6 DEF S, db, Is, At
  <2>2. ~At(t, "lockOp")
    BY <1>2 DEF At
  <2> QED
    BY <1>2, <1>6, <1>7, <1>8, <1>9, <1>10, <1>11, <2>1, <2>2 DEF GoodMethod
<1> QED
  BY <1>1, <1>2, <1>6, <1>10, <1>12, MethodMoves

----------------------------------------------------------------------------
(* The end of a transaction.                                               *)
LEMMA IdleGood ==
  ASSUME NEW t \in Txs, tx'[t] = Idle
  PROVE  Good(t)' /\ Idle \in Transactions
<1>1. /\ tx'[t].kind = "none" /\ tx'[t].pc = "idle" /\ tx'[t].own = Clear
  BY DEF Idle
<1>2. Good(t)'
  BY <1>1
  DEF Good, Running, GoodSession, GoodFile, GoodBegin, GoodMethod, Is, At,
      Methods, Store
<1>3. Clear \in Owns /\ "idle" \in Labels
  BY DEF Clear, Owns, Labels
<1> QED
  BY <1>2, <1>3 DEF Idle, Transactions

(* The end of a transaction lets go of its own locks only.                 *)
LEMMA ReleasedFacts ==
  ASSUME IInv, DistinctValues, NEW t \in Txs, lock' = Released(t),
         tx' = [tx EXCEPT ![t] = Idle]
  PROVE  /\ lock' \in [Tables -> [Sessions -> Txs \cup {None}]]
         /\ \A q \in Tables, z \in Sessions :
              lock'[q][z] = IF lock[q][z] = t THEN None ELSE lock[q][z]
         /\ tx' \in [Txs -> Transactions] /\ tx'[t] = Idle
         /\ \A u \in Txs \ {t} : tx'[u] = tx[u]
<1>1. /\ lock' \in [Tables -> [Sessions -> Txs \cup {None}]]
      /\ \A q \in Tables, z \in Sessions :
           lock'[q][z] = IF lock[q][z] = t THEN None ELSE lock[q][z]
  BY DEF Released, IInv, Types
<1>2. tx'[t] = Idle
  BY DEF IInv, Types
<1>3. Idle \in Transactions
  BY <1>2, IdleGood
<1> QED
  BY <1>1, <1>2, <1>3 DEF IInv, Types

(* A ROLLBACK leaves nothing behind.                                       *)
LEMMA RollbackStep ==
  ASSUME IInv, DistinctValues, NEW t \in Txs, Rollback(t)
  PROVE  StepOf(t)
<1>1. /\ lock' \in [Tables -> [Sessions -> Txs \cup {None}]]
      /\ \A q \in Tables, z \in Sessions :
           lock'[q][z] = IF lock[q][z] = t THEN None ELSE lock[q][z]
      /\ tx' \in [Txs -> Transactions] /\ tx'[t] = Idle
      /\ \A u \in Txs \ {t} : tx'[u] = tx[u]
      /\ UNCHANGED db
  BY ReleasedFacts DEF Rollback
<1>2. Good(t)' /\ Types'
  BY <1>1, IdleGood DEF IInv, Types, db
<1>3. \A q \in Tables, z \in Sessions : lock'[q][z] # t
  BY <1>1 DEF DistinctValues
<1>4. ~(Is(t, "begin") /\ Sealed(t))'
  BY <1>1 DEF Is, Idle
<1> QED
  BY <1>1, <1>2, <1>3, <1>4 DEF StepOf

(* What a COMMIT makes of the rows of its session, by the kind of          *)
(* transaction.                                                            *)
Same(s) == rec'[s] = rec[s] /\ status'[s] = status[s] /\ file'[s] = file[s]

CommitsSession(t, s) ==
  /\ Is(t, "session") /\ op'[s] = op[s]
  /\ file'[s] = file[s] \/ file'[s] = "live"
  /\ Same(s) \/ (lock["session"][s] = t /\ ~Pending(op[s]))
CommitsFile(t, s) ==
  /\ Is(t, "file") /\ op'[s] = op[s]
  /\ rec'[s] = rec[s] /\ status'[s] = status[s]
  /\ file'[s] = Deleted /\ file[s] # None /\ ~Pending(op[s])
CommitsBegin(t, s) ==
  /\ Is(t, "begin") /\ Sealed(t) /\ lock["session"][s] = t
  /\ \A z \in Sessions : ~Pending(op[z])
  /\ op[s].state = "none" /\ op'[s] = Begun(rec[s])
  /\ Same(s) /\ status[s] \in Active /\ file[s] = None
Owned(t, s) ==
  /\ tx[t].kind \in Methods /\ lock["op"][s] = t
  /\ op[s].state \in Wants(tx[t].kind) /\ ~op[s].cleaned
CommitsRecord(t, s) ==
  /\ Owned(t, s) /\ Wrote(t) /\ Same(s)
  /\ tx[t].kind \in {"recordTarget", "recordMimeType", "transition"}
  /\ op'[s] = IF tx[t].own.op = Unset THEN op[s] ELSE tx[t].own.op
CommitsCommit(t, s) ==
  /\ Owned(t, s) /\ Is(t, "commit") /\ lock["session"][s] = t
  /\ op'[s] = [op[s] EXCEPT !.state = "committed"]
  /\ rec'[s] = rec[s] /\ status'[s] = "completed" /\ file'[s] = "live"
CommitsClean(t, s) ==
  /\ Owned(t, s) /\ Is(t, "finishCleanup") /\ lock["session"][s] = t
  /\ op'[s] = [op[s] EXCEPT !.cleaned = TRUE]
  /\ rec'[s] = NoChunkRows /\ status'[s] = status[s] /\ file'[s] = file[s]

Commits(t, s) ==
  \/ CommitsSession(t, s) \/ CommitsFile(t, s) \/ CommitsBegin(t, s)
  \/ CommitsRecord(t, s) \/ CommitsCommit(t, s) \/ CommitsClean(t, s)

(* A COMMIT writes the rows of its own session.                            *)
LEMMA CommitWrites ==
  ASSUME IInv, DistinctValues, NEW t \in Txs, CommitTx(t)
  PROVE  /\ S(t) \in Sessions /\ Good(t)
         /\ tx[t].kind \in {"session", "file", "begin"} \cup Methods
         /\ \/ At(t, "end") /\ tx[t].kind \in Methods \cup {"begin"}
            \/ /\ At(t, "run") /\ tx[t].n > 0
               /\ Is(t, "session") \/ Is(t, "file")
         /\ op' \in [Sessions -> JP!Journal] /\ rec' \in [Sessions -> ChunkRows]
         /\ status' \in [Sessions -> Statuses] /\ file' \in [Sessions -> Files]
         /\ op'[S(t)] = Op(t) /\ rec'[S(t)] = Rec(t)
         /\ status'[S(t)] = Status(t) /\ file'[S(t)] = File(t)
         /\ \A z \in Sessions \ {S(t)} : op'[z] = op[z] /\ Same(z)
<1>1. Ends(t) /\ ~At(t, "idle")
  BY DEF CommitTx, Ends, At
<1>2. /\ S(t) \in Sessions /\ Good(t) /\ tx[t].own \in Owns
      /\ At(t, "end") => tx[t].kind \in Methods \cup {"begin"}
      /\ At(t, "run") => Is(t, "session") \/ Is(t, "file")
  BY <1>1, Places DEF IInv, Transactions
<1>3. /\ \/ At(t, "end") /\ tx[t].kind \in Methods \cup {"begin"}
         \/ /\ At(t, "run") /\ tx[t].n > 0
            /\ Is(t, "session") \/ Is(t, "file")
  BY <1>1, <1>2 DEF Ends
<1>4. /\ Op(t) \in JP!Journal /\ Rec(t) \in ChunkRows
      /\ Status(t) \in Statuses /\ File(t) \in Files
  BY <1>2 DEF Op, Rec, Status, File, Seen, Owns, IInv, Types
<1>5. /\ op' = [op EXCEPT ![S(t)] = Op(t)]
      /\ rec' = [rec EXCEPT ![S(t)] = Rec(t)]
      /\ status' = [status EXCEPT ![S(t)] = Status(t)]
      /\ file' = [file EXCEPT ![S(t)] = File(t)]
  BY DEF CommitTx
<1>6. /\ op \in [Sessions -> JP!Journal] /\ rec \in [Sessions -> ChunkRows]
      /\ status \in [Sessions -> Statuses] /\ file \in [Sessions -> Files]
  BY DEF IInv, Types
<1>7. /\ op' \in [Sessions -> JP!Journal] /\ rec' \in [Sessions -> ChunkRows]
      /\ op'[S(t)] = Op(t) /\ rec'[S(t)] = Rec(t)
      /\ \A z \in Sessions \ {S(t)} : op'[z] = op[z] /\ rec'[z] = rec[z]
  BY <1>2, <1>4, <1>5, <1>6
<1>8. /\ status' \in [Sessions -> Statuses] /\ file' \in [Sessions -> Files]
      /\ status'[S(t)] = Status(t) /\ file'[S(t)] = File(t)
      /\ \A z \in Sessions \ {S(t)} :
           status'[z] = status[z] /\ file'[z] = file[z]
  BY <1>2, <1>4, <1>5, <1>6
<1> QED
  BY <1>2, <1>3, <1>7, <1>8 DEF Is, Same

(* What a COMMIT of each kind makes of them.                               *)
LEMMA CommitsFacts ==
  ASSUME IInv, DistinctValues, NEW t \in Txs, CommitTx(t)
  PROVE  Commits(t, S(t))
<1> DEFINE s == S(t)
           own == tx[t].own
<1>1. /\ s \in Sessions /\ Good(t)
      /\ tx[t].kind \in {"session", "file", "begin"} \cup Methods
      /\ \/ At(t, "end") /\ tx[t].kind \in Methods \cup {"begin"}
         \/ /\ At(t, "run") /\ tx[t].n > 0
            /\ Is(t, "session") \/ Is(t, "file")
  BY CommitWrites
<1>2. /\ op'[s] = IF own.op = Unset THEN op[s] ELSE own.op
      /\ rec'[s] = IF own.rec = Unset THEN rec[s] ELSE own.rec
      /\ status'[s] = IF own.status = Unset THEN status[s] ELSE own.status
      /\ file'[s] = IF own.file = Unset THEN file[s] ELSE own.file
  BY CommitWrites DEF Op, Rec, Status, File, Seen
<1>3. CASE Is(t, "session")
  <2>1. own.op = Unset /\ own.file \in {Unset, "live"}
        /\ (own # Clear => lock["session"][s] = t /\ ~Pending(op[s]))
    BY <1>1, <1>3 DEF Good, GoodSession
  <2>2. own = Clear => Same(s)
    BY <1>2 DEF Clear, Same
  <2> QED
    BY <1>2, <1>3, <2>1, <2>2 DEF Commits, CommitsSession
<1>4. CASE Is(t, "file")
  <2>1. /\ own.file = Deleted /\ file[s] # None /\ ~Pending(op[s])
        /\ own = JustFile(own.file) /\ own.file # Unset
    BY <1>1, <1>4 DEF Good, GoodFile, At, Is, Methods, Store
  <2>2. own.op = Unset /\ own.rec = Unset /\ own.status = Unset
    BY <2>1 DEF JustFile
  <2> QED
    BY <1>2, <1>4, <2>1, <2>2 DEF Commits, CommitsFile
<1>5. CASE Is(t, "begin")
  <2>1. /\ At(t, "end") /\ Sealed(t) /\ lock["session"][s] = t
        /\ status[s] \in Active /\ file[s] = None /\ op[s].state = "none"
        /\ \A z \in Sessions : ~Pending(op[z])
        /\ own.op = Begun(rec[s]) /\ own = JustOp(own.op) /\ own.op # Unset
    BY <1>1, <1>5 DEF Good, GoodBegin, Sealed, At, Is
  <2>2. own.file = Unset /\ own.rec = Unset /\ own.status = Unset
    BY <2>1 DEF JustOp
  <2> QED
    BY <1>2, <1>5, <2>1, <2>2 DEF Commits, CommitsBegin, Same
<1>6. CASE tx[t].kind \in Methods
  <2>1. At(t, "end") /\ tx[t].pc = "end"
    BY <1>1, <1>6 DEF Methods, Store, Is, At
  <2>2. Owned(t, s) /\ Wrote(t) /\ WroteRows(t)
        /\ (Is(t, "finishCleanup") \/ Is(t, "commit") =>
              lock["session"][s] = t)
    BY <1>1, <1>6, <2>1 DEF Good, GoodMethod, Owned, At
  <2>3. /\ own.rec = IF Is(t, "finishCleanup") THEN NoChunkRows ELSE Unset
        /\ own.status = IF Is(t, "commit") THEN "completed" ELSE Unset
        /\ own.file = IF Is(t, "commit") THEN "live" ELSE Unset
    BY <2>1, <2>2 DEF WroteRows, At
  <2>4. NoChunkRows # Unset /\ "completed" # Unset /\ "live" # Unset
    BY DEF DistinctValues, NoChunkRows, ChunkRows, Statuses, Files
  <2>5. op[s] \in JP!Journal /\ own \in Owns
    BY <1>1 DEF IInv, Types, Transactions
  <2>6. CASE Is(t, "commit")
    <3>1. own.op = [op[s] EXCEPT !.state = "committed"]
      BY <2>2, <2>6 DEF Wrote, Is
    <3>2. own.op # Unset
      <4>1. \A x : x = [op[s] EXCEPT !.state = "committed"] =>
                     x \in JP!Journal
        BY <2>5 DEF JP!Journal, JP!States
      <4> QED
        BY <3>1, <4>1 DEF DistinctValues
    <3> QED
      BY <1>2, <2>2, <2>3, <2>4, <2>6, <3>1, <3>2
      DEF Commits, CommitsCommit, Is
  <2>7. CASE Is(t, "finishCleanup")
    <3>1. own.op = [op[s] EXCEPT !.cleaned = TRUE]
      BY <2>2, <2>7 DEF Wrote, Is
    <3>2. own.op # Unset
      <4>1. \A x : x = [op[s] EXCEPT !.cleaned = TRUE] => x \in JP!Journal
        BY <2>5 DEF JP!Journal
      <4> QED
        BY <3>1, <4>1 DEF DistinctValues
    <3> QED
      BY <1>2, <2>2, <2>3, <2>4, <2>7, <3>1, <3>2
      DEF Commits, CommitsClean, Is
  <2>8. CASE ~Is(t, "commit") /\ ~Is(t, "finishCleanup")
    BY <1>2, <1>6, <2>2, <2>3, <2>8
    DEF Commits, CommitsRecord, Same, Is, Methods, Store
  <2> QED
    BY <2>6, <2>7, <2>8
<1> QED
  BY <1>1, <1>3, <1>4, <1>5, <1>6 DEF Is

(* What the others see of it: of the rows of its session, those it had     *)
(* locked, and its operation was pending or is one that begins.            *)
LEMMA CommitSeen ==
  ASSUME IInv, DistinctValues, NEW t \in Txs, NEW s \in Sessions,
         Commits(t, s)
  PROVE  /\ op'[s] # op[s] =>
              \/ /\ Is(t, "begin") /\ Sealed(t) /\ lock["session"][s] = t
                 /\ \A z \in Sessions : ~Pending(op[z])
                 /\ op[s].state = "none" /\ file[s] = None
              \/ lock["op"][s] = t /\ Pending(op[s])
         /\ rec'[s] # rec[s] \/ status'[s] # status[s] =>
              lock["session"][s] = t
         /\ file'[s] # file[s] => /\ file'[s] # None
                                  /\ lock["session"][s] = t \/ file[s] # None
<1>1. Owned(t, s) => lock["op"][s] = t /\ Pending(op[s])
  BY DEF Owned, Pending, Methods, Store, Wants
<1>2. CASE CommitsSession(t, s)
  BY <1>2 DEF CommitsSession, Same, DistinctValues
<1>3. CASE CommitsFile(t, s)
  BY <1>3 DEF CommitsFile, DistinctValues
<1>4. CASE CommitsBegin(t, s)
  BY <1>4 DEF CommitsBegin, Same
<1>5. CASE CommitsRecord(t, s)
  BY <1>1, <1>5 DEF CommitsRecord, Same
<1>6. CASE CommitsCommit(t, s)
  BY <1>1, <1>6 DEF CommitsCommit, DistinctValues
<1>7. CASE CommitsClean(t, s)
  BY <1>1, <1>7 DEF CommitsClean
<1> QED
  BY <1>2, <1>3, <1>4, <1>5, <1>6, <1>7 DEF Commits

(* The rows others rely on are locked, so a COMMIT spares them.            *)
LEMMA CommitKeepsOthers ==
  ASSUME IInv, DistinctValues, NEW t \in Txs, NEW u \in Txs \ {t},
         CommitTx(t)
  PROVE  Good(u)'
<1> DEFINE s == S(t)
<1>1. /\ s \in Sessions /\ Commits(t, s)
      /\ \A z \in Sessions \ {s} : op'[z] = op[z] /\ Same(z)
  BY CommitWrites, CommitsFacts
<1>2. /\ op'[s] # op[s] =>
              \/ /\ Is(t, "begin") /\ Sealed(t) /\ lock["session"][s] = t
                 /\ \A z \in Sessions : ~Pending(op[z])
                 /\ op[s].state = "none" /\ file[s] = None
              \/ lock["op"][s] = t /\ Pending(op[s])
      /\ rec'[s] # rec[s] \/ status'[s] # status[s] => lock["session"][s] = t
      /\ file'[s] # file[s] => /\ file'[s] # None
                               /\ lock["session"][s] = t \/ file[s] # None
  BY <1>1, CommitSeen
<1>3. /\ tx'[u] = tx[u]
      /\ \A q \in Tables, z \in Sessions : lock[q][z] = u => lock'[q][z] = u
  <2>1. /\ \A q \in Tables, z \in Sessions :
             lock'[q][z] = IF lock[q][z] = t THEN None ELSE lock[q][z]
        /\ \A v \in Txs \ {t} : tx'[v] = tx[v]
    BY ReleasedFacts DEF CommitTx
  <2> QED BY <2>1
<1>4. /\ S(u)' = S(u)
      /\ \A l : (At(u, l)' <=> At(u, l)) /\ (Is(u, l)' <=> Is(u, l))
  BY <1>3 DEF S, At, Is
<1>5. Good(u) /\ (S(u) \in Sessions \/ Is(u, "none"))
  BY DEF IInv, Good, Running
<1>6. \A z \in Sessions : op'[z] # op[z] => z = s
  BY <1>1
<1>7. \A z \in Sessions : rec'[z] # rec[z] \/ status'[z] # status[z]
                          \/ file'[z] # file[z] => z = s
  BY <1>1 DEF Same
<1> HIDE DEF s
<1>8. Running(u)'
  BY <1>3, <1>4, <1>5 DEF Good, Running
<1>9. GoodSession(u)'
  <2>1. SUFFICES ASSUME Is(u, "session"), tx[u].own # Clear
                 PROVE  lock'["session"][S(u)] = u /\ ~Pending(op'[S(u)])
    BY <1>3, <1>4, <1>5 DEF Good, GoodSession, Pending
  <2>2. S(u) \in Sessions /\ lock["session"][S(u)] = u /\ ~Pending(op[S(u)])
    BY <1>5, <2>1 DEF Good, GoodSession, Is
  <2>3. op'[S(u)] = op[S(u)]
    BY <1>2, <1>6, <2>2
  <2> QED
    BY <1>3, <2>2, <2>3 DEF Tables
<1>10. GoodFile(u)'
  <2>1. CASE Is(u, "file") /\ (At(u, "trigger") \/ tx[u].n > 0)
    <3>1. /\ S(u) \in Sessions /\ lock["file"][S(u)] = u
          /\ file[S(u)] # None
          /\ tx[u].own.file # Unset => ~Pending(op[S(u)])
      BY <1>5, <2>1 DEF Good, GoodFile, Is
    <3>2. file'[S(u)] # None /\ lock'["file"][S(u)] = u
      BY <1>2, <1>3, <1>7, <3>1 DEF Tables
    <3>3. ~Pending(op[S(u)]) => op'[S(u)] = op[S(u)]
      BY <1>2, <1>6, <3>1
    <3> QED
      BY <1>3, <1>4, <1>5, <3>1, <3>2, <3>3 DEF Good, GoodFile, Pending
  <2>2. CASE ~(Is(u, "file") /\ (At(u, "trigger") \/ tx[u].n > 0))
    BY <1>3, <1>4, <1>5, <2>2 DEF Good, GoodFile
  <2> QED BY <2>1, <2>2
<1>11. GoodBegin(u)'
  <2>1. CASE Is(u, "begin") /\ ~At(u, "lockSession")
    <3>1. /\ S(u) \in Sessions /\ lock["session"][S(u)] = u
          /\ status[S(u)] \in Active
      BY <1>5, <2>1 DEF Good, GoodBegin, Is
    <3>2. /\ lock'["session"][S(u)] = u /\ status'[S(u)] = status[S(u)]
          /\ rec'[S(u)] = rec[S(u)]
          /\ file[S(u)] = None => file'[S(u)] = None
      BY <1>2, <1>3, <1>7, <3>1 DEF Tables
    <3>3. Sealed(u) => op' [S(u)] = op[S(u)]
                       /\ \A z \in Sessions : ~Pending(op[z]) /\ op'[z] = op[z]
      <4>1. Sealed(u) => \A z \in Sessions : ~Pending(op[z])
        BY <1>5, <2>1 DEF Good, GoodBegin
      <4>2. ~(Sealed(u) /\ Is(t, "begin") /\ Sealed(t))
        BY <2>1 DEF IInv, OneBegins
      <4> QED
        BY <1>2, <1>6, <3>1, <4>1, <4>2
    <3>4. Sealed(u)' <=> Sealed(u)
      BY <1>4 DEF Sealed
    <3> QED
      BY <1>3, <1>4, <1>5, <3>1, <3>2, <3>3, <3>4 DEF Good, GoodBegin, Pending
  <2>2. CASE Is(u, "begin") /\ At(u, "lockSession")
    <3>1. ~Sealed(u)' /\ ~Sealed(u) /\ ~At(u, "insert") /\ ~At(u, "insert")'
      BY <1>4, <2>2 DEF Sealed, At
    <3> QED
      BY <1>3, <1>4, <1>5, <2>2, <3>1 DEF Good, GoodBegin
  <2>3. CASE ~Is(u, "begin")
    BY <1>4, <2>3 DEF GoodBegin
  <2> QED BY <2>1, <2>2, <2>3
<1>12. GoodMethod(u)'
  <2>1. CASE tx[u].kind \in Methods /\ ~At(u, "lockOp")
    <3>1. /\ S(u) \in Sessions /\ lock["op"][S(u)] = u
          /\ op[S(u)].state \in Wants(tx[u].kind)
      BY <1>5, <2>1 DEF Good, GoodMethod, Is, Methods, Store
    <3>2. op[S(u)].state # "none"
      BY <2>1, <3>1 DEF Methods, Store, Wants
    <3>3. op'[S(u)] = op[S(u)]
      BY <1>2, <1>6, <3>1, <3>2
    <3>4. /\ lock'["op"][S(u)] = u
          /\ lock["session"][S(u)] = u => lock'["session"][S(u)] = u
      BY <1>3, <3>1 DEF Tables
    <3>5. Wrote(u)' <=> Wrote(u)
      BY <1>3, <3>3 DEF Wrote, S, Is
    <3>6. WroteRows(u)' <=> WroteRows(u)
      BY <1>3, <1>4 DEF WroteRows
    <3> QED
      BY <1>3, <1>4, <1>5, <2>1, <3>3, <3>4, <3>5, <3>6 DEF Good, GoodMethod
  <2>2. CASE tx[u].kind \in Methods /\ At(u, "lockOp")
    <3>1. WroteRows(u)' <=> WroteRows(u)
      BY <1>3, <1>4 DEF WroteRows
    <3> QED
      BY <1>3, <1>4, <1>5, <2>2, <3>1 DEF Good, GoodMethod, At
  <2>3. CASE tx[u].kind \notin Methods
    BY <1>3, <2>3 DEF GoodMethod
  <2> QED BY <2>1, <2>2, <2>3
<1> QED
  BY <1>8, <1>9, <1>10, <1>11, <1>12 DEF Good

(* A COMMIT keeps the invariant.                                           *)
LEMMA CommitKeeps ==
  ASSUME IInv, DistinctValues, NEW t \in Txs, CommitTx(t)
  PROVE  IInv'
<1> DEFINE s == S(t)
<1>1. /\ s \in Sessions /\ Commits(t, s)
      /\ op' \in [Sessions -> JP!Journal] /\ rec' \in [Sessions -> ChunkRows]
      /\ status' \in [Sessions -> Statuses] /\ file' \in [Sessions -> Files]
      /\ \A z \in Sessions \ {s} : op'[z] = op[z]
  BY CommitWrites, CommitsFacts
<1>2. /\ lock' \in [Tables -> [Sessions -> Txs \cup {None}]]
      /\ \A q \in Tables, z \in Sessions :
           lock'[q][z] = IF lock[q][z] = t THEN None ELSE lock[q][z]
      /\ tx' \in [Txs -> Transactions] /\ tx'[t] = Idle
      /\ \A u \in Txs \ {t} : tx'[u] = tx[u]
  BY ReleasedFacts DEF CommitTx
<1>3. Types'
  BY <1>1, <1>2 DEF Types
<1>4. \A u \in Txs : Good(u)'
  <2>1. ASSUME NEW u \in Txs PROVE Good(u)'
    <3>1. CASE u = t
      BY <1>2, <3>1, IdleGood
    <3>2. CASE u # t
      BY <3>2, CommitKeepsOthers
    <3> QED BY <3>1, <3>2
  <2> QED BY <2>1
<1>5. Held'
  <2>1. SUFFICES ASSUME NEW r \in Tables, NEW z \in Sessions, lock'[r][z] # None
                 PROVE  Holder(r, z, lock[r][z])'
    BY DEF Held
  <2>2. PICK u \in Txs \ {t} : u = lock[r][z] /\ lock'[r][z] = u
    BY <1>2, <2>1 DEF IInv, Types
  <2>3. Holder(r, z, u) /\ tx'[u] = tx[u]
    BY <1>2, <2>1, <2>2 DEF IInv, Held, DistinctValues
  <2> QED
    BY <2>2, <2>3 DEF Holder, S, At, Is
<1>6. OneBegins'
  <2>1. ~Is(t, "begin")'
    BY <1>2 DEF Is, Idle
  <2>2. \A u \in Txs \ {t} : (Is(u, "begin") /\ Sealed(u))' <=>
                             Is(u, "begin") /\ Sealed(u)
    BY <1>2 DEF Is, Sealed, At
  <2> QED
    BY <2>1, <2>2 DEF IInv, OneBegins
<1>7. JP!OneAtATime(op)'
  <2>1. \/ op'[s] = op[s]
        \/ \A z \in Sessions : ~Pending(op[z])
        \/ Pending(op[s])
    BY <1>1, CommitSeen
  <2> HIDE DEF s
  <2>2. op'[s] = op[s] => op' = op
    BY <1>1 DEF IInv, Types
  <2> QED
    BY <1>1, <2>1, <2>2 DEF IInv, JP!OneAtATime, JP!Pending, Pending
<1> QED
  BY <1>3, <1>4, <1>5, <1>6, <1>7 DEF IInv

----------------------------------------------------------------------------
(* The invariant holds initially.                                          *)
LEMMA InitIInv == DistinctValues /\ Init => IInv
<1> SUFFICES ASSUME DistinctValues, Init PROVE IInv
  OBVIOUS
<1>1. \A t \in Txs : tx[t] = Idle
  BY DEF Init
<1>2. /\ Idle.kind = "none" /\ Idle.pc = "idle" /\ Idle.own = Clear
      /\ Idle \in Transactions
  BY DEF Idle, Transactions, Clear, Owns, Labels
<1>3. \A t \in Txs : Good(t) /\ ~Is(t, "begin")
  BY <1>1, <1>2
  DEF Good, Running, GoodSession, GoodFile, GoodBegin, GoodMethod, Is, At,
      Methods, Store
<1>4. NoOp \in JP!Journal /\ ~Pending(NoOp) /\ NoChunkRows \in ChunkRows
  BY DEF NoOp, JP!NoOp, JP!Journal, JP!States, Pending, NoChunkRows, ChunkRows
<1>5. Types
  BY <1>2, <1>4 DEF Init, Types, Statuses, Files
<1>6. Held
  BY DEF Held, Init
<1>7. JP!OneAtATime(op)
  BY <1>4 DEF Init, JP!OneAtATime, JP!Pending, Pending
<1> QED
  BY <1>3, <1>5, <1>6, <1>7 DEF IInv, OneBegins

(* Every step but a COMMIT keeps its own part; a COMMIT keeps everyone's.  *)
LEMMA NextIInv ==
  ASSUME DistinctValues
  PROVE  IInv /\ [Next]_vars => IInv'
<1> SUFFICES ASSUME IInv, [Next]_vars PROVE IInv'
  OBVIOUS
<1>1. ASSUME NEW t \in Txs, ServiceStep(t) PROVE IInv'
  BY <1>1, SessionSteps, TouchFileStep, GuardFileStep, StepKeeps
  DEF ServiceStep
<1>2. ASSUME NEW t \in Txs, StoreStep(t) PROVE IInv'
  BY <1>2, LockSessionStep, CheckManifestStep, InsertOpStep, SealManifestStep,
     LockOpStep, OutcomeSteps, RecordSteps, TransitionStep, CommitAndCleanSteps,
     RowSteps, StepKeeps
  DEF StoreStep
<1>3. ASSUME NEW t \in Txs, NEW k \in Services \cup Store, NEW s \in Sessions,
             Start(t, k, s)
      PROVE  IInv'
  BY <1>3, StartStep, StepKeeps
<1>4. ASSUME NEW t \in Txs, CommitTx(t) \/ Rollback(t) PROVE IInv'
  BY <1>4, CommitKeeps, RollbackStep, StepKeeps
<1>5. CASE UNCHANGED vars
  <2>1. \A t \in Txs : Good(t)'
    BY <1>5, OtherGood DEF vars, IInv
  <2>2. Types' /\ JP!OneAtATime(op)'
    BY <1>5 DEF vars, db, IInv, Types, JP!OneAtATime
  <2>3. Held' /\ OneBegins'
    BY <1>5 DEF vars, IInv, Held, Holder, OneBegins, Sealed, S, At, Is
  <2> QED
    BY <2>1, <2>2, <2>3 DEF IInv
<1> QED
  BY <1>1, <1>2, <1>3, <1>4, <1>5 DEF Next

(* The invariant holds in every reachable state.                           *)
LEMMA IInvHolds ==
  ASSUME DistinctValues
  PROVE  Spec => []IInv
  BY InitIInv, NextIInv, PTL DEF Spec

(* The rows keep the shape of their tables, and a lock belongs to a        *)
(* transaction of its session.                                             *)
THEOREM GuardsTypeCorrect == Spec => []TypeOK
<1>1. IInv => TypeOK
  <2> SUFFICES ASSUME IInv PROVE TypeOK
    OBVIOUS
  <2>1. Statuses = {"none", "completed", "aborted"} \cup Active
    BY GuardsAssumption DEF DistinctValues, Statuses
  <2>2. \A r \in Tables, s \in Sessions :
          lock[r][s] # None => tx[lock[r][s]].s = s
    BY DEF IInv, Held, Holder, S
  <2> QED
    BY <2>1, <2>2 DEF IInv, Types, Files, TypeOK
<1> QED
  BY <1>1, IInvHolds, GuardsAssumption, PTL

----------------------------------------------------------------------------
(* The promise alone.  The invariant, with the type it needs, and what a   *)
(* row without an operation looks like.                                    *)
PConsistent(s) ==
  JP!Pending(op[s]) =>
    /\ JP!Unambiguous(s) /\ op[s].man = rec[s]
    /\ op[s].state # "assembling" => op[s].target
    /\ op[s].state \in {"publishing", "published", "committed"} => op[s].mime

PShape(s) ==
  /\ op[s].state = "none" => op[s] = JP!NoOp
  /\ op[s].cleaned => op[s].state = "committed"

PInv ==
  /\ JP!TypeOK /\ JP!OneAtATime(op)
  /\ \A s \in Sessions : PConsistent(s) /\ PShape(s)

(* No operation is pending at first.                                       *)
LEMMA InitPInv == JP!Init => PInv
  BY DEF NoChunkRows, ChunkRows, JP!Init, PInv, JP!TypeOK, JP!OneAtATime,
      PConsistent, PShape, JP!Pending, JP!NoOp,
      JP!Journal, JP!States

(* A step of one session keeps that session consistent.                    *)
LEMMA PStepConsistent ==
  ASSUME DistinctValues, PInv, JP!Next, NEW s \in Sessions
  PROVE  PConsistent(s)' /\ PShape(s)'
<1> USE DEF JP!Journal, JP!NoOp
<1>1. /\ op[s] \in JP!Journal /\ op'[s] \in JP!Journal
      /\ PConsistent(s) /\ PShape(s) /\ JP!SessionStep(s)
  BY DEF PInv, JP!TypeOK, JP!Next
<1>2. CASE JP!Free(s)
  BY <1>1, <1>2 DEF JP!Free, PConsistent, PShape, JP!Pending
<1>3. CASE JP!Held(s)
  BY <1>1, <1>3 DEF JP!Held, JP!RowsKept, PConsistent, PShape, JP!Pending,
      JP!Unambiguous
<1>4. CASE JP!Begin(s)
  BY <1>1, <1>4, DistinctValues
  DEF DistinctValues, JP!Begin, PConsistent, PShape, JP!Pending,
      JP!Unambiguous, JP!States
<1>5. CASE JP!RecordTarget(s)
  BY <1>1, <1>5
  DEF JP!RecordTarget, JP!RowsKept, PConsistent, PShape, JP!Pending,
      JP!Unambiguous
<1>6. CASE JP!RecordMime(s)
  BY <1>1, <1>6
  DEF JP!RecordMime, JP!RowsKept, PConsistent, PShape, JP!Pending,
      JP!Unambiguous
<1>7. CASE JP!Advance(s)
  <2>1. PICK to \in JP!States :
          /\ <<op[s].state, to>> \in JP!Follows
          /\ to = "publishing" => op[s].mime
          /\ op'[s] = [op[s] EXCEPT !.state = to]
    BY <1>7 DEF JP!Advance
  <2>2. /\ op[s].state \in {"assembling", "verified", "publishing"}
        /\ to \in {"verified", "publishing", "published"}
        /\ to = "published" => op[s].state = "publishing"
    BY <2>1 DEF JP!Follows
  <2>3. op'[s].state = to /\ op'[s].man = op[s].man
        /\ op'[s].target = op[s].target /\ op'[s].mime = op[s].mime
        /\ op'[s].cleaned = op[s].cleaned
    BY <1>1, <2>1
  <2>4. JP!RowsKept(s) /\ op[s].target /\ ~op[s].cleaned
    BY <1>1, <1>7, <2>2 DEF JP!Advance, PShape
  <2> QED
    BY <1>1, <2>1, <2>2, <2>3, <2>4
    DEF JP!RowsKept, PConsistent, PShape, JP!Pending, JP!Unambiguous
<1>8. CASE JP!Commit(s)
  BY <1>1, <1>8 DEF JP!Commit, PConsistent, PShape, JP!Pending, JP!Unambiguous
<1>9. CASE JP!Clean(s)
  BY <1>1, <1>9 DEF JP!Clean, PConsistent, PShape, JP!Pending, JP!Unambiguous
<1> QED
  BY <1>1, <1>2, <1>3, <1>4, <1>5, <1>6, <1>7, <1>8, <1>9 DEF JP!SessionStep

(* The promise keeps its own invariant.                                    *)
LEMMA NextPInv ==
  ASSUME DistinctValues
  PROVE  PInv /\ [JP!Next]_(JP!vars) => PInv'
<1> SUFFICES ASSUME PInv, [JP!Next]_(JP!vars) PROVE PInv'
  OBVIOUS
<1>1. CASE JP!Next
  <2>1. JP!TypeOK' /\ JP!OneAtATime(op)'
    BY <1>1 DEF JP!Next, JP!TypeOK, JP!OneAtATime
  <2>2. \A s \in Sessions : (PConsistent(s) /\ PShape(s))'
    BY <1>1, PStepConsistent
  <2> QED
    BY <2>1, <2>2 DEF PInv
<1>2. CASE UNCHANGED JP!vars
  BY <1>2
  DEF JP!vars, PInv, JP!TypeOK, JP!OneAtATime, PConsistent, PShape,
      JP!Pending, JP!Unambiguous
<1> QED
  BY <1>1, <1>2

(* The invariant of the promise, in every state of the promise.            *)
LEMMA PInvHolds ==
  ASSUME DistinctValues
  PROVE  JP!Spec => []PInv
  BY InitPInv, NextPInv, PTL DEF JP!Spec

(* A pending operation is never ambiguous: session, File and chunk rows    *)
(* are what its state says, and no other operation is pending.             *)
THEOREM JournalNeverAmbiguous == JP!Spec => []JP!NeverAmbiguous
<1>1. PInv => JP!NeverAmbiguous
  BY DEF PInv, JP!NeverAmbiguous, PConsistent
<1> QED
  BY <1>1, PInvHolds, GuardsAssumption, PTL

(* The step of one session that Receipt speaks of.                         *)
PKept(s) ==
  op[s].state # "none" =>
    /\ op'[s].state # "none" /\ op'[s].man = op[s].man
    /\ op[s].state = "committed" => op'[s].state = "committed"
    /\ op[s].cleaned => op'[s] = op[s]

(* No step of the promise takes back a receipt.                            *)
LEMMA PStepKept ==
  ASSUME PInv, JP!Next, NEW s \in Sessions
  PROVE  PKept(s)
<1>1. /\ op[s] \in JP!Journal /\ op'[s] \in JP!Journal
      /\ PShape(s) /\ JP!SessionStep(s)
  BY DEF PInv, JP!TypeOK, JP!Next
<1>2. CASE JP!Free(s) \/ JP!Held(s)
  BY <1>2 DEF JP!Free, JP!Held, PKept
<1>3. CASE JP!Begin(s)
  BY <1>3 DEF JP!Begin, PKept
<1>4. CASE JP!RecordTarget(s) \/ JP!RecordMime(s)
  BY <1>1, <1>4 DEF JP!RecordTarget, JP!RecordMime, PKept, PShape, JP!Journal
<1>5. CASE JP!Advance(s)
  BY <1>1, <1>5 DEF JP!Advance, JP!Follows, PKept, PShape, JP!Journal
<1>6. CASE JP!Commit(s) \/ JP!Clean(s)
  BY <1>1, <1>6 DEF JP!Commit, JP!Clean, JP!Pending, PKept, PShape, JP!Journal
<1> QED
  BY <1>1, <1>2, <1>3, <1>4, <1>5, <1>6 DEF JP!SessionStep

(* A journal row is a receipt: it stays, and so do its manifest and what   *)
(* it says was committed.                                                  *)
THEOREM JournalIsReceipt == JP!Spec => JP!Receipt
<1>1. PInv /\ [JP!Next]_(JP!vars) => [\A s \in Sessions : PKept(s)]_(JP!vars)
  BY PStepKept DEF JP!vars
<1>2. [\A s \in Sessions : PKept(s)]_(JP!vars) =>
        [\A s \in Sessions : op[s].state # "none" =>
           /\ op'[s].state # "none" /\ op'[s].man = op[s].man
           /\ op[s].state = "committed" => op'[s].state = "committed"
           /\ op[s].cleaned => op'[s] = op[s]]_(JP!vars)
  BY DEF PKept, JP!vars
<1> QED
  BY <1>1, <1>2, PInvHolds, GuardsAssumption, PTL DEF JP!Spec, JP!Receipt

----------------------------------------------------------------------------
(* The statements keep the promise: what a COMMIT makes of its session is  *)
(* a step of JournalPromise.                                               *)
LEMMA CommitIsStep ==
  ASSUME IInv, DistinctValues, NEW t \in Txs, NEW s \in Sessions,
         Commits(t, s), S(t) = s, rec'[s] \in ChunkRows
  PROVE  JP!SessionStep(s)
<1>1. op[s] \in JP!Journal
  BY DEF IInv, Types
<1>2. ASSUME Owned(t, s)
      PROVE  Pending(op[s]) /\ ~op[s].cleaned
             /\ op[s].state \in Wants(tx[t].kind)
  BY <1>2 DEF Owned, Pending, Methods, Store, Wants
<1>3. Same(s) <=> JP!RowsKept(s)
  BY DEF Same, JP!RowsKept
<1>4. CASE CommitsSession(t, s)
  BY <1>3, <1>4 DEF CommitsSession, JP!SessionStep, JP!Free, JP!Held,
     JP!Pending, Pending
<1>5. CASE CommitsFile(t, s)
  BY <1>5 DEF CommitsFile, JP!SessionStep, JP!Free, JP!Pending, Pending
<1>6. CASE CommitsBegin(t, s)
  <2>1. JP!NoOp \in JP!Journal /\ JP!NoOp.target = FALSE
        /\ JP!NoOp.mime = FALSE /\ JP!NoOp.cleaned = FALSE
    BY DEF JP!NoOp, JP!Journal, JP!States, NoChunkRows, ChunkRows
  <2>2. ASSUME NEW n \in JP!Journal, NEW m \in ChunkRows, NEW x,
               x = [n EXCEPT !.state = "assembling", !.man = m]
        PROVE  x = [state |-> "assembling", man |-> m, target |-> n.target,
                    mime |-> n.mime, cleaned |-> n.cleaned]
    BY <2>2 DEF JP!Journal
  <2>3. Begun(rec'[s]) =
          [JP!NoOp EXCEPT !.state = "assembling", !.man = rec'[s]]
    BY <2>1, <2>2 DEF Begun
  <2>4. JP!Begin(s)
    BY <1>6, <2>3 DEF CommitsBegin, Same, JP!Begin
  <2> QED
    BY <2>4 DEF JP!SessionStep
<1>7. CASE CommitsRecord(t, s)
  <2>1. Owned(t, s) /\ JP!RowsKept(s) /\ Wrote(t)
    BY <1>3, <1>7 DEF CommitsRecord
  <2>2. CASE op'[s] = op[s]
    BY <1>2, <2>1, <2>2 DEF JP!SessionStep, JP!Held, JP!Pending, Pending
  <2>3. CASE op'[s] # op[s] /\ Is(t, "recordTarget")
    <3>1. op'[s] = [op[s] EXCEPT !.target = TRUE] /\ S(t) = s
      BY <1>7, <2>1, <2>3
      DEF CommitsRecord, Wrote, Is
    <3>2. JP!RecordTarget(s)
      BY <1>2, <2>1, <2>3, <3>1 DEF JP!RecordTarget, Wants, Is
    <3> QED
      BY <3>2 DEF JP!SessionStep
  <2>4. CASE op'[s] # op[s] /\ Is(t, "recordMimeType")
    <3>1. op'[s] = [op[s] EXCEPT !.mime = TRUE] /\ S(t) = s
      BY <1>7, <2>1, <2>4
      DEF CommitsRecord, Wrote, Is
    <3>2. JP!RecordMime(s)
      BY <1>2, <2>1, <2>4, <3>1 DEF JP!RecordMime, Wants, Is
    <3> QED
      BY <3>2 DEF JP!SessionStep
  <2>5. CASE op'[s] # op[s] /\ Is(t, "transition")
    <3>1. S(t) = s /\ op'[s] = tx[t].own.op
      BY <1>7, <2>1, <2>5 DEF CommitsRecord
    <3>2. /\ op[s].target
          /\ \E to \in {"verified", "publishing", "published"} :
               /\ op'[s] = [op[s] EXCEPT !.state = to]
               /\ <<op[s].state, to>> \in JP!Follows
               /\ to = "publishing" => op[s].mime
      BY <2>1, <2>5, <3>1 DEF Wrote, Is
    <3>3. JP!Advance(s)
      BY <2>1, <3>2 DEF JP!Advance, JP!States
    <3> QED
      BY <3>3 DEF JP!SessionStep
  <2> QED
    BY <1>7, <2>2, <2>3, <2>4, <2>5 DEF CommitsRecord, Is
<1>8. CASE CommitsCommit(t, s)
  <2>1. op[s].state = "published"
    BY <1>2, <1>8 DEF CommitsCommit, Wants, Is
  <2> QED
    BY <1>8, <2>1 DEF CommitsCommit, JP!SessionStep, JP!Commit
<1>9. CASE CommitsClean(t, s)
  <2>1. op[s].state = "committed" /\ JP!Pending(op[s])
    BY <1>2, <1>9 DEF CommitsClean, Wants, Is, Pending, JP!Pending
  <2> QED
    BY <1>9, <2>1 DEF CommitsClean, JP!SessionStep, JP!Clean
<1> QED
  BY <1>4, <1>5, <1>6, <1>7, <1>8, <1>9 DEF Commits

(* Every step of the statements is one of the promise, or a stutter.       *)
LEMMA StepIsStep ==
  ASSUME DistinctValues
  PROVE  IInv /\ [Next]_vars => [JP!Next]_(JP!vars)
<1> SUFFICES ASSUME IInv, [Next]_vars PROVE JP!Next \/ UNCHANGED JP!vars
  OBVIOUS
<1>1. ASSUME NEW t \in Txs, CommitTx(t) PROVE JP!Next
  <2>1. /\ S(t) \in Sessions /\ Commits(t, S(t))
        /\ op' \in [Sessions -> JP!Journal] /\ rec' \in [Sessions -> ChunkRows]
        /\ \A z \in Sessions \ {S(t)} : op'[z] = op[z] /\ Same(z)
    BY <1>1, CommitWrites, CommitsFacts
  <2>2. JP!SessionStep(S(t))
    BY <2>1, CommitIsStep
  <2>3. \A z \in Sessions \ {S(t)} : JP!SessionStep(z)
    BY <2>1 DEF JP!SessionStep, JP!Free, JP!Held, JP!RowsKept, Same
  <2>4. JP!OneAtATime(op')
    BY <1>1, CommitKeeps DEF IInv, JP!OneAtATime
  <2> QED
    BY <2>1, <2>2, <2>3, <2>4 DEF JP!Next
<1>2. ASSUME NEW t \in Txs, ServiceStep(t) \/ StoreStep(t) \/ Rollback(t)
      PROVE  UNCHANGED db
  BY <1>2
  DEF ServiceStep, StoreStep, Rollback, InsertSession, UpdateSession,
      DeleteSession, WriteChunk, InsertFile, TouchFile, GuardFile, LockSession,
      CheckManifest, InsertOp, SealManifest, LockOp, OutcomeFirst,
      OutcomeSecond, RecordTarget, RecordMimeType, Transition, CommitOp,
      CommitFile, Complete, CleanOp, PurgeRows, WriteOp
<1>3. \/ UNCHANGED vars
      \/ \E t \in Txs : \/ \E k \in Services \cup Store, s \in Sessions :
                             Start(t, k, s)
                        \/ CommitTx(t)
                        \/ ServiceStep(t) \/ StoreStep(t) \/ Rollback(t)
  BY DEF Next
<1> QED
  BY <1>1, <1>2, <1>3 DEF Start, vars, db, JP!vars

(* Seen from the commits alone, statements interleaved as they may be and  *)
(* transactions failing anywhere, the store and the triggers keep what the *)
(* journal promises.                                                       *)
THEOREM GuardsKeepPromise == Spec => KeepsPromise
<1>1. Init => JP!Init
  BY DEF Init, JP!Init, NoOp
<1> QED
  BY <1>1, StepIsStep, IInvHolds, GuardsAssumption, PTL
  DEF Spec, KeepsPromise, JP!Spec

(* Hence no interleaving of anybody's statements ever leaves a pending     *)
(* operation ambiguous, and a journal row stays a receipt.                 *)
THEOREM StatementsNeverAmbiguous == Spec => []NeverAmbiguous
BY GuardsKeepPromise, JournalNeverAmbiguous, PTL
DEF KeepsPromise, NeverAmbiguous

(* Nor do the statements: rows, manifests and outcomes stay.               *)
THEOREM StatementsKeepReceipt == Spec => JP!Receipt
BY GuardsKeepPromise, JournalIsReceipt, PTL DEF KeepsPromise

----------------------------------------------------------------------------
(* Nobody waits in a circle.  The order is journal row, File row, session  *)
(* row, and last the unique index: whoever is waited for waits further     *)
(* along, or not at all.                                                   *)
Stands(t) == WaitsFor(t) = {}
WaitsForSession(t) ==
  WaitsFor(t) \subseteq {lock["session"][S(t)]} \ {None, t}
WaitsForFile(t) == WaitsFor(t) \subseteq {lock["file"][S(t)]} \ {None, t}
WaitsForOp(t) == WaitsFor(t) \subseteq {lock["op"][S(t)]} \ {None, t}

(* What each waits for, by its place.                                      *)
LEMMA WaitPlaces ==
  ASSUME IInv, DistinctValues, NEW t \in Txs
  PROVE  /\ tx[t].pc \in {"lockSession", "trigger", "file", "complete",
                          "purge", "outcome2"} => WaitsForSession(t)
         /\ tx[t].pc = "outcome" => WaitsForFile(t)
         /\ tx[t].pc = "lockOp" => WaitsForOp(t)
         /\ tx[t].pc = "insert" => WaitsFor(t) = Undecided(t)
         /\ tx[t].pc = "run" /\ Is(t, "file") => WaitsForFile(t)
         /\ tx[t].pc = "run" /\ ~Is(t, "file") => WaitsForSession(t)
         /\ tx[t].pc \in {"idle", "check", "seal", "write", "end"} => Stands(t)
<1> USE DEF WaitsFor, At
<1>1. ASSUME tx[t].pc \in {"lockSession", "trigger", "file", "complete",
                           "purge", "outcome2"}
      PROVE  WaitsForSession(t)
  BY <1>1 DEF WaitsForSession, Order
<1>2. ASSUME tx[t].pc = "outcome" PROVE WaitsForFile(t)
  BY <1>2 DEF WaitsForFile, Order
<1>3. ASSUME tx[t].pc = "lockOp" PROVE WaitsForOp(t)
  BY <1>3 DEF WaitsForOp
<1>4. ASSUME tx[t].pc = "insert" PROVE WaitsFor(t) = Undecided(t)
  BY <1>4
<1>5. ASSUME tx[t].pc = "run", Is(t, "file") PROVE WaitsForFile(t)
  BY <1>5 DEF WaitsForFile
<1>6. ASSUME tx[t].pc = "run", ~Is(t, "file") PROVE WaitsForSession(t)
  BY <1>6 DEF WaitsForSession
<1>7. ASSUME tx[t].pc \in {"idle", "check", "seal", "write", "end"}
      PROVE  Stands(t)
  BY <1>7 DEF Stands
<1> QED
  BY <1>1, <1>2, <1>3, <1>4, <1>5, <1>6, <1>7

(* Who waits does so at a session.                                         *)
LEMMA WaiterHasSession ==
  ASSUME IInv, NEW t \in Txs, WaitsFor(t) # {}
  PROVE  S(t) \in Sessions
<1>1. ~At(t, "idle")
  BY DEF WaitsFor, At
<1> QED
  BY <1>1 DEF IInv, Good, Running

(* Who has the session's lock waits at most for an index.                  *)
LEMMA SessionHolderWaits ==
  ASSUME IInv, DistinctValues, NEW t \in Txs, NEW s \in Sessions,
         lock["session"][s] = t
  PROVE  Stands(t) \/ WaitsFor(t) = Undecided(t)
<1>1. Holder("session", s, t) /\ S(t) = s
  BY DEF IInv, Held, DistinctValues, Tables, Holder
<1>2. WaitsForSession(t) => Stands(t)
  BY <1>1 DEF WaitsForSession, Stands
<1>3. \/ Is(t, "session") \/ (Is(t, "file") /\ At(t, "run") /\ tx[t].n > 0)
      \/ tx[t].pc \in {"check", "insert", "seal", "end", "write", "file",
                       "complete", "purge"}
  BY <1>1 DEF Holder
<1>4. CASE Is(t, "session")
  <2>1. tx[t].pc = "run" /\ ~Is(t, "file")
    BY <1>4 DEF IInv, Good, GoodSession, At, Is
  <2> QED
    BY <1>2, <2>1, WaitPlaces
<1>5. CASE Is(t, "file") /\ At(t, "run") /\ tx[t].n > 0
  <2>1. lock["file"][s] = t
    BY <1>1, <1>5 DEF IInv, Good, GoodFile
  <2>2. WaitsForFile(t)
    BY <1>5, WaitPlaces DEF At
  <2> QED
    BY <1>1, <2>1, <2>2 DEF WaitsForFile, Stands
<1>6. CASE tx[t].pc \in {"check", "insert", "seal", "end", "write", "file",
                         "complete", "purge"}
  BY <1>2, <1>6, WaitPlaces
<1> QED
  BY <1>3, <1>4, <1>5, <1>6

(* Who inserts or cleans an operation waits for nobody any more.           *)
LEMMA UndecidedStands ==
  ASSUME IInv, DistinctValues, NEW t \in Txs, NEW u \in Undecided(t)
  PROVE  u \in Txs /\ Stands(u)
<1>1. /\ u \in Txs /\ tx[u].own.op # Unset
      /\ Is(u, "begin") \/ Is(u, "finishCleanup")
  BY DEF Undecided, Is
<1>2. CASE Is(u, "begin")
  <2>1. Sealed(u)
    BY <1>1, <1>2 DEF IInv, Good, GoodBegin
  <2> QED
    BY <1>1, <2>1, WaitPlaces DEF Sealed, At
<1>3. CASE Is(u, "finishCleanup")
  <2>1. /\ tx[u].kind \in Methods /\ GoodMethod(u) /\ S(u) \in Sessions
    BY <1>1, <1>3 DEF IInv, Good, Running, Is, Methods, Store, At
  <2>2. tx[u].pc \in {"purge", "end"}
    BY <1>1, <1>3, <2>1 DEF GoodMethod, Visits, Is
  <2>3. lock["session"][S(u)] = u
    BY <1>3, <2>1, <2>2 DEF GoodMethod
  <2>4. WaitsForSession(u) \/ Stands(u)
    BY <1>1, <2>2, WaitPlaces
  <2> QED
    BY <1>1, <2>3, <2>4 DEF WaitsForSession, Stands
<1> QED
  BY <1>1, <1>2, <1>3

(* Who holds a File row waits for a session at most.                       *)
LEMMA FileHolderWaits ==
  ASSUME IInv, DistinctValues, NEW t \in Txs, NEW s \in Sessions,
         lock["file"][s] = t
  PROVE  Stands(t) \/ WaitsForSession(t)
<1>1. Holder("file", s, t) /\ S(t) = s
  BY DEF IInv, Held, DistinctValues, Tables, Holder
<1>2. \/ Is(t, "file") /\ (At(t, "trigger") \/ tx[t].n > 0)
      \/ tx[t].pc \in {"outcome2", "write", "file", "complete", "purge", "end"}
  BY <1>1 DEF Holder
<1>3. CASE Is(t, "file")
  <2>1. tx[t].pc \in {"run", "trigger"}
    BY <1>3 DEF IInv, Good, GoodFile, At
  <2>2. WaitsForFile(t) => Stands(t)
    BY <1>1 DEF WaitsForFile, Stands
  <2> QED
    BY <1>3, <2>1, <2>2, WaitPlaces
<1>4. CASE tx[t].pc \in {"outcome2", "write", "file", "complete", "purge",
                         "end"}
  BY <1>4, WaitPlaces
<1> QED
  BY <1>2, <1>3, <1>4

(* Who holds a journal row waits for a session or a File at most.          *)
LEMMA OpHolderWaits ==
  ASSUME IInv, DistinctValues, NEW t \in Txs, NEW s \in Sessions,
         lock["op"][s] = t
  PROVE  Stands(t) \/ WaitsForSession(t) \/ WaitsForFile(t)
<1>1. tx[t].kind \in Methods /\ ~At(t, "lockOp")
  BY DEF IInv, Held, DistinctValues, Tables, Holder
<1>2. tx[t].pc \in {"outcome", "outcome2", "write", "file", "complete",
                    "purge", "end"}
  BY <1>1 DEF IInv, Good, GoodMethod, Methods, Store, Visits, At
<1> QED
  BY <1>2, WaitPlaces

(* What a transaction may wait for, by where it is.                        *)
LEMMA WaitsHow ==
  ASSUME IInv, DistinctValues, NEW t \in Txs
  PROVE  \/ Stands(t) \/ WaitsFor(t) = Undecided(t)
         \/ WaitsForSession(t) \/ WaitsForFile(t) \/ WaitsForOp(t)
<1>1. tx[t].pc \in Labels
  BY DEF IInv, Types, Transactions
<1> QED
  BY <1>1, WaitPlaces DEF Labels

(* From anyone in a set, going along whom it waits for comes, within four  *)
(* steps, to one that waits for nobody in the set.                         *)
LEMMA NobodyInACircle == DistinctValues /\ IInv => NoLockCycle
<1> SUFFICES ASSUME DistinctValues, IInv, NEW c \in SUBSET Txs, c # {}
             PROVE  \E t \in c : WaitsFor(t) \cap c = {}
  BY DEF NoLockCycle
<1> DEFINE Last(t) == WaitsFor(t) \cap c = {}
<1>1. \A t \in c : Stands(t) => Last(t)
  BY DEF Stands
<1>2. ASSUME NEW t \in c, WaitsFor(t) = Undecided(t)
      PROVE  \E u \in c : Last(u)
  <2>1. CASE Last(t)
    BY <2>1
  <2>2. CASE ~Last(t)
    <3>1. PICK u \in c : u \in Undecided(t)
      BY <1>2, <2>2
    <3> QED
      BY <1>1, <3>1, UndecidedStands
  <2> QED BY <2>1, <2>2
<1>3. ASSUME NEW t \in c, WaitsForSession(t)
      PROVE  \E u \in c : Last(u)
  <2>1. CASE Last(t)
    BY <2>1
  <2>2. CASE ~Last(t)
    <3>1. PICK u \in c : u \in WaitsFor(t)
      BY <2>2
    <3>2. u = lock["session"][S(t)] /\ S(t) \in Sessions
      BY <1>3, <3>1, WaiterHasSession DEF WaitsForSession
    <3>3. Stands(u) \/ WaitsFor(u) = Undecided(u)
      BY <3>2, SessionHolderWaits
    <3> QED
      BY <1>1, <1>2, <3>3
  <2> QED BY <2>1, <2>2
<1>4. ASSUME NEW t \in c, WaitsForFile(t)
      PROVE  \E u \in c : Last(u)
  <2>1. CASE Last(t)
    BY <2>1
  <2>2. CASE ~Last(t)
    <3>1. PICK u \in c : u \in WaitsFor(t)
      BY <2>2
    <3>2. u = lock["file"][S(t)] /\ S(t) \in Sessions
      BY <1>4, <3>1, WaiterHasSession DEF WaitsForFile
    <3>3. Stands(u) \/ WaitsForSession(u)
      BY <3>2, FileHolderWaits
    <3> QED
      BY <1>1, <1>3, <3>3
  <2> QED BY <2>1, <2>2
<1>5. ASSUME NEW t \in c, WaitsForOp(t)
      PROVE  \E u \in c : Last(u)
  <2>1. CASE Last(t)
    BY <2>1
  <2>2. CASE ~Last(t)
    <3>1. PICK u \in c : u \in WaitsFor(t)
      BY <2>2
    <3>2. u = lock["op"][S(t)] /\ S(t) \in Sessions
      BY <1>5, <3>1, WaiterHasSession DEF WaitsForOp
    <3>3. Stands(u) \/ WaitsForSession(u) \/ WaitsForFile(u)
      BY <3>2, OpHolderWaits
    <3> QED
      BY <1>1, <1>3, <1>4, <3>3
  <2> QED BY <2>1, <2>2
<1>6. PICK t \in c : TRUE
  OBVIOUS
<1> QED
  BY <1>1, <1>2, <1>3, <1>4, <1>5, <1>6, WaitsHow

(* The transactions never wait for each other in a circle.                 *)
THEOREM LocksNeverCycle == Spec => []NoLockCycle
BY IInvHolds, NobodyInACircle, GuardsAssumption, PTL
============================================================================
