----------------------- MODULE SsdFinalizationProofs -----------------------
(***************************************************************************)
(* Proofs about SsdFinalization, for any sessions, handlers, chunks,       *)
(* contents, sizes and quota, and any number of errors, crashes and power  *)
(* failures; and about FinalizationPins, for any identities and any number *)
(* of replacements and errors.                                             *)
(*                                                                         *)
(* A File's object is durable because of what the journal says of the      *)
(* artifact, and when: each state of an operation names the places where a *)
(* whole and synced artifact may be (Artifact), a handler is at a step     *)
(* only if state and artifact are what the step needs (Work), and nobody   *)
(* else changes either meanwhile, because whoever does holds the flock     *)
(* (Locked) and because the tables' guards leave the rows of a pending     *)
(* operation alone (Journalled).                                           *)
(*                                                                         *)
(* A worker of FinalizationPins touches nothing but its own files because  *)
(* one worker at a time is past the lock, with the source root for itself  *)
(* (Owns, OneOwns), and because what it compares with is what it has       *)
(* created or opened itself, or the journal's record (Knows, Recorded).    *)
(***************************************************************************)
EXTENDS Finalizations, TLAPS

Operation == [state: States, man: Rows, target: BOOLEAN, mime: BOOLEAN,
              cleaned: BOOLEAN]
Copy == [place: Places, named: Places, bytes: Rows, synced: BOOLEAN]
Worker == [op: {"idle", "create", "chunk", "finalize", "recover", "abort"},
           pc: Labels, s: Sessions \cup {None}, i: 0..NChunks,
           c: Contents \cup {None}]

\* What the proofs need of TypeOK, whose bounds on used are about sums.
Types ==
  /\ status \in [Sessions -> {"none", "completed", "aborted"} \cup Active]
  /\ rec \in [Sessions -> Rows] /\ chunk \in [Sessions -> Rows]
  /\ op \in [Sessions -> Operation] /\ art \in [Sessions -> Copy]
  /\ file \in [Sessions -> {None, "live", Deleted}]
  /\ dir \in [Sessions -> BOOLEAN]
  /\ w \in [Handlers -> Worker]

\* Who is at work holds the flock.
Locked == \A p \in Handlers : w[p].pc \notin {"idle", "reopen"} => lock = p

Whole(s) == art[s].synced /\ art[s].bytes = Want[s]

\* What a handler relies on at each step.
WorkOK(r) ==
  LET s == r.s IN
  r.pc # "idle" =>
    /\ s \in Sessions
    /\ r.pc = "mkdir" => ~Pending(s) /\ status[s] \in Active
    /\ r.pc \in {"store", "row"} =>
         r.i \in Chunks /\ r.c \in Contents /\ rec[s][r.i] \in {None, r.c}
    /\ r.pc = "row" => SsdDecays \/ chunk[s][r.i] = r.c
    /\ r.pc = "purge" => ~Pending(s) /\ status[s] = "aborted"
    /\ r.pc \in {"create", "record", "assemble", "mark"} =>
         op[s].state = "assembling"
    /\ r.pc \in {"record", "assemble", "mark"} => art[s].place = "temp"
    /\ r.pc \in {"assemble", "mark"} => op[s].target /\ art[s].named = "temp"
    /\ r.pc = "mark" => Whole(s)
    /\ r.pc \in {"mime", "intent"} => op[s].state = "verified"
    /\ r.pc = "intent" => op[s].mime
    /\ r.pc \in {"rename", "sync", "settle"} => op[s].state = "publishing"
    /\ r.pc = "settle" => art[s].place = "final" /\ art[s].named = "final"
    /\ r.pc = "commit" => op[s].state = "published"
    /\ r.pc = "inspect" =>
         Pending(s) /\ (art[s].place # "none" => op[s].target)
    /\ r.pc \in {"preflight", "remove"} =>
         op[s].state = "committed" /\ Pending(s)

Work == \A p \in Handlers : WorkOK(w[p])

Durable(s) == art[s].place = "final" /\ art[s].named = "final" /\ Whole(s)

\* Where the artifact may be, and what of it is certain, in each state.
Artifact(s) ==
  /\ art[s].place = "none" =>
       art[s].named = "none" /\ art[s].bytes = NoRows /\ ~art[s].synced
  /\ op[s].state = "none" => art[s].place = "none"
  /\ op[s].state = "assembling" =>
       art[s].place \in {"none", "temp"} /\ art[s].named \in {"none", "temp"}
  /\ op[s].state = "verified" =>
       art[s].place = "temp" /\ art[s].named = "temp" /\ Whole(s)
  /\ op[s].state = "publishing" =>
       /\ art[s].place \in {"temp", "final"}
       /\ art[s].named \in {"temp", "final"} /\ Whole(s)
  /\ op[s].state \in {"published", "committed"} /\ Pending(s) => Durable(s)
  /\ file[s] = "live" => Durable(s)

\* A pending operation's rows are what it was begun with and what its state
\* says; only a committed one is ever over.
Journalled(s) ==
  /\ Pending(s) =>
       /\ Unambiguous(s) /\ op[s].man = rec[s]
       /\ op[s].state # "assembling" => op[s].target
       /\ op[s].state \in {"publishing", "published", "committed"} =>
            op[s].mime
  /\ op[s].cleaned => op[s].state = "committed"

\* Only a completed upload has a File.
Filed(s) == file[s] = "live" => status[s] = "completed"

\* What SourceKept says of one session, while the SSD does not decay; a session
\* without a row has no chunks.
Source(s) ==
  /\ status[s] = "none" => rec[s] = NoRows
  /\ ~SsdDecays /\ status[s] \in Active =>
       \A i \in Chunks : rec[s][i] # None => chunk[s][i] = rec[s][i]

Good(s) == Artifact(s) /\ Journalled(s) /\ Filed(s) /\ Source(s)

Single == \A s, t \in Sessions : Pending(s) /\ Pending(t) => s = t

IInv == Types /\ Locked /\ Work /\ (\A s \in Sessions : Good(s)) /\ Single

(***************************************************************************)
(* Values, and the frame of a step                                         *)
(***************************************************************************)
\* What a row, an artifact, an operation and a handler begin as.
LEMMA InitialValues ==
  /\ NoRows \in Rows /\ NoArt \in Copy /\ NoOp \in Operation
  /\ Idle \in Worker /\ Idle.pc = "idle"
  /\ NoArt.place = "none" /\ NoArt.named = "none" /\ NoArt.bytes = NoRows
  /\ ~NoArt.synced
  /\ NoOp.state = "none" /\ ~NoOp.cleaned
<1>1. NoRows \in Rows
  BY DEF NoRows, Rows
<1> QED
  BY <1>1, ConstantsAssumption
  DEF NoArt, Copy, NoOp, Operation, Idle, Worker, Places, States, Labels

\* A body has every chunk, and there is one at least.
LEMMA WantFacts ==
  ASSUME NEW s \in Sessions
  PROVE  /\ Want[s] \in Rows /\ Want[s] # NoRows
         /\ \A i \in Chunks : Want[s][i] \in Contents /\ Want[s][i] # None
<1>1. /\ Want[s] \in [Chunks -> Contents] /\ None \notin Contents
      /\ 1 \in Chunks
  BY ConstantsAssumption DEF Chunks
<1>2. NoRows[1] = None
  BY <1>1 DEF NoRows
<1> QED
  BY <1>1, <1>2 DEF Rows

\* A session none of whose rows and files change.
Same(s) ==
  /\ op'[s] = op[s] /\ rec'[s] = rec[s] /\ status'[s] = status[s]
  /\ file'[s] = file[s] /\ art'[s] = art[s] /\ chunk'[s] = chunk[s]

\* It stays as good as it was.
LEMMA GoodFrame ==
  ASSUME NEW s \in Sessions, Good(s), Same(s)
  PROVE  Good(s)' /\ (Pending(s)' <=> Pending(s))
BY DEF Same, Good, Artifact, Journalled, Filed, Source, Pending, Unambiguous,
       Durable, Whole

\* Only one handler moves, and it holds the flock while it is at work.
Moved(p) ==
  /\ w' \in [Handlers -> Worker]
  /\ \A q \in Handlers \ {p} : w'[q] = w[q]
  /\ w'[p].pc \notin {"idle", "reopen"} => lock' = p

\* A step of a handler that has the flock, or takes it while it is free,
\* about one session.
LEMMA SessionStep ==
  ASSUME IInv, NEW p \in Handlers, NEW s \in Sessions, lock \in {p, None},
         Types', Moved(p), WorkOK(w[p])', Good(s)',
         \A t \in Sessions \ {s} : Same(t),
         \/ Pending(s)' => Pending(s)
         \/ \A t \in Sessions : ~Pending(t)
  PROVE  IInv'
<1> USE DEF IInv
<1>1. \A t \in Sessions \ {s} : Good(t)' /\ (Pending(t)' <=> Pending(t))
  BY GoodFrame
<1>2. Single'
  BY <1>1 DEF Single
<1>3. ASSUME NEW q \in Handlers \ {p}
      PROVE  /\ w'[q] = w[q] /\ w[q].pc \in {"idle", "reopen"}
             /\ WorkOK(w[q])'
  <2>1. w'[q] = w[q]
    BY DEF Moved
  <2>2. w[q].pc \in {"idle", "reopen"}
    BY ConstantsAssumption DEF Locked
  <2>3. w[q].pc # "idle" => w[q].s \in Sessions
    BY DEF Work, WorkOK
  <2> QED
    BY <2>1, <2>2, <2>3 DEF WorkOK
<1>4. Locked'
  BY <1>3 DEF Locked, Moved
<1>5. Work'
  BY <1>3 DEF Work
<1> QED
  BY <1>1, <1>2, <1>4, <1>5

\* A step of a handler that changes no row and no file but the directory.
LEMMA QuietStep ==
  ASSUME IInv, NEW p \in Handlers, NEW r \in Worker, WorkOK(r),
         lock \in {p, None}, w' = [w EXCEPT ![p] = r],
         r.pc \notin {"idle", "reopen"} => lock' = p,
         UNCHANGED <<status, rec, op, file, chunk, art>>,
         dir' \in [Sessions -> BOOLEAN]
  PROVE  IInv'
<1> USE DEF IInv
<1>1. /\ w' \in [Handlers -> Worker] /\ w'[p] = r
      /\ \A q \in Handlers \ {p} : w'[q] = w[q]
  BY DEF Types
<1>2. Types'
  BY <1>1 DEF Types
<1>3. \A s \in Sessions : Good(s)' /\ (Pending(s)' <=> Pending(s))
  BY GoodFrame DEF Same
<1>4. Single'
  BY <1>3 DEF Single
<1>5. \A q \in Handlers \ {p} : w[q].pc \in {"idle", "reopen"}
  BY ConstantsAssumption DEF Locked
<1>6. Locked'
  BY <1>1, <1>5 DEF Locked
<1>7. \A q \in Handlers : WorkOK(w'[q])
  BY <1>1 DEF Work
<1>8. Work'
  BY <1>7 DEF Work, WorkOK, Pending, Whole
<1> QED
  BY <1>2, <1>3, <1>4, <1>6, <1>8

\* Who is at work has the flock, and what it relies on.
LEMMA AtWork ==
  ASSUME IInv, NEW p \in Handlers, w[p].pc \notin {"idle", "reopen"}
  PROVE  /\ lock = p /\ w[p] \in Worker /\ WorkOK(w[p])
         /\ w[p].s \in Sessions /\ Good(w[p].s)
BY DEF IInv, Types, Locked, Work, WorkOK

\* The ways a handler moves.
LEMMA GotoFacts ==
  ASSUME Types, NEW p \in Handlers, NEW l \in Labels, Goto(p, l), lock' = p
  PROVE  /\ Moved(p) /\ w'[p].pc = l /\ w'[p].s = w[p].s
         /\ w'[p].i = w[p].i /\ w'[p].c = w[p].c
<1> DEFINE r == [w[p] EXCEPT !.pc = l]
<1>1. w[p] \in Worker /\ w' = [w EXCEPT ![p] = r]
  BY DEF Types, Goto
<1>2. /\ r \in Worker /\ r.pc = l /\ r.s = w[p].s /\ r.i = w[p].i
      /\ r.c = w[p].c
  BY <1>1 DEF Worker
<1> HIDE DEF r
<1> QED
  BY <1>1, <1>2 DEF Types, Moved

\* A handler that begins.
LEMMA StartFacts ==
  ASSUME Types, NEW p \in Handlers, NEW s \in Sessions, NEW l \in Labels,
         NEW o \in {"create", "finalize", "recover", "abort"},
         Start(p, o, l, s), lock' = p
  PROVE  /\ Moved(p) /\ w'[p].pc = l /\ w'[p].s = s /\ w'[p].i = 0
<1> DEFINE r == [Idle EXCEPT !.op = o, !.pc = l, !.s = s]
<1>1. w' = [w EXCEPT ![p] = r]
  BY DEF Start
<1>2. Idle.i = 0
  BY DEF Idle
<1>3. /\ r \in Worker /\ r.pc = l /\ r.s = s /\ r.i = 0
  BY <1>2, InitialValues DEF Worker
<1> HIDE DEF r
<1> QED
  BY <1>1, <1>3 DEF Types, Moved

\* Done leaves nothing to rely on.
LEMMA DoneFacts ==
  ASSUME Types, NEW p \in Handlers, Done(p)
  PROVE  Moved(p) /\ w'[p].pc = "idle" /\ WorkOK(w[p])'
<1>1. Moved(p) /\ w'[p].pc = "idle"
  BY InitialValues DEF Types, Moved, Done
<1> QED
  BY <1>1 DEF WorkOK

\* A handler that ends and changed nothing; others may be at work.
LEMMA DoneStep ==
  ASSUME IInv, NEW p \in Handlers, Done(p),
         UNCHANGED <<status, rec, op, file, chunk, art>>,
         dir' \in [Sessions -> BOOLEAN]
  PROVE  IInv'
<1> USE DEF IInv
<1>1. Moved(p) /\ w'[p].pc = "idle" /\ WorkOK(w[p])'
  BY DoneFacts
<1>2. Types'
  BY <1>1 DEF Types, Moved
<1>3. \A s \in Sessions : Good(s)' /\ (Pending(s)' <=> Pending(s))
  BY GoodFrame DEF Same
<1>4. Single'
  BY <1>3 DEF Single
<1>5. ASSUME NEW q \in Handlers \ {p}
      PROVE  /\ WorkOK(w[q])'
             /\ w'[q].pc \notin {"idle", "reopen"} => lock' = q
  <2>1. w'[q] = w[q]
    BY <1>1 DEF Moved
  <2>2. WorkOK(w[q])'
    BY <2>1 DEF Work, WorkOK, Pending, Whole
  <2> QED
    BY <2>1, <2>2 DEF Locked, Done
<1>6. Locked' /\ Work'
  BY <1>1, <1>5 DEF Locked, Work
<1> QED
  BY <1>2, <1>3, <1>4, <1>6

\* A handler that goes on and changed nothing.
LEMMA GotoStep ==
  ASSUME IInv, NEW p \in Handlers, NEW l \in Labels, Goto(p, l), lock = p,
         lock' = lock, WorkOK([w[p] EXCEPT !.pc = l]),
         UNCHANGED <<status, rec, op, file, chunk, art>>,
         dir' \in [Sessions -> BOOLEAN]
  PROVE  IInv'
<1> DEFINE r == [w[p] EXCEPT !.pc = l]
<1>1. w[p] \in Worker /\ w' = [w EXCEPT ![p] = r]
  BY DEF IInv, Types, Goto
<1>2. r \in Worker
  BY <1>1 DEF Worker
<1>3. WorkOK(r)
  OBVIOUS
<1> HIDE DEF r
<1> QED
  BY <1>1, <1>2, <1>3, QuietStep

\* Only the artifact changes.
LEMMA ArtStep ==
  ASSUME IInv, NEW p \in Handlers, NEW s \in Sessions, lock = p, Moved(p),
         art' \in [Sessions -> Copy],
         \A t \in Sessions \ {s} : art'[t] = art[t],
         UNCHANGED <<status, rec, op, file, dir, chunk>>,
         Artifact(s)', WorkOK(w[p])'
  PROVE  IInv'
<1>1. Types'
  BY DEF IInv, Types, Moved
<1>2. \A t \in Sessions \ {s} : Same(t)
  BY DEF Same
<1>3. Journalled(s)' /\ Filed(s)' /\ Source(s)' /\ (Pending(s)' => Pending(s))
  BY DEF IInv, Good, Journalled, Filed, Source, Pending, Unambiguous
<1> QED
  BY <1>1, <1>2, <1>3, SessionStep DEF Good

\* Only the journal row changes.
LEMMA OpStep ==
  ASSUME IInv, NEW p \in Handlers, NEW s \in Sessions, lock = p, Moved(p),
         op' \in [Sessions -> Operation],
         \A t \in Sessions \ {s} : op'[t] = op[t],
         UNCHANGED <<status, rec, file, dir, chunk, art>>,
         Artifact(s)', Journalled(s)', WorkOK(w[p])',
         Pending(s)' => Pending(s)
  PROVE  IInv'
<1>1. Types'
  BY DEF IInv, Types, Moved
<1>2. \A t \in Sessions \ {s} : Same(t)
  BY DEF Same
<1>3. Filed(s)' /\ Source(s)'
  BY DEF IInv, Good, Filed, Source
<1> QED
  BY <1>1, <1>2, <1>3, SessionStep DEF Good

\* Initially nothing was uploaded.
LEMMA InitInv == Init => IInv
<1> SUFFICES ASSUME Init PROVE IInv
  OBVIOUS
<1>1. Types
  BY InitialValues DEF Init, Types
<1>2. Locked /\ Work
  BY InitialValues DEF Init, Locked, Work, WorkOK
<1>3. ASSUME NEW s \in Sessions PROVE Good(s) /\ ~Pending(s)
  <2>1. op[s] = NoOp /\ art[s] = NoArt /\ file[s] = None /\ rec[s] = NoRows
    BY DEF Init
  <2>2. \A i \in Chunks : NoRows[i] = None
    BY DEF NoRows
  <2> QED
    BY <2>1, <2>2, InitialValues, ConstantsAssumption
    DEF Good, Artifact, Journalled, Filed, Source, Pending
<1> QED
  BY <1>1, <1>2, <1>3 DEF IInv, Single

(***************************************************************************)
(* Sessions and their chunks                                               *)
(***************************************************************************)
\* createUploadSession: a new session has neither operation nor chunks.
LEMMA CreateStep ==
  ASSUME IInv, NEW p \in Handlers, NEW s \in Sessions, Create(p, s)
  PROVE  IInv'
<1>1. Moved(p) /\ w'[p].pc = "mkdir" /\ w'[p].s = s
  BY StartFacts DEF Create, IInv, Labels
<1>2. Types'
  BY <1>1 DEF Create, IInv, Types, Moved, Active, fsVars
<1>3. \A t \in Sessions \ {s} : Same(t)
  BY DEF Create, IInv, Types, Same, fsVars
<1>4. Good(s) /\ status[s] = "none" /\ status'[s] = "pending"
  BY DEF Create, IInv, Types
<1>5. ~Pending(s)
  BY <1>4 DEF Good, Journalled, Unambiguous, Active
<1>6. rec[s] = NoRows /\ \A i \in Chunks : rec[s][i] = None
  BY <1>4 DEF Good, Source, NoRows
<1>7. Good(s)' /\ ~Pending(s)'
  BY <1>4, <1>5, <1>6 DEF Good, Artifact, Journalled, Filed, Source, Pending,
     Unambiguous, Durable, Whole, Create, fsVars
<1>8. WorkOK(w[p])'
  BY <1>1, <1>4, <1>7 DEF WorkOK, Active
<1> QED
  BY <1>1, <1>2, <1>3, <1>7, <1>8, SessionStep DEF Create

\* Its directory.
LEMMA MkdirStep ==
  ASSUME IInv, NEW p \in Handlers, Mkdir(p)
  PROVE  IInv'
<1>1. dir' \in [Sessions -> BOOLEAN]
  BY DEF Mkdir, IInv, Types
<1> QED
  BY <1>1, DoneStep DEF Mkdir, dbVars

\* Its directory cannot be made: the session is over, or left as it is.
LEMMA MkdirFailsStep ==
  ASSUME IInv, NEW p \in Handlers, MkdirFails(p)
  PROVE  IInv'
<1>0. PICK s \in Sessions : s = w[p].s
  BY AtWork DEF MkdirFails, At
<1>1. /\ Good(s) /\ ~Pending(s) /\ status[s] \in Active
      /\ lock = p
  BY <1>0, AtWork DEF MkdirFails, At, WorkOK
<1>2. Moved(p) /\ WorkOK(w[p])'
  BY DoneFacts DEF MkdirFails, IInv
<1>3. dir' \in [Sessions -> BOOLEAN]
  BY DEF MkdirFails, IInv, Types
<1>4. CASE status' = status
  BY <1>3, <1>4, DoneStep DEF MkdirFails
<1>5. CASE status' = [status EXCEPT ![s] = "aborted"]
  <2>1. Types'
    BY <1>1, <1>2, <1>3, <1>5 DEF MkdirFails, IInv, Types, Moved
  <2>2. \A t \in Sessions \ {s} : Same(t)
    BY <1>5 DEF MkdirFails, IInv, Types, Same
  <2>3. status'[s] = "aborted"
    BY <1>1, <1>5 DEF IInv, Types
  <2>4. Good(s)' /\ ~Pending(s)'
    BY <1>1, <2>3 DEF Good, Artifact, Journalled, Filed, Source, Pending,
       Unambiguous, Durable, Whole, MkdirFails, Active
  <2> QED
    BY <1>1, <1>2, <2>1, <2>2, <2>4, SessionStep
<1> QED
  BY <1>0, <1>4, <1>5 DEF MkdirFails

\* A chunk's content is what its row says, if it has one.
LEMMA ChunkBeginStep ==
  ASSUME IInv, NEW p \in Handlers, NEW s \in Sessions, NEW i \in Chunks,
         NEW c \in Contents, ChunkBegin(p, s, i, c)
  PROVE  IInv'
<1> DEFINE r == [op |-> "chunk", pc |-> "store", s |-> s, i |-> i, c |-> c]
<1>1. r \in Worker /\ r.pc = "store"
  BY ConstantsAssumption DEF Worker, Labels, Chunks
<1>2. WorkOK(r)
  BY DEF WorkOK, ChunkBegin
<1>3. w' = [w EXCEPT ![p] = r]
  BY DEF ChunkBegin
<1> HIDE DEF r
<1>4. dir' \in [Sessions -> BOOLEAN]
  BY DEF ChunkBegin, IInv, Types, fsVars
<1> QED
  BY <1>1, <1>2, <1>3, <1>4, QuietStep DEF ChunkBegin, dbVars, fsVars

\* Its file.
LEMMA ChunkStoreStep ==
  ASSUME IInv, NEW p \in Handlers, ChunkStore(p)
  PROVE  IInv'
<1>0. PICK s \in Sessions, i \in Chunks, c \in Contents :
        s = w[p].s /\ i = w[p].i /\ c = w[p].c
  BY AtWork DEF ChunkStore, At, WorkOK
<1>1. /\ Good(s) /\ lock = p /\ rec[s][i] \in {None, c}
  BY <1>0, AtWork DEF ChunkStore, At, WorkOK
<1>2. /\ Moved(p) /\ w'[p].pc = "row" /\ w'[p].s = s /\ w'[p].i = i
      /\ w'[p].c = c
  BY <1>0, <1>1, GotoFacts DEF ChunkStore, IInv, Labels
<1>3. /\ chunk' \in [Sessions -> Rows] /\ chunk'[s][i] = c
      /\ \A j \in Chunks \ {i} : chunk'[s][j] = chunk[s][j]
      /\ \A t \in Sessions \ {s} : chunk'[t] = chunk[t]
  BY <1>0, <1>1 DEF ChunkStore, IInv, Types, Rows
<1>4. Types'
  BY <1>2, <1>3 DEF ChunkStore, IInv, Types, Moved, dbVars
<1>5. \A t \in Sessions \ {s} : Same(t)
  BY <1>3 DEF ChunkStore, Same, dbVars
<1>6. Good(s)' /\ (Pending(s)' => Pending(s))
  <2>1. UNCHANGED <<status, rec, op, file, art>>
    BY DEF ChunkStore, dbVars
  <2>2. /\ Artifact(s)' /\ Journalled(s)' /\ Filed(s)'
        /\ Pending(s)' => Pending(s)
    BY <1>1, <2>1 DEF Good, Artifact, Journalled, Filed, Pending,
       Unambiguous, Durable, Whole
  <2>3. Source(s)'
    BY <1>0, <1>1, <1>3, <2>1 DEF Good, Source
  <2> QED
    BY <2>2, <2>3 DEF Good
<1>7. WorkOK(w[p])'
  BY <1>1, <1>2, <1>3 DEF WorkOK, ChunkStore, dbVars
<1> QED
  BY <1>1, <1>2, <1>4, <1>5, <1>6, <1>7, SessionStep

\* Its row: the file is there, or the SSD decays.
LEMMA ChunkCommitStep ==
  ASSUME IInv, NEW p \in Handlers, ChunkCommit(p)
  PROVE  IInv'
<1>0. PICK s \in Sessions, i \in Chunks, c \in Contents :
        s = w[p].s /\ i = w[p].i /\ c = w[p].c
  BY AtWork DEF ChunkCommit, At, WorkOK
<1>1. /\ Good(s) /\ lock = p
      /\ SsdDecays \/ chunk[s][i] = c
      /\ ~Pending(s) /\ status[s] \in Active
  BY <1>0, AtWork DEF ChunkCommit, At, WorkOK, Unreserved
<1>2. Moved(p) /\ WorkOK(w[p])'
  BY DoneFacts DEF ChunkCommit, IInv
<1>3. /\ rec' \in [Sessions -> Rows] /\ rec'[s][i] = c
      /\ \A j \in Chunks \ {i} : rec'[s][j] = rec[s][j]
      /\ \A t \in Sessions \ {s} : rec'[t] = rec[t]
  BY <1>0, <1>1 DEF ChunkCommit, IInv, Types, Rows
<1>4. /\ status' \in [Sessions ->
                        {"none", "completed", "aborted"} \cup Active]
      /\ status'[s] = "uploading"
      /\ \A t \in Sessions \ {s} : status'[t] = status[t]
  BY <1>0, <1>1 DEF ChunkCommit, IInv, Types, Active
<1>5. Types'
  BY <1>2, <1>3, <1>4 DEF ChunkCommit, IInv, Types, Moved, fsVars
<1>6. \A t \in Sessions \ {s} : Same(t)
  BY <1>3, <1>4 DEF ChunkCommit, Same, fsVars
<1>7. Good(s)' /\ ~Pending(s)'
  <2>1. UNCHANGED <<op, file, art, chunk>>
    BY DEF ChunkCommit, fsVars
  <2>2. Artifact(s)' /\ Journalled(s)' /\ Filed(s)' /\ ~Pending(s)'
    BY <1>1, <1>4, <2>1 DEF Good, Artifact, Journalled, Filed, Pending,
       Durable, Whole, Active
  <2>3. Source(s)'
    BY <1>1, <1>3, <1>4, <2>1 DEF Good, Source, Active
  <2> QED
    BY <2>2, <2>3 DEF Good
<1> QED
  BY <1>1, <1>2, <1>5, <1>6, <1>7, SessionStep

(***************************************************************************)
(* finalize(): from the journal row to the verified copy                   *)
(***************************************************************************)
\* The manifest is what the rows say, and no artifact is there yet.
LEMMA FinalizeBeginStep ==
  ASSUME IInv, NEW p \in Handlers, NEW s \in Sessions, FinalizeBegin(p, s)
  PROVE  IInv'
<1>1. Moved(p) /\ w'[p].pc = "create" /\ w'[p].s = s
  BY StartFacts DEF FinalizeBegin, IInv, Labels
<1> DEFINE r == [NoOp EXCEPT !.state = "assembling", !.man = rec[s]]
<1>2. /\ r \in Operation /\ r.state = "assembling" /\ r.man = rec[s]
      /\ r.target = NoOp.target /\ r.cleaned = NoOp.cleaned
  BY InitialValues DEF Operation, States, IInv, Types
<1>3. op' = [op EXCEPT ![s] = r]
  BY DEF FinalizeBegin
<1> HIDE DEF r
<1>4. /\ op' \in [Sessions -> Operation] /\ op'[s] = r
      /\ \A t \in Sessions \ {s} : op'[t] = op[t]
  BY <1>2, <1>3 DEF IInv, Types
<1>5. Types'
  BY <1>1, <1>4 DEF FinalizeBegin, IInv, Types, Moved, fsVars
<1>6. \A t \in Sessions \ {s} : Same(t)
  BY <1>4 DEF FinalizeBegin, Same, fsVars
<1>7. Good(s)'
  BY <1>2, <1>4, InitialValues, ConstantsAssumption
  DEF IInv, Good, Artifact, Journalled, Filed, Source, Pending, Unambiguous,
      FinalizeBegin, fsVars
<1>8. WorkOK(w[p])'
  BY <1>1, <1>2, <1>4 DEF WorkOK
<1> QED
  BY <1>1, <1>5, <1>6, <1>7, <1>8, SessionStep DEF FinalizeBegin

\* While an artifact is assembled its operation is pending, without a File.
LEMMA Assembling ==
  ASSUME NEW s \in Sessions, Good(s),
         op[s].state \in {"assembling", "verified", "publishing", "published"}
  PROVE  Pending(s) /\ Unambiguous(s) /\ file[s] # "live"
BY ConstantsAssumption DEF Good, Journalled, Pending, Unambiguous

\* createTemporary.
LEMMA CreateTempStep ==
  ASSUME IInv, NEW p \in Handlers, CreateTemp(p)
  PROVE  IInv'
<1>0. PICK s \in Sessions : s = w[p].s
  BY AtWork DEF CreateTemp, At
<1>1. /\ lock = p /\ Good(s) /\ op[s].state = "assembling"
      /\ file[s] # "live"
  BY <1>0, AtWork, Assembling DEF CreateTemp, At, WorkOK
<1>2. Moved(p) /\ w'[p].pc = "record" /\ w'[p].s = s
  BY <1>0, <1>1, GotoFacts DEF CreateTemp, IInv, Labels
<1> DEFINE r == [NoArt EXCEPT !.place = "temp"]
<1>3. r \in Copy /\ r.place = "temp" /\ r.named = "none"
  BY InitialValues DEF Copy, Places
<1>4. art' = [art EXCEPT ![s] = r]
  BY <1>0 DEF CreateTemp
<1> HIDE DEF r
<1>5. /\ art' \in [Sessions -> Copy] /\ art'[s] = r
      /\ \A t \in Sessions \ {s} : art'[t] = art[t]
  BY <1>3, <1>4 DEF IInv, Types
<1>6. Artifact(s)'
  BY <1>1, <1>3, <1>5 DEF CreateTemp, dbVars, Artifact
<1>7. WorkOK(w[p])'
  BY <1>1, <1>2, <1>3, <1>5 DEF CreateTemp, dbVars, WorkOK
<1> QED
  BY <1>1, <1>2, <1>5, <1>6, <1>7, ArtStep DEF CreateTemp, dbVars

\* The temporary's name is synced before its inode is recorded.
LEMMA RecordTargetStep ==
  ASSUME IInv, NEW p \in Handlers, RecordTarget(p)
  PROVE  IInv'
<1>0. PICK s \in Sessions : s = w[p].s
  BY AtWork DEF RecordTarget, At
<1>1. /\ lock = p /\ Good(s) /\ op[s].state = "assembling"
      /\ file[s] # "live" /\ art[s].place = "temp" /\ Pending(s)
  BY <1>0, AtWork, Assembling DEF RecordTarget, At, WorkOK
<1>2. Moved(p) /\ w'[p].pc = "assemble" /\ w'[p].s = s
  BY <1>0, <1>1, GotoFacts DEF RecordTarget, IInv, Labels
<1>3. /\ art' \in [Sessions -> Copy]
      /\ art'[s].named = "temp" /\ art'[s].place = art[s].place
      /\ \A t \in Sessions \ {s} : art'[t] = art[t]
  <2> DEFINE r == [art[s] EXCEPT !.named = "temp"]
  <2>1. r \in Copy /\ r.named = "temp" /\ r.place = art[s].place
    BY DEF IInv, Types, Copy, Places
  <2>2. art' = [art EXCEPT ![s] = r]
    BY <1>0 DEF RecordTarget
  <2> QED
    BY <2>1, <2>2 DEF IInv, Types
<1>4. /\ op' \in [Sessions -> Operation]
      /\ op'[s].target = TRUE /\ op'[s].state = op[s].state
      /\ op'[s].man = op[s].man /\ op'[s].cleaned = op[s].cleaned
      /\ \A t \in Sessions \ {s} : op'[t] = op[t]
  BY <1>0 DEF RecordTarget, IInv, Types, Operation
<1>5. Types'
  BY <1>2, <1>3, <1>4 DEF RecordTarget, IInv, Types, Moved
<1>6. \A t \in Sessions \ {s} : Same(t)
  BY <1>3, <1>4 DEF RecordTarget, Same
<1>7. Good(s)'
  BY <1>1, <1>3, <1>4 DEF RecordTarget, Good, Artifact, Journalled, Filed,
     Source, Pending, Unambiguous
<1>8. WorkOK(w[p])'
  BY <1>1, <1>2, <1>3, <1>4 DEF WorkOK
<1> QED
  BY <1>1, <1>2, <1>5, <1>6, <1>7, <1>8, SessionStep

\* assemble: a copy that is not whole yet, and nobody relies on it.
LEMMA AppendChunkStep ==
  ASSUME IInv, NEW p \in Handlers, NEW i \in Chunks, AppendChunk(p, i)
  PROVE  IInv'
<1>0. PICK s \in Sessions : s = w[p].s
  BY AtWork DEF AppendChunk, At
<1>1. /\ lock = p /\ Good(s) /\ op[s].state = "assembling"
      /\ file[s] # "live" /\ art[s].place = "temp" /\ WorkOK(w[p])
  BY <1>0, AtWork, Assembling DEF AppendChunk, At, WorkOK
<1>2. /\ art' \in [Sessions -> Copy]
      /\ art'[s].named = art[s].named /\ art'[s].place = "temp"
      /\ \A t \in Sessions \ {s} : art'[t] = art[t]
  <2> DEFINE r == [art[s] EXCEPT !.bytes = [@ EXCEPT ![i] = chunk[s][i]]]
  <2>1. [art[s].bytes EXCEPT ![i] = chunk[s][i]] \in Rows
    BY DEF IInv, Types, Copy, Rows
  <2>2. r \in Copy /\ r.named = art[s].named /\ r.place = art[s].place
    BY <2>1 DEF IInv, Types, Copy
  <2>3. art' = [art EXCEPT ![s] = r]
    BY <1>0 DEF AppendChunk
  <2> QED
    BY <1>1, <2>2, <2>3 DEF IInv, Types
<1>3. Artifact(s)'
  BY <1>1, <1>2 DEF AppendChunk, dbVars, Good, Artifact
<1>4. CASE UNCHANGED <<w, lock>>
  <2>1. w'[p] = w[p] /\ Moved(p)
    BY <1>1, <1>4 DEF IInv, Types, Moved
  <2>2. WorkOK(w[p])'
    BY <1>0, <1>1, <1>2, <2>1 DEF WorkOK, At, AppendChunk, dbVars
  <2> QED
    BY <1>1, <1>2, <1>3, <2>1, <2>2, ArtStep DEF AppendChunk, dbVars
<1>5. CASE Done(p)
  BY <1>1, <1>2, <1>3, <1>5, ArtStep, DoneFacts DEF IInv, AppendChunk, dbVars
<1> QED
  BY <1>4, <1>5 DEF AppendChunk

\* The digest of the whole was compared before the copy is synced.
LEMMA SealTempStep ==
  ASSUME IInv, NEW p \in Handlers, SealTemp(p)
  PROVE  IInv'
<1>0. PICK s \in Sessions : s = w[p].s
  BY AtWork DEF SealTemp, At
<1>1. /\ lock = p /\ Good(s) /\ op[s].state = "assembling"
      /\ file[s] # "live" /\ art[s].place = "temp" /\ WorkOK(w[p])
      /\ op[s].target /\ art[s].named = "temp" /\ art[s].bytes = Want[s]
  BY <1>0, AtWork, Assembling DEF SealTemp, At, WorkOK, Sealable
<1>2. Moved(p) /\ w'[p].pc = "mark" /\ w'[p].s = s
  BY <1>0, <1>1, GotoFacts DEF SealTemp, IInv, Labels
<1>3. /\ art' \in [Sessions -> Copy]
      /\ art'[s].named = "temp" /\ art'[s].place = "temp"
      /\ art'[s].bytes = Want[s] /\ art'[s].synced
      /\ \A t \in Sessions \ {s} : art'[t] = art[t]
  <2> DEFINE r == [art[s] EXCEPT !.synced = TRUE]
  <2>1. /\ r \in Copy /\ r.named = art[s].named /\ r.place = art[s].place
        /\ r.bytes = art[s].bytes /\ r.synced
    BY DEF IInv, Types, Copy
  <2>2. art' = [art EXCEPT ![s] = r]
    BY <1>0 DEF SealTemp
  <2> QED
    BY <1>1, <2>1, <2>2 DEF IInv, Types
<1>4. Artifact(s)'
  BY <1>1, <1>3 DEF SealTemp, dbVars, Artifact
<1>5. WorkOK(w[p])'
  BY <1>1, <1>2, <1>3 DEF WorkOK, Whole, SealTemp, dbVars
<1> QED
  BY <1>1, <1>2, <1>3, <1>4, <1>5, ArtStep DEF SealTemp, dbVars

\* The journal row takes another state.
LEMMA StateFacts ==
  ASSUME Types, NEW s \in Sessions, NEW to \in States,
         op' = [op EXCEPT ![s].state = to]
  PROVE  /\ op' \in [Sessions -> Operation]
         /\ op'[s].state = to /\ op'[s].man = op[s].man
         /\ op'[s].target = op[s].target /\ op'[s].mime = op[s].mime
         /\ op'[s].cleaned = op[s].cleaned
         /\ \A t \in Sessions \ {s} : op'[t] = op[t]
<1> DEFINE r == [op[s] EXCEPT !.state = to]
<1>1. /\ r \in Operation /\ r.state = to /\ r.man = op[s].man
      /\ r.target = op[s].target /\ r.mime = op[s].mime
      /\ r.cleaned = op[s].cleaned
  BY DEF Types, Operation
<1>2. op' = [op EXCEPT ![s] = r]
  OBVIOUS
<1> HIDE DEF r
<1> QED
  BY <1>1, <1>2 DEF Types

\* finalize() goes on, recover() inspects what there is once more.
LEMMA ThenFacts ==
  ASSUME Types, NEW p \in Handlers, NEW l \in Labels, Then(p, l), lock' = p
  PROVE  Moved(p) /\ w'[p].pc \in {"inspect", l} /\ w'[p].s = w[p].s
<1> DEFINE k == IF w[p].op = "recover" THEN "inspect" ELSE l
<1>1. k \in Labels /\ k \in {"inspect", l} /\ Goto(p, k)
  BY DEF Then, Labels
<1> HIDE DEF k
<1> QED
  BY <1>1, GotoFacts

\* The copy that is marked is whole, synced and named.
LEMMA MarkVerifiedStep ==
  ASSUME IInv, NEW p \in Handlers, MarkVerified(p)
  PROVE  IInv'
<1>0. PICK s \in Sessions : s = w[p].s
  BY AtWork DEF MarkVerified, At
<1>1. /\ lock = p /\ Good(s) /\ op[s].state = "assembling"
      /\ Pending(s) /\ file[s] # "live" /\ art[s].place = "temp"
      /\ op[s].target /\ art[s].named = "temp" /\ Whole(s)
  BY <1>0, AtWork, Assembling DEF MarkVerified, At, WorkOK
<1>2. Moved(p) /\ w'[p].pc \in {"inspect", "mime"} /\ w'[p].s = s
  BY <1>0, <1>1, ThenFacts DEF MarkVerified, IInv, Labels
<1>3. /\ op' \in [Sessions -> Operation]
      /\ op'[s].state = "verified" /\ op'[s].man = op[s].man
      /\ op'[s].target = op[s].target /\ op'[s].mime = op[s].mime
      /\ op'[s].cleaned = op[s].cleaned
      /\ \A t \in Sessions \ {s} : op'[t] = op[t]
  BY <1>0, StateFacts DEF MarkVerified, Advance, IInv, States
<1>4. Artifact(s)' /\ Journalled(s)' /\ Pending(s)'
  BY <1>1, <1>3 DEF MarkVerified, fsVars, Good, Artifact, Journalled, Whole,
     Pending, Unambiguous
<1>5. WorkOK(w[p])'
  BY <1>1, <1>2, <1>3, <1>4 DEF WorkOK
<1> QED
  BY <1>1, <1>2, <1>3, <1>4, <1>5, OpStep DEF MarkVerified, fsVars

\* The sniffed type.
LEMMA MimeStep ==
  ASSUME IInv, NEW p \in Handlers, Mime(p)
  PROVE  IInv'
<1>0. PICK s \in Sessions : s = w[p].s
  BY AtWork DEF Mime, At
<1>1. /\ lock = p /\ Good(s) /\ op[s].state = "verified"
      /\ Pending(s) /\ file[s] # "live"
  BY <1>0, AtWork, Assembling DEF Mime, At, WorkOK
<1>2. Moved(p) /\ w'[p].pc = "intent" /\ w'[p].s = s
  BY <1>0, <1>1, GotoFacts DEF Mime, IInv, Labels
<1>3. /\ op' \in [Sessions -> Operation]
      /\ op'[s].state = op[s].state /\ op'[s].man = op[s].man
      /\ op'[s].target = op[s].target /\ op'[s].mime = TRUE
      /\ op'[s].cleaned = op[s].cleaned
      /\ \A t \in Sessions \ {s} : op'[t] = op[t]
  BY <1>0 DEF Mime, IInv, Types, Operation
<1>4. Artifact(s)' /\ Journalled(s)'
  BY <1>1, <1>3 DEF Mime, fsVars, Good, Artifact, Journalled, Whole,
     Pending, Unambiguous
<1>5. WorkOK(w[p])'
  BY <1>1, <1>2, <1>3, <1>4 DEF WorkOK
<1> QED
  BY <1>1, <1>2, <1>3, <1>4, <1>5, OpStep DEF Mime, fsVars

(***************************************************************************)
(* Publication: intent, rename, sync, and the transaction of the File      *)
(***************************************************************************)
\* The type is recorded before the intent.
LEMMA IntentStep ==
  ASSUME IInv, NEW p \in Handlers, Intent(p)
  PROVE  IInv'
<1>0. PICK s \in Sessions : s = w[p].s
  BY AtWork DEF Intent, At
<1>1. /\ lock = p /\ Good(s) /\ op[s].state = "verified" /\ op[s].mime
      /\ Pending(s) /\ file[s] # "live"
  BY <1>0, AtWork, Assembling DEF Intent, At, WorkOK
<1>2. Moved(p) /\ w'[p].pc = "rename" /\ w'[p].s = s
  BY <1>0, <1>1, GotoFacts DEF Intent, IInv, Labels
<1>3. /\ op' \in [Sessions -> Operation]
      /\ op'[s].state = "publishing" /\ op'[s].man = op[s].man
      /\ op'[s].target = op[s].target /\ op'[s].mime = op[s].mime
      /\ op'[s].cleaned = op[s].cleaned
      /\ \A t \in Sessions \ {s} : op'[t] = op[t]
  BY <1>0, StateFacts DEF Intent, Advance, IInv, States
<1>4. Artifact(s)' /\ Journalled(s)'
  BY <1>1, <1>3 DEF Intent, fsVars, Good, Artifact, Journalled, Whole,
     Pending, Unambiguous
<1>5. WorkOK(w[p])'
  BY <1>2, <1>3 DEF WorkOK
<1> QED
  BY <1>1, <1>2, <1>3, <1>4, <1>5, OpStep DEF Intent, fsVars

\* The copy takes its final name; after a power failure it may have the old.
LEMMA RenameStep ==
  ASSUME IInv, NEW p \in Handlers, Rename(p)
  PROVE  IInv'
<1>0. PICK s \in Sessions : s = w[p].s
  BY AtWork DEF Rename, At
<1>1. /\ lock = p /\ Good(s) /\ op[s].state = "publishing"
      /\ Pending(s) /\ file[s] # "live"
  BY <1>0, AtWork, Assembling DEF Rename, At, WorkOK
<1>2. Moved(p) /\ w'[p].pc = "sync" /\ w'[p].s = s
  BY <1>0, <1>1, GotoFacts DEF Rename, IInv, Labels
<1>3. /\ art' \in [Sessions -> Copy]
      /\ art'[s].named = art[s].named /\ art'[s].place = "final"
      /\ art'[s].bytes = art[s].bytes /\ art'[s].synced = art[s].synced
      /\ \A t \in Sessions \ {s} : art'[t] = art[t]
  <2> DEFINE r == [art[s] EXCEPT !.place = "final"]
  <2>1. /\ r \in Copy /\ r.named = art[s].named /\ r.place = "final"
        /\ r.bytes = art[s].bytes /\ r.synced = art[s].synced
    BY DEF IInv, Types, Copy, Places
  <2>2. art' = [art EXCEPT ![s] = r]
    BY <1>0 DEF Rename
  <2> QED
    BY <2>1, <2>2 DEF IInv, Types
<1>4. Artifact(s)'
  BY <1>1, <1>3 DEF Rename, dbVars, Good, Artifact, Whole
<1>5. WorkOK(w[p])'
  BY <1>1, <1>2, <1>3 DEF WorkOK, Rename, dbVars
<1> QED
  BY <1>1, <1>2, <1>3, <1>4, <1>5, ArtStep DEF Rename, dbVars

\* The final name is synced.
LEMMA SyncNameStep ==
  ASSUME IInv, NEW p \in Handlers, SyncName(p)
  PROVE  IInv'
<1>0. PICK s \in Sessions : s = w[p].s
  BY AtWork DEF SyncName, At
<1>1. /\ lock = p /\ Good(s) /\ op[s].state = "publishing"
      /\ Pending(s) /\ file[s] # "live" /\ art[s].place = "final"
  BY <1>0, AtWork, Assembling DEF SyncName, At, WorkOK
<1>2. Moved(p) /\ w'[p].pc = "settle" /\ w'[p].s = s
  BY <1>0, <1>1, GotoFacts DEF SyncName, IInv, Labels
<1>3. Whole(s)
  BY <1>1 DEF Good, Artifact
<1>4. /\ art' \in [Sessions -> Copy]
      /\ art'[s].named = "final" /\ art'[s].place = "final"
      /\ art'[s].bytes = art[s].bytes /\ art'[s].synced
      /\ \A t \in Sessions \ {s} : art'[t] = art[t]
  <2> DEFINE y == art[s].synced \/ w[p].op = "recover"
             r == [art[s] EXCEPT !.named = "final", !.synced = y]
  <2>1. y = TRUE
    BY <1>3 DEF Whole
  <2> HIDE DEF y
  <2>2. /\ r \in Copy /\ r.named = "final" /\ r.place = art[s].place
        /\ r.bytes = art[s].bytes /\ r.synced
    BY <2>1 DEF IInv, Types, Copy, Places
  <2>3. art' = [art EXCEPT ![s] = r]
    BY <1>0 DEF SyncName, y
  <2> HIDE DEF r
  <2> QED
    BY <1>1, <2>2, <2>3 DEF IInv, Types
<1>5. Artifact(s)'
  BY <1>1, <1>3, <1>4 DEF SyncName, dbVars, Artifact, Whole
<1>6. WorkOK(w[p])'
  BY <1>1, <1>2, <1>4 DEF WorkOK, SyncName, dbVars
<1> QED
  BY <1>1, <1>2, <1>4, <1>5, <1>6, ArtStep DEF SyncName, dbVars

\* What is settled is durable.
LEMMA SettleStep ==
  ASSUME IInv, NEW p \in Handlers, Settle(p)
  PROVE  IInv'
<1>0. PICK s \in Sessions : s = w[p].s
  BY AtWork DEF Settle, At
<1>1. /\ lock = p /\ Good(s) /\ op[s].state = "publishing"
      /\ Pending(s) /\ file[s] # "live"
      /\ art[s].place = "final" /\ art[s].named = "final"
  BY <1>0, AtWork, Assembling DEF Settle, At, WorkOK
<1>2. Moved(p) /\ w'[p].pc \in {"inspect", "commit"} /\ w'[p].s = s
  BY <1>0, <1>1, ThenFacts DEF Settle, IInv, Labels
<1>3. /\ op' \in [Sessions -> Operation]
      /\ op'[s].state = "published" /\ op'[s].man = op[s].man
      /\ op'[s].target = op[s].target /\ op'[s].mime = op[s].mime
      /\ op'[s].cleaned = op[s].cleaned
      /\ \A t \in Sessions \ {s} : op'[t] = op[t]
  BY <1>0, StateFacts DEF Settle, Advance, IInv, States
<1>4. Artifact(s)' /\ Journalled(s)' /\ Pending(s)' /\ op'[s].target
  BY <1>1, <1>3 DEF Settle, fsVars, Good, Artifact, Journalled, Whole,
     Durable, Pending, Unambiguous
<1>5. WorkOK(w[p])'
  BY <1>2, <1>3, <1>4 DEF WorkOK
<1> QED
  BY <1>1, <1>2, <1>3, <1>4, <1>5, OpStep DEF Settle, fsVars

\* What the transaction of the File changes.
LEMMA CommitFacts ==
  ASSUME IInv, NEW p \in Handlers, NEW s \in Sessions, s = w[p].s, Commit(p)
  PROVE  /\ op' \in [Sessions -> Operation]
         /\ op'[s].state = "committed" /\ op'[s].man = op[s].man
         /\ op'[s].target = op[s].target /\ op'[s].mime = op[s].mime
         /\ op'[s].cleaned = op[s].cleaned
         /\ file' \in [Sessions -> {None, "live", Deleted}]
         /\ status' \in [Sessions -> {"none", "completed", "aborted"}
                                       \cup Active]
         /\ file'[s] = "live" /\ status'[s] = "completed"
         /\ \A t \in Sessions \ {s} : Same(t)
<1>1. /\ op' \in [Sessions -> Operation]
      /\ op'[s].state = "committed" /\ op'[s].man = op[s].man
      /\ op'[s].target = op[s].target /\ op'[s].mime = op[s].mime
      /\ op'[s].cleaned = op[s].cleaned
      /\ \A t \in Sessions \ {s} : op'[t] = op[t]
  BY StateFacts DEF Commit, IInv, States
<1>2. /\ file' \in [Sessions -> {None, "live", Deleted}] /\ file'[s] = "live"
      /\ \A t \in Sessions \ {s} : file'[t] = file[t]
  BY DEF Commit, IInv, Types
<1>3. /\ status' \in [Sessions -> {"none", "completed", "aborted"}
                                    \cup Active]
      /\ status'[s] = "completed"
      /\ \A t \in Sessions \ {s} : status'[t] = status[t]
  BY DEF Commit, IInv, Types
<1> QED
  BY <1>1, <1>2, <1>3 DEF Commit, Same, fsVars

\* The File comes with a durable object.
LEMMA CommitStep ==
  ASSUME IInv, NEW p \in Handlers, Commit(p)
  PROVE  IInv'
<1>0. PICK s \in Sessions : s = w[p].s
  BY AtWork DEF Commit, At
<1>1. /\ lock = p /\ Good(s) /\ op[s].state = "published" /\ Pending(s)
  BY <1>0, AtWork, Assembling DEF Commit, At, WorkOK
<1>2. Moved(p) /\ w'[p].pc \in {"inspect", "reopen"} /\ w'[p].s = s
  <2> DEFINE k == IF w[p].op = "recover" THEN "inspect" ELSE "reopen"
  <2>1. k \in Labels /\ Goto(p, k)
    BY DEF Commit, Then, Labels
  <2>2. k # "reopen" => lock' = p
    BY DEF Commit
  <2>3. [w[p] EXCEPT !.pc = k] \in Worker
    BY <2>1 DEF IInv, Types, Worker
  <2>4. /\ [w[p] EXCEPT !.pc = k].pc = k
        /\ [w[p] EXCEPT !.pc = k].s = w[p].s
    BY DEF IInv, Types, Worker
  <2>5. k \in {"inspect", "reopen"}
    OBVIOUS
  <2> HIDE DEF k
  <2> QED
    BY <1>0, <2>1, <2>2, <2>3, <2>4, <2>5 DEF IInv, Types, Moved, Goto
<1>3. Types'
  BY <1>0, <1>2, CommitFacts DEF Commit, IInv, Types, Moved, fsVars
<1>4. Good(s)' /\ Pending(s)' /\ op'[s].target
  <2>1. /\ op'[s].state = "committed" /\ op'[s].man = op[s].man
        /\ op'[s].target = op[s].target /\ op'[s].mime = op[s].mime
        /\ op'[s].cleaned = op[s].cleaned
        /\ file'[s] = "live" /\ status'[s] = "completed"
    BY <1>0, CommitFacts
  <2>2. rec'[s] = rec[s] /\ art'[s] = art[s] /\ chunk'[s] = chunk[s]
    BY DEF Commit, fsVars
  <2>3. Durable(s) /\ Journalled(s)
    BY <1>1 DEF Good, Artifact
  <2>4. Artifact(s)'
    BY <2>1, <2>2, <2>3 DEF Artifact, Durable, Whole
  <2>5. Journalled(s)' /\ Pending(s)' /\ op'[s].target
    BY <1>1, <2>1, <2>2, <2>3 DEF Journalled, Pending, Unambiguous
  <2> QED
    BY <2>1, <2>4, <2>5 DEF Good, Filed, Source, Active
<1>5. WorkOK(w[p])'
  BY <1>2, <1>4 DEF WorkOK
<1> QED
  BY <1>0, <1>1, <1>2, <1>3, <1>4, <1>5, CommitFacts, SessionStep

(***************************************************************************)
(* recover()                                                               *)
(***************************************************************************)
\* Recovery takes up a pending operation whose inode is recorded.
LEMMA BeginRecovery ==
  ASSUME IInv, NEW p \in Handlers, NEW s \in Sessions, Reopenable(s),
         Start(p, "recover", "inspect", s), lock' = p,
         UNCHANGED <<dbVars, fsVars, env, faults>>
  PROVE  IInv'
<1> DEFINE r == [Idle EXCEPT !.op = "recover", !.pc = "inspect", !.s = s]
<1>1. w' = [w EXCEPT ![p] = r]
  BY DEF Start
<1>2. r \in Worker /\ r.pc = "inspect" /\ r.s = s
  BY InitialValues DEF Worker, Labels
<1> HIDE DEF r
<1>3. WorkOK(r)
  BY <1>2 DEF WorkOK, Reopenable
<1>4. dir' \in [Sessions -> BOOLEAN]
  BY DEF IInv, Types, fsVars
<1> QED
  BY <1>1, <1>2, <1>3, <1>4, QuietStep DEF Reopenable, dbVars, fsVars

\* A replay of completeUpload, or the sweep at startup.
LEMMA RecoverStep ==
  ASSUME IInv, NEW p \in Handlers, NEW s \in Sessions, Recover(p, s)
  PROVE  IInv'
BY BeginRecovery DEF Recover

\* After finalize().
LEMMA ReopenStep ==
  ASSUME IInv, NEW p \in Handlers, Reopen(p)
  PROVE  IInv'
<1>1. w[p].s \in Sessions
  BY DEF Reopen, At, IInv, Work, WorkOK
<1> QED
  BY <1>1, BeginRecovery DEF Reopen

\* An inspection syncs the artifact under the name it has.
LEMMA SyncedFacts ==
  ASSUME Types, NEW s \in Sessions, NEW n \in Places,
         art' = [art EXCEPT ![s].synced = TRUE, ![s].named = n]
  PROVE  /\ art' \in [Sessions -> Copy]
         /\ art'[s].named = n /\ art'[s].place = art[s].place
         /\ art'[s].bytes = art[s].bytes /\ art'[s].synced
         /\ \A t \in Sessions \ {s} : art'[t] = art[t]
<1> DEFINE r == [art[s] EXCEPT !.synced = TRUE, !.named = n]
<1>1. /\ r \in Copy /\ r.named = n /\ r.place = art[s].place
      /\ r.bytes = art[s].bytes /\ r.synced
  BY ZenonT(90) DEF Types, Copy
<1>2. art' = [art EXCEPT ![s] = r]
  OBVIOUS
<1> HIDE DEF r
<1> QED
  BY ZenonT(90), <1>1, <1>2 DEF Types

\* A whole temporary is kept, a partial or missing one is begun again.
LEMMA InspectAssemblingStep ==
  ASSUME IInv, NEW p \in Handlers, InspectAssembling(p)
  PROVE  IInv'
<1>0. PICK s \in Sessions : s = w[p].s
  BY AtWork DEF InspectAssembling, At
<1>1. /\ lock = p /\ Good(s) /\ op[s].state = "assembling"
      /\ file[s] # "live" /\ (art[s].place # "none" => op[s].target)
  BY <1>0, AtWork, Assembling DEF InspectAssembling, At, WorkOK
<1>2. art[s].place \in {"none", "temp"}
  BY <1>1 DEF Good, Artifact
<1>3. CASE /\ art[s].place = "temp" /\ Sealable(s)
           /\ art' = [art EXCEPT ![s].synced = TRUE, ![s].named = "temp"]
           /\ Goto(p, "mark")
  <2>1. Moved(p) /\ w'[p].pc = "mark" /\ w'[p].s = s
    BY <1>0, <1>1, <1>3, GotoFacts DEF InspectAssembling, IInv, Labels
  <2>2. /\ art' \in [Sessions -> Copy]
        /\ art'[s].named = "temp" /\ art'[s].place = "temp"
        /\ art'[s].bytes = Want[s] /\ art'[s].synced
        /\ \A t \in Sessions \ {s} : art'[t] = art[t]
    BY <1>3, SyncedFacts DEF IInv, Places, Sealable
  <2>3. Artifact(s)'
    BY <1>1, <2>2 DEF InspectAssembling, dbVars, Artifact
  <2>4. WorkOK(w[p])'
    BY <1>1, <1>3, <2>1, <2>2 DEF WorkOK, Whole, InspectAssembling, dbVars
  <2> QED
    BY <1>1, <2>1, <2>2, <2>3, <2>4, ArtStep DEF InspectAssembling, dbVars
<1>4. CASE /\ Restartable(s)
           /\ art' = [art EXCEPT ![s].bytes = NoRows, ![s].synced = FALSE]
           /\ Goto(p, IF art[s].place = "temp" THEN "record" ELSE "create")
  <2> DEFINE k == IF art[s].place = "temp" THEN "record" ELSE "create"
             r == [art[s] EXCEPT !.bytes = NoRows, !.synced = FALSE]
  <2>1. k \in Labels /\ Goto(p, k) /\ k \in {"record", "create"}
        /\ (k = "record" => art[s].place = "temp")
    BY <1>4 DEF Labels
  <2> HIDE DEF k
  <2>2. Moved(p) /\ w'[p].pc = k /\ w'[p].s = s
    BY <1>0, <1>1, <2>1, GotoFacts DEF InspectAssembling, IInv
  <2>3. /\ r \in Copy /\ r.named = art[s].named /\ r.place = art[s].place
        /\ r.bytes = NoRows /\ ~r.synced
    BY InitialValues DEF IInv, Types, Copy
  <2>4. art' = [art EXCEPT ![s] = r]
    BY <1>4
  <2> HIDE DEF r
  <2>5. /\ art' \in [Sessions -> Copy]
        /\ art'[s].named = art[s].named /\ art'[s].place = art[s].place
        /\ art'[s].bytes = NoRows /\ ~art'[s].synced
        /\ \A t \in Sessions \ {s} : art'[t] = art[t]
    BY <2>3, <2>4 DEF IInv, Types
  <2>6. Artifact(s)'
    BY <1>1, <2>5 DEF InspectAssembling, dbVars, Good, Artifact
  <2>7. WorkOK(w[p])'
    BY <1>1, <2>1, <2>2, <2>5 DEF WorkOK, InspectAssembling, dbVars
  <2> QED
    BY <1>1, <2>2, <2>5, <2>6, <2>7, ArtStep DEF InspectAssembling, dbVars
<1> QED
  BY <1>0, <1>3, <1>4 DEF InspectAssembling

\* The verified copy is synced once more.
LEMMA InspectVerifiedStep ==
  ASSUME IInv, NEW p \in Handlers, InspectVerified(p)
  PROVE  IInv'
<1>0. PICK s \in Sessions : s = w[p].s
  BY AtWork DEF InspectVerified, At
<1>1. /\ lock = p /\ Good(s) /\ op[s].state = "verified" /\ file[s] # "live"
  BY <1>0, AtWork, Assembling DEF InspectVerified, At, WorkOK
<1> DEFINE k == IF op[s].mime THEN "intent" ELSE "mime"
<1>2. /\ k \in Labels /\ Goto(p, k) /\ k \in {"intent", "mime"}
      /\ (k = "intent" => op[s].mime)
  BY <1>0 DEF InspectVerified, Labels
<1> HIDE DEF k
<1>3. Moved(p) /\ w'[p].pc = k /\ w'[p].s = s
  BY <1>0, <1>1, <1>2, GotoFacts DEF InspectVerified, IInv
<1>4. /\ art' \in [Sessions -> Copy]
      /\ art'[s].named = "temp" /\ art'[s].place = "temp"
      /\ art'[s].bytes = Want[s] /\ art'[s].synced
      /\ \A t \in Sessions \ {s} : art'[t] = art[t]
  BY <1>0, SyncedFacts DEF InspectVerified, IInv, Places
<1>5. Artifact(s)'
  BY <1>1, <1>4 DEF InspectVerified, dbVars, Artifact, Whole
<1>6. WorkOK(w[p])'
  BY <1>1, <1>2, <1>3 DEF WorkOK, InspectVerified, dbVars
<1> QED
  BY <1>1, <1>3, <1>4, <1>5, <1>6, ArtStep DEF InspectVerified, dbVars

\* A rename that was begun is done, or its name is synced.
LEMMA InspectPublishingStep ==
  ASSUME IInv, NEW p \in Handlers, InspectPublishing(p)
  PROVE  IInv'
<1>0. PICK s \in Sessions : s = w[p].s
  BY AtWork DEF InspectPublishing, At
<1>1. /\ lock = p /\ Good(s) /\ op[s].state = "publishing"
      /\ file[s] # "live"
  BY <1>0, AtWork, Assembling DEF InspectPublishing, At, WorkOK
<1>2. art[s].place \in {"temp", "final"} /\ art[s].bytes = Want[s]
  BY <1>1 DEF Good, Artifact, Whole
<1> DEFINE k == IF art[s].place = "temp" THEN "rename" ELSE "sync"
<1>3. k \in Labels /\ Goto(p, k) /\ k \in {"rename", "sync"}
  BY <1>0 DEF InspectPublishing, Labels
<1> HIDE DEF k
<1>4. Moved(p) /\ w'[p].pc = k /\ w'[p].s = s
  BY <1>0, <1>1, <1>3, GotoFacts DEF InspectPublishing, IInv
<1>5. /\ art' \in [Sessions -> Copy]
      /\ art'[s].named = art[s].place /\ art'[s].place = art[s].place
      /\ art'[s].bytes = Want[s] /\ art'[s].synced
      /\ \A t \in Sessions \ {s} : art'[t] = art[t]
  BY <1>0, <1>2, SyncedFacts DEF InspectPublishing, IInv, Places
<1>6. Artifact(s)'
  BY <1>1, <1>2, <1>5 DEF InspectPublishing, dbVars, Artifact, Whole
<1>7. WorkOK(w[p])'
  BY <1>1, <1>3, <1>4 DEF WorkOK, InspectPublishing, dbVars
<1> QED
  BY <1>1, <1>4, <1>5, <1>6, <1>7, ArtStep DEF InspectPublishing, dbVars

\* What was published is committed, what was committed is cleaned up.
LEMMA VerifyFinalStep ==
  ASSUME IInv, NEW p \in Handlers, VerifyFinal(p)
  PROVE  IInv'
<1>0. PICK s \in Sessions : s = w[p].s
  BY AtWork DEF VerifyFinal, At
<1>1. /\ lock = p /\ Good(s) /\ op[s].state \in {"published", "committed"}
      /\ Pending(s)
  BY <1>0, AtWork DEF VerifyFinal, At, WorkOK
<1> DEFINE k == IF op[s].state = "published" THEN "commit" ELSE "preflight"
<1>2. /\ k \in Labels /\ Goto(p, k) /\ k \in {"commit", "preflight"}
      /\ (k = "commit" <=> op[s].state = "published")
  BY <1>0 DEF VerifyFinal, Labels
<1> HIDE DEF k
<1>3. Moved(p) /\ w'[p].pc = k /\ w'[p].s = s
  BY <1>0, <1>1, <1>2, GotoFacts DEF VerifyFinal, IInv
<1>4. /\ art' \in [Sessions -> Copy]
      /\ art'[s].named = "final" /\ art'[s].place = "final"
      /\ art'[s].bytes = Want[s] /\ art'[s].synced
      /\ \A t \in Sessions \ {s} : art'[t] = art[t]
  BY <1>0, SyncedFacts DEF VerifyFinal, IInv, Places
<1>5. Artifact(s)'
  BY <1>1, <1>4 DEF VerifyFinal, dbVars, Artifact, Whole, Durable
<1>6. WorkOK(w[p])'
  BY <1>1, <1>2, <1>3 DEF WorkOK, VerifyFinal, dbVars, Pending
<1> QED
  BY <1>1, <1>3, <1>4, <1>5, <1>6, ArtStep DEF VerifyFinal, dbVars

\* Every chunk is looked at before one is removed.
LEMMA PreflightStep ==
  ASSUME IInv, NEW p \in Handlers, Preflight(p)
  PROVE  IInv'
<1>1. lock = p /\ w[p] \in Worker /\ WorkOK(w[p]) /\ w[p].pc = "preflight"
  BY AtWork DEF Preflight, At
<1> DEFINE r == [w[p] EXCEPT !.pc = "remove"]
<1>2. r.pc = "remove" /\ r.s = w[p].s
  BY <1>1 DEF Worker
<1> HIDE DEF r
<1>3. WorkOK(r)
  BY <1>1, <1>2 DEF WorkOK
<1>4. dir' \in [Sessions -> BOOLEAN]
  BY DEF Preflight, IInv, Types, fsVars
<1> QED
  BY <1>1, <1>3, <1>4, GotoStep DEF Preflight, dbVars, fsVars, r, Labels

\* A removal: nobody but the handler that removes relies on the chunks.
LEMMA RemoveChunkStep ==
  ASSUME IInv, NEW p \in Handlers, NEW i \in Chunks, RemoveChunk(p, i)
  PROVE  IInv'
<1>0. PICK s \in Sessions : s = w[p].s
  BY AtWork DEF RemoveChunk, At
<1>1. /\ lock = p /\ Good(s) /\ op[s].state = "committed" /\ Pending(s)
      /\ WorkOK(w[p]) /\ w[p].pc = "remove"
  BY <1>0, AtWork DEF RemoveChunk, At, WorkOK
<1>2. status[s] = "completed"
  BY <1>1 DEF Good, Journalled, Unambiguous
<1>3. /\ chunk' \in [Sessions -> Rows]
      /\ \A t \in Sessions \ {s} : chunk'[t] = chunk[t]
  BY <1>0 DEF RemoveChunk, IInv, Types, Rows
<1>4. Moved(p) /\ w'[p] = w[p]
  BY <1>1 DEF RemoveChunk, IInv, Types, Moved
<1>5. Types'
  BY <1>3, <1>4 DEF RemoveChunk, IInv, Types, Moved, dbVars
<1>6. \A t \in Sessions \ {s} : Same(t)
  BY <1>3 DEF RemoveChunk, Same, dbVars
<1>7. Good(s)' /\ (Pending(s)' => Pending(s))
  BY <1>1, <1>2 DEF RemoveChunk, dbVars, Good, Artifact, Journalled, Filed,
     Source, Pending, Unambiguous, Durable, Whole, Active
<1>8. WorkOK(w[p])'
  BY <1>0, <1>1, <1>4 DEF WorkOK, RemoveChunk, dbVars, Pending
<1> QED
  BY <1>1, <1>4, <1>5, <1>6, <1>7, <1>8, SessionStep

\* The operation is over.
LEMMA FinishCleanupStep ==
  ASSUME IInv, NEW p \in Handlers, FinishCleanup(p)
  PROVE  IInv'
<1>0. PICK s \in Sessions : s = w[p].s
  BY AtWork DEF FinishCleanup, At
<1>1. /\ lock = p /\ Good(s) /\ op[s].state = "committed" /\ Pending(s)
  BY <1>0, AtWork DEF FinishCleanup, At, WorkOK
<1>2. status[s] = "completed"
  BY <1>1 DEF Good, Journalled, Unambiguous
<1>3. Moved(p) /\ WorkOK(w[p])'
  BY DoneFacts DEF FinishCleanup, IInv
<1>4. /\ op' \in [Sessions -> Operation]
      /\ op'[s].state = op[s].state /\ op'[s].cleaned
      /\ \A t \in Sessions \ {s} : op'[t] = op[t]
  BY ZenonT(90), <1>0 DEF FinishCleanup, IInv, Types, Operation
<1>5. /\ rec' \in [Sessions -> Rows]
      /\ \A t \in Sessions \ {s} : rec'[t] = rec[t]
  BY <1>0, InitialValues DEF FinishCleanup, IInv, Types
<1>6. Types'
  BY <1>3, <1>4, <1>5 DEF FinishCleanup, IInv, Types, Moved, fsVars
<1>7. \A t \in Sessions \ {s} : Same(t)
  BY <1>4, <1>5 DEF FinishCleanup, Same, fsVars
<1>8. Good(s)' /\ ~Pending(s)'
  BY <1>1, <1>2, <1>4 DEF FinishCleanup, fsVars, Good, Artifact, Journalled,
     Filed, Source, Pending, Durable, Whole, Active
<1> QED
  BY <1>1, <1>3, <1>6, <1>7, <1>8, SessionStep

(***************************************************************************)
(* abortUpload                                                             *)
(***************************************************************************)
\* A pending operation refuses it.
LEMMA AbortStep ==
  ASSUME IInv, NEW p \in Handlers, NEW s \in Sessions, Abort(p, s)
  PROVE  IInv'
<1>1. Moved(p) /\ w'[p].pc = "purge" /\ w'[p].s = s
  BY StartFacts DEF Abort, IInv, Labels
<1>2. /\ status' \in [Sessions ->
                        {"none", "completed", "aborted"} \cup Active]
      /\ status'[s] = "aborted"
      /\ \A t \in Sessions \ {s} : status'[t] = status[t]
  BY DEF Abort, IInv, Types
<1>3. Types'
  BY <1>1, <1>2 DEF Abort, IInv, Types, Moved, fsVars
<1>4. \A t \in Sessions \ {s} : Same(t)
  BY <1>2 DEF Abort, Same, fsVars
<1>5. Good(s) /\ ~Pending(s) /\ status[s] \in Active \cup {"aborted"}
  BY DEF Abort, IInv, Unreserved
<1>6. Good(s)' /\ ~Pending(s)'
  BY <1>2, <1>5 DEF Abort, fsVars, Good, Artifact, Journalled, Filed, Source,
     Pending, Durable, Whole, Active
<1>7. WorkOK(w[p])'
  BY <1>1, <1>2, <1>6 DEF WorkOK
<1> QED
  BY <1>1, <1>3, <1>4, <1>6, <1>7, SessionStep DEF Abort

\* An aborted session's chunks and rows go one by one.
LEMMA PurgeChunkStep ==
  ASSUME IInv, NEW p \in Handlers, PurgeChunk(p)
  PROVE  IInv'
<1>0. PICK s \in Sessions : s = w[p].s
  BY AtWork DEF PurgeChunk, At
<1>1. /\ lock = p /\ Good(s) /\ status[s] = "aborted" /\ ~Pending(s)
      /\ w[p] \in Worker /\ w[p].pc = "purge"
  BY <1>0, AtWork DEF PurgeChunk, At, WorkOK
<1>2. PICK i \in Chunks : i = w[p].i + 1
  <2>1. w[p].i \in 0..NChunks /\ w[p].i + 1 <= NChunks
    BY <1>1 DEF PurgeChunk, Worker
  <2> QED
    BY <2>1, ConstantsAssumption DEF Chunks
<1> DEFINE r == [w[p] EXCEPT !.i = i]
<1>3. r \in Worker /\ r.pc = "purge" /\ r.s = s
  <2>1. i \in 0..NChunks
    BY ConstantsAssumption DEF Chunks
  <2> QED
    BY <1>0, <1>1, <2>1 DEF Worker
<1>4. /\ rec' \in [Sessions -> Rows] /\ chunk' \in [Sessions -> Rows]
      /\ \A t \in Sessions \ {s} : rec'[t] = rec[t] /\ chunk'[t] = chunk[t]
  <2>1. /\ [rec EXCEPT ![s][i] = None] \in [Sessions -> Rows]
        /\ [chunk EXCEPT ![s][i] = None] \in [Sessions -> Rows]
    BY DEF IInv, Types, Rows
  <2>2. /\ rec' \in {rec, [rec EXCEPT ![s][i] = None]}
        /\ chunk' \in {chunk, [chunk EXCEPT ![s][i] = None]}
    BY <1>0, <1>2 DEF PurgeChunk
  <2> QED
    BY <2>1, <2>2 DEF IInv, Types
<1>5. w' = [w EXCEPT ![p] = r]
  BY <1>2 DEF PurgeChunk
<1> HIDE DEF r
<1>6. Moved(p) /\ w'[p] = r
  BY <1>1, <1>3, <1>5 DEF PurgeChunk, IInv, Types, Moved
<1>7. Types'
  BY <1>4, <1>6 DEF PurgeChunk, IInv, Types, Moved
<1>8. \A t \in Sessions \ {s} : Same(t)
  BY <1>4 DEF PurgeChunk, Same
<1>9. Good(s)' /\ ~Pending(s)'
  BY <1>1 DEF PurgeChunk, Good, Artifact, Journalled, Filed, Source,
     Pending, Durable, Whole, Active
<1>10. WorkOK(w[p])'
  BY <1>1, <1>3, <1>6, <1>9 DEF WorkOK, PurgeChunk
<1> QED
  BY <1>1, <1>6, <1>7, <1>8, <1>9, <1>10, SessionStep

\* Done.
LEMMA PurgeDoneStep ==
  ASSUME IInv, NEW p \in Handlers, PurgeDone(p)
  PROVE  IInv'
<1>1. dir' \in [Sessions -> BOOLEAN]
  BY DEF PurgeDone, IInv, Types, fsVars
<1> QED
  BY <1>1, DoneStep DEF PurgeDone, dbVars, fsVars

(***************************************************************************)
(* Errors, crashes, power failures and decay                               *)
(***************************************************************************)
\* A handler that cannot go on, and one that meets another error.
LEMMA FailStep ==
  ASSUME IInv, NEW p \in Handlers, Fail(p) \/ Fault(p)
  PROVE  IInv'
<1>1. Done(p) /\ UNCHANGED <<dbVars, fsVars>>
  BY DEF Fail, Fault
<1>2. dir' \in [Sessions -> BOOLEAN]
  BY <1>1 DEF IInv, Types, fsVars
<1> QED
  BY <1>1, <1>2, DoneStep DEF dbVars, fsVars

\* After a crash nobody is at work.
LEMMA DiedFacts ==
  ASSUME Died
  PROVE  w' \in [Handlers -> Worker] /\ Locked' /\ Work'
<1>1. w' = [p \in Handlers |-> Idle]
  BY DEF Died
<1> QED
  BY <1>1, InitialValues DEF Locked, Work, WorkOK

\* The process dies.
LEMMA CrashStep == IInv /\ Crash => IInv'
<1> SUFFICES ASSUME IInv, Crash PROVE IInv'
  OBVIOUS
<1>1. \A s \in Sessions : Good(s)' /\ (Pending(s)' <=> Pending(s))
  BY GoodFrame DEF IInv, Crash, Same, dbVars, fsVars
<1>2. Types' /\ Single'
  BY <1>1, DiedFacts DEF IInv, Types, Single, Crash, dbVars, fsVars
<1> QED
  BY <1>1, <1>2, DiedFacts DEF IInv, Crash

\* What a power failure leaves of an artifact.
LEMMA SurvivingFacts ==
  ASSUME NEW a \in Copy, NEW b \in Surviving(a)
  PROVE  /\ b \in Copy /\ b.place \in {a.place, a.named}
         /\ b.named = b.place /\ b.synced = a.synced
         /\ a.synced => b.bytes = a.bytes
         /\ b.place = "none" => b.bytes = NoRows /\ ~b.synced
<1>1. \A n \in Chunks : [i \in Chunks |->
                         IF i <= n THEN a.bytes[i] ELSE None] \in Rows
  BY DEF Copy, Rows
<1>2. b.bytes \in Rows /\ b.place \in {a.place, a.named}
  BY <1>1, InitialValues DEF Surviving
<1>3. /\ b \in [place: {a.place, a.named}, named: {a.place, a.named},
               bytes: Rows, synced: {a.synced}]
      /\ b.named = b.place /\ (a.synced => b.bytes = a.bytes)
      /\ b.place = "none" => b = NoArt
  BY <1>1, <1>2, InitialValues DEF Surviving
<1> QED
  BY <1>3, InitialValues DEF Copy

\* A synced copy survives a power failure under a name its state allows for.
LEMMA PowerLossStep ==
  ASSUME IInv, NEW s \in Sessions, PowerLoss(s)
  PROVE  IInv'
<1>1. PICK a \in Surviving(art[s]) : art' = [art EXCEPT ![s] = a]
  BY DEF PowerLoss
<1>2. PICK r \in SurvivingChunks(s) : chunk' = [chunk EXCEPT ![s] = r]
  BY DEF PowerLoss
<1>3. Died /\ UNCHANGED <<dbVars, dir>>
  BY DEF PowerLoss
<1>4. /\ a \in Copy /\ a.place \in {art[s].place, art[s].named}
      /\ a.named = a.place /\ a.synced = art[s].synced
      /\ art[s].synced => a.bytes = art[s].bytes
      /\ a.place = "none" => a.bytes = NoRows /\ ~a.synced
  BY SurvivingFacts DEF IInv, Types
<1>5. r \in Rows /\ \A i \in Chunks :
        \/ r[i] = chunk[s][i]
        \/ rec[s][i] = None
        \/ op[s].state = "committed" /\ Pending(s)
  BY DEF SurvivingChunks
<1>6. /\ art' \in [Sessions -> Copy] /\ chunk' \in [Sessions -> Rows]
      /\ art'[s] = a /\ chunk'[s] = r
      /\ \A t \in Sessions \ {s} : art'[t] = art[t] /\ chunk'[t] = chunk[t]
  BY <1>1, <1>2, <1>4, <1>5 DEF IInv, Types
<1>7. Types'
  BY <1>3, <1>6, DiedFacts DEF IInv, Types, dbVars
<1>8. Good(s) /\ (Pending(s)' <=> Pending(s))
  BY <1>3 DEF IInv, Pending, dbVars
<1>9. Artifact(s)'
  BY <1>3, <1>4, <1>6, <1>8 DEF Good, Artifact, Durable, Whole, Pending, dbVars
<1>10. Journalled(s)' /\ Filed(s)'
  BY <1>3, <1>8 DEF Good, Journalled, Filed, Unambiguous, Pending, dbVars
<1>11. Source(s)'
  BY <1>3, <1>5, <1>6, <1>8
  DEF Good, Source, Journalled, Unambiguous, Active, dbVars
<1>12. \A t \in Sessions \ {s} : Good(t)' /\ (Pending(t)' <=> Pending(t))
  BY <1>3, <1>6, GoodFrame DEF IInv, Same, dbVars
<1>13. Single'
  BY <1>8, <1>12 DEF IInv, Single
<1> QED
  BY <1>3, <1>7, <1>9, <1>10, <1>11, <1>12, <1>13, DiedFacts DEF IInv, Good

\* The SSD loses or damages a chunk; what is on the HDD does not change.
LEMMA DecayStep ==
  ASSUME IInv, NEW s \in Sessions, NEW i \in Chunks, Decay(s, i)
  PROVE  IInv'
<1>1. /\ SsdDecays /\ UNCHANGED <<dbVars, dir, art, lock, w>>
  BY DEF Decay
<1>2. chunk' \in [Sessions -> Rows]
  BY DEF Decay, IInv, Types, Rows
<1>3. Types' /\ Locked'
  BY <1>1, <1>2 DEF IInv, Types, Locked, dbVars
<1>4. \A t \in Sessions : Good(t)' /\ (Pending(t)' <=> Pending(t))
  BY <1>1 DEF IInv, Good, Artifact, Journalled, Filed, Source, Pending,
     Unambiguous, Durable, Whole, dbVars
<1>5. Work'
  BY <1>1 DEF IInv, Work, WorkOK, Pending, Whole, dbVars
<1>6. Single'
  BY <1>4 DEF IInv, Single
<1> QED
  BY <1>3, <1>4, <1>5, <1>6 DEF IInv

(***************************************************************************)
(* The clock, and the other services                                       *)
(***************************************************************************)
\* A deleted File's operation is over, and nobody is at work on its artifact.
LEMMA DeleteFileStep ==
  ASSUME IInv, NEW s \in Sessions, DeleteFile(s)
  PROVE  IInv'
<1>1. UNCHANGED <<status, rec, op, dir, chunk, lock, w>>
  BY DEF DeleteFile
<1>2. Good(s) /\ ~Pending(s) /\ status[s] = "completed"
  BY DEF DeleteFile, IInv, Good, Filed, Unreserved
<1>3. op[s].state \in {"none", "committed"}
  BY <1>2 DEF Good, Journalled, Pending
<1>4. /\ file' \in [Sessions -> {None, "live", Deleted}]
      /\ file'[s] = Deleted
      /\ \A t \in Sessions \ {s} : file'[t] = file[t]
  BY DEF DeleteFile, IInv, Types
<1>5. /\ art' \in [Sessions -> Copy]
      /\ art'[s] \in {art[s], NoArt}
      /\ \A t \in Sessions \ {s} : art'[t] = art[t]
  BY InitialValues DEF DeleteFile, IInv, Types
<1>6. Types' /\ Locked'
  BY <1>1, <1>4, <1>5 DEF IInv, Types, Locked
<1>7. \A t \in Sessions \ {s} : Good(t)'
  BY <1>1, <1>4, <1>5, GoodFrame DEF IInv, Same
<1>8. Artifact(s)'
  BY <1>1, <1>2, <1>3, <1>4, <1>5, InitialValues, ConstantsAssumption
  DEF Good, Artifact, Pending
<1>9. Journalled(s)' /\ Filed(s)' /\ Source(s)'
  BY <1>1, <1>2, <1>4, ConstantsAssumption
  DEF Good, Journalled, Filed, Source, Pending, Active
<1>10. Single'
  BY <1>1 DEF IInv, Single, Pending
<1>11. ASSUME NEW p \in Handlers PROVE WorkOK(w[p])'
  <2>1. WorkOK(w[p])
    BY DEF IInv, Work
  <2>2. CASE w[p].s = s
    BY <1>1, <1>2, <1>3, <2>1, <2>2 DEF WorkOK, Pending, Whole, Active
  <2>3. CASE w[p].s # s
    BY <1>1, <1>5, <2>1, <2>3 DEF WorkOK, Pending, Whole
  <2> QED
    BY <2>2, <2>3
<1> QED
  BY <1>6, <1>7, <1>8, <1>9, <1>10, <1>11 DEF IInv, Good, Work

\* Time, folders and the other services' charges touch none of it.
LEMMA OtherStep ==
  ASSUME IInv,
         UNCHANGED <<status, rec, op, file, dir, chunk, art, lock, w>>
  PROVE  IInv'
<1>1. \A s \in Sessions : Good(s)' /\ (Pending(s)' <=> Pending(s))
  BY GoodFrame DEF IInv, Same
<1>2. Types' /\ Locked' /\ Single'
  BY <1>1 DEF IInv, Types, Locked, Single
<1>3. Work'
  BY DEF IInv, Work, WorkOK, Pending, Whole
<1> QED
  BY <1>1, <1>2, <1>3 DEF IInv

(***************************************************************************)
(* Every step                                                              *)
(***************************************************************************)
\* A handler's step.
LEMMA HandlerInv ==
  ASSUME IInv, NEW p \in Handlers, Request(p) \/ HandlerStep(p)
  PROVE  IInv'
<1>1. CASE Request(p)
  BY <1>1, CreateStep, ChunkBeginStep, FinalizeBeginStep, RecoverStep,
     AbortStep DEF Request
<1>2. CASE UploadStep(p)
  BY <1>2, MkdirStep, MkdirFailsStep, ChunkStoreStep, ChunkCommitStep
  DEF UploadStep
<1>3. CASE AssemblyStep(p)
  BY <1>3, CreateTempStep, RecordTargetStep, AppendChunkStep, SealTempStep,
     MarkVerifiedStep, MimeStep DEF AssemblyStep
<1>4. CASE PublishStep(p)
  BY <1>4, IntentStep, RenameStep, SyncNameStep, SettleStep, CommitStep
  DEF PublishStep
<1>5. CASE RecoveryStep(p)
  BY <1>5, ReopenStep, InspectAssemblingStep, InspectVerifiedStep,
     InspectPublishingStep, VerifyFinalStep, PreflightStep, RemoveChunkStep,
     FinishCleanupStep DEF RecoveryStep
<1>6. CASE PurgeChunk(p) \/ PurgeDone(p) \/ Fail(p)
  BY <1>6, PurgeChunkStep, PurgeDoneStep, FailStep
<1> QED
  BY <1>1, <1>2, <1>3, <1>4, <1>5, <1>6 DEF HandlerStep

\* Any step.
LEMMA NextInv == IInv /\ [Next]_vars => IInv'
<1> SUFFICES ASSUME IInv, [Next]_vars PROVE IInv'
  OBVIOUS
<1>1. CASE \E p \in Handlers : Request(p) \/ HandlerStep(p)
  BY <1>1, HandlerInv
<1>2. CASE Failure
  BY <1>2, FailStep, CrashStep, PowerLossStep, DecayStep DEF Failure
<1>3. CASE Environment
  <2>1. ASSUME NEW s \in Sessions, Tick(s) \/ Trash(s) \/ Untrash(s)
        PROVE  IInv'
    BY <2>1, OtherStep DEF Tick, Trash, Untrash, dbVars, fsVars
  <2>2. ASSUME NEW b \in OtherBytes, Charge(b) \/ Release(b)
        PROVE  IInv'
    BY <2>2, OtherStep DEF Charge, Release, fsVars
  <2> QED
    BY <1>3, <2>1, <2>2, DeleteFileStep DEF Environment
<1>4. CASE UNCHANGED vars
  BY <1>4, OtherStep DEF vars, dbVars, fsVars
<1> QED
  BY <1>1, <1>2, <1>3, <1>4 DEF Next

\* The invariant, in every state.
LEMMA Invariant == Spec => []IInv
<1> QED
  BY InitInv, NextInv, PTL DEF Spec

\* A published File always has its whole and verified object, durable under
\* its final name: however handlers interleave, whatever step an error, a
\* crash or a power failure stopped, and though the SSD decays.
THEOREM PublishedIsDurable == Spec => []PublishedDurable
<1>1. IInv => PublishedDurable
  BY DEF IInv, Good, Artifact, Durable, Whole, PublishedDurable
<1> QED
  BY <1>1, Invariant, PTL

\* On an SSD that does not decay no acknowledged chunk is gone before the File
\* commits, and recovery can always begin again.
THEOREM SourceIsKept == Spec => [](SsdDecays \/ SourceKept)
<1>1. IInv => SsdDecays \/ SourceKept
  BY DEF IInv, Good, Source, SourceKept
<1> QED
  BY <1>1, Invariant, PTL

(***************************************************************************)
(* A copy that was assembled and synced is not given up                    *)
(***************************************************************************)
\* A whole copy has a name, and no chunk of it is missing.
LEMMA WholeFacts ==
  ASSUME IInv, NEW s \in Sessions, art[s].bytes = Want[s]
  PROVE  /\ art[s].place # "none" /\ Full(art[s].bytes)
         /\ \A i \in Chunks : ~Appendable(s, i)
BY WantFacts DEF IInv, Good, Artifact, Full, Appendable

\* A step keeps the bytes of a whole copy whose operation is pending.
LEMMA BytesKept ==
  ASSUME IInv, Next, NEW s \in Sessions, Pending(s), art[s].synced,
         art[s].bytes = Want[s]
  PROVE  art'[s].bytes = Want[s]
<1> DEFINE Kept == art'[s].bytes = Want[s]
<1>0. /\ art[s].place # "none" /\ Full(art[s].bytes)
      /\ \A i \in Chunks : ~Appendable(s, i)
  BY WholeFacts
<1>1. CASE UNCHANGED art
  BY <1>1
<1>2. ASSUME NEW p \in Handlers, AssemblyStep(p) PROVE Kept
  <2>1. CASE CreateTemp(p)
    BY <1>0, <2>1 DEF CreateTemp, IInv, Types
  <2>2. CASE RecordTarget(p)
    BY <2>2 DEF RecordTarget, IInv, Types, Copy
  <2>3. ASSUME NEW i \in Chunks, AppendChunk(p, i) PROVE Kept
    BY <1>0, <2>3 DEF AppendChunk, IInv, Types
  <2>4. CASE SealTemp(p)
    BY <2>4 DEF SealTemp, IInv, Types, Copy
  <2>5. CASE MarkVerified(p) \/ Mime(p)
    BY <1>1, <2>5 DEF MarkVerified, Mime, fsVars
  <2> QED
    BY <1>2, <2>1, <2>2, <2>3, <2>4, <2>5 DEF AssemblyStep
<1>3. ASSUME NEW p \in Handlers, PublishStep(p) PROVE Kept
  <2>1. CASE Rename(p)
    BY <2>1 DEF Rename, IInv, Types, Copy
  <2>2. CASE SyncName(p)
    BY <2>2 DEF SyncName, IInv, Types, Copy
  <2>3. CASE Intent(p) \/ Settle(p) \/ Commit(p)
    BY <1>1, <2>3 DEF Intent, Settle, Commit, fsVars
  <2> QED
    BY <1>3, <2>1, <2>2, <2>3 DEF PublishStep
<1>4. ASSUME NEW p \in Handlers, RecoveryStep(p) PROVE Kept
  <2>1. CASE InspectAssembling(p)
    <3>1. CASE art' = [art EXCEPT ![w[p].s].synced = TRUE,
                                  ![w[p].s].named = "temp"]
      BY <3>1 DEF IInv, Types, Copy
    <3>2. CASE /\ Restartable(w[p].s)
               /\ art' = [art EXCEPT ![w[p].s].bytes = NoRows,
                                     ![w[p].s].synced = FALSE]
      BY <1>0, <3>2 DEF IInv, Types, Restartable
    <3> QED
      BY <2>1, <3>1, <3>2 DEF InspectAssembling
  <2>2. CASE InspectVerified(p) \/ InspectPublishing(p) \/ VerifyFinal(p)
    <3>1. PICK n \in {"temp", "final", art[w[p].s].place} :
            art' = [art EXCEPT ![w[p].s].synced = TRUE, ![w[p].s].named = n]
      BY <2>2 DEF InspectVerified, InspectPublishing, VerifyFinal
    <3> QED
      BY <3>1 DEF IInv, Types, Copy
  <2>3. CASE Reopen(p) \/ Preflight(p) \/ FinishCleanup(p)
    BY <1>1, <2>3 DEF Reopen, Preflight, FinishCleanup, fsVars
  <2>4. CASE \E i \in Chunks : RemoveChunk(p, i)
    BY <1>1, <2>4 DEF RemoveChunk
  <2> QED
    BY <1>4, <2>1, <2>2, <2>3, <2>4 DEF RecoveryStep
<1>5. ASSUME NEW p \in Handlers,
             \/ Request(p) \/ UploadStep(p) \/ PurgeChunk(p)
             \/ PurgeDone(p) \/ Fail(p) \/ Fault(p)
      PROVE  Kept
  BY <1>1, <1>5 DEF Request, Create, ChunkBegin, FinalizeBegin, Recover, Abort,
     UploadStep, Mkdir, MkdirFails, ChunkStore, ChunkCommit, PurgeChunk,
     PurgeDone, Fail, Fault, fsVars
<1>6. ASSUME NEW t \in Sessions, PowerLoss(t) PROVE Kept
  <2>1. PICK b \in Surviving(art[t]) : art' = [art EXCEPT ![t] = b]
    BY <1>6 DEF PowerLoss
  <2>2. art[t].synced => b.bytes = art[t].bytes
    BY SurvivingFacts DEF IInv, Types
  <2> QED
    BY <2>1, <2>2 DEF IInv, Types
<1>7. CASE Crash \/ \E t \in Sessions, i \in Chunks : Decay(t, i)
  BY <1>1, <1>7 DEF Crash, Decay, fsVars
<1>8. ASSUME NEW t \in Sessions,
             Tick(t) \/ Trash(t) \/ Untrash(t) \/ DeleteFile(t)
      PROVE  Kept
  <2>1. CASE DeleteFile(t)
    BY <2>1 DEF DeleteFile, Unreserved, IInv, Types
  <2> QED
    BY <1>1, <1>8, <2>1 DEF Tick, Trash, Untrash, fsVars
<1>9. ASSUME NEW b \in OtherBytes, Charge(b) \/ Release(b) PROVE Kept
  BY <1>1, <1>9 DEF Charge, Release, fsVars
<1>10. CASE \E p \in Handlers : Request(p) \/ HandlerStep(p)
  BY <1>2, <1>3, <1>4, <1>5, <1>10 DEF HandlerStep
<1>11. CASE Failure
  BY <1>5, <1>6, <1>7, <1>11 DEF Failure
<1>12. CASE Environment
  BY <1>8, <1>9, <1>12 DEF Environment
<1> QED
  BY <1>10, <1>11, <1>12 DEF Next

\* A copy assembled and synced whole is kept under one name or the other until
\* its operation is over.
THEOREM CopyIsKept == Spec => CopyKept
<1>1. IInv /\ IInv' /\ [Next]_vars => [KeepsCopy]_vars
  <2> SUFFICES ASSUME IInv, IInv', Next, NEW s \in Sessions, Pending(s),
                      art[s].synced, art[s].bytes = Want[s]
               PROVE  art'[s].bytes = Want[s] /\ art'[s].place # "none"
    BY DEF KeepsCopy
  <2>1. art'[s].bytes = Want[s]
    BY BytesKept
  <2> QED
    BY <2>1, WantFacts DEF IInv, Good, Artifact
<1> QED
  BY <1>1, Invariant, PTL DEF Spec, CopyKept

\* The three together.
THEOREM BytesAreSafe == Spec => BytesSafe
<1> QED
  BY PublishedIsDurable, SourceIsKept, CopyIsKept, PTL DEF BytesSafe

(***************************************************************************)
(* The transactions are those of JournalPromise                            *)
(***************************************************************************)
\* No transaction, or one about a session without a pending operation.
LEMMA JournalFrame ==
  ASSUME NEW s \in Sessions, op'[s] = op[s],
         \/ ~Pending(s)
         \/ /\ rec'[s] = rec[s] /\ status'[s] = status[s]
            /\ file'[s] = file[s]
  PROVE  JP!SessionStep(s)
BY DEF JP!SessionStep, JP!Free, JP!Held, JP!Pending, JP!RowsKept, Pending

\* The operation that is begun is the only one.
LEMMA BeginPromised ==
  ASSUME IInv, NEW p \in Handlers, NEW s \in Sessions, FinalizeBegin(p, s)
  PROVE  \A t \in Sessions : JP!SessionStep(t)
<1>1. /\ op[s].state = "none" /\ status'[s] \in Active /\ file'[s] = None
      /\ op'[s] = [NoOp EXCEPT !.state = "assembling", !.man = rec'[s]]
      /\ \A t \in Sessions \ {s} : op'[t] = op[t]
      /\ \A t \in Sessions : ~Pending(t)
  BY DEF FinalizeBegin, IInv, Types
<1>2. JP!Begin(s)
  BY <1>1 DEF JP!Begin, JP!NoOp, NoOp
<1> QED
  BY <1>1, <1>2, JournalFrame DEF JP!SessionStep

\* A step of assembly or publication.
LEMMA AdvancePromised ==
  ASSUME IInv, NEW p \in Handlers, AssemblyStep(p) \/ PublishStep(p)
  PROVE  \A t \in Sessions : JP!SessionStep(t)
<1>1. CASE UNCHANGED <<op, rec, status, file>>
  BY <1>1, JournalFrame
<1>2. CASE RecordTarget(p)
  <2>1. PICK s \in Sessions : s = w[p].s
    BY <1>2, AtWork DEF RecordTarget, At
  <2>2. JP!RecordTarget(s)
    BY <1>2, <2>1 DEF RecordTarget, JP!RecordTarget, JP!RowsKept, IInv, Types
  <2> QED
    BY <1>2, <2>1, <2>2, JournalFrame
    DEF RecordTarget, IInv, Types, JP!SessionStep
<1>3. CASE Mime(p)
  <2>1. PICK s \in Sessions : s = w[p].s
    BY <1>3, AtWork DEF Mime, At
  <2>2. JP!RecordMime(s)
    BY <1>3, <2>1 DEF Mime, JP!RecordMime, JP!RowsKept, IInv, Types
  <2> QED
    BY <1>3, <2>1, <2>2, JournalFrame DEF Mime, IInv, Types, JP!SessionStep
<1>4. ASSUME NEW s \in Sessions, NEW from \in States, NEW to \in States,
             <<from, to>> \in JP!Follows, Advance(s, from, to), op[s].target,
             to = "publishing" => op[s].mime,
             UNCHANGED <<rec, status, file>>
      PROVE  \A t \in Sessions : JP!SessionStep(t)
  <2>1. op'[s] = [op[s] EXCEPT !.state = to] /\ op[s].state = from
    BY <1>4 DEF Advance, IInv, Types
  <2>2. to \in JP!States
    BY DEF JP!States, States
  <2>3. JP!Advance(s)
    BY <1>4, <2>1, <2>2 DEF JP!Advance, JP!RowsKept
  <2> QED
    BY <1>4, <2>3, JournalFrame DEF Advance, IInv, Types, JP!SessionStep
<1>5. CASE MarkVerified(p)
  <2>1. PICK s \in Sessions : s = w[p].s /\ op[s].target
    BY <1>5, AtWork DEF MarkVerified, At, WorkOK
  <2> QED
    BY <1>4, <1>5, <2>1 DEF MarkVerified, JP!Follows, States
<1>6. CASE Intent(p)
  <2>1. PICK s \in Sessions : s = w[p].s /\ op[s].target /\ op[s].mime
    BY <1>6, AtWork, Assembling
    DEF Intent, At, WorkOK, Good, Journalled, Pending
  <2> QED
    BY <1>4, <1>6, <2>1 DEF Intent, JP!Follows, States
<1>7. CASE Settle(p)
  <2>1. PICK s \in Sessions : s = w[p].s /\ op[s].target
    BY <1>7, AtWork, Assembling
    DEF Settle, At, WorkOK, Good, Journalled, Pending
  <2> QED
    BY <1>4, <1>7, <2>1 DEF Settle, JP!Follows, States
<1>8. CASE Commit(p)
  <2>1. PICK s \in Sessions : s = w[p].s
    BY <1>8, AtWork DEF Commit, At
  <2>2. JP!Commit(s)
    BY <1>8, <2>1, CommitFacts
    DEF Commit, Committable, JP!Commit, IInv, Types
  <2> QED
    BY <1>8, <2>1, <2>2, CommitFacts, JournalFrame DEF Same, JP!SessionStep
<1>9. \/ UNCHANGED <<op, rec, status, file>>
      \/ RecordTarget(p) \/ Mime(p) \/ MarkVerified(p)
      \/ Intent(p) \/ Settle(p) \/ Commit(p)
  BY DEF AssemblyStep, PublishStep, CreateTemp, AppendChunk, SealTemp, Rename,
     SyncName, dbVars
<1> QED
  BY <1>1, <1>2, <1>3, <1>5, <1>6, <1>7, <1>8, <1>9

\* The end of the cleanup.
LEMMA CleanPromised ==
  ASSUME IInv, NEW p \in Handlers, FinishCleanup(p)
  PROVE  \A t \in Sessions : JP!SessionStep(t)
<1>1. PICK s \in Sessions : s = w[p].s /\ Pending(s)
  BY AtWork DEF FinishCleanup, At, WorkOK
<1>2. JP!Clean(s)
  BY <1>1 DEF FinishCleanup, JP!Clean, JP!Pending, Pending, IInv, Types
<1> QED
  BY <1>1, <1>2, JournalFrame DEF FinishCleanup, IInv, Types, JP!SessionStep

\* Whoever changes the rows of a session otherwise finds no pending operation.
LEMMA RowsPromised ==
  ASSUME IInv, NEW s \in Sessions, ~Pending(s), op' = op,
         \A t \in Sessions \ {s} :
           rec'[t] = rec[t] /\ status'[t] = status[t] /\ file'[t] = file[t]
  PROVE  \A t \in Sessions : JP!SessionStep(t)
BY JournalFrame

\* Every step.
LEMMA NextPromised ==
  ASSUME IInv, Next
  PROVE  \A t \in Sessions : JP!SessionStep(t)
<1> DEFINE Promised == \A t \in Sessions : JP!SessionStep(t)
<1>0. CASE UNCHANGED <<op, rec, status, file>>
  BY <1>0, JournalFrame
<1>1. ASSUME NEW p \in Handlers, NEW s \in Sessions, Create(p, s)
      PROVE  Promised
  <2>1. ~Pending(s)
    BY <1>1 DEF Create, IInv, Good, Journalled, Unambiguous, Active
  <2> QED
    BY <1>1, <2>1, RowsPromised DEF Create, IInv, Types
<1>2. ASSUME NEW p \in Handlers, NEW s \in Sessions, Abort(p, s)
      PROVE  Promised
  BY <1>2, RowsPromised DEF Abort, Unreserved, IInv, Types
<1>3. ASSUME NEW p \in Handlers,
             MkdirFails(p) \/ ChunkCommit(p) \/ PurgeChunk(p)
      PROVE  Promised
  <2>1. PICK s \in Sessions : s = w[p].s /\ ~Pending(s)
    BY <1>3, AtWork
    DEF MkdirFails, ChunkCommit, PurgeChunk, At, WorkOK, Unreserved
  <2> QED
    BY <1>3, <2>1, RowsPromised
    DEF MkdirFails, ChunkCommit, PurgeChunk, IInv, Types
<1>4. ASSUME NEW s \in Sessions, DeleteFile(s) PROVE Promised
  BY <1>4, RowsPromised DEF DeleteFile, Unreserved, IInv, Types
<1>5. CASE \E p \in Handlers : Request(p) \/ HandlerStep(p)
  <2>1. PICK p \in Handlers : Request(p) \/ HandlerStep(p)
    BY <1>5
  <2>2. CASE Request(p)
    BY <1>0, <1>1, <1>2, <2>2, BeginPromised
    DEF Request, ChunkBegin, Recover, dbVars
  <2>3. CASE AssemblyStep(p) \/ PublishStep(p)
    BY <2>3, AdvancePromised
  <2>4. CASE UploadStep(p) \/ PurgeChunk(p)
    BY <1>0, <1>3, <2>4 DEF UploadStep, Mkdir, ChunkStore, dbVars
  <2>5. CASE RecoveryStep(p)
    BY <1>0, <2>5, CleanPromised DEF RecoveryStep, Reopen, InspectAssembling,
       InspectVerified, InspectPublishing, VerifyFinal, Preflight, RemoveChunk,
       dbVars
  <2>6. CASE PurgeDone(p) \/ Fail(p)
    BY <1>0, <2>6 DEF PurgeDone, Fail, dbVars
  <2> QED
    BY <2>1, <2>2, <2>3, <2>4, <2>5, <2>6 DEF HandlerStep
<1>6. CASE Failure
  BY <1>0, <1>6 DEF Failure, Fault, Crash, PowerLoss, Decay, dbVars
<1>7. CASE Environment
  BY <1>0, <1>4, <1>7
  DEF Environment, Tick, Trash, Untrash, Charge, Release, dbVars
<1> QED
  BY <1>5, <1>6, <1>7 DEF Next

\* Uploads, finalization, recovery, abort and the owner's deletions keep what
\* the journal promises of the tables, and so what is proved of JournalPromise.
THEOREM JournalIsKept == Spec => JournalKept
<1>1. Init => JP!Init
  BY DEF Init, JP!Init, JP!NoOp, NoOp
<1>2. IInv /\ IInv' /\ [Next]_vars => [JP!Next]_(JP!vars)
  <2> SUFFICES ASSUME IInv, IInv', [Next]_vars
               PROVE  [JP!Next]_(JP!vars)
    OBVIOUS
  <2>1. CASE Next
    <3>1. op' \in [Sessions -> JP!Journal] /\ rec' \in [Sessions -> Rows]
      BY DEF IInv, Types, Operation, JP!Journal, JP!States, States
    <3>2. JP!OneAtATime(op')
      BY DEF IInv, Single, Pending, JP!OneAtATime, JP!Pending
    <3> QED
      BY <2>1, <3>1, <3>2, NextPromised DEF JP!Next
  <2>2. CASE UNCHANGED vars
    BY <2>2 DEF vars, dbVars, JP!vars
  <2> QED
    BY <2>1, <2>2
<1> QED
  BY <1>1, <1>2, Invariant, PTL DEF Spec, JournalKept, JP!Spec

(***************************************************************************)
(* An upload keeps its promise                                             *)
(***************************************************************************)
\* What a reader of the File gets is the body the client declared.
LEMMA ContentFacts ==
  ASSUME IInv, NEW s \in Sessions
  PROVE  ContentOf[s] = IF file[s] = "live" THEN Want[s] ELSE None
BY DEF ContentOf, IInv, Good, Artifact, Durable, Whole

\* To the owner nothing happened to a session.
Unseen(s) ==
  /\ file'[s] = file[s]
  /\ \/ status'[s] = status[s]
     \/ status[s] \in Active /\ status'[s] \in Active

\* He sees it as he did.
LEMMA UnseenFacts ==
  ASSUME IInv, IInv', NEW s \in Sessions, Unseen(s)
  PROVE  PhaseOf'[s] = PhaseOf[s] /\ ContentOf'[s] = ContentOf[s]
<1>1. PhaseOf'[s] = PhaseOf[s]
  BY DEF PhaseOf, Unseen, Active
<1>2. ContentOf'[s] = ContentOf[s]
  BY DEF Unseen, ContentOf, IInv, Good, Artifact, Durable, Whole
<1> QED
  BY <1>1, <1>2

\* Nothing to see in any session.
LEMMA Stutter ==
  ASSUME IInv, IInv', \A s \in Sessions : Unseen(s)
  PROVE  UNCHANGED UP!vars
<1>1. PhaseOf' = PhaseOf
  BY UnseenFacts DEF PhaseOf
<1>2. ContentOf' = ContentOf
  BY UnseenFacts DEF ContentOf
<1> QED
  BY <1>1, <1>2 DEF UP!vars

\* Something to see in one.
LEMMA Moves ==
  ASSUME IInv, IInv', NEW s \in Sessions, NEW from, NEW to, NEW body,
         PhaseOf[s] = from, PhaseOf'[s] = to, ContentOf'[s] = body,
         \A t \in Sessions \ {s} : Unseen(t)
  PROVE  UP!Move(s, from, to, body)
<1>1. PhaseOf' = [PhaseOf EXCEPT ![s] = to]
  BY UnseenFacts DEF PhaseOf
<1>2. ContentOf' = [ContentOf EXCEPT ![s] = body]
  BY UnseenFacts DEF ContentOf
<1> QED
  BY <1>1, <1>2 DEF UP!Move

\* A new session opens an upload.
LEMMA Opens ==
  ASSUME IInv, IInv', NEW p \in Handlers, NEW s \in Sessions, Create(p, s)
  PROVE  UP!Next
<1>1. /\ status[s] = "none" /\ status'[s] = "pending" /\ file'[s] = file[s]
      /\ \A t \in Sessions \ {s} : Unseen(t)
  BY DEF Create, Unseen, IInv, Types
<1>2. file[s] # "live"
  BY <1>1 DEF IInv, Good, Filed
<1>3. PhaseOf[s] = "absent" /\ PhaseOf'[s] = "open" /\ ContentOf'[s] = None
  BY <1>1, <1>2 DEF PhaseOf, ContentOf, Active
<1>4. UP!Open(s)
  BY <1>1, <1>3, Moves DEF UP!Open
<1> QED
  BY <1>4 DEF UP!Next

\* A session that ends without a File closes it.
LEMMA Closes ==
  ASSUME IInv, IInv', NEW s \in Sessions, status[s] \in Active,
         status' = [status EXCEPT ![s] = "aborted"], file' = file
  PROVE  UP!Next
<1>1. /\ status'[s] = "aborted" /\ file'[s] = file[s]
      /\ \A t \in Sessions \ {s} : Unseen(t)
  BY DEF Unseen, IInv, Types
<1>2. file[s] # "live"
  BY DEF IInv, Good, Filed, Active
<1>3. PhaseOf[s] = "open" /\ PhaseOf'[s] = "over" /\ ContentOf'[s] = None
  BY <1>1, <1>2 DEF PhaseOf, ContentOf, Active
<1>4. UP!Close(s)
  BY <1>1, <1>3, Moves DEF UP!Close
<1> QED
  BY <1>4 DEF UP!Next

\* The transaction of the File publishes it, whole.
LEMMA Publishes ==
  ASSUME IInv, IInv', NEW p \in Handlers, Commit(p)
  PROVE  UP!Next
<1>1. PICK s \in Sessions : s = w[p].s /\ op[s].state = "published"
  BY AtWork DEF Commit, At, WorkOK
<1>2. status[s] \in Active /\ file[s] = None
  BY <1>1, Assembling DEF IInv, Unambiguous
<1>3. file'[s] = "live" /\ \A t \in Sessions \ {s} : Unseen(t)
  BY <1>1, CommitFacts DEF Same, Unseen
<1>4. PhaseOf[s] = "open" /\ PhaseOf'[s] = "published"
  BY <1>2, <1>3, ConstantsAssumption DEF PhaseOf, Active
<1>5. ContentOf'[s] = Want[s]
  BY <1>3 DEF ContentOf, IInv, Good, Artifact, Durable, Whole
<1>6. Want[s] \in Bodies
  BY ConstantsAssumption DEF Bodies, Chunks
<1>7. UP!Publish(s, Want[s])
  BY <1>3, <1>4, <1>5, Moves DEF UP!Publish
<1> QED
  BY <1>6, <1>7 DEF UP!Next

\* The owner removes it.
LEMMA Removes ==
  ASSUME IInv, IInv', NEW s \in Sessions, DeleteFile(s)
  PROVE  UP!Next
<1>1. /\ file[s] = "live" /\ file'[s] = Deleted /\ status' = status
      /\ \A t \in Sessions \ {s} : Unseen(t)
  BY DEF DeleteFile, Unseen, IInv, Types
<1>2. status[s] = "completed"
  BY <1>1 DEF IInv, Good, Filed
<1>3. /\ PhaseOf[s] = "published" /\ PhaseOf'[s] = "over"
      /\ ContentOf'[s] = None
  BY <1>1, <1>2, ConstantsAssumption DEF PhaseOf, ContentOf, Active
<1>4. UP!Remove(s)
  BY <1>1, <1>3, Moves DEF UP!Remove
<1> QED
  BY <1>4 DEF UP!Next

\* A handler's step is one of these or none.
LEMMA HandlerPromises ==
  ASSUME IInv, IInv', NEW p \in Handlers, Request(p) \/ HandlerStep(p)
  PROVE  [UP!Next]_(UP!vars)
<1>1. CASE UNCHANGED <<status, file>>
  BY <1>1, Stutter DEF Unseen
<1>2. ASSUME NEW s \in Sessions, Abort(p, s) PROVE [UP!Next]_(UP!vars)
  <2>1. CASE status[s] \in Active
    BY <1>2, <2>1, Closes DEF Abort
  <2>2. CASE status[s] = "aborted"
    BY <1>2, <2>2, Stutter DEF Abort, Unseen, IInv, Types
  <2> QED
    BY <1>2, <2>1, <2>2 DEF Abort
<1>3. CASE MkdirFails(p)
  <2>1. PICK s \in Sessions : s = w[p].s /\ status[s] \in Active
    BY <1>3, AtWork DEF MkdirFails, At, WorkOK
  <2>2. CASE status' = [status EXCEPT ![s] = "aborted"]
    BY <1>3, <2>1, <2>2, Closes DEF MkdirFails
  <2> QED
    BY <1>1, <1>3, <2>1, <2>2 DEF MkdirFails
<1>4. CASE ChunkCommit(p)
  <2>1. \A t \in Sessions : Unseen(t)
    BY <1>4 DEF ChunkCommit, Unseen, IInv, Types, Active
  <2> QED
    BY <2>1, Stutter
<1>5. CASE Commit(p)
  BY <1>5, Publishes
<1>6. CASE Request(p)
  BY <1>1, <1>2, <1>6, Opens
  DEF Request, ChunkBegin, FinalizeBegin, Recover, dbVars
<1>7. CASE UploadStep(p)
  BY <1>1, <1>3, <1>4, <1>7 DEF UploadStep, Mkdir, ChunkStore, dbVars
<1>8. CASE AssemblyStep(p)
  BY <1>1, <1>8 DEF AssemblyStep, CreateTemp, RecordTarget, AppendChunk,
     SealTemp, MarkVerified, Mime, dbVars
<1>9. CASE PublishStep(p)
  BY <1>1, <1>5, <1>9 DEF PublishStep, Intent, Rename, SyncName, Settle, dbVars
<1>10. CASE RecoveryStep(p)
  BY <1>1, <1>10 DEF RecoveryStep, Reopen, InspectAssembling, InspectVerified,
     InspectPublishing, VerifyFinal, Preflight, RemoveChunk, FinishCleanup,
     dbVars
<1>11. CASE PurgeChunk(p) \/ PurgeDone(p) \/ Fail(p)
  BY <1>1, <1>11 DEF PurgeChunk, PurgeDone, Fail, dbVars
<1> QED
  BY <1>6, <1>7, <1>8, <1>9, <1>10, <1>11 DEF HandlerStep

\* An upload becomes a File at once, whole and once, or ends without a trace;
\* a File keeps the body its client declared until it is deleted.
THEOREM PromiseIsKept == Spec => KeepsPromise
<1>1. IInv /\ Init => UP!Init
  BY ConstantsAssumption DEF Init, UP!Init, PhaseOf, ContentOf
<1>2. IInv /\ IInv' /\ [Next]_vars => [UP!Next]_(UP!vars)
  <2> SUFFICES ASSUME IInv, IInv', [Next]_vars
               PROVE  [UP!Next]_(UP!vars)
    OBVIOUS
  <2>1. CASE \E p \in Handlers : Request(p) \/ HandlerStep(p)
    BY <2>1, HandlerPromises
  <2>2. CASE UNCHANGED <<status, file>>
    BY <2>2, Stutter DEF Unseen
  <2>3. CASE Failure
    BY <2>2, <2>3 DEF Failure, Fault, Crash, PowerLoss, Decay, dbVars
  <2>4. CASE Environment
    BY <2>2, <2>4, Removes
    DEF Environment, Tick, Trash, Untrash, Charge, Release, dbVars
  <2> QED
    BY <2>1, <2>2, <2>3, <2>4 DEF Next, vars, dbVars
<1> QED
  BY <1>1, <1>2, InitInv, Invariant, PTL DEF Spec, KeepsPromise, UP!Spec
-----------------------------------------------------------------------------
(***************************************************************************)
(* The descriptors of one finalization (FinalizationPins).                 *)
(***************************************************************************)
Ids == Objects \cup {0}
JournalStates == {"none", "assembling", "verified", "publishing",
                  "published", "committed", "cleaned"}
Outside == {"idle", "closed", "dead"}
Pinning == {"pin_stat", "pin_open", "pin_check", "lock", "open_target",
            "base", "mkdir", "bind"}
OfFirst == {"begin", "metadata", "read_metadata"}
OfRecovery ==
  {"reopen_temporary", "reopen_final", "adopt", "confirm", "resume", "reset",
   "durable", "look_temporary", "look_final", "sync_found", "clean",
   "sync_source"}
OfBoth == {"create", "anchor", "sync_created", "record", "verified",
           "intent", "publish", "ack", "commit"}
Working == OfFirst \cup OfRecovery \cup OfBoth
Descriptors == D!Places \cup {"capability", "artifact", "opened", "writer",
                              "metadata", "temporary", "final"}
Pins == [D!Places -> Ids]

Capability ==
  [pc: Outside \cup Pinning \cup Working, ready: BOOLEAN, read: Ids,
   was: JournalStates, seen: Ids, base: Ids, pins: Pins,
   pushed: SUBSET D!Places, bound: BOOLEAN, temporaryPin: Ids,
   published: BOOLEAN, fds: SUBSET Descriptors, twice: BOOLEAN]

PinTypes ==
  /\ root \in [{"source", "target"} -> Objects]
  /\ child \in [Objects -> Ids] /\ files \in [Objects -> [D!Names -> Ids]]
  /\ fresh \in Nat /\ fresh > 4
  /\ fence \in [Objects -> SUBSET D!Workers]
  /\ journal \in [state: JournalStates, pins: Pins, target: Ids]
  /\ cap \in [D!Workers -> Capability]

\* How far a worker has pinned: directories in their order.
Pushed(v, c) ==
  /\ c.pc \in {"idle", "dead"} => c.pushed = {}
  /\ c.pc \in {"pin_stat", "pin_open", "pin_check"} =>
       c.pushed \in {{}, {"sourceRoot"}, {"sourceRoot", "source"},
                     {"sourceRoot", "source", "targetRoot"}}
  /\ c.pc = "lock" => c.pushed = {"sourceRoot"}
  /\ c.pc \in {"open_target", "base"} => c.pushed = {"sourceRoot", "source"}
  /\ c.pc = "mkdir" => c.pushed = {"sourceRoot", "source", "targetRoot"}
  /\ c.pc \in {"bind"} \cup Working => c.pushed = D!Places
  /\ c.pc \in {"pin_open", "pin_check"} /\ c.pushed = {} => c.seen = 1
  /\ "sourceRoot" \in c.pushed => c.pins["sourceRoot"] = 1
  /\ c.pc = "base" => c.seen # 0
  /\ c.bound <=> c.pc \in Working
  /\ v = "first" => c.pc \notin OfRecovery
  /\ v = "recovery" => c.pc \notin OfFirst \cup {"mkdir"}

\* What a worker holds until it closes, and what the call under way has open.
Kept(c) == c.pushed \cup (IF c.base # 0 THEN {"capability"} ELSE {})
                    \cup (IF c.temporaryPin # 0 THEN {"artifact"} ELSE {})

Opened(v, c) ==
  CASE c.pc \in {"pin_check", "base"} -> {"opened"}
    [] \/ c.pc \in {"anchor", "sync_created", "record", "metadata"}
       \/ c.pc = "verified" /\ v = "first" -> {"writer"}
    [] c.pc = "read_metadata" -> {"writer", "metadata"}
    [] c.pc \in {"reopen_final", "look_final"} -> c.fds \cap {"temporary"}
    [] c.pc \in {"adopt", "sync_found"} -> c.fds \cap {"temporary", "final"}
    [] OTHER -> {}

Accounted(v, c) ==
  /\ ~c.twice
  /\ c.pc \in {"closed", "dead"} => c.fds = {}
  /\ c.pc \notin {"closed", "dead"} => c.fds = Kept(c) \cup Opened(v, c)
  /\ c.pc = "idle" => c.base = 0
  /\ c.pc \in Pinning \cup {"idle", "begin", "reopen_temporary",
                            "reopen_final", "adopt"} => c.temporaryPin = 0

\* A worker past its lock has the source root for itself.
Owns(c) == "sourceRoot" \in c.pushed /\ c.pc \notin {"lock", "closed"}
OneOwns == \A v \in D!Workers : Owns(cap[v]) => fence[1] = {v}

\* A final name that holds n was given to it by a rename.
Tracked(n, fl, mv) ==
  \A d \in Objects : fl[d]["final"] = n => [dir |-> d, ino |-> n] \in mv

\* What a worker knows of journal and artifact.
Knows(v, c, j, mv, fl, fr) ==
  /\ v = "first" /\ c.pc \in Pinning \cup {"idle", "begin"} =>
       j.state = "none"
  /\ v = "recovery" /\ c.pc # "idle" => j.state # "none"
  /\ c.pc \in Working \ {"begin"} => j.state # "none" /\ c.pins = j.pins
  /\ c.pc = "reopen_final" /\ "temporary" \in c.fds =>
       c.seen = c.read /\ c.seen # 0
  /\ c.pc = "adopt" /\ c.fds \cap {"temporary", "final"} # {} =>
       c.seen = c.read /\ c.seen # 0
  /\ c.pc = "confirm" => c.temporaryPin \in {0, c.read}
  /\ c.pc \in {"resume", "reset"} =>
       c.read = j.target /\ c.temporaryPin \in {0, j.target}
  /\ c.pc \in {"anchor", "sync_created", "record"} =>
       c.seen # 0 /\ c.seen < fr /\ Tracked(c.seen, fl, mv)
  /\ c.pc \in {"sync_created", "record"} => c.temporaryPin = c.seen
  /\ c.pc \in {"durable", "look_temporary", "look_final", "sync_found"} =>
       c.temporaryPin \in {0, j.target}
  /\ c.pc \in {"verified", "metadata", "read_metadata", "intent", "publish",
               "ack"} => c.temporaryPin = j.target /\ j.target # 0
  /\ c.pc = "ack" => c.published
  /\ c.pc = "ack" /\ c.ready =>
       [dir |-> c.pins["target"], ino |-> c.temporaryPin] \in mv
  /\ c.pc \in {"commit", "clean", "sync_source"} =>
       [dir |-> j.pins["target"], ino |-> j.target] \in mv

Recorded ==
  /\ journal.target < fresh
  /\ journal.target # 0 => Tracked(journal.target, files, moved)
  /\ D!PublishedInPlace
  /\ touched \subseteq {journal.target, 4} /\ 0 \notin touched
  /\ \A m \in moved : m.ino # 0
  /\ \A d \in Objects, n \in D!Names : files[d][n] < fresh

PinInv ==
  /\ PinTypes /\ OneOwns /\ Recorded
  /\ \A v \in D!Workers :
       /\ Pushed(v, cap[v]) /\ Accounted(v, cap[v])
       /\ Knows(v, cap[v], journal, moved, files, fresh)

-----------------------------------------------------------------------------
\* What the operators on a capability do.
LEMMA PinConstants ==
  /\ Objects \subseteq Nat \ {0} /\ {1, 2, 3, 4} \subseteq Objects
  /\ 0 \in Ids /\ Ids \subseteq Nat /\ \A i \in Ids : i # 0 => i \in Objects
BY PinsAssumption DEF D!PinsFit, Ids

LEMMA Inodes ==
  ASSUME PinInv
  PROVE  /\ fresh \in Nat /\ journal.target \in Nat
         /\ \A d \in Objects, n \in D!Names : files[d][n] \in Nat
<1>1. Ids \subseteq Nat
  BY PinConstants
<1>2. /\ journal.target \in Ids /\ fresh \in Nat
      /\ files \in [Objects -> [D!Names -> Ids]]
  BY DEF PinInv, PinTypes
<1>3. \A d \in Objects, n \in D!Names : files[d][n] \in Ids
  BY <1>2
<1> QED
  BY <1>1, <1>2, <1>3

LEMMA WithoutIs ==
  ASSUME NEW c \in Capability, NEW S
  PROVE  /\ D!Without(c, S) \in Capability
         /\ D!Without(c, S).fds = c.fds \ S
         /\ D!Without(c, S).twice = (c.twice \/ ~(S \subseteq c.fds))
         /\ D!Without(c, S).pc = c.pc /\ D!Without(c, S).ready = c.ready
         /\ D!Without(c, S).read = c.read /\ D!Without(c, S).was = c.was
         /\ D!Without(c, S).seen = c.seen /\ D!Without(c, S).base = c.base
         /\ D!Without(c, S).pins = c.pins
         /\ D!Without(c, S).pushed = c.pushed
         /\ D!Without(c, S).bound = c.bound
         /\ D!Without(c, S).temporaryPin = c.temporaryPin
         /\ D!Without(c, S).published = c.published
BY DEF D!Without, Capability

LEMMA ToIs ==
  ASSUME NEW c \in Capability, NEW l \in Outside \cup Pinning \cup Working
  PROVE  /\ D!To(c, l) \in Capability
         /\ D!To(c, l).pc = l /\ ~D!To(c, l).ready
         /\ D!To(c, l).read = c.read /\ D!To(c, l).was = c.was
         /\ D!To(c, l).seen = c.seen /\ D!To(c, l).base = c.base
         /\ D!To(c, l).pins = c.pins /\ D!To(c, l).pushed = c.pushed
         /\ D!To(c, l).bound = c.bound
         /\ D!To(c, l).temporaryPin = c.temporaryPin
         /\ D!To(c, l).published = c.published
         /\ D!To(c, l).fds = c.fds /\ D!To(c, l).twice = c.twice
BY DEF D!To, Capability

LEMMA TakeIs ==
  ASSUME NEW c \in Capability, NEW fd \in Descriptors
  PROVE  /\ D!Take(c, fd) \in Capability
         /\ D!Take(c, fd).pc = c.pc /\ D!Take(c, fd).ready = c.ready
         /\ D!Take(c, fd).read = c.read /\ D!Take(c, fd).was = c.was
         /\ D!Take(c, fd).seen = c.seen /\ D!Take(c, fd).base = c.base
         /\ D!Take(c, fd).pins = c.pins /\ D!Take(c, fd).pushed = c.pushed
         /\ D!Take(c, fd).bound = c.bound
         /\ D!Take(c, fd).temporaryPin = c.temporaryPin
         /\ D!Take(c, fd).published = c.published
         /\ D!Take(c, fd).fds = c.fds \cup {fd}
         /\ D!Take(c, fd).twice = c.twice
BY DEF D!Take, Capability

LEMMA CloseIs ==
  ASSUME NEW c \in Capability
  PROVE  /\ D!Close(c) \in Capability
         /\ D!Close(c).pc = "closed" /\ ~D!Close(c).bound
         /\ D!Close(c).fds = c.fds \ Kept(c)
         /\ D!Close(c).twice = (c.twice \/ ~(Kept(c) \subseteq c.fds))
         /\ D!Close(c).pins = c.pins /\ D!Close(c).pushed = c.pushed
<1> DEFINE S == Kept(c)
           q == D!Without(c, S)
<1>1. q \in Capability
  BY WithoutIs
<1>2. /\ q.fds = c.fds \ S /\ q.twice = (c.twice \/ ~(S \subseteq c.fds))
      /\ q.pins = c.pins /\ q.pushed = c.pushed
  BY WithoutIs
<1>3. D!Close(c) = [q EXCEPT !.pc = "closed", !.bound = FALSE]
  BY DEF D!Close, Kept
<1> HIDE DEF q
<1>4. /\ [q EXCEPT !.pc = "closed", !.bound = FALSE] \in Capability
      /\ [q EXCEPT !.pc = "closed", !.bound = FALSE].pc = "closed"
      /\ ~[q EXCEPT !.pc = "closed", !.bound = FALSE].bound
      /\ [q EXCEPT !.pc = "closed", !.bound = FALSE].fds = q.fds
      /\ [q EXCEPT !.pc = "closed", !.bound = FALSE].twice = q.twice
      /\ [q EXCEPT !.pc = "closed", !.bound = FALSE].pins = q.pins
      /\ [q EXCEPT !.pc = "closed", !.bound = FALSE].pushed = q.pushed
  BY <1>1 DEF Capability, Outside
<1> QED
  BY <1>2, <1>3, <1>4

\* A rename keeps what is tracked, and so does a new identity.
LEMMA TrackedStays ==
  ASSUME NEW n \in Nat, n < fresh, Tracked(n, files, moved),
         moved \subseteq moved',
         \A d \in Objects :
           \/ files'[d]["final"] \in {files[d]["final"], fresh}
           \/ [dir |-> d, ino |-> files'[d]["final"]] \in moved'
  PROVE  Tracked(n, files', moved')
<1> SUFFICES ASSUME NEW d \in Objects, files'[d]["final"] = n
             PROVE  [dir |-> d, ino |-> n] \in moved'
  BY DEF Tracked
<1>1. n # fresh \/ fresh \notin Nat
  OBVIOUS
<1>2. CASE [dir |-> d, ino |-> files'[d]["final"]] \in moved'
  BY <1>2
<1>3. CASE files'[d]["final"] = fresh
  <2>1. n = fresh
    BY <1>3
  <2> QED
    BY <2>1, <1>1
<1>4. CASE files'[d]["final"] = files[d]["final"]
  BY <1>4 DEF Tracked
<1> QED
  BY <1>2, <1>3, <1>4

\* A step of one worker.
LEMMA PinStep ==
  ASSUME PinInv, NEW v \in D!Workers, NEW q \in Capability, D!Put(v, q),
         Pushed(v, q), Accounted(v, q), Owns(q) => Owns(cap[v]),
         root' \in [{"source", "target"} -> Objects],
         child' \in [Objects -> Ids], files' \in [Objects -> [D!Names -> Ids]],
         fresh' \in Nat, fresh' > 4, Recorded',
         journal' \in [state: JournalStates, pins: Pins, target: Ids],
         Knows(v, q, journal', moved', files', fresh'),
         \A k \in D!Workers :
           k # v => Knows(k, cap[k], journal', moved', files', fresh')
  PROVE  PinInv'
<1>1. cap'[v] = q /\ \A k \in D!Workers : k # v => cap'[k] = cap[k]
  BY DEF D!Put, PinInv, PinTypes
<1>2. cap' \in [D!Workers -> Capability]
  BY DEF D!Put, PinInv, PinTypes
<1>3. fence' \in [Objects -> SUBSET D!Workers]
  BY DEF D!Put, PinInv, PinTypes
<1>4. PinTypes'
  BY <1>2, <1>3 DEF PinTypes
<1>5. /\ fence'[1] = IF "sourceRoot" \in q.fds THEN fence[1]
                     ELSE fence[1] \ {v}
  BY PinConstants DEF D!Put
<1>6. OneOwns'
  <2> SUFFICES ASSUME NEW k \in D!Workers, Owns(cap'[k])
               PROVE  fence'[1] = {k}
    BY DEF OneOwns
  <2>1. CASE k = v
    <3>1. Owns(q) /\ fence[1] = {v}
      BY <1>1, <2>1 DEF PinInv, OneOwns
    <3>2. "sourceRoot" \in q.fds
      <4>1. q.pc # "dead" /\ q.pc # "closed"
        BY <3>1 DEF Owns, Pushed
      <4> QED
        BY <3>1, <4>1 DEF Accounted, Owns, Kept
    <3> QED
      BY <1>5, <2>1, <3>1, <3>2
  <2>2. CASE k # v
    BY <1>1, <1>5, <2>2 DEF PinInv, OneOwns
  <2> QED
    BY <2>1, <2>2
<1>7. \A k \in D!Workers :
        /\ Pushed(k, cap'[k]) /\ Accounted(k, cap'[k])
        /\ Knows(k, cap'[k], journal', moved', files', fresh')
  BY <1>1 DEF PinInv
<1> QED
  BY <1>4, <1>6, <1>7 DEF PinInv

\* ... that changes no directory and nothing in the journal.
LEMMA PinQuiet ==
  ASSUME PinInv, NEW v \in D!Workers, NEW q \in Capability, D!Put(v, q),
         UNCHANGED <<D!world, journal, touched, moved>>,
         Pushed(v, q), Accounted(v, q), Owns(q) => Owns(cap[v]),
         Knows(v, q, journal, moved, files, fresh)
  PROVE  PinInv'
<1>1. UNCHANGED <<root, child, files, fresh>>
  BY DEF D!world
<1>2. Recorded'
  BY <1>1 DEF PinInv, Recorded, D!PublishedInPlace
<1> QED
  BY <1>1, <1>2, PinStep DEF PinInv, PinTypes

\* Who owns the source root keeps others from whatever they would have to know.
LEMMA OthersKnow ==
  ASSUME PinInv, NEW v \in D!Workers, Owns(cap[v]), NEW k \in D!Workers,
         k # v, NEW j, NEW mv, NEW fl, NEW fr,
         j.state # "none" \/ j = journal
  PROVE  Knows(k, cap[k], j, mv, fl, fr)
<1>1. ~Owns(cap[k])
  BY DEF PinInv, OneOwns
<1>2. cap[k].pc \in Outside \cup Pinning
  <2>1. cap[k].pc \in Working => cap[k].pushed = D!Places
    BY DEF PinInv, Pushed
  <2>2. cap[k].pc \in Working => cap[k].pc \notin {"lock", "closed"}
    BY DEF Working, OfFirst, OfRecovery, OfBoth
  <2>3. cap[k] \in Capability
    BY DEF PinInv, PinTypes
  <2> QED
    BY <1>1, <2>1, <2>2, <2>3 DEF Owns, Capability, D!Places
<1>3. /\ cap[v].pc \notin {"idle", "closed", "dead"}
  BY DEF PinInv, Pushed, Owns
<1>4. Knows(k, cap[k], journal, moved, files, fresh)
      /\ Knows(v, cap[v], journal, moved, files, fresh)
  BY DEF PinInv
<1>5. k = "first" /\ cap[k].pc \in Pinning \cup {"idle", "begin"} =>
        j.state = "none"
  <2> SUFFICES ASSUME k = "first", cap[k].pc \in Pinning \cup {"idle", "begin"}
               PROVE  j.state = "none"
    OBVIOUS
  <2>1. journal.state = "none"
    BY <1>4 DEF Knows
  <2>2. v = "recovery"
    BY DEF D!Workers
  <2> QED
    BY <1>3, <1>4, <2>1, <2>2 DEF Knows
<1>6. k = "recovery" /\ cap[k].pc # "idle" => j.state # "none"
  BY <1>4 DEF Knows
<1> QED
  BY <1>2, <1>5, <1>6
  DEF Knows, Outside, Pinning, Working, OfFirst, OfRecovery, OfBoth

\* Whatever fails, and wherever: what was opened is closed, each once.
LEMMA FailInv ==
  ASSUME PinInv, NEW v \in D!Workers, cap[v].pc \notin Outside, D!Fail(v)
  PROVE  PinInv'
<1> DEFINE c == cap[v]
           e == D!Abandoned(c)
           f == D!Without(e, D!Unwound(v))
           q == D!Close(f)
<1>1. /\ c \in Capability /\ Pushed(v, c) /\ Accounted(v, c)
      /\ Knows(v, c, journal, moved, files, fresh)
  BY DEF PinInv, PinTypes
<1>2. c.fds = Kept(c) \cup Opened(v, c) /\ ~c.twice
  BY <1>1 DEF Accounted, Outside
<1>3. /\ e \in Capability /\ e.pins = c.pins /\ e.pushed = c.pushed
      /\ e.fds = Kept(e) \cup Opened(v, c) /\ ~e.twice
  <2>1. CASE c.pc = "sync_created"
    <3> DEFINE g == D!Without(c, {"artifact"})
    <3>1. /\ g \in Capability /\ g.pins = c.pins /\ g.pushed = c.pushed
          /\ g.fds = c.fds \ {"artifact"} /\ g.base = c.base
          /\ g.twice = (c.twice \/ ~({"artifact"} \subseteq c.fds))
      BY <1>1, WithoutIs
    <3>2. e = [g EXCEPT !.temporaryPin = 0]
      BY <2>1 DEF D!Abandoned
    <3> HIDE DEF g, e, c
    <3>3. /\ e \in Capability /\ e.pins = g.pins /\ e.pushed = g.pushed
          /\ e.fds = g.fds /\ e.base = g.base /\ e.twice = g.twice
          /\ e.temporaryPin = 0
      BY <3>1, <3>2, PinConstants DEF Capability
    <3>4. c.temporaryPin # 0
      BY <1>1, <2>1 DEF Knows
    <3>5. "artifact" \in c.fds
      BY <1>2, <3>4 DEF Kept
    <3>6. "artifact" \notin c.pushed \cup Opened(v, c)
      BY <1>1, <2>1 DEF Capability, Opened, D!Places
    <3> QED
      BY <1>2, <3>1, <3>3, <3>5, <3>6 DEF Kept
  <2>2. CASE c.pc # "sync_created"
    BY <1>1, <1>2, <2>2 DEF D!Abandoned
  <2> QED
    BY <2>1, <2>2
<1>4. Opened(v, c) \subseteq D!Unwound(v) /\ D!Unwound(v) \cap Kept(e) = {}
  <2>1. Kept(e) \subseteq D!Places \cup {"capability", "artifact"}
    BY <1>3 DEF Kept, Capability
  <2>2. Opened(v, c) \subseteq c.fds
    BY <1>2
  <2> QED
    BY <2>1, <2>2 DEF D!Unwound, Opened, D!Places
<1>5. /\ f \in Capability /\ f.pins = c.pins /\ f.pushed = c.pushed
      /\ Kept(f) = Kept(e)
      /\ f.fds = e.fds \ D!Unwound(v)
      /\ f.twice = (e.twice \/ ~(D!Unwound(v) \subseteq e.fds))
  <2> HIDE DEF e, c, q
  <2>1. /\ f \in Capability /\ f.pins = e.pins /\ f.pushed = e.pushed
        /\ f.base = e.base /\ f.temporaryPin = e.temporaryPin
        /\ f.fds = e.fds \ D!Unwound(v)
        /\ f.twice = (e.twice \/ ~(D!Unwound(v) \subseteq e.fds))
    BY <1>3, WithoutIs
  <2> HIDE DEF f
  <2> QED
    BY <1>3, <2>1 DEF Kept
<1>6. f.fds = Kept(f)
  BY <1>3, <1>4, <1>5
<1>7. D!Unwound(v) \subseteq c.fds
  BY DEF D!Unwound
<1>8. D!Unwound(v) \subseteq e.fds
  <2>1. Kept(c) \subseteq D!Places \cup {"capability", "artifact"}
    BY <1>1 DEF Kept, Capability
  <2>2. D!Unwound(v) \cap Kept(c) = {}
    BY <2>1 DEF D!Unwound, D!Places
  <2> QED
    BY <1>2, <1>3, <1>7, <2>2
<1>9. ~f.twice
  BY <1>3, <1>5, <1>8
<1>10. /\ q \in Capability /\ q.pc = "closed" /\ ~q.bound
       /\ q.fds = {} /\ ~q.twice /\ q.pins = c.pins /\ q.pushed = c.pushed
  <2>1. f \in Capability /\ f.pins = c.pins /\ f.pushed = c.pushed
    BY <1>5
  <2> HIDE DEF c, e, f
  <2>2. /\ q \in Capability /\ q.pc = "closed" /\ ~q.bound
        /\ q.fds = f.fds \ Kept(f)
        /\ q.twice = (f.twice \/ ~(Kept(f) \subseteq f.fds))
        /\ q.pins = f.pins /\ q.pushed = f.pushed
    BY <2>1, CloseIs
  <2> HIDE DEF q
  <2>3. q.fds = {} /\ ~q.twice
    BY <1>6, <1>9, <2>2
  <2> QED
    BY <2>1, <2>2, <2>3
<1>11. D!Put(v, q) /\ UNCHANGED <<D!world, journal, touched, moved>>
  BY DEF D!Fail
<1> HIDE DEF q, c
<1>12. Pushed(v, q)
  BY <1>1, <1>10
  DEF Pushed, Outside, Pinning, Working, OfFirst, OfRecovery, OfBoth
<1>13. Accounted(v, q)
  BY <1>10 DEF Accounted, Pinning
<1>14. ~Owns(q)
  BY <1>10 DEF Owns
<1>15. Knows(v, q, journal, moved, files, fresh)
  <2>1. c.pc # "idle"
    BY DEF Outside, c
  <2> QED
    BY <1>1, <1>10, <2>1
    DEF Knows, Pinning, Working, OfFirst, OfRecovery, OfBoth
<1> QED
  BY <1>10, <1>11, <1>12, <1>13, <1>14, <1>15, PinQuiet

\* The capability of a worker, and what its step makes of it.
LEMMA CapIs ==
  ASSUME PinInv, NEW v \in D!Workers
  PROVE  /\ cap[v] \in Capability /\ Pushed(v, cap[v])
         /\ Accounted(v, cap[v])
         /\ Knows(v, cap[v], journal, moved, files, fresh)
BY DEF PinInv, PinTypes

LEMMA WorldIs ==
  ASSUME PinInv
  PROVE  /\ root.source \in Objects /\ root.target \in Objects
         /\ \A d \in Objects : child[d] \in Ids /\ D!Below(d) \in Ids
         /\ D!Below(0) = 0
         /\ \A d \in Ids : D!Below(d) \in Ids
         /\ \A d \in Objects, n \in D!Names :
              files[d][n] \in Ids /\ files[d][n] < fresh
         /\ \A v \in D!Workers, n \in D!Names :
              D!Named(v, n) \in Ids /\ D!Named(v, n) < fresh
         /\ \A p \in D!Places : D!ByPath(p) \in Ids
         /\ \A v \in D!Workers, p \in D!Places : D!ByCapability(v, p) \in Ids
<1>1. /\ root.source \in Objects /\ root.target \in Objects
      /\ fresh \in Nat /\ fresh > 4
      /\ \A d \in Objects : child[d] \in Ids
  BY DEF PinInv, PinTypes
<1>2. \A d \in Ids : D!Below(d) \in Ids
  BY <1>1, PinConstants DEF D!Below
<1>3. D!Below(0) = 0 /\ \A d \in Objects : D!Below(d) \in Ids
  BY <1>2, PinConstants DEF D!Below, Ids
<1>4. \A d \in Objects, n \in D!Names :
        files[d][n] \in Ids /\ files[d][n] < fresh
  BY DEF PinInv, PinTypes, Recorded
<1>5. \A v \in D!Workers : cap[v].base \in Ids
  BY CapIs DEF Capability
<1>6. \A v \in D!Workers, n \in D!Names :
        D!Named(v, n) \in Ids /\ D!Named(v, n) < fresh
  <2> TAKE v \in D!Workers, n \in D!Names
  <2>1. D!Below(cap[v].base) \in Ids /\ child[1] \in Ids
    BY <1>1, <1>2, <1>5, PinConstants
  <2>2. \A d \in Ids : (IF d = 0 THEN 0 ELSE files[d][n]) \in Ids
                       /\ (IF d = 0 THEN 0 ELSE files[d][n]) < fresh
    BY <1>1, <1>4, PinConstants
  <2> QED
    BY <2>1, <2>2 DEF D!Named
<1>7. \A p \in D!Places : D!ByPath(p) \in Ids
  BY <1>1, <1>2, PinConstants DEF D!ByPath, Ids, D!Places
<1>8. \A v \in D!Workers, p \in D!Places : D!ByCapability(v, p) \in Ids
  <2> TAKE v \in D!Workers, p \in D!Places
  <2>1. D!ByCapability(v, p) \in {1, child[1], cap[v].base,
                                 D!Below(cap[v].base)}
    BY DEF D!ByCapability, D!Places
  <2>2. 1 \in Ids /\ child[1] \in Ids /\ cap[v].base \in Ids
    BY <1>1, <1>5, PinConstants DEF Ids
  <2> QED
    BY <1>2, <2>1, <2>2
<1> QED
  BY <1>1, <1>2, <1>3, <1>4, <1>6, <1>7, <1>8

\* The usual step: the worker alone moves.
LEMMA GoOnInv ==
  ASSUME PinInv, NEW v \in D!Workers, NEW q \in Capability, D!GoOn(v, q),
         Pushed(v, q), Accounted(v, q), Owns(q) => Owns(cap[v]),
         Knows(v, q, journal, moved, files, fresh)
  PROVE  PinInv'
BY PinQuiet DEF D!GoOn, D!Quiet

\* Before it is bound a worker knows little.
LEMMA KnowsPinning ==
  ASSUME PinInv, NEW v \in D!Workers, cap[v].pc \in Pinning,
         NEW q, q.pc \in Pinning
  PROVE  Knows(v, q, journal, moved, files, fresh)
BY CapIs DEF Knows, Pinning, Working, OfFirst, OfRecovery, OfBoth

LEMMA CurrentIs ==
  ASSUME PinInv, NEW v \in D!Workers,
         cap[v].pc \in {"pin_stat", "pin_open", "pin_check"}
  PROVE  /\ D!Current(v) \in D!Places
         /\ cap[v].pushed = {} => D!Current(v) = "sourceRoot"
         /\ cap[v].pushed = {"sourceRoot"} => D!Current(v) = "source"
         /\ cap[v].pushed = {"sourceRoot", "source"} =>
              D!Current(v) = "targetRoot"
         /\ cap[v].pushed = {"sourceRoot", "source", "targetRoot"} =>
              D!Current(v) = "target"
<1> DEFINE IsNext(p) == \A i \in 1..4 : D!Order[i] = p =>
                        \A j \in 1..(i - 1) : D!Order[j] \in cap[v].pushed
<1>1. D!Current(v) = CHOOSE p \in D!Places \ cap[v].pushed : IsNext(p)
  BY DEF D!Current
<1>2. /\ D!Order[1] = "sourceRoot" /\ D!Order[2] = "source"
      /\ D!Order[3] = "targetRoot" /\ D!Order[4] = "target"
  BY DEF D!Order
<1>3. /\ IsNext("sourceRoot")
      /\ IsNext("source") <=> "sourceRoot" \in cap[v].pushed
      /\ IsNext("targetRoot") <=> {"sourceRoot", "source"}
                                  \subseteq cap[v].pushed
      /\ IsNext("target") <=> {"sourceRoot", "source", "targetRoot"}
                              \subseteq cap[v].pushed
  BY <1>2
<1> HIDE DEF IsNext
<1>4. Pushed(v, cap[v])
  BY CapIs
<1>5. ASSUME NEW x \in D!Places \ cap[v].pushed, IsNext(x),
             \A p \in D!Places \ cap[v].pushed : IsNext(p) => p = x
      PROVE  D!Current(v) = x
  BY <1>1, <1>5
<1>6. CASE cap[v].pushed = {}
  BY <1>3, <1>5, <1>6 DEF D!Places
<1>7. CASE cap[v].pushed = {"sourceRoot"}
  BY <1>3, <1>5, <1>7 DEF D!Places
<1>8. CASE cap[v].pushed = {"sourceRoot", "source"}
  BY <1>3, <1>5, <1>8 DEF D!Places
<1>9. CASE cap[v].pushed = {"sourceRoot", "source", "targetRoot"}
  BY <1>3, <1>5, <1>9 DEF D!Places
<1> QED
  BY <1>4, <1>6, <1>7, <1>8, <1>9 DEF Pushed, D!Places

LEMMA StartInv ==
  ASSUME PinInv, NEW v \in D!Workers, D!Start(v)
  PROVE  PinInv'
<1> DEFINE c == cap[v]
           g == D!To(c, "pin_stat")
           s == IF v = "first" THEN g.was ELSE journal.state
           q == [g EXCEPT !.read = journal.target, !.was = s]
<1>1. c \in Capability /\ Pushed(v, c) /\ Accounted(v, c)
  BY CapIs
<1>2. c.pc = "idle"
  BY DEF D!Start, D!At
<1>3. c.pushed = {} /\ c.fds = {} /\ c.base = 0 /\ c.temporaryPin = 0
      /\ ~c.twice /\ ~c.bound
  BY <1>1, <1>2
  DEF Pushed, Accounted, Kept, Opened, Working, OfFirst, OfRecovery, OfBoth
<1>4. /\ g \in Capability /\ g.pc = "pin_stat" /\ g.pushed = {}
      /\ g.fds = {} /\ g.base = 0 /\ g.temporaryPin = 0
      /\ ~g.twice /\ ~g.bound
  BY <1>1, <1>3, ToIs DEF Pinning
<1>5. D!GoOn(v, q)
  BY DEF D!Start
<1>6. s \in JournalStates /\ journal.target \in Ids
  BY <1>4 DEF PinInv, PinTypes, Capability
<1> HIDE DEF g, s
<1>7. /\ q \in Capability /\ q.pc = "pin_stat" /\ q.pushed = {}
      /\ q.fds = {} /\ q.base = 0 /\ q.temporaryPin = 0
      /\ ~q.twice /\ ~q.bound
  BY <1>4, <1>6 DEF Capability
<1> HIDE DEF q
<1>8. Pushed(v, q) /\ Accounted(v, q) /\ ~Owns(q)
  BY <1>7 DEF Pushed, Accounted, Kept, Opened, Owns, Pinning, Working,
              OfFirst, OfRecovery, OfBoth
<1>9. Knows(v, q, journal, moved, files, fresh)
  BY <1>7 DEF Knows, D!Start, D!Workers, Working, OfFirst, OfRecovery,
              OfBoth
<1> QED
  BY <1>5, <1>7, <1>8, <1>9, GoOnInv

LEMMA PinStatInv ==
  ASSUME PinInv, NEW v \in D!Workers, D!PinStat(v)
  PROVE  PinInv'
<1> DEFINE c == cap[v]
           d == D!ByCapability(v, D!Current(v))
           g == D!To(c, "pin_open")
           q == [g EXCEPT !.seen = d]
<1>1. c \in Capability /\ Pushed(v, c) /\ Accounted(v, c)
  BY CapIs
<1>2. c.pc = "pin_stat"
  BY DEF D!PinStat, D!At
<1>3. D!Fail(v) \/ D!GoOn(v, q)
  BY DEF D!PinStat
<1>4. /\ g \in Capability /\ g.pc = "pin_open" /\ g.pushed = c.pushed
      /\ g.fds = c.fds /\ g.base = c.base /\ g.twice = c.twice
      /\ g.temporaryPin = c.temporaryPin /\ g.bound = c.bound
      /\ g.pins = c.pins
  BY <1>1, ToIs DEF Pinning
<1>5. d \in Ids /\ (c.pushed = {} => d = 1)
  BY <1>2, CurrentIs, WorldIs DEF D!ByCapability
<1> HIDE DEF g, d
<1>6. /\ q \in Capability /\ q.pc = "pin_open" /\ q.pushed = c.pushed
      /\ q.fds = c.fds /\ q.base = c.base /\ q.twice = c.twice
      /\ q.temporaryPin = c.temporaryPin /\ q.bound = c.bound
      /\ q.pins = c.pins /\ q.seen = d
  BY <1>4, <1>5 DEF Capability
<1> HIDE DEF q, c
<1>7. Pushed(v, q)
  BY <1>1, <1>2, <1>5, <1>6
  DEF Pushed, Working, OfFirst, OfRecovery, OfBoth
<1>8. Accounted(v, q)
  BY <1>1, <1>2, <1>6 DEF Accounted, Kept, Opened, Pinning
<1>9. Owns(q) => Owns(c)
  BY <1>2, <1>6 DEF Owns
<1>10. Knows(v, q, journal, moved, files, fresh)
  BY <1>2, <1>6, KnowsPinning DEF Pinning, c
<1> QED
  BY <1>2, <1>3, <1>6, <1>7, <1>8, <1>9, <1>10, GoOnInv, FailInv
  DEF c, Outside

LEMMA PinOpenInv ==
  ASSUME PinInv, NEW v \in D!Workers, D!PinOpen(v)
  PROVE  PinInv'
<1> DEFINE c == cap[v]
           g == D!To(c, "pin_check")
           q == D!Take(g, "opened")
<1>1. c \in Capability /\ Pushed(v, c) /\ Accounted(v, c)
  BY CapIs
<1>2. c.pc = "pin_open"
  BY DEF D!PinOpen, D!At
<1>3. D!Fail(v) \/ D!GoOn(v, q)
  BY DEF D!PinOpen
<1>4. /\ g \in Capability /\ g.pc = "pin_check" /\ g.pushed = c.pushed
      /\ g.fds = c.fds /\ g.base = c.base /\ g.twice = c.twice
      /\ g.temporaryPin = c.temporaryPin /\ g.bound = c.bound
      /\ g.pins = c.pins /\ g.seen = c.seen
  BY <1>1, ToIs DEF Pinning
<1> HIDE DEF g
<1>5. /\ q \in Capability /\ q.pc = "pin_check" /\ q.pushed = c.pushed
      /\ q.fds = c.fds \cup {"opened"} /\ q.base = c.base
      /\ q.temporaryPin = c.temporaryPin /\ q.bound = c.bound
      /\ q.pins = c.pins /\ q.seen = c.seen /\ q.twice = c.twice
  BY <1>4, TakeIs DEF Descriptors
<1> HIDE DEF q, c
<1>6. Pushed(v, q)
  BY <1>1, <1>2, <1>5 DEF Pushed, Working, OfFirst, OfRecovery, OfBoth
<1>7. Accounted(v, q)
  BY <1>1, <1>2, <1>5 DEF Accounted, Kept, Opened, Pinning
<1>8. Owns(q) => Owns(c)
  BY <1>2, <1>5 DEF Owns
<1>9. Knows(v, q, journal, moved, files, fresh)
  BY <1>2, <1>5, KnowsPinning DEF Pinning, c
<1> QED
  BY <1>2, <1>3, <1>5, <1>6, <1>7, <1>8, <1>9, GoOnInv, FailInv
  DEF c, Outside

LEMMA PinCheckInv ==
  ASSUME PinInv, NEW v \in D!Workers, D!PinCheck(v)
  PROVE  PinInv'
<1> DEFINE c == cap[v]
           p == D!Current(v)
           l == D!AfterPin(v, p)
           g == D!To(c, l)
           x == [c.pins EXCEPT ![p] = c.seen]
           q == [g EXCEPT !.pins = [@ EXCEPT ![p] = c.seen],
                          !.pushed = @ \cup {p},
                          !.fds = (@ \ {"opened"}) \cup {p}]
<1>1. c \in Capability /\ Pushed(v, c) /\ Accounted(v, c)
  BY CapIs
<1>2. c.pc = "pin_check"
  BY DEF D!PinCheck, D!At
<1>3. D!Fail(v) \/ D!GoOn(v, q)
  BY DEF D!PinCheck
<1>4. /\ c.pushed = {} => p = "sourceRoot" /\ l = "lock"
      /\ c.pushed = {"sourceRoot"} => p = "source" /\ l = "open_target"
      /\ c.pushed = {"sourceRoot", "source"} =>
           /\ p = "targetRoot"
           /\ l = IF v = "first" THEN "mkdir" ELSE "pin_stat"
      /\ c.pushed = {"sourceRoot", "source", "targetRoot"} =>
           p = "target" /\ l = "bind"
      /\ p \in D!Places
  BY <1>2, CurrentIs DEF D!AfterPin
<1>5. c.pushed \in {{}, {"sourceRoot"}, {"sourceRoot", "source"},
                    {"sourceRoot", "source", "targetRoot"}}
  BY <1>1, <1>2 DEF Pushed
<1>6. l \in {"lock", "open_target", "mkdir", "pin_stat", "bind"}
  BY <1>4, <1>5
<1> HIDE DEF p, l
<1>7. /\ g \in Capability /\ g.pc = l /\ g.pushed = c.pushed
      /\ g.fds = c.fds /\ g.base = c.base /\ g.twice = c.twice
      /\ g.temporaryPin = c.temporaryPin /\ g.bound = c.bound
      /\ g.pins = c.pins
  <2>1. l \in Outside \cup Pinning \cup Working
    BY <1>6 DEF Pinning
  <2> QED
    BY <1>1, <2>1, ToIs
<1>8. /\ x \in Pins
      /\ x["sourceRoot"] = IF p = "sourceRoot" THEN c.seen
                           ELSE c.pins["sourceRoot"]
  BY <1>1, <1>4 DEF Capability, Pins, D!Places
<1>9. q = [g EXCEPT !.pins = x, !.pushed = c.pushed \cup {p},
                    !.fds = (c.fds \ {"opened"}) \cup {p}]
  BY <1>7
<1> HIDE DEF g, q, x
<1>10. /\ c.pushed \cup {p} \in SUBSET D!Places
       /\ (c.fds \ {"opened"}) \cup {p} \in SUBSET Descriptors
  BY <1>1, <1>4 DEF Capability, Descriptors
<1>11. /\ q \in Capability /\ q.pc = l /\ q.pushed = c.pushed \cup {p}
       /\ q.fds = (c.fds \ {"opened"}) \cup {p} /\ q.base = c.base
       /\ q.temporaryPin = c.temporaryPin /\ q.bound = c.bound
       /\ q.pins = x /\ q.twice = c.twice
  BY <1>7, <1>8, <1>9, <1>10 DEF Capability
<1> HIDE DEF c
<1>12. ~q.bound /\ q.pc \notin Working
  BY <1>1, <1>2, <1>6, <1>11
  DEF Pushed, Working, OfFirst, OfRecovery, OfBoth
<1>13. x["sourceRoot"] = 1
  BY <1>1, <1>2, <1>4, <1>5, <1>8 DEF Pushed
<1>14. Pushed(v, q)
  BY <1>4, <1>5, <1>6, <1>11, <1>12, <1>13
  DEF Pushed, D!Places, D!Workers, Working, OfFirst, OfRecovery, OfBoth
<1>15. Accounted(v, q)
  <2>1. c.fds = Kept(c) \cup {"opened"} /\ c.temporaryPin = 0 /\ ~c.twice
    BY <1>1, <1>2 DEF Accounted, Opened, Pinning
  <2>2. "opened" \notin Kept(c) \cup {p}
    BY <1>1, <1>4 DEF Kept, Capability, D!Places
  <2>3. Kept(q) = Kept(c) \cup {p}
    BY <1>11 DEF Kept
  <2>4. Opened(v, q) = {}
    BY <1>6, <1>11 DEF Opened
  <2> QED
    BY <1>6, <1>11, <2>1, <2>2, <2>3, <2>4 DEF Accounted
<1>16. Owns(q) => Owns(c)
  BY <1>2, <1>4, <1>5, <1>11 DEF Owns
<1>17. Knows(v, q, journal, moved, files, fresh)
  BY <1>2, <1>6, <1>11, KnowsPinning DEF Pinning, c
<1> QED
  BY <1>2, <1>3, <1>11, <1>14, <1>15, <1>16, <1>17, GoOnInv, FailInv
  DEF c, Outside

LEMMA LockInv ==
  ASSUME PinInv, NEW v \in D!Workers, D!Lock(v)
  PROVE  PinInv'
<1> DEFINE c == cap[v]
           q == D!To(c, "pin_stat")
<1>1. /\ c \in Capability /\ Pushed(v, c) /\ Accounted(v, c)
  BY CapIs
<1>2. c.pc = "lock" /\ c.pins["sourceRoot"] = 1 /\ c.pushed = {"sourceRoot"}
  BY <1>1 DEF D!Lock, D!At, Pushed
<1>3. CASE D!Fail(v)
  BY <1>2, <1>3, FailInv DEF Outside
<1>4. CASE ~D!Fail(v)
  <2>1. /\ fence[1] = {} /\ cap' = [cap EXCEPT ![v] = q]
        /\ fence' = [fence EXCEPT ![1] = {v}]
        /\ UNCHANGED <<root, child, files, fresh, journal, touched, moved>>
    BY <1>2, <1>4 DEF D!Lock, D!Quiet, D!world
  <2>2. /\ q \in Capability /\ q.pc = "pin_stat" /\ q.pushed = c.pushed
        /\ q.fds = c.fds /\ q.base = c.base /\ q.twice = c.twice
        /\ q.temporaryPin = c.temporaryPin /\ q.bound = c.bound
        /\ q.pins = c.pins
    BY <1>1, ToIs DEF Pinning
  <2> HIDE DEF q
  <2>3. cap'[v] = q /\ \A k \in D!Workers : k # v => cap'[k] = cap[k]
    BY <2>1 DEF PinInv, PinTypes
  <2>4. cap' \in [D!Workers -> Capability]
        /\ fence' \in [Objects -> SUBSET D!Workers] /\ fence'[1] = {v}
    BY <2>1, <2>2, PinConstants DEF PinInv, PinTypes
  <2>5. PinTypes' /\ Recorded'
    BY <2>1, <2>4 DEF PinInv, PinTypes, Recorded, D!PublishedInPlace
  <2>6. \A k \in D!Workers : ~Owns(cap[k])
    BY <2>1 DEF PinInv, OneOwns
  <2>7. OneOwns'
    BY <2>3, <2>4, <2>6 DEF OneOwns
  <2> HIDE DEF c
  <2>8. Pushed(v, q)
    BY <1>1, <1>2, <2>2
    DEF Pushed, Working, OfFirst, OfRecovery, OfBoth
  <2>9. Accounted(v, q)
    BY <1>1, <1>2, <2>2 DEF Accounted, Kept, Opened, Pinning
  <2>10. Knows(v, q, journal, moved, files, fresh)
    BY <1>2, <2>2, KnowsPinning DEF Pinning, c
  <2> QED
    BY <2>1, <2>3, <2>5, <2>7, <2>8, <2>9, <2>10 DEF PinInv
<1> QED
  BY <1>3, <1>4

LEMMA OpenTargetInv ==
  ASSUME PinInv, NEW v \in D!Workers, D!OpenTarget(v)
  PROVE  PinInv'
<1> DEFINE c == cap[v]
           g == D!To(c, "base")
           f == D!Take(g, "opened")
           q == [f EXCEPT !.seen = root.target]
<1>1. c \in Capability /\ Pushed(v, c) /\ Accounted(v, c)
  BY CapIs
<1>2. c.pc = "open_target" /\ D!GoOn(v, q)
  BY DEF D!OpenTarget, D!At
<1>3. /\ g \in Capability /\ g.pc = "base" /\ g.pushed = c.pushed
      /\ g.fds = c.fds /\ g.base = c.base /\ g.twice = c.twice
      /\ g.temporaryPin = c.temporaryPin /\ g.bound = c.bound
      /\ g.pins = c.pins
  BY <1>1, ToIs DEF Pinning
<1> HIDE DEF g
<1>4. /\ f \in Capability /\ f.pc = "base" /\ f.pushed = c.pushed
      /\ f.fds = c.fds \cup {"opened"} /\ f.base = c.base
      /\ f.twice = c.twice /\ f.temporaryPin = c.temporaryPin
      /\ f.bound = c.bound /\ f.pins = c.pins
  BY <1>3, TakeIs DEF Descriptors
<1>5. root.target \in Ids /\ root.target # 0
  BY WorldIs, PinConstants DEF Ids
<1> HIDE DEF f
<1>6. /\ q \in Capability /\ q.pc = "base" /\ q.pushed = c.pushed
      /\ q.fds = c.fds \cup {"opened"} /\ q.base = c.base
      /\ q.twice = c.twice /\ q.temporaryPin = c.temporaryPin
      /\ q.bound = c.bound /\ q.pins = c.pins /\ q.seen # 0
  BY <1>4, <1>5 DEF Capability
<1> HIDE DEF q, c
<1>7. Pushed(v, q)
  BY <1>1, <1>2, <1>6 DEF Pushed, Working, OfFirst, OfRecovery, OfBoth
<1>8. Accounted(v, q)
  BY <1>1, <1>2, <1>6 DEF Accounted, Kept, Opened, Pinning
<1>9. Owns(q) => Owns(c)
  BY <1>2, <1>6 DEF Owns
<1>10. Knows(v, q, journal, moved, files, fresh)
  BY <1>2, <1>6, KnowsPinning DEF Pinning, c
<1> QED
  BY <1>2, <1>6, <1>7, <1>8, <1>9, <1>10, GoOnInv DEF c

LEMMA BaseInv ==
  ASSUME PinInv, NEW v \in D!Workers, D!Base(v)
  PROVE  PinInv'
<1> DEFINE c == cap[v]
           g == D!To(c, "pin_stat")
           f == [g EXCEPT !.base = c.seen]
           e == D!Without(f, {"opened"})
           q == D!Take(e, "capability")
<1>1. c \in Capability /\ Pushed(v, c) /\ Accounted(v, c)
  BY CapIs
<1>2. c.pc = "base" /\ (D!Fail(v) \/ D!GoOn(v, q))
  BY DEF D!Base, D!At
<1>3. /\ g \in Capability /\ g.pc = "pin_stat" /\ g.pushed = c.pushed
      /\ g.fds = c.fds /\ g.base = c.base /\ g.twice = c.twice
      /\ g.temporaryPin = c.temporaryPin /\ g.bound = c.bound
      /\ g.pins = c.pins
  BY <1>1, ToIs DEF Pinning
<1>4. c.seen \in Ids /\ c.seen # 0 /\ c.pushed = {"sourceRoot", "source"}
  BY <1>1, <1>2 DEF Capability, Pushed
<1> HIDE DEF g
<1>5. /\ f \in Capability /\ f.pc = "pin_stat" /\ f.pushed = c.pushed
      /\ f.fds = c.fds /\ f.base = c.seen /\ f.twice = c.twice
      /\ f.temporaryPin = c.temporaryPin /\ f.bound = c.bound
      /\ f.pins = c.pins
  BY <1>3, <1>4 DEF Capability
<1> HIDE DEF f
<1>6. /\ e \in Capability /\ e.pc = "pin_stat" /\ e.pushed = c.pushed
      /\ e.fds = c.fds \ {"opened"} /\ e.base = c.seen
      /\ e.twice = (c.twice \/ ~({"opened"} \subseteq c.fds))
      /\ e.temporaryPin = c.temporaryPin /\ e.bound = c.bound
      /\ e.pins = c.pins
  <2>1. /\ e \in Capability /\ e.pc = f.pc /\ e.pushed = f.pushed
        /\ e.fds = f.fds \ {"opened"} /\ e.base = f.base
        /\ e.twice = (f.twice \/ ~({"opened"} \subseteq f.fds))
        /\ e.temporaryPin = f.temporaryPin /\ e.bound = f.bound
        /\ e.pins = f.pins
    <3> DEFINE S == {"opened"}
    <3>1. e = D!Without(f, S) /\ f \in Capability
      BY <1>5
    <3> HIDE DEF e, S, c
    <3>2. /\ e \in Capability /\ e.pc = f.pc /\ e.pushed = f.pushed
          /\ e.fds = f.fds \ S /\ e.base = f.base
          /\ e.twice = (f.twice \/ ~(S \subseteq f.fds))
          /\ e.temporaryPin = f.temporaryPin /\ e.bound = f.bound
          /\ e.pins = f.pins
      BY <3>1, WithoutIs
    <3> QED
      BY <3>2 DEF S
  <2> HIDE DEF e, c
  <2> QED
    BY <1>5, <2>1
<1> HIDE DEF e
<1>7. /\ q \in Capability /\ q.pc = "pin_stat" /\ q.pushed = c.pushed
      /\ q.fds = (c.fds \ {"opened"}) \cup {"capability"} /\ q.base = c.seen
      /\ q.twice = (c.twice \/ ~({"opened"} \subseteq c.fds))
      /\ q.temporaryPin = c.temporaryPin /\ q.bound = c.bound
      /\ q.pins = c.pins
  BY <1>6, TakeIs DEF Descriptors
<1> HIDE DEF q, c
<1>8. Pushed(v, q)
  BY <1>1, <1>2, <1>4, <1>7
  DEF Pushed, Working, OfFirst, OfRecovery, OfBoth
<1>9. Accounted(v, q)
  <2>1. c.fds = Kept(c) \cup {"opened"} /\ c.temporaryPin = 0 /\ ~c.twice
    BY <1>1, <1>2 DEF Accounted, Opened, Pinning
  <2>2. Kept(c) \subseteq {"sourceRoot", "source", "capability"}
    BY <1>4, <2>1 DEF Kept
  <2>3. Kept(q) = {"sourceRoot", "source", "capability"}
    BY <1>4, <1>7, <2>1 DEF Kept
  <2>4. q.fds = Kept(q) /\ ~q.twice
    BY <1>4, <1>7, <2>1, <2>2, <2>3 DEF Kept
  <2>5. Opened(v, q) = {}
    BY <1>7 DEF Opened
  <2> QED
    BY <1>7, <2>1, <2>4, <2>5 DEF Accounted
<1>10. Owns(q) => Owns(c)
  BY <1>2, <1>7 DEF Owns
<1>11. Knows(v, q, journal, moved, files, fresh)
  BY <1>2, <1>7, KnowsPinning DEF Pinning, c
<1> QED
  BY <1>2, <1>7, <1>8, <1>9, <1>10, <1>11, GoOnInv, FailInv DEF c, Outside

LEMMA MkdirInv ==
  ASSUME PinInv, NEW v \in D!Workers, D!Mkdir(v)
  PROVE  PinInv'
<1> DEFINE c == cap[v]
           q == D!To(c, "pin_stat")
<1>1. c \in Capability /\ Pushed(v, c) /\ Accounted(v, c)
  BY CapIs
<1>2. c.pc = "mkdir" /\ D!Put(v, q)
      /\ UNCHANGED <<root, files, journal, touched, moved>>
  BY DEF D!Mkdir, D!At, D!world
<1>3. /\ q \in Capability /\ q.pc = "pin_stat" /\ q.pushed = c.pushed
      /\ q.fds = c.fds /\ q.base = c.base /\ q.twice = c.twice
      /\ q.temporaryPin = c.temporaryPin /\ q.bound = c.bound
      /\ q.pins = c.pins
  BY <1>1, ToIs DEF Pinning
<1>4. /\ fresh' \in Nat /\ fresh' >= fresh
      /\ child' \in [Objects -> Ids]
  <2>1. fresh \in Nat /\ child \in [Objects -> Ids]
    BY DEF PinInv, PinTypes
  <2>2. \/ UNCHANGED <<child, fresh>>
        \/ /\ fresh \in Objects /\ fresh' = fresh + 1
           /\ child' = [child EXCEPT ![cap[v].base] = fresh]
    BY DEF D!Mkdir, D!world
  <2> QED
    BY <2>1, <2>2 DEF Ids
<1>5. Recorded'
  <2> HIDE DEF q, c
  <2>1. /\ fresh \in Nat /\ journal.target \in Nat
        /\ \A d \in Objects, n \in D!Names : files[d][n] \in Nat
    BY Inodes
  <2>2. UNCHANGED <<files, journal, touched, moved>>
    BY <1>2
  <2>3. /\ journal.target < fresh
        /\ \A d \in Objects, n \in D!Names : files[d][n] < fresh
    BY DEF PinInv, Recorded
  <2>4. /\ journal'.target < fresh'
        /\ \A d \in Objects, n \in D!Names : files'[d][n] < fresh'
    BY <1>4, <2>1, <2>2, <2>3
  <2>5. /\ journal'.target # 0 => Tracked(journal'.target, files', moved')
        /\ D!PublishedInPlace'
    BY <2>2 DEF PinInv, Recorded, D!PublishedInPlace
  <2>6. /\ touched' \subseteq {journal'.target, 4} /\ 0 \notin touched'
        /\ \A m \in moved' : m.ino # 0
    BY <2>2 DEF PinInv, Recorded
  <2> QED
    BY <2>4, <2>5, <2>6 DEF Recorded
<1> HIDE DEF q, c
<1>6. Pushed(v, q)
  BY <1>1, <1>2, <1>3 DEF Pushed, Working, OfFirst, OfRecovery, OfBoth
<1>7. Accounted(v, q)
  BY <1>1, <1>2, <1>3 DEF Accounted, Kept, Opened, Pinning
<1>8. Owns(c)
  BY <1>1, <1>2 DEF Owns, Pushed
<1>9. Knows(v, q, journal', moved', files', fresh')
  BY <1>2, <1>3, KnowsPinning, CapIs
  DEF Knows, Pinning, Working, OfFirst, OfRecovery, OfBoth, c
<1>10. \A k \in D!Workers :
         k # v => Knows(k, cap[k], journal', moved', files', fresh')
  BY <1>2, <1>8, OthersKnow DEF c
<1>11. fresh' > 4
  BY <1>4 DEF PinInv, PinTypes
<1> QED
  BY <1>2, <1>3, <1>4, <1>5, <1>6, <1>7, <1>8, <1>9, <1>10, <1>11, PinStep
  DEF c, PinInv, PinTypes

LEMMA BindInv ==
  ASSUME PinInv, NEW v \in D!Workers, D!Bind(v)
  PROVE  PinInv'
<1> DEFINE c == cap[v]
           l == D!AfterBind(v)
           g == D!To(c, l)
           q == [g EXCEPT !.bound = TRUE]
<1>1. c \in Capability /\ Pushed(v, c) /\ Accounted(v, c)
      /\ Knows(v, c, journal, moved, files, fresh)
  BY CapIs
<1>2. /\ c.pc = "bind"
      /\ \/ D!Fail(v)
         \/ D!GoOn(v, q) /\ (v = "recovery" => c.pins = journal.pins)
  BY DEF D!Bind, D!At
<1>3. /\ v = "first" => l = "begin"
      /\ v = "recovery" => l = "reopen_temporary"
      /\ l \in {"begin", "reopen_temporary"}
  BY DEF D!AfterBind
<1> HIDE DEF l
<1>4. /\ g \in Capability /\ g.pc = l /\ g.pushed = c.pushed
      /\ g.fds = c.fds /\ g.base = c.base /\ g.twice = c.twice
      /\ g.temporaryPin = c.temporaryPin /\ g.pins = c.pins
  <2>1. l \in Outside \cup Pinning \cup Working
    BY <1>3 DEF Working, OfFirst, OfRecovery
  <2> QED
    BY <1>1, <2>1, ToIs
<1> HIDE DEF g
<1>5. /\ q \in Capability /\ q.pc = l /\ q.pushed = c.pushed
      /\ q.fds = c.fds /\ q.base = c.base /\ q.twice = c.twice
      /\ q.temporaryPin = c.temporaryPin /\ q.pins = c.pins /\ q.bound
  BY <1>4 DEF Capability
<1> HIDE DEF q, c
<1>6. Pushed(v, q)
  BY <1>1, <1>2, <1>3, <1>5
  DEF Pushed, D!Workers, Working, OfFirst, OfRecovery, OfBoth
<1>7. Accounted(v, q)
  BY <1>1, <1>2, <1>3, <1>5 DEF Accounted, Kept, Opened, Pinning
<1>8. Owns(q) => Owns(c)
  BY <1>2, <1>5 DEF Owns
<1>9. CASE D!GoOn(v, q) /\ (v = "recovery" => c.pins = journal.pins)
  <2>1. Knows(v, q, journal, moved, files, fresh)
    BY <1>1, <1>2, <1>3, <1>5, <1>9
    DEF Knows, D!Workers, Pinning, Working, OfFirst, OfRecovery, OfBoth
  <2> QED
    BY <1>5, <1>6, <1>7, <1>8, <1>9, <2>1, GoOnInv DEF c
<1> QED
  BY <1>2, <1>9, FailInv DEF c, Outside

(* A worker that is bound. *)
LEMMA WorkingHas ==
  ASSUME PinInv, NEW v \in D!Workers, cap[v].pc \in Working
  PROVE  /\ cap[v] \in Capability /\ Pushed(v, cap[v])
         /\ Knows(v, cap[v], journal, moved, files, fresh)
         /\ cap[v].fds = Kept(cap[v]) \cup Opened(v, cap[v])
         /\ ~cap[v].twice /\ Owns(cap[v]) /\ cap[v].pushed = D!Places
         /\ cap[v].pc \in {"begin", "reopen_temporary", "reopen_final",
                           "adopt"} => cap[v].temporaryPin = 0
         /\ cap[v].pc \notin Outside \cup Pinning
         /\ Kept(cap[v]) \subseteq D!Places \cup {"capability", "artifact"}
         /\ v = "first" => cap[v].pc \notin OfRecovery
         /\ v = "recovery" => cap[v].pc \notin OfFirst
         /\ cap[v].pc # "begin" => journal.state # "none"
                                   /\ cap[v].pins = journal.pins
<1> DEFINE c == cap[v]
<1>1. /\ c \in Capability /\ Pushed(v, c) /\ Accounted(v, c)
      /\ Knows(v, c, journal, moved, files, fresh)
  BY CapIs
<1> HIDE DEF c
<1>2. c.pc \notin Outside \cup Pinning /\ c.pc \in Working
  BY DEF Outside, Pinning, Working, OfFirst, OfRecovery, OfBoth, c
<1>3. /\ c.fds = Kept(c) \cup Opened(v, c) /\ ~c.twice
      /\ c.pc \in {"begin", "reopen_temporary", "reopen_final", "adopt"} =>
           c.temporaryPin = 0
  BY <1>1, <1>2 DEF Accounted, Outside
<1>4. c.pushed = D!Places
  BY <1>1, <1>2 DEF Pushed
<1>5. Owns(c)
  BY <1>2, <1>4 DEF Owns, D!Places, Outside, Pinning
<1>6. Kept(c) \subseteq D!Places \cup {"capability", "artifact"}
  BY <1>4 DEF Kept
<1>7. /\ v = "first" => c.pc \notin OfRecovery
      /\ v = "recovery" => c.pc \notin OfFirst
  BY <1>1 DEF Pushed
<1>8. c.pc # "begin" => journal.state # "none" /\ c.pins = journal.pins
  BY <1>1, <1>2 DEF Knows
<1> QED
  BY <1>1, <1>2, <1>3, <1>4, <1>5, <1>6, <1>7, <1>8 DEF c

\* Its step, while it stays bound.
LEMMA WorkStep ==
  ASSUME PinInv, NEW v \in D!Workers, cap[v].pc \in Working,
         NEW q \in Capability, D!Put(v, q), q.pc \in Working,
         q.pushed = cap[v].pushed, q.pins = cap[v].pins, q.bound = cap[v].bound,
         v = "first" => q.pc \notin OfRecovery,
         v = "recovery" => q.pc \notin OfFirst,
         ~q.twice, q.fds = Kept(q) \cup Opened(v, q),
         q.pc \in {"begin", "reopen_temporary", "reopen_final", "adopt"} =>
           q.temporaryPin = 0,
         UNCHANGED <<root, child>>,
         files' \in [Objects -> [D!Names -> Ids]],
         fresh' \in Nat, fresh' > 4, Recorded',
         journal' \in [state: JournalStates, pins: Pins, target: Ids],
         journal'.state # "none" \/ journal' = journal,
         Knows(v, q, journal', moved', files', fresh')
  PROVE  PinInv'
<1>1. Pushed(v, cap[v]) /\ Owns(cap[v])
  BY WorkingHas
<1>2. Pushed(v, q)
  BY <1>1
  DEF Pushed, D!Workers, Pinning, Working, OfFirst, OfRecovery, OfBoth
<1>3. Accounted(v, q)
  <2>1. q.pc \notin {"closed", "dead", "idle"} \cup Pinning
    BY DEF Pinning, Working, OfFirst, OfRecovery, OfBoth
  <2> QED
    BY <2>1 DEF Accounted
<1>4. \A k \in D!Workers :
        k # v => Knows(k, cap[k], journal', moved', files', fresh')
  BY <1>1, OthersKnow
<1>5. /\ root' \in [{"source", "target"} -> Objects]
      /\ child' \in [Objects -> Ids]
  BY DEF PinInv, PinTypes
<1> QED
  BY <1>1, <1>2, <1>3, <1>4, <1>5, PinStep

LEMMA WorkQuiet ==
  ASSUME PinInv, NEW v \in D!Workers, cap[v].pc \in Working,
         NEW q \in Capability, D!GoOn(v, q), q.pc \in Working,
         q.pushed = cap[v].pushed, q.pins = cap[v].pins, q.bound = cap[v].bound,
         v = "first" => q.pc \notin OfRecovery,
         v = "recovery" => q.pc \notin OfFirst,
         ~q.twice, q.fds = Kept(q) \cup Opened(v, q),
         q.pc \in {"begin", "reopen_temporary", "reopen_final", "adopt"} =>
           q.temporaryPin = 0,
         Knows(v, q, journal, moved, files, fresh)
  PROVE  PinInv'
<1>1. D!Put(v, q)
      /\ UNCHANGED <<root, child, files, fresh, journal, touched, moved>>
  BY DEF D!GoOn, D!Quiet, D!world
<1>2. /\ files' \in [Objects -> [D!Names -> Ids]]
      /\ fresh' \in Nat /\ fresh' > 4
      /\ journal' \in [state: JournalStates, pins: Pins, target: Ids]
  BY <1>1 DEF PinInv, PinTypes
<1>3. Recorded'
  BY <1>1 DEF PinInv, Recorded, D!PublishedInPlace
<1>4. Knows(v, q, journal', moved', files', fresh')
  BY <1>1
<1> QED
  BY <1>1, <1>2, <1>3, <1>4, WorkStep

\* The capability when only the place in the program changes.
LEMMA WorkTo ==
  ASSUME PinInv, NEW v \in D!Workers, cap[v].pc \in Working, NEW l \in Working
  PROVE  /\ D!To(cap[v], l) \in Capability /\ D!To(cap[v], l).pc = l
         /\ ~D!To(cap[v], l).ready
         /\ D!To(cap[v], l).read = cap[v].read
         /\ D!To(cap[v], l).seen = cap[v].seen
         /\ D!To(cap[v], l).pushed = cap[v].pushed
         /\ D!To(cap[v], l).pins = cap[v].pins
         /\ D!To(cap[v], l).bound = cap[v].bound
         /\ D!To(cap[v], l).temporaryPin = cap[v].temporaryPin
         /\ D!To(cap[v], l).published = cap[v].published
         /\ D!To(cap[v], l).base = cap[v].base
         /\ D!To(cap[v], l).fds
              = Kept(D!To(cap[v], l)) \cup Opened(v, cap[v])
         /\ Kept(D!To(cap[v], l)) = Kept(cap[v])
         /\ ~D!To(cap[v], l).twice
<1> DEFINE c == cap[v]
           q == D!To(c, l)
<1>1. c \in Capability /\ l \in Outside \cup Pinning \cup Working
  BY WorkingHas
<1>2. c.fds = Kept(c) \cup Opened(v, c) /\ ~c.twice
  BY WorkingHas
<1>3. /\ q \in Capability /\ q.pc = l /\ ~q.ready
      /\ q.read = c.read /\ q.seen = c.seen
      /\ q.pushed = c.pushed /\ q.pins = c.pins
      /\ q.bound = c.bound /\ q.temporaryPin = c.temporaryPin
      /\ q.published = c.published /\ q.base = c.base
      /\ q.fds = c.fds /\ q.twice = c.twice
  <2> HIDE DEF c
  <2> QED
    BY <1>1, ToIs
<1> HIDE DEF c, q
<1>4. Kept(q) = Kept(c)
  BY <1>3 DEF Kept
<1> QED
  BY <1>2, <1>3, <1>4 DEF c, q

\* What is let go was open.
LEMMA LetGoIs ==
  ASSUME NEW c \in Capability, NEW S \in SUBSET c.fds, ~c.twice
  PROVE  /\ D!Without(c, S) \in Capability /\ ~D!Without(c, S).twice
         /\ D!Without(c, S).pc = c.pc /\ D!Without(c, S).ready = c.ready
         /\ D!Without(c, S).read = c.read /\ D!Without(c, S).seen = c.seen
         /\ D!Without(c, S).pins = c.pins
         /\ D!Without(c, S).pushed = c.pushed
         /\ D!Without(c, S).bound = c.bound
         /\ D!Without(c, S).temporaryPin = c.temporaryPin
         /\ D!Without(c, S).published = c.published
         /\ D!Without(c, S).fds = c.fds \ S
         /\ Kept(D!Without(c, S)) = Kept(c)
<1>1. D!Without(c, S).base = c.base
      /\ D!Without(c, S).pushed = c.pushed
      /\ D!Without(c, S).temporaryPin = c.temporaryPin
  BY WithoutIs
<1>2. Kept(D!Without(c, S)) = Kept(c)
  BY <1>1 DEF Kept
<1>3. ~D!Without(c, S).twice
  BY WithoutIs
<1> QED
  BY <1>2, <1>3, WithoutIs

LEMMA AssertInv ==
  ASSUME PinInv, NEW v \in D!Workers, D!Assert(v)
  PROVE  PinInv'
<1> DEFINE c == cap[v]
           q == [c EXCEPT !.ready = TRUE]
<1>1. c.pc \in D!Asserted
  BY DEF D!Assert
<1>2. c.pc \in Working /\ c.pc \notin Outside
  BY <1>1 DEF D!Asserted, Working, OfFirst, OfRecovery, OfBoth, Outside
<1>3. D!Fail(v) \/ (D!AssertPin(v) /\ D!GoOn(v, q))
  BY DEF D!Assert
<1>4. /\ c \in Capability /\ Knows(v, c, journal, moved, files, fresh)
      /\ c.fds = Kept(c) \cup Opened(v, c) /\ ~c.twice
      /\ c.pushed = D!Places
      /\ c.pc \in {"begin", "reopen_temporary", "reopen_final", "adopt"} =>
           c.temporaryPin = 0
      /\ v = "first" => c.pc \notin OfRecovery
      /\ v = "recovery" => c.pc \notin OfFirst
  BY <1>2, WorkingHas
<1>5. /\ q \in Capability /\ q.pc = c.pc /\ q.pushed = c.pushed
      /\ q.pins = c.pins /\ q.bound = c.bound /\ q.read = c.read
      /\ q.seen = c.seen /\ q.temporaryPin = c.temporaryPin
      /\ q.published = c.published /\ q.fds = c.fds /\ q.base = c.base
      /\ q.twice = c.twice
  BY <1>4 DEF Capability
<1>6. CASE D!AssertPin(v) /\ D!GoOn(v, q)
  <2>1. ASSUME c.pc = "ack"
        PROVE  [dir |-> c.pins["target"], ino |-> c.temporaryPin] \in moved
    <3>1. c.temporaryPin = journal.target /\ journal.target # 0 /\ c.published
      BY <1>4, <2>1 DEF Knows
    <3>2. D!ByPath("target") = c.pins["target"]
      BY <1>4, <1>6 DEF D!AssertPin, D!Places
    <3>3. D!ByPath("target") # 0
          /\ files[D!ByPath("target")]["final"] = c.temporaryPin
      BY <1>6, <3>1 DEF D!AssertPin, D!ArtifactName
    <3>4. D!ByPath("target") \in Objects
      BY <3>3, WorldIs, PinConstants DEF D!Places
    <3> QED
      BY <3>1, <3>2, <3>3, <3>4 DEF PinInv, Recorded, Tracked
  <2> HIDE DEF q, c
  <2>2. Opened(v, q) = Opened(v, c) /\ Kept(q) = Kept(c)
    BY <1>5 DEF Opened, Kept
  <2>3. Knows(v, q, journal, moved, files, fresh)
    BY <1>4, <1>5, <2>1 DEF Knows
  <2> QED
    BY <1>2, <1>4, <1>5, <1>6, <2>2, <2>3, WorkQuiet DEF c
<1> QED
  BY <1>2, <1>3, <1>6, FailInv DEF c

LEMMA BeginInv ==
  ASSUME PinInv, NEW v \in D!Workers, D!Begin(v)
  PROVE  PinInv'
<1> DEFINE c == cap[v]
           q == D!To(c, "create")
<1>1. /\ c.pc = "begin" /\ D!Put(v, q)
      /\ journal' = [journal EXCEPT !.state = "assembling", !.pins = c.pins]
      /\ UNCHANGED <<root, child, files, fresh, touched, moved>>
  BY DEF D!Begin, D!At, D!world
<1>2. c.pc \in Working /\ "create" \in Working \ (OfFirst \cup OfRecovery)
  BY <1>1 DEF Working, OfFirst, OfRecovery, OfBoth
<1>3. /\ c \in Capability /\ Opened(v, c) = {}
  BY <1>1, <1>2, WorkingHas DEF Opened
<1>4. /\ q \in Capability /\ q.pc = "create" /\ q.pushed = c.pushed
      /\ q.pins = c.pins /\ q.bound = c.bound /\ ~q.twice
      /\ q.fds = Kept(q)
  <2>1. /\ q \in Capability /\ q.pc = "create" /\ q.pushed = c.pushed
        /\ q.pins = c.pins /\ q.bound = c.bound /\ ~q.twice
        /\ q.fds = Kept(q) \cup Opened(v, c)
    BY <1>2, WorkTo
  <2> HIDE DEF q, c
  <2> QED
    BY <1>3, <2>1
<1>5. /\ journal' \in [state: JournalStates, pins: Pins, target: Ids]
      /\ journal'.state = "assembling" /\ journal'.pins = c.pins
      /\ journal'.target = journal.target
  BY <1>1, <1>3 DEF PinInv, PinTypes, JournalStates, Capability
<1>6. Recorded'
  BY <1>1, <1>5 DEF PinInv, Recorded, Tracked, D!PublishedInPlace
<1> HIDE DEF c, q
<1>7. Knows(v, q, journal', moved', files', fresh')
  BY <1>4, <1>5 DEF Knows, Pinning
<1>8. Opened(v, q) = {}
  BY <1>4 DEF Opened
<1>9. /\ files' \in [Objects -> [D!Names -> Ids]]
      /\ fresh' \in Nat /\ fresh' > 4
  BY <1>1 DEF PinInv, PinTypes
<1> QED
  BY <1>1, <1>2, <1>4, <1>5, <1>6, <1>7, <1>8, <1>9, WorkStep DEF c

\* A file is put under the temporary name.
LEMMA FilesAt ==
  ASSUME PinInv, NEW d \in Objects, NEW n \in D!Names, NEW i \in Ids,
         files' = [files EXCEPT ![d][n] = i]
  PROVE  /\ files' \in [Objects -> [D!Names -> Ids]]
         /\ \A e \in Objects, m \in D!Names :
              files'[e][m] = IF e = d /\ m = n THEN i ELSE files[e][m]
BY DEF PinInv, PinTypes

LEMMA CreateInv ==
  ASSUME PinInv, NEW v \in D!Workers, D!Create(v)
  PROVE  PinInv'
<1> DEFINE c == cap[v]
           d == child[c.base]
           g == D!To(c, "anchor")
           f == [g EXCEPT !.seen = fresh]
           q == D!Take(f, "writer")
<1>1. c.pc = "create"
  BY DEF D!Create, D!At, D!AtReady
<1>2. /\ c.pc \in Working /\ "anchor" \in Working \ (OfFirst \cup OfRecovery)
      /\ c.pc \notin Outside
  BY <1>1 DEF Working, OfFirst, OfRecovery, OfBoth, Outside
<1>3. CASE D!Fail(v)
  BY <1>2, <1>3, FailInv DEF c
<1>4. CASE ~D!Fail(v)
  <2>1. /\ D!Below(c.base) # 0
        /\ fresh \in Objects /\ fresh' = fresh + 1
        /\ files' = [files EXCEPT ![d]["temporary"] = fresh]
        /\ D!Put(v, q)
        /\ UNCHANGED <<root, child, journal, touched, moved>>
    BY <1>4 DEF D!Create
  <2>2. /\ c \in Capability /\ Opened(v, c) = {} /\ journal.state # "none"
        /\ c.pins = journal.pins
    BY <1>1, <1>2, WorkingHas DEF Opened
  <2>3. d \in Objects /\ fresh \in Nat /\ fresh > 4 /\ fresh \in Ids
    <3>1. c.base \in Objects /\ d \in Ids /\ d # 0
      BY <2>1, <2>2, WorldIs, PinConstants DEF D!Below, Capability
    <3> QED
      BY <2>1, <3>1, PinConstants DEF PinInv, PinTypes, Ids
  <2>4. /\ g \in Capability /\ g.pc = "anchor" /\ g.pushed = c.pushed
        /\ g.pins = c.pins /\ g.bound = c.bound /\ ~g.twice
        /\ g.fds = Kept(g)
    <3>1. /\ g \in Capability /\ g.pc = "anchor" /\ g.pushed = c.pushed
          /\ g.pins = c.pins /\ g.bound = c.bound /\ ~g.twice
          /\ g.fds = Kept(g) \cup Opened(v, c)
      BY <1>2, WorkTo
    <3> HIDE DEF g, c
    <3> QED
      BY <2>2, <3>1
  <2> HIDE DEF g
  <2>5. /\ f \in Capability /\ f.pc = "anchor" /\ f.pushed = g.pushed
        /\ f.pins = g.pins /\ f.bound = g.bound /\ f.twice = g.twice
        /\ f.fds = g.fds /\ f.base = g.base /\ f.seen = fresh
        /\ f.temporaryPin = g.temporaryPin
    BY <2>3, <2>4 DEF Capability
  <2> HIDE DEF f
  <2>6. /\ q \in Capability /\ q.pc = "anchor" /\ q.pushed = g.pushed
        /\ q.pins = g.pins /\ q.bound = g.bound /\ q.twice = g.twice
        /\ q.fds = g.fds \cup {"writer"} /\ q.base = g.base
        /\ q.seen = fresh /\ q.temporaryPin = g.temporaryPin
    BY <2>5, TakeIs DEF Descriptors
  <2> HIDE DEF q, c
  <2>7. Opened(v, q) = {"writer"} /\ Kept(q) = Kept(g)
    BY <2>6 DEF Opened, Kept
  <2>8. /\ files' \in [Objects -> [D!Names -> Ids]]
        /\ \A e \in Objects, m \in D!Names :
             files'[e][m] = IF e = d /\ m = "temporary" THEN fresh
                            ELSE files[e][m]
    <3>1. "temporary" \in D!Names
      BY DEF D!Names
    <3> QED
      BY ZenonT(90), <2>1, <2>3, <3>1, FilesAt
  <2>9. \A e \in Objects : files'[e]["final"] = files[e]["final"]
    BY <2>8 DEF D!Names
  <2>10. Tracked(fresh, files', moved')
    BY <2>3, <2>9 DEF Tracked, PinInv, Recorded, D!Names
  <2>11. Recorded'
    <3>1. journal.target \in Nat
          /\ \A e \in Objects, m \in D!Names : files[e][m] \in Nat
      BY Inodes
    <3>2. journal'.target < fresh'
          /\ \A e \in Objects, m \in D!Names : files'[e][m] < fresh'
      BY <2>1, <2>3, <2>8, <3>1 DEF PinInv, Recorded
    <3>3. journal'.target # 0 => Tracked(journal'.target, files', moved')
      BY <2>1, <2>9 DEF PinInv, Recorded, Tracked
    <3> QED
      BY <2>1, <3>2, <3>3 DEF PinInv, Recorded, D!PublishedInPlace
  <2>12. Knows(v, q, journal', moved', files', fresh')
    BY <2>1, <2>2, <2>3, <2>4, <2>6, <2>10 DEF Knows, Pinning
  <2>13. fresh' \in Nat /\ fresh' > 4
         /\ journal' \in [state: JournalStates, pins: Pins, target: Ids]
    BY <2>1, <2>3 DEF PinInv, PinTypes
  <2>14. /\ q.pushed = c.pushed /\ q.pins = c.pins /\ q.bound = c.bound
         /\ ~q.twice /\ q.fds = Kept(q) \cup Opened(v, q)
    BY <2>4, <2>6, <2>7
  <2>15. /\ q.pc \in Working \ (OfFirst \cup OfRecovery)
         /\ q.pc \notin {"begin", "reopen_temporary", "reopen_final", "adopt"}
    BY <1>2, <2>6
  <2> QED
    BY <1>2, <2>1, <2>6, <2>8, <2>11, <2>12, <2>13, <2>14, <2>15, WorkStep
    DEF c
<1> QED
  BY <1>3, <1>4

LEMMA AnchorInv ==
  ASSUME PinInv, NEW v \in D!Workers, D!Anchor(v)
  PROVE  PinInv'
<1> DEFINE c == cap[v]
           n == D!Named(v, "temporary")
           g == D!To(c, "sync_created")
           x == IF g.read = 0 THEN n ELSE g.read
           f == [g EXCEPT !.temporaryPin = n, !.read = x]
           q == D!Take(f, "artifact")
<1>1. c.pc = "anchor"
  BY DEF D!Anchor, D!At
<1>2. /\ c.pc \in Working /\ c.pc \notin Outside
      /\ "sync_created" \in Working \ (OfFirst \cup OfRecovery)
  BY <1>1 DEF Working, OfFirst, OfRecovery, OfBoth, Outside
<1>3. CASE D!Fail(v)
  BY <1>2, <1>3, FailInv DEF c
<1>4. CASE ~D!Fail(v)
  <2>1. n = c.seen /\ D!GoOn(v, q)
    BY <1>4 DEF D!Anchor
  <2>2. /\ c \in Capability /\ Opened(v, c) = {"writer"}
        /\ Knows(v, c, journal, moved, files, fresh)
        /\ journal.state # "none" /\ c.pins = journal.pins
    BY <1>1, <1>2, WorkingHas DEF Opened
  <2>3. /\ c.seen # 0 /\ c.seen < fresh /\ Tracked(c.seen, files, moved)
    BY <1>1, <2>2 DEF Knows
  <2>4. /\ g \in Capability /\ g.pc = "sync_created" /\ g.pushed = c.pushed
        /\ g.pins = c.pins /\ g.bound = c.bound /\ ~g.twice
        /\ g.fds = Kept(g) \cup {"writer"} /\ g.seen = c.seen
    BY <1>2, <2>2, WorkTo
  <2> HIDE DEF g
  <2>5. n \in Ids /\ x \in Ids
    BY <2>1, <2>2, <2>4 DEF Capability
  <2> HIDE DEF n, x
  <2>6. /\ f \in Capability /\ f.pc = "sync_created" /\ f.pushed = g.pushed
        /\ f.pins = g.pins /\ f.bound = g.bound /\ f.twice = g.twice
        /\ f.fds = g.fds /\ f.base = g.base /\ f.seen = g.seen
        /\ f.temporaryPin = n
    BY <2>4, <2>5 DEF Capability
  <2>7. q = D!Take(f, "artifact")
    OBVIOUS
  <2> HIDE DEF f
  <2>8. /\ q \in Capability /\ q.pc = "sync_created" /\ q.pushed = g.pushed
        /\ q.pins = g.pins /\ q.bound = g.bound /\ q.twice = g.twice
        /\ q.fds = g.fds \cup {"artifact"} /\ q.base = g.base
        /\ q.seen = g.seen /\ q.temporaryPin = n
    BY <2>6, TakeIs DEF Descriptors
  <2>9. D!GoOn(v, q)
    BY <2>1 DEF f, x
  <2> HIDE DEF q, c
  <2>10. Opened(v, q) = {"writer"} /\ q.fds = Kept(q) \cup {"writer"}
    BY <2>1, <2>3, <2>4, <2>8 DEF Opened, Kept
  <2>11. Knows(v, q, journal, moved, files, fresh)
    BY <2>1, <2>2, <2>3, <2>4, <2>8 DEF Knows, Pinning
  <2> QED
    BY <1>2, <2>4, <2>8, <2>9, <2>10, <2>11, WorkQuiet DEF c
<1> QED
  BY <1>3, <1>4

\* It goes on to another step, or puts the journal in its next state.
Rest == Working \ {"begin", "reopen_temporary", "reopen_final", "adopt"}

LEMMA WorkMove ==
  ASSUME PinInv, NEW v \in D!Workers, cap[v].pc \in Working, NEW l \in Rest,
         v = "first" => l \notin OfRecovery, v = "recovery" => l \notin OfFirst,
         D!GoOn(v, D!To(cap[v], l)),
         Opened(v, D!To(cap[v], l)) = Opened(v, cap[v]),
         Knows(v, D!To(cap[v], l), journal, moved, files, fresh)
  PROVE  PinInv'
<1> DEFINE q == D!To(cap[v], l)
<1>1. l \in Working
      /\ l \notin {"begin", "reopen_temporary", "reopen_final", "adopt"}
  BY DEF Rest
<1>2. /\ q \in Capability /\ q.pc = l /\ q.pushed = cap[v].pushed
      /\ q.pins = cap[v].pins /\ q.bound = cap[v].bound /\ ~q.twice
      /\ q.fds = Kept(q) \cup Opened(v, cap[v])
  BY <1>1, WorkTo
<1> HIDE DEF q
<1>3. D!GoOn(v, q) /\ Opened(v, q) = Opened(v, cap[v])
      /\ Knows(v, q, journal, moved, files, fresh)
  BY DEF q
<1> QED
  BY <1>1, <1>2, <1>3, WorkQuiet

LEMMA WorkNotes ==
  ASSUME PinInv, NEW v \in D!Workers, cap[v].pc \in Working, NEW l \in Rest,
         v = "first" => l \notin OfRecovery, v = "recovery" => l \notin OfFirst,
         NEW s \in JournalStates \ {"none"},
         journal' = [journal EXCEPT !.state = s],
         UNCHANGED <<D!world, touched, moved>>,
         s \in {"published", "committed", "cleaned"} =>
           [dir |-> journal.pins["target"], ino |-> journal.target] \in moved,
         D!Put(v, D!To(cap[v], l)),
         Opened(v, D!To(cap[v], l)) = Opened(v, cap[v]),
         Knows(v, D!To(cap[v], l), journal', moved, files, fresh)
  PROVE  PinInv'
<1> DEFINE q == D!To(cap[v], l)
<1>1. l \in Working
      /\ l \notin {"begin", "reopen_temporary", "reopen_final", "adopt"}
  BY DEF Rest
<1>2. /\ q \in Capability /\ q.pc = l /\ q.pushed = cap[v].pushed
      /\ q.pins = cap[v].pins /\ q.bound = cap[v].bound /\ ~q.twice
      /\ q.fds = Kept(q) \cup Opened(v, cap[v])
  BY <1>1, WorkTo
<1>3. UNCHANGED <<root, child, files, fresh, touched, moved>>
  BY DEF D!world
<1> HIDE DEF q
<1>4. D!Put(v, q) /\ Opened(v, q) = Opened(v, cap[v])
      /\ Knows(v, q, journal', moved', files', fresh')
  BY <1>3 DEF q
<1>5. /\ journal' \in [state: JournalStates, pins: Pins, target: Ids]
      /\ journal'.state = s /\ journal'.pins = journal.pins
      /\ journal'.target = journal.target
  BY DEF PinInv, PinTypes
<1>6. Recorded'
  BY <1>3, <1>5 DEF PinInv, Recorded, Tracked, D!PublishedInPlace
<1>7. /\ files' \in [Objects -> [D!Names -> Ids]]
      /\ fresh' \in Nat /\ fresh' > 4
  BY <1>3 DEF PinInv, PinTypes
<1> QED
  BY <1>1, <1>2, <1>3, <1>4, <1>5, <1>6, <1>7, WorkStep

LEMMA SyncCreatedInv ==
  ASSUME PinInv, NEW v \in D!Workers, D!SyncCreated(v)
  PROVE  PinInv'
<1> DEFINE c == cap[v]
           q == D!To(c, "record")
<1>1. c.pc = "sync_created" /\ (D!Fail(v) \/ D!GoOn(v, q))
  BY DEF D!SyncCreated, D!At
<1>2. /\ c.pc \in Working /\ c.pc \notin Outside
      /\ "record" \in Working /\ "record" \in Rest
      /\ "record" \notin OfFirst \cup OfRecovery
  BY <1>1 DEF Working, OfFirst, OfRecovery, OfBoth, Outside, Rest
<1>3. /\ c \in Capability /\ Knows(v, c, journal, moved, files, fresh)
      /\ journal.state # "none" /\ c.pins = journal.pins
  BY <1>1, <1>2, WorkingHas
<1>4. /\ q \in Capability /\ q.pc = "record" /\ q.pins = c.pins
      /\ q.seen = c.seen /\ q.temporaryPin = c.temporaryPin
  BY <1>2, WorkTo
<1> HIDE DEF q, c
<1>5. Opened(v, q) = Opened(v, c)
  BY <1>1, <1>4 DEF Opened
<1>6. Knows(v, q, journal, moved, files, fresh)
  BY <1>1, <1>3, <1>4 DEF Knows, Pinning
<1> QED
  BY <1>1, <1>2, <1>5, <1>6, WorkMove, FailInv DEF c, q

LEMMA RecordInv ==
  ASSUME PinInv, NEW v \in D!Workers, D!Record(v)
  PROVE  PinInv'
<1> DEFINE c == cap[v]
           g == D!To(c, IF v = "first" THEN "verified" ELSE "durable")
           q == IF v = "first" THEN g ELSE D!Without(g, {"writer"})
<1>1. c.pc = "record"
  BY DEF D!Record, D!At
<1>2. c.pc \in Working /\ c.pc \notin Outside
  BY <1>1 DEF Working, OfFirst, OfRecovery, OfBoth, Outside
<1>3. CASE D!Fail(v)
  BY <1>2, <1>3, FailInv DEF c
<1>4. CASE ~D!Fail(v)
  <2> DEFINE l == IF v = "first" THEN "verified" ELSE "durable"
  <2>1. /\ journal.target \in {0, c.seen} /\ D!Put(v, q)
        /\ journal' = [journal EXCEPT !.target = c.seen]
        /\ UNCHANGED <<root, child, files, fresh, touched, moved>>
    BY <1>4 DEF D!Record, D!world
  <2>2. /\ c \in Capability /\ Opened(v, c) = {"writer"}
        /\ Knows(v, c, journal, moved, files, fresh)
        /\ journal.state # "none" /\ c.pins = journal.pins
    BY <1>1, <1>2, WorkingHas DEF Opened
  <2>3. /\ c.seen # 0 /\ c.seen < fresh /\ Tracked(c.seen, files, moved)
        /\ c.temporaryPin = c.seen /\ c.seen \in Ids
    BY <1>1, <2>2 DEF Knows, Capability
  <2>4. l \in Working
    BY DEF Working, OfBoth, OfRecovery
  <2>5. /\ v = "first" => l = "verified"
        /\ v = "recovery" => l = "durable"
        /\ l \in {"verified", "durable"}
    OBVIOUS
  <2>6. g = D!To(c, l)
    OBVIOUS
  <2> HIDE DEF l
  <2>7. /\ g \in Capability /\ g.pc = l /\ g.pushed = c.pushed
        /\ g.pins = c.pins /\ g.bound = c.bound /\ ~g.twice
        /\ g.fds = Kept(g) \cup Opened(v, c) /\ g.seen = c.seen
        /\ g.temporaryPin = c.temporaryPin
    <3> HIDE DEF g
    <3> QED
      BY <1>2, <2>4, <2>6, WorkTo
  <2>8. {"writer"} \subseteq g.fds
    BY <2>2, <2>7
  <2>9. /\ q \in Capability /\ q.pc = l /\ q.pushed = c.pushed
        /\ q.pins = c.pins /\ q.bound = c.bound /\ ~q.twice
        /\ q.fds = Kept(q) \cup Opened(v, q) /\ q.seen = c.seen
        /\ q.temporaryPin = c.temporaryPin
    <3>1. CASE v = "first"
      <4>1. q = g /\ l = "verified"
        BY <2>5, <3>1
      <4> HIDE DEF q, g, c
      <4>2. Opened(v, q) = {"writer"}
        BY <2>7, <3>1, <4>1 DEF Opened
      <4> QED
        BY <2>2, <2>7, <4>1, <4>2
    <3>2. CASE v # "first"
      <4>1. q = D!Without(g, {"writer"}) /\ l = "durable"
        BY <2>5, <3>2 DEF D!Workers
      <4> HIDE DEF q, g
      <4>2. Kept(g) \cap {"writer"} = {}
        BY <2>7 DEF Kept, Capability, D!Places
      <4>3. /\ q \in Capability /\ q.pc = g.pc /\ q.pushed = g.pushed
            /\ q.pins = g.pins /\ q.bound = g.bound /\ ~q.twice
            /\ q.fds = g.fds \ {"writer"} /\ q.seen = g.seen
            /\ q.temporaryPin = g.temporaryPin /\ Kept(q) = Kept(g)
        BY <2>7, <2>8, <4>1, LetGoIs
      <4> HIDE DEF c
      <4>4. Opened(v, q) = {}
        BY <2>7, <4>1, <4>3 DEF Opened
      <4> QED
        BY <2>2, <2>7, <4>1, <4>2, <4>3, <4>4
    <3> QED
      BY <3>1, <3>2
  <2> HIDE DEF q, g, c
  <2>10. /\ journal' \in [state: JournalStates, pins: Pins, target: Ids]
         /\ journal'.state = journal.state /\ journal'.pins = journal.pins
         /\ journal'.target = c.seen
    BY <2>1, <2>3 DEF PinInv, PinTypes
  <2>11. Recorded'
    <3>1. D!PublishedInPlace'
      BY <2>1, <2>10 DEF PinInv, Recorded, D!PublishedInPlace
    <3>2. touched \subseteq {c.seen, 4}
      BY <2>1 DEF PinInv, Recorded
    <3> QED
      BY <2>1, <2>3, <2>10, <3>1, <3>2 DEF PinInv, Recorded, Tracked
  <2>12. Knows(v, q, journal', moved', files', fresh')
    BY <2>2, <2>3, <2>5, <2>9, <2>10 DEF Knows, Pinning
  <2>13. /\ files' \in [Objects -> [D!Names -> Ids]]
         /\ fresh' \in Nat /\ fresh' > 4
    BY <2>1 DEF PinInv, PinTypes
  <2>14. /\ v = "first" => q.pc \notin OfRecovery
         /\ v = "recovery" => q.pc \notin OfFirst
         /\ q.pc \in Working
         /\ q.pc \notin {"begin", "reopen_temporary", "reopen_final", "adopt"}
    BY <2>4, <2>5, <2>9 DEF OfFirst, OfRecovery
  <2> QED
    BY <1>2, <2>1, <2>2, <2>9, <2>10, <2>11, <2>12, <2>13, <2>14, WorkStep
    DEF c
<1> QED
  BY <1>3, <1>4

LEMMA VerifiedInv ==
  ASSUME PinInv, NEW v \in D!Workers, D!Verified(v)
  PROVE  PinInv'
<1> DEFINE c == cap[v]
           l == IF v = "first" THEN "metadata" ELSE "look_temporary"
           q == D!To(c, l)
<1>1. /\ c.pc = "verified" /\ D!Put(v, q)
      /\ journal' = [journal EXCEPT !.state = "verified"]
      /\ UNCHANGED <<D!world, touched, moved>>
  BY DEF D!Verified, D!At
<1>2. /\ c.pc \in Working /\ l \in Rest /\ l \in Working
      /\ v = "first" => l \notin OfRecovery
      /\ v = "recovery" => l \notin OfFirst
      /\ "verified" \in JournalStates \ {"none"}
  BY <1>1 DEF Working, OfFirst, OfRecovery, OfBoth, Rest, JournalStates
<1>3. /\ c \in Capability /\ Knows(v, c, journal, moved, files, fresh)
      /\ journal.state # "none" /\ c.pins = journal.pins
  BY <1>1, <1>2, WorkingHas
<1>4. /\ v = "first" => l = "metadata"
      /\ v = "recovery" => l = "look_temporary"
  OBVIOUS
<1> HIDE DEF l
<1>5. /\ q \in Capability /\ q.pc = l /\ q.pins = c.pins
      /\ q.temporaryPin = c.temporaryPin
  BY <1>2, WorkTo
<1> HIDE DEF q, c
<1>6. Opened(v, q) = Opened(v, c)
  BY <1>1, <1>4, <1>5 DEF Opened, D!Workers
<1>7. /\ journal'.state = "verified" /\ journal'.pins = journal.pins
      /\ journal'.target = journal.target
  BY <1>1 DEF PinInv, PinTypes
<1>8. Knows(v, q, journal', moved, files, fresh)
  BY <1>1, <1>3, <1>4, <1>5, <1>7 DEF Knows, Pinning, D!Workers
<1> QED
  BY <1>1, <1>2, <1>6, <1>8, WorkNotes DEF c, q

LEMMA OpenMetadataInv ==
  ASSUME PinInv, NEW v \in D!Workers, D!OpenMetadata(v)
  PROVE  PinInv'
<1> DEFINE c == cap[v]
           g == D!To(c, "read_metadata")
           q == D!Take(g, "metadata")
<1>1. c.pc = "metadata" /\ (D!Fail(v) \/ D!GoOn(v, q))
  BY DEF D!OpenMetadata, D!At, D!AtReady
<1>2. /\ c.pc \in Working /\ c.pc \notin Outside
      /\ "read_metadata" \in Working
  BY <1>1 DEF Working, OfFirst, OfRecovery, OfBoth, Outside
<1>3. /\ c \in Capability /\ Knows(v, c, journal, moved, files, fresh)
      /\ journal.state # "none" /\ c.pins = journal.pins
      /\ Opened(v, c) = {"writer"} /\ v = "first"
  BY <1>1, <1>2, WorkingHas DEF Opened, OfFirst, D!Workers
<1>4. /\ g \in Capability /\ g.pc = "read_metadata" /\ g.pins = c.pins
      /\ g.pushed = c.pushed /\ g.bound = c.bound /\ ~g.twice
      /\ g.temporaryPin = c.temporaryPin
      /\ g.fds = Kept(g) \cup Opened(v, c)
  BY <1>2, WorkTo
<1> HIDE DEF g
<1>5. /\ q \in Capability /\ q.pc = g.pc /\ q.pins = g.pins
      /\ q.pushed = g.pushed /\ q.bound = g.bound /\ q.twice = g.twice
      /\ q.temporaryPin = g.temporaryPin /\ q.base = g.base
      /\ q.fds = g.fds \cup {"metadata"}
  BY <1>4, TakeIs DEF Descriptors
<1> HIDE DEF q, c
<1>6. Opened(v, q) = {"writer", "metadata"} /\ Kept(q) = Kept(g)
  BY <1>4, <1>5 DEF Opened, Kept
<1>7. q.fds = Kept(q) \cup Opened(v, q)
  BY <1>3, <1>4, <1>5, <1>6
<1>8. Knows(v, q, journal, moved, files, fresh)
  BY <1>1, <1>3, <1>4, <1>5 DEF Knows, Pinning
<1>9. q.pc \notin OfRecovery
  BY <1>4, <1>5 DEF OfRecovery
<1> QED
  BY <1>1, <1>2, <1>3, <1>4, <1>5, <1>7, <1>8, <1>9, WorkQuiet, FailInv DEF c

LEMMA CloseWriterInv ==
  ASSUME PinInv, NEW v \in D!Workers, D!CloseWriter(v)
  PROVE  PinInv'
<1> DEFINE c == cap[v]
           g == D!To(c, "intent")
           S == {"metadata", "writer"}
           q == D!Without(g, S)
<1>1. c.pc = "read_metadata" /\ D!GoOn(v, q)
  BY DEF D!CloseWriter, D!At
<1>2. /\ c.pc \in Working /\ "intent" \in Working
      /\ "intent" \notin OfFirst \cup OfRecovery
  BY <1>1 DEF Working, OfFirst, OfRecovery, OfBoth
<1>3. /\ c \in Capability /\ Knows(v, c, journal, moved, files, fresh)
      /\ journal.state # "none" /\ c.pins = journal.pins
      /\ Opened(v, c) = S
  BY <1>1, <1>2, WorkingHas DEF Opened
<1>4. /\ g \in Capability /\ g.pc = "intent" /\ g.pins = c.pins
      /\ g.pushed = c.pushed /\ g.bound = c.bound /\ ~g.twice
      /\ g.temporaryPin = c.temporaryPin
      /\ g.fds = Kept(g) \cup Opened(v, c)
  BY <1>2, WorkTo
<1> HIDE DEF g
<1>5. S \subseteq g.fds
  BY <1>3, <1>4
<1>6. Kept(g) \cap S = {}
  BY <1>4 DEF Kept, Capability, D!Places
<1> HIDE DEF S
<1>7. /\ q \in Capability /\ q.pc = g.pc /\ q.pins = g.pins
      /\ q.pushed = g.pushed /\ q.bound = g.bound /\ ~q.twice
      /\ q.temporaryPin = g.temporaryPin
      /\ q.fds = g.fds \ S /\ Kept(q) = Kept(g)
  BY <1>4, <1>5, LetGoIs
<1> HIDE DEF q, c
<1>8. Opened(v, q) = {}
  BY <1>4, <1>7 DEF Opened
<1>9. q.fds = Kept(q) \cup Opened(v, q)
  BY <1>3, <1>4, <1>6, <1>7, <1>8
<1>10. Knows(v, q, journal, moved, files, fresh)
  BY <1>1, <1>3, <1>4, <1>7 DEF Knows, Pinning
<1> QED
  BY <1>1, <1>2, <1>3, <1>4, <1>7, <1>9, <1>10, WorkQuiet DEF c

LEMMA IntentInv ==
  ASSUME PinInv, NEW v \in D!Workers, D!Intent(v)
  PROVE  PinInv'
<1> DEFINE c == cap[v]
           q == D!To(c, "publish")
<1>1. /\ c.pc = "intent" /\ D!Put(v, q)
      /\ journal' = [journal EXCEPT !.state = "publishing"]
      /\ UNCHANGED <<D!world, touched, moved>>
  BY DEF D!Intent, D!At, D!AtReady
<1>2. /\ c.pc \in Working /\ "publish" \in Rest /\ "publish" \in Working
      /\ "publish" \notin OfFirst \cup OfRecovery
      /\ "publishing" \in JournalStates \ {"none"}
  BY <1>1 DEF Working, OfFirst, OfRecovery, OfBoth, Rest, JournalStates
<1>3. /\ c \in Capability /\ Knows(v, c, journal, moved, files, fresh)
      /\ journal.state # "none" /\ c.pins = journal.pins
  BY <1>1, <1>2, WorkingHas
<1>4. /\ q \in Capability /\ q.pc = "publish" /\ q.pins = c.pins
      /\ q.temporaryPin = c.temporaryPin
  BY <1>2, WorkTo
<1> HIDE DEF q, c
<1>5. Opened(v, q) = Opened(v, c)
  BY <1>1, <1>4 DEF Opened
<1>6. /\ journal'.state = "publishing" /\ journal'.pins = journal.pins
      /\ journal'.target = journal.target
  BY <1>1 DEF PinInv, PinTypes
<1>7. Knows(v, q, journal', moved, files, fresh)
  BY <1>1, <1>3, <1>4, <1>6 DEF Knows, Pinning
<1> QED
  BY <1>1, <1>2, <1>5, <1>7, WorkNotes DEF c, q

LEMMA PublishInv ==
  ASSUME PinInv, NEW v \in D!Workers, D!Publish(v)
  PROVE  PinInv'
<1> DEFINE c == cap[v]
           n == D!Named(v, "temporary")
           d == D!Below(c.base)
           g == D!To(c, "ack")
           q == [g EXCEPT !.published = TRUE]
<1>1. c.pc = "publish"
  BY DEF D!Publish, D!At, D!AtReady
<1>2. /\ c.pc \in Working /\ c.pc \notin Outside /\ "ack" \in Working
      /\ "ack" \notin OfFirst \cup OfRecovery
  BY <1>1 DEF Working, OfFirst, OfRecovery, OfBoth, Outside
<1>3. CASE D!Fail(v)
  BY <1>2, <1>3, FailInv DEF c
<1>4. CASE ~D!Fail(v)
  <2>1. /\ n # 0 /\ D!Put(v, q)
        /\ files' = [files EXCEPT ![d]["temporary"] = 0, ![d]["final"] = n]
        /\ moved' = moved \cup {[dir |-> d, ino |-> n]}
        /\ UNCHANGED <<root, child, fresh, journal, touched>>
    BY <1>4 DEF D!Publish
  <2>2. /\ c \in Capability /\ Opened(v, c) = {}
        /\ Knows(v, c, journal, moved, files, fresh)
        /\ journal.state # "none" /\ c.pins = journal.pins
    BY <1>1, <1>2, WorkingHas DEF Opened
  <2>3. /\ g \in Capability /\ g.pc = "ack" /\ ~g.ready /\ g.pins = c.pins
        /\ g.pushed = c.pushed /\ g.bound = c.bound /\ ~g.twice
        /\ g.temporaryPin = c.temporaryPin
        /\ g.fds = Kept(g) \cup Opened(v, c)
    BY <1>2, WorkTo
  <2> HIDE DEF g
  <2>4. /\ q \in Capability /\ q.pc = "ack" /\ ~q.ready /\ q.pins = g.pins
        /\ q.pushed = g.pushed /\ q.bound = g.bound /\ ~q.twice
        /\ q.temporaryPin = g.temporaryPin /\ q.base = g.base
        /\ q.fds = g.fds /\ q.published
    BY <2>3 DEF Capability
  <2> HIDE DEF q
  <2>5. n \in Ids /\ n < fresh
    BY WorldIs DEF D!Names
  <2>6. d \in Objects
    <3>1. d \in Ids /\ d # 0
      BY <2>1, <2>2, WorldIs DEF D!Named, Capability
    <3> QED
      BY <3>1, PinConstants
  <2> HIDE DEF n, d, c
  <2>7. /\ files \in [Objects -> [D!Names -> Ids]]
        /\ "temporary" \in D!Names /\ "final" \in D!Names /\ 0 \in Ids
    BY PinConstants DEF PinInv, PinTypes, D!Names
  <2>8. /\ files' \in [Objects -> [D!Names -> Ids]]
        /\ \A e \in Objects, m \in D!Names :
             files'[e][m] = IF e # d THEN files[e][m]
                            ELSE IF m = "final" THEN n
                            ELSE IF m = "temporary" THEN 0 ELSE files[e][m]
    <3> DEFINE fl == [files EXCEPT ![d]["temporary"] = 0]
    <3>1. /\ fl \in [Objects -> [D!Names -> Ids]]
          /\ \A e \in Objects, m \in D!Names :
               fl[e][m] = IF e = d /\ m = "temporary" THEN 0 ELSE files[e][m]
      BY <2>6, <2>7
    <3>2. files' = [fl EXCEPT ![d]["final"] = n]
      BY <2>1, <2>6, <2>7
    <3> HIDE DEF fl
    <3> QED
      BY <2>5, <2>6, <2>7, <3>1, <3>2
  <2>9. /\ moved \subseteq moved'
        /\ \A e \in Objects :
             \/ files'[e]["final"] \in {files[e]["final"], fresh}
             \/ [dir |-> e, ino |-> files'[e]["final"]] \in moved'
    BY <2>1, <2>7, <2>8
  <2>10. Recorded'
    <3>1. journal.target \in Nat /\ journal.target < fresh /\ fresh \in Nat
          /\ fresh > 4
      BY PinConstants DEF PinInv, PinTypes, Recorded
    <3>2. journal.target # 0 => Tracked(journal.target, files', moved')
      BY <2>9, <3>1, TrackedStays DEF PinInv, Recorded
    <3>3. \A e \in Objects, m \in D!Names : files'[e][m] < fresh
      BY <2>5, <2>8, <3>1 DEF PinInv, Recorded
    <3>4. \A m \in moved' : m.ino # 0
      BY <2>1 DEF PinInv, Recorded
    <3> QED
      BY <2>1, <2>9, <3>1, <3>2, <3>3, <3>4
      DEF PinInv, Recorded, D!PublishedInPlace
  <2>11. Knows(v, q, journal', moved', files', fresh')
    BY <1>1, <2>1, <2>2, <2>3, <2>4 DEF Knows, Pinning
  <2>12. Opened(v, q) = {} /\ Kept(q) = Kept(g)
    BY <2>3, <2>4 DEF Opened, Kept
  <2>13. /\ fresh' \in Nat /\ fresh' > 4
         /\ journal' \in [state: JournalStates, pins: Pins, target: Ids]
    BY <2>1 DEF PinInv, PinTypes
  <2>14. /\ q.pushed = c.pushed /\ q.pins = c.pins /\ q.bound = c.bound
         /\ q.fds = Kept(q) \cup Opened(v, q)
    BY <2>2, <2>3, <2>4, <2>12
  <2> QED
    BY <1>2, <2>1, <2>4, <2>8, <2>10, <2>11, <2>13, <2>14, WorkStep DEF c
<1> QED
  BY <1>3, <1>4

LEMMA AckInv ==
  ASSUME PinInv, NEW v \in D!Workers, D!Ack(v)
  PROVE  PinInv'
<1> DEFINE c == cap[v]
           q == D!To(c, "commit")
<1>1. /\ c.pc = "ack" /\ c.ready /\ D!Put(v, q)
      /\ journal' = [journal EXCEPT !.state = "published"]
      /\ UNCHANGED <<D!world, touched, moved>>
  BY DEF D!Ack, D!At, D!AtReady
<1>2. /\ c.pc \in Working /\ "commit" \in Rest /\ "commit" \in Working
      /\ "commit" \notin OfFirst \cup OfRecovery
      /\ "published" \in JournalStates \ {"none"}
  BY <1>1 DEF Working, OfFirst, OfRecovery, OfBoth, Rest, JournalStates
<1>3. /\ c \in Capability /\ Knows(v, c, journal, moved, files, fresh)
      /\ journal.state # "none" /\ c.pins = journal.pins
  BY <1>1, <1>2, WorkingHas
<1>4. /\ q \in Capability /\ q.pc = "commit" /\ q.pins = c.pins
  BY <1>2, WorkTo
<1> HIDE DEF q, c
<1>5. Opened(v, q) = Opened(v, c)
  BY <1>1, <1>4 DEF Opened
<1>6. /\ journal'.state = "published" /\ journal'.pins = journal.pins
      /\ journal'.target = journal.target
  BY <1>1 DEF PinInv, PinTypes
<1>7. [dir |-> journal.pins["target"], ino |-> journal.target] \in moved
  BY <1>1, <1>3 DEF Knows
<1>8. Knows(v, q, journal', moved, files, fresh)
  BY <1>3, <1>4, <1>6, <1>7 DEF Knows, Pinning
<1> QED
  BY <1>1, <1>2, <1>5, <1>7, <1>8, WorkNotes DEF c, q

\* A finalization or a recovery ends well.
LEMMA EndNotes ==
  ASSUME PinInv, NEW v \in D!Workers, cap[v].pc \in Working,
         cap[v].pc # "begin", Opened(v, cap[v]) = {},
         NEW s \in {"committed", "cleaned"},
         journal' = [journal EXCEPT !.state = s],
         UNCHANGED <<D!world, touched, moved>>,
         [dir |-> journal.pins["target"], ino |-> journal.target] \in moved,
         D!Put(v, D!Close(cap[v]))
  PROVE  PinInv'
<1> DEFINE c == cap[v]
           q == D!Close(c)
<1>1. /\ c \in Capability /\ c.fds = Kept(c) /\ ~c.twice /\ Owns(c)
      /\ Pushed(v, c) /\ journal.state # "none"
      /\ Knows(v, c, journal, moved, files, fresh)
  BY WorkingHas
<1>2. D!Put(v, q)
  OBVIOUS
<1> HIDE DEF c
<1>3. /\ q \in Capability /\ q.pc = "closed" /\ ~q.bound /\ q.fds = {}
      /\ ~q.twice /\ q.pins = c.pins /\ q.pushed = c.pushed
  <2>1. /\ q \in Capability /\ q.pc = "closed" /\ ~q.bound
        /\ q.fds = c.fds \ Kept(c)
        /\ q.twice = (c.twice \/ ~(Kept(c) \subseteq c.fds))
        /\ q.pins = c.pins /\ q.pushed = c.pushed
    BY <1>1, CloseIs
  <2> HIDE DEF q
  <2> QED
    BY <1>1, <2>1
<1> HIDE DEF q
<1>4. Pushed(v, q)
  BY <1>1, <1>3
  DEF Pushed, Pinning, Working, OfFirst, OfRecovery, OfBoth
<1>5. Accounted(v, q) /\ ~Owns(q)
  BY <1>3 DEF Accounted, Owns, Pinning
<1>6. UNCHANGED <<root, child, files, fresh, touched, moved>>
  BY DEF D!world
<1>7. /\ journal' \in [state: JournalStates, pins: Pins, target: Ids]
      /\ journal'.state = s /\ journal'.pins = journal.pins
      /\ journal'.target = journal.target
  BY DEF PinInv, PinTypes, JournalStates
<1>8. Recorded'
  BY <1>6, <1>7 DEF PinInv, Recorded, Tracked, D!PublishedInPlace
<1>9. Knows(v, q, journal', moved', files', fresh')
  BY <1>3, <1>7 DEF Knows, Pinning, Working, OfFirst, OfRecovery, OfBoth
<1>10. \A k \in D!Workers :
         k # v => Knows(k, cap[k], journal', moved', files', fresh')
  BY <1>1, <1>7, OthersKnow DEF c
<1>11. /\ root' \in [{"source", "target"} -> Objects]
       /\ child' \in [Objects -> Ids]
       /\ files' \in [Objects -> [D!Names -> Ids]]
       /\ fresh' \in Nat /\ fresh' > 4
  BY <1>6 DEF PinInv, PinTypes
<1> QED
  BY <1>2, <1>3, <1>4, <1>5, <1>7, <1>8, <1>9, <1>10, <1>11, PinStep

LEMMA CommitInv ==
  ASSUME PinInv, NEW v \in D!Workers, D!Commit(v)
  PROVE  PinInv'
<1> DEFINE c == cap[v]
           q == D!To(c, "clean")
<1>1. /\ c.pc = "commit"
      /\ journal' = [journal EXCEPT !.state = "committed"]
      /\ UNCHANGED <<D!world, touched, moved>>
      /\ \/ v = "first" /\ D!Put(v, D!Close(c))
         \/ v = "recovery" /\ D!Put(v, q)
  BY DEF D!Commit, D!At, D!AtReady, D!Workers
<1>2. /\ c.pc \in Working /\ "clean" \in Rest /\ "clean" \in Working
      /\ "clean" \notin OfFirst /\ "committed" \in JournalStates \ {"none"}
  BY <1>1 DEF Working, OfFirst, OfRecovery, OfBoth, Rest, JournalStates
<1>3. /\ c \in Capability /\ Knows(v, c, journal, moved, files, fresh)
      /\ journal.state # "none" /\ c.pins = journal.pins
      /\ Opened(v, c) = {}
  BY <1>1, <1>2, WorkingHas DEF Opened
<1>4. [dir |-> journal.pins["target"], ino |-> journal.target] \in moved
  BY <1>1, <1>3 DEF Knows
<1>5. CASE v = "first" /\ D!Put(v, D!Close(c))
  BY <1>1, <1>2, <1>3, <1>4, <1>5, EndNotes
<1>6. CASE v = "recovery" /\ D!Put(v, q)
  <2>1. /\ q \in Capability /\ q.pc = "clean" /\ q.pins = c.pins
    BY <1>2, WorkTo
  <2> HIDE DEF q, c
  <2>2. Opened(v, q) = Opened(v, c)
    BY <1>3, <2>1 DEF Opened
  <2>3. /\ journal'.state = "committed" /\ journal'.pins = journal.pins
        /\ journal'.target = journal.target
    BY <1>1 DEF PinInv, PinTypes
  <2>4. Knows(v, q, journal', moved, files, fresh)
    BY <1>3, <1>4, <2>1, <2>3 DEF Knows, Pinning
  <2> QED
    BY <1>1, <1>2, <1>4, <1>6, <2>2, <2>4, WorkNotes DEF c, q
<1> QED
  BY <1>1, <1>5, <1>6

\* What is found under a name is opened.
Finds(l, n, m) ==
  \/ l = "reopen_temporary" /\ n = "temporary" /\ m = "reopen_final"
  \/ l = "reopen_final" /\ n = "final" /\ m = "adopt"
  \/ l = "look_temporary" /\ n = "temporary" /\ m = "look_final"
  \/ l = "look_final" /\ n = "final" /\ m = "sync_found"

LEMMA InspectInv ==
  ASSUME PinInv, NEW v \in D!Workers, NEW l, NEW n, NEW m, Finds(l, n, m),
         D!Inspect(v, l, n, m)
  PROVE  PinInv'
<1> DEFINE c == cap[v]
           x == D!Named(v, n)
           g == D!To(c, m)
           f == [g EXCEPT !.seen = x]
           q == D!Take(f, n)
<1>1. c.pc = l
  BY DEF D!Inspect, D!At, D!AtReady
<1>2. /\ c.pc \in Working /\ c.pc \notin Outside /\ m \in Working
      /\ m \notin OfFirst
  BY <1>1 DEF Finds, Working, OfFirst, OfRecovery, OfBoth, Outside
<1>3. /\ c \in Capability /\ Knows(v, c, journal, moved, files, fresh)
      /\ journal.state # "none" /\ c.pins = journal.pins /\ v = "recovery"
      /\ c.pc \in {"reopen_temporary", "reopen_final"} => c.temporaryPin = 0
      /\ Kept(c) \subseteq D!Places \cup {"capability", "artifact"}
  BY <1>1, <1>2, WorkingHas DEF Finds, OfRecovery, D!Workers
<1>4. /\ g \in Capability /\ g.pc = m /\ g.pins = c.pins
      /\ g.pushed = c.pushed /\ g.bound = c.bound /\ ~g.twice
      /\ g.temporaryPin = c.temporaryPin /\ g.read = c.read
      /\ g.seen = c.seen
      /\ g.fds = Kept(g) \cup Opened(v, c) /\ Kept(g) = Kept(c)
  BY <1>2, WorkTo
<1>5. Opened(v, c) = c.fds \cap Opened(v, c)
  BY <1>2, WorkingHas
<1>6. g.fds = c.fds
  BY <1>3, ToIs DEF D!To, Capability
<1>7. CASE D!Fail(v)
  BY <1>2, <1>7, FailInv DEF c
<1>8. CASE x = 0 /\ D!GoOn(v, g)
  <2> HIDE DEF g, c, x
  <2>1. Opened(v, g) = Opened(v, c)
    <3>1. /\ "temporary" \notin Kept(c) /\ "final" \notin Kept(c)
          /\ c.fds = Kept(c) \cup Opened(v, c)
      BY <1>3, <1>4, <1>6 DEF D!Places
    <3>2. CASE l = "reopen_temporary" \/ l = "look_temporary"
      <4>1. Opened(v, c) = {}
        BY <1>1, <3>2 DEF Opened
      <4>2. Opened(v, g) = g.fds \cap {"temporary"}
        BY <1>4, <3>2 DEF Opened, Finds
      <4> QED
        BY <1>6, <3>1, <4>1, <4>2
    <3>3. CASE l = "reopen_final" \/ l = "look_final"
      <4>1. Opened(v, c) = c.fds \cap {"temporary"}
        BY <1>1, <3>3 DEF Opened
      <4>2. Opened(v, g) = g.fds \cap {"temporary", "final"}
        BY <1>4, <3>3 DEF Opened, Finds
      <4> QED
        BY <1>6, <3>1, <4>1, <4>2
    <3> QED
      BY <3>2, <3>3 DEF Finds
  <2>2. Knows(v, g, journal, moved, files, fresh)
    <3>1. /\ "temporary" \notin Kept(c) /\ "final" \notin Kept(c)
          /\ c.fds = Kept(c) \cup Opened(v, c)
      BY <1>3, <1>4, <1>6 DEF D!Places
    <3>2. CASE l = "reopen_temporary"
      <4>1. "temporary" \notin g.fds /\ g.pc = "reopen_final"
        BY <1>1, <1>4, <1>6, <3>1, <3>2 DEF Opened, Finds
      <4> QED
        BY <1>3, <1>4, <4>1 DEF Knows, Pinning
    <3>3. CASE l = "reopen_final"
      <4>1. "final" \notin g.fds /\ g.pc = "adopt"
        BY <1>1, <1>4, <1>6, <3>1, <3>3 DEF Opened, Finds
      <4>2. "temporary" \in g.fds => c.seen = c.read /\ c.seen # 0
        BY <1>1, <1>3, <1>6, <3>3 DEF Knows
      <4> QED
        BY <1>3, <1>4, <4>1, <4>2 DEF Knows, Pinning
    <3>4. CASE l \in {"look_temporary", "look_final"}
      BY <1>1, <1>3, <1>4, <3>4 DEF Knows, Pinning, Finds
    <3> QED
      BY <3>2, <3>3, <3>4 DEF Finds
  <2>3. g.pc \in {"begin", "reopen_temporary", "reopen_final", "adopt"} =>
          g.temporaryPin = 0
    BY <1>1, <1>3, <1>4 DEF Finds
  <2> QED
    BY <1>2, <1>3, <1>4, <1>8, <2>1, <2>2, <2>3, WorkQuiet DEF c
<1>9. CASE x # 0 /\ x = c.read /\ D!GoOn(v, q)
  <2> HIDE DEF g, x
  <2>1. n \in Descriptors /\ x \in Ids
    BY <1>3, <1>9 DEF Finds, Descriptors, Capability
  <2>2. /\ f \in Capability /\ f.pc = g.pc /\ f.pins = g.pins
        /\ f.pushed = g.pushed /\ f.bound = g.bound /\ f.twice = g.twice
        /\ f.temporaryPin = g.temporaryPin /\ f.read = g.read
        /\ f.seen = x /\ f.fds = g.fds /\ f.base = g.base
    BY <1>4, <2>1 DEF Capability
  <2> HIDE DEF f
  <2>3. /\ q \in Capability /\ q.pc = g.pc /\ q.pins = g.pins
        /\ q.pushed = g.pushed /\ q.bound = g.bound /\ q.twice = g.twice
        /\ q.temporaryPin = g.temporaryPin /\ q.read = g.read
        /\ q.seen = x /\ q.fds = g.fds \cup {n} /\ q.base = g.base
    BY <2>1, <2>2, TakeIs
  <2> HIDE DEF q, c
  <2>4. Kept(q) = Kept(g)
    BY <2>3 DEF Kept
  <2>5. q.fds = Kept(q) \cup Opened(v, q)
    <3>1. /\ "temporary" \notin Kept(c) /\ "final" \notin Kept(c)
          /\ c.fds = Kept(c) \cup Opened(v, c)
          /\ q.fds = c.fds \cup {n} /\ Kept(q) = Kept(c) /\ q.pc = m
      BY <1>3, <1>4, <1>6, <2>3, <2>4 DEF D!Places
    <3>2. CASE l = "reopen_temporary" \/ l = "look_temporary"
      <4>1. Opened(v, c) = {} /\ n = "temporary"
        BY <1>1, <3>2 DEF Opened, Finds
      <4>2. Opened(v, q) = q.fds \cap {"temporary"}
        BY <3>1, <3>2 DEF Opened, Finds
      <4> QED
        BY <3>1, <4>1, <4>2
    <3>3. CASE l = "reopen_final" \/ l = "look_final"
      <4>1. Opened(v, c) = c.fds \cap {"temporary"} /\ n = "final"
        BY <1>1, <3>3 DEF Opened, Finds
      <4>2. Opened(v, q) = q.fds \cap {"temporary", "final"}
        BY <3>1, <3>3 DEF Opened, Finds
      <4> QED
        BY <3>1, <4>1, <4>2
    <3> QED
      BY <3>2, <3>3 DEF Finds
  <2>6. Knows(v, q, journal, moved, files, fresh)
    <3>1. /\ m \in {"reopen_final", "adopt", "look_final", "sync_found"}
          /\ m \in {"look_final", "sync_found"} =>
               q.temporaryPin \in {0, journal.target}
      BY <1>1, <1>3, <1>4, <2>3 DEF Knows, Finds
    <3> QED
      BY <1>3, <1>4, <1>9, <2>3, <3>1 DEF Knows, Pinning
  <2>7. q.pc \in {"begin", "reopen_temporary", "reopen_final", "adopt"} =>
          q.temporaryPin = 0
    BY <1>1, <1>3, <1>4, <2>3 DEF Finds
  <2> QED
    BY <1>2, <1>3, <1>4, <1>9, <2>3, <2>5, <2>6, <2>7, WorkQuiet DEF c
<1> QED
  BY <1>7, <1>8, <1>9 DEF D!Inspect, D!Unowned

LEMMA AdoptInv ==
  ASSUME PinInv, NEW v \in D!Workers, D!Adopt(v)
  PROVE  PinInv'
<1> DEFINE c == cap[v]
           F == c.fds \cap {"temporary", "final"}
           g == D!To(c, "confirm")
           t == "final" \in F
           q == [g EXCEPT !.fds = (@ \ F) \cup {"artifact"},
                          !.temporaryPin = g.seen, !.published = t]
<1>1. /\ c.pc = "adopt"
      /\ D!Fail(v) \/ (F = {} /\ D!GoOn(v, g)) \/ (F # {} /\ D!GoOn(v, q))
  BY DEF D!Adopt, D!At
<1>2. /\ c.pc \in Working /\ c.pc \notin Outside /\ "confirm" \in Working
      /\ "confirm" \notin OfFirst /\ "confirm" \in Rest
  BY <1>1 DEF Working, OfFirst, OfRecovery, OfBoth, Outside, Rest
<1>3. /\ c \in Capability /\ Knows(v, c, journal, moved, files, fresh)
      /\ journal.state # "none" /\ c.pins = journal.pins /\ v = "recovery"
      /\ c.temporaryPin = 0 /\ Opened(v, c) = F
      /\ Kept(c) \subseteq D!Places \cup {"capability", "artifact"}
  BY <1>1, <1>2, WorkingHas DEF OfRecovery, D!Workers, Opened
<1>4. /\ g \in Capability /\ g.pc = "confirm" /\ g.pins = c.pins
      /\ g.pushed = c.pushed /\ g.bound = c.bound /\ ~g.twice
      /\ g.temporaryPin = c.temporaryPin /\ g.read = c.read
      /\ g.seen = c.seen /\ Kept(g) = Kept(c)
      /\ g.fds = Kept(g) \cup Opened(v, c)
  BY <1>2, WorkTo
<1>5. CASE F = {} /\ D!GoOn(v, g)
  <2> HIDE DEF g, F, c
  <2>1. Opened(v, g) = Opened(v, c)
    BY <1>3, <1>4, <1>5 DEF Opened
  <2>2. Knows(v, g, journal, moved, files, fresh)
    BY <1>3, <1>4 DEF Knows, Pinning
  <2> QED
    BY <1>2, <1>3, <1>5, <2>1, <2>2, WorkMove DEF c, g
<1>6. CASE F # {} /\ D!GoOn(v, q)
  <2>1. c.seen = c.read /\ c.seen # 0
    BY <1>1, <1>3, <1>6 DEF Knows
  <2>2. t \in BOOLEAN /\ F \subseteq c.fds
    OBVIOUS
  <2>3. D!GoOn(v, q)
    BY <1>6
  <2> DEFINE S == (g.fds \ F) \cup {"artifact"}
  <2>4. q = [g EXCEPT !.fds = S, !.temporaryPin = g.seen, !.published = t]
    OBVIOUS
  <2>5. Kept(c) \cap F = {}
    BY <1>3 DEF D!Places
  <2> HIDE DEF g, F, t, q
  <2>6. S \in SUBSET Descriptors
    BY <1>4 DEF Capability, Descriptors
  <2> HIDE DEF S
  <2>7. /\ q \in Capability /\ q.pc = g.pc /\ q.pins = g.pins
        /\ q.pushed = g.pushed /\ q.bound = g.bound /\ q.twice = g.twice
        /\ q.temporaryPin = g.seen /\ q.read = g.read
        /\ q.fds = S /\ q.base = g.base
    BY <1>4, <2>2, <2>4, <2>6 DEF Capability
  <2> HIDE DEF c
  <2>8. Kept(q) = Kept(g) \cup {"artifact"}
    BY <1>3, <1>4, <2>1, <2>7 DEF Kept
  <2>9. Opened(v, q) = {}
    BY <1>4, <2>7 DEF Opened
  <2>10. q.fds = Kept(q) \cup Opened(v, q)
    BY <1>3, <1>4, <2>5, <2>7, <2>8, <2>9 DEF S
  <2>11. Knows(v, q, journal, moved, files, fresh)
    BY <1>3, <1>4, <2>1, <2>7 DEF Knows, Pinning
  <2> QED
    BY <1>2, <1>3, <1>4, <2>3, <2>7, <2>10, <2>11, WorkQuiet DEF c
<1> QED
  BY <1>1, <1>2, <1>5, <1>6, FailInv DEF c

LEMMA ConfirmInv ==
  ASSUME PinInv, NEW v \in D!Workers, D!Confirm(v)
  PROVE  PinInv'
<1> DEFINE c == cap[v]
           l == CASE journal.state = "assembling" -> "resume"
                  [] journal.state \in {"verified", "publishing"} ->
                       "look_temporary"
                  [] journal.state = "published" -> "commit"
                  [] OTHER -> "clean"
           q == D!To(c, l)
<1>1. /\ c.pc = "confirm"
      /\ D!Fail(v) \/ (journal.target = c.read /\ D!GoOn(v, q))
  BY DEF D!Confirm, D!At
<1>2. /\ c.pc \in Working /\ c.pc \notin Outside
  BY <1>1 DEF Working, OfFirst, OfRecovery, OfBoth, Outside
<1>3. /\ c \in Capability /\ Knows(v, c, journal, moved, files, fresh)
      /\ journal.state # "none" /\ c.pins = journal.pins /\ v = "recovery"
      /\ Opened(v, c) = {}
  BY <1>1, <1>2, WorkingHas DEF OfRecovery, D!Workers, Opened
<1>4. CASE journal.target = c.read /\ D!GoOn(v, q)
  <2>1. /\ l \in {"resume", "look_temporary", "commit", "clean"}
        /\ l \in {"commit", "clean"} =>
             journal.state \in {"published", "committed", "cleaned"}
    BY <1>3 DEF PinInv, PinTypes, JournalStates
  <2> HIDE DEF l
  <2>2. /\ l \in Rest /\ l \in Working /\ l \notin OfFirst
    BY <2>1 DEF Rest, Working, OfFirst, OfRecovery, OfBoth
  <2>3. /\ q \in Capability /\ q.pc = l /\ q.pins = c.pins
        /\ q.temporaryPin = c.temporaryPin /\ q.read = c.read
    BY <1>2, <2>2, WorkTo
  <2>4. l \in {"commit", "clean"} =>
          [dir |-> journal.pins["target"], ino |-> journal.target] \in moved
    BY <2>1 DEF PinInv, Recorded, D!PublishedInPlace
  <2> HIDE DEF q, c
  <2>5. Opened(v, q) = Opened(v, c)
    BY <1>3, <2>1, <2>3 DEF Opened
  <2>6. c.temporaryPin \in {0, c.read}
    BY <1>1, <1>3 DEF Knows
  <2>7. Knows(v, q, journal, moved, files, fresh)
    BY <1>3, <1>4, <2>1, <2>3, <2>4, <2>6 DEF Knows, Pinning
  <2> QED
    BY <1>2, <1>3, <1>4, <2>2, <2>5, <2>7, WorkMove DEF c, q
<1> QED
  BY <1>1, <1>2, <1>4, FailInv DEF c

LEMMA ResumeInv ==
  ASSUME PinInv, NEW v \in D!Workers, D!Resume(v)
  PROVE  PinInv'
<1> DEFINE c == cap[v]
           n == D!Named(v, "temporary")
           l == IF n = 0 THEN "create" ELSE "reset"
           g == D!To(c, l)
           q == [g EXCEPT !.seen = n]
           e == D!To(c, "durable")
<1>1. /\ c.pc = "resume"
      /\ D!Fail(v) \/ D!GoOn(v, e) \/ D!GoOn(v, q)
  BY DEF D!Resume, D!At, D!AtReady
<1>2. /\ c.pc \in Working /\ c.pc \notin Outside
      /\ "durable" \in Rest /\ "durable" \in Working
      /\ "durable" \notin OfFirst
  BY <1>1 DEF Working, OfFirst, OfRecovery, OfBoth, Outside, Rest
<1>3. /\ c \in Capability /\ Knows(v, c, journal, moved, files, fresh)
      /\ journal.state # "none" /\ c.pins = journal.pins /\ v = "recovery"
      /\ Opened(v, c) = {}
  BY <1>1, <1>2, WorkingHas DEF OfRecovery, D!Workers, Opened
<1>4. c.read = journal.target /\ c.temporaryPin \in {0, journal.target}
  BY <1>1, <1>3 DEF Knows
<1>5. CASE D!GoOn(v, e)
  <2>1. /\ e \in Capability /\ e.pc = "durable" /\ e.pins = c.pins
        /\ e.temporaryPin = c.temporaryPin
    BY <1>2, WorkTo
  <2> HIDE DEF e, c
  <2>2. Opened(v, e) = Opened(v, c)
    BY <1>3, <2>1 DEF Opened
  <2>3. Knows(v, e, journal, moved, files, fresh)
    BY <1>3, <1>4, <2>1 DEF Knows, Pinning
  <2> QED
    BY <1>2, <1>3, <1>5, <2>2, <2>3, WorkMove DEF c, e
<1>6. CASE D!GoOn(v, q)
  <2>1. n \in Ids
    BY WorldIs DEF D!Names
  <2>2. l \in {"create", "reset"}
    OBVIOUS
  <2> HIDE DEF n, l
  <2>3. l \in Working /\ l \notin OfFirst
        /\ l \notin {"begin", "reopen_temporary", "reopen_final", "adopt"}
    BY <2>2 DEF Working, OfFirst, OfRecovery, OfBoth
  <2>4. /\ g \in Capability /\ g.pc = l /\ g.pins = c.pins
        /\ g.pushed = c.pushed /\ g.bound = c.bound /\ ~g.twice
        /\ g.temporaryPin = c.temporaryPin /\ g.read = c.read
        /\ g.fds = Kept(g) \cup Opened(v, c)
    BY <1>2, <2>3, WorkTo
  <2> HIDE DEF g
  <2>5. /\ q \in Capability /\ q.pc = g.pc /\ q.pins = g.pins
        /\ q.pushed = g.pushed /\ q.bound = g.bound /\ q.twice = g.twice
        /\ q.temporaryPin = g.temporaryPin /\ q.read = g.read
        /\ q.fds = g.fds /\ q.base = g.base
    BY <2>1, <2>4 DEF Capability
  <2> HIDE DEF q, c
  <2>6. Opened(v, q) = {} /\ Kept(q) = Kept(g)
    BY <2>2, <2>4, <2>5 DEF Opened, Kept
  <2>7. Knows(v, q, journal, moved, files, fresh)
    BY <1>3, <1>4, <2>2, <2>4, <2>5 DEF Knows, Pinning
  <2> QED
    BY <1>2, <1>3, <1>6, <2>3, <2>4, <2>5, <2>6, <2>7, WorkQuiet DEF c
<1> QED
  BY <1>1, <1>2, <1>5, <1>6, FailInv DEF c

LEMMA ResetTemporaryInv ==
  ASSUME PinInv, NEW v \in D!Workers, D!ResetTemporary(v)
  PROVE  PinInv'
<1> DEFINE c == cap[v]
           n == D!Named(v, "temporary")
           g == D!To(c, "record")
           f == [g EXCEPT !.seen = n]
           q == D!Take(f, "writer")
<1>1. c.pc = "reset"
  BY DEF D!ResetTemporary, D!At, D!AtReady
<1>2. /\ c.pc \in Working /\ c.pc \notin Outside /\ "record" \in Working
      /\ "record" \notin OfFirst \cup OfRecovery
  BY <1>1 DEF Working, OfFirst, OfRecovery, OfBoth, Outside
<1>3. CASE D!Fail(v)
  BY <1>2, <1>3, FailInv DEF c
<1>4. CASE ~D!Fail(v)
  <2>1. /\ c.temporaryPin # 0 /\ n # 0 /\ n = c.read
        /\ touched' = touched \cup {n} /\ D!Put(v, q)
        /\ UNCHANGED <<root, child, files, fresh, journal, moved>>
    BY <1>4 DEF D!ResetTemporary, D!Unowned, D!world
  <2>2. /\ c \in Capability /\ Opened(v, c) = {}
        /\ Knows(v, c, journal, moved, files, fresh)
        /\ journal.state # "none" /\ c.pins = journal.pins
    BY <1>1, <1>2, WorkingHas DEF Opened
  <2>3. n = journal.target /\ c.temporaryPin = journal.target
    BY <1>1, <2>1, <2>2 DEF Knows
  <2>4. n \in Ids /\ n < fresh /\ Tracked(n, files, moved)
    BY <2>1, <2>3, WorldIs DEF PinInv, Recorded, D!Names
  <2>5. /\ g \in Capability /\ g.pc = "record" /\ g.pins = c.pins
        /\ g.pushed = c.pushed /\ g.bound = c.bound /\ ~g.twice
        /\ g.temporaryPin = c.temporaryPin
        /\ g.fds = Kept(g) \cup Opened(v, c)
    BY <1>2, WorkTo
  <2> HIDE DEF g, n
  <2>6. /\ f \in Capability /\ f.pc = g.pc /\ f.pins = g.pins
        /\ f.pushed = g.pushed /\ f.bound = g.bound /\ f.twice = g.twice
        /\ f.temporaryPin = g.temporaryPin /\ f.seen = n
        /\ f.fds = g.fds /\ f.base = g.base
    BY <2>4, <2>5 DEF Capability
  <2> HIDE DEF f
  <2>7. /\ q \in Capability /\ q.pc = g.pc /\ q.pins = g.pins
        /\ q.pushed = g.pushed /\ q.bound = g.bound /\ q.twice = g.twice
        /\ q.temporaryPin = g.temporaryPin /\ q.seen = n
        /\ q.fds = g.fds \cup {"writer"} /\ q.base = g.base
    BY <2>6, TakeIs DEF Descriptors
  <2> HIDE DEF q, c
  <2>8. Opened(v, q) = {"writer"} /\ Kept(q) = Kept(g)
    BY <2>5, <2>7 DEF Opened, Kept
  <2>9. Recorded'
    BY <2>1, <2>3 DEF PinInv, Recorded, Tracked, D!PublishedInPlace
  <2>10. Knows(v, q, journal', moved', files', fresh')
    BY <2>1, <2>2, <2>3, <2>4, <2>5, <2>7 DEF Knows, Pinning
  <2>11. /\ files' \in [Objects -> [D!Names -> Ids]]
         /\ fresh' \in Nat /\ fresh' > 4
         /\ journal' \in [state: JournalStates, pins: Pins, target: Ids]
    BY <2>1 DEF PinInv, PinTypes
  <2>12. /\ q.fds = Kept(q) \cup Opened(v, q)
    BY <2>2, <2>5, <2>7, <2>8
  <2> QED
    BY <1>2, <2>1, <2>5, <2>7, <2>9, <2>10, <2>11, <2>12, WorkStep DEF c
<1> QED
  BY <1>3, <1>4

LEMMA SyncTargetInv ==
  ASSUME PinInv, NEW v \in D!Workers, D!SyncTarget(v)
  PROVE  PinInv'
<1> DEFINE c == cap[v]
           q == D!To(c, "verified")
<1>1. /\ c.pc = "durable"
      /\ D!Fail(v) \/ (c.temporaryPin # 0 /\ D!GoOn(v, q))
  BY DEF D!SyncTarget, D!At, D!AtReady
<1>2. /\ c.pc \in Working /\ c.pc \notin Outside
      /\ "verified" \in Working /\ "verified" \in Rest
      /\ "verified" \notin OfFirst \cup OfRecovery
  BY <1>1 DEF Working, OfFirst, OfRecovery, OfBoth, Outside, Rest
<1>3. /\ c \in Capability /\ Knows(v, c, journal, moved, files, fresh)
      /\ journal.state # "none" /\ c.pins = journal.pins /\ v = "recovery"
      /\ Opened(v, c) = {}
  BY <1>1, <1>2, WorkingHas DEF OfRecovery, D!Workers, Opened
<1>4. CASE c.temporaryPin # 0 /\ D!GoOn(v, q)
  <2>1. /\ q \in Capability /\ q.pc = "verified" /\ q.pins = c.pins
        /\ q.temporaryPin = c.temporaryPin
    BY <1>2, WorkTo
  <2> HIDE DEF q, c
  <2>2. Opened(v, q) = Opened(v, c)
    BY <1>3, <2>1 DEF Opened
  <2>3. Knows(v, q, journal, moved, files, fresh)
    BY <1>1, <1>3, <1>4, <2>1 DEF Knows, Pinning
  <2> QED
    BY <1>2, <1>4, <2>2, <2>3, WorkMove DEF c, q
<1> QED
  BY <1>1, <1>2, <1>4, FailInv DEF c

LEMMA SyncFoundInv ==
  ASSUME PinInv, NEW v \in D!Workers, D!SyncFound(v)
  PROVE  PinInv'
<1> DEFINE c == cap[v]
           F == c.fds \cap {"temporary", "final"}
           g == D!To(c, "intent")
           f == D!Without(g, F)
<1>1. /\ c.pc = "sync_found"
      /\ \/ D!Fail(v)
         \/ /\ c.temporaryPin # 0 /\ c.published = ("final" \in F)
            /\ \/ "final" \in F /\ D!GoOn(v, D!To(f, "ack"))
               \/ D!GoOn(v, f)
               \/ D!GoOn(v, D!To(f, "publish"))
  BY DEF D!SyncFound, D!At, D!AtReady
<1>2. /\ c.pc \in Working /\ c.pc \notin Outside /\ "intent" \in Working
      /\ {"intent", "ack", "publish"} \subseteq Working
      /\ {"intent", "ack", "publish"} \cap (OfFirst \cup OfRecovery) = {}
  BY <1>1 DEF Working, OfFirst, OfRecovery, OfBoth, Outside
<1>3. /\ c \in Capability /\ Knows(v, c, journal, moved, files, fresh)
      /\ journal.state # "none" /\ c.pins = journal.pins
      /\ Opened(v, c) = F
      /\ Kept(c) \subseteq D!Places \cup {"capability", "artifact"}
  BY <1>1, <1>2, WorkingHas DEF Opened
<1>4. /\ g \in Capability /\ g.pc = "intent" /\ ~g.ready /\ g.pins = c.pins
      /\ g.pushed = c.pushed /\ g.bound = c.bound /\ ~g.twice
      /\ g.temporaryPin = c.temporaryPin /\ g.published = c.published
      /\ g.fds = Kept(g) \cup Opened(v, c) /\ Kept(g) = Kept(c)
  BY <1>2, WorkTo
<1>5. F \in SUBSET g.fds /\ Kept(c) \cap F = {}
  BY <1>3, <1>4 DEF D!Places
<1> HIDE DEF g, F
<1>6. /\ f \in Capability /\ f.pc = g.pc /\ f.ready = g.ready
      /\ f.pins = g.pins /\ f.pushed = g.pushed /\ f.bound = g.bound
      /\ ~f.twice /\ f.temporaryPin = g.temporaryPin
      /\ f.published = g.published /\ f.fds = g.fds \ F
      /\ Kept(f) = Kept(g)
  BY <1>4, <1>5, LetGoIs
<1> HIDE DEF f, c
<1>7. f.fds = Kept(f)
  BY <1>3, <1>4, <1>5, <1>6
<1>8. ASSUME c.temporaryPin # 0
      PROVE  c.temporaryPin = journal.target /\ journal.target # 0
  BY <1>1, <1>3, <1>8 DEF Knows
<1>9. ASSUME NEW q \in Capability, D!GoOn(v, q),
             q.pc \in {"intent", "publish", "ack"}, ~q.ready,
             q.pins = f.pins, q.pushed = f.pushed, q.bound = f.bound,
             q.twice = f.twice, q.temporaryPin = f.temporaryPin,
             q.fds = f.fds, Kept(q) = Kept(f),
             q.pc = "ack" => q.published, c.temporaryPin # 0
      PROVE  PinInv'
  <2>1. Opened(v, q) = {}
    BY <1>9 DEF Opened
  <2>2. q.fds = Kept(q) \cup Opened(v, q)
    BY <1>7, <1>9, <2>1
  <2>3. Knows(v, q, journal, moved, files, fresh)
    BY <1>3, <1>4, <1>6, <1>8, <1>9 DEF Knows, Pinning
  <2>4. /\ q.pc \in Working /\ q.pc \notin OfFirst /\ q.pc \notin OfRecovery
        /\ q.pc \notin {"begin", "reopen_temporary", "reopen_final", "adopt"}
    BY <1>2, <1>9
  <2>5. /\ q.pins = c.pins /\ q.pushed = c.pushed /\ q.bound = c.bound
        /\ ~q.twice
    BY <1>4, <1>6, <1>9
  <2> QED
    BY <1>2, <1>9, <2>2, <2>3, <2>4, <2>5, WorkQuiet DEF c
<1>10. ASSUME NEW l \in {"ack", "publish"}, D!GoOn(v, D!To(f, l)),
              l = "ack" => c.published, c.temporaryPin # 0
       PROVE  PinInv'
  <2> DEFINE q == D!To(f, l)
  <2>1. l \in Outside \cup Pinning \cup Working
    BY <1>2
  <2>2. /\ q \in Capability /\ q.pc = l /\ ~q.ready
        /\ q.pins = f.pins /\ q.pushed = f.pushed /\ q.bound = f.bound
        /\ q.twice = f.twice /\ q.temporaryPin = f.temporaryPin
        /\ q.fds = f.fds /\ q.base = f.base /\ q.published = f.published
    BY <1>6, <2>1, ToIs
  <2>3. D!GoOn(v, q)
    BY <1>10
  <2> HIDE DEF q
  <2>4. Kept(q) = Kept(f)
    BY <2>2 DEF Kept
  <2> QED
    BY <1>4, <1>6, <1>9, <1>10, <2>2, <2>3, <2>4
<1>11. f.pc = "intent" /\ ~f.ready
  BY <1>4, <1>6
<1> QED
  BY <1>1, <1>2, <1>6, <1>9, <1>10, <1>11, FailInv DEF c

LEMMA RemoveChunkInv ==
  ASSUME PinInv, NEW v \in D!Workers, D!RemoveChunk(v)
  PROVE  PinInv'
<1> DEFINE c == cap[v]
           q == D!To(c, "sync_source")
<1>1. c.pc = "clean"
  BY DEF D!RemoveChunk, D!At, D!AtReady
<1>2. /\ c.pc \in Working /\ c.pc \notin Outside
      /\ "sync_source" \in Working /\ "sync_source" \in Rest
      /\ "sync_source" \notin OfFirst
  BY <1>1 DEF Working, OfFirst, OfRecovery, OfBoth, Outside, Rest
<1>3. /\ c \in Capability /\ Knows(v, c, journal, moved, files, fresh)
      /\ journal.state # "none" /\ c.pins = journal.pins /\ v = "recovery"
      /\ Opened(v, c) = {}
  BY <1>1, <1>2, WorkingHas DEF OfRecovery, D!Workers, Opened
<1>4. [dir |-> journal.pins["target"], ino |-> journal.target] \in moved
  BY <1>1, <1>3 DEF Knows
<1>5. /\ q \in Capability /\ q.pc = "sync_source" /\ q.pins = c.pins
      /\ q.pushed = c.pushed /\ q.bound = c.bound /\ ~q.twice
      /\ q.fds = Kept(q) \cup Opened(v, c)
  BY <1>2, WorkTo
<1>6. CASE D!GoOn(v, q)
  <2> HIDE DEF q, c
  <2>1. Opened(v, q) = Opened(v, c)
    BY <1>3, <1>5 DEF Opened
  <2>2. Knows(v, q, journal, moved, files, fresh)
    BY <1>3, <1>4, <1>5 DEF Knows, Pinning
  <2> QED
    BY <1>2, <1>3, <1>6, <2>1, <2>2, WorkMove DEF c, q
<1>7. CASE ~D!GoOn(v, q) /\ ~D!Fail(v)
  <2> DEFINE d == child[1]
             n == D!Named(v, "chunk")
  <2>1. /\ n = 4 /\ touched' = touched \cup {n} /\ D!Put(v, q)
        /\ files' = [files EXCEPT ![d]["chunk"] = 0]
        /\ UNCHANGED <<root, child, fresh, journal, moved>>
    BY <1>7 DEF D!RemoveChunk
  <2>2. d \in Objects
    <3>1. d # 0
      BY <2>1 DEF D!Named
    <3> QED
      BY <3>1, PinConstants, WorldIs
  <2> HIDE DEF q, c, d, n
  <2>3. "chunk" \in D!Names /\ "final" \in D!Names /\ 0 \in Ids
    BY PinConstants DEF D!Names
  <2>4. /\ files' \in [Objects -> [D!Names -> Ids]]
        /\ \A e \in Objects, m \in D!Names :
             files'[e][m] = IF e = d /\ m = "chunk" THEN 0 ELSE files[e][m]
    BY <2>1, <2>2, <2>3, FilesAt
  <2>5. fresh \in Nat /\ fresh > 4
    BY DEF PinInv, PinTypes
  <2>6. Recorded'
    <3>1. \A e \in Objects : files'[e]["final"] = files[e]["final"]
      BY <2>3, <2>4
    <3>2. journal'.target # 0 => Tracked(journal'.target, files', moved')
      BY <2>1, <3>1 DEF PinInv, Recorded, Tracked
    <3>3. \A e \in Objects, m \in D!Names : files'[e][m] < fresh
      BY <2>4, <2>5 DEF PinInv, Recorded
    <3>4. touched' \subseteq {journal.target, 4} /\ 0 \notin touched'
      BY <2>1 DEF PinInv, Recorded
    <3> QED
      BY <2>1, <3>2, <3>3, <3>4 DEF PinInv, Recorded, D!PublishedInPlace
  <2>7. Knows(v, q, journal', moved', files', fresh')
    BY <1>3, <1>4, <1>5, <2>1 DEF Knows, Pinning
  <2>8. Opened(v, q) = {}
    BY <1>5 DEF Opened
  <2>9. q.fds = Kept(q) \cup Opened(v, q)
    BY <1>3, <1>5, <2>8
  <2>10. /\ fresh' \in Nat /\ fresh' > 4
         /\ journal' \in [state: JournalStates, pins: Pins, target: Ids]
    BY <2>1 DEF PinInv, PinTypes
  <2>11. q.pc \notin {"begin", "reopen_temporary", "reopen_final", "adopt"}
    BY <1>5
  <2> QED
    BY <1>2, <1>3, <1>5, <2>1, <2>4, <2>6, <2>7, <2>9, <2>10, <2>11,
       WorkStep DEF c
<1> QED
  BY <1>2, <1>6, <1>7, FailInv DEF c

LEMMA SyncSourceInv ==
  ASSUME PinInv, NEW v \in D!Workers, D!SyncSource(v)
  PROVE  PinInv'
<1> DEFINE c == cap[v]
<1>1. c.pc = "sync_source"
  BY DEF D!SyncSource, D!At, D!AtReady
<1>2. c.pc \in Working /\ c.pc \notin Outside
  BY <1>1 DEF Working, OfRecovery, Outside
<1>3. CASE D!Fail(v)
  BY <1>2, <1>3, FailInv DEF c
<1>4. CASE ~D!Fail(v)
  <2>1. /\ journal' = [journal EXCEPT !.state = "cleaned"]
        /\ D!Put(v, D!Close(c)) /\ UNCHANGED <<D!world, touched, moved>>
    BY <1>4 DEF D!SyncSource
  <2>2. Opened(v, c) = {} /\ Knows(v, c, journal, moved, files, fresh)
    BY <1>1, <1>2, WorkingHas DEF Opened
  <2>3. [dir |-> journal.pins["target"], ino |-> journal.target] \in moved
    BY <1>1, <2>2 DEF Knows
  <2> QED
    BY <1>1, <1>2, <2>1, <2>2, <2>3, EndNotes
<1> QED
  BY <1>3, <1>4

LEMMA ThrowInv ==
  ASSUME PinInv, NEW v \in D!Workers, D!Throw(v)
  PROVE  PinInv'
BY FailInv DEF D!Throw, Outside

\* A process that dies, or a recovery that is run again, has nothing.
LEMMA EmptyInv ==
  ASSUME PinInv, NEW v \in D!Workers, NEW q \in Capability, D!Put(v, q),
         UNCHANGED <<D!world, journal, touched, moved>>,
         q.pc = "dead" \/ (q.pc = "idle" /\ v = "recovery"),
         cap[v].pc # "idle", q.pushed = {}, ~q.bound, q.fds = {}, ~q.twice,
         q.base = 0, q.temporaryPin = 0
  PROVE  PinInv'
<1>1. Pushed(v, q)
  BY DEF Pushed, Working, OfFirst, OfRecovery, OfBoth
<1>2. Accounted(v, q)
  BY DEF Accounted, Kept, Opened
<1>3. ~Owns(q)
  BY DEF Owns
<1>4. Knows(v, q, journal, moved, files, fresh)
  BY CapIs DEF Knows, Pinning, Working, OfFirst, OfRecovery, OfBoth,
               D!Workers
<1> QED
  BY <1>1, <1>2, <1>3, <1>4, PinQuiet

LEMMA UnusedIs ==
  /\ D!Unused \in Capability /\ D!Unused.pc = "idle" /\ D!Unused.pushed = {}
  /\ ~D!Unused.bound /\ D!Unused.fds = {} /\ ~D!Unused.twice
  /\ D!Unused.base = 0 /\ D!Unused.temporaryPin = 0
BY PinConstants
DEF D!Unused, D!NoPins, Capability, Outside, JournalStates, Pins

LEMMA DieInv ==
  ASSUME PinInv, NEW v \in D!Workers, D!Die(v)
  PROVE  PinInv'
<1> DEFINE u == D!Unused
           q == [u EXCEPT !.pc = "dead"]
<1>1. /\ D!Put(v, q) /\ cap[v].pc # "idle"
      /\ UNCHANGED <<D!world, journal, touched, moved>>
  BY DEF D!Die
<1>2. /\ u \in Capability /\ u.pushed = {} /\ ~u.bound /\ u.fds = {}
      /\ ~u.twice /\ u.base = 0 /\ u.temporaryPin = 0
  BY UnusedIs
<1> HIDE DEF u
<1>3. /\ q \in Capability /\ q.pc = "dead" /\ q.pushed = {} /\ ~q.bound
      /\ q.fds = {} /\ ~q.twice /\ q.base = 0 /\ q.temporaryPin = 0
  BY <1>2 DEF Capability, Outside
<1> HIDE DEF q
<1> QED
  BY <1>1, <1>3, EmptyInv

LEMMA AgainInv ==
  ASSUME PinInv, NEW v \in D!Workers, D!Again(v)
  PROVE  PinInv'
<1>1. /\ D!Put(v, D!Unused) /\ cap[v].pc # "idle" /\ v = "recovery"
      /\ UNCHANGED <<D!world, journal, touched, moved>>
  BY DEF D!Again, D!Quiet
<1> QED
  BY <1>1, UnusedIs, EmptyInv

\* Whatever is put in place of a directory or a file is new.
LEMMA DisturbInv ==
  ASSUME PinInv, D!Disturb,
         root' \in [{"source", "target"} -> Objects],
         child' \in [Objects -> Ids], files' \in [Objects -> [D!Names -> Ids]],
         \A d \in Objects, n \in D!Names :
           files'[d][n] \in {files[d][n], fresh}
  PROVE  PinInv'
<1>1. /\ fresh \in Nat /\ fresh > 4 /\ fresh' = fresh + 1
      /\ UNCHANGED <<fence, journal, cap, touched, moved>>
  BY DEF D!Disturb, PinInv, PinTypes
<1>2. ASSUME NEW n \in Nat, n < fresh, Tracked(n, files, moved)
      PROVE  Tracked(n, files', moved')
  <2>1. "final" \in D!Names
    BY DEF D!Names
  <2> QED
    BY <1>1, <1>2, <2>1, TrackedStays
<1>3. PinTypes' /\ OneOwns'
  BY <1>1 DEF PinInv, PinTypes, OneOwns
<1>4. Recorded'
  <2>1. /\ journal.target \in Nat /\ journal.target < fresh
        /\ \A d \in Objects, n \in D!Names :
             files[d][n] \in Nat /\ files[d][n] < fresh
    <3>1. /\ journal.target \in Ids /\ journal.target < fresh
          /\ \A d \in Objects, n \in D!Names :
               files[d][n] \in Ids /\ files[d][n] < fresh
      BY DEF PinInv, PinTypes, Recorded
    <3>2. Ids \subseteq Nat
      BY PinConstants
    <3> QED
      BY <3>1, <3>2
  <2>2. journal.target # 0 => Tracked(journal.target, files', moved')
    BY <1>2, <2>1 DEF PinInv, Recorded
  <2>3. \A d \in Objects, n \in D!Names : files'[d][n] < fresh'
    BY <1>1, <2>1
  <2> QED
    BY <1>1, <2>1, <2>2, <2>3 DEF PinInv, Recorded, D!PublishedInPlace
<1>5. ASSUME NEW v \in D!Workers
      PROVE  Knows(v, cap[v], journal, moved, files', fresh')
  <2>1. /\ Knows(v, cap[v], journal, moved, files, fresh)
        /\ cap[v].seen \in Nat
    BY CapIs, PinConstants DEF Capability
  <2>2. cap[v].seen < fresh => cap[v].seen < fresh'
    BY <1>1, <2>1
  <2>3. cap[v].seen < fresh /\ Tracked(cap[v].seen, files, moved) =>
          Tracked(cap[v].seen, files', moved)
    BY <1>1, <1>2, <2>1
  <2> QED
    BY <2>1, <2>2, <2>3 DEF Knows
<1> QED
  BY <1>1, <1>3, <1>4, <1>5 DEF PinInv

LEMMA WorldInv ==
  ASSUME PinInv, D!World
  PROVE  PinInv'
<1>1. /\ root \in [{"source", "target"} -> Objects]
      /\ child \in [Objects -> Ids] /\ files \in [Objects -> [D!Names -> Ids]]
      /\ \A i \in Objects : i \in Ids
  BY DEF PinInv, PinTypes, Ids
<1>2. ASSUME NEW x \in {"source", "target"}, D!ReplaceRoot(x)
      PROVE  PinInv'
  <2>1. D!Disturb /\ fresh \in Objects /\ files' = files
    BY <1>2 DEF D!ReplaceRoot, D!Disturb
  <2>2. root' \in [{"source", "target"} -> Objects]
    BY <1>1, <1>2, <2>1 DEF D!ReplaceRoot
  <2>3. child' \in [Objects -> Ids]
    <3>1. PICK i \in Ids : child' = [child EXCEPT ![fresh] = i]
      <4>1. child[root[x]] \in Ids /\ 0 \in Ids
        BY <1>1, PinConstants
      <4> QED
        BY <1>2, <4>1 DEF D!ReplaceRoot
    <3> QED
      BY <1>1, <3>1
  <2> QED
    BY <1>1, <2>1, <2>2, <2>3, DisturbInv
<1>3. ASSUME NEW x \in {"source", "target"}, D!ReplaceDirectory(x)
      PROVE  PinInv'
  <2>1. D!Disturb /\ fresh \in Objects /\ files' = files /\ root' = root
        /\ child' = [child EXCEPT ![root[x]] = fresh]
    BY <1>3 DEF D!ReplaceDirectory, D!Disturb
  <2>2. child' \in [Objects -> Ids]
    BY <1>1, <2>1
  <2> QED
    BY <1>1, <2>1, <2>2, DisturbInv
<1>4. ASSUME NEW x \in {"source", "target"}, NEW n \in D!Names,
             D!ReplaceFile(x, n)
      PROVE  PinInv'
  <2> DEFINE d == child[root[x]]
  <2>1. D!Disturb /\ fresh \in Objects /\ child' = child /\ root' = root
        /\ files' = [files EXCEPT ![d][n] = fresh] /\ d # 0
    BY <1>4 DEF D!ReplaceFile, D!Disturb
  <2>2. d \in Objects
    BY <1>1, <2>1, PinConstants
  <2> HIDE DEF d
  <2>3. /\ files' \in [Objects -> [D!Names -> Ids]]
        /\ \A e \in Objects, m \in D!Names :
             files'[e][m] = IF e = d /\ m = n THEN fresh ELSE files[e][m]
    BY <1>1, <2>1, <2>2, FilesAt
  <2> QED
    BY <1>1, <2>1, <2>3, DisturbInv
<1> QED
  BY <1>2, <1>3, <1>4 DEF D!World, D!Names

LEMMA InitPins == D!Init => PinInv
<1> SUFFICES ASSUME D!Init PROVE PinInv
  OBVIOUS
<1> USE DEF D!Init
<1>1. {1, 2, 3, 4} \subseteq Objects /\ 0 \in Ids
      /\ \A i \in Objects : i \in Ids /\ i # 0
  BY PinConstants DEF Ids
<1>2. \A v \in D!Workers : cap[v] = D!Unused
  OBVIOUS
<1>3. PinTypes
  <2>1. /\ root \in [{"source", "target"} -> Objects]
        /\ child \in [Objects -> Ids]
        /\ files \in [Objects -> [D!Names -> Ids]]
    BY <1>1
  <2>2. /\ fresh \in Nat /\ fresh > 4
        /\ fence \in [Objects -> SUBSET D!Workers]
    OBVIOUS
  <2>3. journal \in [state: JournalStates, pins: Pins, target: Ids]
    BY <1>1 DEF JournalStates, Pins, D!NoPins
  <2>4. cap \in [D!Workers -> Capability]
    BY UnusedIs
  <2> QED
    BY <2>1, <2>2, <2>3, <2>4 DEF PinTypes
<1>4. /\ journal.state = "none" /\ journal.target = 0 /\ fresh = 5
      /\ touched = {} /\ moved = {}
  OBVIOUS
<1>5. \A d \in Objects, n \in D!Names : files[d][n] \in {0, 4}
  OBVIOUS
<1> USE DEF D!Init
<1>6. Recorded
  BY <1>4, <1>5 DEF Recorded, D!PublishedInPlace
<1>7. OneOwns
  BY <1>2, UnusedIs DEF OneOwns, Owns
<1>8. ASSUME NEW v \in D!Workers
      PROVE  /\ Pushed(v, D!Unused) /\ Accounted(v, D!Unused)
             /\ Knows(v, D!Unused, journal, moved, files, fresh)
  <2>1. Pushed(v, D!Unused)
    BY UnusedIs DEF Pushed, Working, OfFirst, OfRecovery, OfBoth
  <2>2. Accounted(v, D!Unused)
    BY UnusedIs DEF Accounted, Kept, Opened
  <2>3. Knows(v, D!Unused, journal, moved, files, fresh)
    BY <1>4, UnusedIs DEF Knows, Pinning, Working, OfFirst, OfRecovery, OfBoth
  <2> QED
    BY <2>1, <2>2, <2>3
<1> QED
  BY <1>2, <1>3, <1>6, <1>7, <1>8 DEF PinInv

LEMMA NextPins == PinInv /\ [D!Next]_(D!vars) => PinInv'
<1> SUFFICES ASSUME PinInv, [D!Next]_(D!vars) PROVE PinInv'
  OBVIOUS
<1>1. CASE UNCHANGED D!vars
  BY <1>1
  DEF D!vars, PinInv, PinTypes, OneOwns, Recorded, D!PublishedInPlace
<1>2. CASE D!World
  BY <1>2, WorldInv
<1>3. ASSUME NEW v \in D!Workers, D!Acquire(v) PROVE PinInv'
  BY <1>3, StartInv, PinStatInv, PinOpenInv, PinCheckInv, LockInv,
     OpenTargetInv, BaseInv, MkdirInv, BindInv DEF D!Acquire
<1>4. ASSUME NEW v \in D!Workers, D!Operate(v) PROVE PinInv'
  BY <1>4, AssertInv, BeginInv, CreateInv, AnchorInv, SyncCreatedInv,
     RecordInv, VerifiedInv, OpenMetadataInv, CloseWriterInv, IntentInv,
     PublishInv, AckInv, CommitInv DEF D!Operate
<1>5. ASSUME NEW v \in D!Workers, D!Recover(v) PROVE PinInv'
  <2>1. ASSUME D!Reopen(v) PROVE PinInv'
    BY <2>1, InspectInv DEF D!Reopen, Finds
  <2>2. ASSUME D!Look(v) PROVE PinInv'
    BY <2>2, InspectInv DEF D!Look, Finds
  <2> QED
    BY <1>5, <2>1, <2>2, AdoptInv, ConfirmInv, ResumeInv, ResetTemporaryInv,
       SyncTargetInv, SyncFoundInv, RemoveChunkInv, SyncSourceInv
    DEF D!Recover
<1>6. ASSUME NEW v \in D!Workers, D!Throw(v) \/ D!Die(v) \/ D!Again(v)
      PROVE  PinInv'
  BY <1>6, ThrowInv, DieInv, AgainInv
<1> QED
  BY <1>1, <1>2, <1>3, <1>4, <1>5, <1>6 DEF D!Next

\* A worker that is bound owns the source root and is past its begin when the
\* journal has its operation.
LEMMA PinsMean == PinInv => FinalizationPinned
<1> SUFFICES ASSUME PinInv PROVE FinalizationPinned
  OBVIOUS
<1>1. ASSUME NEW v \in D!Workers, cap[v].bound
      PROVE  /\ cap[v].pc \in Working /\ Owns(cap[v])
             /\ journal.state # "none" => cap[v].pins = journal.pins
  <2>1. cap[v].pc \in Working
    BY <1>1, CapIs DEF Pushed
  <2>2. v = "recovery" => cap[v].pc # "begin"
    BY <2>1, WorkingHas DEF OfFirst
  <2>3. v = "first" /\ cap[v].pc = "begin" => journal.state = "none"
    BY <2>1, WorkingHas DEF Knows
  <2> QED
    BY <2>1, <2>2, <2>3, WorkingHas DEF D!Workers
<1>2. D!OneOwner
  <2>1. "first" \in D!Workers /\ "recovery" \in D!Workers
    BY DEF D!Workers
  <2>2. {"first"} # {"recovery"}
    OBVIOUS
  <2> QED
    BY <1>1, <2>1, <2>2 DEF D!OneOwner, PinInv, OneOwns
<1>3. D!BoundAsJournalled
  BY <1>1 DEF D!BoundAsJournalled
<1>4. D!PublishedInPlace /\ D!TouchesItsOwn
  BY DEF PinInv, Recorded, D!TouchesItsOwn
<1>5. D!ClosesEach
  BY CapIs DEF D!ClosesEach, Accounted
<1> QED
  BY <1>2, <1>3, <1>4, <1>5 DEF FinalizationPinned

\* However a finalization ends, at whatever call it fails, its process dies or
\* a directory or file is replaced under it: it has one worker, in the
\* directories of its journal, what the journal calls published was renamed in
\* place, nothing else is truncated or unlinked, and each descriptor is closed
\* once (ssd-finalization-filesystem.ts).
THEOREM PinsHold == D!Spec => []FinalizationPinned
<1>1. D!Spec => []PinInv
  BY InitPins, NextPins, PTL DEF D!Spec
<1> QED
  BY <1>1, PinsMean, PTL
=============================================================================
