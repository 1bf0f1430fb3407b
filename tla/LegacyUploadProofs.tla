------------------------ MODULE LegacyUploadProofs ------------------------
(***************************************************************************)
(* LegacyUpload keeps its inductive invariant IInv, for any number of      *)
(* sessions, handlers, chunks, attempts and faults.                        *)
(*                                                                         *)
(* The proof has one pair of lemmas for every action A of the module:      *)
(*   AStep   A keeps the types, and says what the handler that took it is  *)
(*           left with, in the vocabulary below;                           *)
(*   AInv    A keeps each conjunct of IInv, one step per conjunct, from    *)
(*           AStep and the conjuncts that step depends on.                 *)
(* InitInv, StutterInv and NextInv put them together, and the theorems     *)
(* follow.  The last part is about the upload as its owner sees it: what   *)
(* a step does to it, PublishesRecordedBytes and KeepsPromise.             *)
(***************************************************************************)
EXTENDS LegacyUpload, FiniteSetTheorems, TLAPS

\* Handlers other than p are where they were.
Others(p)  == \A q \in Procs : q # p => w'[q] = w[q]
\* p goes on to l with the same request in hand.
Work(p, l) == /\ w'[p].op = w[p].op /\ w'[p].s = w[p].s /\ w'[p].att = w[p].att
              /\ w'[p].i = w[p].i /\ w'[p].c = w[p].c /\ w'[p].pc = l
\* What p read during a cleanup is still what it holds.
View(p)    == /\ w'[p].seen = w[p].seen /\ w'[p].cur = w[p].cur
              /\ w'[p].comm = w[p].comm
\* p keeps its connection and the rows it has read.
Same(p)    == /\ w'[p].conn = w[p].conn /\ w'[p].buf = w[p].buf
              /\ w'[p].hit = w[p].hit
\* p has answered.
AtRest(p)  == /\ w'[p] = Idle /\ w'[p].op = "idle" /\ w'[p].pc = "idle"
              /\ w'[p].s = None /\ w'[p].conn = FALSE /\ w'[p].seen = {}
              /\ w'[p].hit = FALSE
\* p has taken up operation o on session s.
Started(p, o, l, s) ==
              /\ w'[p].op = o /\ w'[p].pc = l /\ w'[p].s = s
              /\ w'[p].conn = TRUE /\ w'[p].seen = {}

\* What ConstantsAssumption says of the attempts and of the special values.
LEMMA Consts ==
  /\ Attempts \subseteq Nat /\ Attempts \subseteq Keys /\ 0 \notin Attempts
  /\ 0 \in Keys /\ None \notin Keys /\ Deleted \notin Keys /\ None # Deleted
  /\ None \notin Sessions /\ None \notin Bodies /\ None \notin Contents
  /\ Timer \in Procs /\ Handlers \subseteq Procs
  BY ConstantsAssumption DEF Attempts, Keys, Procs

\* What the type invariant says of a handler.
LEMMA Typed ==
  ASSUME TypeOK
  PROVE  \A p \in Procs : /\ w[p] \in Handler /\ w[p].seen \subseteq Attempts
                          /\ w[p].att \in Keys /\ w[p].buf \in Rows
  BY DEF TypeOK, Handler

\* A handler at rest, and the rows of an empty session, are well typed.
LEMMA IdleHandler == Idle \in Handler /\ NoRows \in Rows
  BY ConstantsAssumption DEF Idle, Handler, NoRows, Rows, Keys, Labels

\* Rows without a gap are a body.
LEMMA WholeRows ==
  \A r \in Rows : (\A i \in Chunks : r[i] # None) => r \in Bodies
  BY DEF Rows, Bodies

\* A step that only moves the program counter leaves the rest of it alone.
LEMMA GotoFacts ==
  ASSUME w \in [Procs -> Handler], NEW p \in Procs, NEW l \in Labels, Goto(p, l)
  PROVE  /\ w' \in [Procs -> Handler]
         /\ Others(p) /\ Work(p, l) /\ View(p) /\ Same(p)
  BY DEF Goto, Others, Work, View, Same, Handler

\* A step that only drops the connection leaves the request in hand.
LEMMA DropFacts ==
  ASSUME w \in [Procs -> Handler], NEW p \in Procs,
         w' = [w EXCEPT ![p].conn = FALSE]
  PROVE  /\ w' \in [Procs -> Handler]
         /\ Others(p) /\ Work(p, w[p].pc) /\ View(p)
         /\ w'[p].buf = w[p].buf /\ w'[p].hit = w[p].hit
         /\ w'[p].conn = FALSE
<1>1. w[p] \in Handler OBVIOUS
<1>2. w'[p] = [w[p] EXCEPT !.conn = FALSE] OBVIOUS
<1>3. \A q \in Procs : q # p => w'[q] = w[q] OBVIOUS
<1>4. w'[p] \in Handler BY <1>1, <1>2 DEF Handler
<1>5. w' \in [Procs -> Handler] BY <1>3, <1>4
<1>6. /\ w'[p].op = w[p].op /\ w'[p].s = w[p].s /\ w'[p].att = w[p].att
      /\ w'[p].i = w[p].i /\ w'[p].c = w[p].c /\ w'[p].pc = w[p].pc
      /\ w'[p].seen = w[p].seen /\ w'[p].cur = w[p].cur
      /\ w'[p].comm = w[p].comm
      /\ w'[p].buf = w[p].buf /\ w'[p].hit = w[p].hit
      /\ w'[p].conn = FALSE
  BY <1>1, <1>2 DEF Handler
<1> QED BY <1>3, <1>5, <1>6 DEF Others, Work, View

\* A step that ends a request leaves its handler at rest.
LEMMA StopFacts ==
  ASSUME w \in [Procs -> Handler], NEW p \in Procs, Stop(p)
  PROVE  w' \in [Procs -> Handler] /\ Others(p) /\ AtRest(p)
  BY IdleHandler DEF Stop, Others, AtRest, Idle

\* CreateUploadSession's row: the types, and what its handler is left with.
LEMMA CreateStep ==
  ASSUME TypeOK, InvWork, InvDrawn, NEW p \in Procs, NEW s \in Sessions,
         Create(p, s)
  PROVE  /\ TypeOK'
         /\ Others(p)
         /\ Started(p, "create", "mkdir", s)
         /\ w'[p].hit = FALSE
<1>b. /\ Begin("create", "mkdir", s) \in Handler
      /\ Begin("create", "mkdir", s).op = "create"
      /\ Begin("create", "mkdir", s).pc = "mkdir"
      /\ Begin("create", "mkdir", s).s = s
      /\ Begin("create", "mkdir", s).conn = TRUE
      /\ Begin("create", "mkdir", s).seen = {}
      /\ Begin("create", "mkdir", s).hit = FALSE
  BY IdleHandler DEF Begin, Idle, Handler, FencedOps, Labels
<1>w. /\ w' \in [Procs -> Handler]
      /\ Others(p)
      /\ Started(p, "create", "mkdir", s)
      /\ w'[p].hit = FALSE
  BY <1>b, Consts DEF Create, Others, Started, TypeOK
<1>1. status' \in [Sessions -> Statuses]
  BY Consts, IdleHandler DEF TypeOK, Create, Statuses
<1>2. hydrated' \subseteq Sessions BY Consts, IdleHandler DEF TypeOK, Create
<1> QED BY <1>w, <1>1, <1>2 DEF TypeOK, dbVars, fsVars, envVars, Create

\* The directory of a new session:
\* the types, and what its handler is left with.
LEMMA MkdirStep ==
  ASSUME TypeOK, InvWork, InvDrawn, NEW p \in Procs, Mkdir(p)
  PROVE  /\ TypeOK'
         /\ Others(p)
         /\ AtRest(p)
<1>s. w[p].s \in Sessions /\ w[p] \in Handler
         /\ w \in [Procs -> Handler]
  BY DEF Mkdir, At, InvWork, TypeOK, CleanupLabels
<1>w. /\ w' \in [Procs -> Handler]
      /\ Others(p)
      /\ AtRest(p)
  BY <1>s, StopFacts DEF Mkdir
<1>1. dir' \in [Sessions -> BOOLEAN]
  BY <1>s, Consts, IdleHandler DEF TypeOK, Mkdir
<1> QED BY <1>w, <1>1 DEF TypeOK, dbVars, fsVars, envVars, Mkdir

\* A creation that fails: the types, and what its handler is left with.
LEMMA MkdirFailsStep ==
  ASSUME TypeOK, InvWork, InvDrawn, NEW p \in Procs, MkdirFails(p)
  PROVE  /\ TypeOK'
         /\ Others(p)
         /\ AtRest(p)
<1>s. w[p].s \in Sessions /\ w[p] \in Handler
         /\ w \in [Procs -> Handler]
  BY DEF MkdirFails, At, InvWork, TypeOK, CleanupLabels
<1>w. /\ w' \in [Procs -> Handler]
      /\ Others(p)
      /\ AtRest(p)
  BY <1>s, StopFacts DEF MkdirFails
<1>1. status' \in [Sessions -> Statuses]
  BY <1>s, Consts, IdleHandler DEF TypeOK, MkdirFails, Statuses
<1>2. rec' \in [Sessions -> Rows]
  BY <1>s, Consts, IdleHandler DEF TypeOK, MkdirFails
<1> QED BY <1>w, <1>1, <1>2 DEF TypeOK, dbVars, fsVars, envVars, MkdirFails

\* The checks of a chunk: the types, and what its handler is left with.
LEMMA ChunkBeginStep ==
  ASSUME TypeOK, InvWork, InvDrawn, NEW p \in Procs, NEW s \in Sessions,
         NEW i \in Chunks, NEW c \in Contents, ChunkBegin(p, s, i, c)
  PROVE  /\ TypeOK'
         /\ Others(p)
         /\ Started(p, "chunk", "rename", s)
         /\ w'[p].hit <=> disk[s][i] = c
         /\ w'[p].i = i
         /\ w'[p].c = c
<1>b. /\ Begin("chunk", "rename", s) \in Handler
      /\ Begin("chunk", "rename", s).op = "chunk"
      /\ Begin("chunk", "rename", s).pc = "rename"
      /\ Begin("chunk", "rename", s).s = s
      /\ Begin("chunk", "rename", s).conn = TRUE
      /\ Begin("chunk", "rename", s).seen = {}
      /\ Begin("chunk", "rename", s).hit = FALSE
  BY IdleHandler DEF Begin, Idle, Handler, FencedOps, Labels
<1>c. HydratedRows(s) \in Rows BY DEF HydratedRows, TypeOK
<1>d. w'[p] = [Begin("chunk", "rename", s) EXCEPT !.buf = HydratedRows(s),
                 !.i = i, !.c = c, !.hit = (disk[s][i] = c)]
  BY DEF ChunkBegin, TypeOK
<1>e. w'[p] \in Handler BY ZenonT(120), <1>b, <1>c, <1>d DEF Handler
<1>w. /\ w' \in [Procs -> Handler]
      /\ Others(p)
      /\ Started(p, "chunk", "rename", s)
      /\ w'[p].hit <=> disk[s][i] = c
      /\ w'[p].i = i
      /\ w'[p].c = c
  BY <1>b, Consts, <1>c, <1>d, <1>e
  DEF ChunkBegin, Others, Started, TypeOK, Handler
<1> QED BY <1>w DEF TypeOK, dbVars, fsVars, envVars, ChunkBegin

\* The rename of a chunk file: the types, and what its handler is left with.
LEMMA ChunkRenameStep ==
  ASSUME TypeOK, InvWork, InvDrawn, NEW p \in Procs, ChunkRename(p)
  PROVE  /\ TypeOK'
         /\ Others(p)
         /\ Work(p, "rows")
         /\ View(p)
         /\ Same(p)
<1>s. w[p].s \in Sessions /\ w[p] \in Handler
         /\ w \in [Procs -> Handler]
  BY DEF ChunkRename, At, InvWork, TypeOK, CleanupLabels
<1>w. /\ w' \in [Procs -> Handler]
      /\ Others(p)
      /\ Work(p, "rows")
      /\ View(p)
      /\ Same(p)
  BY <1>s, GotoFacts DEF ChunkRename, Labels
<1>1. disk' \in [Sessions -> Rows]
  BY <1>s, Consts, IdleHandler DEF TypeOK, ChunkRename, InvWork, At, Rows
<1> QED BY <1>w, <1>1 DEF TypeOK, dbVars, fsVars, envVars, ChunkRename

\* The checks of a reconciliation:
\* the types, and what its handler is left with.
LEMMA ReconcileBeginStep ==
  ASSUME TypeOK, InvWork, InvDrawn, NEW p \in Procs, NEW s \in Sessions,
         ReconcileBegin(p, s)
  PROVE  /\ TypeOK'
         /\ Others(p)
         /\ Started(p, "reconcile", "rows", s)
         /\ w'[p].hit = FALSE
<1>b. /\ Begin("reconcile", "rows", s) \in Handler
      /\ Begin("reconcile", "rows", s).op = "reconcile"
      /\ Begin("reconcile", "rows", s).pc = "rows"
      /\ Begin("reconcile", "rows", s).s = s
      /\ Begin("reconcile", "rows", s).conn = TRUE
      /\ Begin("reconcile", "rows", s).seen = {}
      /\ Begin("reconcile", "rows", s).hit = FALSE
  BY IdleHandler DEF Begin, Idle, Handler, FencedOps, Labels
<1>c. HydratedRows(s) \in Rows BY DEF HydratedRows, TypeOK
<1>w. /\ w' \in [Procs -> Handler]
      /\ Others(p)
      /\ Started(p, "reconcile", "rows", s)
      /\ w'[p].hit = FALSE
  BY ZenonT(120), <1>b, Consts, <1>c DEF ReconcileBegin, Others, Started,
     TypeOK, Handler
<1> QED BY <1>w DEF TypeOK, dbVars, fsVars, envVars, ReconcileBegin

\* The COMMIT of chunk rows: the types, and what its handler is left with.
LEMMA RowsCommitStep ==
  ASSUME TypeOK, InvWork, InvDrawn, NEW p \in Procs, RowsCommit(p)
  PROVE  /\ TypeOK'
         /\ Others(p)
         /\ AtRest(p)
<1>s. w[p].s \in Sessions /\ w[p] \in Handler
         /\ w \in [Procs -> Handler]
  BY DEF RowsCommit, At, InvWork, TypeOK, CleanupLabels
<1>w. /\ w' \in [Procs -> Handler]
      /\ Others(p)
      /\ AtRest(p)
  BY <1>s, StopFacts DEF RowsCommit
<1>1. status' \in [Sessions -> Statuses]
  BY <1>s, Consts, IdleHandler DEF TypeOK, RowsCommit, Statuses
<1>2. rec' \in [Sessions -> Rows]
  BY <1>s, Consts, IdleHandler DEF TypeOK, RowsCommit, InvWork, Rows, Handler
<1>3. hydrated' \subseteq Sessions
  BY <1>s, Consts, IdleHandler DEF TypeOK, RowsCommit
<1> QED
  BY <1>w, <1>1, <1>2, <1>3 DEF TypeOK, dbVars, fsVars, envVars, RowsCommit

\* Cleanup's listing: the types, and what its handler is left with.
LEMMA ListStep ==
  ASSUME TypeOK, InvWork, InvDrawn, NEW p \in Procs, List(p)
  PROVE  /\ TypeOK'
         /\ Others(p)
         /\ Work(p, "query")
         /\ Same(p)
         /\ w'[p].seen = marker[w[p].s]
<1>s. w[p].s \in Sessions /\ w[p] \in Handler
         /\ w \in [Procs -> Handler]
  BY DEF List, At, InvWork, TypeOK, CleanupLabels
<1>h. marker[w[p].s] \in SUBSET Attempts
  BY <1>s, Consts DEF TypeOK, Rows, Handler, List
<1>w. /\ w' \in [Procs -> Handler]
      /\ Others(p)
      /\ Work(p, "query")
      /\ Same(p)
      /\ w'[p].seen = marker[w[p].s]
  BY ZenonT(120), <1>s, <1>h DEF List, Others, Work, View, Same, Handler,
     Labels, TypeOK
<1> QED BY <1>w DEF TypeOK, dbVars, fsVars, envVars, List

\* Cleanup's question for the committed File:
\* the types, and what its handler is left with.
LEMMA QueryStep ==
  ASSUME TypeOK, InvWork, InvDrawn, NEW p \in Procs, Query(p)
  PROVE  /\ TypeOK'
         /\ Others(p)
         /\ Work(p, "unlink")
         /\ Same(p)
         /\ w'[p].seen = w[p].seen
         /\ w'[p].comm = file[w[p].s]
<1>s. w[p].s \in Sessions /\ w[p] \in Handler
         /\ w \in [Procs -> Handler]
  BY DEF Query, At, InvWork, TypeOK, CleanupLabels
<1>h. file[w[p].s] \in Keys \cup {None, Deleted}
  BY <1>s, Consts DEF TypeOK, Rows, Handler, Query
<1>w. /\ w' \in [Procs -> Handler]
      /\ Others(p)
      /\ Work(p, "unlink")
      /\ Same(p)
      /\ w'[p].seen = w[p].seen
      /\ w'[p].comm = file[w[p].s]
  BY ZenonT(120), <1>s, <1>h DEF Query, Others, Work, View, Same, Handler,
     Labels, TypeOK
<1> QED BY <1>w DEF TypeOK, dbVars, fsVars, envVars, Query

\* Cleanup's removal of an object:
\* the types, and what its handler is left with.
LEMMA UnlinkStep ==
  ASSUME TypeOK, InvWork, InvDrawn, NEW p \in Procs, NEW a \in Attempts,
         Unlink(p, a)
  PROVE  /\ TypeOK'
         /\ Others(p)
         /\ Work(p, "unmark")
         /\ Same(p)
         /\ w'[p].seen = w[p].seen
         /\ w'[p].comm = w[p].comm
         /\ w'[p].cur = a
<1>s. w[p].s \in Sessions /\ w[p] \in Handler
         /\ w \in [Procs -> Handler]
  BY DEF Unlink, At, InvWork, TypeOK, CleanupLabels
<1>h. a \in Keys BY <1>s, Consts DEF TypeOK, Rows, Handler, Unlink
<1>w. /\ w' \in [Procs -> Handler]
      /\ Others(p)
      /\ Work(p, "unmark")
      /\ Same(p)
      /\ w'[p].seen = w[p].seen
      /\ w'[p].comm = w[p].comm
      /\ w'[p].cur = a
  BY ZenonT(120), <1>s, <1>h DEF Unlink, Others, Work, View, Same, Handler,
     Labels, TypeOK
<1>1. obj' \in [Sessions -> [Keys -> Bodies \cup {None}]]
  BY <1>s, Consts, IdleHandler DEF TypeOK, Unlink
<1> QED BY <1>w, <1>1 DEF TypeOK, dbVars, fsVars, envVars, Unlink

\* Cleanup's removal of an assembly file:
\* the types, and what its handler is left with.
LEMMA UnmarkStep ==
  ASSUME TypeOK, InvWork, InvDrawn, NEW p \in Procs, Unmark(p)
  PROVE  /\ TypeOK'
         /\ Others(p)
         /\ Work(p, "unlink")
         /\ Same(p)
         /\ w'[p].seen = w[p].seen \ {w[p].cur}
         /\ w'[p].comm = w[p].comm
<1>s. w[p].s \in Sessions /\ w[p] \in Handler
         /\ w \in [Procs -> Handler]
  BY DEF Unmark, At, InvWork, TypeOK, CleanupLabels
<1>h. (w[p].seen \ {w[p].cur}) \subseteq Attempts
  BY <1>s, Consts DEF TypeOK, Rows, Handler, Unmark
<1>w. /\ w' \in [Procs -> Handler]
      /\ Others(p)
      /\ Work(p, "unlink")
      /\ Same(p)
      /\ w'[p].seen = w[p].seen \ {w[p].cur}
      /\ w'[p].comm = w[p].comm
  BY ZenonT(120), <1>s, <1>h DEF Unmark, Others, Work, View, Same, Handler,
     Labels, TypeOK
<1>1. marker' \in [Sessions -> SUBSET Attempts]
  BY <1>s, Consts, IdleHandler DEF TypeOK, Unmark
<1> QED BY <1>w, <1>1 DEF TypeOK, dbVars, fsVars, envVars, Unmark

\* The end of a cleanup: the types, and what its handler is left with.
LEMMA CleanupDoneStep ==
  ASSUME TypeOK, InvWork, InvDrawn, NEW p \in Procs, CleanupDone(p)
  PROVE  /\ TypeOK'
         /\ Others(p)
         /\ Work(p, AfterCleanup(p))
         /\ View(p)
         /\ Same(p)
<1>s. w[p].s \in Sessions /\ w[p] \in Handler
         /\ w \in [Procs -> Handler]
  BY DEF CleanupDone, At, InvWork, TypeOK, CleanupLabels
<1>w. /\ w' \in [Procs -> Handler]
      /\ Others(p)
      /\ Work(p, AfterCleanup(p))
      /\ View(p)
      /\ Same(p)
  BY <1>s, GotoFacts DEF CleanupDone, Labels, AfterCleanup
<1>1. obj' \in [Sessions -> [Keys -> Bodies \cup {None}]]
  BY <1>s, Consts, IdleHandler DEF TypeOK, CleanupDone
<1> QED BY <1>w, <1>1 DEF TypeOK, dbVars, fsVars, envVars, CleanupDone

\* The fence and the checks of a completion:
\* the types, and what its handler is left with.
LEMMA CompleteBeginStep ==
  ASSUME TypeOK, InvWork, InvDrawn, NEW p \in Procs, NEW s \in Sessions,
         CompleteBegin(p, s)
  PROVE  /\ TypeOK'
         /\ Others(p)
         /\ w'[p].hit = FALSE
         /\ \/ /\ Started(p, "complete", "list", s)
               /\ w'[p].att = next[s] /\ w'[p].buf = NoRows
               /\ next' = [next EXCEPT ![s] = @ + 1] /\ next[s] \in Attempts
            \/ Started(p, "replay", "list", s) /\ next' = next
<1>b. /\ Begin("complete", "list", s) \in Handler
      /\ Begin("complete", "list", s).op = "complete"
      /\ Begin("complete", "list", s).pc = "list"
      /\ Begin("complete", "list", s).s = s
      /\ Begin("complete", "list", s).conn = TRUE
      /\ Begin("complete", "list", s).seen = {}
      /\ Begin("complete", "list", s).hit = FALSE
      /\ Begin("complete", "list", s).att = 0
      /\ Begin("complete", "list", s).buf = NoRows
      /\ Begin("replay", "list", s) \in Handler
      /\ Begin("replay", "list", s).op = "replay"
      /\ Begin("replay", "list", s).pc = "list"
      /\ Begin("replay", "list", s).s = s
      /\ Begin("replay", "list", s).conn = TRUE
      /\ Begin("replay", "list", s).seen = {}
      /\ Begin("replay", "list", s).hit = FALSE
  BY IdleHandler DEF Begin, Idle, Handler, FencedOps, PublishOps, Labels
<1>c. next[s] \in Attempts
  BY ConstantsAssumption DEF CompleteBegin, TypeOK, Attempts
<1>d. [Begin("complete", "list", s) EXCEPT !.att = next[s]] \in Handler
  BY <1>b, <1>c, Consts DEF Handler
<1>w. /\ w' \in [Procs -> Handler]
      /\ Others(p)
      /\ w'[p].hit = FALSE
      /\ \/ /\ Started(p, "complete", "list", s)
            /\ w'[p].att = next[s] /\ w'[p].buf = NoRows
            /\ next' = [next EXCEPT ![s] = @ + 1] /\ next[s] \in Attempts
         \/ Started(p, "replay", "list", s) /\ next' = next
  <2>1. CASE /\ w' = [w EXCEPT ![p] = [Begin("complete", "list", s) EXCEPT
                                        !.att = next[s]]]
             /\ next' = [next EXCEPT ![s] = @ + 1]
    BY SMTT(120), <2>1, <1>b, <1>c, <1>d DEF Others, Started, TypeOK, Handler
  <2>2. CASE /\ w' = [w EXCEPT ![p] = Begin("replay", "list", s)]
             /\ next' = next
    BY <2>2, <1>b DEF Others, Started, TypeOK
  <2> QED BY <2>1, <2>2 DEF CompleteBegin
<1>1. next' \in [Sessions -> Nat \ {0}]
  BY Consts, IdleHandler DEF TypeOK, CompleteBegin
<1> QED BY <1>w, <1>1 DEF TypeOK, dbVars, fsVars, envVars, CompleteBegin

\* The new assembly file: the types, and what its handler is left with.
LEMMA StartAttemptStep ==
  ASSUME TypeOK, InvWork, InvDrawn, NEW p \in Procs, StartAttempt(p)
  PROVE  /\ TypeOK'
         /\ Others(p)
         /\ Work(p, "read")
         /\ View(p)
         /\ Same(p)
<1>s. w[p].s \in Sessions /\ w[p] \in Handler
         /\ w \in [Procs -> Handler]
  BY DEF StartAttempt, At, InvWork, TypeOK, CleanupLabels
<1>a. w[p].att \in Attempts
  BY DEF StartAttempt, At, InvWork, InvDrawn, AttemptLabels
<1>w. /\ w' \in [Procs -> Handler]
      /\ Others(p)
      /\ Work(p, "read")
      /\ View(p)
      /\ Same(p)
  BY <1>s, GotoFacts DEF StartAttempt, Labels
<1>1. marker' \in [Sessions -> SUBSET Attempts]
  BY <1>s, <1>a, Consts, IdleHandler DEF TypeOK, StartAttempt
<1> QED BY <1>w, <1>1 DEF TypeOK, dbVars, fsVars, envVars, StartAttempt

\* The reading of a chunk: the types, and what its handler is left with.
LEMMA ReadChunkStep ==
  ASSUME TypeOK, InvWork, InvDrawn, NEW p \in Procs, NEW i \in Chunks,
         ReadChunk(p, i)
  PROVE  /\ TypeOK'
         /\ Others(p)
         /\ Work(p, "read")
         /\ View(p)
         /\ w'[p].conn = w[p].conn
         /\ w'[p].hit = w[p].hit
         /\ w'[p].buf = [w[p].buf EXCEPT ![i] = disk[w[p].s][i]]
<1>s. w[p].s \in Sessions /\ w[p] \in Handler
         /\ w \in [Procs -> Handler]
  BY DEF ReadChunk, At, InvWork, TypeOK, CleanupLabels
<1>h. [w[p].buf EXCEPT ![i] = disk[w[p].s][i]] \in Rows
  BY <1>s, Consts DEF TypeOK, Rows, Handler, ReadChunk
<1>r. w[p].pc = "read" BY DEF ReadChunk, At
<1>d. w' = [w EXCEPT ![p] = [w[p] EXCEPT
               !.buf = [w[p].buf EXCEPT ![i] = disk[w[p].s][i]]]]
  BY <1>s DEF ReadChunk
<1>e. [w[p] EXCEPT !.buf = [w[p].buf EXCEPT ![i] = disk[w[p].s][i]]] \in Handler
  BY <1>s, <1>h DEF Handler
<1>w. /\ w' \in [Procs -> Handler]
      /\ Others(p)
      /\ Work(p, "read")
      /\ View(p)
      /\ w'[p].conn = w[p].conn
      /\ w'[p].hit = w[p].hit
      /\ w'[p].buf = [w[p].buf EXCEPT ![i] = disk[w[p].s][i]]
  BY <1>s, <1>d, <1>e, <1>r DEF Others, Work, View, Handler
<1> QED BY <1>w DEF TypeOK, dbVars, fsVars, envVars, ReadChunk

\* The verification of the assembled body:
\* the types, and what its handler is left with.
LEMMA SealStep ==
  ASSUME TypeOK, InvWork, InvDrawn, NEW p \in Procs, Seal(p)
  PROVE  /\ TypeOK'
         /\ Others(p)
         /\ Work(p, "publish")
         /\ View(p)
         /\ Same(p)
<1>s. w[p].s \in Sessions /\ w[p] \in Handler
         /\ w \in [Procs -> Handler]
  BY DEF Seal, At, InvWork, TypeOK, CleanupLabels
<1>w. /\ w' \in [Procs -> Handler]
      /\ Others(p)
      /\ Work(p, "publish")
      /\ View(p)
      /\ Same(p)
  BY <1>s, GotoFacts DEF Seal, Labels
<1> QED BY <1>w DEF TypeOK, dbVars, fsVars, envVars, Seal

\* The checks of a publication: the types, and what its handler is left with.
LEMMA PublishBeginStep ==
  ASSUME TypeOK, InvWork, InvDrawn, NEW p \in Procs, PublishBegin(p)
  PROVE  /\ TypeOK'
         /\ Others(p)
         /\ Work(p, "link")
         /\ View(p)
         /\ Same(p)
<1>s. w[p].s \in Sessions /\ w[p] \in Handler
         /\ w \in [Procs -> Handler]
  BY DEF PublishBegin, At, InvWork, TypeOK, CleanupLabels
<1>w. /\ w' \in [Procs -> Handler]
      /\ Others(p)
      /\ Work(p, "link")
      /\ View(p)
      /\ Same(p)
  BY <1>s, GotoFacts DEF PublishBegin, Labels
<1> QED BY <1>w DEF TypeOK, dbVars, fsVars, envVars, PublishBegin

\* The hard link: the types, and what its handler is left with.
LEMMA LinkStep ==
  ASSUME TypeOK, InvWork, InvDrawn, NEW p \in Procs, Link(p)
  PROVE  /\ TypeOK'
         /\ Others(p)
         /\ Work(p, "save")
         /\ View(p)
         /\ Same(p)
<1>s. w[p].s \in Sessions /\ w[p] \in Handler
         /\ w \in [Procs -> Handler]
  BY DEF Link, At, InvWork, TypeOK, CleanupLabels
<1>b. w[p].buf \in Bodies BY DEF Link, At, InvWork
<1>a. w[p].att \in Attempts BY DEF Link, At, InvWork, InvDrawn, AttemptLabels
<1>w. /\ w' \in [Procs -> Handler]
      /\ Others(p)
      /\ Work(p, "save")
      /\ View(p)
      /\ Same(p)
  BY <1>s, GotoFacts DEF Link, Labels
<1>1. obj' \in [Sessions -> [Keys -> Bodies \cup {None}]]
  BY <1>s, <1>b, <1>a, Consts, IdleHandler DEF TypeOK, Link
<1> QED BY <1>w, <1>1 DEF TypeOK, dbVars, fsVars, envVars, Link

\* The statements of a publication:
\* the types, and what its handler is left with.
LEMMA SaveStep ==
  ASSUME TypeOK, InvWork, InvDrawn, NEW p \in Procs, Save(p)
  PROVE  /\ TypeOK'
         /\ Others(p)
         /\ Work(p, "commit")
         /\ View(p)
         /\ Same(p)
<1>s. w[p].s \in Sessions /\ w[p] \in Handler
         /\ w \in [Procs -> Handler]
  BY DEF Save, At, InvWork, TypeOK, CleanupLabels
<1>w. /\ w' \in [Procs -> Handler]
      /\ Others(p)
      /\ Work(p, "commit")
      /\ View(p)
      /\ Same(p)
  BY <1>s, GotoFacts DEF Save, Labels
<1> QED BY <1>w DEF TypeOK, dbVars, fsVars, envVars, Save

\* The COMMIT of a publication: the types, and what its handler is left with.
LEMMA PublishCommitStep ==
  ASSUME TypeOK, InvWork, InvDrawn, NEW p \in Procs, PublishCommit(p)
  PROVE  /\ TypeOK'
         /\ Others(p)
         /\ Work(p, "deltemp")
         /\ View(p)
         /\ Same(p)
<1>s. w[p].s \in Sessions /\ w[p] \in Handler
         /\ w \in [Procs -> Handler]
  BY DEF PublishCommit, At, InvWork, TypeOK, CleanupLabels
<1>a. w[p].att \in Attempts
  BY DEF PublishCommit, At, InvWork, InvDrawn, AttemptLabels
<1>w. /\ w' \in [Procs -> Handler]
      /\ Others(p)
      /\ Work(p, "deltemp")
      /\ View(p)
      /\ Same(p)
  BY <1>s, GotoFacts DEF PublishCommit, Labels
<1>1. file' \in [Sessions -> Keys \cup {None, Deleted}]
  BY <1>s, <1>a, Consts, IdleHandler DEF TypeOK, PublishCommit
<1>2. status' \in [Sessions -> Statuses]
  BY <1>s, <1>a, Consts, IdleHandler DEF TypeOK, PublishCommit, Statuses
<1>3. hydrated' \subseteq Sessions
  BY <1>s, <1>a, Consts, IdleHandler DEF TypeOK, PublishCommit
<1>4. rec' \in [Sessions -> Rows]
  BY <1>s, <1>a, Consts, IdleHandler DEF TypeOK, PublishCommit
<1> QED
  BY <1>w, <1>1, <1>2, <1>3, <1>4
  DEF TypeOK, dbVars, fsVars, envVars, PublishCommit

\* The repair of a published session:
\* the types, and what its handler is left with.
LEMMA RepairStep ==
  ASSUME TypeOK, InvWork, InvDrawn, NEW p \in Procs, Repair(p)
  PROVE  /\ TypeOK'
         /\ Others(p)
         /\ Work(p, "deltemp")
         /\ View(p)
         /\ Same(p)
<1>s. w[p].s \in Sessions /\ w[p] \in Handler
         /\ w \in [Procs -> Handler]
  BY DEF Repair, At, InvWork, TypeOK, CleanupLabels
<1>w. /\ w' \in [Procs -> Handler]
      /\ Others(p)
      /\ Work(p, "deltemp")
      /\ View(p)
      /\ Same(p)
  BY <1>s, GotoFacts DEF Repair, Labels
<1>1. status' \in [Sessions -> Statuses]
  BY <1>s, Consts, IdleHandler DEF TypeOK, Repair, Statuses
<1>2. rec' \in [Sessions -> Rows]
  BY <1>s, Consts, IdleHandler DEF TypeOK, Repair
<1> QED BY <1>w, <1>1, <1>2 DEF TypeOK, dbVars, fsVars, envVars, Repair

\* The removal of the workspace directory:
\* the types, and what its handler is left with.
LEMMA DeleteTempFilesStep ==
  ASSUME TypeOK, InvWork, InvDrawn, NEW p \in Procs, DeleteTempFiles(p)
  PROVE  /\ TypeOK'
         /\ Others(p)
         /\ \/ AtRest(p)
            \/ /\ w[p].op \notin PublishOps
               /\ Work(p, "endtx") /\ View(p) /\ Same(p)
<1>s. w[p].s \in Sessions /\ w[p] \in Handler
         /\ w \in [Procs -> Handler]
  BY DEF DeleteTempFiles, At, InvWork, TypeOK, CleanupLabels
<1>w. /\ w' \in [Procs -> Handler]
      /\ Others(p)
      /\ \/ AtRest(p)
         \/ /\ w[p].op \notin PublishOps
            /\ Work(p, "endtx") /\ View(p) /\ Same(p)
  BY <1>s, GotoFacts, StopFacts DEF DeleteTempFiles, Labels
<1>1. dir' \in [Sessions -> BOOLEAN]
  BY <1>s, Consts, IdleHandler DEF TypeOK, DeleteTempFiles
<1>2. disk' \in [Sessions -> Rows]
  BY <1>s, Consts, IdleHandler DEF TypeOK, DeleteTempFiles
<1>3. marker' \in [Sessions -> SUBSET Attempts]
  BY <1>s, Consts, IdleHandler DEF TypeOK, DeleteTempFiles
<1> QED
  BY <1>w, <1>1, <1>2, <1>3 DEF TypeOK, dbVars, fsVars, envVars, DeleteTempFiles

\* The undoing of an attempt's object:
\* the types, and what its handler is left with.
LEMMA UndoStep ==
  ASSUME TypeOK, InvWork, InvDrawn, NEW p \in Procs, Undo(p)
  PROVE  /\ TypeOK'
         /\ Others(p)
         /\ Work(p, "unmarkOwn")
         /\ View(p)
         /\ Same(p)
<1>s. w[p].s \in Sessions /\ w[p] \in Handler
         /\ w \in [Procs -> Handler]
  BY DEF Undo, At, InvWork, TypeOK, CleanupLabels
<1>w. /\ w' \in [Procs -> Handler]
      /\ Others(p)
      /\ Work(p, "unmarkOwn")
      /\ View(p)
      /\ Same(p)
  BY <1>s, GotoFacts DEF Undo, Labels
<1>1. obj' \in [Sessions -> [Keys -> Bodies \cup {None}]]
  BY <1>s, Consts, IdleHandler DEF TypeOK, Undo
<1> QED BY <1>w, <1>1 DEF TypeOK, dbVars, fsVars, envVars, Undo

\* The undoing of an attempt's assembly file:
\* the types, and what its handler is left with.
LEMMA UnmarkOwnStep ==
  ASSUME TypeOK, InvWork, InvDrawn, NEW p \in Procs, UnmarkOwn(p)
  PROVE  /\ TypeOK'
         /\ Others(p)
         /\ AtRest(p)
<1>s. w[p].s \in Sessions /\ w[p] \in Handler
         /\ w \in [Procs -> Handler]
  BY DEF UnmarkOwn, At, InvWork, TypeOK, CleanupLabels
<1>w. /\ w' \in [Procs -> Handler]
      /\ Others(p)
      /\ AtRest(p)
  BY <1>s, StopFacts DEF UnmarkOwn
<1>1. marker' \in [Sessions -> SUBSET Attempts]
  BY <1>s, Consts, IdleHandler DEF TypeOK, UnmarkOwn
<1> QED BY <1>w, <1>1 DEF TypeOK, dbVars, fsVars, envVars, UnmarkOwn

\* The checks of an abort: the types, and what its handler is left with.
LEMMA AbortBeginStep ==
  ASSUME TypeOK, InvWork, InvDrawn, NEW p \in Procs, NEW s \in Sessions,
         AbortBegin(p, s)
  PROVE  /\ TypeOK'
         /\ Others(p)
         /\ Started(p, "abort", "list", s)
         /\ w'[p].hit = FALSE
<1>b. /\ Begin("abort", "list", s) \in Handler
      /\ Begin("abort", "list", s).op = "abort"
      /\ Begin("abort", "list", s).pc = "list"
      /\ Begin("abort", "list", s).s = s
      /\ Begin("abort", "list", s).conn = TRUE
      /\ Begin("abort", "list", s).seen = {}
      /\ Begin("abort", "list", s).hit = FALSE
  BY IdleHandler DEF Begin, Idle, Handler, FencedOps, Labels
<1>w. /\ w' \in [Procs -> Handler]
      /\ Others(p)
      /\ Started(p, "abort", "list", s)
      /\ w'[p].hit = FALSE
  BY <1>b, Consts DEF AbortBegin, Others, Started, TypeOK
<1> QED BY <1>w DEF TypeOK, dbVars, fsVars, envVars, AbortBegin

\* The COMMIT of an abort: the types, and what its handler is left with.
LEMMA AbortCommitStep ==
  ASSUME TypeOK, InvWork, InvDrawn, NEW p \in Procs, AbortCommit(p)
  PROVE  /\ TypeOK'
         /\ Others(p)
         /\ AtRest(p)
<1>s. w[p].s \in Sessions /\ w[p] \in Handler
         /\ w \in [Procs -> Handler]
  BY DEF AbortCommit, At, InvWork, TypeOK, CleanupLabels
<1>w. /\ w' \in [Procs -> Handler]
      /\ Others(p)
      /\ AtRest(p)
  BY <1>s, StopFacts DEF AbortCommit
<1>1. status' \in [Sessions -> Statuses]
  BY <1>s, Consts, IdleHandler DEF TypeOK, AbortCommit, Statuses
<1>2. rec' \in [Sessions -> Rows]
  BY <1>s, Consts, IdleHandler DEF TypeOK, AbortCommit
<1> QED BY <1>w, <1>1, <1>2 DEF TypeOK, dbVars, fsVars, envVars, AbortCommit

\* The checks of the sweep: the types, and what its handler is left with.
LEMMA ExpireBeginStep ==
  ASSUME TypeOK, InvWork, InvDrawn, NEW s \in Sessions, ExpireBegin(s)
  PROVE  /\ TypeOK'
         /\ Others(Timer)
         /\ Started(Timer, "expire", "list", s)
         /\ w'[Timer].hit = FALSE
<1>b. /\ Begin("expire", "list", s) \in Handler
      /\ Begin("expire", "list", s).op = "expire"
      /\ Begin("expire", "list", s).pc = "list"
      /\ Begin("expire", "list", s).s = s
      /\ Begin("expire", "list", s).conn = TRUE
      /\ Begin("expire", "list", s).seen = {}
      /\ Begin("expire", "list", s).hit = FALSE
  BY IdleHandler DEF Begin, Idle, Handler, FencedOps, Labels
<1>w. /\ w' \in [Procs -> Handler]
      /\ Others(Timer)
      /\ Started(Timer, "expire", "list", s)
      /\ w'[Timer].hit = FALSE
  BY <1>b, Consts DEF ExpireBegin, Others, Started, TypeOK
<1> QED BY <1>w DEF TypeOK, dbVars, fsVars, envVars, ExpireBegin

\* The COMMIT of the sweep: the types, and what its handler is left with.
LEMMA ExpireCommitStep ==
  ASSUME TypeOK, InvWork, InvDrawn, ExpireCommit
  PROVE  /\ TypeOK'
         /\ Others(Timer)
         /\ AtRest(Timer)
<1>s. w[Timer].s \in Sessions /\ w[Timer] \in Handler
         /\ w \in [Procs -> Handler]
  BY Consts DEF ExpireCommit, At, InvWork, TypeOK, CleanupLabels
<1>w. /\ w' \in [Procs -> Handler]
      /\ Others(Timer)
      /\ AtRest(Timer)
  BY <1>s, StopFacts, Consts DEF ExpireCommit
<1>1. status' \in [Sessions -> Statuses]
  BY <1>s, Consts, IdleHandler DEF TypeOK, ExpireCommit, Statuses
<1>2. rec' \in [Sessions -> Rows]
  BY <1>s, Consts, IdleHandler DEF TypeOK, ExpireCommit
<1> QED BY <1>w, <1>1, <1>2 DEF TypeOK, dbVars, fsVars, envVars, ExpireCommit

\* A step that cannot succeed: the types, and what its handler is left with.
LEMMA FailStep ==
  ASSUME TypeOK, InvWork, InvDrawn, NEW p \in Procs, Fail(p)
  PROVE  /\ TypeOK'
         /\ Others(p)
         /\ \/ AtRest(p)
            \/ /\ w[p].pc \in Unpublished
               /\ Work(p, "undo") /\ View(p) /\ Same(p)
<1>w. /\ w' \in [Procs -> Handler]
      /\ Others(p)
      /\ \/ AtRest(p)
         \/ /\ w[p].pc \in Unpublished
            /\ Work(p, "undo") /\ View(p) /\ Same(p)
  BY GotoFacts, StopFacts DEF Fail, Throw, Labels, TypeOK
<1> QED BY <1>w DEF TypeOK, dbVars, fsVars, envVars, Fail

\* Any other error: the types, and what its handler is left with.
LEMMA FaultStep ==
  ASSUME TypeOK, InvWork, InvDrawn, NEW p \in Procs, Fault(p)
  PROVE  /\ TypeOK'
         /\ Others(p)
         /\ \/ AtRest(p)
            \/ /\ w[p].pc \in Unpublished
               /\ Work(p, "undo") /\ View(p) /\ Same(p)
<1>w. /\ w' \in [Procs -> Handler]
      /\ Others(p)
      /\ \/ AtRest(p)
         \/ /\ w[p].pc \in Unpublished
            /\ Work(p, "undo") /\ View(p) /\ Same(p)
  BY GotoFacts, StopFacts DEF Fault, Throw, Labels, TypeOK
<1> QED BY <1>w DEF TypeOK, dbVars, fsVars, envVars, Fault

\* A lost connection: the types, and what its handler is left with.
LEMMA LoseConnectionStep ==
  ASSUME TypeOK, InvWork, InvDrawn, NEW p \in Procs, LoseConnection(p)
  PROVE  /\ TypeOK'
         /\ Others(p)
         /\ Work(p, w[p].pc)
         /\ View(p)
         /\ w'[p].buf = w[p].buf
         /\ w'[p].hit = w[p].hit
         /\ w'[p].conn = FALSE
<1>w. /\ w' \in [Procs -> Handler]
      /\ Others(p)
      /\ Work(p, w[p].pc)
      /\ View(p)
      /\ w'[p].buf = w[p].buf
      /\ w'[p].hit = w[p].hit
      /\ w'[p].conn = FALSE
  BY DropFacts DEF LoseConnection, TypeOK
<1> QED BY <1>w DEF TypeOK, dbVars, fsVars, envVars, LoseConnection

\* A crash: the types, and what its handler is left with.
LEMMA CrashStep ==
  ASSUME TypeOK, InvWork, InvDrawn, Crash
  PROVE  /\ TypeOK'
         /\ \A p \in Procs : AtRest(p)
<1>w. /\ w' \in [Procs -> Handler]
      /\ \A p \in Procs : AtRest(p)
  BY IdleHandler DEF Crash, AtRest, Idle
<1> QED BY <1>w DEF TypeOK, dbVars, fsVars, envVars, Crash

\* A start of the server: the types, and what its handler is left with.
LEMMA RestartStep ==
  ASSUME TypeOK, InvWork, InvDrawn, Restart
  PROVE  /\ TypeOK'
         /\ w' = w
<1>w. /\ w' \in [Procs -> Handler]
      /\ w' = w
  BY DEF Restart, TypeOK
<1>1. dir' \in [Sessions -> BOOLEAN]
  BY Consts, IdleHandler DEF TypeOK, Restart
<1>2. disk' \in [Sessions -> Rows] BY Consts, IdleHandler DEF TypeOK, Restart
<1>3. marker' \in [Sessions -> SUBSET Attempts]
  BY Consts, IdleHandler DEF TypeOK, Restart
<1> QED BY <1>w, <1>1, <1>2, <1>3 DEF TypeOK, dbVars, fsVars, envVars, Restart

\* The clock: the types, and what its handler is left with.
LEMMA TickStep ==
  ASSUME TypeOK, InvWork, InvDrawn, NEW s \in Sessions, Tick(s)
  PROVE  /\ TypeOK'
         /\ w' = w
<1>w. /\ w' \in [Procs -> Handler]
      /\ w' = w
  BY DEF Tick, TypeOK
<1>1. expired' \subseteq Sessions BY Consts, IdleHandler DEF TypeOK, Tick
<1> QED BY <1>w, <1>1 DEF TypeOK, dbVars, fsVars, envVars, Tick

\* A charge by another service: the types, and what its handler is left with.
LEMMA ChargeStep ==
  ASSUME TypeOK, InvWork, InvDrawn, NEW b \in OtherBytes, Charge(b)
  PROVE  /\ TypeOK'
         /\ w' = w
<1>w. /\ w' \in [Procs -> Handler]
      /\ w' = w
  BY DEF Charge, TypeOK
<1> QED BY <1>w DEF TypeOK, dbVars, fsVars, envVars, Charge

\* A release by another service: the types, and what its handler is left with.
LEMMA ReleaseStep ==
  ASSUME TypeOK, InvWork, InvDrawn, NEW b \in OtherBytes, Release(b)
  PROVE  /\ TypeOK'
         /\ w' = w
<1>w. /\ w' \in [Procs -> Handler]
      /\ w' = w
  BY DEF Release, TypeOK
<1> QED BY <1>w DEF TypeOK, dbVars, fsVars, envVars, Release

\* The deletion of a published file:
\* the types, and what its handler is left with.
LEMMA DeleteFileStep ==
  ASSUME TypeOK, InvWork, InvDrawn, NEW s \in Sessions, DeleteFile(s)
  PROVE  /\ TypeOK'
         /\ w' = w
<1>w. /\ w' \in [Procs -> Handler]
      /\ w' = w
  BY DEF DeleteFile, TypeOK
<1>1. file' \in [Sessions -> Keys \cup {None, Deleted}]
  BY Consts, IdleHandler DEF TypeOK, DeleteFile
<1>2. obj' \in [Sessions -> [Keys -> Bodies \cup {None}]]
  BY Consts, IdleHandler DEF TypeOK, DeleteFile
<1> QED BY <1>w, <1>1, <1>2 DEF TypeOK, dbVars, fsVars, envVars, DeleteFile

\* A handler at rest holds no session, no connection and no listing.
LEMMA IdleFacts ==
  ASSUME InvWork
  PROVE  \A p \in Procs : w[p].pc = "idle" =>
           /\ w[p].op = "idle" /\ w[p].s = None /\ w[p].conn = FALSE
           /\ w[p].seen = {} /\ w[p].hit = FALSE
  BY DEF InvWork, Idle

\* From here on every leaf sees the invariant's conjuncts by name, the
\* vocabulary above and the small predicates the actions are written with.
USE Consts, Typed
  DEF IInv, TypeOK, Others, Work, View, Same, AtRest, Started, At, Free,
      FenceFree, RowFree, Publishing, Preparing, NoFile, CleanupLabels,
      AttemptLabels, FencedOps, PublishOps, Active, Keys, HydratedRows,
      Readable, Sealable, dbVars, fsVars, envVars

\* The invariant survives a handler that stops and leaves the rest alone.
LEMMA RestedInv ==
  ASSUME IInv, TypeOK', NEW p \in Procs, w' \in [Procs -> Handler],
         Others(p), AtRest(p),
         UNCHANGED <<dbVars, fsVars, expired, next>>
  PROVE  IInv'
<1>1. InvWork' BY DEF InvWork
<1>2. InvFence' BY DEF InvFence
<1>3. InvFresh' BY DEF InvFresh
<1>4. InvDrawn' BY DEF InvDrawn
<1>5. InvDistinct' BY DEF InvDistinct
<1>6. InvUncommitted' BY DEF InvUncommitted
<1>7. InvUnstarted' BY DEF InvUnstarted
<1>8. InvUnlisted' BY DEF InvUnlisted
<1>9. InvKnown' BY DEF InvKnown
<1>10. InvLinked' BY DEF InvLinked, Linked
<1>11. InvUnmade' BY DEF InvUnmade
<1>12. InvAlone' BY DEF InvAlone
<1>13. InvAbsent' BY DEF InvAbsent
<1>14. InvDisk' BY DEF InvDisk
<1>15. InvCompleted' BY DEF InvCompleted
<1>16. InvAborting' BY DEF InvAborting
<1>17. InvChunk' BY DEF InvChunk
<1>18. PublishedObjectKept' BY DEF PublishedObjectKept
<1> QED
  BY <1>1, <1>2, <1>3, <1>4, <1>5, <1>6, <1>7, <1>8, <1>9, <1>10, <1>11,
     <1>12, <1>13, <1>14, <1>15, <1>16, <1>17, <1>18

\* The invariant survives an attempt that turns to its undoing.
LEMMA UndoingInv ==
  ASSUME IInv, TypeOK', NEW p \in Procs, w' \in [Procs -> Handler],
         w[p].pc \in {"read", "publish", "link", "save"},
         Others(p), Work(p, "undo"), View(p), Same(p),
         UNCHANGED <<dbVars, fsVars, expired, next>>
  PROVE  IInv'
<1>1. InvWork' BY DEF InvWork
<1>2. InvFence' BY DEF InvFence, InvWork
<1>3. InvFresh' BY DEF InvFresh
<1>4. InvDrawn' BY DEF InvDrawn
<1>5. InvDistinct' BY DEF InvDistinct
<1>6. InvUncommitted' BY DEF InvUncommitted
<1>7. InvUnstarted' BY DEF InvUnstarted
<1>8. InvUnlisted' BY DEF InvUnlisted
<1>9. InvKnown' BY DEF InvKnown
<1>10. InvLinked' BY DEF InvLinked, Linked
<1>11. InvUnmade' BY DEF InvUnmade
<1>12. InvAlone' BY DEF InvAlone
<1>13. InvAbsent' BY DEF InvAbsent
<1>14. InvDisk' BY DEF InvDisk
<1>15. InvCompleted' BY DEF InvCompleted
<1>16. InvAborting' BY DEF InvAborting
<1>17. InvChunk' BY DEF InvChunk
<1>18. PublishedObjectKept' BY DEF PublishedObjectKept
<1> QED
  BY <1>1, <1>2, <1>3, <1>4, <1>5, <1>6, <1>7, <1>8, <1>9, <1>10, <1>11,
     <1>12, <1>13, <1>14, <1>15, <1>16, <1>17, <1>18

\* The invariant survives createUploadSession's row.
LEMMA CreateInv ==
  ASSUME IInv, NEW p \in Procs, NEW s \in Sessions, Create(p, s)
  PROVE  IInv'
<1>w. /\ w' \in [Procs -> Handler]
      /\ Others(p)
      /\ Started(p, "create", "mkdir", s)
      /\ w'[p].hit = FALSE
  BY CreateStep
<1>t. TypeOK' BY CreateStep
<1>1. InvWork' BY <1>w DEF InvWork
<1>2. InvFence' BY <1>w DEF InvFence
<1>3. InvFresh' BY <1>w DEF Create, InvFresh
<1>4. InvDrawn' BY <1>w DEF Create, InvDrawn
<1>5. InvDistinct' BY <1>w DEF InvDistinct
<1>6. InvUncommitted' BY <1>w DEF Create, InvUncommitted
<1>7. InvUnstarted' BY <1>w DEF Create, InvUnstarted
<1>8. InvUnlisted' BY <1>w DEF InvUnlisted
<1>9. InvKnown' BY <1>w DEF Create, InvKnown
<1>10. InvLinked' BY <1>w DEF Create, InvLinked, Linked
<1>11. InvUnmade' BY <1>w DEF Create, InvUnmade, InvAbsent
<1>12. InvAlone'
  <2>1. \A q \in Procs : w[q].s # s BY IdleFacts DEF Create, InvAbsent
  <2> QED BY <1>w, <2>1 DEF Create, InvAlone
<1>13. InvAbsent' BY <1>w DEF Create, InvAbsent
<1>14. InvDisk' BY <1>w DEF Create, InvDisk
<1>15. InvCompleted' BY <1>w DEF Create, InvCompleted
<1>16. InvAborting' BY <1>w DEF Create, InvAborting
<1>17. InvChunk' BY <1>w DEF Create, InvChunk
<1>18. PublishedObjectKept' BY <1>w DEF Create, PublishedObjectKept
<1> QED
  BY <1>t, <1>1, <1>2, <1>3, <1>4, <1>5, <1>6, <1>7, <1>8, <1>9, <1>10,
     <1>11, <1>12, <1>13, <1>14, <1>15, <1>16, <1>17, <1>18

\* The invariant survives the directory of a new session.
LEMMA MkdirInv ==
  ASSUME IInv, NEW p \in Procs, Mkdir(p)
  PROVE  IInv'
<1>w. /\ w' \in [Procs -> Handler]
      /\ Others(p)
      /\ AtRest(p)
  BY MkdirStep
<1>t. TypeOK' BY MkdirStep
<1>1. InvWork' BY <1>w DEF InvWork
<1>2. InvFence' BY <1>w DEF InvFence
<1>3. InvFresh' BY <1>w DEF Mkdir, InvFresh
<1>4. InvDrawn' BY <1>w DEF Mkdir, InvDrawn
<1>5. InvDistinct' BY <1>w DEF InvDistinct
<1>6. InvUncommitted' BY <1>w DEF Mkdir, InvUncommitted
<1>7. InvUnstarted' BY <1>w DEF Mkdir, InvUnstarted
<1>8. InvUnlisted' BY <1>w DEF InvUnlisted
<1>9. InvKnown' BY <1>w DEF Mkdir, InvKnown
<1>10. InvLinked' BY <1>w DEF Mkdir, InvLinked, Linked
<1>11. InvUnmade' BY <1>w DEF Mkdir, InvUnmade, InvAlone
<1>12. InvAlone' BY <1>w DEF InvAlone
<1>13. InvAbsent' BY <1>w DEF Mkdir, InvAbsent
<1>14. InvDisk' BY <1>w DEF Mkdir, InvDisk
<1>15. InvCompleted' BY <1>w DEF Mkdir, InvCompleted
<1>16. InvAborting' BY <1>w DEF Mkdir, InvAborting
<1>17. InvChunk' BY <1>w DEF Mkdir, InvChunk
<1>18. PublishedObjectKept' BY <1>w DEF Mkdir, PublishedObjectKept
<1> QED
  BY <1>t, <1>1, <1>2, <1>3, <1>4, <1>5, <1>6, <1>7, <1>8, <1>9, <1>10,
     <1>11, <1>12, <1>13, <1>14, <1>15, <1>16, <1>17, <1>18

\* The invariant survives a creation that fails.
LEMMA MkdirFailsInv ==
  ASSUME IInv, NEW p \in Procs, MkdirFails(p)
  PROVE  IInv'
<1>w. /\ w' \in [Procs -> Handler]
      /\ Others(p)
      /\ AtRest(p)
  BY MkdirFailsStep
<1>t. TypeOK' BY MkdirFailsStep
<1>1. InvWork' BY <1>w DEF InvWork
<1>2. InvFence' BY <1>w DEF InvFence
<1>3. InvFresh' BY <1>w DEF MkdirFails, InvFresh
<1>4. InvDrawn' BY <1>w DEF MkdirFails, InvDrawn
<1>5. InvDistinct' BY <1>w DEF InvDistinct
<1>6. InvUncommitted' BY <1>w DEF MkdirFails, InvUncommitted
<1>7. InvUnstarted' BY <1>w DEF MkdirFails, InvUnstarted
<1>8. InvUnlisted' BY <1>w DEF InvUnlisted
<1>9. InvKnown' BY <1>w DEF MkdirFails, InvKnown
<1>10. InvLinked'
  <2> SUFFICES ASSUME NEW q \in Procs, Publishing(q)' PROVE Linked(q)'
    BY DEF InvLinked, Linked
  <2>1. q # p /\ w'[q] = w[q] BY <1>w
  <2>2. w[q].s = w[p].s =>
          w[q].pc \notin {"read", "publish", "link", "save", "commit"}
    BY <2>1 DEF MkdirFails, InvAlone
  <2> QED BY <2>1, <2>2 DEF MkdirFails, InvLinked, Linked, InvWork
<1>11. InvUnmade' BY <1>w DEF MkdirFails, InvUnmade
<1>12. InvAlone' BY <1>w DEF InvAlone
<1>13. InvAbsent' BY <1>w DEF MkdirFails, InvAbsent
<1>14. InvDisk' BY <1>w DEF MkdirFails, InvDisk, InvAbsent
<1>15. InvCompleted' BY <1>w DEF MkdirFails, InvCompleted, InvUnmade
<1>16. InvAborting' BY <1>w DEF MkdirFails, InvAborting
<1>17. InvChunk' BY <1>w DEF MkdirFails, InvChunk
<1>18. PublishedObjectKept' BY <1>w DEF MkdirFails, PublishedObjectKept
<1> QED
  BY <1>t, <1>1, <1>2, <1>3, <1>4, <1>5, <1>6, <1>7, <1>8, <1>9, <1>10,
     <1>11, <1>12, <1>13, <1>14, <1>15, <1>16, <1>17, <1>18

\* The invariant survives the checks of a chunk.
LEMMA ChunkBeginInv ==
  ASSUME IInv, NEW p \in Procs, NEW s \in Sessions, NEW i \in Chunks,
         NEW c \in Contents, ChunkBegin(p, s, i, c)
  PROVE  IInv'
<1>w. /\ w' \in [Procs -> Handler]
      /\ Others(p)
      /\ Started(p, "chunk", "rename", s)
      /\ w'[p].hit <=> disk[s][i] = c
      /\ w'[p].i = i
      /\ w'[p].c = c
  BY ZenonT(120), ChunkBeginStep
<1>t. TypeOK' BY ChunkBeginStep
<1>1. InvWork' BY SMTT(120), <1>w DEF InvWork
<1>2. InvFence' BY <1>w DEF ChunkBegin, InvFence
<1>3. InvFresh' BY <1>w DEF ChunkBegin, InvFresh
<1>4. InvDrawn' BY <1>w DEF ChunkBegin, InvDrawn
<1>5. InvDistinct' BY SMTT(120), <1>w DEF InvDistinct
<1>6. InvUncommitted' BY <1>w DEF ChunkBegin, InvUncommitted
<1>7. InvUnstarted' BY <1>w DEF ChunkBegin, InvUnstarted
<1>8. InvUnlisted' BY <1>w DEF InvUnlisted
<1>9. InvKnown' BY <1>w DEF ChunkBegin, InvKnown
<1>10. InvLinked' BY <1>w DEF ChunkBegin, InvLinked, Linked
<1>11. InvUnmade' BY <1>w DEF ChunkBegin, InvUnmade
<1>12. InvAlone' BY <1>w DEF ChunkBegin, InvAlone, InvUnmade, InvDisk, NoRows
<1>13. InvAbsent' BY <1>w DEF ChunkBegin, InvAbsent
<1>14. InvDisk' BY <1>w DEF ChunkBegin, InvDisk
<1>15. InvCompleted' BY <1>w DEF ChunkBegin, InvCompleted
<1>16. InvAborting' BY <1>w DEF ChunkBegin, InvAborting
<1>17. InvChunk' BY <1>w DEF ChunkBegin, InvChunk
<1>18. PublishedObjectKept' BY <1>w DEF ChunkBegin, PublishedObjectKept
<1> QED
  BY <1>t, <1>1, <1>2, <1>3, <1>4, <1>5, <1>6, <1>7, <1>8, <1>9, <1>10,
     <1>11, <1>12, <1>13, <1>14, <1>15, <1>16, <1>17, <1>18

\* The invariant survives the rename of a chunk file.
LEMMA ChunkRenameInv ==
  ASSUME IInv, NEW p \in Procs, ChunkRename(p)
  PROVE  IInv'
<1>w. /\ w' \in [Procs -> Handler]
      /\ Others(p)
      /\ Work(p, "rows")
      /\ View(p)
      /\ Same(p)
  BY ChunkRenameStep
<1>t. TypeOK' BY ChunkRenameStep
<1>1. InvWork' BY <1>w DEF ChunkRename, InvWork
<1>2. InvFence' BY <1>w DEF InvFence
<1>3. InvFresh' BY <1>w DEF ChunkRename, InvFresh
<1>4. InvDrawn' BY <1>w DEF ChunkRename, InvDrawn
<1>5. InvDistinct' BY <1>w DEF InvDistinct
<1>6. InvUncommitted' BY <1>w DEF ChunkRename, InvUncommitted
<1>7. InvUnstarted' BY <1>w DEF ChunkRename, InvUnstarted
<1>8. InvUnlisted' BY <1>w DEF InvUnlisted
<1>9. InvKnown' BY <1>w DEF ChunkRename, InvKnown
<1>10. InvLinked' BY SMTT(120), <1>w DEF ChunkRename, InvLinked, Linked
<1>11. InvUnmade' BY <1>w DEF ChunkRename, InvUnmade, InvWork
<1>12. InvAlone' BY SMTT(120), <1>w DEF ChunkRename, InvAlone, InvUnmade
<1>13. InvAbsent' BY <1>w DEF ChunkRename, InvAbsent
<1>14. InvDisk' BY <1>w DEF ChunkRename, InvDisk
<1>15. InvCompleted' BY <1>w DEF ChunkRename, InvCompleted
<1>16. InvAborting' BY <1>w DEF ChunkRename, InvAborting
<1>17. InvChunk' BY <1>w DEF ChunkRename, InvChunk, InvWork
<1>18. PublishedObjectKept' BY <1>w DEF ChunkRename, PublishedObjectKept
<1> QED
  BY <1>t, <1>1, <1>2, <1>3, <1>4, <1>5, <1>6, <1>7, <1>8, <1>9, <1>10,
     <1>11, <1>12, <1>13, <1>14, <1>15, <1>16, <1>17, <1>18

\* The invariant survives the checks of a reconciliation.
LEMMA ReconcileBeginInv ==
  ASSUME IInv, NEW p \in Procs, NEW s \in Sessions, ReconcileBegin(p, s)
  PROVE  IInv'
<1>w. /\ w' \in [Procs -> Handler]
      /\ Others(p)
      /\ Started(p, "reconcile", "rows", s)
      /\ w'[p].hit = FALSE
  BY ReconcileBeginStep
<1>t. TypeOK' BY ReconcileBeginStep
<1>1. InvWork' BY <1>w DEF InvWork
<1>2. InvFence' BY <1>w DEF ReconcileBegin, InvFence
<1>3. InvFresh' BY <1>w DEF ReconcileBegin, InvFresh
<1>4. InvDrawn' BY <1>w DEF ReconcileBegin, InvDrawn
<1>5. InvDistinct' BY <1>w DEF InvDistinct
<1>6. InvUncommitted' BY <1>w DEF ReconcileBegin, InvUncommitted
<1>7. InvUnstarted' BY <1>w DEF ReconcileBegin, InvUnstarted
<1>8. InvUnlisted' BY <1>w DEF InvUnlisted
<1>9. InvKnown' BY <1>w DEF ReconcileBegin, InvKnown
<1>10. InvLinked' BY <1>w DEF ReconcileBegin, InvLinked, Linked
<1>11. InvUnmade' BY <1>w DEF ReconcileBegin, InvUnmade
<1>12. InvAlone'
  BY <1>w DEF ReconcileBegin, InvAlone, InvWork, InvUnmade, InvDisk, InvAbsent
<1>13. InvAbsent' BY <1>w DEF ReconcileBegin, InvAbsent
<1>14. InvDisk' BY <1>w DEF ReconcileBegin, InvDisk
<1>15. InvCompleted' BY <1>w DEF ReconcileBegin, InvCompleted
<1>16. InvAborting' BY <1>w DEF ReconcileBegin, InvAborting
<1>17. InvChunk' BY <1>w DEF ReconcileBegin, InvChunk
<1>18. PublishedObjectKept' BY <1>w DEF ReconcileBegin, PublishedObjectKept
<1> QED
  BY <1>t, <1>1, <1>2, <1>3, <1>4, <1>5, <1>6, <1>7, <1>8, <1>9, <1>10,
     <1>11, <1>12, <1>13, <1>14, <1>15, <1>16, <1>17, <1>18

\* The invariant survives the COMMIT of chunk rows.
LEMMA RowsCommitInv ==
  ASSUME IInv, NEW p \in Procs, RowsCommit(p)
  PROVE  IInv'
<1>w. /\ w' \in [Procs -> Handler]
      /\ Others(p)
      /\ AtRest(p)
  BY RowsCommitStep
<1>t. TypeOK' BY RowsCommitStep
<1>1. InvWork' BY <1>w DEF InvWork
<1>2. InvFence' BY <1>w DEF InvFence
<1>3. InvFresh' BY <1>w DEF RowsCommit, InvFresh
<1>4. InvDrawn' BY <1>w DEF RowsCommit, InvDrawn
<1>5. InvDistinct' BY <1>w DEF InvDistinct
<1>6. InvUncommitted' BY <1>w DEF RowsCommit, InvUncommitted
<1>7. InvUnstarted' BY <1>w DEF RowsCommit, InvUnstarted
<1>8. InvUnlisted' BY <1>w DEF InvUnlisted
<1>9. InvKnown' BY SMTT(120), <1>w DEF RowsCommit, InvKnown
<1>10. InvLinked' BY <1>w DEF RowsCommit, InvLinked, Linked, InvFence, InvWork
<1>11. InvUnmade' BY <1>w DEF RowsCommit, InvUnmade
<1>12. InvAlone' BY <1>w DEF InvAlone
<1>13. InvAbsent'
  <2>1. w[p].s \in Sessions /\ status[w[p].s] # "none"
    BY DEF RowsCommit, InvWork, InvAbsent
  <2> QED BY <1>w, <2>1 DEF RowsCommit, InvAbsent
<1>14. InvDisk' BY <1>w DEF RowsCommit, InvDisk
<1>15. InvCompleted' BY <1>w DEF RowsCommit, InvCompleted, InvChunk
<1>16. InvAborting' BY <1>w DEF RowsCommit, InvAborting
<1>17. InvChunk' BY <1>w DEF RowsCommit, InvChunk
<1>18. PublishedObjectKept' BY <1>w DEF RowsCommit, PublishedObjectKept
<1> QED
  BY <1>t, <1>1, <1>2, <1>3, <1>4, <1>5, <1>6, <1>7, <1>8, <1>9, <1>10,
     <1>11, <1>12, <1>13, <1>14, <1>15, <1>16, <1>17, <1>18

\* The invariant survives cleanup's listing.
LEMMA ListInv ==
  ASSUME IInv, NEW p \in Procs, List(p)
  PROVE  IInv'
<1>w. /\ w' \in [Procs -> Handler]
      /\ Others(p)
      /\ Work(p, "query")
      /\ Same(p)
      /\ w'[p].seen = marker[w[p].s]
  BY ListStep
<1>t. TypeOK' BY ListStep
<1>a. /\ w[p].pc = "list"
      /\ UNCHANGED <<status, hydrated, rec, file, used, other>>
      /\ UNCHANGED <<dir, disk, marker, obj, expired, next, faults, up>>
  BY DEF List, At, fsVars
<1>1. InvWork' BY <1>w, <1>a DEF InvWork
<1>2. InvFence' BY <1>w, <1>a DEF InvFence
<1>3. InvFresh' BY SMTT(120), <1>w, <1>a DEF InvFresh
<1>4. InvDrawn'
  <2>1. /\ w[p].s \in Sessions /\ w[p].pc # "idle"
        /\ \A b \in marker[w[p].s] : b < next[w[p].s]
    BY <1>a DEF InvFresh, InvWork
  <2>2. /\ \A b \in w'[p].seen : b < next'[w'[p].s]
        /\ w'[p].op = "complete" =>
             w'[p].att \in Attempts /\ w'[p].att < next'[w'[p].s]
    BY <1>w, <1>a, <2>1 DEF InvDrawn
  <2>3. \A q \in Procs \ {p} : w'[q] = w[q]
    BY <1>w
  <2> QED BY <1>a, <2>2, <2>3 DEF InvDrawn
<1>5. InvDistinct' BY SMTT(120), <1>w DEF InvDistinct
<1>6. InvUncommitted' BY <1>w, <1>a DEF InvUncommitted
<1>7. InvUnstarted' BY <1>w, <1>a DEF InvUnstarted
<1>8. InvUnlisted'
  <2>1. w[p].op \in FencedOps /\ w[p].conn
    BY <1>a DEF List, InvWork, FencedOps, CleanupLabels
  <2>2. \A q \in Procs :
          (Publishing(q) \/ Preparing(q)) /\ w[q].s = w[p].s
          => w[q].att \notin marker[w[p].s]
    BY <1>a, <2>1
    DEF InvUnstarted, InvFence, Publishing, Preparing, CleanupLabels, FencedOps
  <2>3. \A q \in Procs : /\ Publishing(q)' => Publishing(q)
                         /\ Preparing(q)' => Preparing(q)
    BY <1>w, <1>a DEF Publishing, Preparing, CleanupLabels
  <2> QED BY <1>w, <1>a, <2>2, <2>3 DEF InvUnlisted
<1>9. InvKnown' BY SMTT(120), <1>w, <1>a DEF InvKnown
<1>10. InvLinked'
  <2>1. UNCHANGED <<file, rec, status, obj>> BY DEF List
  <2> SUFFICES ASSUME NEW q \in Procs, Publishing(q)' PROVE Linked(q)'
    BY DEF InvLinked, Linked
  <2>2. CASE q = p BY <1>w, <2>1, <2>2, <1>a DEF InvLinked, Linked
  <2>3. CASE q # p BY <1>w, <2>1, <2>3 DEF InvLinked, Linked
  <2> QED BY <2>2, <2>3
<1>11. InvUnmade' BY <1>w, <1>a DEF InvUnmade
<1>12. InvAlone' BY <1>w DEF InvAlone
<1>13. InvAbsent' BY <1>w, <1>a DEF InvAbsent
<1>14. InvDisk' BY <1>w, <1>a DEF InvDisk
<1>15. InvCompleted' BY <1>w, <1>a DEF InvCompleted
<1>16. InvAborting' BY <1>w, <1>a DEF InvAborting
<1>17. InvChunk' BY <1>w, <1>a DEF InvChunk
<1>18. PublishedObjectKept' BY <1>w, <1>a DEF PublishedObjectKept
<1> QED
  BY <1>t, <1>1, <1>2, <1>3, <1>4, <1>5, <1>6, <1>7, <1>8, <1>9, <1>10,
     <1>11, <1>12, <1>13, <1>14, <1>15, <1>16, <1>17, <1>18

\* The invariant survives cleanup's question for the committed File.
LEMMA QueryInv ==
  ASSUME IInv, NEW p \in Procs, Query(p)
  PROVE  IInv'
<1>w. /\ w' \in [Procs -> Handler]
      /\ Others(p)
      /\ Work(p, "unlink")
      /\ Same(p)
      /\ w'[p].seen = w[p].seen
      /\ w'[p].comm = file[w[p].s]
  BY QueryStep
<1>t. TypeOK' BY QueryStep
<1>a. /\ w[p].pc = "query"
      /\ UNCHANGED <<status, hydrated, rec, file, used, other>>
      /\ UNCHANGED <<dir, disk, marker, obj, expired, next, faults, up>>
  BY DEF Query, At, fsVars
<1>1. InvWork' BY <1>w, <1>a DEF InvWork
<1>2. InvFence' BY <1>w DEF InvFence
<1>3. InvFresh' BY SMTT(120), <1>w, <1>a DEF InvFresh
<1>4. InvDrawn' BY <1>w, <1>a DEF InvDrawn
<1>5. InvDistinct' BY <1>w DEF InvDistinct
<1>6. InvUncommitted' BY <1>w, <1>a DEF InvUncommitted
<1>7. InvUnstarted' BY <1>w, <1>a DEF InvUnstarted
<1>8. InvUnlisted' BY <1>w, <1>a DEF InvUnlisted
<1>9. InvKnown' BY <1>w, <1>a DEF InvKnown
<1>10. InvLinked'
  <2>1. UNCHANGED <<file, rec, status, obj>> BY SMTT(120) DEF Query
  <2> SUFFICES ASSUME NEW q \in Procs, Publishing(q)' PROVE Linked(q)'
    BY DEF InvLinked, Linked
  <2>2. CASE q = p BY <1>w, <2>1, <2>2, <1>a DEF InvLinked, Linked
  <2>3. CASE q # p BY <1>w, <2>1, <2>3 DEF InvLinked, Linked
  <2> QED BY <2>2, <2>3
<1>11. InvUnmade' BY <1>w, <1>a DEF InvUnmade
<1>12. InvAlone' BY <1>w DEF InvAlone
<1>13. InvAbsent' BY <1>w, <1>a DEF InvAbsent
<1>14. InvDisk' BY <1>w, <1>a DEF InvDisk
<1>15. InvCompleted' BY <1>w, <1>a DEF InvCompleted
<1>16. InvAborting' BY <1>w, <1>a DEF InvAborting
<1>17. InvChunk' BY <1>w, <1>a DEF InvChunk
<1>18. PublishedObjectKept' BY <1>w, <1>a DEF PublishedObjectKept
<1> QED
  BY <1>t, <1>1, <1>2, <1>3, <1>4, <1>5, <1>6, <1>7, <1>8, <1>9, <1>10,
     <1>11, <1>12, <1>13, <1>14, <1>15, <1>16, <1>17, <1>18

\* The invariant survives cleanup's removal of an object.
LEMMA UnlinkInv ==
  ASSUME IInv, NEW p \in Procs, NEW a \in Attempts, Unlink(p, a)
  PROVE  IInv'
<1>w. /\ w' \in [Procs -> Handler]
      /\ Others(p)
      /\ Work(p, "unmark")
      /\ Same(p)
      /\ w'[p].seen = w[p].seen
      /\ w'[p].comm = w[p].comm
      /\ w'[p].cur = a
  BY ZenonT(120), UnlinkStep
<1>t. TypeOK' BY UnlinkStep
<1>a. /\ w[p].pc = "unlink" /\ a \in w[p].seen
      /\ obj' = IF a = w[p].comm THEN obj
                ELSE [obj EXCEPT ![w[p].s][a] = None]
      /\ UNCHANGED <<status, hydrated, rec, file, used, other>>
      /\ UNCHANGED <<dir, disk, marker, expired, next, faults, up>>
  BY DEF Unlink, At
<1>1. InvWork' BY <1>w, <1>a DEF InvWork
<1>2. InvFence' BY <1>w DEF InvFence
<1>3. InvFresh' BY <1>w, <1>a DEF InvFresh
<1>4. InvDrawn' BY <1>w, <1>a DEF InvDrawn
<1>5. InvDistinct' BY <1>w DEF InvDistinct
<1>6. InvUncommitted' BY <1>w, <1>a DEF InvUncommitted
<1>7. InvUnstarted' BY <1>w, <1>a DEF InvUnstarted
<1>8. InvUnlisted' BY <1>w, <1>a DEF InvUnlisted
<1>9. InvKnown' BY SMTT(120), <1>w, <1>a DEF InvKnown
<1>10. InvLinked' BY <1>w, <1>a DEF InvLinked, Linked, InvUnlisted
<1>11. InvUnmade' BY <1>w, <1>a DEF InvUnmade
<1>12. InvAlone' BY <1>w DEF InvAlone
<1>13. InvAbsent' BY <1>w, <1>a DEF InvAbsent
<1>14. InvDisk' BY <1>w, <1>a DEF InvDisk
<1>15. InvCompleted' BY <1>w, <1>a DEF InvCompleted
<1>16. InvAborting' BY <1>w, <1>a DEF InvAborting
<1>17. InvChunk' BY <1>w, <1>a DEF InvChunk
<1>18. PublishedObjectKept' BY <1>w DEF Unlink, PublishedObjectKept, InvKnown
<1> QED
  BY <1>t, <1>1, <1>2, <1>3, <1>4, <1>5, <1>6, <1>7, <1>8, <1>9, <1>10,
     <1>11, <1>12, <1>13, <1>14, <1>15, <1>16, <1>17, <1>18

\* The invariant survives cleanup's removal of an assembly file.
LEMMA UnmarkInv ==
  ASSUME IInv, NEW p \in Procs, Unmark(p)
  PROVE  IInv'
<1>w. /\ w' \in [Procs -> Handler]
      /\ Others(p)
      /\ Work(p, "unlink")
      /\ Same(p)
      /\ w'[p].seen = w[p].seen \ {w[p].cur}
      /\ w'[p].comm = w[p].comm
  BY UnmarkStep
<1>t. TypeOK' BY UnmarkStep
<1>a. /\ w[p].pc = "unmark"
      /\ marker' = [marker EXCEPT ![w[p].s] = @ \ {w[p].cur}]
      /\ UNCHANGED <<status, hydrated, rec, file, used, other>>
      /\ UNCHANGED <<dir, disk, obj, expired, next, faults, up>>
  BY DEF Unmark, At
<1>1. InvWork' BY <1>w, <1>a DEF InvWork
<1>2. InvFence' BY <1>w, <1>a DEF InvFence
<1>3. InvFresh' BY <1>w, <1>a DEF InvFresh
<1>4. InvDrawn' BY <1>w, <1>a DEF InvDrawn
<1>5. InvDistinct' BY <1>w DEF InvDistinct
<1>6. InvUncommitted' BY <1>w, <1>a DEF InvUncommitted
<1>7. InvUnstarted' BY <1>w, <1>a DEF InvUnstarted
<1>8. InvUnlisted' BY <1>w, <1>a DEF InvUnlisted
<1>9. InvKnown' BY <1>w, <1>a DEF InvKnown
<1>10. InvLinked'
  <2>1. UNCHANGED <<file, rec, status, obj>> BY DEF Unmark
  <2> SUFFICES ASSUME NEW q \in Procs, Publishing(q)' PROVE Linked(q)'
    BY DEF InvLinked, Linked
  <2>2. CASE q = p BY <1>w, <2>1, <2>2, <1>a DEF InvLinked, Linked
  <2>3. CASE q # p BY <1>w, <2>1, <2>3 DEF InvLinked, Linked
  <2> QED BY <2>2, <2>3
<1>11. InvUnmade' BY <1>w, <1>a DEF InvUnmade
<1>12. InvAlone' BY <1>w DEF InvAlone
<1>13. InvAbsent' BY <1>w, <1>a DEF InvAbsent
<1>14. InvDisk' BY <1>w, <1>a DEF InvDisk
<1>15. InvCompleted' BY <1>w, <1>a DEF InvCompleted
<1>16. InvAborting' BY <1>w, <1>a DEF InvAborting
<1>17. InvChunk' BY <1>w, <1>a DEF InvChunk
<1>18. PublishedObjectKept' BY <1>w, <1>a DEF PublishedObjectKept
<1> QED
  BY <1>t, <1>1, <1>2, <1>3, <1>4, <1>5, <1>6, <1>7, <1>8, <1>9, <1>10,
     <1>11, <1>12, <1>13, <1>14, <1>15, <1>16, <1>17, <1>18

\* The invariant survives the end of a cleanup.
LEMMA CleanupDoneInv ==
  ASSUME IInv, NEW p \in Procs, CleanupDone(p)
  PROVE  IInv'
<1>w. /\ w' \in [Procs -> Handler]
      /\ Others(p)
      /\ Work(p, AfterCleanup(p))
      /\ View(p)
      /\ Same(p)
  BY CleanupDoneStep
<1>t. TypeOK' BY CleanupDoneStep
<1>1. InvWork'
  <2>1. w[p].op # "complete" => AfterCleanup(p) = "deltemp"
    BY DEF AfterCleanup
  <2>2. w[p].op = "complete" => AfterCleanup(p) \in {"attempt", "repair"}
    BY DEF AfterCleanup
  <2> QED BY <1>w, <2>1, <2>2 DEF CleanupDone, InvWork
<1>2. InvFence' BY <1>w DEF InvFence
<1>3. InvFresh' BY <1>w DEF CleanupDone, InvFresh
<1>4. InvDrawn' BY <1>w DEF CleanupDone, InvDrawn
<1>5. InvDistinct' BY <1>w DEF InvDistinct
<1>6. InvUncommitted' BY <1>w DEF CleanupDone, InvUncommitted
<1>7. InvUnstarted' BY <1>w DEF CleanupDone, InvUnstarted
<1>8. InvUnlisted' BY <1>w DEF CleanupDone, InvUnlisted
<1>9. InvKnown'
  <2>1. AfterCleanup(p) \in {"deltemp", "attempt", "repair"}
    BY DEF AfterCleanup
  <2> QED BY <1>w, <2>1 DEF CleanupDone, InvKnown
<1>10. InvLinked'
  <2>1. AfterCleanup(p) \in {"deltemp", "attempt", "repair"}
    BY DEF AfterCleanup
  <2>2. AfterCleanup(p) = "attempt" => NoFile(w[p].comm) BY DEF AfterCleanup
  <2>3. \A q \in Procs : w[q].op = "complete" => w[q].att # 0
    BY IdleFacts DEF InvDrawn
  <2> QED
    BY <1>w, <2>1, <2>2, <2>3 DEF CleanupDone, InvWork, InvLinked, Linked
<1>11. InvUnmade'
  <2>1. AfterCleanup(p) \in {"deltemp", "attempt", "repair"}
    BY DEF AfterCleanup
  <2> QED BY SMTT(120), <1>w, <2>1 DEF CleanupDone, InvUnmade
<1>12. InvAlone'
  <2>1. AfterCleanup(p) \in {"deltemp", "attempt", "repair"}
    BY DEF AfterCleanup
  <2> QED BY SMTT(120), <1>w, <2>1 DEF CleanupDone, InvAlone
<1>13. InvAbsent' BY SMTT(120), <1>w DEF CleanupDone, InvAbsent
<1>14. InvDisk' BY <1>w DEF CleanupDone, InvDisk
<1>15. InvCompleted' BY <1>w DEF CleanupDone, InvCompleted
<1>16. InvAborting' BY SMTT(120), <1>w DEF CleanupDone, InvAborting
<1>17. InvChunk' BY <1>w DEF CleanupDone, InvChunk
<1>18. PublishedObjectKept'
  BY <1>w DEF CleanupDone, PublishedObjectKept, InvKnown
<1> QED
  BY <1>t, <1>1, <1>2, <1>3, <1>4, <1>5, <1>6, <1>7, <1>8, <1>9, <1>10,
     <1>11, <1>12, <1>13, <1>14, <1>15, <1>16, <1>17, <1>18

\* The invariant survives the fence and the checks of a completion.
LEMMA CompleteBeginInv ==
  ASSUME IInv, NEW p \in Procs, NEW s \in Sessions, CompleteBegin(p, s)
  PROVE  IInv'
<1>w. /\ w' \in [Procs -> Handler]
      /\ Others(p)
      /\ w'[p].hit = FALSE
      /\ \/ /\ Started(p, "complete", "list", s)
            /\ w'[p].att = next[s] /\ w'[p].buf = NoRows
            /\ next' = [next EXCEPT ![s] = @ + 1] /\ next[s] \in Attempts
         \/ Started(p, "replay", "list", s) /\ next' = next
  BY CompleteBeginStep
<1>t. TypeOK' BY CompleteBeginStep
<1>1. InvWork' BY <1>w DEF InvWork
<1>2. InvFence' BY SMTT(120), <1>w DEF CompleteBegin, InvFence
<1>3. InvFresh'
  <2>0. \A r \in Sessions : /\ next[r] \in Nat /\ next'[r] \in Nat
                            /\ next[r] <= next'[r]
    BY <1>w
  <2>1. marker' = marker /\ file' = file BY DEF CompleteBegin
  <2> QED BY <2>0, <2>1 DEF InvFresh
<1>4. InvDrawn'
  <2>0. \A r \in Sessions : /\ next[r] \in Nat /\ next'[r] \in Nat
                            /\ next[r] <= next'[r]
    BY <1>w
  <2>1. w'[p].op = "complete" => /\ w'[p].att = next[s] /\ next[s] \in Attempts
                                 /\ w'[p].s = s /\ next[s] < next'[s]
    BY <1>w
  <2>2. w'[p].seen = {} BY <1>w
  <2> SUFFICES ASSUME NEW q \in Procs, w'[q].pc # "idle"
               PROVE  /\ \A a \in w'[q].seen : a < next'[w'[q].s]
                      /\ w'[q].op = "complete" =>
                           w'[q].att \in Attempts /\ w'[q].att < next'[w'[q].s]
    BY DEF InvDrawn
  <2>3. CASE q = p BY <2>1, <2>2, <2>3
  <2>4. CASE q # p
    <3>1. /\ w'[q] = w[q] /\ w[q].s \in Sessions
          /\ w[q].seen \subseteq Nat /\ w[q].att \in Keys
      BY ZenonT(120), <1>w, <2>4 DEF InvWork
    <3>2. /\ \A a \in w[q].seen : a < next[w[q].s]
          /\ w[q].op = "complete" =>
               w[q].att \in Attempts /\ w[q].att < next[w[q].s]
      BY <3>1 DEF InvDrawn
    <3>3. /\ next[w[q].s] \in Nat /\ next'[w[q].s] \in Nat
          /\ next[w[q].s] <= next'[w[q].s]
      BY <2>0, <3>1
    <3>4. \A a \in w[q].seen : a < next'[w[q].s] BY <3>1, <3>2, <3>3
    <3>5. ASSUME w[q].op = "complete"
          PROVE  w[q].att \in Attempts /\ w[q].att < next'[w[q].s]
      <4>1. w[q].att \in Nat /\ w[q].att < next[w[q].s] BY <3>2, <3>5
      <4> QED BY <3>2, <3>3, <3>5, <4>1
    <3> QED BY <3>1, <3>4, <3>5
  <2> QED BY <2>3, <2>4
<1>5. InvDistinct'
  <2>1. w'[p].op = "complete" => w'[p].s = s /\ w'[p].att = next[s] BY <1>w
  <2>2. next[s] \in Nat OBVIOUS
  <2>3. \A q \in Procs : w[q].op = "complete" /\ w[q].s = s =>
          w[q].att < next[s]
    BY IdleFacts DEF InvDrawn
  <2> QED BY <1>w, <2>1, <2>2, <2>3 DEF InvDistinct
<1>6. InvUncommitted' BY <1>w DEF CompleteBegin, InvUncommitted, InvFresh
<1>7. InvUnstarted' BY <1>w DEF CompleteBegin, InvUnstarted, InvFresh
<1>8. InvUnlisted'
  <2>1. w'[p].seen = {} /\ w'[p].s = s BY <1>w
  <2>2. w'[p].op = "complete" => w'[p].att = next[s] BY <1>w
  <2>3. next[s] \in Nat OBVIOUS
  <2>4. \A q \in Procs : w[q].s = s => \A a \in w[q].seen : a < next[s]
    BY IdleFacts DEF InvDrawn
  <2> QED BY <1>w, <2>1, <2>2, <2>3, <2>4 DEF InvUnlisted
<1>9. InvKnown' BY <1>w DEF CompleteBegin, InvKnown
<1>10. InvLinked' BY <1>w DEF CompleteBegin, InvLinked, Linked
<1>11. InvUnmade' BY <1>w DEF CompleteBegin, InvUnmade
<1>12. InvAlone' BY <1>w DEF InvAlone
<1>13. InvAbsent' BY <1>w DEF CompleteBegin, InvAbsent
<1>14. InvDisk' BY <1>w DEF CompleteBegin, InvDisk
<1>15. InvCompleted' BY <1>w DEF CompleteBegin, InvCompleted
<1>16. InvAborting' BY <1>w DEF CompleteBegin, InvAborting
<1>17. InvChunk' BY <1>w DEF CompleteBegin, InvChunk
<1>18. PublishedObjectKept' BY <1>w DEF CompleteBegin, PublishedObjectKept
<1> QED
  BY <1>t, <1>1, <1>2, <1>3, <1>4, <1>5, <1>6, <1>7, <1>8, <1>9, <1>10,
     <1>11, <1>12, <1>13, <1>14, <1>15, <1>16, <1>17, <1>18

\* The invariant survives the new assembly file.
LEMMA StartAttemptInv ==
  ASSUME IInv, NEW p \in Procs, StartAttempt(p)
  PROVE  IInv'
<1>w. /\ w' \in [Procs -> Handler]
      /\ Others(p)
      /\ Work(p, "read")
      /\ View(p)
      /\ Same(p)
  BY StartAttemptStep
<1>t. TypeOK' BY StartAttemptStep
<1>1. InvWork' BY <1>w DEF StartAttempt, InvWork
<1>2. InvFence' BY <1>w DEF InvFence
<1>3. InvFresh' BY <1>w DEF StartAttempt, InvFresh, InvDrawn, InvWork
<1>4. InvDrawn' BY <1>w DEF StartAttempt, InvDrawn
<1>5. InvDistinct' BY <1>w DEF InvDistinct
<1>6. InvUncommitted' BY <1>w DEF StartAttempt, InvUncommitted
<1>7. InvUnstarted'
  BY <1>w DEF StartAttempt, InvUnstarted, InvDistinct, InvWork
<1>8. InvUnlisted' BY <1>w DEF InvUnlisted
<1>9. InvKnown' BY <1>w DEF StartAttempt, InvKnown
<1>10. InvLinked' BY <1>w DEF StartAttempt, InvLinked, Linked, NoRows, InvWork
<1>11. InvUnmade' BY <1>w DEF StartAttempt, InvUnmade
<1>12. InvAlone' BY <1>w DEF StartAttempt, InvAlone, InvUnmade
<1>13. InvAbsent' BY <1>w DEF StartAttempt, InvAbsent
<1>14. InvDisk' BY <1>w DEF StartAttempt, InvDisk
<1>15. InvCompleted' BY <1>w DEF StartAttempt, InvCompleted
<1>16. InvAborting' BY <1>w DEF StartAttempt, InvAborting
<1>17. InvChunk' BY <1>w DEF StartAttempt, InvChunk
<1>18. PublishedObjectKept' BY <1>w DEF StartAttempt, PublishedObjectKept
<1> QED
  BY <1>t, <1>1, <1>2, <1>3, <1>4, <1>5, <1>6, <1>7, <1>8, <1>9, <1>10,
     <1>11, <1>12, <1>13, <1>14, <1>15, <1>16, <1>17, <1>18

\* The invariant survives the reading of a chunk.
LEMMA ReadChunkInv ==
  ASSUME IInv, NEW p \in Procs, NEW i \in Chunks, ReadChunk(p, i)
  PROVE  IInv'
<1>w. /\ w' \in [Procs -> Handler]
      /\ Others(p)
      /\ Work(p, "read")
      /\ View(p)
      /\ w'[p].conn = w[p].conn
      /\ w'[p].hit = w[p].hit
      /\ w'[p].buf = [w[p].buf EXCEPT ![i] = disk[w[p].s][i]]
  BY ZenonT(120), ReadChunkStep
<1>t. TypeOK' BY ReadChunkStep
<1>1. InvWork' BY <1>w DEF ReadChunk, InvWork
<1>2. InvFence' BY SMTT(120), <1>w DEF InvFence
<1>3. InvFresh' BY <1>w DEF ReadChunk, InvFresh
<1>4. InvDrawn' BY <1>w DEF ReadChunk, InvDrawn
<1>5. InvDistinct' BY <1>w DEF InvDistinct
<1>6. InvUncommitted' BY <1>w DEF ReadChunk, InvUncommitted
<1>7. InvUnstarted' BY <1>w DEF ReadChunk, InvUnstarted
<1>8. InvUnlisted' BY SMTT(120), <1>w DEF InvUnlisted
<1>9. InvKnown' BY <1>w DEF ReadChunk, InvKnown
<1>10. InvLinked' BY <1>w DEF ReadChunk, InvLinked, Linked
<1>11. InvUnmade' BY <1>w DEF ReadChunk, InvUnmade
<1>12. InvAlone' BY <1>w DEF ReadChunk, InvAlone
<1>13. InvAbsent' BY <1>w DEF ReadChunk, InvAbsent
<1>14. InvDisk' BY <1>w DEF ReadChunk, InvDisk
<1>15. InvCompleted' BY <1>w DEF ReadChunk, InvCompleted
<1>16. InvAborting' BY <1>w DEF ReadChunk, InvAborting
<1>17. InvChunk' BY <1>w DEF ReadChunk, InvChunk
<1>18. PublishedObjectKept' BY <1>w DEF ReadChunk, PublishedObjectKept
<1> QED
  BY <1>t, <1>1, <1>2, <1>3, <1>4, <1>5, <1>6, <1>7, <1>8, <1>9, <1>10,
     <1>11, <1>12, <1>13, <1>14, <1>15, <1>16, <1>17, <1>18

\* The invariant survives the verification of the assembled body.
LEMMA SealInv ==
  ASSUME IInv, NEW p \in Procs, Seal(p)
  PROVE  IInv'
<1>w. /\ w' \in [Procs -> Handler]
      /\ Others(p)
      /\ Work(p, "publish")
      /\ View(p)
      /\ Same(p)
  BY SealStep
<1>t. TypeOK' BY SealStep
<1>1. InvWork'
  <2>1. w[p].buf \in Bodies BY WholeRows DEF Seal
  <2> QED BY <1>w, <2>1 DEF Seal, InvWork
<1>2. InvFence' BY <1>w DEF InvFence
<1>3. InvFresh' BY <1>w DEF Seal, InvFresh
<1>4. InvDrawn' BY SMTT(120), <1>w DEF Seal, InvDrawn
<1>5. InvDistinct' BY <1>w DEF InvDistinct
<1>6. InvUncommitted' BY <1>w DEF Seal, InvUncommitted
<1>7. InvUnstarted' BY <1>w DEF Seal, InvUnstarted
<1>8. InvUnlisted' BY <1>w DEF InvUnlisted
<1>9. InvKnown' BY <1>w DEF Seal, InvKnown
<1>10. InvLinked' BY <1>w DEF Seal, InvLinked, Linked
<1>11. InvUnmade' BY <1>w DEF Seal, InvUnmade
<1>12. InvAlone' BY <1>w DEF Seal, InvAlone
<1>13. InvAbsent' BY <1>w DEF Seal, InvAbsent
<1>14. InvDisk' BY <1>w DEF Seal, InvDisk
<1>15. InvCompleted' BY <1>w DEF Seal, InvCompleted
<1>16. InvAborting' BY <1>w DEF Seal, InvAborting
<1>17. InvChunk' BY <1>w DEF Seal, InvChunk
<1>18. PublishedObjectKept' BY <1>w DEF Seal, PublishedObjectKept
<1> QED
  BY <1>t, <1>1, <1>2, <1>3, <1>4, <1>5, <1>6, <1>7, <1>8, <1>9, <1>10,
     <1>11, <1>12, <1>13, <1>14, <1>15, <1>16, <1>17, <1>18

\* The invariant survives the checks of a publication.
LEMMA PublishBeginInv ==
  ASSUME IInv, NEW p \in Procs, PublishBegin(p)
  PROVE  IInv'
<1>w. /\ w' \in [Procs -> Handler]
      /\ Others(p)
      /\ Work(p, "link")
      /\ View(p)
      /\ Same(p)
  BY PublishBeginStep
<1>t. TypeOK' BY PublishBeginStep
<1>1. InvWork' BY <1>w DEF PublishBegin, InvWork
<1>2. InvFence' BY <1>w DEF InvFence
<1>3. InvFresh' BY <1>w DEF PublishBegin, InvFresh
<1>4. InvDrawn' BY <1>w DEF PublishBegin, InvDrawn
<1>5. InvDistinct' BY <1>w DEF InvDistinct
<1>6. InvUncommitted' BY <1>w DEF PublishBegin, InvUncommitted
<1>7. InvUnstarted' BY <1>w DEF PublishBegin, InvUnstarted
<1>8. InvUnlisted' BY <1>w DEF InvUnlisted
<1>9. InvKnown' BY <1>w DEF PublishBegin, InvKnown
<1>10. InvLinked' BY <1>w DEF PublishBegin, InvLinked, Linked
<1>11. InvUnmade' BY <1>w DEF PublishBegin, InvUnmade
<1>12. InvAlone' BY <1>w DEF PublishBegin, InvAlone
<1>13. InvAbsent' BY <1>w DEF PublishBegin, InvAbsent
<1>14. InvDisk' BY <1>w DEF PublishBegin, InvDisk
<1>15. InvCompleted' BY <1>w DEF PublishBegin, InvCompleted
<1>16. InvAborting' BY <1>w DEF PublishBegin, InvAborting
<1>17. InvChunk' BY <1>w DEF PublishBegin, InvChunk
<1>18. PublishedObjectKept' BY <1>w DEF PublishBegin, PublishedObjectKept
<1> QED
  BY <1>t, <1>1, <1>2, <1>3, <1>4, <1>5, <1>6, <1>7, <1>8, <1>9, <1>10,
     <1>11, <1>12, <1>13, <1>14, <1>15, <1>16, <1>17, <1>18

\* The invariant survives the hard link.
LEMMA LinkInv ==
  ASSUME IInv, NEW p \in Procs, Link(p)
  PROVE  IInv'
<1>w. /\ w' \in [Procs -> Handler]
      /\ Others(p)
      /\ Work(p, "save")
      /\ View(p)
      /\ Same(p)
  BY LinkStep
<1>t. TypeOK' BY LinkStep
<1>1. InvWork' BY <1>w DEF Link, InvWork
<1>2. InvFence' BY <1>w DEF InvFence
<1>3. InvFresh' BY <1>w DEF Link, InvFresh
<1>4. InvDrawn' BY <1>w DEF Link, InvDrawn
<1>5. InvDistinct' BY <1>w DEF InvDistinct
<1>6. InvUncommitted' BY <1>w DEF Link, InvUncommitted
<1>7. InvUnstarted' BY <1>w DEF Link, InvUnstarted
<1>8. InvUnlisted' BY <1>w DEF InvUnlisted
<1>9. InvKnown' BY SMTT(120), <1>w DEF Link, InvKnown
<1>10. InvLinked'
  BY SMTT(120), <1>w DEF Link, InvLinked, Linked, InvUnlisted, InvUncommitted,
     InvDistinct, InvFence, InvWork, InvAlone, InvUnmade, InvDrawn, InvAbsent
<1>11. InvUnmade' BY <1>w DEF Link, InvUnmade
<1>12. InvAlone' BY <1>w DEF Link, InvAlone
<1>13. InvAbsent' BY <1>w DEF Link, InvAbsent
<1>14. InvDisk' BY <1>w DEF Link, InvDisk
<1>15. InvCompleted' BY <1>w DEF Link, InvCompleted
<1>16. InvAborting' BY <1>w DEF Link, InvAborting
<1>17. InvChunk' BY <1>w DEF Link, InvChunk
<1>18. PublishedObjectKept' BY <1>w DEF Link, PublishedObjectKept, InvWork
<1> QED
  BY <1>t, <1>1, <1>2, <1>3, <1>4, <1>5, <1>6, <1>7, <1>8, <1>9, <1>10,
     <1>11, <1>12, <1>13, <1>14, <1>15, <1>16, <1>17, <1>18

\* The invariant survives the statements of a publication.
LEMMA SaveInv ==
  ASSUME IInv, NEW p \in Procs, Save(p)
  PROVE  IInv'
<1>w. /\ w' \in [Procs -> Handler]
      /\ Others(p)
      /\ Work(p, "commit")
      /\ View(p)
      /\ Same(p)
  BY SaveStep
<1>t. TypeOK' BY SaveStep
<1>1. InvWork' BY <1>w DEF Save, InvWork
<1>2. InvFence' BY <1>w DEF InvFence
<1>3. InvFresh' BY <1>w DEF Save, InvFresh
<1>4. InvDrawn' BY <1>w DEF Save, InvDrawn
<1>5. InvDistinct' BY <1>w DEF InvDistinct
<1>6. InvUncommitted' BY <1>w DEF Save, InvUncommitted
<1>7. InvUnstarted' BY <1>w DEF Save, InvUnstarted
<1>8. InvUnlisted' BY <1>w DEF InvUnlisted
<1>9. InvKnown' BY <1>w DEF Save, InvKnown
<1>10. InvLinked' BY <1>w DEF Save, InvLinked, Linked
<1>11. InvUnmade' BY <1>w DEF Save, InvUnmade
<1>12. InvAlone' BY <1>w DEF Save, InvAlone
<1>13. InvAbsent' BY <1>w DEF Save, InvAbsent
<1>14. InvDisk' BY <1>w DEF Save, InvDisk
<1>15. InvCompleted' BY <1>w DEF Save, InvCompleted
<1>16. InvAborting' BY <1>w DEF Save, InvAborting
<1>17. InvChunk' BY <1>w DEF Save, InvChunk
<1>18. PublishedObjectKept' BY <1>w DEF Save, PublishedObjectKept
<1> QED
  BY <1>t, <1>1, <1>2, <1>3, <1>4, <1>5, <1>6, <1>7, <1>8, <1>9, <1>10,
     <1>11, <1>12, <1>13, <1>14, <1>15, <1>16, <1>17, <1>18

\* The invariant survives the COMMIT of a publication.
LEMMA PublishCommitInv ==
  ASSUME IInv, NEW p \in Procs, PublishCommit(p)
  PROVE  IInv'
<1>w. /\ w' \in [Procs -> Handler]
      /\ Others(p)
      /\ Work(p, "deltemp")
      /\ View(p)
      /\ Same(p)
  BY PublishCommitStep
<1>t. TypeOK' BY PublishCommitStep
<1>1. InvWork' BY <1>w DEF PublishCommit, InvWork
<1>2. InvFence' BY <1>w DEF InvFence
<1>3. InvFresh' BY <1>w DEF PublishCommit, InvFresh, InvDrawn, InvWork
<1>4. InvDrawn' BY <1>w DEF PublishCommit, InvDrawn
<1>5. InvDistinct' BY <1>w DEF InvDistinct
<1>6. InvUncommitted'
  BY <1>w DEF PublishCommit, InvUncommitted, InvDistinct, InvWork
<1>7. InvUnstarted' BY <1>w DEF PublishCommit, InvUnstarted
<1>8. InvUnlisted' BY <1>w DEF InvUnlisted
<1>9. InvKnown'
  BY SMTT(120), <1>w DEF PublishCommit, InvKnown, InvUnlisted, InvDrawn, InvWork
<1>10. InvLinked'
  BY <1>w DEF PublishCommit, InvLinked, Linked, InvUnlisted, InvUncommitted,
     InvDistinct, InvFence, InvWork, InvAlone, InvUnmade, InvDrawn, InvAbsent
<1>11. InvUnmade' BY <1>w DEF PublishCommit, InvUnmade, InvAlone
<1>12. InvAlone' BY <1>w DEF InvAlone
<1>13. InvAbsent' BY <1>w DEF PublishCommit, InvAbsent
<1>14. InvDisk' BY <1>w DEF PublishCommit, InvDisk
<1>15. InvCompleted' BY <1>w DEF PublishCommit, InvCompleted
<1>16. InvAborting' BY <1>w DEF PublishCommit, InvAborting, InvFence, InvWork
<1>17. InvChunk' BY <1>w DEF PublishCommit, InvChunk, InvFence, InvWork
<1>18. PublishedObjectKept'
  BY <1>w DEF PublishCommit, PublishedObjectKept, InvLinked, Linked, InvWork
<1> QED
  BY <1>t, <1>1, <1>2, <1>3, <1>4, <1>5, <1>6, <1>7, <1>8, <1>9, <1>10,
     <1>11, <1>12, <1>13, <1>14, <1>15, <1>16, <1>17, <1>18

\* The invariant survives the repair of a published session.
LEMMA RepairInv ==
  ASSUME IInv, NEW p \in Procs, Repair(p)
  PROVE  IInv'
<1>w. /\ w' \in [Procs -> Handler]
      /\ Others(p)
      /\ Work(p, "deltemp")
      /\ View(p)
      /\ Same(p)
  BY RepairStep
<1>t. TypeOK' BY RepairStep
<1>1. InvWork' BY <1>w DEF Repair, InvWork
<1>2. InvFence' BY <1>w DEF InvFence
<1>3. InvFresh' BY <1>w DEF Repair, InvFresh
<1>4. InvDrawn' BY <1>w DEF Repair, InvDrawn
<1>5. InvDistinct' BY <1>w DEF InvDistinct
<1>6. InvUncommitted' BY <1>w DEF Repair, InvUncommitted
<1>7. InvUnstarted' BY <1>w DEF Repair, InvUnstarted
<1>8. InvUnlisted' BY <1>w DEF InvUnlisted
<1>9. InvKnown' BY <1>w DEF Repair, InvKnown
<1>10. InvLinked'
  BY SMTT(120), <1>w DEF Repair, InvLinked, Linked, InvUnlisted, InvUncommitted,
     InvDistinct, InvFence, InvWork, InvAlone, InvUnmade, InvDrawn, InvAbsent
<1>11. InvUnmade' BY <1>w DEF Repair, InvUnmade
<1>12. InvAlone' BY <1>w DEF InvAlone
<1>13. InvAbsent' BY <1>w DEF Repair, InvAbsent
<1>14. InvDisk' BY <1>w DEF Repair, InvDisk
<1>15. InvCompleted' BY <1>w DEF Repair, InvCompleted
<1>16. InvAborting'
  <2>1. \A q \in Procs : q # p /\ w[q].op = "abort" /\ w[q].conn =>
          w[q].s # w[p].s
    BY DEF Repair, InvFence, InvWork
  <2> QED BY <1>w, <2>1 DEF Repair, InvAborting, InvWork
<1>17. InvChunk' BY <1>w DEF Repair, InvChunk, InvFence, InvWork
<1>18. PublishedObjectKept' BY <1>w DEF Repair, PublishedObjectKept
<1> QED
  BY <1>t, <1>1, <1>2, <1>3, <1>4, <1>5, <1>6, <1>7, <1>8, <1>9, <1>10,
     <1>11, <1>12, <1>13, <1>14, <1>15, <1>16, <1>17, <1>18

\* The invariant survives the removal of the workspace directory.
LEMMA DeleteTempFilesInv ==
  ASSUME IInv, NEW p \in Procs, DeleteTempFiles(p)
  PROVE  IInv'
<1>w. /\ w' \in [Procs -> Handler]
      /\ Others(p)
      /\ \/ AtRest(p)
         \/ /\ w[p].op \notin PublishOps
            /\ Work(p, "endtx") /\ View(p) /\ Same(p)
  BY DeleteTempFilesStep
<1>t. TypeOK' BY DeleteTempFilesStep
<1>1. InvWork' BY <1>w DEF DeleteTempFiles, InvWork
<1>2. InvFence' BY <1>w DEF InvFence
<1>3. InvFresh' BY <1>w DEF DeleteTempFiles, InvFresh
<1>4. InvDrawn' BY <1>w DEF DeleteTempFiles, InvDrawn
<1>5. InvDistinct' BY <1>w DEF InvDistinct
<1>6. InvUncommitted' BY <1>w DEF DeleteTempFiles, InvUncommitted
<1>7. InvUnstarted' BY <1>w DEF DeleteTempFiles, InvUnstarted
<1>8. InvUnlisted' BY <1>w DEF InvUnlisted
<1>9. InvKnown' BY <1>w DEF DeleteTempFiles, InvKnown
<1>10. InvLinked' BY <1>w DEF DeleteTempFiles, InvLinked, Linked
<1>11. InvUnmade' BY <1>w DEF DeleteTempFiles, InvUnmade
<1>12. InvAlone' BY <1>w DEF InvAlone
<1>13. InvAbsent' BY SMTT(120), <1>w DEF DeleteTempFiles, InvAbsent, InvWork
<1>14. InvDisk' BY <1>w DEF DeleteTempFiles, InvDisk
<1>15. InvCompleted' BY <1>w DEF DeleteTempFiles, InvCompleted
<1>16. InvAborting' BY <1>w DEF DeleteTempFiles, InvAborting
<1>17. InvChunk' BY <1>w DEF DeleteTempFiles, InvChunk
<1>18. PublishedObjectKept' BY <1>w DEF DeleteTempFiles, PublishedObjectKept
<1> QED
  BY <1>t, <1>1, <1>2, <1>3, <1>4, <1>5, <1>6, <1>7, <1>8, <1>9, <1>10,
     <1>11, <1>12, <1>13, <1>14, <1>15, <1>16, <1>17, <1>18

\* The invariant survives the undoing of an attempt's object.
LEMMA UndoInv ==
  ASSUME IInv, NEW p \in Procs, Undo(p)
  PROVE  IInv'
<1>w. /\ w' \in [Procs -> Handler]
      /\ Others(p)
      /\ Work(p, "unmarkOwn")
      /\ View(p)
      /\ Same(p)
  BY UndoStep
<1>t. TypeOK' BY UndoStep
<1>1. InvWork' BY <1>w DEF Undo, InvWork
<1>2. InvFence' BY <1>w DEF InvFence
<1>3. InvFresh' BY <1>w DEF Undo, InvFresh
<1>4. InvDrawn' BY <1>w DEF Undo, InvDrawn
<1>5. InvDistinct' BY <1>w DEF InvDistinct
<1>6. InvUncommitted' BY <1>w DEF Undo, InvUncommitted
<1>7. InvUnstarted' BY <1>w DEF Undo, InvUnstarted
<1>8. InvUnlisted' BY <1>w DEF InvUnlisted
<1>9. InvKnown' BY <1>w DEF Undo, InvKnown
<1>10. InvLinked'
  BY SMTT(120), <1>w DEF Undo, InvLinked, Linked, InvUnlisted, InvUncommitted,
     InvDistinct, InvFence, InvWork, InvAlone, InvUnmade, InvDrawn, InvAbsent
<1>11. InvUnmade' BY <1>w DEF Undo, InvUnmade
<1>12. InvAlone' BY <1>w DEF InvAlone
<1>13. InvAbsent' BY <1>w DEF Undo, InvAbsent
<1>14. InvDisk' BY <1>w DEF Undo, InvDisk
<1>15. InvCompleted' BY <1>w DEF Undo, InvCompleted
<1>16. InvAborting' BY <1>w DEF Undo, InvAborting
<1>17. InvChunk' BY <1>w DEF Undo, InvChunk
<1>18. PublishedObjectKept'
  <2>1. w[p].s \in Sessions /\ file[w[p].s] # w[p].att
    BY DEF Undo, InvUncommitted, InvWork
  <2> QED BY <2>1 DEF Undo, PublishedObjectKept
<1> QED
  BY <1>t, <1>1, <1>2, <1>3, <1>4, <1>5, <1>6, <1>7, <1>8, <1>9, <1>10,
     <1>11, <1>12, <1>13, <1>14, <1>15, <1>16, <1>17, <1>18

\* The invariant survives the undoing of an attempt's assembly file.
LEMMA UnmarkOwnInv ==
  ASSUME IInv, NEW p \in Procs, UnmarkOwn(p)
  PROVE  IInv'
<1>w. /\ w' \in [Procs -> Handler]
      /\ Others(p)
      /\ AtRest(p)
  BY UnmarkOwnStep
<1>t. TypeOK' BY UnmarkOwnStep
<1>1. InvWork' BY <1>w DEF InvWork
<1>2. InvFence' BY <1>w DEF InvFence
<1>3. InvFresh' BY <1>w DEF UnmarkOwn, InvFresh
<1>4. InvDrawn' BY <1>w DEF UnmarkOwn, InvDrawn
<1>5. InvDistinct' BY <1>w DEF InvDistinct
<1>6. InvUncommitted' BY <1>w DEF UnmarkOwn, InvUncommitted
<1>7. InvUnstarted'
  <2>1. CASE marker' = marker
    BY <1>w, <2>1 DEF InvUnstarted
  <2>2. CASE marker' = [marker EXCEPT ![w[p].s] = @ \ {w[p].att}]
    BY <1>w, <2>2 DEF UnmarkOwn, InvUnstarted
  <2> QED BY <2>1, <2>2 DEF UnmarkOwn
<1>8. InvUnlisted' BY <1>w DEF InvUnlisted
<1>9. InvKnown' BY <1>w DEF UnmarkOwn, InvKnown
<1>10. InvLinked' BY <1>w DEF UnmarkOwn, InvLinked, Linked
<1>11. InvUnmade' BY <1>w DEF UnmarkOwn, InvUnmade
<1>12. InvAlone' BY <1>w DEF InvAlone
<1>13. InvAbsent' BY <1>w DEF UnmarkOwn, InvAbsent
<1>14. InvDisk' BY <1>w DEF UnmarkOwn, InvDisk
<1>15. InvCompleted' BY <1>w DEF UnmarkOwn, InvCompleted
<1>16. InvAborting' BY <1>w DEF UnmarkOwn, InvAborting
<1>17. InvChunk' BY <1>w DEF UnmarkOwn, InvChunk
<1>18. PublishedObjectKept' BY <1>w DEF UnmarkOwn, PublishedObjectKept
<1> QED
  BY <1>t, <1>1, <1>2, <1>3, <1>4, <1>5, <1>6, <1>7, <1>8, <1>9, <1>10,
     <1>11, <1>12, <1>13, <1>14, <1>15, <1>16, <1>17, <1>18

\* The invariant survives the checks of an abort.
LEMMA AbortBeginInv ==
  ASSUME IInv, NEW p \in Procs, NEW s \in Sessions, AbortBegin(p, s)
  PROVE  IInv'
<1>w. /\ w' \in [Procs -> Handler]
      /\ Others(p)
      /\ Started(p, "abort", "list", s)
      /\ w'[p].hit = FALSE
  BY AbortBeginStep
<1>t. TypeOK' BY AbortBeginStep
<1>1. InvWork' BY <1>w DEF InvWork
<1>2. InvFence' BY <1>w DEF AbortBegin, InvFence
<1>3. InvFresh' BY <1>w DEF AbortBegin, InvFresh
<1>4. InvDrawn' BY <1>w DEF AbortBegin, InvDrawn
<1>5. InvDistinct' BY <1>w DEF InvDistinct
<1>6. InvUncommitted' BY <1>w DEF AbortBegin, InvUncommitted
<1>7. InvUnstarted' BY <1>w DEF AbortBegin, InvUnstarted
<1>8. InvUnlisted' BY <1>w DEF InvUnlisted
<1>9. InvKnown' BY <1>w DEF AbortBegin, InvKnown
<1>10. InvLinked' BY <1>w DEF AbortBegin, InvLinked, Linked
<1>11. InvUnmade' BY <1>w DEF AbortBegin, InvUnmade
<1>12. InvAlone' BY <1>w DEF InvAlone
<1>13. InvAbsent' BY <1>w DEF AbortBegin, InvAbsent
<1>14. InvDisk' BY <1>w DEF AbortBegin, InvDisk
<1>15. InvCompleted' BY <1>w DEF AbortBegin, InvCompleted
<1>16. InvAborting' BY <1>w DEF AbortBegin, InvAborting
<1>17. InvChunk' BY <1>w DEF AbortBegin, InvChunk
<1>18. PublishedObjectKept' BY <1>w DEF AbortBegin, PublishedObjectKept
<1> QED
  BY <1>t, <1>1, <1>2, <1>3, <1>4, <1>5, <1>6, <1>7, <1>8, <1>9, <1>10,
     <1>11, <1>12, <1>13, <1>14, <1>15, <1>16, <1>17, <1>18

\* The invariant survives the COMMIT of an abort.
LEMMA AbortCommitInv ==
  ASSUME IInv, NEW p \in Procs, AbortCommit(p)
  PROVE  IInv'
<1>w. /\ w' \in [Procs -> Handler]
      /\ Others(p)
      /\ AtRest(p)
  BY AbortCommitStep
<1>t. TypeOK' BY AbortCommitStep
<1>1. InvWork' BY <1>w DEF InvWork
<1>2. InvFence' BY <1>w DEF InvFence
<1>3. InvFresh' BY <1>w DEF AbortCommit, InvFresh
<1>4. InvDrawn' BY <1>w DEF AbortCommit, InvDrawn
<1>5. InvDistinct' BY <1>w DEF InvDistinct
<1>6. InvUncommitted' BY <1>w DEF AbortCommit, InvUncommitted
<1>7. InvUnstarted' BY <1>w DEF AbortCommit, InvUnstarted
<1>8. InvUnlisted' BY <1>w DEF InvUnlisted
<1>9. InvKnown' BY <1>w DEF AbortCommit, InvKnown
<1>10. InvLinked' BY <1>w DEF AbortCommit, InvLinked, Linked, InvFence
<1>11. InvUnmade' BY <1>w DEF AbortCommit, InvUnmade
<1>12. InvAlone' BY <1>w DEF InvAlone
<1>13. InvAbsent' BY SMTT(120), <1>w DEF AbortCommit, InvAbsent
<1>14. InvDisk' BY <1>w DEF AbortCommit, InvDisk, InvAbsent
<1>15. InvCompleted' BY <1>w DEF AbortCommit, InvCompleted, InvAborting
<1>16. InvAborting' BY <1>w DEF AbortCommit, InvAborting
<1>17. InvChunk' BY <1>w DEF AbortCommit, InvChunk, InvFence
<1>18. PublishedObjectKept' BY <1>w DEF AbortCommit, PublishedObjectKept
<1> QED
  BY <1>t, <1>1, <1>2, <1>3, <1>4, <1>5, <1>6, <1>7, <1>8, <1>9, <1>10,
     <1>11, <1>12, <1>13, <1>14, <1>15, <1>16, <1>17, <1>18

\* The invariant survives the checks of the sweep.
LEMMA ExpireBeginInv ==
  ASSUME IInv, NEW s \in Sessions, ExpireBegin(s)
  PROVE  IInv'
<1>w. /\ w' \in [Procs -> Handler]
      /\ Others(Timer)
      /\ Started(Timer, "expire", "list", s)
      /\ w'[Timer].hit = FALSE
  BY ExpireBeginStep
<1>t. TypeOK' BY ExpireBeginStep
<1>1. InvWork' BY <1>w DEF InvWork
<1>2. InvFence' BY <1>w DEF ExpireBegin, InvFence
<1>3. InvFresh' BY <1>w DEF ExpireBegin, InvFresh
<1>4. InvDrawn' BY <1>w DEF ExpireBegin, InvDrawn
<1>5. InvDistinct' BY <1>w DEF InvDistinct
<1>6. InvUncommitted' BY <1>w DEF ExpireBegin, InvUncommitted
<1>7. InvUnstarted' BY <1>w DEF ExpireBegin, InvUnstarted
<1>8. InvUnlisted' BY <1>w DEF InvUnlisted
<1>9. InvKnown' BY <1>w DEF ExpireBegin, InvKnown
<1>10. InvLinked' BY <1>w DEF ExpireBegin, InvLinked, Linked
<1>11. InvUnmade' BY <1>w DEF ExpireBegin, InvUnmade
<1>12. InvAlone' BY <1>w DEF InvAlone
<1>13. InvAbsent' BY <1>w DEF ExpireBegin, InvAbsent
<1>14. InvDisk' BY <1>w DEF ExpireBegin, InvDisk
<1>15. InvCompleted' BY <1>w DEF ExpireBegin, InvCompleted
<1>16. InvAborting' BY <1>w DEF ExpireBegin, InvAborting
<1>17. InvChunk' BY <1>w DEF ExpireBegin, InvChunk
<1>18. PublishedObjectKept' BY <1>w DEF ExpireBegin, PublishedObjectKept
<1> QED
  BY <1>t, <1>1, <1>2, <1>3, <1>4, <1>5, <1>6, <1>7, <1>8, <1>9, <1>10,
     <1>11, <1>12, <1>13, <1>14, <1>15, <1>16, <1>17, <1>18

\* The invariant survives the COMMIT of the sweep.
LEMMA ExpireCommitInv ==
  ASSUME IInv, ExpireCommit
  PROVE  IInv'
<1>w. /\ w' \in [Procs -> Handler]
      /\ Others(Timer)
      /\ AtRest(Timer)
  BY ExpireCommitStep
<1>t. TypeOK' BY ExpireCommitStep
<1>1. InvWork' BY <1>w DEF InvWork
<1>2. InvFence' BY <1>w DEF InvFence
<1>3. InvFresh' BY <1>w DEF ExpireCommit, InvFresh
<1>4. InvDrawn' BY <1>w DEF ExpireCommit, InvDrawn
<1>5. InvDistinct' BY <1>w DEF InvDistinct
<1>6. InvUncommitted' BY SMTT(120), <1>w DEF ExpireCommit, InvUncommitted
<1>7. InvUnstarted' BY <1>w DEF ExpireCommit, InvUnstarted
<1>8. InvUnlisted' BY <1>w DEF InvUnlisted
<1>9. InvKnown' BY SMTT(120), <1>w DEF ExpireCommit, InvKnown
<1>10. InvLinked'
  BY SMTT(120), <1>w DEF ExpireCommit, InvLinked, Linked, InvUnlisted,
     InvUncommitted,
     InvDistinct, InvFence, InvWork, InvAlone, InvUnmade, InvDrawn, InvAbsent
<1>11. InvUnmade' BY <1>w DEF ExpireCommit, InvUnmade
<1>12. InvAlone' BY <1>w DEF InvAlone
<1>13. InvAbsent' BY <1>w DEF ExpireCommit, InvAbsent
<1>14. InvDisk' BY <1>w DEF ExpireCommit, InvDisk
<1>15. InvCompleted' BY <1>w DEF ExpireCommit, InvCompleted
<1>16. InvAborting' BY <1>w DEF ExpireCommit, InvAborting
<1>17. InvChunk' BY <1>w DEF ExpireCommit, InvChunk, InvFence, InvWork
<1>18. PublishedObjectKept' BY <1>w DEF ExpireCommit, PublishedObjectKept
<1> QED
  BY <1>t, <1>1, <1>2, <1>3, <1>4, <1>5, <1>6, <1>7, <1>8, <1>9, <1>10,
     <1>11, <1>12, <1>13, <1>14, <1>15, <1>16, <1>17, <1>18

\* The invariant survives a step that cannot succeed.
LEMMA FailInv ==
  ASSUME IInv, NEW p \in Procs, Fail(p)
  PROVE  IInv'
<1>u. UNCHANGED <<dbVars, fsVars, expired, next>> BY DEF Fail
<1>w. /\ TypeOK'
      /\ w' \in [Procs -> Handler]
      /\ Others(p)
      /\ \/ AtRest(p)
         \/ /\ w[p].pc \in Unpublished
            /\ Work(p, "undo") /\ View(p) /\ Same(p)
  BY FailStep
<1>1. CASE AtRest(p) BY <1>u, <1>w, <1>1, RestedInv
<1>2. CASE /\ w[p].pc \in Unpublished
           /\ Work(p, "undo") /\ View(p) /\ Same(p)
  BY <1>u, <1>w, <1>2, UndoingInv DEF Unpublished
<1> QED BY <1>w, <1>1, <1>2

\* The invariant survives any other error.
LEMMA FaultInv ==
  ASSUME IInv, NEW p \in Procs, Fault(p)
  PROVE  IInv'
<1>u. UNCHANGED <<dbVars, fsVars, expired, next>> BY DEF Fault
<1>w. /\ TypeOK'
      /\ w' \in [Procs -> Handler]
      /\ Others(p)
      /\ \/ AtRest(p)
         \/ /\ w[p].pc \in Unpublished
            /\ Work(p, "undo") /\ View(p) /\ Same(p)
  BY FaultStep
<1>1. CASE AtRest(p) BY <1>u, <1>w, <1>1, RestedInv
<1>2. CASE /\ w[p].pc \in Unpublished
           /\ Work(p, "undo") /\ View(p) /\ Same(p)
  BY <1>u, <1>w, <1>2, UndoingInv DEF Unpublished
<1> QED BY <1>w, <1>1, <1>2

\* The invariant survives a lost connection.
LEMMA LoseConnectionInv ==
  ASSUME IInv, NEW p \in Procs, LoseConnection(p)
  PROVE  IInv'
<1>w. /\ w' \in [Procs -> Handler]
      /\ Others(p)
      /\ Work(p, w[p].pc)
      /\ View(p)
      /\ w'[p].buf = w[p].buf
      /\ w'[p].hit = w[p].hit
      /\ w'[p].conn = FALSE
  BY LoseConnectionStep
<1>t. TypeOK' BY LoseConnectionStep
<1>1. InvWork'
  <2>1. w[p].pc # "idle" BY IdleFacts DEF LoseConnection
  <2> QED BY <1>w, <2>1 DEF InvWork
<1>2. InvFence' BY <1>w DEF InvFence
<1>3. InvFresh' BY <1>w DEF LoseConnection, InvFresh
<1>4. InvDrawn' BY <1>w DEF LoseConnection, InvDrawn
<1>5. InvDistinct' BY <1>w DEF InvDistinct
<1>6. InvUncommitted' BY <1>w DEF LoseConnection, InvUncommitted
<1>7. InvUnstarted' BY <1>w DEF LoseConnection, InvUnstarted
<1>8. InvUnlisted' BY <1>w DEF InvUnlisted
<1>9. InvKnown' BY <1>w DEF LoseConnection, InvKnown
<1>10. InvLinked' BY <1>w DEF LoseConnection, InvLinked, Linked
<1>11. InvUnmade' BY <1>w DEF LoseConnection, InvUnmade
<1>12. InvAlone' BY <1>w DEF InvAlone
<1>13. InvAbsent' BY <1>w DEF LoseConnection, InvAbsent
<1>14. InvDisk' BY <1>w DEF LoseConnection, InvDisk
<1>15. InvCompleted' BY <1>w DEF LoseConnection, InvCompleted
<1>16. InvAborting' BY <1>w DEF LoseConnection, InvAborting
<1>17. InvChunk' BY <1>w DEF LoseConnection, InvChunk
<1>18. PublishedObjectKept' BY <1>w DEF LoseConnection, PublishedObjectKept
<1> QED
  BY <1>t, <1>1, <1>2, <1>3, <1>4, <1>5, <1>6, <1>7, <1>8, <1>9, <1>10,
     <1>11, <1>12, <1>13, <1>14, <1>15, <1>16, <1>17, <1>18

\* The invariant survives a crash.
LEMMA CrashInv ==
  ASSUME IInv, Crash
  PROVE  IInv'
<1>w. /\ w' \in [Procs -> Handler]
      /\ \A p \in Procs : AtRest(p)
  BY CrashStep
<1>t. TypeOK' BY CrashStep
<1>1. InvWork' BY <1>w DEF InvWork
<1>2. InvFence' BY <1>w DEF InvFence
<1>3. InvFresh' BY <1>w DEF Crash, InvFresh
<1>4. InvDrawn' BY <1>w DEF InvDrawn
<1>5. InvDistinct' BY <1>w DEF InvDistinct
<1>6. InvUncommitted' BY <1>w DEF InvUncommitted
<1>7. InvUnstarted' BY <1>w DEF InvUnstarted
<1>8. InvUnlisted' BY <1>w DEF InvUnlisted
<1>9. InvKnown' BY <1>w DEF InvKnown
<1>10. InvLinked' BY <1>w DEF InvLinked, Linked
<1>11. InvUnmade' BY <1>w DEF InvUnmade
<1>12. InvAlone' BY <1>w DEF InvAlone
<1>13. InvAbsent' BY <1>w DEF Crash, InvAbsent
<1>14. InvDisk' BY <1>w DEF Crash, InvDisk
<1>15. InvCompleted' BY <1>w DEF Crash, InvCompleted
<1>16. InvAborting' BY <1>w DEF InvAborting
<1>17. InvChunk' BY <1>w DEF InvChunk
<1>18. PublishedObjectKept' BY <1>w DEF Crash, PublishedObjectKept
<1> QED
  BY <1>t, <1>1, <1>2, <1>3, <1>4, <1>5, <1>6, <1>7, <1>8, <1>9, <1>10,
     <1>11, <1>12, <1>13, <1>14, <1>15, <1>16, <1>17, <1>18

\* The invariant survives a start of the server.
LEMMA RestartInv ==
  ASSUME IInv, Restart
  PROVE  IInv'
<1>w. /\ w' \in [Procs -> Handler]
      /\ w' = w
  BY RestartStep
<1>t. TypeOK' BY RestartStep
<1>1. InvWork' BY <1>w DEF InvWork
<1>2. InvFence' BY <1>w DEF InvFence
<1>3. InvFresh' BY <1>w DEF Restart, InvFresh
<1>4. InvDrawn' BY <1>w DEF Restart, InvDrawn
<1>5. InvDistinct' BY <1>w DEF InvDistinct
<1>6. InvUncommitted' BY <1>w DEF Restart, InvUncommitted
<1>7. InvUnstarted' BY <1>w DEF Restart, InvUnstarted, InvWork
<1>8. InvUnlisted' BY <1>w DEF InvUnlisted
<1>9. InvKnown' BY <1>w DEF Restart, InvKnown
<1>10. InvLinked' BY <1>w DEF Restart, InvLinked, Linked
<1>11. InvUnmade' BY <1>w DEF Restart, InvUnmade, InvWork
<1>12. InvAlone' BY <1>w DEF InvAlone
<1>13. InvAbsent' BY <1>w DEF Restart, InvAbsent
<1>14. InvDisk' BY <1>w DEF Restart, InvDisk
<1>15. InvCompleted' BY <1>w DEF Restart, InvCompleted
<1>16. InvAborting' BY <1>w DEF Restart, InvAborting
<1>17. InvChunk' BY <1>w DEF Restart, InvChunk
<1>18. PublishedObjectKept' BY <1>w DEF Restart, PublishedObjectKept
<1> QED
  BY <1>t, <1>1, <1>2, <1>3, <1>4, <1>5, <1>6, <1>7, <1>8, <1>9, <1>10,
     <1>11, <1>12, <1>13, <1>14, <1>15, <1>16, <1>17, <1>18

\* The invariant survives the clock.
LEMMA TickInv ==
  ASSUME IInv, NEW s \in Sessions, Tick(s)
  PROVE  IInv'
<1>w. /\ w' \in [Procs -> Handler]
      /\ w' = w
  BY TickStep
<1>t. TypeOK' BY TickStep
<1>1. InvWork' BY <1>w DEF InvWork
<1>2. InvFence' BY <1>w DEF InvFence
<1>3. InvFresh' BY <1>w DEF Tick, InvFresh
<1>4. InvDrawn' BY <1>w DEF Tick, InvDrawn
<1>5. InvDistinct' BY <1>w DEF InvDistinct
<1>6. InvUncommitted' BY <1>w DEF Tick, InvUncommitted
<1>7. InvUnstarted' BY <1>w DEF Tick, InvUnstarted
<1>8. InvUnlisted' BY <1>w DEF InvUnlisted
<1>9. InvKnown' BY <1>w DEF Tick, InvKnown
<1>10. InvLinked' BY <1>w DEF Tick, InvLinked, Linked
<1>11. InvUnmade' BY <1>w DEF Tick, InvUnmade
<1>12. InvAlone' BY <1>w DEF InvAlone
<1>13. InvAbsent' BY <1>w DEF Tick, InvAbsent
<1>14. InvDisk' BY <1>w DEF Tick, InvDisk
<1>15. InvCompleted' BY <1>w DEF Tick, InvCompleted
<1>16. InvAborting' BY <1>w DEF Tick, InvAborting
<1>17. InvChunk' BY <1>w DEF Tick, InvChunk
<1>18. PublishedObjectKept' BY <1>w DEF Tick, PublishedObjectKept
<1> QED
  BY <1>t, <1>1, <1>2, <1>3, <1>4, <1>5, <1>6, <1>7, <1>8, <1>9, <1>10,
     <1>11, <1>12, <1>13, <1>14, <1>15, <1>16, <1>17, <1>18

\* The invariant survives a charge by another service.
LEMMA ChargeInv ==
  ASSUME IInv, NEW b \in OtherBytes, Charge(b)
  PROVE  IInv'
<1>w. /\ w' \in [Procs -> Handler]
      /\ w' = w
  BY ChargeStep
<1>t. TypeOK' BY ChargeStep
<1>1. InvWork' BY <1>w DEF InvWork
<1>2. InvFence' BY <1>w DEF InvFence
<1>3. InvFresh' BY <1>w DEF Charge, InvFresh
<1>4. InvDrawn' BY <1>w DEF Charge, InvDrawn
<1>5. InvDistinct' BY <1>w DEF InvDistinct
<1>6. InvUncommitted' BY <1>w DEF Charge, InvUncommitted
<1>7. InvUnstarted' BY <1>w DEF Charge, InvUnstarted
<1>8. InvUnlisted' BY <1>w DEF InvUnlisted
<1>9. InvKnown' BY <1>w DEF Charge, InvKnown
<1>10. InvLinked' BY <1>w DEF Charge, InvLinked, Linked
<1>11. InvUnmade' BY <1>w DEF Charge, InvUnmade
<1>12. InvAlone' BY <1>w DEF InvAlone
<1>13. InvAbsent' BY <1>w DEF Charge, InvAbsent
<1>14. InvDisk' BY <1>w DEF Charge, InvDisk
<1>15. InvCompleted' BY <1>w DEF Charge, InvCompleted
<1>16. InvAborting' BY <1>w DEF Charge, InvAborting
<1>17. InvChunk' BY <1>w DEF Charge, InvChunk
<1>18. PublishedObjectKept' BY <1>w DEF Charge, PublishedObjectKept
<1> QED
  BY <1>t, <1>1, <1>2, <1>3, <1>4, <1>5, <1>6, <1>7, <1>8, <1>9, <1>10,
     <1>11, <1>12, <1>13, <1>14, <1>15, <1>16, <1>17, <1>18

\* The invariant survives a release by another service.
LEMMA ReleaseInv ==
  ASSUME IInv, NEW b \in OtherBytes, Release(b)
  PROVE  IInv'
<1>w. /\ w' \in [Procs -> Handler]
      /\ w' = w
  BY ReleaseStep
<1>t. TypeOK' BY ReleaseStep
<1>1. InvWork' BY <1>w DEF InvWork
<1>2. InvFence' BY <1>w DEF InvFence
<1>3. InvFresh' BY <1>w DEF Release, InvFresh
<1>4. InvDrawn' BY <1>w DEF Release, InvDrawn
<1>5. InvDistinct' BY <1>w DEF InvDistinct
<1>6. InvUncommitted' BY <1>w DEF Release, InvUncommitted
<1>7. InvUnstarted' BY <1>w DEF Release, InvUnstarted
<1>8. InvUnlisted' BY <1>w DEF InvUnlisted
<1>9. InvKnown' BY <1>w DEF Release, InvKnown
<1>10. InvLinked' BY <1>w DEF Release, InvLinked, Linked
<1>11. InvUnmade' BY <1>w DEF Release, InvUnmade
<1>12. InvAlone' BY <1>w DEF InvAlone
<1>13. InvAbsent' BY <1>w DEF Release, InvAbsent
<1>14. InvDisk' BY <1>w DEF Release, InvDisk
<1>15. InvCompleted' BY <1>w DEF Release, InvCompleted
<1>16. InvAborting' BY <1>w DEF Release, InvAborting
<1>17. InvChunk' BY <1>w DEF Release, InvChunk
<1>18. PublishedObjectKept' BY <1>w DEF Release, PublishedObjectKept
<1> QED
  BY <1>t, <1>1, <1>2, <1>3, <1>4, <1>5, <1>6, <1>7, <1>8, <1>9, <1>10,
     <1>11, <1>12, <1>13, <1>14, <1>15, <1>16, <1>17, <1>18

\* The invariant survives the deletion of a published file.
LEMMA DeleteFileInv ==
  ASSUME IInv, NEW s \in Sessions, DeleteFile(s)
  PROVE  IInv'
<1>w. /\ w' \in [Procs -> Handler]
      /\ w' = w
  BY DeleteFileStep
<1>t. TypeOK' BY DeleteFileStep
<1>1. InvWork' BY <1>w DEF InvWork
<1>2. InvFence' BY <1>w DEF InvFence
<1>3. InvFresh' BY <1>w DEF DeleteFile, InvFresh
<1>4. InvDrawn' BY <1>w DEF DeleteFile, InvDrawn
<1>5. InvDistinct' BY <1>w DEF InvDistinct
<1>6. InvUncommitted'
  <2> SUFFICES ASSUME NEW p \in Procs, w[p].op = "complete",
                      w[p].pc # "deltemp"
               PROVE  file'[w[p].s] # w[p].att
    BY <1>w DEF InvUncommitted
  <2>1. w[p].s \in Sessions /\ w[p].att \in Keys BY IdleFacts DEF InvWork
  <2> QED BY <2>1 DEF DeleteFile, InvUncommitted
<1>7. InvUnstarted' BY <1>w DEF DeleteFile, InvUnstarted
<1>8. InvUnlisted' BY <1>w DEF InvUnlisted
<1>9. InvKnown'
  <2> SUFFICES ASSUME NEW p \in Procs, w[p].pc \in {"unlink", "unmark"},
                      NEW k \in w[p].seen \cup {0}, file'[w[p].s] = k
               PROVE  w[p].comm = k
    BY <1>w DEF InvKnown
  <2>1. w[p].s \in Sessions /\ k \in Keys BY DEF InvWork
  <2> QED BY <2>1 DEF DeleteFile, InvKnown
<1>10. InvLinked' BY <1>w DEF DeleteFile, InvLinked, Linked, InvWork
<1>11. InvUnmade' BY <1>w DEF DeleteFile, InvUnmade
<1>12. InvAlone' BY <1>w DEF InvAlone
<1>13. InvAbsent' BY <1>w DEF DeleteFile, InvAbsent
<1>14. InvDisk' BY <1>w DEF DeleteFile, InvDisk
<1>15. InvCompleted' BY <1>w DEF DeleteFile, InvCompleted
<1>16. InvAborting' BY <1>w DEF DeleteFile, InvAborting
<1>17. InvChunk' BY <1>w DEF DeleteFile, InvChunk
<1>18. PublishedObjectKept' BY <1>w DEF DeleteFile, PublishedObjectKept
<1> QED
  BY <1>t, <1>1, <1>2, <1>3, <1>4, <1>5, <1>6, <1>7, <1>8, <1>9, <1>10,
     <1>11, <1>12, <1>13, <1>14, <1>15, <1>16, <1>17, <1>18

\* The initial state satisfies the invariant: nothing has been asked for yet.
LEMMA InitInv == Init => IInv
<1> SUFFICES ASSUME Init PROVE IInv OBVIOUS
<1>t. TypeOK BY IdleHandler DEF Init, Statuses, Rows, Bodies
<1>w. \A p \in Procs : /\ w[p] = Idle /\ w[p].op = "idle" /\ w[p].pc = "idle"
                       /\ w[p].s = None /\ w[p].conn = FALSE /\ w[p].seen = {}
                       /\ w[p].hit = FALSE
  BY DEF Init, Idle
<1>1. InvWork /\ InvFence /\ InvDistinct
  BY <1>w DEF InvWork, InvFence, InvDistinct
<1>2. InvFresh /\ InvDrawn BY <1>w DEF Init, InvFresh, InvDrawn
<1>3. InvUncommitted /\ InvUnstarted /\ InvUnlisted /\ InvKnown /\ InvLinked
  BY <1>w DEF InvUncommitted, InvUnstarted, InvUnlisted, InvKnown, InvLinked
<1>4. InvUnmade /\ InvAlone BY <1>w DEF InvUnmade, InvAlone
<1>5. InvAbsent BY <1>w DEF Init, InvAbsent
<1>6. InvDisk BY <1>w DEF Init, InvDisk
<1>7. InvCompleted BY <1>w DEF Init, InvCompleted
<1>8. InvAborting /\ InvChunk BY <1>w DEF InvAborting, InvChunk
<1>9. PublishedObjectKept BY DEF Init, PublishedObjectKept
<1> QED BY <1>t, <1>1, <1>2, <1>3, <1>4, <1>5, <1>6, <1>7, <1>8, <1>9

\* The invariant survives a step that changes nothing.
LEMMA StutterInv == IInv /\ UNCHANGED vars => IInv'
<1> SUFFICES ASSUME IInv, UNCHANGED vars PROVE IInv' OBVIOUS
<1> USE DEF vars
<1>0. TypeOK' OBVIOUS
<1>1. InvWork' BY DEF InvWork
<1>2. InvFence' BY DEF InvFence
<1>3. InvFresh' BY DEF InvFresh
<1>4. InvDrawn' BY DEF InvDrawn
<1>5. InvDistinct' BY DEF InvDistinct
<1>6. InvUncommitted' BY DEF InvUncommitted
<1>7. InvUnstarted' BY DEF InvUnstarted
<1>8. InvUnlisted' BY DEF InvUnlisted
<1>9. InvKnown' BY DEF InvKnown
<1>10. InvLinked' BY DEF InvLinked, Linked
<1>11. InvUnmade' BY DEF InvUnmade
<1>12. InvAlone' BY DEF InvAlone
<1>13. InvAbsent' BY DEF InvAbsent
<1>14. InvDisk' BY DEF InvDisk
<1>15. InvCompleted' BY DEF InvCompleted
<1>16. InvAborting' BY DEF InvAborting
<1>17. InvChunk' BY DEF InvChunk
<1>18. PublishedObjectKept' BY DEF PublishedObjectKept
<1> QED
  BY <1>0, <1>1, <1>2, <1>3, <1>4, <1>5, <1>6, <1>7, <1>8, <1>9, <1>10,
     <1>11, <1>12, <1>13, <1>14, <1>15, <1>16, <1>17, <1>18

\* Every step keeps the invariant, one case per disjunct of Next.
LEMMA NextInv ==
  ASSUME IInv, Next
  PROVE  IInv'
<1>1. ASSUME NEW p \in Procs, Request(p) PROVE IInv'
  <2>1. PICK s \in Sessions :
          \/ Create(p, s)
          \/ \E i \in Chunks, c \in Contents : ChunkBegin(p, s, i, c)
          \/ ReconcileBegin(p, s)
          \/ CompleteBegin(p, s)
          \/ AbortBegin(p, s)
    BY <1>1 DEF Request
  <2> QED
    BY <2>1, CreateInv, ChunkBeginInv, ReconcileBeginInv, CompleteBeginInv,
       AbortBeginInv
<1>2. ASSUME NEW p \in Procs, UploadStep(p) PROVE IInv'
  BY <1>2, MkdirInv, MkdirFailsInv, ChunkRenameInv, RowsCommitInv DEF UploadStep
<1>3. ASSUME NEW p \in Procs, CleanupStep(p) PROVE IInv'
  BY <1>3, ListInv, QueryInv, UnlinkInv, UnmarkInv, CleanupDoneInv
  DEF CleanupStep
<1>4. ASSUME NEW p \in Procs, CompleteStep(p) PROVE IInv'
  BY <1>4, StartAttemptInv, ReadChunkInv, SealInv, PublishBeginInv, LinkInv,
     SaveInv, PublishCommitInv, RepairInv, DeleteTempFilesInv, UndoInv,
     UnmarkOwnInv DEF CompleteStep
<1>5. ASSUME NEW p \in Procs, HandlerStep(p) PROVE IInv'
  BY <1>2, <1>3, <1>4, <1>5, AbortCommitInv, FailInv DEF HandlerStep
<1>6. ASSUME Sweep PROVE IInv'
  BY <1>6, ExpireBeginInv, ExpireCommitInv DEF Sweep
<1>7. ASSUME Failure PROVE IInv'
  BY <1>7, CrashInv, RestartInv, FaultInv, LoseConnectionInv DEF Failure
<1>8. ASSUME Environment PROVE IInv'
  BY <1>8, TickInv, DeleteFileInv, ChargeInv, ReleaseInv DEF Environment
<1> QED BY <1>1, <1>5, <1>6, <1>7, <1>8 DEF Next

\* IInv is an invariant.
THEOREM Invariance == Spec => []IInv
<1>1. Init => IInv BY InitInv
<1>2. IInv /\ [Next]_vars => IInv' BY StutterInv, NextInv
<1> QED BY <1>1, <1>2, PTL DEF Spec

\* The rows, the directories and the handlers keep their types.
THEOREM TypeCorrect == Spec => []TypeOK
<1>1. IInv => TypeOK OBVIOUS
<1> QED BY <1>1, Invariance, PTL

\* A committed File that its owner did not delete has its object on the disk,
\* whatever cleanups, aborts, retries, crashes and lost connections do.
THEOREM ObjectKept == Spec => []PublishedObjectKept
<1>1. IInv => PublishedObjectKept OBVIOUS
<1> QED BY <1>1, Invariance, PTL

-----------------------------------------------------------------------------
(* Which steps touch the File rows *)

\* Only a publication's COMMIT and a deletion write a File row.
LEMMA FileWriters ==
  ASSUME Next
  PROVE  \/ file' = file
         \/ \E p \in Procs : PublishCommit(p)
         \/ \E s \in Sessions : DeleteFile(s)
<1> USE DEF dbVars
<1>1. ASSUME NEW p \in Procs, Request(p) PROVE file' = file
  BY <1>1 DEF Request, Create, ChunkBegin, ReconcileBegin, CompleteBegin,
     AbortBegin
<1>2. ASSUME NEW p \in Procs, UploadStep(p) PROVE file' = file
  BY <1>2 DEF UploadStep, Mkdir, MkdirFails, ChunkRename, RowsCommit
<1>3. ASSUME NEW p \in Procs, CleanupStep(p) PROVE file' = file
  BY <1>3 DEF CleanupStep, List, Query, Unlink, Unmark, CleanupDone
<1>4. ASSUME NEW p \in Procs, CompleteStep(p), ~PublishCommit(p)
      PROVE  file' = file
  BY <1>4 DEF CompleteStep, StartAttempt, ReadChunk, Seal, PublishBegin, Link,
     Save, Repair, DeleteTempFiles, Undo, UnmarkOwn
<1>5. ASSUME NEW p \in Procs, AbortCommit(p) \/ Fail(p) PROVE file' = file
  BY <1>5 DEF AbortCommit, Fail
<1>6. ASSUME Sweep PROVE file' = file
  BY <1>6 DEF Sweep, ExpireBegin, ExpireCommit
<1>7. ASSUME Failure PROVE file' = file
  BY <1>7 DEF Failure, Crash, Restart, Fault, LoseConnection
<1>8. ASSUME Environment PROVE \/ file' = file
                               \/ \E s \in Sessions : DeleteFile(s)
  BY <1>8 DEF Environment, Tick, Charge, Release
<1> QED
  BY <1>1, <1>2, <1>3, <1>4, <1>5, <1>6, <1>7, <1>8 DEF Next, HandlerStep

\* What an open publication is about to commit.
LEMMA Committing ==
  ASSUME IInv, NEW p \in Procs, PublishCommit(p)
  PROVE  /\ w[p].s \in Sessions /\ w[p].att \in Attempts /\ w[p].buf \in Bodies
         /\ file[w[p].s] \notin Keys /\ status[w[p].s] \in Active
         /\ obj[w[p].s][w[p].att] = w[p].buf
         /\ Want[w[p].s] \in {None, w[p].buf}
         /\ \A i \in Chunks : rec[w[p].s][i] \in {None, w[p].buf[i]}
<1>1. Publishing(p) /\ w[p].pc = "commit" /\ w[p].s \in Sessions
  BY DEF PublishCommit, At, IInv, InvWork, AttemptLabels, Publishing
<1>2. w[p].buf \in Bodies /\ w[p].att \in Attempts
  BY <1>1 DEF IInv, InvWork, InvDrawn, Publishing
<1>3. \A i \in Chunks : w[p].buf[i] # None
  BY <1>2, ConstantsAssumption DEF Bodies
<1> QED
  BY <1>1, <1>2, <1>3 DEF IInv, InvLinked, Linked

\* Every publication, however the attempts of a session interleave, publishes
\* the chunks the client was acknowledged and the digest it declared.
THEOREM RecordedBytes == Spec => PublishesRecordedBytes
<1> DEFINE Recorded ==
      \A s \in Sessions :
        file'[s] # file[s] /\ file'[s] \in Attempts =>
          LET body == obj[s][file'[s]] IN
          /\ \A i \in Chunks : rec[s][i] \in {None, body[i]}
          /\ Want[s] \in {None, body}
<1>1. IInv /\ [Next]_vars => [Recorded]_vars
  <2> SUFFICES ASSUME IInv, Next PROVE Recorded
    OBVIOUS
  <2>1. ASSUME NEW p \in Procs, PublishCommit(p) PROVE Recorded
    <3>1. /\ file' = [file EXCEPT ![w[p].s] = w[p].att]
          /\ file \in [Sessions -> Keys \cup {None, Deleted}]
      BY <2>1 DEF PublishCommit, IInv, TypeOK
    <3>2. /\ w[p].s \in Sessions /\ obj[w[p].s][w[p].att] = w[p].buf
          /\ Want[w[p].s] \in {None, w[p].buf}
          /\ \A i \in Chunks : rec[w[p].s][i] \in {None, w[p].buf[i]}
      BY <2>1, Committing
    <3>3. /\ file'[w[p].s] = w[p].att
          /\ \A s \in Sessions \ {w[p].s} : file'[s] = file[s]
      BY <3>1, <3>2
    <3>4. ASSUME NEW s \in Sessions, file'[s] # file[s]
          PROVE  s = w[p].s /\ file'[s] = w[p].att
      BY <3>3, <3>4
    <3> QED
      BY <3>2, <3>4
  <2>2. ASSUME NEW s \in Sessions, DeleteFile(s) PROVE Recorded
    <3>1. /\ file' = [file EXCEPT ![s] = Deleted]
          /\ file \in [Sessions -> Keys \cup {None, Deleted}]
      BY <2>2 DEF DeleteFile, IInv, TypeOK
    <3> QED
      BY <3>1, Consts
  <2> QED
    BY <2>1, <2>2, FileWriters
<1> QED
  BY <1>1, Invariance, PTL DEF Spec, PublishesRecordedBytes

-----------------------------------------------------------------------------
(* The owner's view of a session *)

\* The phase and the content of a session, from its rows and its object.
LEMMA Views ==
  /\ \A s \in Sessions : file[s] \in Keys =>
       PhaseOf[s] = "published" /\ ContentOf[s] = obj[s][file[s]]
  /\ \A s \in Sessions : file[s] \notin Keys =>
       /\ ContentOf[s] = None
       /\ status[s] = "none" => PhaseOf[s] = "absent"
       /\ status[s] \in Active => PhaseOf[s] = "open"
       /\ status[s] \notin Active \cup {"none"} => PhaseOf[s] = "over"
  BY DEF PhaseOf, ContentOf, Active

\* The same, after a step.
LEMMA ViewsNext ==
  /\ \A s \in Sessions : file'[s] \in Keys =>
       PhaseOf'[s] = "published" /\ ContentOf'[s] = obj'[s][file'[s]]
  /\ \A s \in Sessions : file'[s] \notin Keys =>
       /\ ContentOf'[s] = None
       /\ status'[s] = "none" => PhaseOf'[s] = "absent"
       /\ status'[s] \in Active => PhaseOf'[s] = "open"
       /\ status'[s] \notin Active \cup {"none"} => PhaseOf'[s] = "over"
  BY DEF PhaseOf, ContentOf, Active

\* A step looks the same to the owner of s.
Unseen(s) == /\ status'[s] = status[s] /\ file'[s] = file[s]
             /\ file[s] \in Keys => obj'[s][file[s]] = obj[s][file[s]]

\* A step that looks the same to the owner changes neither phase nor content.
LEMMA UnseenView ==
  ASSUME NEW s \in Sessions, Unseen(s)
  PROVE  PhaseOf'[s] = PhaseOf[s] /\ ContentOf'[s] = ContentOf[s]
  BY DEF Unseen, PhaseOf, ContentOf

\* Phase and content are functions: equal at every session, they are equal.
LEMMA NothingSeen ==
  ASSUME \A s \in Sessions : /\ PhaseOf'[s] = PhaseOf[s]
                              /\ ContentOf'[s] = ContentOf[s]
  PROVE  UNCHANGED <<PhaseOf, ContentOf>>
<1>1. /\ PhaseOf = [s \in Sessions |-> PhaseOf[s]]
      /\ PhaseOf' = [s \in Sessions |-> PhaseOf'[s]]
  BY DEF PhaseOf
<1>2. /\ ContentOf = [s \in Sessions |-> ContentOf[s]]
      /\ ContentOf' = [s \in Sessions |-> ContentOf'[s]]
  BY DEF ContentOf
<1> QED
  BY <1>1, <1>2

\* A step that moves one session and is unseen by the others is a UP!Move.
LEMMA Moved ==
  ASSUME NEW s \in Sessions, NEW from, NEW to, NEW body,
         \A r \in Sessions \ {s} : Unseen(r),
         PhaseOf[s] = from, PhaseOf'[s] = to, ContentOf'[s] = body
  PROVE  UP!Move(s, from, to, body)
<1>1. \A r \in Sessions \ {s} : /\ PhaseOf'[r] = PhaseOf[r]
                                /\ ContentOf'[r] = ContentOf[r]
  BY UnseenView
<1>2. /\ PhaseOf = [r \in Sessions |-> PhaseOf[r]]
      /\ PhaseOf' = [r \in Sessions |-> PhaseOf'[r]]
  BY DEF PhaseOf
<1>3. /\ ContentOf = [r \in Sessions |-> ContentOf[r]]
      /\ ContentOf' = [r \in Sessions |-> ContentOf'[r]]
  BY DEF ContentOf
<1>4. PhaseOf' = [PhaseOf EXCEPT ![s] = to]
  BY <1>1, <1>2
<1>5. ContentOf' = [ContentOf EXCEPT ![s] = body]
  BY <1>1, <1>3
<1> QED
  BY <1>4, <1>5 DEF UP!Move

\* A step as the owners see it.
Seen == UP!Next \/ UNCHANGED <<PhaseOf, ContentOf>>

\* A step unseen by every owner is a stutter of the promise.
LEMMA AllUnseen ==
  ASSUME \A s \in Sessions : Unseen(s)
  PROVE  Seen
  BY UnseenView, NothingSeen DEF Seen

\* Only these steps write a session's status, its File row or an object.
LEMMA Unwritten ==
  ASSUME UNCHANGED <<status, file, obj>>
  PROVE  Seen
  BY AllUnseen DEF Unseen

\* An upload that was open, or over, before a step and is over after it.
LEMMA Closed ==
  ASSUME NEW s \in Sessions, UNCHANGED <<file, obj>>,
         \A r \in Sessions \ {s} : status'[r] = status[r],
         status[s] # "none", status'[s] \notin Active \cup {"none"}
  PROVE  Seen
<1>1. \A r \in Sessions \ {s} : Unseen(r)
  BY DEF Unseen
<1>2. CASE file[s] \in Keys
  <2>1. PhaseOf'[s] = PhaseOf[s] /\ ContentOf'[s] = ContentOf[s]
    BY <1>2, Views, ViewsNext
  <2> QED
    BY <1>1, <2>1, UnseenView, NothingSeen DEF Seen
<1>3. CASE file[s] \notin Keys /\ status[s] \in Active
  <2>1. UP!Close(s)
    BY <1>1, <1>3, Views, ViewsNext, Moved DEF UP!Close
  <2> QED
    BY <2>1 DEF Seen, UP!Next
<1>4. CASE file[s] \notin Keys /\ status[s] \notin Active
  <2>1. PhaseOf'[s] = PhaseOf[s] /\ ContentOf'[s] = ContentOf[s]
    BY <1>4, Views, ViewsNext
  <2> QED
    BY <1>1, <2>1, UnseenView, NothingSeen DEF Seen
<1> QED
  BY <1>2, <1>3, <1>4

\* A created session opens an upload.
LEMMA CreateSeen ==
  ASSUME IInv, NEW p \in Procs, NEW s \in Sessions, Create(p, s)
  PROVE  Seen
<1>1. /\ status' = [status EXCEPT ![s] = "pending"] /\ UNCHANGED <<file, obj>>
      /\ status[s] = "none" /\ status \in [Sessions -> Statuses]
  BY DEF Create, fsVars, IInv, TypeOK
<1>2. file[s] \notin Keys
  BY <1>1, Consts DEF IInv, InvAbsent
<1>3. UP!Open(s)
  BY <1>1, <1>2, Views, ViewsNext, Moved DEF UP!Open, Unseen, Active
<1> QED
  BY <1>3 DEF Seen, UP!Next

\* A failed creation closes the upload it opened.
LEMMA MkdirFailsSeen ==
  ASSUME IInv, NEW p \in Procs, MkdirFails(p)
  PROVE  Seen
<1>1. /\ w[p].s \in Sessions /\ status[w[p].s] # "none"
      /\ status' = [status EXCEPT ![w[p].s] = "gone"] /\ UNCHANGED <<file, obj>>
      /\ status \in [Sessions -> Statuses]
  BY DEF MkdirFails, At, fsVars, IInv, TypeOK, InvWork, InvAbsent
<1> QED
  BY <1>1, Closed DEF Active

\* Chunk rows change an open upload in no way its owner can see.
LEMMA RowsCommitSeen ==
  ASSUME IInv, NEW p \in Procs, RowsCommit(p)
  PROVE  Seen
<1> DEFINE s == w[p].s
<1>1. /\ s \in Sessions /\ UNCHANGED <<file, obj>>
      /\ \/ status' = status
         \/ /\ status[s] \in Active
            /\ status' = [status EXCEPT ![s] = "uploading"]
      /\ status \in [Sessions -> Statuses]
  BY DEF RowsCommit, At, fsVars, IInv, TypeOK, InvWork, InvChunk
<1>2. \A r \in Sessions \ {s} : Unseen(r)
  BY <1>1 DEF Unseen
<1>3. PhaseOf'[s] = PhaseOf[s] /\ ContentOf'[s] = ContentOf[s]
  <2> HIDE DEF s
  <2>1. /\ s \in Sessions /\ file'[s] = file[s] /\ obj'[s] = obj[s]
        /\ \/ status'[s] = status[s]
           \/ status[s] \in Active /\ status'[s] \in Active
    BY <1>1 DEF Active
  <2>2. CASE file[s] \in Keys
    BY <2>1, <2>2, Views, ViewsNext
  <2>3. CASE file[s] \notin Keys
    <3>1. ContentOf[s] = None /\ ContentOf'[s] = None
      BY <2>1, <2>3, Views, ViewsNext
    <3>2. CASE status[s] \in Active
      BY <2>1, <2>3, <3>1, <3>2, Views, ViewsNext
    <3>3. CASE status[s] \notin Active
      BY <2>1, <2>3, <3>1, <3>3, Views, ViewsNext
    <3> QED
      BY <3>2, <3>3
  <2> QED
    BY <2>2, <2>3
<1> QED
  BY <1>2, <1>3, UnseenView, NothingSeen DEF Seen

\* A publication's COMMIT publishes the assembled body, once.
LEMMA PublishCommitSeen ==
  ASSUME IInv, NEW p \in Procs, PublishCommit(p)
  PROVE  Seen
<1> DEFINE s == w[p].s
<1>1. /\ s \in Sessions /\ w[p].att \in Keys /\ w[p].buf \in Bodies
      /\ file[s] \notin Keys /\ status[s] \in Active
      /\ obj[s][w[p].att] = w[p].buf
  BY Committing, Consts
<1>2. /\ status' = [status EXCEPT ![s] = "completed"] /\ UNCHANGED obj
      /\ file' = [file EXCEPT ![s] = w[p].att]
      /\ status \in [Sessions -> Statuses]
      /\ file \in [Sessions -> Keys \cup {None, Deleted}]
  BY DEF PublishCommit, fsVars, IInv, TypeOK
<1>3. UP!Publish(s, w[p].buf)
  BY <1>1, <1>2, Views, ViewsNext, Moved DEF UP!Publish, Unseen
<1> QED
  BY <1>1, <1>3 DEF Seen, UP!Next

\* Marking a published session completed shows nothing.
LEMMA RepairSeen ==
  ASSUME IInv, NEW p \in Procs, Repair(p)
  PROVE  Seen
<1>1. /\ w[p].s \in Sessions /\ status[w[p].s] # "none"
      /\ status' = [status EXCEPT ![w[p].s] = "completed"]
      /\ UNCHANGED <<file, obj>> /\ status \in [Sessions -> Statuses]
  BY DEF Repair, At, fsVars, IInv, TypeOK, InvWork, InvAbsent
<1> QED
  BY <1>1, Closed DEF Active

\* An abort closes the upload, or leaves it over.
LEMMA AbortCommitSeen ==
  ASSUME IInv, NEW p \in Procs, AbortCommit(p)
  PROVE  Seen
<1>1. /\ w[p].s \in Sessions /\ status[w[p].s] # "none"
      /\ status' = [status EXCEPT ![w[p].s] = "aborted"]
      /\ UNCHANGED <<file, obj>> /\ status \in [Sessions -> Statuses]
  BY DEF AbortCommit, At, fsVars, IInv, TypeOK, InvWork, InvAbsent
<1> QED
  BY <1>1, Closed DEF Active

\* The sweep closes the upload, or leaves it as it is.
LEMMA ExpireCommitSeen ==
  ASSUME IInv, ExpireCommit
  PROVE  Seen
<1>1. /\ w[Timer].s \in Sessions /\ status[w[Timer].s] # "none"
      /\ status \in [Sessions -> Statuses] /\ UNCHANGED <<file, obj>>
      /\ \/ status' = status
         \/ status' = [status EXCEPT ![w[Timer].s] = "gone"]
  BY Consts DEF ExpireCommit, At, fsVars, IInv, TypeOK, InvWork, InvAbsent
<1> QED
  BY <1>1, Closed, Unwritten DEF Active

\* A deletion ends the upload; next to a historical session that is still
\* active it only takes its file away.
LEMMA DeleteFileSeen ==
  ASSUME IInv, NEW s \in Sessions, DeleteFile(s)
  PROVE  Seen
<1>1. /\ file[s] \in Keys /\ file' = [file EXCEPT ![s] = Deleted]
      /\ obj' \in {obj, [obj EXCEPT ![s][file[s]] = None]} /\ UNCHANGED status
      /\ file \in [Sessions -> Keys \cup {None, Deleted}]
      /\ obj \in [Sessions -> [Keys -> Bodies \cup {None}]]
  BY DEF DeleteFile, IInv, TypeOK
<1>2. \A r \in Sessions \ {s} : Unseen(r)
  BY <1>1 DEF Unseen
<1>3. PhaseOf[s] = "published" /\ file'[s] \notin Keys /\ ContentOf'[s] = None
  BY <1>1, Views, ViewsNext, Consts
<1>4. s \notin Historical => status[s] = "completed"
  BY <1>1, Consts DEF IInv, InvCompleted
<1>5. status[s] # "none"
  BY <1>1, Consts DEF IInv, InvAbsent
<1>6. CASE status[s] \in Active
  <2>1. s \in Historical /\ PhaseOf'[s] = "open"
    BY <1>1, <1>3, <1>4, <1>6, ViewsNext DEF Active
  <2>2. UP!Move(s, "published", "open", None)
    BY <1>2, <1>3, <2>1, Moved
  <2> QED
    BY <2>1, <2>2 DEF Seen, UP!Next, UP!Remove
<1>7. CASE status[s] \notin Active
  <2>1. PhaseOf'[s] = "over"
    BY <1>1, <1>3, <1>5, <1>7, ViewsNext
  <2>2. UP!Move(s, "published", "over", None)
    BY <1>2, <1>3, <2>1, Moved
  <2> QED
    BY <2>2 DEF Seen, UP!Next, UP!Remove
<1> QED
  BY <1>6, <1>7

\* Cleanup, hard link and undo write objects, never that of a File.
LEMMA UnlinkSeen ==
  ASSUME IInv, NEW p \in Procs, NEW a \in Attempts, Unlink(p, a)
  PROVE  Seen
<1>1. /\ w[p].s \in Sessions /\ UNCHANGED <<status, file>>
      /\ obj \in [Sessions -> [Keys -> Bodies \cup {None}]]
      /\ \/ obj' = obj
         \/ a # w[p].comm /\ obj' = [obj EXCEPT ![w[p].s][a] = None]
  BY DEF Unlink, At, dbVars, IInv, TypeOK, InvWork, CleanupLabels
<1>2. a # w[p].comm => file[w[p].s] # a
  BY DEF Unlink, At, IInv, InvKnown
<1>3. ASSUME NEW s \in Sessions PROVE Unseen(s)
  <2>1. CASE s = w[p].s
    BY <1>1, <1>2, <2>1 DEF Unseen
  <2>2. CASE s # w[p].s
    BY <1>1, <2>2 DEF Unseen
  <2> QED
    BY <2>1, <2>2
<1> QED
  BY <1>3, AllUnseen

\* Cleanup's last step removes an object only when no File was seen.
LEMMA CleanupDoneSeen ==
  ASSUME IInv, NEW p \in Procs, CleanupDone(p)
  PROVE  Seen
<1>1. /\ w[p].s \in Sessions /\ UNCHANGED <<status, file>>
      /\ obj \in [Sessions -> [Keys -> Bodies \cup {None}]]
      /\ \/ obj' = obj
         \/ NoFile(w[p].comm) /\ obj' = [obj EXCEPT ![w[p].s][0] = None]
  BY DEF CleanupDone, At, dbVars, IInv, TypeOK, InvWork, CleanupLabels
<1>2. NoFile(w[p].comm) => file[w[p].s] # 0
  BY Consts DEF CleanupDone, At, IInv, InvKnown, NoFile
<1>3. ASSUME NEW s \in Sessions PROVE Unseen(s)
  <2>1. CASE s = w[p].s
    BY <1>1, <1>2, <2>1 DEF Unseen
  <2>2. CASE s # w[p].s
    BY <1>1, <2>2 DEF Unseen
  <2> QED
    BY <2>1, <2>2
<1> QED
  BY <1>3, AllUnseen

\* A hard link makes an object no File names yet.
LEMMA LinkSeen ==
  ASSUME IInv, NEW p \in Procs, Link(p)
  PROVE  Seen
<1>1. /\ w[p].s \in Sessions /\ UNCHANGED <<status, file>>
      /\ obj \in [Sessions -> [Keys -> Bodies \cup {None}]]
      /\ obj' = [obj EXCEPT ![w[p].s][w[p].att] = w[p].buf]
  BY DEF Link, At, dbVars, IInv, TypeOK, InvWork, AttemptLabels
<1>2. file[w[p].s] # w[p].att
  BY DEF Link, At, IInv, InvUncommitted, InvWork, AttemptLabels
<1>3. ASSUME NEW s \in Sessions PROVE Unseen(s)
  <2>1. CASE s = w[p].s
    BY <1>1, <1>2, <2>1 DEF Unseen
  <2>2. CASE s # w[p].s
    BY <1>1, <2>2 DEF Unseen
  <2> QED
    BY <2>1, <2>2
<1> QED
  BY <1>3, AllUnseen

\* A failed attempt removes an object no File names.
LEMMA UndoSeen ==
  ASSUME IInv, NEW p \in Procs, Undo(p)
  PROVE  Seen
<1>1. /\ w[p].s \in Sessions /\ UNCHANGED <<status, file>>
      /\ obj \in [Sessions -> [Keys -> Bodies \cup {None}]]
      /\ \/ obj' = obj
         \/ obj' = [obj EXCEPT ![w[p].s][w[p].att] = None]
  BY DEF Undo, At, dbVars, IInv, TypeOK, InvWork, AttemptLabels
<1>2. file[w[p].s] # w[p].att
  BY DEF Undo, At, IInv, InvUncommitted, InvWork, AttemptLabels
<1>3. ASSUME NEW s \in Sessions PROVE Unseen(s)
  <2>1. CASE s = w[p].s
    BY <1>1, <1>2, <2>1 DEF Unseen
  <2>2. CASE s # w[p].s
    BY <1>1, <2>2 DEF Unseen
  <2> QED
    BY <2>1, <2>2
<1> QED
  BY <1>3, AllUnseen

\* Every step is a step of the promise, or shows its owner nothing.
LEMMA NextSeen ==
  ASSUME IInv, Next
  PROVE  Seen
<1> USE DEF dbVars, fsVars
<1>1. ASSUME NEW p \in Procs, Request(p) PROVE Seen
  <2>1. PICK s \in Sessions :
          \/ Create(p, s)
          \/ \E i \in Chunks, c \in Contents : ChunkBegin(p, s, i, c)
          \/ ReconcileBegin(p, s)
          \/ CompleteBegin(p, s)
          \/ AbortBegin(p, s)
    BY <1>1 DEF Request
  <2>2. ~Create(p, s) => UNCHANGED <<status, file, obj>>
    BY <2>1 DEF ChunkBegin, ReconcileBegin, CompleteBegin, AbortBegin
  <2> QED
    BY <2>1, <2>2, CreateSeen, Unwritten
<1>2. ASSUME NEW p \in Procs, UploadStep(p) PROVE Seen
  <2>1. Mkdir(p) \/ ChunkRename(p) => UNCHANGED <<status, file, obj>>
    BY DEF Mkdir, ChunkRename
  <2> QED
    BY <1>2, <2>1, MkdirFailsSeen, RowsCommitSeen, Unwritten DEF UploadStep
<1>3. ASSUME NEW p \in Procs, CleanupStep(p) PROVE Seen
  <2>1. List(p) \/ Query(p) \/ Unmark(p) => UNCHANGED <<status, file, obj>>
    BY DEF List, Query, Unmark
  <2> QED
    BY <1>3, <2>1, UnlinkSeen, CleanupDoneSeen, Unwritten DEF CleanupStep
<1>4. ASSUME NEW p \in Procs, CompleteStep(p) PROVE Seen
  <2>1. \/ StartAttempt(p) \/ (\E i \in Chunks : ReadChunk(p, i)) \/ Seal(p)
        \/ PublishBegin(p) \/ Save(p) \/ DeleteTempFiles(p) \/ UnmarkOwn(p)
        => UNCHANGED <<status, file, obj>>
    BY DEF StartAttempt, ReadChunk, Seal, PublishBegin, Save, DeleteTempFiles,
       UnmarkOwn
  <2> QED
    BY <1>4, <2>1, LinkSeen, PublishCommitSeen, RepairSeen, UndoSeen, Unwritten
    DEF CompleteStep
<1>5. ASSUME NEW p \in Procs, AbortCommit(p) \/ Fail(p) PROVE Seen
  BY <1>5, AbortCommitSeen, Unwritten DEF Fail
<1>6. ASSUME Sweep PROVE Seen
  BY <1>6, ExpireCommitSeen, Unwritten DEF Sweep, ExpireBegin
<1>7. ASSUME Failure PROVE Seen
  BY <1>7, Unwritten DEF Failure, Crash, Restart, Fault, LoseConnection
<1>8. ASSUME Environment PROVE Seen
  BY <1>8, DeleteFileSeen, Unwritten DEF Environment, Tick, Charge, Release
<1> QED
  BY <1>1, <1>2, <1>3, <1>4, <1>5, <1>6, <1>7, <1>8 DEF Next, HandlerStep

\* The initial states are initial states of the promise.
LEMMA InitSeen == Init => UP!Init
<1> SUFFICES ASSUME Init PROVE UP!Init
  OBVIOUS
<1>1. \A s \in Sessions : s \notin Historical =>
        PhaseOf[s] = "absent" /\ ContentOf[s] = None
  BY Views, Consts DEF Init
<1>2. \A s \in Historical : PhaseOf[s] \in {"open", "published"}
  BY Views, ConstantsAssumption DEF Init, Active
<1>3. \A s \in Sessions : /\ ContentOf[s] \in Bodies \cup {None}
                          /\ PhaseOf[s] = "published" <=> ContentOf[s] # None
  <2> TAKE s \in Sessions
  <2>1. CASE file[s] \in Keys
    <3>1. obj[s][file[s]] \in Bodies
      BY <2>1, InitInv DEF IInv, PublishedObjectKept
    <3> QED
      BY <2>1, <3>1, Views, Consts
  <2>2. CASE file[s] \notin Keys
    BY <2>2, <1>1, Views DEF Active, PhaseOf
  <2> QED
    BY <2>1, <2>2
<1>4. PhaseOf \in [Sessions -> {"absent", "open", "published"}]
  BY <1>1, <1>2 DEF PhaseOf
<1>5. ContentOf \in [Sessions -> Bodies \cup {None}]
  BY <1>3 DEF ContentOf
<1> QED
  BY <1>1, <1>2, <1>3, <1>4, <1>5 DEF UP!Init

\* Whatever its handlers, crashes and retries do, a session keeps the promise.
THEOREM PromiseKept == Spec => KeepsPromise
<1>1. Init => UP!Init
  BY InitSeen
<1>2. IInv /\ [Next]_vars => [UP!Next]_(UP!vars)
  <2>1. ASSUME IInv, Next PROVE [UP!Next]_(UP!vars)
    BY <2>1, NextSeen DEF Seen, UP!vars
  <2>2. ASSUME UNCHANGED vars PROVE UNCHANGED UP!vars
    BY <2>2 DEF vars, dbVars, fsVars, UP!vars, PhaseOf, ContentOf
  <2> QED
    BY <2>1, <2>2
<1> QED
  BY <1>1, <1>2, Invariance, PTL DEF Spec, KeepsPromise, UP!Spec

-----------------------------------------------------------------------------
(***************************************************************************)
(* What a sum over a set of sessions is.  An induction over finite sets is *)
(* here an argument about a smallest counterexample, by FiniteSetTheorems. *)
(***************************************************************************)
\* The session that a sum over s takes first.
Pick(s) == CHOOSE x \in s : TRUE

Sums(f, T) ==
  f = [s \in SUBSET T |->
        IF s = {} THEN 0 ELSE Size[Pick(s)] + f[s \ {Pick(s)}]]

LEMMA Smallest ==
  ASSUME NEW S, IsFiniteSet(S), NEW T, T \subseteq SUBSET S, T # {}
  PROVE  \E x \in T : \A y \in T : y \subseteq x => y = x
<1>1. FiniteSubsetsOf(S) = SUBSET S
  BY FS_Subset DEF FiniteSubsetsOf
<1>2. \E x \in T : \A y \in T : <<y, x>> \notin StrictSubsetOrdering(S)
  <2>1. IsWellFoundedOn(StrictSubsetOrdering(S), SUBSET S)
    BY <1>1, FS_StrictSubsetOrderingWellFounded
  <2> QED
    BY <2>1, WFMin
<1>3. QED
  BY <1>2 DEF StrictSubsetOrdering

LEMMA Picked == \A s : s # {} => Pick(s) \in s
  BY DEF Pick

LEMMA TotalIs ==
  ASSUME NEW T
  PROVE  Total(T) = (CHOOSE f : Sums(f, T))[T]
  BY Zenon DEF Total, Sums, MapThenSumSet, MapThenFoldSet, Pick

LEMMA SumsAt ==
  ASSUME NEW f, NEW T, Sums(f, T), NEW s \in SUBSET T
  PROVE  /\ f[{}] = 0
         /\ s # {} => /\ Pick(s) \in s /\ s \ {Pick(s)} \in SUBSET T
                      /\ f[s] = Size[Pick(s)] + f[s \ {Pick(s)}]
<1>1. s # {} => Pick(s) \in s
  BY Picked
<1>2. QED
  BY <1>1 DEF Sums

\* Two folds agree where both are defined.
LEMMA SumsAgree ==
  ASSUME NEW f, NEW T, Sums(f, T), NEW g, NEW U, Sums(g, U),
         T \subseteq Sessions, NEW s \in SUBSET (T \cap U)
  PROVE  f[s] = g[s]
<1> DEFINE Bad == {v \in SUBSET (T \cap U) : f[v] # g[v]}
<1>1. SUFFICES ASSUME Bad # {} PROVE FALSE
  OBVIOUS
<1>2. PICK x \in Bad : \A y \in Bad : y \subseteq x => y = x
  <2>1. Bad \subseteq SUBSET Sessions
    OBVIOUS
  <2> HIDE DEF Bad
  <2> QED
    BY <1>1, <2>1, Smallest, ConstantsAssumption
<1>3. x # {}
  <2>1. {} \in SUBSET T /\ {} \in SUBSET U
    OBVIOUS
  <2>2. f[{}] = 0 /\ g[{}] = 0
    BY <2>1, SumsAt
  <2> QED
    BY <2>2
<1>4. /\ Pick(x) \in x
      /\ f[x] = Size[Pick(x)] + f[x \ {Pick(x)}]
      /\ g[x] = Size[Pick(x)] + g[x \ {Pick(x)}]
  BY <1>3, SumsAt
<1>5. x \ {Pick(x)} \notin Bad
  BY <1>2, <1>4
<1>6. QED
  BY <1>2, <1>4, <1>5

\* There is a fold over each set of sessions.
LEMMA SumsExist ==
  ASSUME NEW T \in SUBSET Sessions
  PROVE  \E f : Sums(f, T)
<1> DEFINE Bad == {v \in SUBSET Sessions : ~ \E f : Sums(f, v)}
<1>1. SUFFICES ASSUME Bad # {} PROVE FALSE
  OBVIOUS
<1>2. PICK x \in Bad : \A y \in Bad : y \subseteq x => y = x
  <2>1. Bad \subseteq SUBSET Sessions
    OBVIOUS
  <2> HIDE DEF Bad
  <2> QED
    BY <1>1, <2>1, Smallest, ConstantsAssumption
<1> DEFINE F(s) == CHOOSE f : Sums(f, s)
           g == [s \in SUBSET x |->
                  IF s = {} THEN 0
                  ELSE Size[Pick(s)] + F(s \ {Pick(s)})[s \ {Pick(s)}]]
<1>3. ASSUME NEW s \in SUBSET x, s # x
      PROVE  Sums(F(s), s)
  <2>1. s \notin Bad
    BY <1>2, <1>3
  <2>2. PICK f : Sums(f, s)
    BY <2>1
  <2> QED
    BY <2>2
<1>4. ASSUME NEW s \in SUBSET x, s # {}, s # x
      PROVE  F(s)[s] = Size[Pick(s)] + F(s \ {Pick(s)})[s \ {Pick(s)}]
  <2> DEFINE t == s \ {Pick(s)}
  <2>1. Pick(s) \in s /\ t \in SUBSET x /\ t # x
    BY <1>4, Picked
  <2>2. Sums(F(s), s) /\ Sums(F(t), t)
    BY <1>3, <1>4, <2>1
  <2>3. F(s)[t] = F(t)[t]
    <3> HIDE DEF F
    <3> QED BY <2>2, SumsAgree
  <2>4. F(s)[s] = Size[Pick(s)] + F(s)[t]
    <3> HIDE DEF F
    <3> QED BY <2>2, <1>4, SumsAt
  <2> QED
    BY <2>3, <2>4
<1>5. ASSUME NEW s \in SUBSET x, s # x
      PROVE  g[s] = F(s)[s]
  <2>1. CASE s = {}
    <3>1. Sums(F(s), s)
      BY <1>3, <1>5
    <3> HIDE DEF F
    <3> QED BY <3>1, <2>1, SumsAt
  <2>2. CASE s # {}
    <3>1. F(s)[s] = Size[Pick(s)] + F(s \ {Pick(s)})[s \ {Pick(s)}]
      BY <2>2, <1>4, <1>5
    <3> HIDE DEF F
    <3> QED BY <3>1, <2>2
  <2> QED
    BY <2>1, <2>2
<1>6. ASSUME NEW s \in SUBSET x, s # {}
      PROVE  g[s] = Size[Pick(s)] + g[s \ {Pick(s)}]
  <2>1. Pick(s) \in s
    BY <1>6, Picked
  <2>2. s \ {Pick(s)} \in SUBSET x /\ s \ {Pick(s)} # x
    BY <2>1
  <2>3. g[s \ {Pick(s)}] = F(s \ {Pick(s)})[s \ {Pick(s)}]
    <3> HIDE DEF F, g
    <3> QED BY <2>2, <1>5
  <2>4. g[s] = Size[Pick(s)] + F(s \ {Pick(s)})[s \ {Pick(s)}]
    <3> HIDE DEF F
    <3> QED BY <1>6
  <2> QED
    BY <2>3, <2>4
<1>7. Sums(g, x)
  <2>1. g = [s \in SUBSET x |-> g[s]]
    OBVIOUS
  <2>2. g[{}] = 0
    OBVIOUS
  <2> HIDE DEF g
  <2> QED
    BY <2>1, <2>2, <1>6 DEF Sums
<1>8. QED
  BY <1>2, <1>7

\* The total of a set with one more session.
LEMMA TotalStep ==
  ASSUME NEW T \in SUBSET Sessions
  PROVE  /\ Total({}) = 0
         /\ T # {} => Total(T) = Size[Pick(T)] + Total(T \ {Pick(T)})
<1> DEFINE F(s) == CHOOSE f : Sums(f, s)
<1>1. \A s \in SUBSET Sessions : Sums(F(s), s)
  BY SumsExist
<1>2. \A s : Total(s) = F(s)[s]
  BY TotalIs
<1>3. Total({}) = 0
  <2> HIDE DEF F
  <2>1. Sums(F({}), {})
    BY <1>1
  <2>2. F({})[{}] = 0
    BY <2>1, SumsAt
  <2> QED BY <1>2, <2>2
<1>4. ASSUME T # {} PROVE Total(T) = Size[Pick(T)] + Total(T \ {Pick(T)})
  <2> DEFINE t == T \ {Pick(T)}
  <2> HIDE DEF F
  <2>1. Pick(T) \in T /\ t \in SUBSET T /\ t \in SUBSET Sessions
    BY <1>4, Picked
  <2>2. F(T)[T] = Size[Pick(T)] + F(T)[t]
    BY <1>1, <1>4, SumsAt
  <2>3. F(T)[t] = F(t)[t]
    BY <1>1, <2>1, SumsAgree
  <2> QED
    BY <1>2, <2>2, <2>3
<1>5. QED
  BY <1>3, <1>4

LEMMA TotalNat ==
  ASSUME NEW T \in SUBSET Sessions
  PROVE  Total(T) \in Nat
<1> DEFINE Bad == {v \in SUBSET Sessions : Total(v) \notin Nat}
<1>1. SUFFICES ASSUME Bad # {} PROVE FALSE
  OBVIOUS
<1>2. PICK x \in Bad : \A y \in Bad : y \subseteq x => y = x
  <2>1. Bad \subseteq SUBSET Sessions
    OBVIOUS
  <2> HIDE DEF Bad
  <2> QED
    BY <1>1, <2>1, Smallest, ConstantsAssumption
<1>3. x # {}
  <2>1. Total({}) = 0
    BY TotalStep
  <2> QED
    BY <2>1
<1>4. Pick(x) \in x /\ Total(x) = Size[Pick(x)] + Total(x \ {Pick(x)})
  BY <1>3, Picked, TotalStep
<1>5. Total(x \ {Pick(x)}) \in Nat
  BY <1>2, <1>4
<1>6. Size[Pick(x)] \in Nat
  BY <1>4, ConstantsAssumption
<1>7. QED
  BY <1>4, <1>5, <1>6

LEMMA TotalAdd ==
  ASSUME NEW T \in SUBSET Sessions, NEW a \in T
  PROVE  Total(T) = Size[a] + Total(T \ {a})
<1> DEFINE Bad == {v \in SUBSET Sessions :
                     \E c \in v : Total(v) # Size[c] + Total(v \ {c})}
<1>1. SUFFICES ASSUME Bad # {} PROVE FALSE
  OBVIOUS
<1>2. PICK x \in Bad : \A y \in Bad : y \subseteq x => y = x
  <2>1. Bad \subseteq SUBSET Sessions
    OBVIOUS
  <2> HIDE DEF Bad
  <2> QED
    BY <1>1, <2>1, Smallest, ConstantsAssumption
<1>3. PICK c \in x : Total(x) # Size[c] + Total(x \ {c})
  BY <1>2
<1> DEFINE p == Pick(x)
           y == x \ {c}
           z == x \ {p}
           u == (x \ {c}) \ {p}
<1>4. p \in x /\ Total(x) = Size[p] + Total(z)
  BY <1>3, Picked, TotalStep
<1>5. p # c
  BY <1>3, <1>4
<1>6. y \notin Bad /\ z \notin Bad
  BY <1>2, <1>4, <1>3
<1>7. Total(y) = Size[p] + Total(y \ {p})
  BY <1>4, <1>5, <1>6
<1>8. Total(z) = Size[c] + Total(z \ {c})
  BY <1>3, <1>5, <1>6
<1>9. z \ {c} = u /\ y \ {p} = u
  OBVIOUS
<1>10. Total(u) \in Nat /\ Size[p] \in Nat /\ Size[c] \in Nat
  BY <1>3, <1>4, TotalNat, ConstantsAssumption
<1>11. Total(x) = Size[c] + Total(y)
  <2>1. Total(x) = Size[p] + Total(z) /\ Total(z) = Size[c] + Total(u)
        /\ Total(y) = Size[p] + Total(u)
    BY <1>4, <1>7, <1>8, <1>9
  <2> HIDE DEF u, y, z, p
  <2> QED
    BY <2>1, <1>10
<1>12. QED
  BY <1>3, <1>11 DEF y

\* A sum over fewer sessions is no larger.
LEMMA TotalLess ==
  ASSUME NEW T \in SUBSET Sessions, NEW a \in Sessions
  PROVE  Total(T \ {a}) <= Total(T)
<1>1. CASE a \in T
  <2>1. /\ Total(T) = Size[a] + Total(T \ {a})
        /\ Size[a] \in Nat /\ Total(T \ {a}) \in Nat
    BY <1>1, TotalAdd, TotalNat, ConstantsAssumption
  <2> QED
    BY <2>1
<1>2. CASE a \notin T
  <2>1. T \ {a} = T /\ Total(T) \in Nat
    BY <1>2, TotalNat
  <2> QED
    BY <2>1
<1> QED
  BY <1>1, <1>2

\* Nor is a sum over a subset.
LEMMA TotalSubset ==
  ASSUME NEW T \in SUBSET Sessions, NEW U \in SUBSET T
  PROVE  Total(U) <= Total(T)
<1> DEFINE Bad == {v \in SUBSET T : U \subseteq v /\ ~(Total(U) <= Total(v))}
<1>1. SUFFICES ASSUME Bad # {} PROVE FALSE
  OBVIOUS
<1>2. PICK x \in Bad : \A y \in Bad : y \subseteq x => y = x
  <2>1. Bad \subseteq SUBSET Sessions
    OBVIOUS
  <2> HIDE DEF Bad
  <2> QED
    BY <1>1, <2>1, Smallest, ConstantsAssumption
<1>3. x # U
  BY <1>2, TotalNat
<1>4. PICK a \in x : a \notin U
  BY <1>2, <1>3
<1>5. x \ {a} \notin Bad /\ U \subseteq x \ {a} /\ x \ {a} \in SUBSET T
  BY <1>2, <1>4
<1>6. Total(U) <= Total(x \ {a})
  BY <1>5
<1>7. Total(x \ {a}) <= Total(x)
  BY <1>4, TotalLess
<1>8. Total(x) \in Nat /\ Total(U) \in Nat /\ Total(x \ {a}) \in Nat
  BY <1>5, TotalNat
<1> QED
  BY <1>6, <1>7, <1>8

-----------------------------------------------------------------------------
(* What the owner is charged, and what is reserved *)

Published == {s \in Sessions : file[s] \in Keys}

Charges == used \in Int /\ other \in Nat /\ UsedAccounts

\* Sums over the sessions of a state are numbers.
LEMMA SumTypes ==
  /\ Published \in SUBSET Sessions /\ ActiveSessions \in SUBSET Sessions
  /\ Total(Published) \in Nat /\ Reserved \in Nat
<1>1. Published \in SUBSET Sessions /\ ActiveSessions \in SUBSET Sessions
  BY DEF Published, ActiveSessions
<1> QED
  BY <1>1, TotalNat DEF Reserved

\* The same of the next state.
LEMMA SumTypesNext ==
  /\ Published' \in SUBSET Sessions /\ ActiveSessions' \in SUBSET Sessions
  /\ Total(Published') \in Nat /\ Reserved' = Total(ActiveSessions')
  /\ Reserved' \in Nat
<1>1. Published' \in SUBSET Sessions /\ ActiveSessions' \in SUBSET Sessions
  BY DEF Published, ActiveSessions
<1>2. Reserved' = Total(ActiveSessions')
  BY DEF Reserved
<1> QED
  BY <1>1, <1>2, TotalNat

\* A session that becomes a File, or is one no more.
LEMMA FileAppears ==
  ASSUME file \in [Sessions -> Keys \cup {None, Deleted}], NEW s \in Sessions,
         NEW k \in Keys, file[s] \notin Keys, file' = [file EXCEPT ![s] = k]
  PROVE  Total(Published') = Size[s] + Total(Published)
<1>1. s \in Published' /\ Published' \ {s} = Published
  BY DEF Published
<1> QED
  BY <1>1, SumTypesNext, TotalAdd

LEMMA FileGoes ==
  ASSUME file \in [Sessions -> Keys \cup {None, Deleted}], NEW s \in Sessions,
         file[s] \in Keys, file' = [file EXCEPT ![s] = Deleted]
  PROVE  Total(Published) = Size[s] + Total(Published')
<1>1. s \in Published /\ Published \ {s} = Published'
  BY Consts DEF Published
<1> QED
  BY <1>1, SumTypes, TotalAdd

\* A session whose upload is over, of either kind, or begins.
LEMMA UploadEnds ==
  ASSUME status \in [Sessions -> Statuses], NEW s \in Sessions,
         NEW st \in Statuses \ Active, status' = [status EXCEPT ![s] = st]
  PROVE  /\ Reserved' <= Reserved
         /\ status[s] \in Active => Reserved = Size[s] + Reserved'
<1>1. ActiveSessions' = ActiveSessions \ {s}
  BY DEF ActiveSessions
<1>2. /\ Reserved = Total(ActiveSessions)
      /\ Reserved' = Total(ActiveSessions \ {s})
  BY <1>1, SumTypesNext DEF Reserved
<1>3. Reserved' <= Reserved
  BY <1>2, SumTypes, TotalLess
<1>4. status[s] \in Active => s \in ActiveSessions
  BY DEF ActiveSessions
<1> QED
  BY <1>2, <1>3, <1>4, SumTypes, TotalAdd

LEMMA UploadBegins ==
  ASSUME status \in [Sessions -> Statuses], NEW s \in Sessions,
         status[s] = "none", status' = [status EXCEPT ![s] = "pending"]
  PROVE  Reserved' = Size[s] + Reserved
<1>1. s \in ActiveSessions' /\ ActiveSessions' \ {s} = ActiveSessions
  BY DEF ActiveSessions, Active
<1> QED
  BY <1>1, SumTypesNext, TotalAdd DEF Reserved

\* The account, and that the reservations fit it if they did from the start.
Fits == Charges /\ (HistoryFits => ReservationsFit)

LEMMA SameSums ==
  ASSUME Fits, UNCHANGED <<status, file, used, other>>
  PROVE  Fits'
<1>1. Published' = Published /\ ActiveSessions' = ActiveSessions
  BY DEF Published, ActiveSessions
<1>2. Reserved' = Reserved
  BY <1>1 DEF Reserved
<1> QED
  BY <1>1, <1>2 DEF Fits, Charges, UsedAccounts, ReservationsFit, Published

\* What remains of an upload is the sums of its account.
LEMMA ByAccount ==
  ASSUME used' \in Int, other' \in Nat,
         used' = other' + Total(Published'),
         HistoryFits => /\ used' - other' + Reserved' <= Quota
                        /\ MaxTotal > 0 => Reserved' <= MaxTotal
  PROVE  Fits'
  BY DEF Fits, Charges, UsedAccounts, ReservationsFit, Published

LEMMA FitsGives ==
  ASSUME Fits
  PROVE  /\ used \in Int /\ other \in Nat /\ used = other + Total(Published)
         /\ HistoryFits => /\ used - other + Reserved <= Quota
                           /\ MaxTotal > 0 => Reserved <= MaxTotal
  BY DEF Fits, Charges, UsedAccounts, ReservationsFit, Published

\* Admission makes room.
LEMMA CreateFits ==
  ASSUME IInv, Fits, NEW p \in Procs, NEW s \in Sessions, Create(p, s)
  PROVE  Fits'
<1>1. /\ status[s] = "none" /\ status' = [status EXCEPT ![s] = "pending"]
      /\ UNCHANGED <<file, used, other>> /\ AdmissionFits(s)
  BY DEF Create
<1>2. Reserved' = Size[s] + Reserved
  BY <1>1, UploadBegins DEF IInv, TypeOK
<1>3. Published' = Published
  BY <1>1 DEF Published
<1>4. Total(Published') = Total(Published)
  BY <1>3
<1>5. Size[s] \in Nat /\ Quota \in Nat /\ MaxTotal \in Nat
  BY ConstantsAssumption
<1> QED
  BY <1>1, <1>2, <1>4, <1>5, FitsGives, ByAccount, SumTypes DEF AdmissionFits

\* An upload that is over for good gives its reservation back.
LEMMA EndFits ==
  ASSUME IInv, Fits, NEW s \in Sessions, NEW st \in Statuses \ Active,
         status' = [status EXCEPT ![s] = st], UNCHANGED <<file, used, other>>
  PROVE  Fits'
<1>1. Reserved' <= Reserved
  BY UploadEnds DEF IInv, TypeOK
<1>2. Published' = Published
  BY DEF Published
<1>3. Total(Published') = Total(Published)
  BY <1>2
<1>4. Quota \in Nat /\ MaxTotal \in Nat
  BY ConstantsAssumption
<1> QED
  BY <1>1, <1>3, <1>4, FitsGives, ByAccount, SumTypes, SumTypesNext

\* A publication charges what it had reserved.
LEMMA PublishFits ==
  ASSUME IInv, Fits, NEW p \in Procs, PublishCommit(p)
  PROVE  Fits'
<1> DEFINE s == w[p].s
<1>1. /\ s \in Sessions /\ w[p].att \in Keys
      /\ file[s] \notin Keys /\ status[s] \in Active
  BY Committing, Consts
<1>2. /\ file' = [file EXCEPT ![s] = w[p].att]
      /\ status' = [status EXCEPT ![s] = "completed"]
      /\ used' = used + Size[s] /\ other' = other
  BY DEF PublishCommit
<1>3. "completed" \in Statuses \ Active
  BY DEF Statuses, Active
<1> HIDE DEF s
<1>4. Total(Published') = Size[s] + Total(Published)
  BY <1>1, <1>2, FileAppears DEF IInv, TypeOK
<1>5. Reserved' <= Reserved /\ Reserved = Size[s] + Reserved'
  BY <1>1, <1>2, <1>3, UploadEnds DEF IInv, TypeOK
<1>6. Size[s] \in Nat /\ Quota \in Nat /\ MaxTotal \in Nat
  BY <1>1, ConstantsAssumption
<1> QED
  BY <1>2, <1>4, <1>5, <1>6, FitsGives, ByAccount, SumTypes, SumTypesNext

\* A File that is deleted for good gives its charge back, once.
LEMMA DeleteFits ==
  ASSUME IInv, Fits, NEW s \in Sessions, DeleteFile(s)
  PROVE  Fits'
<1>1. /\ file[s] \in Keys /\ file' = [file EXCEPT ![s] = Deleted]
      /\ used' = used - Size[s] /\ UNCHANGED <<status, other>>
  BY DEF DeleteFile
<1>2. Total(Published) = Size[s] + Total(Published')
  BY <1>1, FileGoes DEF IInv, TypeOK
<1>3. Reserved' = Reserved
  BY <1>1 DEF Reserved, ActiveSessions
<1>4. Size[s] \in Nat /\ Quota \in Nat /\ MaxTotal \in Nat
  BY ConstantsAssumption
<1> QED
  BY <1>1, <1>2, <1>3, <1>4, FitsGives, ByAccount, SumTypes, SumTypesNext

\* What other services charge is theirs.
LEMMA OthersFit ==
  ASSUME Fits, NEW b \in OtherBytes, Charge(b) \/ Release(b)
  PROVE  Fits'
<1>1. /\ UNCHANGED <<status, file>>
      /\ \/ used' = used + b /\ other' = other + b
         \/ used' = used - b /\ other' = other - b /\ other >= b
  BY DEF Charge, Release
<1>2. Published' = Published /\ ActiveSessions' = ActiveSessions
  BY <1>1 DEF Published, ActiveSessions
<1>3. Total(Published') = Total(Published) /\ Reserved' = Reserved
  BY <1>2 DEF Reserved
<1>4. b \in Nat /\ Quota \in Nat /\ MaxTotal \in Nat
  BY ConstantsAssumption
<1> QED
  BY <1>1, <1>3, <1>4, FitsGives, ByAccount, SumTypes

\* A chunk's row leaves a session under way.
LEMMA RowsFit ==
  ASSUME IInv, Fits, NEW p \in Procs, RowsCommit(p)
  PROVE  Fits'
<1>1. /\ w[p].s \in Sessions /\ UNCHANGED <<file, used, other>>
      /\ \/ status' = status
         \/ /\ w[p].op = "chunk"
            /\ status' = [status EXCEPT ![w[p].s] = "uploading"]
  BY DEF RowsCommit, At, IInv, InvWork
<1>2. w[p].op = "chunk" => status[w[p].s] \in Active
  BY DEF RowsCommit, IInv, InvChunk
<1>3. ActiveSessions' = ActiveSessions /\ Published' = Published
  BY <1>1, <1>2 DEF ActiveSessions, Published, Active, IInv, TypeOK
<1>4. Total(Published') = Total(Published) /\ Reserved' = Reserved
  BY <1>3 DEF Reserved
<1> QED
  BY <1>1, <1>4, FitsGives, ByAccount

\* Every step keeps the account.
LEMMA NextFits ==
  ASSUME IInv, Fits, Next
  PROVE  Fits'
<1> USE DEF dbVars
<1>0. {"completed", "aborted", "gone"} \subseteq Statuses \ Active
  BY DEF Statuses, Active
<1>1. ASSUME NEW p \in Procs, Request(p) PROVE Fits'
  <2>1. PICK s \in Sessions :
          \/ Create(p, s)
          \/ \E i \in Chunks, c \in Contents : ChunkBegin(p, s, i, c)
          \/ ReconcileBegin(p, s)
          \/ CompleteBegin(p, s)
          \/ AbortBegin(p, s)
    BY <1>1 DEF Request
  <2>2. ~Create(p, s) => UNCHANGED <<status, file, used, other>>
    BY <2>1 DEF ChunkBegin, ReconcileBegin, CompleteBegin, AbortBegin
  <2> QED
    BY <2>1, <2>2, CreateFits, SameSums
<1>2. ASSUME NEW p \in Procs, UploadStep(p) PROVE Fits'
  <2>1. Mkdir(p) \/ ChunkRename(p) => UNCHANGED <<status, file, used, other>>
    BY DEF Mkdir, ChunkRename
  <2>2. ASSUME MkdirFails(p) PROVE Fits'
    <3>1. /\ w[p].s \in Sessions /\ UNCHANGED <<file, used, other>>
          /\ status' = [status EXCEPT ![w[p].s] = "gone"]
      BY <2>2 DEF MkdirFails, At, IInv, InvWork
    <3> QED
      BY <3>1, <1>0, EndFits
  <2> QED
    BY <1>2, <2>1, <2>2, RowsFit, SameSums DEF UploadStep
<1>3. ASSUME NEW p \in Procs, CleanupStep(p) PROVE Fits'
  <2>1. UNCHANGED <<status, file, used, other>>
    BY <1>3 DEF CleanupStep, List, Query, Unlink, Unmark, CleanupDone
  <2> QED
    BY <2>1, SameSums
<1>4. ASSUME NEW p \in Procs, CompleteStep(p) PROVE Fits'
  <2>1. ~PublishCommit(p) /\ ~Repair(p) =>
          UNCHANGED <<status, file, used, other>>
    BY <1>4 DEF CompleteStep, StartAttempt, ReadChunk, Seal, PublishBegin, Link,
       Save, DeleteTempFiles, Undo, UnmarkOwn
  <2>2. ASSUME Repair(p) PROVE Fits'
    <3>1. /\ w[p].s \in Sessions /\ UNCHANGED <<file, used, other>>
          /\ status' = [status EXCEPT ![w[p].s] = "completed"]
      BY <2>2 DEF Repair, At, IInv, InvWork
    <3> QED
      BY <3>1, <1>0, EndFits
  <2> QED
    BY <2>1, <2>2, PublishFits, SameSums
<1>5. ASSUME NEW p \in Procs, AbortCommit(p) \/ Fail(p) PROVE Fits'
  <2>1. Fail(p) => UNCHANGED <<status, file, used, other>>
    BY DEF Fail
  <2>2. ASSUME AbortCommit(p) PROVE Fits'
    <3>1. /\ w[p].s \in Sessions /\ UNCHANGED <<file, used, other>>
          /\ status' = [status EXCEPT ![w[p].s] = "aborted"]
      BY <2>2 DEF AbortCommit, At, IInv, InvWork
    <3> QED
      BY <3>1, <1>0, EndFits
  <2> QED
    BY <1>5, <2>1, <2>2, SameSums
<1>6. ASSUME Sweep PROVE Fits'
  <2>1. ASSUME NEW s \in Sessions, ExpireBegin(s) PROVE Fits'
    BY <2>1, SameSums DEF ExpireBegin
  <2>2. ASSUME ExpireCommit PROVE Fits'
    <3>1. /\ w[Timer].s \in Sessions /\ UNCHANGED <<file, used, other>>
          /\ \/ UNCHANGED status
             \/ status' = [status EXCEPT ![w[Timer].s] = "gone"]
      BY <2>2, Consts DEF ExpireCommit, At, IInv, InvWork
    <3> QED
      BY <3>1, <1>0, EndFits, SameSums
  <2> QED
    BY <1>6, <2>1, <2>2 DEF Sweep
<1>7. ASSUME Failure PROVE Fits'
  BY <1>7, SameSums DEF Failure, Crash, Restart, Fault, LoseConnection
<1>8. ASSUME Environment PROVE Fits'
  <2>1. ASSUME NEW s \in Sessions, Tick(s) PROVE Fits'
    BY <2>1, SameSums DEF Tick
  <2> QED
    BY <1>8, <2>1, DeleteFits, OthersFit DEF Environment
<1> QED
  BY <1>1, <1>2, <1>3, <1>4, <1>5, <1>6, <1>7, <1>8 DEF Next, HandlerStep

\* So does the server's start, on whatever an earlier release has left.
LEMMA InitFits == Init => Fits
<1> SUFFICES ASSUME Init PROVE Fits
  OBVIOUS
<1>1. PICK published \in SUBSET Historical :
        /\ file = [s \in Sessions |-> IF s \in published THEN 0 ELSE None]
        /\ used = Total(published)
  BY DEF Init
<1>2. Published = published
  BY <1>1, Consts, ConstantsAssumption DEF Published
<1>3. ActiveSessions = Historical
  BY ConstantsAssumption DEF Init, ActiveSessions, Active
<1>4. Charges
  <2>1. used = Total(Published) /\ other = 0 /\ Total(Published) \in Nat
    BY <1>1, <1>2, SumTypes DEF Init
  <2> QED
    BY <2>1 DEF Charges, UsedAccounts, Published
<1>5. HistoryFits => ReservationsFit
  <2>1. Total(published) <= Total(Historical)
    BY ConstantsAssumption, TotalSubset
  <2>2. Reserved = Total(Historical) /\ Reserved \in Nat
    BY <1>3, SumTypes DEF Reserved
  <2>3. Total(published) \in Nat /\ Quota \in Nat /\ MaxTotal \in Nat
    BY <1>2, SumTypes, ConstantsAssumption
  <2> QED
    BY <1>1, <2>1, <2>2, <2>3 DEF ReservationsFit, HistoryFits, Init
<1> QED
  BY <1>4, <1>5 DEF Fits

\* However completions, retries, repairs and deletions interleave, the owner is
\* charged for each File once, and for nothing else.
THEOREM ChargedOnce == Spec => []UsedAccounts
<1>1. Init => Fits
  BY InitFits
<1>2. IInv /\ Fits /\ [Next]_vars => Fits'
  BY NextFits, SameSums DEF vars, dbVars
<1>3. Fits => UsedAccounts
  BY DEF Fits, Charges
<1> QED
  BY <1>1, <1>2, <1>3, Invariance, PTL DEF Spec

\* Reservations fit into the quota and the server's limit at every moment, if
\* those an earlier release has left do.
THEOREM ReservationsHold ==
  ASSUME HistoryFits
  PROVE  Spec => []ReservationsFit
<1>1. Init => Fits
  BY InitFits
<1>2. IInv /\ Fits /\ [Next]_vars => Fits'
  BY NextFits, SameSums DEF vars, dbVars
<1>3. Fits => ReservationsFit
  BY HistoryFits DEF Fits
<1> QED
  BY <1>1, <1>2, <1>3, Invariance, PTL DEF Spec
=============================================================================
