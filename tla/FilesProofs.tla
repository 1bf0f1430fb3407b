---------------------------- MODULE FilesProofs ----------------------------
(***************************************************************************)
(* FilesTree keeps the tree, the names, the quota and the objects, for any *)
(* number of folders, files, names and requests at once.                   *)
(***************************************************************************)
EXTENDS Files, FiniteSetTheorems, TLAPS

-----------------------------------------------------------------------------
(***************************************************************************)
(* What is below a folder.  An induction is here an argument about a       *)
(* smallest counterexample.                                                *)
(***************************************************************************)
LEMMA Least ==
  ASSUME NEW T \in SUBSET Nat, T # {}
  PROVE  \E n \in T : \A m \in T : n <= m
<1>1. IsWellFoundedOn(OpToRel(<, Nat), Nat)
  BY NatLessThanWellFounded
<1>2. \E n \in T : \A m \in T : <<m, n>> \notin OpToRel(<, Nat)
  BY <1>1, WFMin
<1> DEFINE R == OpToRel(<, Nat)
<1>3. \A m, n \in Nat : <<m, n>> \in R <=> m < n
  BY DEF OpToRel
<1>4. PICK n \in T : \A m \in T : <<m, n>> \notin R
  BY <1>2
<1> HIDE DEF R
<1>5. \A m \in T : ~(m < n)
  BY <1>3, <1>4
<1> QED
  BY <1>5

\* The folders S and those directly in them.
Wider(S) == S \cup {g \in Folders : /\ folder[g] # None
                                    /\ folder[g].parent \in S}

Widens(W, f, k) ==
  W = [n \in 0..k |-> IF n = 0 THEN {f} ELSE Wider(W[n - 1])]

LEMMA WideningExists ==
  ASSUME NEW f, NEW k \in Nat
  PROVE  \E W : Widens(W, f, k)
<1> DEFINE Bad == {n \in Nat : ~ \E W : Widens(W, f, n)}
<1>1. SUFFICES ASSUME Bad # {} PROVE FALSE
  OBVIOUS
<1>2. PICK n \in Bad : \A m \in Bad : n <= m
  <2>1. Bad \in SUBSET Nat
    OBVIOUS
  <2> HIDE DEF Bad
  <2> QED
    BY <1>1, <2>1, Least
<1>3. n # 0
  <2>1. Widens([m \in 0..0 |-> {f}], f, 0)
    BY DEF Widens
  <2> QED
    BY <2>1
<1>4. n - 1 \in Nat /\ n - 1 \notin Bad
  BY <1>2, <1>3
<1>5. PICK W : Widens(W, f, n - 1)
  BY <1>4
<1> DEFINE V == [m \in 0..n |-> IF m = n THEN Wider(W[n - 1]) ELSE W[m]]
<1>6. \A m \in 0..n :
        V[m] = IF m = 0 THEN {f} ELSE Wider(V[m - 1])
  <2> TAKE m \in 0..n
  <2>1. CASE m = n
    <3>1. V[m] = Wider(W[n - 1]) /\ V[m - 1] = W[n - 1]
      BY <2>1, <1>3
    <3> QED
      BY <3>1, <2>1, <1>3
  <2>2. CASE m # n
    <3>1. m \in 0..(n - 1) /\ V[m] = W[m]
      BY <2>2
    <3>2. W[m] = IF m = 0 THEN {f} ELSE Wider(W[m - 1])
      BY <3>1, <1>5 DEF Widens
    <3>3. m # 0 => V[m - 1] = W[m - 1]
      BY <3>1
    <3> HIDE DEF V
    <3> QED
      BY <3>1, <3>2, <3>3
  <2> QED
    BY <2>1, <2>2
<1>7. V = [m \in 0..n |-> V[m]]
  OBVIOUS
<1>8. Widens(V, f, n)
  <2> HIDE DEF V
  <2> QED
    BY <1>6, <1>7 DEF Widens
<1> QED
  BY <1>8

LEMMA BelowIs ==
  ASSUME NEW f
  PROVE  LET N == Cardinality(Folders) IN
         \E W : /\ Below(f) = W[N] /\ W[0] = {f}
               /\ \A n \in 1..N : W[n] = Wider(W[n - 1])
<1> DEFINE N == Cardinality(Folders)
           V == CHOOSE W : Widens(W, f, N)
<1>1. N \in Nat
  BY FS_CardinalityType, FilesAssumption
<1>2. Widens(V, f, N)
  BY <1>1, WideningExists
<1>3. Below(f) = V[N]
  BY Zenon DEF Below, Widens, Wider
<1> HIDE DEF V, N
<1>4. \A n \in 0..N : V[n] = IF n = 0 THEN {f} ELSE Wider(V[n - 1])
  BY <1>2 DEF Widens
<1>5. V[0] = {f}
  BY <1>1, <1>4
<1>6. \A n \in 1..N : V[n] = Wider(V[n - 1])
  BY <1>1, <1>4
<1>7. \E W : /\ Below(f) = W[N] /\ W[0] = {f}
            /\ \A n \in 1..N : W[n] = Wider(W[n - 1])
  BY <1>3, <1>5, <1>6
<1> QED
  BY <1>7 DEF N

\* A folder that has a parent below f is below f, and f is.
LEMMA BelowClosed ==
  ASSUME NEW f \in Folders
  PROVE  /\ f \in Below(f) /\ Below(f) \subseteq Folders
         /\ \A g \in Folders :
              folder[g] # None /\ folder[g].parent \in Below(f) =>
                g \in Below(f)
<1> DEFINE N == Cardinality(Folders)
<1>0. N \in Nat
  BY FS_CardinalityType, FilesAssumption
<1>1. PICK W : /\ Below(f) = W[N] /\ W[0] = {f}
               /\ \A n \in 1..N : W[n] = Wider(W[n - 1])
  BY BelowIs
<1> HIDE DEF N
<1>2. W[0] = {f} /\ \A n \in 0..N : n # 0 => W[n] = Wider(W[n - 1])
  BY <1>0, <1>1
<1> DEFINE Fine(n) == /\ f \in W[n] /\ W[n] \subseteq Folders
                      /\ \/ Wider(W[n]) = W[n]
                         \/ Cardinality(W[n]) >= n + 1
           Bad == {n \in 0..N : ~Fine(n)}
<1>3. Bad = {}
  <2>1. SUFFICES ASSUME Bad # {} PROVE FALSE
    OBVIOUS
  <2>2. PICK n \in Bad : \A m \in Bad : n <= m
    <3>1. Bad \in SUBSET Nat
      BY <1>0
    <3> HIDE DEF Bad
    <3> QED
      BY <2>1, <3>1, Least
  <2>3. n # 0
    <3>1. Cardinality({f}) = 1 /\ W[0] = {f}
      BY <1>2, FS_Singleton
    <3>2. Fine(0)
      BY <3>1
    <3> HIDE DEF Fine
    <3>3. 0 \notin Bad
      BY <3>2
    <3> HIDE DEF Bad
    <3> QED
      BY <3>3, <2>2
  <2>4. n - 1 \in 0..N /\ n - 1 \notin Bad /\ n \in 0..N
    BY <2>2, <2>3, <1>0
  <2>5. Fine(n - 1) /\ W[n] = Wider(W[n - 1])
    BY <2>3, <2>4, <1>2
  <2>6. f \in W[n] /\ W[n] \subseteq Folders /\ W[n - 1] \subseteq W[n]
    BY <2>5 DEF Wider
  <2>7. CASE Wider(W[n - 1]) = W[n - 1]
    BY <2>2, <2>5, <2>6, <2>7
  <2>8. CASE Wider(W[n - 1]) # W[n - 1]
    <3>1. IsFiniteSet(W[n]) /\ IsFiniteSet(W[n - 1])
      BY <2>5, <2>6, FS_Subset, FilesAssumption
    <3>2. /\ Cardinality(W[n]) \in Nat /\ Cardinality(W[n - 1]) \in Nat
          /\ Cardinality(W[n - 1]) <= Cardinality(W[n])
          /\ Cardinality(W[n - 1]) # Cardinality(W[n])
      BY <3>1, <2>5, <2>6, <2>8, FS_Subset, FS_CardinalityType
    <3>3. Cardinality(W[n - 1]) >= n
      BY <2>4, <2>5, <2>8
    <3>4. Cardinality(W[n]) >= n + 1
      BY <3>2, <3>3, <2>4, <1>0
    <3> QED
      BY <2>2, <2>6, <3>4
  <2> QED
    BY <2>7, <2>8
<1>4. Fine(N)
  BY <1>0, <1>3
<1>5. Cardinality(W[N]) <= N /\ Cardinality(W[N]) \in Nat
  BY <1>4, FS_Subset, FS_CardinalityType, FilesAssumption DEF N
<1>6. Wider(W[N]) = W[N]
  BY <1>0, <1>4, <1>5
<1> QED
  BY <1>1, <1>4, <1>6 DEF Wider

\* Nothing else is below f: any set that has f and what is directly in its
\* members has Below(f).
LEMMA BelowLeast ==
  ASSUME NEW f \in Folders, NEW S, f \in S,
         \A g \in Folders :
           folder[g] # None /\ folder[g].parent \in S => g \in S
  PROVE  Below(f) \subseteq S
<1> DEFINE N == Cardinality(Folders)
<1>0. N \in Nat
  BY FS_CardinalityType, FilesAssumption
<1>1. PICK W : /\ Below(f) = W[N] /\ W[0] = {f}
               /\ \A n \in 1..N : W[n] = Wider(W[n - 1])
  BY BelowIs
<1> HIDE DEF N
<1>2. W[0] = {f} /\ \A n \in 0..N : n # 0 => W[n] = Wider(W[n - 1])
  BY <1>0, <1>1
<1> DEFINE Bad == {n \in 0..N : ~(W[n] \subseteq S)}
<1>3. SUFFICES ASSUME Bad # {} PROVE FALSE
  BY <1>0, <1>1
<1>4. PICK n \in Bad : \A m \in Bad : n <= m
  <2>1. Bad \in SUBSET Nat
    BY <1>0
  <2> HIDE DEF Bad
  <2> QED
    BY <1>3, <2>1, Least
<1>5. n # 0
  <2>1. 0 \notin Bad
    BY <1>2
  <2> HIDE DEF Bad
  <2> QED
    BY <2>1, <1>4
<1>6. n - 1 \in 0..N /\ n - 1 \notin Bad /\ n \in 0..N
  BY <1>4, <1>5, <1>0
<1>7. W[n - 1] \subseteq S /\ W[n] = Wider(W[n - 1])
  BY <1>2, <1>5, <1>6
<1>8. W[n] \subseteq S
  BY <1>7 DEF Wider
<1> QED
  BY <1>4, <1>8

-----------------------------------------------------------------------------
(***************************************************************************)
(* Types, and what a request has in hand at each step.                     *)
(***************************************************************************)
Sound(q) ==
  /\ q.pc = "idle" => q = Idle
  /\ q.pc = "move" => q.id \in Folders /\ q.row \in Row
  /\ q.pc \in {"load", "write"} =>
       q.id \in Files /\ q.row \in Row /\ q.row.deleted
  /\ q.pc \in Copying => q.id \in Files /\ q.row \in Row
  /\ q.pc = "unlink" => q.id = None
  /\ q.pc # "unlink" => q.left = {}

TypeOK ==
  /\ folder \in [Folders -> Row \cup {None}]
  /\ mirror \in [Folders -> Row \cup {None}]
  /\ file \in [Files -> Row \cup {None}]
  /\ drawn \subseteq Folders \cup Files /\ obj \subseteq Files
  /\ used \in Int /\ faults \in Nat /\ revivals \in Nat
  /\ h \in [Procs -> Handler] /\ \A p \in Procs : Sound(h[p])

LEMMA RowIs ==
  /\ None \notin Row
  /\ \A n \in Names, d \in Places, b \in BOOLEAN :
       [name |-> n, parent |-> d, deleted |-> b] \in Row
  /\ \A r \in Row : /\ r.name \in Names /\ r.parent \in Places
                   /\ r.deleted \in BOOLEAN
                   /\ r = [name |-> r.name, parent |-> r.parent,
                           deleted |-> r.deleted]
BY FilesAssumption DEF Row, Places

LEMMA IdleIs == Idle \in Handler /\ Sound(Idle)
BY DEF Idle, Handler, Sound, Copying

\* The request of p is now q, and the others are as they were.
Turns(p, q) == /\ h'[p] = q
               /\ \A r \in Procs : r # p => h'[r] = h[r]

LEMMA HandlerStep ==
  ASSUME TypeOK, NEW p \in Procs, NEW q \in Handler, Sound(q),
         h' = [h EXCEPT ![p] = q]
  PROVE  /\ h' \in [Procs -> Handler] /\ \A r \in Procs : Sound(h'[r])
         /\ Turns(p, q)
<1>1. h \in [Procs -> Handler] /\ \A r \in Procs : Sound(h[r])
  BY DEF TypeOK
<1>2. Turns(p, q)
  BY <1>1 DEF Turns
<1>3. h' \in [Procs -> Handler]
  BY <1>1
<1>4. \A r \in Procs : Sound(h'[r])
  BY <1>1, <1>2 DEF Turns
<1> QED
  BY <1>2, <1>3, <1>4

LEMMA Stops ==
  ASSUME TypeOK, NEW p \in Procs, Stop(p)
  PROVE  /\ h' \in [Procs -> Handler] /\ \A r \in Procs : Sound(h'[r])
         /\ Turns(p, Idle)
BY IdleIs, HandlerStep DEF Stop

\* A request that goes on keeps what it has in hand.
LEMMA Goes ==
  ASSUME TypeOK, NEW p \in Procs,
         NEW l \in {"insert", "reconcile", "cleanup"},
         h[p].pc \in Copying, Goto(p, l)
  PROVE  /\ h' \in [Procs -> Handler] /\ \A r \in Procs : Sound(h'[r])
         /\ Turns(p, [h[p] EXCEPT !.pc = l])
<1> DEFINE q == [h[p] EXCEPT !.pc = l]
<1>1. h[p] \in Handler /\ Sound(h[p])
  BY DEF TypeOK
<1>2. q \in Handler
  BY <1>1 DEF Handler
<1>3. /\ q.pc = l /\ q.id = h[p].id /\ q.row = h[p].row
      /\ q.left = h[p].left
  BY <1>1 DEF Handler
<1>4. h' = [h EXCEPT ![p] = q]
  BY DEF Goto, TypeOK
<1> HIDE DEF q
<1>5. Sound(q)
  BY <1>1, <1>3 DEF Sound, Copying
<1> QED
  BY <1>2, <1>4, <1>5, HandlerStep DEF q

LEMMA Freed ==
  ASSUME TypeOK, NEW p \in Procs, NEW xs \in SUBSET Files,
         h' = [h EXCEPT ![p] = [Idle EXCEPT !.pc = "unlink", !.left = xs]]
  PROVE  /\ h' \in [Procs -> Handler] /\ \A r \in Procs : Sound(h'[r])
         /\ Turns(p, [Idle EXCEPT !.pc = "unlink", !.left = xs])
<1> DEFINE q == [Idle EXCEPT !.pc = "unlink", !.left = xs]
<1>1. q \in Handler
  BY DEF Idle, Handler
<1>2. Sound(q)
  BY DEF Idle, Sound, Copying
<1> QED
  BY <1>1, <1>2, HandlerStep

LEMMA DropsTypes ==
  ASSUME TypeOK, NEW p \in Procs,
         NEW fs \in SUBSET Folders, NEW xs \in SUBSET Files,
         DropRows(p, fs, xs), UNCHANGED <<drawn, obj, faults, history>>
  PROVE  TypeOK' /\ Turns(p, [Idle EXCEPT !.pc = "unlink", !.left = xs])
<1>1. \A r \in Row \cup {None} : Orphaned(r, fs) \in Row \cup {None}
  BY RowIs DEF Orphaned, Places, Row
<1>2. folder' \in [Folders -> Row \cup {None}]
  BY <1>1 DEF TypeOK, DropRows
<1>3. mirror' \in [Folders -> Row \cup {None}]
  BY <1>1 DEF TypeOK, DropRows
<1>4. file' \in [Files -> Row \cup {None}]
  BY <1>1 DEF TypeOK, DropRows
<1>5. used' \in Int
  <2>1. Cardinality(xs) \in Nat
    BY FS_Subset, FS_CardinalityType, FilesAssumption
  <2> QED
    BY <2>1 DEF TypeOK, DropRows
<1>6. h' = [h EXCEPT ![p] = [Idle EXCEPT !.pc = "unlink", !.left = xs]]
  BY DEF DropRows
<1> QED
  BY <1>2, <1>3, <1>4, <1>5, <1>6, Freed DEF TypeOK, history

LEMMA BelowFolders ==
  ASSUME NEW f \in Folders PROVE Below(f) \in SUBSET Folders
BY BelowClosed

\* The folders that go when the trash is emptied, and the files.
Emptied == UNION {Below(f) : f \in {f \in Folders : folder[f] # None
                                                    /\ folder[f].deleted}}
EmptiedFiles ==
  FilesIn(Emptied) \cup {x \in Files : file[x] # None /\ file[x].deleted}

LEMMA EmptyIs ==
  ASSUME NEW p, EmptyTrash(p)
  PROVE  /\ DropRows(p, Emptied, EmptiedFiles)
         /\ UNCHANGED <<drawn, obj, faults, history>>
BY DEF EmptyTrash, Emptied, EmptiedFiles

LEMMA EmptiedFolders ==
  Emptied \in SUBSET Folders /\ EmptiedFiles \in SUBSET Files
BY BelowFolders DEF Emptied, EmptiedFiles, FilesIn

LEMMA AllocatedIs ==
  ASSUME NEW d, NEW want, NEW x, NEW n, Allocated(d, want, x, n)
  PROVE  d \in Places /\ d \in Active /\ n \in Names /\ n \notin Occupied(d, x)
BY DEF Allocated, Active, Places

LEMMA UploadTypes ==
  ASSUME TypeOK,
         NEW x \in Files, NEW want, NEW n, NEW d, Publish(x, want, n, d)
  PROVE  TypeOK'
<1>1. [name |-> n, parent |-> d, deleted |-> FALSE] \in Row
  BY RowIs, AllocatedIs DEF Publish
<1> QED
  BY <1>1 DEF TypeOK, Publish, history

LEMMA CreateTypes ==
  ASSUME TypeOK,
         NEW f \in Folders, NEW want, NEW n, NEW d, CreateFolder(f, want, n, d)
  PROVE  TypeOK'
<1>1. [name |-> n, parent |-> d, deleted |-> FALSE] \in Row
  BY RowIs, AllocatedIs DEF CreateFolder
<1> QED
  BY <1>1 DEF TypeOK, CreateFolder, history

LEMMA PlaceIs ==
  ASSUME TypeOK, NEW x \in Files, NEW want, NEW d, PlaceFile(x, want, d)
  PROVE  /\ file[x] \in Row /\ d \in Places
         /\ \E n \in Names :
              /\ \/ n = file[x].name /\ d = file[x].parent /\ stray' = stray
                 \/ Allocated(d, want, x, n) /\ stray' = stray \ {x}
              /\ file' = [file EXCEPT ![x] = [name |-> n, parent |-> d,
                                             deleted |-> file[x].deleted]]
         /\ UNCHANGED <<folder, mirror, drawn, obj, used, h, faults,
                        bare, revived, revivals>>
<1>1. d \in Places /\ file[x] \in Row
  BY DEF PlaceFile, Existing, Places, TypeOK
<1> QED
  BY <1>1 DEF PlaceFile, TypeOK

LEMMA PlaceTypes ==
  ASSUME TypeOK, NEW x \in Files, NEW want, NEW d, PlaceFile(x, want, d)
  PROVE  TypeOK'
<1>1. PICK n \in Names :
        file' = [file EXCEPT ![x] = [name |-> n, parent |-> d,
                                     deleted |-> file[x].deleted]]
  BY PlaceIs
<1>2. file[x] \in Row /\ d \in Places
  BY PlaceIs
<1>3. [name |-> n, parent |-> d, deleted |-> file[x].deleted] \in Row
  BY <1>2, RowIs
<1>4. file' \in [Files -> Row \cup {None}]
  BY <1>1, <1>3 DEF TypeOK
<1> QED
  BY <1>4, PlaceIs DEF TypeOK

LEMMA RestoreFileTypes ==
  ASSUME TypeOK, NEW x \in Files, RestoreFile(x)
  PROVE  TypeOK'
<1>1. file[x] \in Row
  BY DEF RestoreFile, TypeOK
<1> DEFINE up == file[x].parent
           d  == IF up \in Active THEN up ELSE Root
<1>2. PICK n \in Names :
        file' = [file EXCEPT ![x] = [name |-> n, parent |-> d,
                                     deleted |-> FALSE]]
  BY DEF RestoreFile
<1>3. d \in Places
  BY DEF Active, Places
<1> HIDE DEF d
<1>4. file' \in [Files -> Row \cup {None}]
  BY <1>2, <1>3, RowIs DEF TypeOK
<1> QED
  BY <1>4 DEF TypeOK, RestoreFile

LEMMA MoveTypes ==
  ASSUME TypeOK, NEW p \in Procs, MoveFolder(p)
  PROVE  TypeOK' /\ Turns(p, Idle)
<1> DEFINE f == h[p].id want == h[p].row.name d == h[p].row.parent
<1>1. f \in Folders /\ folder[f] \in Row /\ mirror[f] \in Row
  BY DEF MoveFolder, At, TypeOK, Sound
<1>2. /\ folder' \in [Folders -> Row \cup {None}]
      /\ mirror' \in [Folders -> Row \cup {None}]
  <2>1. CASE UNCHANGED <<folder, mirror>>
    BY <2>1 DEF TypeOK
  <2>2. ASSUME NEW n \in Names, Allocated(d, want, f, n),
               SetFolder(f, [name |-> n, parent |-> d,
                             deleted |-> folder[f].deleted])
        PROVE  /\ folder' \in [Folders -> Row \cup {None}]
               /\ mirror' \in [Folders -> Row \cup {None}]
    <3>1. d \in Places
      BY <2>2, AllocatedIs
    <3> DEFINE r == [name |-> n, parent |-> d, deleted |-> folder[f].deleted]
               m == [name |-> n, parent |-> d, deleted |-> mirror[f].deleted]
    <3>2. r \in Row /\ m \in Row
      BY <1>1, <3>1, RowIs
    <3>3. folder' = [folder EXCEPT ![f] = r]
          /\ mirror' = [mirror EXCEPT ![f] = m]
      BY <2>2 DEF SetFolder
    <3> HIDE DEF f, d, r, m
    <3> QED
      BY <1>1, <3>2, <3>3 DEF TypeOK
  <2> QED
    BY <2>1, <2>2 DEF MoveFolder
<1>3. Stop(p) /\ UNCHANGED <<file, drawn, obj, used, faults, revivals>>
  BY DEF MoveFolder
<1> QED
  BY <1>2, <1>3, Stops DEF TypeOK

LEMMA MoveBeginTypes ==
  ASSUME TypeOK, NEW p \in Procs, NEW f \in Folders, NEW want \in Names,
         NEW d \in Places, MoveBegin(p, f, want, d)
  PROVE  /\ TypeOK' /\ h[p].pc = "idle" /\ UNCHANGED <<tree, obj, faults>>
         /\ \A r \in Procs : r # p => h'[r] = h[r]
         /\ h'[p].pc = "move" /\ h'[p].left = {}
<1> DEFINE r == [name |-> want, parent |-> d, deleted |-> FALSE]
           q == [Idle EXCEPT !.pc = "move", !.id = f, !.row = r]
<1>1. r \in Row
  BY RowIs
<1> HIDE DEF r
<1>2. q \in Handler /\ Sound(q) /\ q.pc = "move" /\ q.left = {}
  BY <1>1 DEF Handler, Idle, Sound, Copying
<1>3. h' = [h EXCEPT ![p] = q]
  BY DEF MoveBegin, r
<1> HIDE DEF q
<1> QED
  BY <1>2, <1>3, HandlerStep
  DEF MoveBegin, TypeOK, tree, history, Free, Turns

LEMMA RemoveBeginTypes ==
  ASSUME TypeOK, NEW p \in Procs, NEW x \in Files, RemoveBegin(p, x)
  PROVE  /\ TypeOK' /\ file[x] # None
         /\ h[p].pc = "idle" /\ UNCHANGED <<tree, obj, faults>>
         /\ \A r \in Procs : r # p => h'[r] = h[r]
         /\ h'[p].pc = "load" /\ h'[p].id = x /\ h'[p].left = {}
<1> DEFINE r == [file[x] EXCEPT !.deleted = TRUE]
           q == [Idle EXCEPT !.pc = "load", !.id = x, !.row = r]
<1>0. file[x] \in Row
  BY DEF RemoveBegin, TypeOK
<1>1. r \in Row /\ r.deleted
  BY <1>0, RowIs DEF Row
<1> HIDE DEF r
<1>2. q \in Handler /\ Sound(q) /\ q.pc = "load" /\ q.id = x /\ q.left = {}
  BY <1>1 DEF Handler, Idle, Sound, Copying
<1>3. h' = [h EXCEPT ![p] = q]
  BY DEF RemoveBegin, r
<1> HIDE DEF q
<1> QED
  BY <1>2, <1>3, HandlerStep
  DEF RemoveBegin, TypeOK, tree, history, Free, Turns

LEMMA RemoveLoadTypes ==
  ASSUME TypeOK, NEW p \in Procs, RemoveLoad(p)
  PROVE  /\ TypeOK' /\ h[p].pc = "load" /\ UNCHANGED <<tree, obj, faults>>
         /\ \A r \in Procs : r # p => h'[r] = h[r]
         /\ h'[p].pc = "write" /\ h'[p].id = h[p].id /\ h'[p].left = {}
         /\ h'[p].known = file[h[p].id]
<1> DEFINE q == [h[p] EXCEPT !.pc = "write", !.known = file[h[p].id]]
<1>1. h[p] \in Handler /\ Sound(h[p]) /\ h[p].pc = "load"
  BY DEF RemoveLoad, At, TypeOK
<1>2. file[h[p].id] \in Row \cup {None}
  BY <1>1 DEF TypeOK, Sound
<1>3. q \in Handler
  BY <1>1, <1>2 DEF Handler
<1>4. /\ q.pc = "write" /\ q.id = h[p].id /\ q.row = h[p].row
      /\ q.left = h[p].left /\ q.known = file[h[p].id]
  BY <1>1 DEF Handler
<1>5. h' = [h EXCEPT ![p] = q]
  BY DEF RemoveLoad, TypeOK
<1> HIDE DEF q
<1>6. Sound(q) /\ q.left = {}
  BY <1>1, <1>4 DEF Sound, Copying
<1> QED
  BY <1>1, <1>3, <1>4, <1>5, <1>6, HandlerStep
  DEF RemoveLoad, TypeOK, tree, history, Turns

LEMMA RemoveWriteTypes ==
  ASSUME TypeOK, NEW p \in Procs, RemoveWrite(p)
  PROVE  /\ TypeOK' /\ Turns(p, Idle) /\ h[p].pc = "write"
         /\ UNCHANGED <<folder, mirror, drawn, obj, used, faults,
                        bare, revived, revivals>>
         /\ h[p].id \in Files
         /\ \A x \in Files : x # h[p].id => file'[x] = file[x]
         /\ stray \subseteq stray'
         /\ Live(file'[h[p].id]) =>
              file'[h[p].id] = file[h[p].id] \/ h[p].id \in stray'
         /\ file'[h[p].id] = None <=> file[h[p].id] = None
<1> DEFINE x == h[p].id mine == h[p].row known == h[p].known
           moved == mine.parent # known.parent
           r == [name |-> IF mine.name # known.name THEN mine.name
                          ELSE file[x].name,
                 parent |-> IF moved THEN mine.parent ELSE file[x].parent,
                 deleted |-> file[x].deleted \/ ~known.deleted]
<1>1. /\ x \in Files /\ mine \in Row /\ h[p].pc = "write"
      /\ known \in Row
  BY DEF RemoveWrite, At, TypeOK, Sound, Handler
<1>2. file[x] # None => r \in Row
  <2> SUFFICES ASSUME file[x] # None PROVE r \in Row
    OBVIOUS
  <2>1. file[x] \in Row
    BY <1>1 DEF TypeOK
  <2>2. /\ (IF mine.name # known.name THEN mine.name
            ELSE file[x].name) \in Names
        /\ (IF moved THEN mine.parent ELSE file[x].parent) \in Places
        /\ (file[x].deleted \/ ~known.deleted) \in BOOLEAN
    BY <2>1, <1>1, RowIs
  <2> QED
    BY <2>2, RowIs
<1>3. /\ file' = [file EXCEPT ![x] = IF file[x] = None THEN None ELSE r]
      /\ stray' = IF Live(file'[x]) /\ file'[x] # file[x]
                  THEN stray \cup {x} ELSE stray
  BY <1>1 DEF RemoveWrite, TypeOK
<1>4. /\ Stop(p)
      /\ UNCHANGED <<folder, mirror, drawn, obj, used, faults,
                     bare, revived, revivals>>
  BY DEF RemoveWrite
<1> HIDE DEF x, mine, known, moved, r
<1>5. /\ file' \in [Files -> Row \cup {None}]
      /\ \A y \in Files : y # x => file'[y] = file[y]
      /\ file'[x] = None <=> file[x] = None
  BY <1>1, <1>2, <1>3, RowIs DEF TypeOK
<1> QED
  BY <1>1, <1>3, <1>4, <1>5, Stops DEF TypeOK, x

LEMMA RemoveInsertTypes ==
  ASSUME TypeOK, NEW p \in Procs, RemoveInsert(p)
  PROVE  /\ TypeOK' /\ Turns(p, Idle) /\ h[p].pc = "write"
         /\ UNCHANGED <<folder, mirror, drawn, obj, used, faults, stray, bare>>
         /\ h[p].id \in Files /\ file[h[p].id] = None
         /\ \A x \in Files : x # h[p].id => file'[x] = file[x]
         /\ file'[h[p].id] # None /\ file'[h[p].id].deleted
         /\ revived' = revived \cup {h[p].id} /\ revivals' = revivals + 1
<1>1. /\ h[p].id \in Files /\ h[p].row \in Row /\ h[p].row.deleted
      /\ h[p].pc = "write" /\ h[p].row # None
  BY RowIs DEF RemoveInsert, At, TypeOK, Sound
<1>2. file' = [file EXCEPT ![h[p].id] = h[p].row] /\ Stop(p)
  BY DEF RemoveInsert
<1>3. /\ file' \in [Files -> Row \cup {None}] /\ file'[h[p].id] = h[p].row
      /\ \A x \in Files : x # h[p].id => file'[x] = file[x]
  BY <1>1, <1>2 DEF TypeOK
<1>4. /\ UNCHANGED <<folder, mirror, drawn, obj, used, faults, stray, bare>>
      /\ file[h[p].id] = None
      /\ revived' = revived \cup {h[p].id} /\ revivals' = revivals + 1
  BY DEF RemoveInsert
<1> QED
  BY <1>1, <1>2, <1>3, <1>4, Stops DEF TypeOK

LEMMA RemoveFolderTypes ==
  ASSUME TypeOK, NEW f \in Folders, RemoveFolder(f)
  PROVE  /\ TypeOK' /\ folder[f] \in Row /\ mirror[f] \in Row
         /\ folder' = [folder EXCEPT ![f] = [@ EXCEPT !.deleted = TRUE]]
         /\ mirror' = [mirror EXCEPT ![f] = [@ EXCEPT !.deleted = TRUE]]
         /\ UNCHANGED <<file, drawn, obj, used, h, faults, history>>
<1>1. folder[f] \in Row /\ mirror[f] \in Row
  BY DEF RemoveFolder, TypeOK
<1> DEFINE r == [folder[f] EXCEPT !.deleted = TRUE]
           m == [mirror[f] EXCEPT !.deleted = TRUE]
<1>2. r \in Row /\ m \in Row
  BY <1>1 DEF Row
<1>3. folder' = [folder EXCEPT ![f] = r] /\ mirror' = [mirror EXCEPT ![f] = m]
  BY DEF RemoveFolder, TypeOK
<1> HIDE DEF r, m
<1>4. /\ folder' \in [Folders -> Row \cup {None}]
      /\ mirror' \in [Folders -> Row \cup {None}]
  BY <1>2, <1>3 DEF TypeOK
<1> QED
  BY <1>1, <1>3, <1>4 DEF RemoveFolder, TypeOK, history, r, m

LEMMA RestoreFolderTypes ==
  ASSUME TypeOK, NEW f \in Folders, RestoreFolder(f)
  PROVE  /\ TypeOK' /\ folder[f] \in Row /\ mirror[f] \in Row
         /\ LET up == folder[f].parent
                d  == IF up \in Active THEN up ELSE Root
                md == IF up \in Active THEN mirror[f].parent ELSE Root
            IN  \E n \in Names :
                  /\ IF folder[f].deleted
                     THEN Allocated(d, folder[f].name, f, n)
                     ELSE n = folder[f].name
                  /\ folder' = [folder EXCEPT ![f] =
                       [name |-> n, parent |-> d, deleted |-> FALSE]]
                  /\ mirror' = [mirror EXCEPT ![f] =
                       [name |-> IF folder[f].deleted THEN n
                                 ELSE mirror[f].name,
                        parent |-> md, deleted |-> FALSE]]
                  /\ stray' = IF folder[f].deleted THEN stray \ {f}
                              ELSE IF d # up THEN stray \cup {f} ELSE stray
         /\ UNCHANGED <<file, drawn, obj, used, h, faults,
                        bare, revived, revivals>>
<1>1. folder[f] \in Row /\ mirror[f] \in Row
  BY DEF RestoreFolder, TypeOK
<1> DEFINE up == folder[f].parent
           d  == IF up \in Active THEN up ELSE Root
           md == IF up \in Active THEN mirror[f].parent ELSE Root
<1>2. PICK n \in Names :
        /\ IF folder[f].deleted THEN Allocated(d, folder[f].name, f, n)
           ELSE n = folder[f].name
        /\ folder' = [folder EXCEPT ![f] =
             [name |-> n, parent |-> d, deleted |-> FALSE]]
        /\ mirror' = [mirror EXCEPT ![f] =
             [name |-> IF folder[f].deleted THEN n ELSE mirror[f].name,
              parent |-> md, deleted |-> FALSE]]
        /\ stray' = IF folder[f].deleted THEN stray \ {f}
                    ELSE IF d # up THEN stray \cup {f} ELSE stray
  BY <1>1 DEF RestoreFolder, TypeOK
<1>3. d \in Places /\ md \in Places
  BY <1>1, RowIs DEF Active, Places
<1> HIDE DEF up, d, md
<1> DEFINE r == [name |-> n, parent |-> d, deleted |-> FALSE]
           m == [name |-> IF folder[f].deleted THEN n ELSE mirror[f].name,
                 parent |-> md, deleted |-> FALSE]
<1>4. r \in Row /\ m \in Row
  BY <1>1, <1>3, RowIs
<1>5. folder' = [folder EXCEPT ![f] = r] /\ mirror' = [mirror EXCEPT ![f] = m]
  BY <1>2
<1> HIDE DEF r, m
<1>6. /\ folder' \in [Folders -> Row \cup {None}]
      /\ mirror' \in [Folders -> Row \cup {None}]
  BY <1>4, <1>5 DEF TypeOK
<1>7. TypeOK'
  BY <1>6 DEF RestoreFolder, TypeOK
<1> QED
  BY <1>1, <1>2, <1>7 DEF RestoreFolder, up, d, md

LEMMA MirrorTypes ==
  ASSUME TypeOK, NEW f \in Folders, DeleteMirror(f)
  PROVE  TypeOK'
BY DEF TypeOK, DeleteMirror

LEMMA UnlinkTypes ==
  ASSUME TypeOK, NEW p \in Procs, Unlink(p)
  PROVE  /\ TypeOK' /\ h[p].pc = "unlink" /\ UNCHANGED <<tree, faults>>
         /\ \/ \E x \in h[p].left :
                 /\ obj' = obj \ {x}
                 /\ Turns(p, [h[p] EXCEPT !.left = @ \ {x}])
            \/ h[p].left = {} /\ UNCHANGED obj /\ Turns(p, Idle)
<1>1. h[p] \in Handler /\ Sound(h[p])
  BY DEF TypeOK
<1>2. CASE At(p, "unlink") /\ h[p].left = {} /\ Stop(p)
           /\ UNCHANGED <<tree, obj, faults>>
  BY <1>2, Stops DEF At, TypeOK, tree, history
<1>3. ASSUME NEW x \in h[p].left, At(p, "unlink"), obj' = obj \ {x},
             h' = [h EXCEPT ![p].left = @ \ {x}], UNCHANGED <<tree, faults>>
      PROVE  /\ TypeOK' /\ h[p].pc = "unlink"
             /\ Turns(p, [h[p] EXCEPT !.left = @ \ {x}])
  <2> DEFINE q == [h[p] EXCEPT !.left = @ \ {x}]
  <2>1. q \in Handler
    BY <1>1 DEF Handler
  <2>2. q.pc = h[p].pc /\ q.id = h[p].id /\ h[p].pc = "unlink"
    BY <1>1, <1>3 DEF Handler, At
  <2>3. h' = [h EXCEPT ![p] = q]
    BY <1>3 DEF TypeOK
  <2> HIDE DEF q
  <2>4. Sound(q)
    BY <1>1, <2>2 DEF Sound, Copying
  <2>5. /\ h' \in [Procs -> Handler] /\ \A r \in Procs : Sound(h'[r])
        /\ Turns(p, q)
    BY <2>1, <2>3, <2>4, HandlerStep
  <2>6. TypeOK'
    BY <1>3, <2>5 DEF TypeOK, tree, history
  <2> QED
    BY <2>2, <2>5, <2>6 DEF q
<1> QED
  BY <1>2, <1>3 DEF Unlink

LEMMA CopyBeginTypes ==
  ASSUME TypeOK, NEW p \in Procs, NEW x \in Files, NEW y \in Files,
         NEW d \in Places, CopyBegin(p, x, y, d)
  PROVE  /\ TypeOK' /\ h[p].pc = "idle" /\ y \notin drawn
         /\ drawn' = drawn \cup {y}
         /\ UNCHANGED <<folder, mirror, file, obj, used, faults, history>>
         /\ \A r \in Procs : r # p => h'[r] = h[r]
         /\ h'[p].pc = "copy" /\ h'[p].id = y /\ h'[p].left = {}
<1> DEFINE r == [name |-> file[x].name, parent |-> d, deleted |-> FALSE]
           q == [Idle EXCEPT !.pc = "copy", !.id = y, !.src = x, !.row = r]
<1>1. r \in Row
  <2>1. file[x] \in Row
    BY DEF CopyBegin, TypeOK
  <2> QED
    BY <2>1, RowIs
<1> HIDE DEF r
<1>2. q \in Handler /\ Sound(q) /\ q.pc = "copy" /\ q.id = y /\ q.left = {}
  BY <1>1 DEF Handler, Idle, Sound, Copying
<1>3. h' = [h EXCEPT ![p] = q]
  BY DEF CopyBegin, r
<1> HIDE DEF q
<1>4. /\ h' \in [Procs -> Handler] /\ \A z \in Procs : Sound(h'[z])
      /\ Turns(p, q)
  BY <1>2, <1>3, HandlerStep
<1> QED
  BY <1>2, <1>4 DEF CopyBegin, TypeOK, history, Free, Turns

LEMMA CopyRowTypes ==
  ASSUME TypeOK, NEW p \in Procs, h[p].pc = "insert", NEW n \in Names,
         CopyRow(p, n)
  PROVE  /\ file' \in [Files -> Row \cup {None}] /\ used' \in Int
         /\ file' = [file EXCEPT ![h[p].id] =
              [name |-> n, parent |-> h[p].row.parent,
               deleted |-> h[p].row.deleted]]
<1>1. h[p].id \in Files /\ h[p].row \in Row
  BY DEF TypeOK, Sound, Copying
<1>2. [h[p].row EXCEPT !.name = n] =
        [name |-> n, parent |-> h[p].row.parent, deleted |-> h[p].row.deleted]
  BY <1>1 DEF Row
<1>3. [name |-> n, parent |-> h[p].row.parent,
       deleted |-> h[p].row.deleted] \in Row
  BY <1>1, RowIs
<1> DEFINE r == [name |-> n, parent |-> h[p].row.parent,
                 deleted |-> h[p].row.deleted]
<1>4. file' = [file EXCEPT ![h[p].id] = r] /\ used' = used + 1
  BY <1>2 DEF CopyRow
<1>5. r \in Row
  BY <1>3
<1> HIDE DEF r
<1>6. file' \in [Files -> Row \cup {None}] /\ used' \in Int
  BY <1>1, <1>4, <1>5 DEF TypeOK
<1> QED
  BY <1>4, <1>6 DEF r

\* What the steps of a copy do to the request, the rows and the objects.
LEMMA CopyObjectTypes ==
  ASSUME TypeOK, NEW p \in Procs, CopyObject(p)
  PROVE  /\ TypeOK' /\ h[p].pc = "copy" /\ h[p].id \in Files
         /\ UNCHANGED <<tree, faults>>
         /\ \/ /\ obj' = obj \cup {h[p].id}
               /\ Turns(p, [h[p] EXCEPT !.pc = "insert"])
            \/ UNCHANGED obj /\ Turns(p, Idle)
<1>1. h[p].pc = "copy" /\ h[p].id \in Files /\ h[p].pc \in Copying
  BY DEF CopyObject, At, TypeOK, Sound, Copying
<1>2. CASE obj' = obj \cup {h[p].id} /\ Goto(p, "insert")
  BY <1>1, <1>2, Goes DEF CopyObject, TypeOK, tree, history
<1>3. CASE UNCHANGED obj /\ Stop(p)
  BY <1>1, <1>3, Stops DEF CopyObject, TypeOK, tree, history
<1> QED
  BY <1>2, <1>3 DEF CopyObject

LEMMA CopyInsertTypes ==
  ASSUME TypeOK, NEW p \in Procs, CopyInsert(p)
  PROVE  /\ TypeOK' /\ h[p].pc = "insert" /\ Turns(p, Idle)
         /\ \E n \in Names : CopyRow(p, n)
         /\ UNCHANGED <<folder, mirror, drawn, obj, faults, history>>
<1>1. PICK n \in Names : CopyRow(p, n)
  BY DEF CopyInsert
<1>2. h[p].pc = "insert"
  BY DEF CopyInsert, At
<1>3. UNCHANGED <<folder, mirror, drawn, obj, faults, history>>
  BY <1>1 DEF CopyInsert, CopyRow
<1> QED
  BY <1>1, <1>2, <1>3, CopyRowTypes, Stops DEF CopyInsert, TypeOK, history

LEMMA CopyFailsTypes ==
  ASSUME TypeOK, NEW p \in Procs, CopyFails(p)
  PROVE  /\ TypeOK' /\ h[p].pc = "insert" /\ UNCHANGED <<tree, obj, faults>>
         /\ Turns(p, [h[p] EXCEPT !.pc = "cleanup"])
<1>1. h[p].pc = "insert" /\ h[p].pc \in Copying
  BY DEF CopyFails, At, Copying
<1> QED
  BY <1>1, Goes DEF CopyFails, TypeOK, tree, history

LEMMA CopyUnknownTypes ==
  ASSUME TypeOK, NEW p \in Procs, CopyUnknown(p)
  PROVE  /\ TypeOK' /\ h[p].pc = "insert" /\ faults' = faults + 1
         /\ Turns(p, [h[p] EXCEPT !.pc = "reconcile"])
         /\ (\E n \in Names : CopyRow(p, n)) \/ UNCHANGED tree
         /\ UNCHANGED <<folder, mirror, drawn, obj, history>>
<1>1. h[p].pc = "insert" /\ h[p].pc \in Copying
  BY DEF CopyUnknown, At, Copying
<1>2. /\ h' \in [Procs -> Handler] /\ \A r \in Procs : Sound(h'[r])
      /\ Turns(p, [h[p] EXCEPT !.pc = "reconcile"])
  BY <1>1, Goes DEF CopyUnknown
<1>3. /\ file' \in [Files -> Row \cup {None}] /\ used' \in Int
      /\ UNCHANGED <<folder, mirror, drawn, history>>
  <2>1. CASE UNCHANGED tree
    BY <2>1 DEF tree, TypeOK, history
  <2>2. ASSUME NEW n \in Names, CopyRow(p, n)
        PROVE  /\ file' \in [Files -> Row \cup {None}] /\ used' \in Int
               /\ UNCHANGED <<folder, mirror, drawn, history>>
    BY <1>1, <2>2, CopyRowTypes DEF CopyRow
  <2> QED
    BY <2>1, <2>2 DEF CopyUnknown
<1> QED
  BY <1>1, <1>2, <1>3 DEF CopyUnknown, TypeOK, history

LEMMA CopyReconcileTypes ==
  ASSUME TypeOK, NEW p \in Procs, CopyReconcile(p)
  PROVE  /\ TypeOK' /\ h[p].pc = "reconcile" /\ h[p].id \in Files
         /\ UNCHANGED <<tree, obj, faults>>
         /\ IF file[h[p].id] = None
            THEN Turns(p, [h[p] EXCEPT !.pc = "cleanup"])
            ELSE Turns(p, Idle)
<1>1. h[p].pc = "reconcile" /\ h[p].pc \in Copying /\ h[p].id \in Files
  BY DEF CopyReconcile, At, Copying, TypeOK, Sound
<1>2. CASE file[h[p].id] = None /\ Goto(p, "cleanup")
  BY <1>1, <1>2, Goes DEF CopyReconcile, TypeOK, tree, history
<1>3. CASE file[h[p].id] # None /\ Stop(p)
  BY <1>1, <1>3, Stops DEF CopyReconcile, TypeOK, tree, history
<1> QED
  BY <1>2, <1>3 DEF CopyReconcile

LEMMA CopyCleanupTypes ==
  ASSUME TypeOK, NEW p \in Procs, CopyCleanup(p)
  PROVE  /\ TypeOK' /\ h[p].pc = "cleanup" /\ obj' = obj \ {h[p].id}
         /\ UNCHANGED <<tree, faults>> /\ Turns(p, Idle)
BY Stops DEF CopyCleanup, At, TypeOK, tree, history

LEMMA RefuseTypes ==
  ASSUME TypeOK, NEW p \in Procs, Refuse(p)
  PROVE  /\ TypeOK' /\ h[p].pc \in {"move", "load", "write"}
         /\ UNCHANGED <<tree, obj, faults>> /\ Turns(p, Idle)
BY Stops DEF Refuse, TypeOK, tree, history

LEMMA FaultTypes ==
  ASSUME TypeOK, Fault
  PROVE  /\ TypeOK' /\ UNCHANGED <<tree, obj>> /\ faults' = faults + 1
         /\ \/ \E p \in Procs : Turns(p, Idle)
            \/ \A p \in Procs : h'[p] = Idle
<1>1. ASSUME NEW p \in Procs, Stop(p)
      PROVE  TypeOK' /\ Turns(p, Idle)
  BY <1>1, Stops DEF Fault, TypeOK, tree, history
<1>2. ASSUME h' = [p \in Procs |-> Idle]
      PROVE  TypeOK' /\ \A p \in Procs : h'[p] = Idle
  BY <1>2, IdleIs DEF Fault, TypeOK, tree, history
<1> QED
  BY <1>1, <1>2 DEF Fault

-----------------------------------------------------------------------------
(***************************************************************************)
(* The tree.  Acyclic says of sets what Forest says of paths: in every set *)
(* of folders there is one whose parent is outside of it.                  *)
(***************************************************************************)
Acyclic ==
  \A S \in SUBSET Folders :
    S # {} => \E g \in S : folder[g] = None \/ folder[g].parent \notin S

Shape ==
  /\ Acyclic
  /\ \A g \in Folders : folder[g] # None =>
       folder[g].parent \in Existing /\ g \in drawn

TreeInv == TypeOK /\ MirrorAgrees /\ UniqueNames /\ Shape

LEMMA AcyclicForest ==
  ASSUME Acyclic PROVE Forest
<1> SUFFICES ASSUME NEW f \in Folders, folder[f] # None,
                    folder[f].parent \in Below(f)
             PROVE  FALSE
  BY DEF Forest
<1> DEFINE B == Below(f)
           S == {f} \cup {g \in Folders : folder[g] # None
                                          /\ folder[g].parent \in B}
<1>1. /\ f \in B /\ B \subseteq Folders
      /\ \A g \in Folders :
           folder[g] # None /\ folder[g].parent \in B => g \in B
  BY BelowClosed
<1>2. B \subseteq S
  <2>1. S \subseteq B
    BY <1>1
  <2>2. \A g \in Folders :
          folder[g] # None /\ folder[g].parent \in S => g \in S
    BY <2>1
  <2>3. f \in S
    OBVIOUS
  <2> HIDE DEF S
  <2> QED
    BY <2>2, <2>3, BelowLeast
<1>3. \A g \in B : folder[g] # None /\ folder[g].parent \in B
  BY <1>2
<1> HIDE DEF B, S
<1> QED
  BY <1>1, <1>3 DEF Acyclic

\* Names.
LEMMA NamesKept ==
  ASSUME UniqueNames,
         \A x \in Files \ stray' : Live(file'[x]) =>
           /\ x \notin stray /\ Live(file[x])
           /\ file'[x].name = file[x].name
           /\ file'[x].parent = file[x].parent,
         \A g \in Folders \ stray' : Live(folder'[g]) =>
           /\ g \notin stray /\ Live(folder[g])
           /\ folder'[g].name = folder[g].name
           /\ folder'[g].parent = folder[g].parent
  PROVE  UniqueNames'
<1> USE DEF UniqueNames
<1>1. \A x, y \in Files \ stray' :
        x # y /\ Live(file'[x]) /\ Live(file'[y])
        /\ file'[x].parent = file'[y].parent => file'[x].name # file'[y].name
  OBVIOUS
<1>2. \A f, g \in Folders \ stray' :
        f # g /\ Live(folder'[f]) /\ Live(folder'[g])
        /\ folder'[f].parent = folder'[g].parent =>
          folder'[f].name # folder'[g].name
  OBVIOUS
<1>3. \A x \in Files \ stray', f \in Folders \ stray' :
        Live(file'[x]) /\ Live(folder'[f])
        /\ file'[x].parent = folder'[f].parent =>
          file'[x].name # folder'[f].name
  OBVIOUS
<1> HIDE DEF UniqueNames
<1> QED
  BY <1>1, <1>2, <1>3 DEF UniqueNames, Live

LEMMA OccupiedIs ==
  ASSUME NEW d, NEW x
  PROVE  /\ \A y \in Files \ {x} : Live(file[y]) /\ file[y].parent = d =>
              file[y].name \in Occupied(d, x)
         /\ \A g \in Folders \ {x} : Live(folder[g]) /\ folder[g].parent = d =>
              folder[g].name \in Occupied(d, x)
BY DEF Occupied

LEMMA FilePlaced ==
  ASSUME TypeOK, UniqueNames, NEW x \in Files, NEW n, NEW d, NEW b,
         n \notin Occupied(d, x), UNCHANGED folder,
         stray \ {x} \subseteq stray',
         file' = [file EXCEPT ![x] = [name |-> n, parent |-> d, deleted |-> b]]
  PROVE  UniqueNames'
<1>1. /\ file'[x].name = n /\ file'[x].parent = d
      /\ \A y \in Files : y # x => file'[y] = file[y]
  BY DEF TypeOK
<1>2. /\ \A y \in Files : y # x /\ Live(file[y]) /\ file[y].parent = d =>
           file[y].name # n
      /\ \A g \in Folders : Live(folder[g]) /\ folder[g].parent = d =>
           folder[g].name # n
  BY OccupiedIs, FilesAssumption
<1>3. /\ \A y \in Files \ stray' : y # x => y \notin stray
      /\ \A f \in Folders \ stray' : f \notin stray
  BY FilesAssumption
<1>4. \A y, z \in Files \ stray' :
        y # z /\ Live(file'[y]) /\ Live(file'[z])
        /\ file'[y].parent = file'[z].parent => file'[y].name # file'[z].name
  BY <1>1, <1>2, <1>3 DEF UniqueNames
<1>5. \A y \in Files \ stray', f \in Folders \ stray' :
        Live(file'[y]) /\ Live(folder'[f])
        /\ file'[y].parent = folder'[f].parent =>
          file'[y].name # folder'[f].name
  BY <1>1, <1>2, <1>3 DEF UniqueNames
<1>6. \A f, g \in Folders \ stray' :
        f # g /\ Live(folder'[f]) /\ Live(folder'[g])
        /\ folder'[f].parent = folder'[g].parent =>
          folder'[f].name # folder'[g].name
  BY <1>3 DEF UniqueNames
<1> QED
  BY <1>4, <1>5, <1>6 DEF UniqueNames, Live

LEMMA FolderPlaced ==
  ASSUME TypeOK, UniqueNames, NEW x \in Folders, NEW n, NEW d, NEW b,
         n \notin Occupied(d, x), UNCHANGED file, stray \ {x} \subseteq stray',
         folder' = [folder EXCEPT ![x] = [name |-> n, parent |-> d,
                                          deleted |-> b]]
  PROVE  UniqueNames'
<1>1. /\ folder'[x].name = n /\ folder'[x].parent = d
      /\ \A y \in Folders : y # x => folder'[y] = folder[y]
  BY DEF TypeOK
<1>2. /\ \A y \in Folders : y # x /\ Live(folder[y]) /\ folder[y].parent = d =>
           folder[y].name # n
      /\ \A g \in Files : Live(file[g]) /\ file[g].parent = d =>
           file[g].name # n
  BY OccupiedIs, FilesAssumption
<1>3. /\ \A y \in Folders \ stray' : y # x => y \notin stray
      /\ \A y \in Files \ stray' : y \notin stray
  BY FilesAssumption
<1>4. \A y, z \in Folders \ stray' :
        y # z /\ Live(folder'[y]) /\ Live(folder'[z])
        /\ folder'[y].parent = folder'[z].parent =>
          folder'[y].name # folder'[z].name
  BY <1>1, <1>2, <1>3 DEF UniqueNames
<1>5. \A y \in Files \ stray', f \in Folders \ stray' :
        Live(file'[y]) /\ Live(folder'[f])
        /\ file'[y].parent = folder'[f].parent =>
          file'[y].name # folder'[f].name
  BY <1>1, <1>2, <1>3 DEF UniqueNames
<1>6. \A y, z \in Files \ stray' :
        y # z /\ Live(file'[y]) /\ Live(file'[z])
        /\ file'[y].parent = file'[z].parent => file'[y].name # file'[z].name
  BY <1>3 DEF UniqueNames
<1> QED
  BY <1>4, <1>5, <1>6 DEF UniqueNames, Live

\* Shapes.
LEMMA ShapeKept ==
  ASSUME Shape, drawn \subseteq drawn',
         \A g \in Folders :
           /\ folder'[g] = None <=> folder[g] = None
           /\ folder'[g] # None =>
                folder'[g].parent \in {folder[g].parent, Root}
  PROVE  Shape'
<1>1. Acyclic'
  <2> SUFFICES ASSUME NEW S \in SUBSET Folders, S # {}
               PROVE  \E g \in S : folder'[g] = None
                                   \/ folder'[g].parent \notin S
    BY DEF Acyclic
  <2> QED
    BY FilesAssumption DEF Shape, Acyclic
<1>2. Existing' = Existing
  BY DEF Existing
<1>3. \A g \in Folders : folder'[g] # None =>
        folder'[g].parent \in Existing' /\ g \in drawn'
  BY <1>2 DEF Shape, Existing
<1> QED
  BY <1>1, <1>3 DEF Shape

\* A new folder is in one there is.
LEMMA ShapeGrows ==
  ASSUME TypeOK, Shape, NEW f \in Folders, f \notin drawn, NEW d \in Existing,
         NEW n, drawn' = drawn \cup {f},
         folder' = [folder EXCEPT ![f] = [name |-> n, parent |-> d,
                                          deleted |-> FALSE]],
         folder'[f] # None
  PROVE  Shape'
<1>1. /\ folder[f] = None /\ folder'[f].parent = d /\ d # f
      /\ \A g \in Folders : g # f => folder'[g] = folder[g]
  BY FilesAssumption DEF TypeOK, Shape, Existing
<1>2. \A g \in Folders : folder[g] # None => folder[g].parent # f
  BY <1>1, FilesAssumption DEF Shape, Existing
<1>3. Acyclic'
  <2> SUFFICES ASSUME NEW S \in SUBSET Folders, S # {}
               PROVE  \E g \in S : folder'[g] = None
                                   \/ folder'[g].parent \notin S
    BY DEF Acyclic
  <2>1. CASE S = {f}
    BY <1>1, <2>1
  <2>2. CASE S # {f}
    <3>1. S \ {f} # {} /\ S \ {f} \in SUBSET Folders
      BY <2>2
    <3>2. PICK g \in S \ {f} :
            folder[g] = None \/ folder[g].parent \notin S \ {f}
      BY <3>1 DEF Shape, Acyclic
    <3> QED
      BY <1>1, <1>2, <3>2
  <2> QED
    BY <2>1, <2>2
<1>4. Existing \subseteq Existing'
  BY <1>1 DEF Existing
<1> QED
  BY <1>1, <1>3, <1>4 DEF Shape

\* A folder goes to one that is not below it.
LEMMA ShapeMoves ==
  ASSUME TypeOK, Shape, NEW f \in Folders, folder[f] # None, NEW r \in Row,
         r.parent \in Existing \ Below(f),
         folder' = [folder EXCEPT ![f] = r], UNCHANGED drawn
  PROVE  Shape'
<1>1. /\ folder'[f] = r /\ r # None
      /\ \A g \in Folders : g # f => folder'[g] = folder[g]
  BY RowIs DEF TypeOK
<1>2. Existing' = Existing
  BY <1>1 DEF Existing
<1>3. Acyclic'
  <2> SUFFICES ASSUME NEW S \in SUBSET Folders, S # {}
               PROVE  \E g \in S : folder'[g] = None
                                   \/ folder'[g].parent \notin S
    BY DEF Acyclic
  <2>1. CASE f \notin S
    BY <1>1, <2>1 DEF Shape, Acyclic
  <2>2. CASE f \in S /\ S \subseteq Below(f)
    BY <1>1, <2>2
  <2>3. CASE f \in S /\ ~(S \subseteq Below(f))
    <3> DEFINE T == S \ Below(f)
    <3>1. T # {} /\ T \in SUBSET Folders
      BY <2>3
    <3>2. PICK g \in T : folder[g] = None \/ folder[g].parent \notin T
      BY <3>1 DEF Shape, Acyclic
    <3>3. f \in Below(f) /\ (folder[g] # None /\ folder[g].parent \in Below(f)
                             => g \in Below(f))
      BY <3>2, BelowClosed
    <3> QED
      BY <1>1, <3>2, <3>3
  <2> QED
    BY <2>1, <2>2, <2>3
<1> QED
  BY <1>1, <1>2, <1>3 DEF Shape

\* The rows that a deletion takes: with a folder all that is directly in it.
Closed(fs, xs) ==
  /\ fs \subseteq Folders /\ xs \subseteq {x \in Files : file[x] # None}
  /\ \A g \in Folders :
       folder[g] # None /\ folder[g].parent \in fs => g \in fs
  /\ \A x \in Files : file[x] # None /\ file[x].parent \in fs => x \in xs

Deletion(p, fs, xs) ==
  /\ Closed(fs, xs) /\ DropRows(p, fs, xs) /\ h[p].pc = "idle"
  /\ UNCHANGED <<drawn, obj, faults, history>>

LEMMA FileDeletion ==
  ASSUME TypeOK, NEW p \in Procs, NEW x \in Files, DeleteFile(p, x)
  PROVE  Deletion(p, {}, {x})
BY DEF DeleteFile, Deletion, Closed, Free

LEMMA FolderDeletion ==
  ASSUME TypeOK, NEW p \in Procs, NEW f \in Folders, DeleteFolder(p, f)
  PROVE  Deletion(p, Below(f), FilesIn(Below(f)))
<1>1. Closed(Below(f), FilesIn(Below(f)))
  BY BelowClosed DEF Closed, FilesIn
<1> QED
  BY <1>1 DEF DeleteFolder, Deletion, Free

LEMMA TrashDeletion ==
  ASSUME TypeOK, NEW p \in Procs, EmptyTrash(p)
  PROVE  Deletion(p, Emptied, EmptiedFiles)
<1>1. Closed(Emptied, EmptiedFiles)
  <2>1. Emptied \subseteq Folders
    BY EmptiedFolders
  <2>2. EmptiedFiles \subseteq {x \in Files : file[x] # None}
    BY DEF EmptiedFiles, FilesIn
  <2>3. \A g \in Folders :
          folder[g] # None /\ folder[g].parent \in Emptied => g \in Emptied
    BY BelowClosed DEF Emptied
  <2>4. \A x \in Files : file[x] # None /\ file[x].parent \in Emptied =>
          x \in EmptiedFiles
    BY DEF EmptiedFiles, FilesIn
  <2> QED
    BY <2>1, <2>2, <2>3, <2>4 DEF Closed
<1> QED
  BY <1>1, EmptyIs DEF EmptyTrash, Deletion, Free

\* So no foreign key has anything to do.
LEMMA DeletionIs ==
  ASSUME TypeOK, NEW p \in Procs, NEW fs, NEW xs, Deletion(p, fs, xs)
  PROVE  /\ TypeOK' /\ UNCHANGED <<drawn, obj, faults, history>>
         /\ Turns(p, [Idle EXCEPT !.pc = "unlink", !.left = xs])
         /\ \A g \in Folders :
              folder'[g] = IF g \in fs THEN None ELSE folder[g]
         /\ \A x \in Files : file'[x] = IF x \in xs THEN None ELSE file[x]
         /\ MirrorAgrees => MirrorAgrees'
<1>1. fs \in SUBSET Folders /\ xs \in SUBSET Files
  BY DEF Deletion, Closed
<1>2. \A g \in Folders \ fs : Orphaned(folder[g], fs) = folder[g]
  BY DEF Deletion, Closed, Orphaned
<1>3. \A x \in Files \ xs : Orphaned(file[x], fs) = file[x]
  BY DEF Deletion, Closed, Orphaned
<1>4. \A g \in Folders :
        folder'[g] = IF g \in fs THEN None ELSE folder[g]
  BY <1>2 DEF Deletion, DropRows
<1>5. \A x \in Files : file'[x] = IF x \in xs THEN None ELSE file[x]
  BY <1>3 DEF Deletion, DropRows
<1>6. MirrorAgrees => MirrorAgrees'
  BY DEF MirrorAgrees, Deletion, DropRows, Orphaned, history
<1> QED
  BY <1>1, <1>4, <1>5, <1>6, DropsTypes DEF Deletion

LEMMA DeletionTree ==
  ASSUME TreeInv, NEW p \in Procs, NEW fs, NEW xs, Deletion(p, fs, xs)
  PROVE  TreeInv'
<1>1. TypeOK /\ TypeOK' /\ MirrorAgrees'
  BY DeletionIs DEF TreeInv
<1>2. /\ \A g \in Folders :
           folder'[g] = IF g \in fs THEN None ELSE folder[g]
      /\ \A x \in Files : file'[x] = IF x \in xs THEN None ELSE file[x]
      /\ UNCHANGED drawn /\ UNCHANGED history
  BY ZenonT(90), <1>1, DeletionIs
<1>3. UniqueNames'
  <2>1. UNCHANGED stray
    BY <1>2 DEF history
  <2> QED
    BY <1>2, <2>1, NamesKept DEF TreeInv, Live
<1>4. Acyclic'
  <2> SUFFICES ASSUME NEW S \in SUBSET Folders, S # {}
               PROVE  \E g \in S : folder'[g] = None
                                   \/ folder'[g].parent \notin S
    BY DEF Acyclic
  <2> QED
    BY <1>2 DEF TreeInv, Shape, Acyclic
<1>5. \A g \in Folders : folder'[g] # None =>
        folder'[g].parent \in Existing' /\ g \in drawn'
  <2> TAKE g \in Folders
  <2> HAVE folder'[g] # None
  <2>1. folder'[g] = folder[g] /\ g \notin fs
    BY <1>2
  <2>2. folder[g].parent \in Existing /\ g \in drawn
    BY <2>1 DEF TreeInv, Shape
  <2>3. folder[g].parent \notin fs
    BY <2>1 DEF Deletion, Closed
  <2> QED
    BY <1>2, <2>1, <2>2, <2>3 DEF Existing
<1> QED
  BY <1>1, <1>3, <1>4, <1>5 DEF TreeInv, Shape

\* Steps that leave the tree alone.
LEMMA QuietTree ==
  ASSUME TreeInv, TypeOK', UNCHANGED tree
  PROVE  TreeInv'
<1>1. MirrorAgrees'
  BY DEF TreeInv, tree, history, MirrorAgrees
<1>2. UniqueNames'
  BY NamesKept DEF TreeInv, tree, history
<1>3. Shape'
  BY ShapeKept DEF TreeInv, tree, Shape
<1> QED
  BY <1>1, <1>2, <1>3 DEF TreeInv

\* Steps on one file.
LEMMA FileTree ==
  ASSUME TreeInv, TypeOK', UniqueNames', UNCHANGED <<folder, mirror, bare>>,
         drawn \subseteq drawn'
  PROVE  TreeInv'
<1>1. MirrorAgrees'
  BY DEF TreeInv, MirrorAgrees
<1>2. Shape'
  BY ShapeKept DEF TreeInv, Shape
<1> QED
  BY <1>1, <1>2 DEF TreeInv

LEMMA PublishTree ==
  ASSUME TreeInv,
         NEW x \in Files, NEW want, NEW n, NEW d, Publish(x, want, n, d)
  PROVE  TreeInv'
<1>1. TypeOK /\ TypeOK'
  BY UploadTypes DEF TreeInv
<1>2. UniqueNames'
  BY <1>1, AllocatedIs, FilePlaced DEF Publish, TreeInv, history
<1> QED
  BY <1>1, <1>2, FileTree DEF Publish, history

LEMMA PlaceTree ==
  ASSUME TreeInv, NEW x \in Files, NEW want, NEW d, PlaceFile(x, want, d)
  PROVE  TreeInv'
<1>1. TypeOK /\ TypeOK' /\ UniqueNames
  BY PlaceTypes DEF TreeInv
<1>2. /\ UNCHANGED <<folder, mirror, drawn, bare>> /\ file[x] \in Row
  BY <1>1, PlaceIs
<1>3. PICK n \in Names :
        /\ \/ n = file[x].name /\ d = file[x].parent /\ stray' = stray
           \/ Allocated(d, want, x, n) /\ stray' = stray \ {x}
        /\ file' = [file EXCEPT ![x] = [name |-> n, parent |-> d,
                                        deleted |-> file[x].deleted]]
  BY <1>1, PlaceIs
<1>4. CASE Allocated(d, want, x, n) /\ stray' = stray \ {x}
  <2>1. n \notin Occupied(d, x)
    BY <1>4, AllocatedIs
  <2>2. UniqueNames'
    BY <1>1, <1>2, <1>3, <1>4, <2>1, FilePlaced
  <2> QED
    BY <1>1, <1>2, <2>2, FileTree
<1>5. CASE n = file[x].name /\ d = file[x].parent /\ stray' = stray
  <2>1. file' = file
    BY <1>2, <1>3, <1>5, RowIs DEF TypeOK, TreeInv
  <2>2. UniqueNames'
    BY <1>1, <1>2, <1>5, <2>1, NamesKept
  <2> QED
    BY <1>1, <1>2, <2>2, FileTree
<1> QED
  BY <1>3, <1>4, <1>5

LEMMA RestoreFileTree ==
  ASSUME TreeInv, NEW x \in Files, RestoreFile(x)
  PROVE  TreeInv'
<1>1. TypeOK /\ TypeOK' /\ UniqueNames /\ file[x] \in Row
  BY RestoreFileTypes DEF TreeInv, RestoreFile, TypeOK
<1> DEFINE up == file[x].parent
           d  == IF up \in Active THEN up ELSE Root
<1>2. PICK n \in Names :
        /\ IF ~file[x].deleted /\ d = up
           THEN n = file[x].name /\ stray' = stray
           ELSE Allocated(d, file[x].name, x, n) /\ stray' = stray \ {x}
        /\ file' = [file EXCEPT ![x] = [name |-> n, parent |-> d,
                                        deleted |-> FALSE]]
  BY DEF RestoreFile
<1>3. UNCHANGED <<folder, mirror, drawn, bare>>
  BY DEF RestoreFile
<1> HIDE DEF d
<1>4. CASE ~file[x].deleted /\ d = up
  <2>1. file' = file
    BY <1>1, <1>2, <1>4, RowIs DEF TypeOK
  <2>2. UniqueNames'
    BY <1>1, <1>2, <1>3, <1>4, <2>1, NamesKept
  <2> QED
    BY <1>1, <1>3, <2>2, FileTree
<1>5. CASE ~(~file[x].deleted /\ d = up)
  <2>1. n \notin Occupied(d, x)
    BY <1>2, <1>5, AllocatedIs
  <2>2. UniqueNames'
    BY <1>1, <1>2, <1>3, <1>5, <2>1, FilePlaced
  <2> QED
    BY <1>1, <1>3, <2>2, FileTree
<1> QED
  BY <1>4, <1>5

LEMMA CreateTree ==
  ASSUME TreeInv, NEW f \in Folders, NEW want, NEW n, NEW d,
         CreateFolder(f, want, n, d)
  PROVE  TreeInv'
<1> DEFINE r == [name |-> n, parent |-> d, deleted |-> FALSE]
<1>1. TypeOK /\ TypeOK' /\ UniqueNames /\ Shape
  BY CreateTypes DEF TreeInv
<1>2. /\ d \in Existing /\ n \notin Occupied(d, f) /\ r \in Row
      /\ folder' = [folder EXCEPT ![f] = r] /\ f \notin drawn
      /\ drawn' = drawn \cup {f} /\ UNCHANGED <<file, stray, bare>>
  BY AllocatedIs, RowIs DEF CreateFolder, Active, Existing, Live, history
<1>3. MirrorAgrees'
  BY <1>1, <1>2 DEF CreateFolder, TreeInv, TypeOK, MirrorAgrees
<1>4. UniqueNames'
  BY <1>1, <1>2, FolderPlaced
<1>5. folder'[f] # None
  BY <1>1, <1>2, RowIs DEF TypeOK
<1>6. Shape'
  BY <1>1, <1>2, <1>5, ShapeGrows
<1> QED
  BY <1>1, <1>3, <1>4, <1>6 DEF TreeInv

LEMMA MoveTree ==
  ASSUME TreeInv, NEW p \in Procs, MoveFolder(p)
  PROVE  TreeInv'
<1> DEFINE f == h[p].id want == h[p].row.name d == h[p].row.parent
<1>1. TypeOK /\ TypeOK' /\ UniqueNames /\ Shape /\ MirrorAgrees
  BY MoveTypes DEF TreeInv
<1>2. /\ f \in Folders /\ folder[f] \in Row /\ folder[f] # None
      /\ mirror[f] = folder[f] /\ d \notin Below(f)
      /\ UNCHANGED <<file, drawn, bare>>
  BY <1>1 DEF MoveFolder, At, TypeOK, Sound, MirrorAgrees
<1>3. CASE UNCHANGED <<folder, mirror, stray>>
  <2>1. UniqueNames'
    BY <1>1, <1>2, <1>3, NamesKept
  <2> QED
    BY <1>1, <1>2, <1>3, <2>1, FileTree
<1>4. ASSUME NEW n \in Names, Allocated(d, want, f, n), stray' = stray \ {f},
             SetFolder(f, [name |-> n, parent |-> d,
                           deleted |-> folder[f].deleted])
      PROVE  TreeInv'
  <2> DEFINE r == [name |-> n, parent |-> d, deleted |-> folder[f].deleted]
  <2>1. folder' = [folder EXCEPT ![f] = r] /\ mirror' = [mirror EXCEPT ![f] = r]
    BY <1>2, <1>4 DEF SetFolder
  <2>2. MirrorAgrees'
    BY <1>1, <1>2, <2>1 DEF MirrorAgrees, TypeOK
  <2>3. d \in Existing /\ d \in Places /\ n \notin Occupied(d, f)
    BY <1>4, AllocatedIs DEF Active, Existing, Live
  <2>4. UniqueNames'
    <3> HIDE DEF f, d
    <3> QED
      BY <1>1, <1>2, <1>4, <2>1, <2>3, FolderPlaced
  <2>5. r \in Row /\ r.parent = d
    BY <1>2, <2>3, RowIs
  <2>6. Shape'
    <3> HIDE DEF f, d, r
    <3> QED
      BY <1>1, <1>2, <2>1, <2>3, <2>5, ShapeMoves
  <2> QED
    BY <1>1, <2>2, <2>4, <2>6 DEF TreeInv
<1> QED
  BY <1>3, <1>4 DEF MoveFolder

LEMMA RemoveFolderTree ==
  ASSUME TreeInv, NEW f \in Folders, RemoveFolder(f)
  PROVE  TreeInv'
<1>1. TypeOK /\ TypeOK' /\ UniqueNames /\ Shape /\ MirrorAgrees
  BY RemoveFolderTypes DEF TreeInv
<1>2. /\ folder[f] \in Row
      /\ folder' = [folder EXCEPT ![f] = [@ EXCEPT !.deleted = TRUE]]
      /\ mirror' = [mirror EXCEPT ![f] = [@ EXCEPT !.deleted = TRUE]]
      /\ UNCHANGED <<file, drawn, stray, bare>>
  BY <1>1, RemoveFolderTypes DEF history
<1>3. MirrorAgrees'
  <2>1. mirror[f] = folder[f]
    BY <1>1, RemoveFolderTypes, RowIs DEF MirrorAgrees
  <2> QED
    BY <1>1, <1>2, <2>1 DEF MirrorAgrees, TypeOK
<1>4. /\ folder'[f].deleted /\ folder'[f].parent = folder[f].parent
      /\ \A g \in Folders : g # f => folder'[g] = folder[g]
      /\ folder[f] # None /\ folder'[f] # None
  <2>1. folder'[f] = [folder[f] EXCEPT !.deleted = TRUE]
    BY <1>1, <1>2 DEF TypeOK
  <2>2. folder'[f] \in Row
    BY ZenonT(90), <1>2, <2>1 DEF Row
  <2>3. folder'[f].deleted /\ folder'[f].parent = folder[f].parent
    BY <1>2, <2>1 DEF Row
  <2>4. \A g \in Folders : g # f => folder'[g] = folder[g]
    BY <1>1, <1>2 DEF TypeOK
  <2> QED
    BY <1>2, <2>2, <2>3, <2>4, RowIs
<1>5. UniqueNames'
  BY <1>1, <1>2, <1>4, NamesKept DEF Live
<1>6. Shape'
  BY <1>1, <1>2, <1>4, ShapeKept
<1> QED
  BY <1>1, <1>3, <1>5, <1>6 DEF TreeInv

LEMMA RestoreFolderTree ==
  ASSUME TreeInv, NEW f \in Folders, RestoreFolder(f)
  PROVE  TreeInv'
<1> DEFINE up == folder[f].parent
           d  == IF up \in Active THEN up ELSE Root
           md == IF up \in Active THEN mirror[f].parent ELSE Root
<1>1. TypeOK /\ TypeOK' /\ UniqueNames /\ Shape /\ MirrorAgrees
  BY RestoreFolderTypes DEF TreeInv
<1>2. /\ folder[f] \in Row /\ folder[f] # None /\ mirror[f] = folder[f]
      /\ UNCHANGED <<file, drawn, bare>>
  BY <1>1, RestoreFolderTypes, RowIs DEF MirrorAgrees
<1>3. PICK n \in Names :
        /\ IF folder[f].deleted
           THEN Allocated(d, folder[f].name, f, n)
           ELSE n = folder[f].name
        /\ folder' = [folder EXCEPT ![f] =
             [name |-> n, parent |-> d, deleted |-> FALSE]]
        /\ mirror' = [mirror EXCEPT ![f] =
             [name |-> IF folder[f].deleted THEN n ELSE mirror[f].name,
              parent |-> md, deleted |-> FALSE]]
        /\ stray' = IF folder[f].deleted THEN stray \ {f}
                    ELSE IF d # up THEN stray \cup {f} ELSE stray
  BY <1>1, RestoreFolderTypes
<1>4. md = d /\ d \in {up, Root} /\ d \in Places
  BY <1>2, RowIs DEF Active, Places
<1> DEFINE r == [name |-> n, parent |-> d, deleted |-> FALSE]
<1>5. /\ folder' = [folder EXCEPT ![f] = r]
      /\ mirror' = [mirror EXCEPT ![f] = r]
  BY <1>2, <1>3, <1>4
<1>6. r \in Row /\ r.parent = d /\ r.name = n /\ r # None
  BY <1>4, RowIs
<1>7. MirrorAgrees'
  <2> HIDE DEF r
  <2> QED
    BY <1>1, <1>2, <1>5 DEF MirrorAgrees, TypeOK
<1>8. /\ folder'[f] = r /\ \A g \in Folders : g # f => folder'[g] = folder[g]
  <2> HIDE DEF r
  <2> QED
    BY <1>1, <1>5 DEF TypeOK
<1>9. UniqueNames'
  <2>1. CASE folder[f].deleted
    <3>1. n \notin Occupied(d, f) /\ stray' = stray \ {f}
      BY <1>3, <2>1, AllocatedIs
    <3> HIDE DEF d
    <3> QED
      BY <1>1, <1>2, <1>5, <3>1, FolderPlaced
  <2>2. CASE ~folder[f].deleted
    <3>1. /\ stray \subseteq stray' /\ n = folder[f].name
          /\ f \notin stray' => d = up
      BY <1>3, <2>2
    <3>2. Live(folder[f])
      BY <1>2, <2>2 DEF Live
    <3> HIDE DEF d, r
    <3> QED
      BY <1>1, <1>2, <1>6, <1>8, <3>1, <3>2, NamesKept
  <2> QED
    BY <2>1, <2>2
<1> HIDE DEF d, r
<1>10. Shape'
  BY <1>1, <1>2, <1>4, <1>6, <1>8, ShapeKept
<1> QED
  BY <1>1, <1>7, <1>9, <1>10 DEF TreeInv

LEMMA MirrorTree ==
  ASSUME TreeInv, NEW f \in Folders, DeleteMirror(f)
  PROVE  TreeInv'
<1>1. TypeOK' /\ UNCHANGED <<folder, file, stray, drawn>>
  BY MirrorTypes DEF TreeInv, DeleteMirror
<1>2. MirrorAgrees'
  BY DEF TreeInv, TypeOK, MirrorAgrees, DeleteMirror
<1>3. UniqueNames'
  BY <1>1, NamesKept DEF TreeInv
<1>4. Shape'
  BY <1>1, ShapeKept DEF TreeInv, Shape
<1> QED
  BY <1>1, <1>2, <1>3, <1>4 DEF TreeInv

LEMMA RemoveWriteTree ==
  ASSUME TreeInv, NEW p \in Procs, RemoveWrite(p)
  PROVE  TreeInv'
<1>1. TypeOK /\ TypeOK' /\ UNCHANGED <<folder, mirror, drawn, bare>>
  BY RemoveWriteTypes DEF TreeInv
<1>2. /\ stray \subseteq stray'
      /\ \A x \in Files \ stray' : Live(file'[x]) => file'[x] = file[x]
  BY <1>1, RemoveWriteTypes
<1>3. UniqueNames'
  BY <1>1, <1>2, NamesKept DEF TreeInv
<1> QED
  BY <1>1, <1>3, FileTree

LEMMA RemoveInsertTree ==
  ASSUME TreeInv, NEW p \in Procs, RemoveInsert(p)
  PROVE  TreeInv'
<1>1. TypeOK /\ TypeOK' /\ UNCHANGED <<folder, mirror, drawn, bare, stray>>
  BY RemoveInsertTypes DEF TreeInv
<1>2. \A x \in Files : Live(file'[x]) => file'[x] = file[x]
  BY <1>1, RemoveInsertTypes DEF Live
<1>3. UniqueNames'
  BY <1>1, <1>2, NamesKept DEF TreeInv
<1> QED
  BY <1>1, <1>3, FileTree

LEMMA CopyRowTree ==
  ASSUME TreeInv, TypeOK', NEW p \in Procs, h[p].pc = "insert", NEW n \in Names,
         CopyRow(p, n)
  PROVE  TreeInv'
<1>1. /\ h[p].id \in Files
      /\ file' = [file EXCEPT ![h[p].id] =
           [name |-> n, parent |-> h[p].row.parent,
            deleted |-> h[p].row.deleted]]
      /\ UNCHANGED <<folder, mirror, drawn, stray, bare>>
  BY CopyRowTypes DEF TreeInv, TypeOK, Sound, Copying, CopyRow, history
<1>2. n \notin Occupied(h[p].row.parent, h[p].id)
  BY AllocatedIs DEF CopyRow
<1>3. UniqueNames'
  BY <1>1, <1>2, FilePlaced DEF TreeInv
<1> QED
  BY <1>1, <1>3, FileTree

-----------------------------------------------------------------------------
LEMMA InitTypes == Init => TypeOK
<1>1. Init => \A p \in Procs : h[p] = Idle
  BY DEF Init
<1>2. Init => /\ folder \in [Folders -> Row \cup {None}]
              /\ mirror \in [Folders -> Row \cup {None}]
              /\ file \in [Files -> Row \cup {None}]
              /\ drawn \subseteq Folders \cup Files /\ obj \subseteq Files
              /\ used \in Int /\ faults \in Nat /\ revivals \in Nat
              /\ h \in [Procs -> Handler]
  BY IdleIs DEF Init
<1> QED
  BY <1>1, <1>2, IdleIs DEF TypeOK

LEMMA NextTypes ==
  ASSUME TypeOK, [Next]_vars
  PROVE  TypeOK'
<1>1. CASE UNCHANGED vars
  BY <1>1 DEF vars, tree, history, TypeOK
<1>2. ASSUME NEW p \in Procs, Begin(p) PROVE TypeOK'
  <2>1. ASSUME NEW f \in Folders, NEW n \in Names, NEW d \in Places,
               MoveBegin(p, f, n, d)
        PROVE  TypeOK'
    BY <2>1, MoveBeginTypes
  <2>2. ASSUME NEW x \in Files, RemoveBegin(p, x) PROVE TypeOK'
    BY <2>2, RemoveBeginTypes
  <2>3. ASSUME NEW x \in Files, DeleteFile(p, x) PROVE TypeOK'
    BY <2>3, FileDeletion, DeletionIs
  <2>4. ASSUME NEW f \in Folders, DeleteFolder(p, f) PROVE TypeOK'
    BY <2>4, FolderDeletion, DeletionIs
  <2>5. CASE EmptyTrash(p)
    BY <2>5, TrashDeletion, DeletionIs
  <2>6. ASSUME NEW x \in Files, NEW y \in Files, NEW d \in Places,
               CopyBegin(p, x, y, d)
        PROVE  TypeOK'
    BY <2>6, CopyBeginTypes
  <2> QED
    BY <1>2, <2>1, <2>2, <2>3, <2>4, <2>5, <2>6 DEF Begin
<1>3. ASSUME NEW p \in Procs, Step(p) PROVE TypeOK'
  BY <1>3, MoveTypes, RemoveLoadTypes, RemoveWriteTypes, RemoveInsertTypes,
     UnlinkTypes, RefuseTypes, CopyObjectTypes, CopyInsertTypes, CopyFailsTypes,
     CopyUnknownTypes, CopyReconcileTypes, CopyCleanupTypes DEF Step
<1>4. CASE AtOnce
  BY <1>4, UploadTypes, CreateTypes, PlaceTypes, RestoreFileTypes,
     RemoveFolderTypes, RestoreFolderTypes, MirrorTypes DEF AtOnce
<1>5. CASE Fault
  BY <1>5, FaultTypes
<1> QED
  BY <1>1, <1>2, <1>3, <1>4, <1>5 DEF Next

LEMMA InitTree == Init => TreeInv
<1>1. Init => Shape
  BY DEF Init, Shape, Acyclic
<1>2. Init => UniqueNames /\ MirrorAgrees
  BY DEF Init, UniqueNames, MirrorAgrees, Live
<1> QED
  BY <1>1, <1>2, InitTypes DEF TreeInv

LEMMA NextTree ==
  ASSUME TreeInv, [Next]_vars
  PROVE  TreeInv'
<1>0. TypeOK /\ TypeOK'
  BY NextTypes DEF TreeInv
<1>1. CASE UNCHANGED vars
  BY <1>0, <1>1, QuietTree DEF vars, tree
<1>2. ASSUME NEW p \in Procs, Begin(p) PROVE TreeInv'
  <2>1. ASSUME NEW f \in Folders, NEW n \in Names, NEW d \in Places,
               MoveBegin(p, f, n, d)
        PROVE  TreeInv'
    BY <1>0, <2>1, MoveBeginTypes, QuietTree
  <2>2. ASSUME NEW x \in Files, RemoveBegin(p, x) PROVE TreeInv'
    BY <1>0, <2>2, RemoveBeginTypes, QuietTree
  <2>3. ASSUME NEW x \in Files, DeleteFile(p, x) PROVE TreeInv'
    BY <1>0, <2>3, FileDeletion, DeletionTree
  <2>4. ASSUME NEW f \in Folders, DeleteFolder(p, f) PROVE TreeInv'
    BY <1>0, <2>4, FolderDeletion, DeletionTree
  <2>5. CASE EmptyTrash(p)
    BY <1>0, <2>5, TrashDeletion, DeletionTree
  <2>6. ASSUME NEW x \in Files, NEW y \in Files, NEW d \in Places,
               CopyBegin(p, x, y, d)
        PROVE  TreeInv'
    <3>1. /\ UNCHANGED <<folder, mirror, file, stray, bare>>
          /\ drawn \subseteq drawn'
      BY <1>0, <2>6, CopyBeginTypes DEF history
    <3>2. UniqueNames'
      BY <3>1, NamesKept DEF TreeInv
    <3> QED
      BY <1>0, <3>1, <3>2, FileTree
  <2> QED
    BY <1>2, <2>1, <2>2, <2>3, <2>4, <2>5, <2>6 DEF Begin
<1>3. ASSUME NEW p \in Procs, Step(p) PROVE TreeInv'
  <2>1. CASE CopyInsert(p)
    BY <1>0, <2>1, CopyInsertTypes, CopyRowTree
  <2>2. CASE CopyUnknown(p)
    BY <1>0, <2>2, CopyUnknownTypes, CopyRowTree, QuietTree
  <2>3. CASE \/ RemoveLoad(p) \/ Unlink(p) \/ Refuse(p) \/ CopyObject(p)
             \/ CopyFails(p) \/ CopyReconcile(p) \/ CopyCleanup(p)
    <3>1. UNCHANGED tree
      BY <1>0, <2>3, RemoveLoadTypes, UnlinkTypes, RefuseTypes,
         CopyObjectTypes, CopyFailsTypes, CopyReconcileTypes, CopyCleanupTypes
    <3> QED
      BY <1>0, <3>1, QuietTree
  <2> QED
    BY <1>3, <2>1, <2>2, <2>3, MoveTree, RemoveWriteTree, RemoveInsertTree
    DEF Step
<1>4. CASE AtOnce
  BY <1>4, PublishTree, CreateTree, PlaceTree, RestoreFileTree,
     RemoveFolderTree, RestoreFolderTree, MirrorTree DEF AtOnce
<1>5. CASE Fault
  BY <1>0, <1>5, FaultTypes, QuietTree
<1> QED
  BY <1>1, <1>2, <1>3, <1>4, <1>5 DEF Next

\* The tree stays a forest, with mirrors that agree and names that differ but
\* for what no allocation placed, whichever requests run at once (assertNoCycle,
\* files.service.ts:410; the save of removeFile, files.service.ts:438).
THEOREM TreeStaysSound == Spec => []TreeSound
<1>1. TreeInv => TreeSound
  BY AcyclicForest DEF TreeInv, Shape, TreeSound
<1>2. TreeInv /\ [Next]_vars => TreeInv'
  BY NextTree
<1> QED
  BY <1>1, <1>2, InitTree, PTL DEF Spec

-----------------------------------------------------------------------------
\* Only a deletion takes a folder's row away.
LEMMA RowsStay ==
  ASSUME TypeOK, [Next]_vars,
         ~ \E p \in Procs : \E fs, xs : Deletion(p, fs, xs)
  PROVE  \A f \in Folders : folder[f] # None => folder'[f] # None
<1>1. CASE UNCHANGED vars
  BY <1>1 DEF vars, tree
<1>2. ASSUME NEW p \in Procs, Begin(p) PROVE UNCHANGED folder
  BY <1>2, FileDeletion, FolderDeletion, TrashDeletion
  DEF Begin, MoveBegin, RemoveBegin, CopyBegin, tree
<1>3. ASSUME NEW p \in Procs, Step(p)
      PROVE  \A f \in Folders : folder[f] # None => folder'[f] # None
  <2>1. CASE MoveFolder(p)
    <3>1. h[p].id \in Folders /\ folder[h[p].id] \in Row
      BY <2>1 DEF MoveFolder, At, TypeOK, Sound
    <3>2. ASSUME NEW n \in Names, Allocated(h[p].row.parent, h[p].row.name,
                                            h[p].id, n)
          PROVE  [name |-> n, parent |-> h[p].row.parent,
                  deleted |-> folder[h[p].id].deleted] # None
      BY <3>1, <3>2, AllocatedIs, RowIs
    <3> QED
      BY <2>1, <3>1, <3>2 DEF MoveFolder, SetFolder, TypeOK
  <2>2. CASE ~MoveFolder(p)
    BY <1>3, <2>2 DEF Step, RemoveLoad, RemoveWrite, RemoveInsert, Unlink,
      Refuse, CopyObject, CopyInsert, CopyRow, CopyFails, CopyUnknown,
      CopyReconcile, CopyCleanup, tree
  <2> QED
    BY <2>1, <2>2
<1>4. CASE AtOnce
  <2>1. ASSUME NEW f \in Folders, NEW want \in Names, NEW n \in Names,
               NEW d \in Places, CreateFolder(f, want, n, d)
        PROVE  \A g \in Folders : folder[g] # None => folder'[g] # None
    <3>1. [name |-> n, parent |-> d, deleted |-> FALSE] # None
      BY RowIs
    <3> QED
      BY <2>1, <3>1 DEF CreateFolder, TypeOK
  <2>2. ASSUME NEW f \in Folders, RemoveFolder(f)
        PROVE  \A g \in Folders : folder[g] # None => folder'[g] # None
    <3> DEFINE r == [folder[f] EXCEPT !.deleted = TRUE]
    <3>1. folder[f] \in Row /\ folder' = [folder EXCEPT ![f] = r]
      BY <2>2, RemoveFolderTypes DEF TypeOK
    <3>2. r \in Row
      BY <3>1 DEF Row
    <3> HIDE DEF r
    <3> QED
      BY <3>1, <3>2, RowIs DEF TypeOK
  <2>3. ASSUME NEW f \in Folders, RestoreFolder(f)
        PROVE  \A g \in Folders : folder[g] # None => folder'[g] # None
    <3>1. PICK n \in Names, d \in Places :
            folder' = [folder EXCEPT ![f] = [name |-> n, parent |-> d,
                                             deleted |-> FALSE]]
      BY <2>3, RestoreFolderTypes, RowIs DEF Active, Places
    <3>2. [name |-> n, parent |-> d, deleted |-> FALSE] # None
      BY RowIs
    <3> QED
      BY <3>1, <3>2 DEF TypeOK
  <2>4. UNCHANGED folder
        \/ (\E f \in Folders : RemoveFolder(f) \/ RestoreFolder(f))
        \/ \E f \in Folders, want \in Names, n \in Names, d \in Places :
             CreateFolder(f, want, n, d)
    BY <1>4 DEF AtOnce, Publish, PlaceFile, RestoreFile, DeleteMirror
  <2> QED
    BY <2>1, <2>2, <2>3, <2>4
<1>5. CASE Fault
  BY <1>5 DEF Fault, tree
<1> QED
  BY <1>1, <1>2, <1>3, <1>4, <1>5 DEF Next

LEMMA NextStrands ==
  ASSUME TypeOK, [Next]_vars PROVE NothingStranded
<1>1. CASE ~ \E p \in Procs : \E fs, xs : Deletion(p, fs, xs)
  BY <1>1, RowsStay DEF NothingStranded
<1>2. ASSUME NEW p \in Procs, NEW fs, NEW xs, Deletion(p, fs, xs)
      PROVE  NothingStranded
  <2>1. /\ \A g \in Folders :
             folder'[g] = IF g \in fs THEN None ELSE folder[g]
        /\ \A x \in Files : file'[x] = IF x \in xs THEN None ELSE file[x]
    BY ZenonT(90), <1>2, DeletionIs
  <2>2. Closed(fs, xs)
    BY <1>2 DEF Deletion
  <2> QED
    BY <2>1, <2>2 DEF NothingStranded, Closed
<1> QED
  BY <1>1, <1>2

\* A folder goes with all that is in it, whichever requests run at once
\* (deleteFolderPermanently and emptyTrash, files.service.ts).
THEOREM NothingLeftBehind == Spec => NothingIsStranded
<1>1. TypeOK /\ [Next]_vars => TypeOK'
  BY NextTypes
<1>2. TypeOK /\ [Next]_vars => [NothingStranded]_vars
  BY NextStrands
<1> QED
  BY <1>1, <1>2, InitTypes, PTL DEF Spec, NothingIsStranded

-----------------------------------------------------------------------------
(***************************************************************************)
(* Rows, bytes and objects.                                                *)
(***************************************************************************)
\* What a request relies on.
Has(p) ==
  /\ h[p].pc \in {"load", "write"} \cup Copying => h[p].id \in drawn
  /\ h[p].pc \in {"copy", "insert"} => file[h[p].id] = None
  /\ h[p].pc = "cleanup" => file[h[p].id] = None \/ h[p].id \in revived
  /\ h[p].pc = "copy" => h[p].id \notin obj
  /\ h[p].pc = "insert" => h[p].id \in obj
  /\ \A x \in h[p].left : (file[x] = None \/ x \in revived) /\ x \in drawn

\* Nobody copies to what another copies to, or to what is being unlinked or
\* trashed.
Apart ==
  \A p, q \in Procs :
    /\ p # q /\ h[p].pc \in Copying /\ h[q].pc \in Copying =>
         h[p].id # h[q].id
    /\ h[p].pc \in {"copy", "insert"} =>
         /\ h[p].id \notin h[q].left
         /\ h[q].pc \in {"load", "write"} => h[q].id # h[p].id

Known == /\ \A x \in Files : file[x] # None => x \in drawn
         /\ obj \subseteq drawn

BytesInv == /\ TypeOK /\ UsedExact /\ RowsHaveObjects /\ NoOrphans /\ Known
            /\ Apart /\ \A p \in Procs : Has(p)

\* How many rows there are.
LEMMA RowsFinite == IsFiniteSet({x \in Files : file[x] # None})
BY FS_Subset, FilesAssumption

LEMMA UsedKept ==
  ASSUME UsedExact, UNCHANGED <<used, revivals>>,
         \A x \in Files : file'[x] = None <=> file[x] = None
  PROVE  UsedExact'
<1>1. {x \in Files : file'[x] # None} = {x \in Files : file[x] # None}
  OBVIOUS
<1> QED
  BY <1>1 DEF UsedExact

\* One row more, charged or inserted again.
LEMMA UsedGrows ==
  ASSUME UsedExact, used \in Int, revivals \in Nat,
         NEW x \in Files, file[x] = None, file'[x] # None,
         \/ used < Quota /\ used' = used + 1 /\ revivals' = revivals
         \/ used' = used /\ revivals' = revivals + 1,
         \A y \in Files : y # x => file'[y] = file[y]
  PROVE  UsedExact'
<1> DEFINE R == {y \in Files : file[y] # None}
<1>1. {y \in Files : file'[y] # None} = R \cup {x} /\ x \notin R
  OBVIOUS
<1>2. /\ IsFiniteSet(R) /\ used + revivals = Cardinality(R)
      /\ used <= Quota
  BY RowsFinite DEF UsedExact
<1> HIDE DEF R
<1>3. Cardinality(R \cup {x}) = Cardinality(R) + 1 /\ Cardinality(R) \in Nat
  BY <1>1, <1>2, FS_AddElement, FS_CardinalityType
<1>4. used' + revivals' = Cardinality(R) + 1
  BY <1>2, <1>3
<1>5. used' <= Quota
  BY <1>2, FilesAssumption
<1> QED
  BY <1>1, <1>3, <1>4, <1>5 DEF UsedExact

LEMMA UsedShrinks ==
  ASSUME UsedExact, used \in Int, revivals \in Nat,
         NEW xs \in SUBSET {x \in Files : file[x] # None},
         used' = used - Cardinality(xs), UNCHANGED revivals,
         \A x \in Files : file'[x] = IF x \in xs THEN None ELSE file[x]
  PROVE  UsedExact'
<1> DEFINE R == {y \in Files : file[y] # None}
<1>1. {y \in Files : file'[y] # None} = R \ xs /\ R \cap xs = xs
  OBVIOUS
<1>2. /\ IsFiniteSet(R) /\ used + revivals = Cardinality(R)
      /\ used <= Quota
  BY RowsFinite DEF UsedExact
<1>3. Cardinality(xs) \in Nat
  <2>1. xs \subseteq R
    OBVIOUS
  <2> QED
    BY <1>2, <2>1, FS_Subset, FS_CardinalityType
<1> HIDE DEF R
<1>4. /\ Cardinality(R \ xs) = Cardinality(R) - Cardinality(xs)
      /\ Cardinality(R) \in Nat
  <2>1. Cardinality(R) \in Nat
    BY <1>2, FS_CardinalityType
  <2>2. Cardinality(R \ xs) = Cardinality(R) - Cardinality(R \cap xs)
    BY <1>2, FS_Difference
  <2> QED
    BY <1>1, <2>1, <2>2
<1>5. used' + revivals' = Cardinality(R) - Cardinality(xs)
  BY <1>2, <1>3, <1>4
<1>6. used' <= Quota
  BY <1>2, <1>3, FilesAssumption
<1> QED
  BY <1>1, <1>4, <1>5, <1>6 DEF UsedExact

\* A request that does not move keeps what it has, if a row or an object
\* comes or goes only where the one that moves may.
LEMMA HasKept ==
  ASSUME BytesInv, NEW r \in Procs, h'[r] = h[r], drawn \subseteq drawn',
         revived \subseteq revived',
         \A x \in Files : file[x] = None /\ file'[x] # None =>
           \/ x \notin drawn
           \/ \E p \in Procs \ {r} : h[p].pc = "insert" /\ x = h[p].id
           \/ /\ x \in revived'
              /\ \E p \in Procs \ {r} : h[p].pc = "write" /\ x = h[p].id,
         \A x \in obj' \ obj :
           \/ x \notin drawn
           \/ \E p \in Procs \ {r} : h[p].pc \in Copying /\ x = h[p].id,
         \A x \in obj \ obj' : \E p \in Procs \ {r} :
           x \in h[p].left \/ (h[p].pc \in Copying /\ x = h[p].id)
  PROVE  Has(r)'
<1>1. Has(r) /\ Sound(h[r]) /\ h[r] \in Handler
  BY DEF BytesInv, TypeOK
<1>2. h[r].pc \in Copying => h[r].id \in drawn /\ h[r].id \in Files
  BY <1>1 DEF Has, Sound
<1>3. \A p \in Procs \ {r} :
        /\ h[r].pc \in Copying /\ h[p].pc \in Copying => h[p].id # h[r].id
        /\ h[r].pc \in {"copy", "insert"} =>
             /\ h[r].id \notin h[p].left
             /\ h[p].pc = "write" => h[p].id # h[r].id
        /\ h[p].pc = "insert" => h[p].id \notin h[r].left
  BY DEF BytesInv, Apart
<1>4. {"copy", "insert", "cleanup"} \subseteq Copying
  BY DEF Copying
<1>5. h[r].pc \in {"load", "write"} \cup Copying => h[r].id \in drawn'
  BY <1>1 DEF Has
<1>6. h[r].pc \in {"copy", "insert"} => file'[h[r].id] = None
  BY <1>1, <1>2, <1>3, <1>4 DEF Has
<1>7. h[r].pc = "cleanup" => file'[h[r].id] = None \/ h[r].id \in revived'
  BY <1>1, <1>2, <1>3, <1>4 DEF Has
<1>8. h[r].pc = "copy" => h[r].id \notin obj'
  BY <1>1, <1>2, <1>3, <1>4 DEF Has
<1>9. h[r].pc = "insert" => h[r].id \in obj'
  BY <1>1, <1>2, <1>3, <1>4 DEF Has
<1>10. \A x \in h[r].left :
         (file'[x] = None \/ x \in revived') /\ x \in drawn'
  <2>1. h[r].left \subseteq Files
    BY <1>1 DEF Handler
  <2> QED
    BY <1>1, <1>3, <2>1 DEF Has
<1> QED
  BY <1>1, <1>5, <1>6, <1>7, <1>8, <1>9, <1>10 DEF Has

LEMMA ApartKept ==
  ASSUME Apart,
         \A r \in Procs :
           /\ h'[r].pc \in Copying => h[r].pc \in Copying /\ h'[r].id = h[r].id
           /\ h'[r].pc \in {"copy", "insert"} => h[r].pc \in {"copy", "insert"}
           /\ h'[r].left \subseteq h[r].left
           /\ h'[r].pc \in {"load", "write"} =>
                \/ h[r].pc \in {"load", "write"} /\ h'[r].id = h[r].id
                \/ \A q \in Procs : h[q].pc \in {"copy", "insert"} =>
                     h[q].id # h'[r].id
  PROVE  Apart'
<1>1. \A r \in Procs : h'[r].pc \in {"copy", "insert"} => h'[r].pc \in Copying
  BY DEF Copying
<1> QED
  BY <1>1 DEF Apart

LEMMA OrphansKept ==
  ASSUME NoOrphans, NEW p \in Procs,
         \A r \in Procs : r # p => h'[r] = h[r], UNCHANGED faults,
         \A x \in obj' :
           x \notin obj \/ file[x] # None \/ InCharge(p, x) =>
             file'[x] # None \/ InCharge(p, x)'
  PROVE  NoOrphans'
<1> SUFFICES ASSUME faults' = 0, NEW x \in obj'
             PROVE  file'[x] # None \/ \E r \in Procs : InCharge(r, x)'
  BY DEF NoOrphans
<1>1. CASE x \notin obj \/ file[x] # None \/ InCharge(p, x)
  BY <1>1
<1>2. CASE ~(x \notin obj \/ file[x] # None \/ InCharge(p, x))
  <2>1. PICK r \in Procs : InCharge(r, x)
    BY <1>2 DEF NoOrphans
  <2>2. r # p
    BY <1>2, <2>1
  <2> QED
    BY <2>1, <2>2 DEF InCharge
<1> QED
  BY <1>1, <1>2

\* A request that has not begun or has ended relies on nothing.
LEMMA IdleHas ==
  ASSUME NEW r, h'[r] = Idle
  PROVE  Has(r)' /\ h'[r].left = {} /\ h'[r].pc = "idle"
BY DEF Has, Idle, Copying

\* Steps that neither make nor remove a row or an object.
LEMMA QuietBytes ==
  ASSUME BytesInv, TypeOK', NEW p \in Procs, Has(p)',
         \A r \in Procs : r # p => h'[r] = h[r],
         UNCHANGED <<used, drawn, obj, faults, revived, revivals>>,
         \A x \in Files : file'[x] = None <=> file[x] = None,
         h[p].left = {}, h'[p].left = {},
         h'[p].pc \in Copying => h[p].pc \in Copying /\ h'[p].id = h[p].id,
         h'[p].pc \notin {"copy", "insert"},
         h'[p].pc \in {"load", "write"} =>
           \/ h[p].pc \in {"load", "write"} /\ h'[p].id = h[p].id
           \/ file[h'[p].id] # None,
         h[p].pc \in Copying /\ h[p].id \in obj =>
           file[h[p].id] # None \/ (h'[p].pc \in Copying /\ h'[p].id = h[p].id)
  PROVE  BytesInv'
<1>1. UsedExact'
  BY UsedKept DEF BytesInv
<1>2. \A r \in Procs : r # p => Has(r)'
  BY HasKept
<1>3. Apart'
  <2>1. \A q \in Procs : h[q].pc \in {"copy", "insert"} =>
          file[h[q].id] = None
    BY DEF BytesInv, Has
  <2> QED
    BY <2>1, ApartKept DEF BytesInv
<1>4. RowsHaveObjects' /\ Known'
  BY DEF BytesInv, RowsHaveObjects, Known
<1>5. obj \subseteq Files
  BY DEF BytesInv, TypeOK
<1>6. NoOrphans'
  BY <1>5, OrphansKept DEF BytesInv, InCharge
<1> QED
  BY <1>1, <1>2, <1>3, <1>4, <1>6 DEF BytesInv

\* The start of a request that copies nothing.
LEMMA BeginBytes ==
  ASSUME BytesInv, TypeOK', NEW p \in Procs, h[p].pc = "idle", Has(p)',
         \A r \in Procs : r # p => h'[r] = h[r],
         UNCHANGED <<tree, obj, faults>>, h'[p].left = {},
         h'[p].pc \notin Copying,
         h'[p].pc \in {"load", "write"} => file[h'[p].id] # None
  PROVE  BytesInv'
<1>1. h[p].left = {}
  BY DEF BytesInv, TypeOK, Sound
<1> QED
  BY <1>1, QuietBytes DEF tree, history, Copying

\* Its end, when it has made no copy.
LEMMA EndBytes ==
  ASSUME BytesInv, TypeOK', NEW p \in Procs, Turns(p, Idle),
         UNCHANGED <<used, drawn, obj, faults, revived, revivals>>,
         \A x \in Files : file'[x] = None <=> file[x] = None,
         h[p].pc # "unlink",
         h[p].pc \in Copying /\ h[p].id \in obj => file[h[p].id] # None
  PROVE  BytesInv'
<1>1. h[p].left = {}
  BY DEF BytesInv, TypeOK, Sound
<1>2. Has(p)' /\ h'[p].left = {} /\ h'[p].pc = "idle"
  BY IdleHas DEF Turns
<1> QED
  BY <1>1, <1>2, QuietBytes DEF Turns, Copying

\* Steps of no request that change rows of folders or of files that stay.
LEMMA PlainBytes ==
  ASSUME BytesInv, TypeOK',
         UNCHANGED <<used, obj, h, faults, revived, revivals>>,
         drawn \subseteq drawn',
         \A x \in Files : file'[x] = None <=> file[x] = None
  PROVE  BytesInv'
<1>1. UsedExact'
  BY UsedKept DEF BytesInv
<1>2. \A r \in Procs : Has(r)'
  BY HasKept
<1>3. Apart'
  BY ApartKept DEF BytesInv
<1>4. RowsHaveObjects' /\ Known'
  BY DEF BytesInv, RowsHaveObjects, Known
<1>5. NoOrphans'
  BY DEF BytesInv, TypeOK, NoOrphans, InCharge
<1> QED
  BY <1>1, <1>2, <1>3, <1>4, <1>5 DEF BytesInv

LEMMA PublishBytes ==
  ASSUME BytesInv,
         NEW x \in Files, NEW want, NEW n, NEW d, Publish(x, want, n, d)
  PROVE  BytesInv'
<1>0. TypeOK /\ TypeOK'
  BY UploadTypes DEF BytesInv
<1>1. /\ x \notin drawn /\ file[x] = None /\ file'[x] # None
      /\ \A y \in Files : y # x => file'[y] = file[y]
  <2>1. [name |-> n, parent |-> d, deleted |-> FALSE] \in Row
    BY RowIs, AllocatedIs DEF Publish
  <2> QED
    BY <1>0, <2>1, RowIs DEF Publish, TypeOK, BytesInv, Known
<1>2. /\ used < Quota /\ used' = used + 1 /\ obj' = obj \cup {x}
      /\ drawn' = drawn \cup {x} /\ UNCHANGED <<h, faults, revived, revivals>>
  BY DEF Publish, history
<1>3. UsedExact'
  BY <1>0, <1>1, <1>2, UsedGrows DEF BytesInv, TypeOK
<1>4. \A r \in Procs : Has(r)'
  BY <1>1, <1>2, HasKept
<1>5. Apart'
  BY <1>2, ApartKept DEF BytesInv
<1>6. RowsHaveObjects' /\ Known'
  BY <1>1, <1>2 DEF BytesInv, RowsHaveObjects, Known
<1>7. NoOrphans'
  BY <1>0, <1>1, <1>2 DEF BytesInv, TypeOK, NoOrphans, InCharge
<1> QED
  BY <1>0, <1>3, <1>4, <1>5, <1>6, <1>7 DEF BytesInv

LEMMA DeletionBytes ==
  ASSUME BytesInv, NEW p \in Procs, NEW fs, NEW xs, Deletion(p, fs, xs)
  PROVE  BytesInv'
<1> DEFINE q == [Idle EXCEPT !.pc = "unlink", !.left = xs]
<1>0. /\ TypeOK /\ TypeOK' /\ Turns(p, q)
      /\ UNCHANGED <<drawn, obj, faults, history>>
      /\ \A x \in Files : file'[x] = IF x \in xs THEN None ELSE file[x]
  BY ZenonT(90), DeletionIs DEF BytesInv
<1>1. q.pc = "unlink" /\ q.left = xs /\ q.id = None
  BY DEF Idle
<1>2. /\ xs \subseteq {x \in Files : file[x] # None} /\ h[p].pc = "idle"
      /\ used' = used - Cardinality(xs)
  BY DEF Deletion, Closed, DropRows
<1> HIDE DEF q
<1>3. h'[p] = q /\ \A r \in Procs : r # p => h'[r] = h[r]
  BY <1>0 DEF Turns
<1>4. h[p].left = {} /\ UNCHANGED <<revived, revivals>>
  BY <1>0, <1>2 DEF TypeOK, Sound, Idle, history
<1>5. UsedExact'
  BY <1>0, <1>2, <1>4, UsedShrinks DEF BytesInv, TypeOK
<1>6. \A r \in Procs : r # p => Has(r)'
  BY <1>0, <1>2, <1>3, <1>4, HasKept
<1>7. Has(p)'
  BY <1>0, <1>1, <1>2, <1>3 DEF Has, Copying, BytesInv, Known
<1>8. Apart'
  <2>1. \A r \in Procs : h'[r].pc \in {"copy", "insert"} =>
          r # p /\ h[r].pc \in Copying /\ h[r].id \in Files
          /\ file[h[r].id] = None
    BY <1>1, <1>3 DEF BytesInv, TypeOK, Sound, Has, Copying
  <2>2. \A r \in Procs : h'[r].pc \in Copying => r # p
    BY <1>1, <1>3 DEF Copying
  <2> QED
    BY <1>1, <1>2, <1>3, <2>1, <2>2 DEF BytesInv, Apart
<1>9. RowsHaveObjects' /\ Known'
  BY <1>0, <1>4 DEF BytesInv, RowsHaveObjects, Known
<1>10. NoOrphans'
  <2>1. obj \subseteq Files /\ h[p].pc \notin Copying
    BY <1>0, <1>2 DEF TypeOK, Copying
  <2> QED
    BY <1>0, <1>1, <1>3, <1>4, <2>1, OrphansKept DEF BytesInv, InCharge
<1> QED
  BY <1>0, <1>5, <1>6, <1>7, <1>8, <1>9, <1>10 DEF BytesInv

LEMMA UnlinkBytes ==
  ASSUME BytesInv, NEW p \in Procs, Unlink(p)
  PROVE  BytesInv'
<1>0. /\ TypeOK /\ TypeOK' /\ h[p].pc = "unlink" /\ UNCHANGED <<tree, faults>>
      /\ h[p].id = None /\ h[p] \in Handler /\ Has(p) /\ obj \subseteq Files
      /\ h[p].pc \notin Copying
  BY UnlinkTypes DEF BytesInv, TypeOK, Sound, Copying
<1>1. CASE h[p].left = {} /\ UNCHANGED obj /\ Turns(p, Idle)
  <2>1. Has(p)' /\ h'[p].left = {} /\ h'[p].pc = "idle"
    BY <1>1, IdleHas DEF Turns
  <2> QED
    BY <1>0, <1>1, <2>1, QuietBytes DEF Turns, tree, history, Copying
<1>2. ASSUME NEW x \in h[p].left, obj' = obj \ {x},
             Turns(p, [h[p] EXCEPT !.left = @ \ {x}])
      PROVE  BytesInv'
  <2>1. /\ h'[p].pc = "unlink" /\ h'[p].id = None
        /\ h'[p].left = h[p].left \ {x} /\ h[p].left \subseteq Files
        /\ \A r \in Procs : r # p => h'[r] = h[r]
    BY <1>0, <1>2 DEF Turns, Handler
  <2>2. (file[x] = None \/ x \in revived) /\ x \in Files
    BY <1>0, <2>1 DEF Has
  <2>3. UsedExact'
    BY <1>0, UsedKept DEF BytesInv, tree, history
  <2>4. \A r \in Procs : r # p => Has(r)'
    BY <1>0, <1>2, <2>1, HasKept DEF tree, history
  <2>5. Has(p)'
    BY <1>0, <2>1 DEF Has, Copying, tree, history
  <2>6. Apart'
    BY <2>1, ApartKept DEF BytesInv, Copying
  <2>7. RowsHaveObjects' /\ Known'
    BY <1>0, <1>2, <2>2 DEF BytesInv, RowsHaveObjects, Known, tree, history
  <2>8. NoOrphans'
    BY <1>0, <1>2, <2>1, OrphansKept DEF BytesInv, InCharge, tree, Copying
  <2> QED
    BY <1>0, <2>3, <2>4, <2>5, <2>6, <2>7, <2>8 DEF BytesInv
<1> QED
  BY <1>1, <1>2, UnlinkTypes DEF BytesInv

LEMMA CopyBeginBytes ==
  ASSUME BytesInv, NEW p \in Procs, NEW x \in Files, NEW y \in Files,
         NEW d \in Places, CopyBegin(p, x, y, d)
  PROVE  BytesInv'
<1>0. /\ TypeOK /\ TypeOK' /\ h[p].pc = "idle" /\ y \notin drawn
      /\ drawn' = drawn \cup {y}
      /\ UNCHANGED <<file, obj, used, faults, revived, revivals>>
      /\ \A r \in Procs : r # p => h'[r] = h[r]
      /\ h'[p].pc = "copy" /\ h'[p].id = y /\ h'[p].left = {}
  BY CopyBeginTypes DEF BytesInv, history
<1>1. h[p].left = {} /\ obj \subseteq Files /\ h[p].pc \notin Copying
  BY <1>0 DEF TypeOK, Sound, Idle, Copying
<1>2. UsedExact' /\ RowsHaveObjects' /\ Known'
  BY <1>0, UsedKept DEF BytesInv, RowsHaveObjects, Known
<1>3. \A r \in Procs : r # p => Has(r)'
  BY <1>0, HasKept
<1>4. Has(p)'
  BY <1>0 DEF Has, Copying, BytesInv, Known
<1>5. Apart'
  <2>1. \A r \in Procs :
          /\ h[r].pc \in {"load", "write"} \cup Copying => h[r].id \in drawn
          /\ h[r].left \subseteq drawn
    BY DEF BytesInv, Has
  <2>2. \A r \in Procs : h[r].pc \in {"copy", "insert"} => h[r].pc \in Copying
    BY DEF Copying
  <2> QED
    BY <1>0, <1>1, <2>1, <2>2 DEF BytesInv, Apart
<1>6. NoOrphans'
  BY <1>0, <1>1, OrphansKept DEF BytesInv, InCharge, Copying
<1> QED
  BY <1>0, <1>2, <1>3, <1>4, <1>5, <1>6 DEF BytesInv

LEMMA CopyObjectBytes ==
  ASSUME BytesInv, NEW p \in Procs, CopyObject(p)
  PROVE  BytesInv'
<1>0. /\ TypeOK /\ TypeOK' /\ h[p].pc = "copy" /\ h[p].id \in Files
      /\ UNCHANGED <<tree, faults>> /\ h[p] \in Handler /\ Has(p)
      /\ h[p].left = {}
  BY CopyObjectTypes DEF BytesInv, TypeOK, Sound
<1>1. CASE UNCHANGED obj /\ Turns(p, Idle)
  BY <1>0, <1>1, EndBytes DEF tree, history, Has
<1>2. CASE /\ obj' = obj \cup {h[p].id}
           /\ Turns(p, [h[p] EXCEPT !.pc = "insert"])
  <2>1. /\ h'[p].pc = "insert" /\ h'[p].id = h[p].id /\ h'[p].left = {}
        /\ \A r \in Procs : r # p => h'[r] = h[r]
    BY <1>0, <1>2 DEF Turns, Handler
  <2>2. UsedExact'
    BY <1>0, UsedKept DEF BytesInv, tree, history
  <2>3. \A r \in Procs : r # p => Has(r)'
    BY <1>0, <1>2, <2>1, HasKept DEF tree, history, Copying
  <2>4. Has(p)'
    BY <1>0, <1>2, <2>1 DEF Has, Copying, tree, history
  <2>5. Apart'
    BY <1>0, <2>1, ApartKept DEF BytesInv, Copying
  <2>6. RowsHaveObjects' /\ Known'
    BY <1>0, <1>2
    DEF BytesInv, RowsHaveObjects, Known, tree, history, Has, Copying
  <2>7. NoOrphans'
    BY <1>0, <1>2, <2>1, OrphansKept DEF BytesInv, InCharge, tree, Copying
  <2> QED
    BY <1>0, <2>2, <2>3, <2>4, <2>5, <2>6, <2>7 DEF BytesInv
<1> QED
  BY <1>1, <1>2, CopyObjectTypes DEF BytesInv

\* The row of a copy, whether or not the request learns of it.
LEMMA CopyRowBytes ==
  ASSUME BytesInv, TypeOK', NEW p \in Procs, h[p].pc = "insert",
         NEW n \in Names, CopyRow(p, n), UNCHANGED obj,
         \A r \in Procs : r # p => h'[r] = h[r],
         h'[p].left = {}, Has(p)',
         h'[p].pc \in Copying => h'[p].id = h[p].id,
         h'[p].pc \notin {"copy", "insert", "load", "write"},
         faults' = faults \/ faults' = faults + 1
  PROVE  BytesInv'
<1>0. /\ TypeOK /\ h[p].id \in Files /\ h[p].pc \in Copying /\ Has(p)
      /\ file[h[p].id] = None /\ h[p].id \in obj /\ h[p].id \in drawn
  BY DEF BytesInv, TypeOK, Sound, Copying, Has
<1>1. /\ file'[h[p].id] # None
      /\ \A x \in Files : x # h[p].id => file'[x] = file[x]
      /\ used < Quota /\ used' = used + 1
      /\ UNCHANGED <<drawn, revived, revivals>>
  <2> DEFINE r == [name |-> n, parent |-> h[p].row.parent,
                   deleted |-> h[p].row.deleted]
  <2>1. file' = [file EXCEPT ![h[p].id] = r]
    BY <1>0, CopyRowTypes
  <2>2. r \in Row
    <3>1. h[p].row \in Row
      BY <1>0 DEF TypeOK, Sound
    <3> QED
      BY <3>1, RowIs
  <2> HIDE DEF r
  <2> QED
    BY <1>0, <2>1, <2>2, RowIs DEF CopyRow, TypeOK, history
<1>2. UsedExact'
  BY <1>0, <1>1, UsedGrows DEF BytesInv, TypeOK
<1>3. \A r \in Procs : r # p => Has(r)'
  BY <1>0, <1>1, HasKept
<1>4. Apart'
  BY <1>0, ApartKept DEF BytesInv
<1>5. RowsHaveObjects' /\ Known'
  BY <1>0, <1>1 DEF BytesInv, RowsHaveObjects, Known
<1>6. NoOrphans'
  <2>1. CASE faults' = faults + 1
    BY <1>0, <2>1 DEF NoOrphans, TypeOK
  <2>2. CASE faults' = faults
    <3>1. h[p].left = {} /\ obj \subseteq Files
      BY <1>0 DEF TypeOK, Sound
    <3> QED
      BY <1>0, <1>1, <2>2, <3>1, OrphansKept DEF BytesInv, InCharge, Copying
  <2> QED
    BY <2>1, <2>2
<1> QED
  BY <1>2, <1>3, <1>4, <1>5, <1>6 DEF BytesInv

LEMMA CopyInsertBytes ==
  ASSUME BytesInv, NEW p \in Procs, CopyInsert(p)
  PROVE  BytesInv'
<1>0. /\ TypeOK' /\ h[p].pc = "insert" /\ Turns(p, Idle)
      /\ UNCHANGED <<obj, faults>>
  BY CopyInsertTypes DEF BytesInv
<1>1. Has(p)' /\ h'[p].left = {} /\ h'[p].pc = "idle"
  BY <1>0, IdleHas DEF Turns
<1>2. PICK n \in Names : CopyRow(p, n)
  BY CopyInsertTypes DEF BytesInv
<1> QED
  BY <1>0, <1>1, <1>2, CopyRowBytes DEF Turns, Copying

\* Going on without touching anything.
LEMMA GoOnBytes ==
  ASSUME BytesInv, TypeOK', NEW p \in Procs, h[p].pc \in Copying,
         NEW l \in {"reconcile", "cleanup"},
         Turns(p, [h[p] EXCEPT !.pc = l]), file[h[p].id] = None,
         UNCHANGED <<tree, obj>>, faults' = faults \/ faults' = faults + 1
  PROVE  BytesInv'
<1>1. h[p] \in Handler /\ Has(p) /\ h[p].left = {} /\ TypeOK
  BY DEF BytesInv, TypeOK, Sound, Copying
<1>2. /\ h'[p].pc = l /\ h'[p].id = h[p].id /\ h'[p].left = {}
      /\ \A r \in Procs : r # p => h'[r] = h[r]
  BY <1>1 DEF Turns, Handler
<1>3. Has(p)'
  BY <1>1, <1>2 DEF Has, Copying, tree, history
<1>4. CASE faults' = faults
  <2>1. /\ h'[p].pc \notin {"copy", "insert", "load", "write"}
        /\ h'[p].pc \in Copying
    BY <1>2 DEF Copying
  <2> QED
    BY <1>1, <1>2, <1>3, <1>4, <2>1, QuietBytes DEF tree, history
<1>5. CASE faults' = faults + 1
  <2>1. UsedExact'
    BY UsedKept DEF BytesInv, tree, history
  <2>2. \A r \in Procs : r # p => Has(r)'
    BY <1>2, HasKept DEF tree, history
  <2>3. Apart'
    BY <1>2, ApartKept DEF BytesInv
  <2>4. RowsHaveObjects' /\ Known'
    BY DEF BytesInv, RowsHaveObjects, Known, tree, history
  <2>5. NoOrphans'
    BY <1>1, <1>5 DEF NoOrphans, TypeOK
  <2> QED
    BY <1>3, <2>1, <2>2, <2>3, <2>4, <2>5 DEF BytesInv
<1> QED
  BY <1>4, <1>5

LEMMA CopyUnknownBytes ==
  ASSUME BytesInv, NEW p \in Procs, CopyUnknown(p)
  PROVE  BytesInv'
<1>0. /\ TypeOK /\ TypeOK' /\ h[p].pc = "insert" /\ faults' = faults + 1
      /\ h[p] \in Handler /\ Has(p)
      /\ Turns(p, [h[p] EXCEPT !.pc = "reconcile"])
      /\ (\E n \in Names : CopyRow(p, n)) \/ UNCHANGED tree
      /\ UNCHANGED <<folder, mirror, drawn, obj, history>>
  BY CopyUnknownTypes DEF BytesInv, TypeOK
<1>1. /\ h'[p].pc = "reconcile" /\ h'[p].id = h[p].id /\ h'[p].left = h[p].left
      /\ \A r \in Procs : r # p => h'[r] = h[r]
  BY <1>0 DEF Turns, Handler
<1>2. h[p].left = {} /\ h[p].pc \in Copying /\ file[h[p].id] = None
  BY <1>0 DEF TypeOK, Sound, Copying, Has
<1>3. Has(p)'
  BY <1>0, <1>1, <1>2 DEF Has, Copying
<1>4. CASE UNCHANGED tree
  BY <1>0, <1>2, <1>4, GoOnBytes
<1>5. ASSUME NEW n \in Names, CopyRow(p, n) PROVE BytesInv'
  BY <1>0, <1>1, <1>2, <1>3, <1>5, CopyRowBytes
<1> QED
  BY <1>0, <1>4, <1>5

LEMMA CopyFailsBytes ==
  ASSUME BytesInv, NEW p \in Procs, CopyFails(p)
  PROVE  BytesInv'
<1>1. h[p].pc = "insert" /\ h[p].pc \in Copying /\ file[h[p].id] = None
  BY CopyFailsTypes DEF BytesInv, Has, Copying
<1> QED
  BY <1>1, CopyFailsTypes, GoOnBytes DEF BytesInv

LEMMA CopyReconcileBytes ==
  ASSUME BytesInv, NEW p \in Procs, CopyReconcile(p)
  PROVE  BytesInv'
<1>0. /\ TypeOK' /\ h[p].pc = "reconcile" /\ h[p].pc \in Copying
      /\ UNCHANGED <<tree, obj, faults>>
      /\ IF file[h[p].id] = None
         THEN Turns(p, [h[p] EXCEPT !.pc = "cleanup"])
         ELSE Turns(p, Idle)
  BY CopyReconcileTypes DEF BytesInv, Copying
<1>1. CASE file[h[p].id] = None
  BY <1>0, <1>1, GoOnBytes
<1>2. CASE file[h[p].id] # None
  BY <1>0, <1>2, EndBytes DEF tree, history
<1> QED
  BY <1>1, <1>2

LEMMA CopyCleanupBytes ==
  ASSUME BytesInv, NEW p \in Procs, CopyCleanup(p)
  PROVE  BytesInv'
<1>0. /\ TypeOK' /\ h[p].pc = "cleanup" /\ obj' = obj \ {h[p].id}
      /\ UNCHANGED <<tree, faults>> /\ Turns(p, Idle)
      /\ h[p].id \in Files /\ h[p].pc \in Copying /\ h[p].left = {}
      /\ file[h[p].id] = None \/ h[p].id \in revived
  BY CopyCleanupTypes DEF BytesInv, TypeOK, Sound, Copying, Has
<1>1. Has(p)' /\ h'[p].left = {} /\ h'[p].pc = "idle"
      /\ \A r \in Procs : r # p => h'[r] = h[r]
  BY <1>0, IdleHas DEF Turns
<1>2. UsedExact'
  BY <1>0, UsedKept DEF BytesInv, tree, history
<1>3. \A r \in Procs : r # p => Has(r)'
  BY <1>0, <1>1, HasKept DEF tree, history
<1>4. Apart'
  BY <1>1, ApartKept DEF BytesInv, Copying
<1>5. RowsHaveObjects' /\ Known'
  BY <1>0 DEF BytesInv, RowsHaveObjects, Known, tree, history
<1>6. NoOrphans'
  BY <1>0, <1>1, OrphansKept DEF BytesInv, InCharge, tree
<1> QED
  BY <1>0, <1>1, <1>2, <1>3, <1>4, <1>5, <1>6 DEF BytesInv

LEMMA RemoveWriteBytes ==
  ASSUME BytesInv, NEW p \in Procs, RemoveWrite(p)
  PROVE  BytesInv'
<1>0. /\ TypeOK' /\ Turns(p, Idle) /\ h[p].pc = "write"
      /\ UNCHANGED <<drawn, obj, used, faults, revived, revivals>>
      /\ \A x \in Files : x # h[p].id => file'[x] = file[x]
      /\ file'[h[p].id] = None <=> file[h[p].id] = None
  BY RemoveWriteTypes DEF BytesInv
<1>1. \A x \in Files : file'[x] = None <=> file[x] = None
  BY <1>0
<1> QED
  BY <1>0, <1>1, EndBytes DEF Copying

\* The row a save brings back is charged to nobody, and may have lost its bytes.
LEMMA RemoveInsertBytes ==
  ASSUME BytesInv, NEW p \in Procs, RemoveInsert(p)
  PROVE  BytesInv'
<1>0. /\ TypeOK /\ TypeOK' /\ Turns(p, Idle) /\ h[p].pc = "write"
      /\ UNCHANGED <<drawn, obj, used, faults>> /\ h[p].id \in Files
      /\ file[h[p].id] = None /\ file'[h[p].id] # None
      /\ \A x \in Files : x # h[p].id => file'[x] = file[x]
      /\ revived' = revived \cup {h[p].id} /\ revivals' = revivals + 1
  BY RemoveInsertTypes DEF BytesInv
<1>1. /\ Has(p)' /\ h'[p].left = {} /\ h'[p].pc = "idle"
      /\ \A r \in Procs : r # p => h'[r] = h[r]
      /\ h[p].left = {} /\ h[p].pc \notin Copying /\ h[p].id \in drawn
  BY <1>0, IdleHas DEF Turns, TypeOK, Sound, Copying, BytesInv, Has
<1>2. UsedExact'
  BY <1>0, UsedGrows DEF BytesInv, TypeOK
<1>3. \A r \in Procs : r # p => Has(r)'
  BY <1>0, <1>1, HasKept
<1>4. Apart'
  BY <1>1, ApartKept DEF BytesInv, Copying
<1>5. RowsHaveObjects' /\ Known'
  BY <1>0, <1>1 DEF BytesInv, RowsHaveObjects, Known
<1>6. NoOrphans'
  <2>1. NoOrphans /\ obj \subseteq Files
    BY <1>0 DEF BytesInv, TypeOK
  <2>2. \A x \in obj : x # h[p].id => ~InCharge(p, x)
    BY <1>1 DEF InCharge
  <2> QED
    BY <1>0, <1>1, <2>1, <2>2, OrphansKept
<1> QED
  BY <1>0, <1>1, <1>2, <1>3, <1>4, <1>5, <1>6 DEF BytesInv

LEMMA RemoveLoadBytes ==
  ASSUME BytesInv, NEW p \in Procs, RemoveLoad(p)
  PROVE  BytesInv'
<1>0. /\ TypeOK' /\ h[p].pc = "load" /\ UNCHANGED <<tree, obj, faults>>
      /\ \A r \in Procs : r # p => h'[r] = h[r]
      /\ h'[p].pc = "write" /\ h'[p].id = h[p].id /\ h'[p].left = {}
      /\ h[p].left = {}
  BY RemoveLoadTypes DEF BytesInv, TypeOK, Sound
<1>1. Has(p)'
  BY <1>0 DEF BytesInv, Has, Copying, tree
<1> QED
  BY <1>0, <1>1, QuietBytes DEF tree, history, Copying

LEMMA MoveBytes ==
  ASSUME BytesInv, NEW p \in Procs, MoveFolder(p)
  PROVE  BytesInv'
<1>1. /\ TypeOK' /\ Turns(p, Idle) /\ h[p].pc = "move"
      /\ UNCHANGED <<file, drawn, obj, used, faults, revived, revivals>>
  BY MoveTypes DEF BytesInv, MoveFolder, At
<1> QED
  BY <1>1, EndBytes DEF Copying

LEMMA RefuseBytes ==
  ASSUME BytesInv, NEW p \in Procs, Refuse(p)
  PROVE  BytesInv'
<1>1. /\ TypeOK' /\ Turns(p, Idle) /\ h[p].pc \in {"move", "load", "write"}
      /\ UNCHANGED <<tree, obj, faults>>
  BY RefuseTypes DEF BytesInv
<1> QED
  BY <1>1, EndBytes DEF tree, history, Copying

LEMMA FaultBytes ==
  ASSUME BytesInv, Fault
  PROVE  BytesInv'
<1>0. /\ TypeOK /\ TypeOK' /\ UNCHANGED <<tree, obj>> /\ faults' = faults + 1
      /\ \A r \in Procs : h'[r] = h[r] \/ h'[r] = Idle
  BY FaultTypes DEF BytesInv, Turns
<1>1. UsedExact' /\ RowsHaveObjects' /\ Known'
  BY <1>0, UsedKept DEF BytesInv, RowsHaveObjects, Known, tree, history
<1>2. \A r \in Procs : Has(r)'
  <2> TAKE r \in Procs
  <2>1. CASE h'[r] = h[r]
    BY <1>0, <2>1, HasKept DEF tree, history
  <2>2. CASE h'[r] = Idle
    BY <2>2, IdleHas
  <2> QED
    BY <1>0, <2>1, <2>2
<1>3. Apart'
  <2>1. Idle.pc = "idle" /\ Idle.left = {}
    BY DEF Idle
  <2> QED
    BY <1>0, <2>1, ApartKept DEF BytesInv, Copying
<1>4. NoOrphans'
  BY <1>0 DEF NoOrphans, TypeOK
<1> QED
  BY <1>0, <1>1, <1>2, <1>3, <1>4 DEF BytesInv

LEMMA InitBytes == Init => BytesInv
<1>1. Init => UsedExact
  <2>1. Init => {x \in Files : file[x] # None} = {}
    BY DEF Init
  <2> QED
    BY <2>1, FS_EmptySet, FilesAssumption DEF Init, UsedExact
<1>2. Init => RowsHaveObjects /\ NoOrphans /\ Known
  BY DEF Init, RowsHaveObjects, NoOrphans, Known
<1>3. Init => Apart /\ \A p \in Procs : Has(p)
  BY DEF Init, Apart, Has, Idle, Copying
<1> QED
  BY <1>1, <1>2, <1>3, InitTypes DEF BytesInv

LEMMA NextBytes ==
  ASSUME BytesInv, [Next]_vars
  PROVE  BytesInv'
<1>0. TypeOK /\ TypeOK'
  BY NextTypes DEF BytesInv
<1>1. CASE UNCHANGED vars
  BY <1>0, <1>1, PlainBytes DEF vars, tree, history
<1>2. ASSUME NEW p \in Procs, Begin(p) PROVE BytesInv'
  <2>1. ASSUME NEW f \in Folders, NEW n \in Names, NEW d \in Places,
               MoveBegin(p, f, n, d)
        PROVE  BytesInv'
    <3>1. /\ h[p].pc = "idle" /\ UNCHANGED <<tree, obj, faults>>
          /\ \A r \in Procs : r # p => h'[r] = h[r]
          /\ h'[p].pc = "move" /\ h'[p].left = {}
      BY <1>0, <2>1, MoveBeginTypes
    <3>2. Has(p)'
      BY <3>1 DEF Has, Copying
    <3> QED
      BY <1>0, <3>1, <3>2, BeginBytes DEF Copying
  <2>2. ASSUME NEW x \in Files, RemoveBegin(p, x) PROVE BytesInv'
    <3>1. /\ file[x] # None
          /\ h[p].pc = "idle" /\ UNCHANGED <<tree, obj, faults>>
          /\ \A r \in Procs : r # p => h'[r] = h[r]
          /\ h'[p].pc = "load" /\ h'[p].id = x /\ h'[p].left = {}
      BY <1>0, <2>2, RemoveBeginTypes
    <3>2. Has(p)'
      BY <3>1 DEF Has, Copying, tree, BytesInv, Known
    <3> QED
      BY <1>0, <3>1, <3>2, BeginBytes DEF Copying
  <2>3. ASSUME NEW x \in Files, DeleteFile(p, x) PROVE BytesInv'
    BY <1>0, <2>3, FileDeletion, DeletionBytes
  <2>4. ASSUME NEW f \in Folders, DeleteFolder(p, f) PROVE BytesInv'
    BY <1>0, <2>4, FolderDeletion, DeletionBytes
  <2>5. CASE EmptyTrash(p)
    BY <1>0, <2>5, TrashDeletion, DeletionBytes
  <2>6. ASSUME NEW x \in Files, NEW y \in Files, NEW d \in Places,
               CopyBegin(p, x, y, d)
        PROVE  BytesInv'
    BY <2>6, CopyBeginBytes
  <2> QED
    BY <1>2, <2>1, <2>2, <2>3, <2>4, <2>5, <2>6 DEF Begin
<1>3. ASSUME NEW p \in Procs, Step(p) PROVE BytesInv'
  BY <1>3, MoveBytes, RemoveLoadBytes, RemoveWriteBytes, RemoveInsertBytes,
     UnlinkBytes, RefuseBytes, CopyObjectBytes, CopyInsertBytes, CopyFailsBytes,
     CopyUnknownBytes, CopyReconcileBytes, CopyCleanupBytes DEF Step
<1>4. CASE AtOnce
  <2>1. ASSUME NEW x \in Files, NEW want \in Names, NEW n \in Names,
               NEW d \in Places, Publish(x, want, n, d)
        PROVE  BytesInv'
    BY <2>1, PublishBytes
  <2>2. ASSUME NEW f \in Folders, NEW want \in Names, NEW n \in Names,
               NEW d \in Places, CreateFolder(f, want, n, d)
        PROVE  BytesInv'
    BY <1>0, <2>2, PlainBytes DEF CreateFolder, history
  <2>3. ASSUME NEW x \in Files, NEW want \in Names, NEW d \in Places,
               PlaceFile(x, want, d)
        PROVE  BytesInv'
    <3>1. PICK n \in Names :
            file' = [file EXCEPT ![x] = [name |-> n, parent |-> d,
                                         deleted |-> file[x].deleted]]
      BY <1>0, <2>3, PlaceIs
    <3>2. /\ file[x] \in Row /\ d \in Places
          /\ UNCHANGED <<drawn, obj, used, h, faults, revived, revivals>>
      BY <1>0, <2>3, PlaceIs
    <3>3. [name |-> n, parent |-> d, deleted |-> file[x].deleted] # None
      BY <3>2, RowIs
    <3>4. \A y \in Files : file'[y] = None <=> file[y] = None
      BY <1>0, <3>1, <3>2, <3>3, RowIs DEF TypeOK
    <3> QED
      BY <1>0, <3>2, <3>4, PlainBytes
  <2>4. ASSUME NEW x \in Files, RestoreFile(x) PROVE BytesInv'
    <3>1. PICK n \in Names, d \in Places :
            file' = [file EXCEPT ![x] = [name |-> n, parent |-> d,
                                         deleted |-> FALSE]]
      <4> DEFINE up == file[x].parent
                 d  == IF up \in Active THEN up ELSE Root
      <4>1. \E n \in Names :
              file' = [file EXCEPT ![x] = [name |-> n, parent |-> d,
                                           deleted |-> FALSE]]
        BY <2>4 DEF RestoreFile
      <4>2. d \in Places
        BY DEF Active, Places
      <4> HIDE DEF d
      <4> QED
        BY <4>1, <4>2
    <3>2. [name |-> n, parent |-> d, deleted |-> FALSE] # None
      BY RowIs
    <3>3. \A y \in Files : file'[y] = None <=> file[y] = None
      BY <1>0, <2>4, <3>1, <3>2 DEF TypeOK, RestoreFile
    <3> QED
      BY <1>0, <2>4, <3>3, PlainBytes DEF RestoreFile
  <2>5. ASSUME NEW f \in Folders,
               RemoveFolder(f) \/ RestoreFolder(f) \/ DeleteMirror(f)
        PROVE  BytesInv'
    BY <1>0, <2>5, PlainBytes
    DEF RemoveFolder, RestoreFolder, DeleteMirror, history
  <2> QED
    BY <1>4, <2>1, <2>2, <2>3, <2>4, <2>5 DEF AtOnce
<1>5. CASE Fault
  BY <1>5, FaultBytes
<1> QED
  BY <1>1, <1>2, <1>3, <1>4, <1>5 DEF Next

\* Through any mix of uploads, copies, failed COMMITs, trashings, deletions,
\* crashes and late unlinks: what the accounts and the objects are short of is
\* what the saves of removeFile inserted again (files.service.ts:438).
THEOREM BytesStayAccounted == Spec => []BytesAccounted
<1>1. BytesInv => BytesAccounted
  BY DEF BytesInv, BytesAccounted
<1>2. BytesInv /\ [Next]_vars => BytesInv'
  BY NextBytes
<1> QED
  BY <1>1, <1>2, InitBytes, PTL DEF Spec
=============================================================================
