----------------------------- MODULE FilesTree -----------------------------
(***************************************************************************)
(* The tree of files and folders of one owner: FilesService                *)
(* (src/backend/src/files/files.service.ts), allocateNamespaceName and the *)
(* quota updates of UsersService, with the foreign keys of the migrations. *)
(*                                                                         *)
(* A folder is two rows, one in folders and its mirror in files; a file is *)
(* one row and one physical object, and has size 1.  Transactions that     *)
(* begin with SELECT ... FOR UPDATE on the owner's row exclude each other  *)
(* and are one action each.  What is not under that lock takes steps: the  *)
(* checks before a move, removeFile (find, then TypeORM's save, which      *)
(* reads the row again and writes the columns that differ, or inserts the  *)
(* entity when the row is gone), the physical copy and the unlinks.        *)
(***************************************************************************)
EXTENDS Integers, FiniteSets

CONSTANTS Folders,    \* folder ids
          Files,      \* file ids; an object is named by the file it is for
          Names,      \* names, the suffixed ones included
          Root,       \* the parent of what is not in a folder
          None,       \* no row
          Procs,      \* concurrent requests of the owner
          Quota,      \* storageQuota
          Requests,   \* the requests the clients make
          MaxFaults   \* bound: crashes, failed unlinks and lookups

ASSUME FilesAssumption ==
  /\ IsFiniteSet(Folders) /\ IsFiniteSet(Files) /\ Folders \cap Files = {}
  /\ Root \notin Folders /\ None \notin Folders \cup Files
  /\ Quota \in Nat /\ MaxFaults \in Nat
  /\ None \notin [name: Names, parent: Folders \cup {Root},
                  deleted: BOOLEAN]

VARIABLES
  folder,   \* rows of folders
  mirror,   \* rows of files with isFolder: the mirror of each folder
  file,     \* the other rows of files
  drawn,    \* ids the sequences have handed out
  obj,      \* physical objects in the owner's storage
  used,     \* users.storageUsed
  h,        \* the request each process is serving
  faults    \* faults so far

\* History, which no step reads: what happened to a row that the code takes no
\* account of.
VARIABLES
  stray,     \* items whose name or place was last written without an allocation
  bare,      \* folders whose mirror was deleted as if it were a file
  revived,   \* files that a save inserted again after their deletion
  revivals   \* how often that happened

history == <<stray, bare, revived, revivals>>
tree    == <<folder, mirror, file, drawn, used, history>>
vars    == <<tree, obj, h, faults>>

Places == Folders \cup {Root}
Row    == [name: Names, parent: Places, deleted: BOOLEAN]

\* Where a request is: "idle", "move" (updateFolder after its first checks),
\* "load" and "write" (inside removeFile's save), "copy", "insert",
\* "reconcile" and "cleanup" (copyFile), "unlink" (after a deletion).
Handler == [pc: {"idle", "move", "load", "write", "copy", "insert",
                 "reconcile", "cleanup", "unlink"},
            id: Files \cup Folders \cup {None}, src: Files \cup {None},
            row: Row \cup {None}, known: Row \cup {None},
            left: SUBSET Files]

\* The steps of a copy: the id in hand is that of the file it makes.
Copying == {"copy", "insert", "reconcile", "cleanup"}

Idle == [pc |-> "idle", id |-> None, src |-> None, row |-> None,
         known |-> None, left |-> {}]

Init ==
  /\ folder = [f \in Folders |-> None] /\ mirror = [f \in Folders |-> None]
  /\ file = [x \in Files |-> None]
  /\ drawn = {} /\ obj = {} /\ used = 0 /\ faults = 0
  /\ h = [p \in Procs |-> Idle]
  /\ stray = {} /\ bare = {} /\ revived = {} /\ revivals = 0

-----------------------------------------------------------------------------
(* Reading the tree *)

Live(r) == r # None /\ ~r.deleted

\* The places there are (assertFolderOwnership), and those not in the trash.
Existing == {Root} \cup {f \in Folders : folder[f] # None}
Active   == {Root} \cup {f \in Folders : Live(folder[f])}

\* The names of the live rows in d other than those of the item x.
Occupied(d, x) ==
  {file[y].name : y \in {y \in Files \ {x} : /\ Live(file[y])
                                             /\ file[y].parent = d}}
  \cup {folder[g].name : g \in {g \in Folders \ {x} : /\ Live(folder[g])
                                                     /\ folder[g].parent = d}}
  \cup {mirror[g].name : g \in {g \in Folders \ {x} : /\ Live(mirror[g])
                                                     /\ mirror[g].parent = d}}

\* allocateNamespaceName answers n: the destination is live, and n is the
\* requested name or, when that is taken, a free one.
Allocated(d, want, x, n) ==
  /\ d \in Active
  /\ n \in Names \ Occupied(d, x)
  /\ want \notin Occupied(d, x) => n = want

\* Mutant: the folder and its immediate subfolders.
Children(f) ==
  {f} \cup {g \in Folders : folder[g] # None /\ folder[g].parent = f}

\* f and the folders below it (WITH RECURSIVE descendants).
Below(f) ==
  LET Within[n \in 0..Cardinality(Folders)] ==
        IF n = 0 THEN {f}
        ELSE Within[n - 1] \cup
             {g \in Folders : folder[g] # None
                              /\ folder[g].parent \in Within[n - 1]}
  IN  Within[Cardinality(Folders)]

\* d and every folder above it are live, and so are their mirrors.
LiveChain(d) ==
  \A f \in Folders :
    folder[f] # None /\ d \in Below(f) => Live(folder[f]) /\ Live(mirror[f])

FilesIn(fs) == {x \in Files : file[x] # None /\ file[x].parent \in fs}

-----------------------------------------------------------------------------
(* Writing it *)

Asked(r) == r \in Requests
Free(p)  == h[p].pc = "idle"
At(p, l) == h[p].pc = l
Goto(p, l) == h' = [h EXCEPT ![p].pc = l]
Stop(p)    == h' = [h EXCEPT ![p] = Idle]

\* A folder's two rows.
SetFolder(f, r) ==
  /\ folder' = [folder EXCEPT ![f] = r]
  /\ mirror' = [mirror EXCEPT ![f] = [name |-> r.name, parent |-> r.parent,
                                      deleted |-> mirror[f].deleted]]

\* The foreign keys on parentId: ON DELETE SET NULL.
Orphaned(r, fs) ==
  IF r # None /\ r.parent \in fs THEN [r EXCEPT !.parent = Root] ELSE r

\* The rows of the folders fs and of the files xs go in one transaction, and
\* their bytes are given back; the objects are unlinked afterwards.
DropRows(p, fs, xs) ==
  /\ used >= Cardinality(xs) /\ used' = used - Cardinality(xs)
  /\ folder' = [g \in Folders |->
                  IF g \in fs THEN None ELSE Orphaned(folder[g], fs)]
  /\ mirror' = [g \in Folders |->
                  IF g \in fs THEN None ELSE Orphaned(mirror[g], fs)]
  /\ file' = [x \in Files |->
                IF x \in xs THEN None ELSE Orphaned(file[x], fs)]
  /\ h' = [h EXCEPT ![p] = [Idle EXCEPT !.pc = "unlink", !.left = xs]]

-----------------------------------------------------------------------------
(* Uploads and folders *)

\* UploadsService publishes a file (LegacyUpload has the detail).
Publish(x, want, n, d) ==
  /\ Asked("upload") /\ x \notin drawn
  /\ LiveChain(d) /\ Allocated(d, want, x, n) /\ used < Quota
  /\ file' = [file EXCEPT ![x] = [name |-> n, parent |-> d, deleted |-> FALSE]]
  /\ obj' = obj \cup {x} /\ used' = used + 1 /\ drawn' = drawn \cup {x}
  /\ UNCHANGED <<folder, mirror, h, faults, history>>

CreateFolder(f, want, n, d) ==
  /\ Asked("createFolder") /\ f \notin drawn
  /\ Allocated(d, want, f, n)
  /\ LET r == [name |-> n, parent |-> d, deleted |-> FALSE] IN
       /\ folder' = [folder EXCEPT ![f] = r]
       /\ mirror' = [mirror EXCEPT ![f] = r]
  /\ drawn' = drawn \cup {f}
  /\ UNCHANGED <<file, obj, used, h, faults, history>>

\* updateFile and moveFile: the file goes to d under the name want.
PlaceFile(x, want, d) ==
  /\ Asked("placeFile") /\ file[x] # None
  /\ d \in Existing
  /\ \E n \in Names :
       /\ IF want = file[x].name /\ d = file[x].parent
          THEN n = want /\ stray' = stray
          ELSE Allocated(d, want, x, n) /\ stray' = stray \ {x}
       /\ file' = [file EXCEPT ![x] = [name |-> n, parent |-> d,
                                      deleted |-> @.deleted]]
  /\ UNCHANGED <<folder, mirror, drawn, obj, used, h, faults,
                 bare, revived, revivals>>

\* restoreFile: to the root when the parent is not active.
RestoreFile(x) ==
  /\ Asked("restoreFile") /\ file[x] # None
  /\ LET up == file[x].parent
         d  == IF up \in Active THEN up ELSE Root
     IN \E n \in Names :
          /\ IF ~file[x].deleted /\ d = up
             THEN n = file[x].name /\ stray' = stray
             ELSE Allocated(d, file[x].name, x, n) /\ stray' = stray \ {x}
          /\ file' = [file EXCEPT ![x] = [name |-> n, parent |-> d,
                                          deleted |-> FALSE]]
  /\ UNCHANGED <<folder, mirror, drawn, obj, used, h, faults,
                 bare, revived, revivals>>

\* updateFolder before its transaction: ownership and a first cycle check.
MoveBegin(p, f, want, d) ==
  /\ Asked("moveFolder") /\ Free(p) /\ folder[f] # None
  /\ d \in Existing \ Below(f)
  /\ h' = [h EXCEPT ![p] = [Idle EXCEPT !.pc = "move", !.id = f,
             !.row = [name |-> want, parent |-> d, deleted |-> FALSE]]]
  /\ UNCHANGED <<tree, obj, faults>>

\* Mutant: the check made before the lock is relied on.
MoveFolderUnchecked(p) ==
  LET f == h[p].id want == h[p].row.name d == h[p].row.parent IN
  /\ At(p, "move") /\ folder[f] # None /\ mirror[f] # None
  /\ \E n \in Names : /\ Allocated(d, want, f, n)
                      /\ SetFolder(f, [name |-> n, parent |-> d,
                                       deleted |-> folder[f].deleted])
  /\ stray' = stray \ {f}
  /\ Stop(p)
  /\ UNCHANGED <<file, drawn, obj, used, faults, bare, revived, revivals>>

\* Its transaction: the cycle check again, the name, both rows.
MoveFolder(p) ==
  LET f == h[p].id want == h[p].row.name d == h[p].row.parent IN
  /\ At(p, "move") /\ folder[f] # None /\ mirror[f] # None
  /\ d \notin Below(f)
  /\ \/ /\ want = folder[f].name /\ d = folder[f].parent
        /\ UNCHANGED <<folder, mirror, stray>>
     \/ /\ ~(want = folder[f].name /\ d = folder[f].parent)
        /\ stray' = stray \ {f}
        /\ \E n \in Names : /\ Allocated(d, want, f, n)
                            /\ SetFolder(f, [name |-> n, parent |-> d,
                                             deleted |-> folder[f].deleted])
  /\ Stop(p)
  /\ UNCHANGED <<file, drawn, obj, used, faults, bare, revived, revivals>>

-----------------------------------------------------------------------------
(* The trash *)

\* removeFile: the row is read ...
RemoveBegin(p, x) ==
  /\ Asked("removeFile") /\ Free(p) /\ file[x] # None
  /\ h' = [h EXCEPT ![p] = [Idle EXCEPT !.pc = "load", !.id = x,
             !.row = [file[x] EXCEPT !.deleted = TRUE]]]
  /\ UNCHANGED <<tree, obj, faults>>

\* ... save() reads it again, to find the columns that differ ...
RemoveLoad(p) ==
  /\ At(p, "load")
  /\ h' = [h EXCEPT ![p].pc = "write", ![p].known = file[h[p].id]]
  /\ UNCHANGED <<tree, obj, faults>>

\* ... and writes those, isDeleted too if the row was live when read; ...
RemoveWrite(p) ==
  LET x == h[p].id mine == h[p].row known == h[p].known
      moved == mine.parent # known.parent
  IN
  /\ At(p, "write") /\ known # None
  /\ moved => mine.parent \in Existing
  /\ file' = [file EXCEPT ![x] =
       IF @ = None THEN None
       ELSE [name |-> IF mine.name # known.name THEN mine.name ELSE @.name,
             parent |-> IF moved THEN mine.parent ELSE @.parent,
             deleted |-> @.deleted \/ ~known.deleted]]
  /\ stray' = IF Live(file'[x]) /\ file'[x] # file[x] THEN stray \cup {x}
              ELSE stray
  /\ Stop(p)
  /\ UNCHANGED <<folder, mirror, drawn, obj, used, faults,
                 bare, revived, revivals>>

\* ... or, when it found no row, the whole entity.
RemoveInsert(p) ==
  LET x == h[p].id mine == h[p].row IN
  /\ At(p, "write") /\ h[p].known = None
  /\ file[x] = None /\ mine.parent \in Existing
  /\ file' = [file EXCEPT ![x] = mine]
  /\ revived' = revived \cup {x} /\ revivals' = revivals + 1
  /\ Stop(p)
  /\ UNCHANGED <<folder, mirror, drawn, obj, used, faults, stray, bare>>

RemoveFolder(f) ==
  /\ Asked("removeFolder") /\ folder[f] # None /\ mirror[f] # None
  /\ folder' = [folder EXCEPT ![f].deleted = TRUE]
  /\ mirror' = [mirror EXCEPT ![f].deleted = TRUE]
  /\ UNCHANGED <<file, drawn, obj, used, h, faults, history>>

\* restoreFolder: to the root when the parent is not active; a name is
\* allocated when the folder was in the trash, and only then.
RestoreFolder(f) ==
  /\ Asked("restoreFolder") /\ folder[f] # None /\ mirror[f] # None
  /\ LET up == folder[f].parent
         d  == IF up \in Active THEN up ELSE Root
         md == IF up \in Active THEN mirror[f].parent ELSE Root
     IN \E n \in Names :
          /\ IF folder[f].deleted THEN Allocated(d, folder[f].name, f, n)
             ELSE n = folder[f].name
          /\ folder' = [folder EXCEPT ![f] = [name |-> n, parent |-> d,
                                              deleted |-> FALSE]]
          /\ mirror' = [mirror EXCEPT ![f] =
               [name |-> IF folder[f].deleted THEN n ELSE @.name,
                parent |-> md, deleted |-> FALSE]]
          /\ stray' = IF folder[f].deleted THEN stray \ {f}
                      ELSE IF d # up THEN stray \cup {f} ELSE stray
  /\ UNCHANGED <<file, drawn, obj, used, h, faults, bare, revived, revivals>>

\* deleteFilePermanently.
DeleteFile(p, x) ==
  /\ Asked("deleteFile") /\ Free(p) /\ file[x] # None
  /\ DropRows(p, {}, {x})
  /\ UNCHANGED <<drawn, obj, faults, history>>

\* The same request with the id of a folder's mirror.
DeleteMirror(f) ==
  /\ Asked("deleteFile") /\ mirror[f] # None
  /\ mirror' = [mirror EXCEPT ![f] = None] /\ bare' = bare \cup {f}
  /\ UNCHANGED <<folder, file, drawn, obj, used, h, faults,
                 stray, revived, revivals>>

\* deleteFolderPermanently: the folder with everything below it.
DeleteFolder(p, f) ==
  LET fs == Below(f) IN
  /\ Asked("deleteFolder") /\ Free(p) /\ folder[f] # None
  /\ \A g \in fs : mirror[g] # None
  /\ DropRows(p, fs, FilesIn(fs))
  /\ UNCHANGED <<drawn, obj, faults, history>>

\* emptyTrash: the trashed folders with everything below them, and the
\* trashed files.
EmptyTrash(p) ==
  LET fs == UNION {Below(f) : f \in {f \in Folders : folder[f] # None
                                                     /\ folder[f].deleted}}
      xs == FilesIn(fs) \cup {x \in Files : file[x] # None /\ file[x].deleted}
  IN
  /\ Asked("emptyTrash") /\ Free(p)
  /\ \A g \in fs : mirror[g] # None
  /\ DropRows(p, fs, xs)
  /\ UNCHANGED <<drawn, obj, faults, history>>

\* The unlinks after a deletion, one by one.
Unlink(p) ==
  \/ \E x \in h[p].left :
       /\ At(p, "unlink") /\ obj' = obj \ {x}
       /\ h' = [h EXCEPT ![p].left = @ \ {x}]
       /\ UNCHANGED <<tree, faults>>
  \/ /\ At(p, "unlink") /\ h[p].left = {} /\ Stop(p)
     /\ UNCHANGED <<tree, obj, faults>>

-----------------------------------------------------------------------------
(* Copies *)

\* copyFile reads the source and picks the path of the copy.
CopyBegin(p, x, y, d) ==
  /\ Asked("copyFile") /\ Free(p) /\ file[x] # None /\ y \notin drawn
  /\ d \in Existing
  /\ h' = [h EXCEPT ![p] = [Idle EXCEPT !.pc = "copy", !.id = y, !.src = x,
             !.row = [name |-> file[x].name, parent |-> d,
                      deleted |-> FALSE]]]
  /\ drawn' = drawn \cup {y}
  /\ UNCHANGED <<folder, mirror, file, obj, used, faults, history>>

\* The physical copy, or its failure when the source is gone.
CopyObject(p) ==
  /\ At(p, "copy")
  /\ \/ h[p].src \in obj /\ obj' = obj \cup {h[p].id} /\ Goto(p, "insert")
     \/ h[p].src \notin obj /\ Stop(p) /\ UNCHANGED obj
  /\ UNCHANGED <<tree, faults>>

\* The transaction of a copy: quota, name, row.
CopyRow(p, n) ==
  /\ used < Quota /\ used' = used + 1
  /\ Allocated(h[p].row.parent, h[p].row.name, h[p].id, n)
  /\ file' = [file EXCEPT ![h[p].id] = [h[p].row EXCEPT !.name = n]]
  /\ UNCHANGED <<folder, mirror, drawn, history>>

CopyInsert(p) ==
  /\ At(p, "insert")
  /\ \E n \in Names : CopyRow(p, n)
  /\ Stop(p) /\ UNCHANGED <<obj, faults>>

\* It cannot be made, or fails before COMMIT: it is rolled back.
CopyFails(p) ==
  /\ At(p, "insert") /\ Goto(p, "cleanup")
  /\ UNCHANGED <<tree, obj, faults>>

\* COMMIT fails: it was applied or it was not.
CopyUnknown(p) ==
  /\ At(p, "insert") /\ faults < MaxFaults /\ faults' = faults + 1
  /\ (\E n \in Names : CopyRow(p, n)) \/ UNCHANGED tree
  /\ Goto(p, "reconcile") /\ UNCHANGED obj

\* Mutant: a commit that failed is taken for a rollback.
CopyPresumed(p) ==
  /\ At(p, "reconcile") /\ Goto(p, "cleanup")
  /\ UNCHANGED <<tree, obj, faults>>

\* The row is looked up; without one the copy's object goes.
CopyReconcile(p) ==
  /\ At(p, "reconcile")
  /\ IF file[h[p].id] = None THEN Goto(p, "cleanup") ELSE Stop(p)
  /\ UNCHANGED <<tree, obj, faults>>

CopyCleanup(p) ==
  /\ At(p, "cleanup") /\ obj' = obj \ {h[p].id} /\ Stop(p)
  /\ UNCHANGED <<tree, faults>>

-----------------------------------------------------------------------------
(* Errors *)

\* A transaction that is refused, or a statement that fails.
Refuse(p) ==
  /\ h[p].pc \in {"move", "load", "write"} /\ Stop(p)
  /\ UNCHANGED <<tree, obj, faults>>

\* An unlink or a lookup that fails is logged; a crash ends every request.
Fault ==
  /\ faults < MaxFaults /\ faults' = faults + 1
  /\ \/ \E p \in Procs : /\ h[p].pc \in {"unlink", "reconcile", "cleanup"}
                         /\ Stop(p)
     \/ h' = [p \in Procs |-> Idle]
  /\ UNCHANGED <<tree, obj>>

Step(p) ==
  \/ MoveFolder(p)
  \/ RemoveLoad(p) \/ RemoveWrite(p) \/ RemoveInsert(p)
  \/ Unlink(p) \/ Refuse(p)
  \/ CopyObject(p) \/ CopyInsert(p) \/ CopyFails(p) \/ CopyUnknown(p)
  \/ CopyReconcile(p) \/ CopyCleanup(p)

Begin(p) ==
  \/ \E f \in Folders, n \in Names, d \in Places : MoveBegin(p, f, n, d)
  \/ \E x \in Files : RemoveBegin(p, x) \/ DeleteFile(p, x)
  \/ \E f \in Folders : DeleteFolder(p, f)
  \/ EmptyTrash(p)
  \/ \E x, y \in Files, d \in Places : CopyBegin(p, x, y, d)

AtOnce ==
  \/ \E x \in Files, want, n \in Names, d \in Places : Publish(x, want, n, d)
  \/ \E f \in Folders, want, n \in Names, d \in Places :
       CreateFolder(f, want, n, d)
  \/ \E x \in Files, want \in Names, d \in Places : PlaceFile(x, want, d)
  \/ \E x \in Files : RestoreFile(x)
  \/ \E f \in Folders : RemoveFolder(f) \/ RestoreFolder(f) \/ DeleteMirror(f)

Next == (\E p \in Procs : Begin(p) \/ Step(p)) \/ AtOnce \/ Fault

Spec == Init /\ [][Next]_vars

-----------------------------------------------------------------------------
(* Properties *)

\* No folder is below itself, whatever moves are under way at once
\* (assertNoCycle, files.service.ts:410).
Forest ==
  \A f \in Folders : folder[f] # None => folder[f].parent \notin Below(f)

\* Live items of one place have different names (namespace-name.ts:4), files
\* and folders alike, after any mix of creations, moves, trashings and
\* restores, but for one whose present name and place no allocation chose: a
\* live folder taken out of a trashed one (restoreFolder), or a file to which a
\* save wrote what it had read before the file was trashed and restored.
UniqueNames ==
  /\ \A x, y \in Files \ stray :
       x # y /\ Live(file[x]) /\ Live(file[y])
       /\ file[x].parent = file[y].parent => file[x].name # file[y].name
  /\ \A f, g \in Folders \ stray :
       f # g /\ Live(folder[f]) /\ Live(folder[g])
       /\ folder[f].parent = folder[g].parent =>
         folder[f].name # folder[g].name
  /\ \A x \in Files \ stray, f \in Folders \ stray :
       Live(file[x]) /\ Live(folder[f])
       /\ file[x].parent = folder[f].parent => file[x].name # folder[f].name

\* A folder and its mirror are in step, unless the mirror was deleted as if it
\* were a file: the pages list folders, but share links and archives go by the
\* mirror.
MirrorAgrees ==
  \A f \in Folders : mirror[f] # folder[f] => mirror[f] = None /\ f \in bare

\* A request will see to the object of x.
InCharge(p, x) == x \in h[p].left \/ (h[p].pc \in Copying /\ x = h[p].id)

\* storageUsed is what the rows take, the trash included, less one file for
\* each time a save inserted a deleted row again; and it is within the quota.
UsedExact ==
  /\ used + revivals = Cardinality({x \in Files : file[x] # None})
  /\ used <= Quota

\* Every file has its bytes, unless its row was inserted again after its
\* deletion: no rollback, retry or clean-up of a copy, and no late unlink,
\* takes the object of another row that stays.
RowsHaveObjects == \A x \in Files \ revived : file[x] # None => x \in obj

\* While nothing fails, an object without a row is one that a copy in progress
\* is about to give a row or to remove, or that a deletion is about to unlink.
NoOrphans ==
  faults = 0 =>
    \A x \in obj : file[x] # None \/ \E p \in Procs : InCharge(p, x)

\* A step that deletes a folder strands nothing that was in it: no row is moved
\* to the root by the foreign key because its folder went without it.
NothingStranded ==
  \A f \in Folders : folder[f] # None /\ folder'[f] = None =>
    /\ \A g \in Folders :
         folder[g] # None /\ folder[g].parent = f => folder'[g] = None
    /\ \A x \in Files :
         file[x] # None /\ file[x].parent = f => file'[x] = None

=============================================================================
