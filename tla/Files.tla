-------------------------------- MODULE Files --------------------------------
(***************************************************************************)
(* The files of an owner, as FilesTree has them, in four mixtures of       *)
(* requests, told apart by `part`, which no step changes: two that move    *)
(* and delete folders, one that trashes and restores, two that copy and    *)
(* delete, and two that trash files while others restore and delete them.  *)
(***************************************************************************)
EXTENDS FilesTree, TLC

CONSTANT MaxRevivals   \* bound: deleted rows that a save inserts again

VARIABLE part

mcvars == <<vars, part>>

Trash == INSTANCE FilesTree WITH
  Requests <- {"createFolder", "upload", "placeFile", "removeFile",
               "removeFolder", "restoreFile", "restoreFolder", "moveFolder",
               "deleteFile", "emptyTrash"}

Deletes == INSTANCE FilesTree WITH
  Quota <- 1, MaxFaults <- 1,
  Requests <- {"createFolder", "upload", "copyFile", "removeFile",
               "removeFolder", "deleteFile", "deleteFolder", "emptyTrash"}

Stale == INSTANCE FilesTree WITH
  Requests <- {"upload", "placeFile", "removeFile", "restoreFile",
               "deleteFile", "emptyTrash"}

\* For TLC: no more folders and files, and no more requests at once.
Few(folders, files, requests) ==
  /\ Cardinality(drawn' \cap Folders) <= folders
  /\ Cardinality(drawn' \cap Files) <= files
  /\ Cardinality({p \in Procs : h'[p].pc # "idle"}) <= requests
  /\ revivals' <= MaxRevivals

MCInit == part \in {"moves", "trash", "deletes", "stale"} /\ Init

MCNext == /\ part' = part
          /\ \/ part = "moves" /\ Next /\ Few(3, 1, 2)
             \/ part = "trash" /\ Trash!Next /\ Few(2, 1, 1)
             \/ part = "deletes" /\ Deletes!Next /\ Few(1, 2, 2)
             \/ part = "stale" /\ Stale!Next /\ Few(0, 2, 2)

MCSpec == MCInit /\ [][MCNext]_mcvars

Alike == Permutations(Procs) \cup Permutations(Folders)
         \cup Permutations(Files) \cup Permutations(Names)
-----------------------------------------------------------------------------
\* No folder is below itself, live items of one place have different names, but
\* for those no allocation placed, and each folder is in step with its mirror,
\* unless that was deleted as a file: whatever is created, moved, trashed,
\* restored and deleted at once.
TreeSound == Forest /\ UniqueNames /\ MirrorAgrees

\* storageUsed is what the rows take and every row has its bytes, but for those
\* a save inserted again, and bytes without a row belong to a request under way:
\* also while files are trashed, restored and deleted at once.
BytesAccounted == UsedExact /\ RowsHaveObjects /\ NoOrphans

\* Deleting a folder strands nothing that was in it.
NothingIsStranded == [][NothingStranded]_vars
=============================================================================
