------------------------------ MODULE MCSharing ------------------------------
(***************************************************************************)
(* Share links, the pages of a shared folder and the uploads into it, one  *)
(* at a time: `part` says which, and the others stay where they began.     *)
(***************************************************************************)
EXTENDS Sharing, TLC

CONSTANTS l1, l2, p1, p2, k1, t1, t2, a, b

VARIABLES part,
          node, active, page, reqs, zips, slots, edits  \* SharedFolder

links  == vars
folder == <<node, active, page, reqs, zips, slots, edits>>
mcvars == <<part, links, folder, uploads>>

\* 1 is shared and holds 2, 11 and 12.
Tree ==
  [n \in {1, 2, 11, 12} |->
     [parent |-> IF n = 1 THEN 0 ELSE 1,
      name   |-> IF n \in {2, 11} THEN b ELSE a, live |-> TRUE]]

Folder == INSTANCE SharedFolder WITH
  row <- node,
  Folders <- {1, 2}, Files <- {11, 12}, Root <- 1, Starts <- {Tree},
  Names <- {a, b}, Names0 <- <<a, b>>, Limit <- 2, MaxRequests <- 3,
  MaxArchives <- 1, MaxEdits <- 1

MCInit == part \in {"links", "folder", "uploads"}
          /\ Init /\ Folder!Init /\ U!Init

MCNext ==
  /\ part' = part
  /\ \/ part = "links" /\ Next /\ UNCHANGED <<folder, uploads>>
     \/ part = "folder" /\ Folder!Next /\ UNCHANGED <<links, uploads>>
     \/ part = "uploads" /\ U!Next /\ UNCHANGED <<links, folder>>

MCSpec == MCInit /\ [][MCNext]_mcvars

Alike == Permutations({p1, p2}) \cup Permutations({t1, t2})
-----------------------------------------------------------------------------
\* The page shows the listing it is on, and undisturbed its whole share of the
\* folder; an archive, undisturbed, holds every live node below it.
ShownWhole == /\ Folder!ShowsWhereItIs /\ Folder!PagesComplete
              /\ Folder!ArchiveComplete

\* After a revocation a link serves, makes and publishes nothing, whatever was
\* under way; before it, listings show and uploads reach only live folders
\* below the shared one, and a repeated request is answered only while its
\* result is still there.
ScopeKept == /\ RevokedForGood /\ U!RevokedMakesNothing
             /\ Folder!InScope /\ U!LandsInside
             /\ U!AnsweredInPlace
=============================================================================
