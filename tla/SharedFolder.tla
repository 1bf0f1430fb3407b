----------------------------- MODULE SharedFolder -----------------------------
(***************************************************************************)
(* A shared folder as its visitors see it: listings and archives of        *)
(* SharingService and SharingController (src/backend/src/sharing/), and    *)
(* the page that shows them (src/frontend/src/sharing/PublicSharePage.tsx).*)
(*                                                                         *)
(* A request finds the link in one query and reads the tree in another;    *)
(* meanwhile the owner edits the tree, revokes the link or is disabled,    *)
(* and the page moves on, leaving requests behind whose answers still      *)
(* come.  Passwords, slots and the download of one file are in ShareLinks; *)
(* that folders and their mirrors agree is FilesTree's.                    *)
(***************************************************************************)
EXTENDS Integers, FiniteSets, Sequences, SequencesExt

CONSTANTS Folders, Files,  \* ids, numbers
          Root,            \* the shared folder
          Starts,          \* the trees there can be at the beginning
          Names,
          Names0,          \* Names0: the names in their order, a sequence
          Limit,           \* children on a page
          MaxRequests,     \* bound: listings the page asks for
          MaxArchives,     \* bound: archives asked for
          MaxEdits         \* bound: the owner's edits

VARIABLES
  row,       \* the rows: parent (0 is the home), name, live
  active,    \* the link and its owner
  page,      \* what the page shows
  reqs,      \* listings under way, by number
  zips,      \* archives under way, by number
  slots,     \* download slots taken
  edits

vars == <<row, active, page, reqs, zips, slots, edits>>

Nodes == Folders \cup Files
Nothing == [at |-> 0, off |-> 0, items |-> <<>>, more |-> FALSE]

\* share: loaded, or not; trail: the folders opened below the shared one.
Page == [share |-> FALSE, trail |-> <<>>, off |-> 0, loading |-> TRUE,
         busy |-> FALSE, shown |-> Nothing]

Init ==
  /\ row \in Starts /\ active = TRUE
  /\ page = Page /\ reqs = <<>> /\ zips = <<>> /\ slots = 0 /\ edits = 0

-----------------------------------------------------------------------------
(* folderSubtreeSql *)

\* The folders from x up to the home, x among them.
Chain(x) ==
  LET up[k \in 0..Cardinality(Folders)] ==
        IF k = 0 THEN {x} \ {0}
        ELSE up[k - 1] \cup ({row[y].parent : y \in up[k - 1]} \ {0})
  IN up[Cardinality(Folders)]

Ancestors == Chain(Root)

Subtree ==
  LET down[k \in 0..Cardinality(Folders)] ==
        IF k = 0 THEN {x \in {Root} : \A y \in Ancestors : row[y].live}
        ELSE down[k - 1] \cup {x \in Folders :
               row[x].live /\ row[x].parent \in down[k - 1]}
  IN down[Cardinality(Folders)]

Children(x) == {n \in Nodes : row[n].live /\ row[n].parent = x}

Rank(name) == CHOOSE i \in DOMAIN Names0 : Names0[i] = name

\* ORDER BY kind DESC, name, id.
Before(m, n) ==
  IF (m \in Folders) # (n \in Folders) THEN m \in Folders
  ELSE IF row[m].name # row[n].name THEN Rank(row[m].name) < Rank(row[n].name)
  ELSE m < n

Ordered(x) == SetToSortSeq(Children(x), Before)

\* At most k elements, after the first off.
Slice(q, off, k) ==
  SubSeq(q, off + 1, IF Len(q) < off + k THEN Len(q) ELSE off + k)

\* Mutant: one row is asked for less.
FetchedAs(x, off) == Slice(Ordered(x), off, Limit)

\* LIMIT limit + 1 OFFSET offset.
Fetched(x, off) == Slice(Ordered(x), off, Limit + 1)

-----------------------------------------------------------------------------
(* The page *)

Here == IF page.trail = <<>> THEN Root ELSE Last(page.trail)
World == UNCHANGED <<row, active, edits>>
Server == UNCHANGED <<zips, slots>>

\* controller.abort(): nobody listens to them any more.
Aborted(rs) == [i \in DOMAIN rs |-> [rs[i] EXCEPT !.wanted = FALSE]]

Request(p) ==
  [at |-> IF p.trail = <<>> THEN Root ELSE Last(p.trail), off |-> p.off,
   pc |-> "find", wanted |-> TRUE, ok |-> FALSE, items |-> <<>>,
   more |-> FALSE]

\* The effect of the listing runs again.
List(p) ==
  /\ Len(reqs) < MaxRequests
  /\ page' = [p EXCEPT !.loading = TRUE, !.shown = Nothing]
  /\ reqs' = Append(Aborted(reqs), Request(p))

\* getPublicShare has been answered; a folder is listed at once.
Loaded ==
  /\ ~page.share /\ page.loading /\ World /\ Server
  /\ \/ active /\ List([page EXCEPT !.share = TRUE])
     \/ page' = [page EXCEPT !.loading = FALSE] /\ UNCHANGED reqs

\* "Retry": everything begins again; what is under way is aborted.
Retry ==
  /\ ~page.share /\ ~page.loading /\ World /\ Server
  /\ page' = Page /\ reqs' = Aborted(reqs)

Open(x) ==
  /\ ~page.loading /\ ~page.busy /\ x \in ToSet(page.shown.items) \cap Folders
  /\ List([page EXCEPT !.trail = Append(@, x), !.off = 0])
  /\ World /\ Server
Navigate(d) ==
  /\ page.share /\ ~page.loading /\ ~page.busy
  /\ List([page EXCEPT !.trail = SubSeq(@, 1, d), !.off = 0])
  /\ World /\ Server
NextPage ==
  /\ ~page.loading /\ ~page.busy /\ page.shown.more
  /\ List([page EXCEPT !.off = @ + Limit]) /\ World /\ Server
PreviousPage ==
  /\ ~page.loading /\ ~page.busy /\ page.shown # Nothing /\ page.off > 0
  /\ List([page EXCEPT !.off = @ - Limit]) /\ World /\ Server
\* An upload has committed, 1.5 seconds ago, or a listing is tried again.
Refresh == page.share /\ List(page) /\ World /\ Server

\* findShareByToken: the link and its owner; else the request is refused.
Find(i) ==
  /\ reqs[i].pc = "find" /\ World /\ Server /\ UNCHANGED page
  /\ reqs' = [reqs EXCEPT ![i].pc = IF active THEN "query" ELSE "answer"]

\* live_share.
LiveShare == active

\* Mutant: any folder may be asked for.
AllowedAs(x) == row[x].live /\ LiveShare

\* allowed_parent.
Allowed(x) == x \in Subtree /\ LiveShare

\* items.slice(0, limit).
Trimmed(got) == Slice(got, 0, Limit)

Query(i) ==
  LET r == reqs[i]
      got == Fetched(r.at, r.off)
  IN /\ r.pc = "query" /\ World /\ Server /\ UNCHANGED page
     /\ reqs' = [reqs EXCEPT ![i] =
          IF ~Allowed(r.at) THEN [r EXCEPT !.pc = "answer"]
          ELSE [r EXCEPT !.pc = "answer", !.ok = TRUE,
                  !.items = Trimmed(got),
                  !.more = Len(got) > Limit]]

\* An answer, or an error, arrives.
Answer(i) ==
  LET r == reqs[i] IN
  /\ r.pc = "answer" /\ World /\ Server
  /\ reqs' = [reqs EXCEPT ![i].pc = "done"]
  /\ page' = IF ~r.wanted THEN page
             ELSE [page EXCEPT !.loading = FALSE,
                    !.shown = IF r.ok
                              THEN [at |-> r.at, off |-> r.off,
                                    items |-> r.items, more |-> r.more]
                              ELSE Nothing]

-----------------------------------------------------------------------------
(* Archives *)

\* The download button; a probe precedes the form.
Download ==
  /\ page.share /\ ~page.busy /\ Len(zips) < MaxArchives
  /\ page' = [page EXCEPT !.busy = TRUE]
  /\ zips' = Append(zips, [pc |-> "probe", slot |-> 0, paths |-> <<>>,
                           left |-> {}, tree |-> <<>>])
  /\ World /\ UNCHANGED <<reqs, slots>>

\* getPublicShare; then the form is submitted.
Probe(i) ==
  /\ zips[i].pc = "probe" /\ World /\ UNCHANGED <<reqs, slots>>
  /\ page' = [page EXCEPT !.busy = FALSE]
  /\ zips' = [zips EXCEPT ![i].pc = IF active THEN "find" ELSE "refused"]

FindArchive(i) ==
  /\ zips[i].pc = "find" /\ World /\ UNCHANGED <<page, reqs, slots>>
  /\ zips' = [zips EXCEPT ![i].pc = IF active THEN "plan" ELSE "refused"]

\* listArchiveMembers: every live folder and file of the subtree.
Members == Subtree \cup UNION {Children(x) \cap Files : x \in Subtree}

\* The folders' paths, computed in the order of the rows.  They are sorted by
\* the length of their parents' paths, when only the root's is known: by
\* nothing.
PathsBy(order) ==
  LET paths[k \in 0..Len(order)] ==
        IF k = 0 THEN [x \in Folders |-> <<>>]
        ELSE IF order[k] = Root THEN paths[k - 1]
        ELSE [paths[k - 1] EXCEPT ![order[k]] =
                Append(paths[k - 1][row[order[k]].parent],
                       row[order[k]].name)]
  IN paths[Len(order)]

PathIn(paths, n) ==
  IF n \in Folders THEN paths[n]
  ELSE Append(paths[row[n].parent], row[n].name)

\* The plan before the admission is only for its errors, and has none: a
\* folder that left the share has no members.
PlanArchive(i) ==
  /\ zips[i].pc = "plan" /\ World /\ UNCHANGED <<page, reqs, slots>>
  /\ zips' = [zips EXCEPT ![i].pc = "admit"]

\* incrementFolderArchiveDownloadCount.
Admissible == active /\ \A x \in Ancestors : row[x].live

Admit(i) ==
  /\ zips[i].pc = "admit" /\ World /\ UNCHANGED <<page, reqs>>
  /\ IF Admissible
     THEN /\ zips' = [zips EXCEPT ![i].pc = "list", ![i].slot = 1]
          /\ slots' = slots + 1
     ELSE zips' = [zips EXCEPT ![i].pc = "refused"] /\ UNCHANGED slots

\* The members again, in whatever order the rows come.
ListArchive(i) ==
  /\ zips[i].pc = "list" /\ World /\ UNCHANGED <<page, reqs, slots>>
  /\ \E order \in SetToSeqs(Subtree) :
       LET paths == PathsBy(order) IN
       zips' = [zips EXCEPT ![i].pc = "stream", ![i].left = Members,
                  ![i].paths = [n \in Members |-> PathIn(paths, n)],
                  ![i].tree = [n \in Members |-> row[n]]]

\* Entries follow; a file that is gone, or a client, ends it.
Entries(i) ==
  /\ zips[i].pc = "stream" /\ World /\ UNCHANGED <<page, reqs, slots>>
  /\ \/ zips' = [zips EXCEPT ![i].pc = "whole", ![i].left = {}]
     \/ zips' = [zips EXCEPT ![i].pc = "refused"]

-----------------------------------------------------------------------------
(* The owner *)

Edit(n, r) ==
  /\ edits < MaxEdits /\ edits' = edits + 1 /\ row' = [row EXCEPT ![n] = r]
  /\ UNCHANGED <<active, page, reqs, zips, slots>>
Move(n, x) ==
  /\ row[n].live /\ x # row[n].parent /\ x # n /\ n # Root
  /\ n \notin Chain(x)
  /\ Edit(n, [row[n] EXCEPT !.parent = x])
Trash(n) == row[n].live /\ Edit(n, [row[n] EXCEPT !.live = FALSE])
Restore(n) == ~row[n].live /\ Edit(n, [row[n] EXCEPT !.live = TRUE])
Revoke ==
  /\ active /\ edits < MaxEdits /\ edits' = edits + 1 /\ active' = FALSE
  /\ UNCHANGED <<row, page, reqs, zips, slots>>

Visits ==
  \/ Loaded \/ Retry \/ NextPage \/ PreviousPage \/ Refresh \/ Download
  \/ \E x \in Folders : Open(x)
  \/ \E d \in DOMAIN page.trail \cup {0} : Navigate(d)

Next ==
  \/ Visits
  \/ \E i \in DOMAIN reqs : Find(i) \/ Query(i) \/ Answer(i)
  \/ \E i \in DOMAIN zips : Probe(i) \/ FindArchive(i) \/ PlanArchive(i)
                              \/ Admit(i) \/ ListArchive(i) \/ Entries(i)
  \/ \E n \in Nodes :
       Trash(n) \/ Restore(n) \/ \E x \in Folders \cup {0} : Move(n, x)
  \/ Revoke

Spec == Init /\ [][Next]_vars

-----------------------------------------------------------------------------
\* n is reached from the home through live folders only, by way of the
\* shared one: by parents, where the code goes by children.
Reached(n) == Root \in Chain(n) /\ \A x \in Chain(n) : row[x].live

\* A listing answers only with children of a folder that is reached from the
\* shared one, while the link and its owner are active.
InScope ==
  [][\A i \in DOMAIN reqs : ~reqs[i].ok /\ reqs'[i].ok =>
       active /\ Reached(reqs[i].at)
       /\ \A n \in ToSet(reqs'[i].items) :
            row[n].live /\ row[n].parent = reqs[i].at]_vars

\* What the page shows is a listing of the folder and the page it is on,
\* whatever answers come late.
ShowsWhereItIs ==
  page.shown # Nothing => page.shown.at = Here /\ page.shown.off = page.off

\* Undisturbed, a page shows its share of the folder, and more follows
\* exactly when there is more.
PagesComplete ==
  edits = 0 /\ page.shown # Nothing =>
    LET all == Ordered(page.shown.at) IN
    /\ page.shown.items = Slice(all, page.off, Limit)
    /\ page.shown.more = (Len(all) > page.off + Limit)

\* Undisturbed, an archive holds every live node below the folder, and the
\* folder.
ArchiveComplete ==
  \A i \in DOMAIN zips : edits = 0 /\ zips[i].pc = "whole" =>
    DOMAIN zips[i].paths = {n \in Nodes : Reached(n)}

=============================================================================
