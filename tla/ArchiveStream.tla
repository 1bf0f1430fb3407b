---------------------------- MODULE ArchiveStream ----------------------------
(***************************************************************************)
(* ZIP downloads of a selection: plan, preflight, stream and revalidation  *)
(* of ArchiveDownloadsService (src/backend/src/files/                      *)
(* archive-downloads.service.ts) and the ZIP engine of                     *)
(* src/backend/src/common/archive-stream.ts.                               *)
(*                                                                         *)
(* Every query is a step of its own, and between two of them the owner     *)
(* moves, renames, trashes, restores, deletes and adds.  An archive is     *)
(* planned when it is prepared, planned again when it is fetched, and each *)
(* entry is looked at before and after its file is opened.  The loop over  *)
(* the entries and the promise its caller awaits settle independently.     *)
(* How a fetch is authorized is in Downloads.                              *)
(***************************************************************************)
EXTENDS Integers, FiniteSets, Sequences, Functions

CONSTANTS Streams,     \* requests for an archive
          Folders,     \* ids of folders, numbers
          Files,       \* ids of files, numbers
          Starts,      \* the trees there can be at the beginning
          Empty,       \* files without bytes
          Names,
          Selections,  \* the sequences of ids that can be selected
          StreamLimit, \* activeStreams
          MaxEdits     \* bound: edits of the tree

VARIABLES
  row,     \* the rows: parent (0 is the home), name, state
  object,  \* files whose object is on disk
  active,  \* activeStreams
  s,       \* the requests
  edits

vars == <<row, object, active, s, edits>>

Nodes == Folders \cup Files
Labels == {"idle", "look", "above", "tree", "leaves", "flight", "ready",
           "before", "before2", "after", "after2", "append", "body", "final",
           "end"}

Fresh ==
  [pc |-> "idle", sel |-> <<>>, get |-> FALSE, i |-> 1, got |-> <<>>,
   todo |-> {}, snap |-> <<>>, m |-> {}, orig |-> {}, at |-> 0, on |-> FALSE,
   settled |-> "no", fd |-> "none", sent |-> {}, own |-> FALSE,
   chain |-> FALSE]

Init ==
  /\ row \in Starts /\ object = {f \in Files : row[f].st # "absent"}
  /\ active = 0 /\ edits = 0
  /\ s = [p \in Streams |-> Fresh]

-----------------------------------------------------------------------------
(* Queries *)

\* The folders from x up to the home, x among them.
Above(x) ==
  LET up[k \in 0..Cardinality(Folders)] ==
        IF k = 0 THEN {x} \ {0}
        ELSE up[k - 1] \cup ({row[y].parent : y \in up[k - 1]} \ {0})
  IN up[Cardinality(Folders)]

\* ancestors(): all of them are there, live and mirrored.
Reaches(x) == \A y \in Above(x) : row[y].st = "live"

\* The live folders from x down through live ones.
Below(x) ==
  LET down[k \in 0..Cardinality(Folders)] ==
        IF k = 0 THEN {y \in {x} : row[y].st = "live"}
        ELSE down[k - 1] \cup {y \in Folders :
               row[y].st = "live" /\ row[y].parent \in down[k - 1]}
  IN down[Cardinality(Folders)]

Leaves(F) == {f \in Files : row[f].st = "live" /\ row[f].parent \in F}

-----------------------------------------------------------------------------
(* The plan *)

Entry(n, r, path) ==
  [n |-> n, parent |-> r.parent, name |-> r.name, path |-> path]
Listed(m) == {e.n : e \in m}
Tops(m) == {e.path[1] : e \in m}

\* reserveRootName: a name taken by another root gets a number.
Top(name, m) == IF <<name, 1>> \in Tops(m) THEN <<name, 2>> ELSE <<name, 1>>

\* add(): what is listed already is not added again.
Added(m, E) == m \cup {e \in E : e.n \notin Listed(m)}

\* validateManifest: two members have one path.
Collide(m) == \E d, e \in m : d # e /\ d.path = e.path

At(p, l) == s[p].pc = l
Set(p, r) == s' = [s EXCEPT ![p] = r]
Db == UNCHANGED <<row, object, edits>>

\* checkAbort, and the end of a stream whose destination is closed.
Aborted(r) == r.get /\ ~r.on

\* The finally of stream().
Released(r) == IF r.get /\ r.settled = "no" THEN active - 1 ELSE active

\* The request fails before the ZIP engine runs.
Fail(p) ==
  /\ Set(p, [s[p] EXCEPT !.pc = "end", !.settled = "error"])
  /\ active' = Released(s[p])

Keep(p, r) == Set(p, r) /\ UNCHANGED active

RootFolders(r) == {i \in DOMAIN r.sel : r.sel[i] \in Folders}

\* All roots have been looked at, or the next one is.
Looked(p, r) ==
  IF r.i < Len(r.sel) THEN Keep(p, [r EXCEPT !.i = @ + 1, !.pc = "look"])
  ELSE Keep(p, [r EXCEPT !.i = 0, !.todo = RootFolders(r), !.pc = "tree"])

\* A folder root with its ancestors, or the row of a file root.
Look(p) ==
  LET r == s[p]
      n == r.sel[r.i]
      k == [r EXCEPT !.got = Append(@, [row |-> row[n],
                               depth |-> IF n \in Folders
                                         THEN Cardinality(Above(n)) ELSE 0])]
  IN /\ At(p, "look") /\ Db
     /\ IF Aborted(r) \/ row[n].st # "live" \/ (n \in Folders /\ ~Reaches(n))
        THEN Fail(p)
        ELSE IF n \in Folders THEN Looked(p, k)
        ELSE Keep(p, [k EXCEPT !.pc = "above"])

\* The ancestors of a file root.
LookAbove(p) ==
  LET r == s[p] IN
  /\ At(p, "above") /\ Db
  /\ IF Aborted(r) \/ ~Reaches(r.got[r.i].row.parent) THEN Fail(p)
     ELSE Looked(p, r)

\* Folder roots are planned by depth, ancestors first.
NextRoot(r) ==
  CHOOSE i \in r.todo : \A j \in r.todo :
    \/ r.got[i].depth < r.got[j].depth
    \/ r.got[i].depth = r.got[j].depth /\ r.sel[i] <= r.sel[j]

\* The file roots come last; then the manifest is checked.
WithFiles(r) ==
  LET add[i \in 0..Len(r.sel)] ==
        IF i = 0 THEN r.m
        ELSE LET n == r.sel[i] IN
             IF n \in Folders \/ n \in Listed(add[i - 1]) THEN add[i - 1]
             ELSE add[i - 1] \cup {Entry(n, r.got[i].row,
                        <<Top(r.got[i].row.name, add[i - 1])>>)}
  IN add[Len(r.sel)]

FilesOf(m) == Listed(m) \cap Files

\* Mutant: the manifest of the fetch is not compared.
SameAs(r, m) == TRUE

\* A fetch finds what was prepared.
Same(r, m) == r.get => m = r.orig

\* The plan is complete.
Planned(p, r) ==
  LET m == WithFiles(r) IN
  IF Collide(m) \/ ~Same(r, m) THEN Fail(p)
  ELSE Keep(p, [r EXCEPT !.pc = "flight", !.m = m, !.todo = FilesOf(m),
                         !.snap = <<>>, !.got = <<>>])

\* The folders below the next root, unless a root before it had them.
Tree(p) ==
  LET r == s[p] IN
  /\ At(p, "tree") /\ Db
  /\ IF Aborted(r) THEN Fail(p)
     ELSE IF r.todo = {} THEN Planned(p, r)
     ELSE LET i == NextRoot(r)
              n == r.sel[i]
              F == Below(n)
          IN IF n \in Listed(r.m)
             THEN Keep(p, [r EXCEPT !.todo = @ \ {i}])
             ELSE IF F = {} THEN Fail(p)
             ELSE Keep(p, [r EXCEPT !.i = i, !.todo = @ \ {i},
                             !.snap = [x \in F |-> row[x]],
                             !.pc = "leaves"])

\* The files in them, and the paths of both.
LeavesOf(p) ==
  LET r == s[p]
      n == r.sel[r.i]
      F == DOMAIN r.snap
      path[x \in F] ==
        IF x = n THEN <<Top(r.got[r.i].row.name, r.m)>>
        ELSE Append(path[r.snap[x].parent], <<r.snap[x].name, 1>>)
      E == {Entry(x, r.snap[x], path[x]) : x \in F} \cup
           {Entry(f, row[f], Append(path[row[f].parent], <<row[f].name, 1>>))
              : f \in Leaves(F)}
  IN /\ At(p, "leaves") /\ Db
     /\ IF Aborted(r) THEN Fail(p)
        ELSE Keep(p, [r EXCEPT !.pc = "tree", !.m = Added(@, E),
                               !.snap = <<>>])

\* preflight: each file is opened and closed again.  A prepared archive
\* waits for its fetch, a fetched one is streamed.
Flight(p) ==
  LET r == s[p] IN
  /\ At(p, "flight") /\ Db
  /\ IF Aborted(r) THEN Fail(p)
     ELSE IF r.todo # {}
     THEN LET f == CHOOSE f \in r.todo : \A g \in r.todo : f <= g IN
          IF f \in object THEN Keep(p, [r EXCEPT !.todo = @ \ {f}])
          ELSE Fail(p)
     ELSE IF r.get
     THEN Keep(p, [r EXCEPT !.pc = "before", !.todo = r.m])
     ELSE Keep(p, [Fresh EXCEPT !.pc = "ready", !.orig = r.m, !.sel = r.sel])

\* A selection is prepared.
Prepare(p) ==
  /\ At(p, "idle") /\ Db
  /\ \E sel \in Selections :
       Keep(p, [Fresh EXCEPT !.pc = "look", !.sel = sel])

\* Two archives are streamed at once.
Room == active < StreamLimit

\* It is fetched.
Get(p) ==
  /\ At(p, "ready") /\ Db
  /\ IF ~Room
     THEN Keep(p, [s[p] EXCEPT !.pc = "end", !.settled = "error"])
     ELSE /\ Set(p, [Fresh EXCEPT !.pc = "look", !.get = TRUE, !.on = TRUE,
                                  !.orig = s[p].orig, !.sel = s[p].sel])
          /\ active' = active + 1

-----------------------------------------------------------------------------
(* The ZIP engine *)

\* finish(): stream and pending descriptor are closed.
Closed(r) == "none"

\* Mutant: the loop ends without a finish.
BreakAs(p) == Set(p, [s[p] EXCEPT !.pc = "end"]) /\ UNCHANGED active

\* finish(err) from the loop, then the loop ends.
Break(p) ==
  LET r == s[p] IN
  /\ Set(p, [r EXCEPT !.pc = "end", !.fd = Closed(r),
               !.settled = IF @ = "no" THEN "error" ELSE @])
  /\ active' = Released(r)

\* The loop sees that it was cancelled.
Over(r) == r.settled # "no"
Stop(p) == Keep(p, [s[p] EXCEPT !.pc = "end"])

\* The next entry: folders before files, a folder before what it holds.
First(e, d) ==
  \/ e.n \in Folders /\ d.n \in Files
  \/ /\ (e.n \in Folders) = (d.n \in Folders)
     /\ IF e.n \in Folders /\ Len(e.path) # Len(d.path)
        THEN Len(e.path) < Len(d.path) ELSE e.n <= d.n
Current(r) == CHOOSE e \in r.todo : \A d \in r.todo : First(e, d)

\* revalidateEntry: the row is what the manifest says, and still reachable.
Unchanged(e) ==
  /\ row[e.n].st = "live" /\ row[e.n].parent = e.parent
  /\ row[e.n].name = e.name

\* beforeEntry.
Before(p) ==
  LET r == s[p]
      e == Current(r)
  IN /\ At(p, "before") /\ Db
     /\ IF Over(r) THEN Stop(p)
        ELSE IF r.todo = {} THEN Keep(p, [r EXCEPT !.pc = "final"])
        ELSE IF ~Unchanged(e) \/ (e.n \in Folders /\ ~Reaches(e.n))
        THEN Break(p)
        ELSE IF e.n \in Folders THEN Keep(p, [r EXCEPT !.pc = "append"])
        ELSE Keep(p, [r EXCEPT !.pc = "before2"])

\* What has been true of the file since it was opened, for SentLive.
Witness(r, rows, f) ==
  [r EXCEPT !.own = @ \/ rows[f].st = "live",
            !.chain = @ \/ Reaches(rows[f].parent)]

\* The file's ancestors; then, in the same turn, the file is opened.
Open(p) ==
  LET r == s[p]
      e == Current(r)
  IN /\ At(p, "before2") /\ Db
     /\ IF ~Reaches(e.parent) THEN Break(p)
        ELSE IF Over(r) THEN Stop(p)
        ELSE IF e.n \notin object THEN Break(p)
        ELSE Keep(p, Witness([r EXCEPT !.pc = "after", !.fd = "pending",
                               !.own = FALSE, !.chain = FALSE], row, e.n))

\* Mutant: only the ancestors are looked at again.
AfterAs(p) ==
  At(p, "after") /\ Db /\ Keep(p, [s[p] EXCEPT !.pc = "after2"])

\* afterOpen: the row once more.
After(p) ==
  LET e == Current(s[p]) IN
  /\ At(p, "after") /\ Db
  /\ IF Unchanged(e) THEN Keep(p, [s[p] EXCEPT !.pc = "after2"])
     ELSE Break(p)

\* Its ancestors, too; then a stream takes the file over, an empty
\* one is closed at once.
After2(p) ==
  LET r == s[p]
      e == Current(r)
  IN /\ At(p, "after2") /\ Db
     /\ IF ~Reaches(e.parent) THEN Break(p)
        ELSE IF Over(r) THEN Stop(p)
        ELSE IF e.n \in Empty
        THEN Keep(p, [r EXCEPT !.pc = "append", !.fd = "none"])
        ELSE Keep(p, [r EXCEPT !.pc = "body", !.fd = "stream"])

\* The archive reports the entry, or an error; a closed response ends the
\* wait, too.
Append1(p) ==
  LET r == s[p]
      e == Current(r)
      k == [r EXCEPT !.pc = "before", !.todo = @ \ {e}, !.fd = "none"]
  IN /\ r.pc \in {"append", "body"} /\ Db
     /\ \/ Over(r) /\ Stop(p)
        \/ ~Over(r) /\ Keep(p, [k EXCEPT !.sent = @ \cup {e}])
        \/ ~Over(r) /\ Break(p)

\* finalize(), and "end".
Finish(p) ==
  LET r == s[p] IN
  /\ At(p, "final") /\ Db
  /\ \/ Over(r) /\ Stop(p)
     \/ /\ ~Over(r) /\ active' = Released(r)
        /\ Set(p, [r EXCEPT !.pc = "end", !.settled = "whole"])

\* The response closes: the client goes, 120 seconds without progress, four
\* hours.
Close(p) ==
  LET r == s[p]
      engine == r.pc \in {"before", "before2", "after", "after2", "append",
                          "body", "final"}
  IN /\ r.get /\ r.on /\ r.pc # "end" /\ Db
     /\ IF engine /\ r.settled = "no"
        THEN /\ Set(p, [r EXCEPT !.on = FALSE, !.settled = "closed",
                                 !.fd = Closed(r)])
             /\ active' = Released(r)
        ELSE Keep(p, [r EXCEPT !.on = FALSE])

-----------------------------------------------------------------------------
(* The owner *)

Watched(rows) ==
  [p \in Streams |->
     IF s[p].fd = "pending"
     THEN LET f == Current(s[p]).n IN
          [s[p] EXCEPT !.own = @ \/ rows[f].st = "live",
             !.chain = @ \/ \A y \in Above(rows[f].parent) :
                              rows[y].st = "live"]
     ELSE s[p]]

Edit(n, r) ==
  /\ edits < MaxEdits /\ edits' = edits + 1
  /\ row' = [row EXCEPT ![n] = r]
  /\ s' = Watched(row') /\ UNCHANGED active

Move(n, x) ==
  /\ row[n].st = "live" /\ x # row[n].parent /\ x \in Folders \cup {0}
  /\ n \in Folders => n \notin Above(x)
  /\ Reaches(x) /\ Edit(n, [row[n] EXCEPT !.parent = x])
  /\ UNCHANGED object
Rename(n, name) ==
  /\ row[n].st = "live" /\ name # row[n].name
  /\ Edit(n, [row[n] EXCEPT !.name = name]) /\ UNCHANGED object
Trash(n) ==
  row[n].st = "live" /\ Edit(n, [row[n] EXCEPT !.st = "dead"])
    /\ UNCHANGED object
Restore(n) ==
  row[n].st = "dead" /\ Edit(n, [row[n] EXCEPT !.st = "live"])
    /\ UNCHANGED object
Delete(f) ==
  /\ row[f].st = "dead" /\ Edit(f, [row[f] EXCEPT !.st = "absent"])
  /\ object' = object \ {f}
Upload(f) ==
  /\ row[f].st = "absent" /\ f \notin object
  /\ Edit(f, [row[f] EXCEPT !.st = "live"]) /\ object' = object \cup {f}

Plan(p) ==
  Look(p) \/ LookAbove(p) \/ Tree(p) \/ LeavesOf(p) \/ Flight(p)
Engine(p) ==
  Before(p) \/ Open(p) \/ After(p) \/ After2(p) \/ Append1(p) \/ Finish(p)

Next ==
  \/ \E p \in Streams : Prepare(p) \/ Plan(p) \/ Get(p) \/ Engine(p) \/ Close(p)
  \/ \E n \in Nodes :
       \/ \E x \in Folders \cup {0} : Move(n, x)
       \/ \E name \in Names : Rename(n, name)
       \/ Trash(n) \/ Restore(n)
  \/ \E f \in Files : Delete(f) \/ Upload(f)

Spec == Init /\ [][Next]_vars

\* Queries are answered, and a response that makes no progress is closed.
FairSpec ==
  Spec /\ \A p \in Streams : WF_vars(Plan(p)) /\ WF_vars(Engine(p))

-----------------------------------------------------------------------------
\* The counter of streams is the number of requests that have not settled.
StreamsCounted ==
  active = Cardinality({p \in Streams : s[p].get /\ s[p].settled = "no"})

\* Once the caller's promise has settled no file is open, though the loop
\* may still be waiting for a query.
NothingOpen == \A p \in Streams : s[p].settled # "no" => s[p].fd = "none"

\* An archive that ends well holds what was prepared, all of it, whatever
\* was edited meanwhile.
WholeSelection ==
  \A p \in Streams : s[p].settled = "whole" => s[p].sent = s[p].orig

\* No two entries of an archive have one path.
UniqueEntries ==
  \A p \in Streams : \A d, e \in s[p].sent : d.path = e.path => d = e

\* A file that goes into the archive was live, and was reachable, at some
\* time after it was opened: one trashed before is never sent.
SentLive ==
  \A p \in Streams : At(p, "after2") /\ s'[p].pc \in {"append", "body"} =>
    s[p].own /\ s[p].chain

\* Undisturbed, the plan is the selection: everything below the selected
\* folders and the selected files, once, each below its folder if that is
\* part of it.
PlansSelection ==
  \A p \in Streams : edits = 0 /\ At(p, "flight") =>
    LET m == s[p].m
        chosen == Range(s[p].sel)
        F == UNION {Below(n) : n \in chosen \cap Folders}
    IN /\ Listed(m) = F \cup Leaves(F) \cup (chosen \cap Files)
       /\ Cardinality(m) = Cardinality(Listed(m))
       /\ \A e \in m :
            IF e.parent \in F
            THEN \E d \in m : d.n = e.parent
                              /\ e.path = Append(d.path, <<e.name, 1>>)
            ELSE Len(e.path) = 1 /\ e.path[1][1] = e.name

\* A fetch comes to an end.
StreamsEnd == \A p \in Streams : s[p].get ~> s[p].settled # "no"
=============================================================================
