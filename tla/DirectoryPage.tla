---------------------------- MODULE DirectoryPage ----------------------------
(***************************************************************************)
(* "My files" in the browser: the page that shows the folder named by the  *)
(* address, its table, dialogs and uploads (FileBrowserPage.tsx), against  *)
(* a server whose tree other tabs change too.                              *)
(*                                                                         *)
(* Every handler of the page is an action and every await separates two.   *)
(* React runs an effect after the render that made it due, so a late       *)
(* answer can still be handled between a change of the address or of the   *)
(* reload key and the effect that supersedes it: "due" is that interval.   *)
(* A component that is off the screen learns of it by an effect as well.   *)
(***************************************************************************)
EXTENDS Integers, FiniteSets, Sequences, SequencesExt

CONSTANTS
  Files, Dirs,      \* identifiers of files and of folders
  Root,             \* the address without a folder
  Bad,              \* an address that is not a folder identifier
  Trash,            \* where a deleted item is
  None,
  Start,            \* where every item is at first (None: not created yet)
  Kinds,            \* the operations the user asks for
  MaxVisits,        \* bound: navigations
  MaxGen,           \* bound: loads of the listing
  MaxOps,           \* bound: operations of the user
  MaxOther,         \* bound: changes made by another tab
  MaxFaults         \* bound: requests that fail

Items == Files \union Dirs
Places == {Root} \union Dirs
NoTable == [id |-> 0, folder |-> None, sel |-> {}, prune |-> FALSE,
            busy |-> FALSE, dialog |-> None]

VARIABLES
  at,      \* where the server has each item
  addr,    \* the folder in the address, and
  trail,   \*   the crumbs handed over with it (location.state)
  visit,   \* how often the address changed
  page,    \* what the page shows
  gen,     \* requestGeneration
  due,     \* the loading effect has yet to run
  loads,   \* loads whose answer has not been handled
  tab,     \* the mounted table: selection, pending lock, dialog
  ops,     \* operations whose answer has not been handled
  walk,    \* the search for destination folders of the open dialog
  spent,   \* operations, changes elsewhere and faults so far
  mine,    \* items this page changed last, and
  known,   \*   those whose change it was told of
  moved    \* some folder changed its place

vars == <<at, addr, trail, visit, page, gen, due, loads, tab, ops, walk,
          spent, mine, known, moved>>
server == <<at, mine, known, moved>>

Live(d) == d = Root \/ at[d] \notin {None, Trash}
Listed(f) == {i \in Items : at[i] = f}

Path(f) ==    \* the folders from the top to f
  LET p[n \in 0 .. Cardinality(Dirs), d \in Places] ==
        IF d = Root \/ n = 0 THEN <<>>
        ELSE Append(p[n - 1, IF Live(d) THEN at[d] ELSE Root], d)
  IN p[Cardinality(Dirs), f]
Under(d) ==    \* the folder and everything below it
  {d} \union {i \in Items : Live(i) /\ d \in ToSet(Path(at[i]))}

----------------------------------------------------------------------------
(* What is rendered.                                                       *)

Ready(pg) == pg.status = "ready"

\* parseFolderId: null for the root, and for an address that is no folder.
FolderId(a) == IF a = Bad THEN Root ELSE a

Shown(pg, a) == Ready(pg) /\ pg.folder = FolderId(a)

Pruned(t) == t.sel \intersect page.shown

(* The table is keyed by its folder: it is kept while the page shows that  *)
(* folder and is new otherwise.                                            *)
Render(pg, a, t) ==
  IF ~Shown(pg, a) THEN [NoTable EXCEPT !.id = t.id]
  ELSE IF t.folder = pg.folder
       THEN [t EXCEPT !.prune = @ \/ pg.shown # page.shown]
  ELSE [NoTable EXCEPT !.id = t.id + 1, !.folder = pg.folder]

\* A dialog goes with its table.
WalkOf(t) == IF t.id = tab.id /\ t.folder # None THEN walk ELSE None

Mounted == tab.folder # None
Crumbs == IF Shown(page, addr) THEN page.crumbs ELSE trail

Init ==
  /\ at = Start
  /\ addr = Root /\ trail = <<>> /\ visit = 0
  /\ page = [status |-> "loading", folder |-> None, shown |-> {},
             crumbs |-> <<>>, warn |-> FALSE]
  /\ gen = 0 /\ due = TRUE /\ loads = {}
  /\ tab = NoTable /\ ops = {} /\ walk = None
  /\ spent = [op |-> 0, other |-> 0, fault |-> 0]
  /\ mine = {} /\ known = {} /\ moved = FALSE

----------------------------------------------------------------------------
(* Loading the folder of the address.                                      *)

\* Navigation to a folder, with or without the crumbs of the way there.
Go(a, t) ==
  /\ visit < MaxVisits /\ addr # a
  /\ addr' = a /\ trail' = t /\ visit' = visit + 1 /\ due' = TRUE
  /\ tab' = Render(page, a, tab)
  /\ walk' = WalkOf(tab')
  /\ UNCHANGED <<page, gen, loads, ops, spent, server>>

OpenFolder(d) ==
  /\ Mounted /\ d \in page.shown \intersect Dirs
  /\ Go(d, Append(Crumbs, d))

FollowCrumb(n) ==
  /\ n \in 0 .. Len(Crumbs) - 1
  /\ Go(IF n = 0 THEN Root ELSE Crumbs[n], SubSeq(Crumbs, 1, n))

TypeAddress(a) == Go(a, <<>>)

Settling(pg) == [pg EXCEPT !.status = "loading", !.folder = None,
                           !.shown = {}, !.crumbs = <<>>, !.warn = FALSE]
Failed(pg, s) == [Settling(pg) EXCEPT !.status = s]

NewLoad ==
  LET known_way == addr # Root /\ trail # <<>> /\ Last(trail) = addr IN
  [gen |-> gen + 1, aborted |-> FALSE, folder |-> addr,
   pc |-> IF addr = Root THEN "list" ELSE "folder",
   via |-> IF known_way THEN trail ELSE <<>>,
   next |-> addr, back |-> <<>>,
   left |-> {"folders", "files"}, seen |-> {}]

\* An aborted request is rejected unless its answer is already here.
Aborted ==
  {[l EXCEPT !.aborted = TRUE] : l \in {k \in loads : k.pc = "answered"}}

(* Effects of what left the screen: mounted.current is cleared.            *)
OnScreen(o) == IF o.kind = "create" THEN o.visit = visit
               ELSE Mounted /\ tab.id = o.tab
Unmounted ==
  {[o EXCEPT !.mounted = @ /\ (o.kind = "upload" \/ OnScreen(o))] : o \in ops}

Unmount ==
  /\ ~due /\ Unmounted # ops /\ ops' = Unmounted
  /\ UNCHANGED <<addr, trail, visit, page, gen, due, loads, tab, walk, spent,
                 server>>

RunEffect ==
  /\ due /\ (addr = Bad \/ gen < MaxGen)
  /\ due' = FALSE
  /\ IF addr = Bad
     THEN page' = Failed(page, "error") /\ loads' = Aborted
          /\ UNCHANGED gen
     ELSE /\ gen' = gen + 1
          /\ page' = IF Shown(page, addr) THEN page ELSE Settling(page)
          /\ loads' = Aborted \union {NewLoad}
  /\ tab' = Render(page', addr, tab) /\ walk' = WalkOf(tab')
  /\ ops' = Unmounted
  /\ UNCHANGED <<addr, trail, visit, spent, server>>

Put(l, k) == loads' = (loads \ {l}) \union {k}
LoadOnly ==
  UNCHANGED <<addr, trail, visit, page, gen, due, tab, ops, walk, server>>

Climb(l) == <<l.next>> \o l.back

(* GET of one folder: of the one shown when its crumbs came along, of it   *)
(* and each ancestor otherwise.                                            *)
AskFolder(l) ==
  /\ l \in loads /\ ~l.aborted /\ l.pc = "folder"
  /\ LET back == Climb(l)
         up == at[l.next]
     IN Put(l,
          IF ~Live(l.next) THEN [l EXCEPT !.pc = "missing"]
          ELSE IF l.via # <<>> THEN [l EXCEPT !.back = l.via, !.pc = "list"]
          ELSE IF up = Root THEN [l EXCEPT !.back = back, !.pc = "list"]
          ELSE IF up \in ToSet(back) THEN [l EXCEPT !.pc = "failed"]
          ELSE [l EXCEPT !.back = back, !.next = up])
  /\ UNCHANGED spent /\ LoadOnly

\* The two lists of a folder are two requests, answered in either order.
AskList(l, part) ==
  /\ l \in loads /\ ~l.aborted /\ l.pc = "list" /\ part \in l.left
  /\ LET part_of == IF part = "files" THEN Files ELSE Dirs
         left == l.left \ {part}
     IN Put(l, [l EXCEPT !.left = left,
                         !.seen = @ \union (Listed(l.folder)
                                            \intersect part_of),
                         !.pc = IF left = {} THEN "answered" ELSE "list"])
  /\ UNCHANGED spent /\ LoadOnly

LoadFault(l) ==
  /\ l \in loads /\ ~l.aborted /\ l.pc \in {"folder", "list"}
  /\ spent.fault < MaxFaults
  /\ spent' = [spent EXCEPT !.fault = @ + 1]
  /\ Put(l, [l EXCEPT !.pc = "failed"]) /\ LoadOnly

\* Mutant: an answer is taken whichever request it belongs to.
CurrentAs(l) == TRUE
Current(l) == l.gen = gen /\ ~l.aborted

Fresh(l) == Current(l)

Deliver(l) ==
  /\ l \in loads /\ l.pc \in {"answered", "missing", "failed"}
  /\ loads' = loads \ {l}
  /\ page' =
       IF ~Fresh(l) THEN page
       ELSE CASE l.pc = "answered" ->
                   [status |-> "ready", folder |-> l.folder,
                    shown |-> l.seen, crumbs |-> l.back, warn |-> FALSE]
              [] l.pc = "missing" -> Failed(page, "not-found")
              [] OTHER -> IF Shown(page, l.folder)
                          THEN [page EXCEPT !.warn = TRUE]
                          ELSE Failed(page, "error")
  /\ tab' = Render(page', addr, tab)
  /\ walk' = WalkOf(tab')
  /\ UNCHANGED <<addr, trail, visit, gen, due, ops, spent, server>>

\* "Retry" of an error or a warning, and a change of the page's revision.
Retry ==
  /\ page.status = "error" \/ page.warn
  /\ ~due /\ addr # Bad /\ gen < MaxGen
  /\ due' = TRUE
  /\ UNCHANGED <<addr, trail, visit, page, gen, loads, tab, ops, walk,
                 spent, server>>

----------------------------------------------------------------------------
(* The table: selection, dialogs and operations.                           *)

TableOnly ==
  UNCHANGED <<addr, trail, visit, page, gen, due, loads, server>>

Prune ==
  /\ Mounted /\ tab.prune
  /\ tab' = [tab EXCEPT !.sel = Pruned(tab), !.prune = FALSE]
  /\ UNCHANGED <<ops, walk, spent>> /\ TableOnly

Select(i) ==
  /\ Mounted /\ "bulk" \in Kinds /\ i \in page.shown
  /\ tab' = [tab EXCEPT !.sel =
                IF i \in @ THEN @ \ {i} ELSE @ \union {i}]
  /\ UNCHANGED <<ops, walk, spent>> /\ TableOnly

Op(kind, i, dest, todo) ==
  [tab |-> tab.id, visit |-> visit, folder |-> tab.folder, kind |-> kind,
   item |-> i, dest |-> dest, todo |-> todo, pc |-> "sent",
   mounted |-> TRUE, late |-> FALSE]
Spend(what) == spent' = [spent EXCEPT ![what] = @ + 1]

\* trashSelection: the targets are those selected now, one after another.
TrashSelection(i) ==
  /\ Mounted /\ ~tab.busy /\ i \in tab.sel /\ spent.op < MaxOps
  /\ tab' = [tab EXCEPT !.busy = TRUE]
  /\ ops' = ops \union {Op("bulk", i, None, tab.sel)}
  /\ Spend("op")
  /\ UNCHANGED walk /\ TableOnly

NewWalk(kind, i) ==
  [skip |-> IF kind = "move" /\ i \in Dirs THEN i ELSE None,
   todo |-> <<Root>>, done |-> {}, options |-> {},
   still |-> TRUE, pc |-> "walking"]

OpenDialog(kind, i) ==
  /\ Mounted /\ ~tab.busy /\ tab.dialog = None /\ i \in page.shown
  /\ kind \in Kinds \ {"bulk", "create", "upload"}
  /\ kind = "copy" => i \in Files
  /\ spent.op < MaxOps
  /\ tab' = [tab EXCEPT !.dialog = [kind |-> kind, item |-> i]]
  /\ walk' = IF kind \in {"move", "copy"} THEN NewWalk(kind, i) ELSE None
  /\ UNCHANGED <<ops, spent>> /\ TableOnly

Offered(d) == d # walk.skip

(* One request of the walk: the folders of the next one, depth first.      *)
WalkFolders ==
  /\ walk # None /\ walk.pc = "walking"
  /\ LET f == Head(walk.todo)
         found == {d \in Dirs : Live(d) /\ at[d] = f /\ d \notin walk.done}
         offer == {d \in found : Offered(d)}
         deeper == SetToSeq(offer \ {walk.skip}) \o Tail(walk.todo)
     IN walk' = [walk EXCEPT !.done = @ \union found,
                             !.options = @ \union offer,
                             !.todo = deeper,
                             !.pc = IF deeper = <<>> THEN "loaded" ELSE @]
  /\ UNCHANGED <<tab, ops, spent>> /\ TableOnly

WalkFault ==
  /\ walk # None /\ walk.pc = "walking" /\ spent.fault < MaxFaults
  /\ walk' = [walk EXCEPT !.pc = "failed"] /\ Spend("fault")
  /\ UNCHANGED <<tab, ops>> /\ TableOnly

WalkAgain ==
  /\ walk # None /\ walk.pc = "failed"
  /\ walk' = NewWalk(tab.dialog.kind, tab.dialog.item)
  /\ UNCHANGED <<tab, ops, spent>> /\ TableOnly

CloseDialog ==
  /\ tab.dialog # None
  /\ tab' = [tab EXCEPT !.dialog = None] /\ walk' = None
  /\ UNCHANGED <<ops, spent>> /\ TableOnly

Destinations ==
  CASE tab.dialog.kind = "move" -> {Root} \union walk.options
    [] tab.dialog.kind = "copy" -> {Root, tab.folder} \union walk.options
    [] OTHER -> {None}

\* mutate: the form hands over the action of the dialog.
Submit(dest) ==
  /\ tab.dialog # None /\ ~tab.busy /\ spent.op < MaxOps
  /\ walk # None => walk.pc = "loaded"
  /\ dest \in Destinations
  /\ tab' = [tab EXCEPT !.busy = TRUE]
  /\ ops' = ops \union {Op(tab.dialog.kind, tab.dialog.item, dest, {})}
  /\ Spend("op")
  /\ UNCHANGED walk /\ TableOnly

\* The new-folder form and an upload that the queue runs to its end.
Create ==
  /\ "create" \in Kinds /\ spent.op < MaxOps
  /\ addr # Bad /\ Shown(page, addr)
  /\ \A o \in ops : o.kind = "create" => o.visit # visit
  /\ ops' = ops \union {Op("create", None, addr, {})} /\ Spend("op")
  /\ UNCHANGED <<tab, walk>> /\ TableOnly

Upload ==
  /\ "upload" \in Kinds /\ spent.op < MaxOps /\ Shown(page, addr)
  /\ ops' = ops \union {Op("upload", None, FolderId(addr), {})} /\ Spend("op")
  /\ UNCHANGED <<tab, walk>> /\ TableOnly

----------------------------------------------------------------------------
(* The server's side of an operation.                                      *)

PageOnly ==
  UNCHANGED <<addr, trail, visit, page, gen, due, loads, tab>>
Stir ==    \* the tree of folders is not what a walk began with
  walk' = IF walk = None THEN None ELSE [walk EXCEPT !.still = FALSE]
Calm == IF \A d \in Dirs : at'[d] = at[d] THEN UNCHANGED walk ELSE Stir

Removed(i) == [j \in Items |-> IF j \in Under(i) THEN Trash ELSE at[j]]

\* What an operation makes of the tree; nothing when it is refused.
Effects(kind, i, dest) ==
  CASE kind \in {"trash", "bulk"} /\ Live(i) -> {Removed(i)}
    [] kind = "rename" /\ Live(i) -> {at}
    [] kind = "move" /\ Live(i) /\ Live(dest) /\ dest \notin Under(i) ->
         {[at EXCEPT ![i] = dest]}
    [] kind = "copy" /\ Live(i) /\ Live(dest) ->
         {[at EXCEPT ![j] = dest] : j \in {k \in Files : at[k] = None}}
    [] kind = "create" /\ Live(dest) ->
         {[at EXCEPT ![j] = dest] : j \in {k \in Dirs : at[k] = None}}
    [] kind = "upload" /\ Live(dest) ->
         {[at EXCEPT ![j] = dest] : j \in {k \in Files : at[k] = None}}
    [] OTHER -> {}

Changed(new) == {j \in Items : new[j] # at[j]}

\* Applied, and answered or not.
Apply(o, lost) ==
  /\ o \in ops /\ o.pc = "sent"
  /\ lost => spent.fault < MaxFaults
  /\ \E new \in Effects(o.kind, o.item, o.dest) :
       LET touched == Changed(new) IN
       /\ at' = new
       /\ mine' = mine \union touched
       /\ known' = known \ touched
       /\ moved' = (moved \/ touched \intersect Dirs # {})
       /\ ops' = (ops \ {o}) \union
            {[o EXCEPT !.pc = IF lost THEN "failed" ELSE "done",
                       !.item = IF o.item # None THEN @
                                ELSE CHOOSE j \in touched : TRUE]}
  /\ IF lost THEN Spend("fault") ELSE UNCHANGED spent
  /\ Calm /\ PageOnly

Refuse(o) ==
  /\ o \in ops /\ o.pc = "sent"
  /\ Effects(o.kind, o.item, o.dest) = {}
  /\ ops' = (ops \ {o}) \union {[o EXCEPT !.pc = "failed"]}
  /\ UNCHANGED <<spent, server, walk>> /\ PageOnly

\* Another tab moves an item or puts it in the trash.
Elsewhere(kind, i, dest) ==
  /\ spent.other < MaxOther /\ Spend("other")
  /\ \E new \in Effects(kind, i, dest) :
       /\ new # at /\ at' = new
       /\ mine' = mine \ Changed(new)
       /\ known' = known \ Changed(new)
       /\ moved' = (moved \/ Changed(new) \intersect Dirs # {})
  /\ Calm /\ UNCHANGED ops /\ PageOnly

----------------------------------------------------------------------------
(* The answer of an operation.                                             *)

\* A component that knows it is gone does nothing with it.
Here(o) == IF o.kind = "upload" THEN addr # Bad ELSE o.mounted

GoesOn(o) == Here(o)

\* refresh, of the folder whose table asked: the removed item disappears at
\* once, and what is shown is loaded again.
Without(pg, o) ==
  IF pg.folder = o.folder THEN [pg EXCEPT !.shown = @ \ {o.item}] ELSE pg

\* What a component does to itself shows on the screen only.
InTable(o, t, new) == IF t.folder # None /\ t.id = o.tab THEN new ELSE t

Informed(o) ==
  known' = known \union
           (mine \intersect (IF o.kind = "rename" THEN {} ELSE {o.item}))

AnswerDone(o) ==
  /\ o \in ops /\ o.pc = "done" /\ o.kind # "bulk"
  /\ ops' = ops \ {o}
  /\ IF ~Here(o)
     THEN UNCHANGED <<page, due, tab, known, walk>>
     ELSE /\ page' = IF o.kind = "trash" THEN Without(page, o) ELSE page
          /\ due' = TRUE
          /\ Informed(o)
          /\ LET t == Render(page', addr, tab) IN
             IF o.kind \in {"create", "upload"}
             THEN tab' = t /\ UNCHANGED walk
             ELSE /\ tab' = InTable(o, t,
                              [t EXCEPT !.busy = FALSE, !.dialog = None])
                  /\ walk' = IF t.id = o.tab THEN None ELSE walk
  /\ UNCHANGED <<at, mine, moved, addr, trail, visit, gen, loads, spent>>

\* An item of the selection is in the trash: on to the next one, if any.
AnswerBulk(o) ==
  /\ o \in ops /\ o.pc = "done" /\ o.kind = "bulk"
  /\ LET rest == o.todo \ {o.item} IN
     IF ~GoesOn(o)
     THEN ops' = ops \ {o} /\ UNCHANGED <<page, due, tab, known>>
     ELSE /\ IF Here(o)
             THEN /\ page' = Without(page, o)
                  /\ due' = TRUE
                  /\ Informed(o)
                  /\ LET t == Render(page', addr, tab) IN
                     tab' = InTable(o, t, [t EXCEPT !.sel = @ \ {o.item},
                                                    !.busy = rest # {}])
             ELSE UNCHANGED <<page, due, tab, known>>
          /\ \/ /\ rest = {} /\ ops' = ops \ {o}
             \/ \E i \in rest :
                  ops' = (ops \ {o}) \union
                         {[o EXCEPT !.item = i, !.todo = rest, !.pc = "sent",
                                    !.late = ~Here(o)]}
  /\ UNCHANGED <<at, mine, moved, addr, trail, visit, gen, loads, walk,
                 spent>>

AnswerFailed(o) ==
  /\ o \in ops /\ o.pc = "failed"
  /\ ops' = ops \ {o}
  /\ tab' = IF o.kind \in {"create", "upload"} THEN tab
            ELSE InTable(o, tab, [tab EXCEPT !.busy = FALSE])
  /\ UNCHANGED <<server, addr, trail, visit, page, gen, due, loads, walk,
                 spent>>

Addresses == Places \union {Bad}

Next ==
  \/ \E d \in Dirs : OpenFolder(d)
  \/ \E n \in 0 .. Cardinality(Dirs) : FollowCrumb(n)
  \/ \E a \in Addresses : TypeAddress(a)
  \/ Unmount
  \/ RunEffect
  \/ Retry
  \/ \E l \in loads : AskFolder(l)
  \/ \E l \in loads, part \in {"folders", "files"} : AskList(l, part)
  \/ \E l \in loads : LoadFault(l)
  \/ \E l \in loads : Deliver(l)
  \/ Prune
  \/ \E i \in Items : Select(i)
  \/ \E i \in Items : TrashSelection(i)
  \/ \E kind \in Kinds, i \in Items : OpenDialog(kind, i)
  \/ WalkFolders
  \/ WalkFault
  \/ WalkAgain
  \/ CloseDialog
  \/ \E dest \in Places \union {None} : Submit(dest)
  \/ Create
  \/ Upload
  \/ \E o \in ops, lost \in BOOLEAN : Apply(o, lost)
  \/ \E o \in ops : Refuse(o)
  \/ \E i \in Items, f \in Places : Elsewhere("move", i, f)
  \/ \E i \in Items : Elsewhere("trash", i, None)
  \/ \E o \in ops : AnswerDone(o)
  \/ \E o \in ops : AnswerBulk(o)
  \/ \E o \in ops : AnswerFailed(o)

Spec == Init /\ [][Next]_vars

----------------------------------------------------------------------------
(* Properties.                                                             *)

Rest == ~due /\ ~tab.prune /\ \A l \in loads : l.aborted

(* Once everything asked for has been answered and no reload has failed,   *)
(* the listing agrees with every change this page made itself: what it     *)
(* trashed or moved away is not there, what it created, copied or uploaded *)
(* into the folder is, whichever listings were on their way (refresh and   *)
(* the generations of the loading effect).                                 *)
FreshAtRest ==
  Rest /\ Mounted /\ ~page.warn =>
    \A i \in known : i \in page.shown <=> at[i] = addr

(* The table on the screen, whose rows can be acted on, is that of the     *)
(* folder in the address, from the very moment the address changes ("makes *)
(* the previous folder non-actionable immediately").  The root's stays     *)
(* when the address becomes one that is no folder, until the effect runs.  *)
ActsWhereShown ==
  Mounted => tab.folder = addr \/ (addr = Bad /\ tab.folder = Root /\ due)

(* A selected item is one the table lists: what reloads, other tabs and    *)
(* operations removed drops out of the selection.                          *)
SelectionListed == Mounted /\ ~tab.prune => tab.sel \subseteq page.shown

(* Leaving the folder stops the trashing of a selection: no further item   *)
(* is sent once the effects of the table's going have run.                 *)
StopsWhenLeft == \A o \in ops : ~o.late

(* The destinations offered for a move or a copy are all live folders      *)
(* except the moved folder and its subtree, when the tree did not change   *)
(* under the walk that collects them.                                      *)
OffersDestinations ==
  walk # None /\ walk.pc = "loaded" /\ walk.still =>
    walk.options =
      {d \in Dirs : Live(d) /\ (walk.skip # None => d \notin Under(walk.skip))}

(* As long as no folder changes its place, the path above the listing is   *)
(* the way from the top to this folder, however the user came here.        *)
CrumbsFollowTree == Mounted /\ ~moved => page.crumbs = Path(FolderId(addr))

=============================================================================
