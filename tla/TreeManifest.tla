----------------------------- MODULE TreeManifest -----------------------------
(***************************************************************************)
(* What a chosen tree of files is made of before anything is written:      *)
(* manifest (src/frontend/src/sharing/publicTree.ts), run again after each *)
(* entry that a directory picker or a drop yields, so that a tree that     *)
(* cannot be uploaded is refused before more of it is read.                *)
(*                                                                         *)
(* A path is a sequence of spelled names.  Clean gives the name that a     *)
(* spelling stands for once composed and trimmed; Bad is a spelling that   *)
(* names nothing ("..", an empty part, a control character).               *)
(***************************************************************************)
EXTENDS Integers, Sequences, SequencesExt

CONSTANTS
  Names,      \* names
  Spellings,  \* how names are spelled in paths
  Clean,      \* the name of a spelling, or Bad
  Bad,
  MaxDepth,   \* 32 levels
  MaxNodes,   \* MAX_ENTRIES
  MaxEntries  \* bound: entries of a tree

VARIABLES
  entries,  \* what was chosen, as it is read
  tree      \* manifest of it

vars == <<entries, tree>>

\* One level more than allowed, so that it can be refused.
Paths == UNION {[1 .. d -> Spellings] : d \in 1 .. MaxDepth + 1}
Entries == [path : Paths, kind : {"folder", "file"}]

(* The accumulators of manifest.  Map keeps the order of first insertion:  *)
(* order is the keys of nodes, kind and origin what they map to.           *)
Empty == [refused |-> FALSE, order |-> <<>>, kind |-> <<>>, origin |-> <<>>,
          explicit |-> {}]
Refused(m) == [m EXCEPT !.refused = TRUE]

CleanPath(p) == [i \in DOMAIN p |-> Clean[p[i]]]
Up(p, i) == SubSeq(p, 1, i)

Set(f, k, v) == [x \in DOMAIN f \cup {k} |-> IF x = k THEN v ELSE f[x]]

\* Mutant: a folder given by two spellings is one folder.
AliasAs(m, key, raw) == FALSE
Alias(m, key, raw) == key \in DOMAIN m.origin /\ m.origin[key] # raw

Clash(m, key, kind) ==
  key \in DOMAIN m.kind /\ (m.kind[key] # "folder" \/ kind # "folder")

\* The node of the first i names of an entry's path.
Level(m, e, i) ==
  LET key == Up(CleanPath(e.path), i)
      raw == Up(e.path, i)
      kind == IF i = Len(e.path) THEN e.kind ELSE "folder"
      next == [m EXCEPT !.order = IF key \in DOMAIN m.kind THEN @
                                  ELSE Append(@, key),
                        !.kind = Set(@, key, kind),
                        !.origin = Set(@, key, raw)]
  IN IF m.refused THEN m
     ELSE IF Alias(m, key, raw) \/ Clash(m, key, kind) THEN Refused(m)
     ELSE IF Len(next.order) > MaxNodes THEN Refused(m)
     ELSE next

Twice(m, key) == key \in m.explicit

\* An entry brings the folders above it.
Levels(p) == [i \in DOMAIN p |-> i]

Take(m, e) ==
  LET key == CleanPath(e.path) IN
  IF m.refused THEN m
  ELSE IF \E i \in DOMAIN key : key[i] = Bad THEN Refused(m)
  ELSE IF Len(key) > MaxDepth \/ Twice(m, key) THEN Refused(m)
  ELSE FoldLeft(LAMBDA a, i : Level(a, e, i),
                [m EXCEPT !.explicit = @ \cup {key}],
                Levels(key))

\* A stable sort by depth.
Sorted(order) ==
  FlattenSeq([d \in 1 .. MaxDepth |-> SelectSeq(order,
                                        LAMBDA p : Len(p) = d)])

manifest(es) ==
  LET m == FoldLeft(Take, Empty, es) IN [m EXCEPT !.order = Sorted(@)]

Init == entries = <<>> /\ tree = Empty

\* walk: the next entry of the picker, the drop or the list of files.
Push(e) ==
  /\ ~tree.refused /\ Len(entries) < MaxEntries
  /\ entries' = Append(entries, e)
  /\ tree' = manifest(entries')

Next == \E e \in Entries : Push(e)

Spec == Init /\ [][Next]_vars

----------------------------------------------------------------------------
(* Properties.                                                             *)

Accepted == entries # <<>> /\ ~tree.refused
Keys == ToSet(tree.order)

(* Nodes come parents first and each parent is a folder, whatever order    *)
(* the entries were read in: the upload that goes through them in order    *)
(* always has a folder to put the next one in.                             *)
ParentsFirst ==
  Accepted => \A j \in DOMAIN tree.order : Len(tree.order[j]) > 1 =>
    \E i \in 1 .. j - 1 :
      /\ tree.order[i] = Front(tree.order[j])
      /\ tree.kind[tree.order[i]] = "folder"

(* Nothing chosen is lost and nothing is added but the folders it lies in: *)
(* each entry is a node of its own kind, each other node a folder above.   *)
WholeTree ==
  Accepted =>
    /\ \A i \in DOMAIN entries :
         LET p == CleanPath(entries[i].path)
         IN p \in Keys /\ tree.kind[p] = entries[i].kind
    /\ \A p \in Keys : \E i \in DOMAIN entries :
         /\ IsPrefix(p, CleanPath(entries[i].path))
         /\ p # CleanPath(entries[i].path) => tree.kind[p] = "folder"

(* What the visitor sees as two folders or files never becomes one: of     *)
(* two entries of one path, and of spellings that stand for one name,      *)
(* the tree is refused.                                                    *)
NeverMerges ==
  Accepted =>
    \A i, j \in DOMAIN entries :
      LET p == entries[i].path q == entries[j].path IN
      /\ i # j => CleanPath(p) # CleanPath(q)
      /\ \A a \in DOMAIN p, b \in DOMAIN q :
           CleanPath(Up(p, a)) = CleanPath(Up(q, b)) => Up(p, a) = Up(q, b)

(* Whether a tree is accepted, and what it is made of, does not depend on  *)
(* the order the browser lists it in.                                      *)
OrderFree ==
  LET back == manifest(Reverse(entries)) IN
  /\ back.refused = tree.refused
  /\ ~tree.refused => back.kind = tree.kind
=============================================================================
