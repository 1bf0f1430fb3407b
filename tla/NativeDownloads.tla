--------------------------- MODULE NativeDownloads ---------------------------
(***************************************************************************)
(* Downloads by the browser itself: the capabilities and descriptors of    *)
(* Downloads, the Range header of such a request (Ranges), and archives    *)
(* (ArchiveStream).  They share no state: who is admitted, which bytes are *)
(* sent, and what an archive holds are decided one after the other.        *)
(*                                                                         *)
(* For TLC, one of them at a time: the archives run in five instances, a   *)
(* nested selection, the trees of three folders, edits around one file,    *)
(* two requests for one place, and fair callbacks; `part` says which part  *)
(* runs.                                                                   *)
(***************************************************************************)
EXTENDS Downloads, Sequences

CONSTANTS MaxSafe, Sizes, Numbers, Missing,  \* of Ranges
          a, b, c                            \* names

VARIABLES
  part,
  header, size, own, public,               \* Ranges
  node, object, streams, archive, edits    \* ArchiveStream

R == INSTANCE Ranges

ASSUME NumbersAssumption == R!NumbersFit

capabilities == vars
ranges       == <<header, size, own, public>>
archives     == <<node, object, streams, archive, edits>>
mcvars       == <<part, ranges, capabilities, archives>>

\* Any user for a file, and one capability of each kind.
AnyOwner == [f \in Files |-> CHOOSE u \in Users : TRUE]
OneEach == [k \in Kinds |-> 1]

Live(x, name) == [parent |-> x, name |-> name, st |-> "live"]
NotYet(x, name) == [parent |-> x, name |-> name, st |-> "absent"]

\* 1/a with the file 11/b in 2/b below it, 12/a beside 1, 13 not there yet.
Home ==
  [n \in {1, 2, 11, 12, 13} |->
     CASE n = 1 -> Live(0, a) [] n = 2 -> Live(1, b) [] n = 11 -> Live(2, b)
       [] n = 12 -> Live(0, a) [] n = 13 -> NotYet(1, c)]

SmallHome ==
  [n \in {1, 11, 13} |->
     CASE n = 1 -> Live(0, a) [] n = 11 -> Live(1, b) [] n = 13 -> NotYet(1, c)]

\* Every tree of three folders and two files.
Nodes == {1, 2, 3, 11, 12}
Rooted(u, n) == u[n] # n /\ (u[n] = 0 \/ u[u[n]] = 0 \/ u[u[u[n]]] = 0)
Trees ==
  {[n \in Nodes |-> Live(up[n], IF n = 1 THEN a ELSE IF n = 12 THEN c ELSE b)] :
     up \in {u \in [Nodes -> 0..3] : \A n \in 1..3 : Rooted(u, n)}}

Plan == INSTANCE ArchiveStream WITH
  Streams <- {1}, Folders <- {1, 2}, Files <- {11, 12, 13}, Starts <- {Home},
  Empty <- {12}, Names <- {a, b, c}, Selections <- {<<12, 2, 1>>},
  StreamLimit <- 1, MaxEdits <- 1, row <- node, active <- streams,
  s <- archive

Shapes == INSTANCE ArchiveStream WITH
  Streams <- {1}, Folders <- {1, 2, 3}, Files <- {11, 12}, Starts <- Trees,
  Empty <- {}, Names <- {a, b, c},
  Selections <- {<<12, 2, 1>>, <<2, 11, 1>>, <<2, 3, 1>>},
  StreamLimit <- 1, MaxEdits <- 0, row <- node, active <- streams,
  s <- archive

Edits == INSTANCE ArchiveStream WITH
  Streams <- {1}, Folders <- {1}, Files <- {11, 13}, Starts <- {SmallHome},
  Empty <- {}, Names <- {a, b, c}, Selections <- {<<1>>},
  StreamLimit <- 1, MaxEdits <- 3, row <- node, active <- streams,
  s <- archive

Two == INSTANCE ArchiveStream WITH
  Streams <- {1, 2}, Folders <- {1}, Files <- {11, 13}, Starts <- {SmallHome},
  Empty <- {}, Names <- {a, b, c}, Selections <- {<<1>>},
  StreamLimit <- 1, MaxEdits <- 0, row <- node, active <- streams,
  s <- archive

Fair == INSTANCE ArchiveStream WITH
  Streams <- {1}, Folders <- {1}, Files <- {11, 13}, Starts <- {SmallHome},
  Empty <- {}, Names <- {a, b, c}, Selections <- {<<1>>},
  StreamLimit <- 1, MaxEdits <- 2, row <- node, active <- streams,
  s <- archive

MCInit ==
  /\ part \in {"ranges", "capabilities", "plan", "shapes", "edits", "two",
               "fair"}
  /\ R!Init /\ (part = "ranges" \/ (header.form = "none" /\ size = 0))
  /\ Init
  /\ CASE part = "shapes" -> Shapes!Init
       [] part = "edits" -> Edits!Init
       [] part = "two" -> Two!Init
       [] part = "fair" -> Fair!Init
       [] OTHER -> Plan!Init

MCNext ==
  /\ part' = part
  /\ \/ part = "ranges" /\ R!Next /\ UNCHANGED <<capabilities, archives>>
     \/ part = "capabilities" /\ Next /\ UNCHANGED <<ranges, archives>>
     \/ part = "plan" /\ Plan!Next /\ UNCHANGED <<ranges, capabilities>>
     \/ part = "shapes" /\ Shapes!Next /\ UNCHANGED <<ranges, capabilities>>
     \/ part = "edits" /\ Edits!Next /\ UNCHANGED <<ranges, capabilities>>
     \/ part = "two" /\ Two!Next /\ UNCHANGED <<ranges, capabilities>>
     \/ part = "fair" /\ Fair!Next /\ UNCHANGED <<ranges, capabilities>>

\* The fairness of ArchiveStream's FairSpec, for the part that states it.
Run(A) == part = "fair" /\ A /\ UNCHANGED <<part, ranges, capabilities>>

MCSpec == /\ MCInit /\ [][MCNext]_mcvars
          /\ WF_mcvars(Run(Fair!Plan(1))) /\ WF_mcvars(Run(Fair!Engine(1)))
-----------------------------------------------------------------------------
\* An owner's download answers a Range header with the bytes it names, and
\* announces as many as it sends; a public download of the same file answers
\* the same.
SendsAsked == R!SendsAsked

\* An archive that ends well holds what was prepared, all of it and under
\* different paths, and undisturbed that is the selection; what is counted as
\* streamed is, and no file is open once the caller was told.
ArchiveWhole ==
  /\ part = "plan" => Plan!WholeSelection /\ Plan!UniqueEntries
  /\ part = "shapes" => Shapes!PlansSelection /\ Shapes!UniqueEntries
  /\ part = "edits" => Edits!WholeSelection /\ Edits!NothingOpen
  /\ part = "two" => Two!StreamsCounted /\ Two!NothingOpen

\* A file is sent only if it was live and reachable at some time after it was
\* opened; and a fetch comes to an end.
SentLive == /\ [][/\ part = "plan" => Plan!SentLive
                  /\ part = "edits" => Edits!SentLive]_mcvars
            /\ part = "fair" => Fair!StreamsEnd
=============================================================================
