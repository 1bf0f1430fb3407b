--------------------------- MODULE Finalizations ---------------------------
(***************************************************************************)
(* Uploads that are finalized (SsdFinalization), and the descriptors that  *)
(* one finalization holds while directories are replaced under it          *)
(* (FinalizationPins).                                                     *)
(*                                                                         *)
(* For TLC, one of them at a time: `part`, which no step changes, says     *)
(* which.  Uploads are in three instances: one upload and a decaying SSD,  *)
(* the same upload under fair handlers and an SSD that does not decay,     *)
(* and, with variables of their own, two uploads next to the other         *)
(* services.  One more instance is for a run of its own.                   *)
(***************************************************************************)
EXTENDS SsdFinalization

CONSTANTS s1, s2, h1, h2, c1, c2,
          Objects, MaxWorld, PinFaults      \* of FinalizationPins

VARIABLES part,
          root, child, files, fresh, fence, journal, cap, touched, moved,
          spent,                            \* FinalizationPins
          status2, expired2, rec2, op2, file2, used2, other2, trashed2, dir2,
          chunk2, art2, lock2, w2, faults2

vars2 == <<status2, expired2, rec2, op2, file2, used2, other2, trashed2, dir2,
           chunk2, art2, lock2, w2, faults2>>
pinned == <<root, child, files, fresh, fence, journal, cap, touched, moved,
            spent>>
mcvars == <<vars, vars2, pinned, part>>

D == INSTANCE FinalizationPins WITH MaxFaults <- PinFaults

ASSUME PinsAssumption == D!PinsFit

\* The body and the size of the one upload.
Mixed == [s \in {s1} |-> [i \in 1..2 |-> IF i = 1 THEN c1 ELSE c2]]
One   == [s \in {s1} |-> 1]

\* Roots, directories and inodes.
EightObjects == 1..8

Fair == INSTANCE SsdFinalization WITH SsdDecays <- FALSE, MaxFaults <- 3

Together == INSTANCE SsdFinalization WITH
  Sessions <- {s1, s2}, Handlers <- {h1, h2}, NChunks <- 1, Contents <- {c1},
  Size <- [s \in {s1, s2} |-> 1], Want <- [s \in {s1, s2} |-> <<c1>>],
  Quota <- 2, MaxTotal <- 0, OtherBytes <- {1}, Taken <- {},
  Foldered <- {s1}, SsdDecays <- FALSE, MaxFaults <- 2,
  status <- status2, expired <- expired2, rec <- rec2, op <- op2,
  file <- file2, used <- used2, other <- other2, trashed <- trashed2,
  dir <- dir2, chunk <- chunk2, art <- art2, lock <- lock2, w <- w2,
  faults <- faults2

\* Another file takes the name of the upload's File while it is copied.
Named == INSTANCE SsdFinalization WITH
  NChunks <- 1, Contents <- {c1}, Want <- [s \in {s1} |-> <<c1>>],
  Taken <- {s1}, SsdDecays <- FALSE, MaxFaults <- 0

MCInit == /\ part \in {"alone", "fair", "together", "pins"}
          /\ Init /\ Together!Init /\ D!Init

MCNext == /\ part' = part
          /\ \/ part = "alone" /\ Next /\ UNCHANGED <<vars2, pinned>>
             \/ part = "fair" /\ Fair!Next /\ UNCHANGED <<vars2, pinned>>
             \/ part = "together" /\ Together!Next /\ UNCHANGED <<vars, pinned>>
             \/ part = "pins" /\ D!Next /\ UNCHANGED <<vars, vars2>>

\* The fairness of SsdFinalization's FairSpec, for the part that states it.
IsFair(A) == part = "fair" /\ A /\ UNCHANGED <<part, vars2, pinned>>

Fairly ==
  /\ \A p \in {h1, h2} : WF_mcvars(IsFair(Fair!HandlerStep(p)))
  /\ SF_mcvars(\E p \in {h1, h2} : IsFair(Fair!Recover(p, s1)))

MCSpec == MCInit /\ [][MCNext]_mcvars /\ Fairly

\* Named alone, with the same fairness.
NamedSpec ==
  /\ part = "named" /\ Named!Init /\ Together!Init /\ D!Init
  /\ [][Named!Next /\ UNCHANGED <<part, vars2, pinned>>]_mcvars
  /\ \A p \in {h1, h2} :
       WF_mcvars(Named!HandlerStep(p) /\ UNCHANGED <<part, vars2, pinned>>)
  /\ SF_mcvars(\E p \in {h1, h2} :
                 Named!Recover(p, s1) /\ UNCHANGED <<part, vars2, pinned>>)
-----------------------------------------------------------------------------
\* Two uploads of one owner next to the other services, on an SSD that does not
\* decay: bytes, promise and journal are kept, acknowledged chunks until their
\* File commits, and the owner is charged for each File once.
TogetherSafe ==
  /\ Together!BytesSafe /\ Together!KeepsPromise /\ Together!JournalKept
  /\ [](Together!TypeOK /\ Together!UsedAccounts)

\* An operation that was begun is finished and cleaned up, but for the two
\* cases left to an operator.
RecoveryEnds == part = "fair" => RecoveryCompletes

\* However a finalization ends and whichever directory or file is replaced
\* under it: it has one worker, in the directories of the journal, what the
\* journal calls published is the file it recorded, nothing else is truncated
\* or unlinked, and each descriptor is closed once.
FinalizationPinned ==
  /\ D!OneOwner /\ D!BoundAsJournalled /\ D!PublishedInPlace
  /\ D!TouchesItsOwn /\ D!ClosesEach
=============================================================================
