------------------------------ MODULE MCBrowser ------------------------------
(***************************************************************************)
(* What runs in the browser: the waits of one upload, the upload queue in  *)
(* three instances, the digest of a file, the manifest of a tree and the   *)
(* folder page in four.  `part` says which runs; no step changes it.       *)
(***************************************************************************)
EXTENDS Retries, FiniteSets, Sequences, TLC

CONSTANTS f1, f2, d1, d2, a, b, aa, dots, Root, Bad, Trash, None

VARIABLES
  part,
  job, disposed, out, stray, sess, wish, reloads,            \* UploadQueue
  size, work, pc, start, bytes, offset, state, tail,         \* WholeDigest
  tailBytes, byteLength, told, aborted, reads,
  entries, tree,                                             \* TreeManifest
  at, addr, trail, visit, page, gen, due, loads, tab, ops,   \* DirectoryPage
  walk, spent, mine, known, moved

retries == vars
queue   == <<job, disposed, out, stray, sess, wish, reloads>>
digest  == <<size, work, pc, start, bytes, offset, state, tail, tailBytes,
             byteLength, told, aborted, reads>>
folder  == <<entries, tree>>
shown   == <<at, addr, trail, visit, page, gen, due, loads, tab, ops, walk,
             spent, mine, known, moved>>
mcvars  == <<part, retries, queue, digest, folder, shown>>
-----------------------------------------------------------------------------
\* One file of one chunk, and two of one name and size that differ in the
\* second chunk.
Same == [f \in {f1} |-> [i \in 1..1 |-> 1]]
Differ == [f \in {f1, f2} |-> [i \in 1..2 |-> IF f = f2 THEN 1 + i ELSE i]]

Creates == INSTANCE UploadQueue WITH
  MaxJobs <- 1, MaxSessions <- 2, Chunks <- 1..1, Files <- {f1}, Body <- Same,
  Whole <- FALSE, Concurrent <- 1, Attempts <- 1, MaxStray <- 1, Reloads <- 2

Sends == INSTANCE UploadQueue WITH
  MaxJobs <- 1, MaxSessions <- 1, Chunks <- 1..2, Files <- {f1, f2},
  Body <- Differ, Whole <- FALSE, Concurrent <- 1, Attempts <- 1,
  MaxStray <- 0, Reloads <- 1

Digests == INSTANCE UploadQueue WITH
  MaxJobs <- 1, MaxSessions <- 1, Chunks <- 1..2, Files <- {f1, f2},
  Body <- Differ, Whole <- TRUE, Concurrent <- 1, Attempts <- 1,
  MaxStray <- 1, Reloads <- 0

Settling == INSTANCE UploadQueue WITH
  MaxJobs <- 1, MaxSessions <- 1, Chunks <- 1..1, Files <- {f1}, Body <- Same,
  Whole <- FALSE, Concurrent <- 1, Attempts <- 2, MaxStray <- 0, Reloads <- 1

\* Every size to either side of a block, a piece and a slice.
Hash == INSTANCE WholeDigest WITH
  Block <- 4, LengthCells <- 2, Radix <- 8, Unit <- 4, Sizes <- 0..15,
  ReadBytes <- 8, Works <- {3, 4, 8}

\* Two names, one of them with two spellings, and a word that is no name.
Manifest == INSTANCE TreeManifest WITH
  Names <- {a, b}, Spellings <- {a, aa, b, dots},
  Clean <- (a :> a) @@ (aa :> a) @@ (b :> b) @@ (dots :> Bad),
  MaxDepth <- 2, MaxNodes <- 4, MaxEntries <- 3

Loads == INSTANCE DirectoryPage WITH
  Files <- {f1}, Dirs <- {d1, d2},
  Start <- (d1 :> Root) @@ (d2 :> d1) @@ (f1 :> d1),
  Kinds <- {}, MaxVisits <- 3, MaxGen <- 4, MaxOps <- 0, MaxOther <- 1,
  MaxFaults <- 1

Bulk == INSTANCE DirectoryPage WITH
  Files <- {f1, f2}, Dirs <- {d1},
  Start <- (d1 :> Root) @@ (f1 :> Root) @@ (f2 :> Root),
  Kinds <- {"bulk", "trash"}, MaxVisits <- 1, MaxGen <- 3, MaxOps <- 2,
  MaxOther <- 0, MaxFaults <- 1

Adds == INSTANCE DirectoryPage WITH
  Files <- {f1, f2}, Dirs <- {d1, d2},
  Start <- (d1 :> Root) @@ (d2 :> None) @@ (f1 :> Root) @@ (f2 :> None),
  Kinds <- {"copy", "create", "upload"}, MaxVisits <- 1, MaxGen <- 3,
  MaxOps <- 2, MaxOther <- 1, MaxFaults <- 0

Moves == INSTANCE DirectoryPage WITH
  Files <- {f1}, Dirs <- {d1, d2},
  Start <- (d1 :> Root) @@ (d2 :> d1) @@ (f1 :> d1),
  Kinds <- {"move", "rename", "trash"}, MaxVisits <- 1, MaxGen <- 3,
  MaxOps <- 2, MaxOther <- 1, MaxFaults <- 0
-----------------------------------------------------------------------------
MCInit ==
  /\ part \in {"fair", "timed", "creates", "sends", "digests",
             "settles", "hash", "manifest", "loads", "bulk", "adds", "moves"}
  /\ Init /\ Manifest!Init
  /\ CASE part = "sends" -> Sends!Init
       [] part = "digests" -> Digests!Init
       [] part = "settles" -> Settling!Init
       [] OTHER -> Creates!Init
  /\ Hash!Init /\ (part = "hash" \/ (size = 0 /\ work = 3))
  /\ CASE part = "loads" -> Loads!Init
       [] part = "bulk" -> Bulk!Init
       [] part = "adds" -> Adds!Init
       [] OTHER -> Moves!Init

MCNext ==
  /\ part' = part
  /\ \/ /\ (part = "fair" \/ part = "timed") /\ Next
        /\ UNCHANGED <<queue, digest, folder, shown>>
     \/ /\ \/ part = "creates" /\ Creates!Next
           \/ part = "sends" /\ Sends!Next
           \/ part = "digests" /\ Digests!Next
           \/ part = "settles" /\ Settling!Next
        /\ UNCHANGED <<retries, digest, folder, shown>>
     \/ /\ part = "hash" /\ Hash!Next
        /\ UNCHANGED <<retries, queue, folder, shown>>
     \/ /\ part = "manifest" /\ Manifest!Next
        /\ UNCHANGED <<retries, queue, digest, shown>>
     \/ /\ \/ part = "loads" /\ Loads!Next
           \/ part = "bulk" /\ Bulk!Next
           \/ part = "adds" /\ Adds!Next
           \/ part = "moves" /\ Moves!Next
        /\ UNCHANGED <<retries, queue, digest, folder>>

\* The fairness of Retries (FairSpec and TimedSpec) and of UploadQueue, for the
\* parts that state it: time passes and timers fire; requests are answered or
\* time out; the code after an await runs.
Run(A) ==
  A /\ UNCHANGED <<part, queue, digest, folder, shown>>
Serve(A) ==
  part = "settles" /\ A /\ UNCHANGED <<part, retries, digest, folder, shown>>

Fairness ==
  /\ WF_mcvars(part \in {"fair", "timed"} /\ Run(Tick))
  /\ WF_mcvars(part \in {"fair", "timed"} /\ Run(Own))
  /\ WF_mcvars(part = "fair" /\ Run(Answered))
  /\ WF_mcvars(Serve(Settling!Runs(1)))
  /\ WF_mcvars(Serve(Settling!Cancels(1)))

MCSpec == MCInit /\ [][MCNext]_mcvars /\ Fairness
-----------------------------------------------------------------------------
\* What is sent and shown is what the user chose.  A job makes one session,
\* the list keeps every session it was told of, a row says what the session
\* is, and no byte is sent of a file that is not the one declared; a digest is
\* that of the whole file; a tree keeps every entry, parents first, merges
\* none and does not depend on the order it is read in; a folder's page acts
\* on the folder in the address, on items it lists, shows its own changes once
\* at rest, and offers the destinations there are.
AsChosen ==
  /\ part = "creates" => Creates!OneSession /\ Creates!Remembered
  /\ part = "digests" => Digests!Truthful
  /\ part = "hash" => Hash!DigestOfFile /\ Hash!ProgressIsHashed
  /\ part = "manifest" => /\ Manifest!ParentsFirst /\ Manifest!WholeTree
                          /\ Manifest!NeverMerges /\ Manifest!OrderFree
  /\ part = "loads" => Loads!ActsWhereShown /\ Loads!CrumbsFollowTree
  /\ part = "bulk" => /\ Bulk!SelectionListed /\ Bulk!StopsWhenLeft
                      /\ Bulk!FreshAtRest
  /\ part = "adds" => Adds!FreshAtRest
  /\ part = "moves" => Moves!OffersDestinations /\ Moves!FreshAtRest

\* An upload that ends well has stored the file it read, and after a
\* cancellation nothing more is sent or hashed, not even after a reload; a
\* call of the retry loop, a cancellation (though no server answers) and a
\* pause come to an end.
EndsAsAsked ==
  /\ [][/\ part = "sends" => Sends!StoresItsFile /\ Sends!CancelledSendsNothing
        /\ part = "hash" => Hash!StopsWhenCancelled]_mcvars
  /\ part = "fair" => CallEnds
  /\ part = "timed" => CancelEnds
  /\ part = "settles" => Settling!Settles
=============================================================================
