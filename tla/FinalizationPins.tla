--------------------------- MODULE FinalizationPins ---------------------------
(***************************************************************************)
(* The descriptors that one finalization holds                             *)
(* (ssd-finalization-filesystem.ts): the source and target directories     *)
(* are pinned by open descriptors, every operation first compares what is  *)
(* at their paths with what is pinned, and the artifact it makes stays     *)
(* pinned across its publication.  A second worker, which recovers the     *)
(* operation from its journal, is kept out by a lock on the source root.   *)
(*                                                                         *)
(* Meanwhile directories and files are put in the place of others.  Bytes, *)
(* digests and the database are SsdFinalization's subject: here a partial  *)
(* copy may be found whole or not, and a chunk is verified when it is the  *)
(* one that was uploaded.                                                  *)
(***************************************************************************)
EXTENDS Integers

CONSTANTS
  Objects,    \* identities of directories and files, an initial run of 1, 2 ..
  MaxWorld,   \* bound: directories and files replaced
  MaxFaults   \* bound: calls that fail, workers that die

PinsFit == Objects \subseteq Nat \ {0} /\ 1..4 \subseteq Objects

Workers == {"first", "recovery"}
Places == {"sourceRoot", "source", "targetRoot", "target"}
Names == {"temporary", "final", "chunk"}
VARIABLES
  root,     \* the directory at the path of each root
  child,    \* the operation's directory below a directory
  files,    \* the inodes in a directory
  fresh,    \* the next identity
  fence,    \* per source root, the worker that locked it
  journal,  \* the operation as the database has it
  cap,      \* the capability of each worker
  touched,  \* inodes truncated or unlinked
  moved,    \* what was renamed to the final name, and in which directory
  spent

world == <<root, child, files, fresh>>
vars == <<root, child, files, fresh, fence, journal, cap, touched, moved,
          spent>>

NoPins == [p \in Places |-> 0]

Unused ==
  [pc |-> "idle", ready |-> FALSE,     \* the operation's binding is asserted
   read |-> 0, was |-> "none",         \* recoveryIdentity, the state looked up
   seen |-> 0, base |-> 0,             \* of the target's SecureFilesystem
   pins |-> NoPins, pushed |-> {}, bound |-> FALSE,
   temporaryPin |-> 0, published |-> FALSE,
   fds |-> {}, twice |-> FALSE]

\* Directories 1 and 2 are the roots, 3 holds the upload's chunk.
Init ==
  /\ root = [source |-> 1, target |-> 2]
  /\ child = [d \in Objects |-> IF d = 1 THEN 3 ELSE 0]
  /\ files = [d \in Objects |->
       [n \in Names |-> IF d = 3 /\ n = "chunk" THEN 4 ELSE 0]]
  /\ fresh = 5
  /\ fence = [d \in Objects |-> {}]
  /\ journal = [state |-> "none", pins |-> NoPins, target |-> 0]
  /\ cap = [w \in Workers |-> Unused]
  /\ touched = {} /\ moved = {} /\ spent = [world |-> 0, fault |-> 0]

(***************************************************************************)
(* Another process, or an operator, puts directories and files in place of *)
(* others.  A root that replaces another may have the old one's directory. *)
(***************************************************************************)
Disturb ==
  /\ spent.world < MaxWorld /\ fresh \in Objects
  /\ fresh' = fresh + 1
  /\ spent' = [spent EXCEPT !.world = @ + 1]
  /\ UNCHANGED <<fence, journal, cap, touched, moved>>

ReplaceRoot(side) ==
  /\ Disturb
  /\ root' = [root EXCEPT ![side] = fresh]
  /\ \E same \in BOOLEAN :
       child' = [child EXCEPT ![fresh] = IF same THEN child[root[side]] ELSE 0]
  /\ UNCHANGED files

ReplaceDirectory(side) ==
  /\ Disturb
  /\ child' = [child EXCEPT ![root[side]] = fresh]
  /\ UNCHANGED <<root, files>>

ReplaceFile(side, n) ==
  /\ Disturb
  /\ child[root[side]] # 0
  /\ files' = [files EXCEPT ![child[root[side]]][n] = fresh]
  /\ UNCHANGED <<root, child>>

(***************************************************************************)
(* What is at a path, by name and below an open capability.                *)
(***************************************************************************)
Below(d) == IF d = 0 THEN 0 ELSE child[d]

ByPath(p) ==
  CASE p = "sourceRoot" -> root.source
    [] p = "source" -> Below(root.source)
    [] p = "targetRoot" -> root.target
    [] p = "target" -> Below(root.target)

\* The prepared workspace's capability stands on the recorded root.
ByCapability(w, p) ==
  CASE p = "sourceRoot" -> 1
    [] p = "source" -> child[1]
    [] p = "targetRoot" -> cap[w].base
    [] p = "target" -> Below(cap[w].base)

Named(w, n) ==
  LET d == IF n = "chunk" THEN child[1] ELSE Below(cap[w].base)
  IN  IF d = 0 THEN 0 ELSE files[d][n]

ArtifactName(c) == IF c.published THEN "final" ELSE "temporary"

AssertPin(w) ==
  LET c == cap[w]
      d == ByPath("target")
  IN  /\ \A p \in c.pushed : ByPath(p) = c.pins[p]
      /\ c.temporaryPin # 0 =>
           d # 0 /\ files[d][ArtifactName(c)] = c.temporaryPin

(***************************************************************************)
(* Closing.  A descriptor that is not open is closed twice.                *)
(***************************************************************************)
Without(c, S) == [c EXCEPT !.fds = @ \ S, !.twice = @ \/ ~(S \subseteq c.fds)]

Close(c) ==
  [Without(c, c.pushed
              \cup (IF c.base # 0 THEN {"capability"} ELSE {})
              \cup (IF c.temporaryPin # 0 THEN {"artifact"} ELSE {}))
     EXCEPT !.pc = "closed", !.bound = FALSE]

\* Descriptors of calls under way, closed by their catch or their finally, and
\* the writer, which the caller closes.
Unwound(w) ==
  cap[w].fds \cap
    CASE cap[w].pc \in {"pin_open", "pin_check", "base"} -> {"opened"}
      [] OTHER -> {"writer", "metadata", "temporary", "final", "chunk"}

\* createTemporary gives its anchor back before the capability closes.
\* Mutant: the pin of the anchor it closed is kept.
AbandonedAs(c) ==
  IF c.pc = "sync_created" THEN Without(c, {"artifact"}) ELSE c

Abandoned(c) ==
  IF c.pc = "sync_created"
  THEN [Without(c, {"artifact"}) EXCEPT !.temporaryPin = 0] ELSE c

Put(w, c) ==
  /\ cap' = [cap EXCEPT ![w] = c]
  /\ fence' = [d \in Objects |->
       IF "sourceRoot" \in c.fds THEN fence[d] ELSE fence[d] \ {w}]

Fail(w) ==
  /\ Put(w, Close(Without(Abandoned(cap[w]), Unwound(w))))
  /\ UNCHANGED <<world, journal, touched, moved>>

To(c, pc) == [c EXCEPT !.pc = pc, !.ready = FALSE]
Take(c, fd) == [c EXCEPT !.fds = @ \cup {fd}]
At(w, pc) == cap[w].pc = pc
AtReady(w, pc) == At(w, pc) /\ cap[w].ready

Quiet == UNCHANGED <<world, journal, touched, moved, spent>>
GoOn(w, c) == Put(w, c) /\ Quiet

(***************************************************************************)
(* acquire: pin each directory, fence the source root, bind.               *)
(***************************************************************************)
Order == <<"sourceRoot", "source", "targetRoot", "target">>
Current(w) ==
  CHOOSE p \in Places \ cap[w].pushed :
    \A i \in 1..4 : Order[i] = p =>
      \A j \in 1..(i - 1) : Order[j] \in cap[w].pushed

Start(w) ==
  /\ At(w, "idle")
  /\ IF w = "first" THEN journal.state = "none"
     ELSE journal.state \notin {"none", "cleaned"}
  /\ root.source = 1                    \* the workspace's recorded root
  /\ GoOn(w, [To(cap[w], "pin_stat") EXCEPT !.read = journal.target,
               !.was = IF w = "first" THEN @ ELSE journal.state])

\* Where pinning continues once a directory is pinned.
AfterPin(w, p) ==
  CASE p = "sourceRoot" -> "lock"
    [] p = "source" -> "open_target"
    [] p = "targetRoot" -> IF w = "first" THEN "mkdir" ELSE "pin_stat"
    [] p = "target" -> "bind"

PinStat(w) ==
  /\ At(w, "pin_stat")
  /\ LET d == ByCapability(w, Current(w))
     IN  IF d = 0 THEN Fail(w) /\ UNCHANGED spent
         ELSE GoOn(w, [To(cap[w], "pin_open") EXCEPT !.seen = d])

PinOpen(w) ==
  /\ At(w, "pin_open")
  /\ IF ByPath(Current(w)) # cap[w].seen THEN Fail(w) /\ UNCHANGED spent
     ELSE GoOn(w, Take(To(cap[w], "pin_check"), "opened"))

PinCheck(w) ==
  /\ At(w, "pin_check")
  /\ LET p == Current(w)
         c == cap[w]
     IN  IF ByPath(p) # c.seen THEN Fail(w) /\ UNCHANGED spent
         ELSE GoOn(w, [To(c, AfterPin(w, p)) EXCEPT
                !.pins = [@ EXCEPT ![p] = c.seen], !.pushed = @ \cup {p},
                !.fds = (@ \ {"opened"}) \cup {p}])

Lock(w) ==
  /\ At(w, "lock")
  /\ IF fence[cap[w].pins.sourceRoot] # {} THEN Fail(w) /\ UNCHANGED spent
     ELSE /\ cap' = [cap EXCEPT ![w] = To(cap[w], "pin_stat")]
          /\ fence' = [fence EXCEPT ![cap[w].pins.sourceRoot] = {w}]
          /\ Quiet

OpenTarget(w) ==
  /\ At(w, "open_target")
  /\ GoOn(w, [Take(To(cap[w], "base"), "opened") EXCEPT !.seen = root.target])

Base(w) ==
  /\ At(w, "base")
  /\ IF root.target # cap[w].seen THEN Fail(w) /\ UNCHANGED spent
     ELSE GoOn(w, Take(Without([To(cap[w], "pin_stat") EXCEPT
            !.base = cap[w].seen], {"opened"}), "capability"))

Mkdir(w) ==
  /\ At(w, "mkdir")
  /\ IF child[cap[w].base] # 0 THEN UNCHANGED world
     ELSE /\ fresh \in Objects /\ fresh' = fresh + 1
          /\ child' = [child EXCEPT ![cap[w].base] = fresh]
          /\ UNCHANGED <<root, files>>
  /\ Put(w, To(cap[w], "pin_stat"))
  /\ UNCHANGED <<journal, touched, moved, spent>>

AfterBind(w) == IF w = "first" THEN "begin" ELSE "reopen_temporary"

Bind(w) ==
  /\ At(w, "bind")
  /\ IF \/ w = "recovery" /\ cap[w].pins # journal.pins
        \/ ~AssertPin(w)
     THEN Fail(w) /\ UNCHANGED spent
     ELSE GoOn(w, [To(cap[w], AfterBind(w)) EXCEPT !.bound = TRUE])

(***************************************************************************)
(* Every operation first asserts the binding.                              *)
(***************************************************************************)
Asserted == {"create", "metadata", "intent", "publish", "ack", "commit",
             "reopen_temporary", "reopen_final", "resume", "reset", "durable",
             "look_temporary", "look_final", "sync_found", "clean",
             "sync_source"}

Assert(w) ==
  /\ cap[w].pc \in Asserted /\ ~cap[w].ready
  /\ IF AssertPin(w) THEN GoOn(w, [cap[w] EXCEPT !.ready = TRUE])
     ELSE Fail(w) /\ UNCHANGED spent

Begin(w) ==
  /\ At(w, "begin")
  /\ journal' = [journal EXCEPT !.state = "assembling", !.pins = cap[w].pins]
  /\ Put(w, To(cap[w], "create"))
  /\ UNCHANGED <<world, touched, moved, spent>>

Create(w) ==
  /\ AtReady(w, "create")
  /\ IF Below(cap[w].base) = 0 \/ Named(w, "temporary") # 0
     THEN Fail(w) /\ UNCHANGED spent
     ELSE /\ fresh \in Objects /\ fresh' = fresh + 1
          /\ files' = [files EXCEPT ![child[cap[w].base]].temporary = fresh]
          /\ Put(w, Take([To(cap[w], "anchor") EXCEPT !.seen = fresh],
                         "writer"))
          /\ UNCHANGED <<root, child, journal, touched, moved, spent>>

Anchor(w) ==
  /\ At(w, "anchor")
  /\ LET c == cap[w]
         n == Named(w, "temporary")
     IN  IF n # c.seen THEN Fail(w) /\ UNCHANGED spent
         ELSE GoOn(w, Take([To(c, "sync_created") EXCEPT
                !.temporaryPin = n, !.read = IF @ = 0 THEN n ELSE @],
                "artifact"))

SyncCreated(w) ==
  /\ At(w, "sync_created")
  /\ IF Below(cap[w].base) = 0 THEN Fail(w) /\ UNCHANGED spent
     ELSE GoOn(w, To(cap[w], "record"))

Record(w) ==
  /\ At(w, "record")
  /\ IF journal.target \notin {0, cap[w].seen} THEN Fail(w) /\ UNCHANGED spent
     ELSE /\ journal' = [journal EXCEPT !.target = cap[w].seen]
          /\ Put(w, IF w = "first" THEN To(cap[w], "verified")
                    ELSE Without(To(cap[w], "durable"), {"writer"}))
          /\ UNCHANGED <<world, touched, moved, spent>>

\* The copy is made and verified by its descriptor.
Verified(w) ==
  /\ At(w, "verified")
  /\ journal' = [journal EXCEPT !.state = "verified"]
  /\ Put(w, To(cap[w], IF w = "first" THEN "metadata" ELSE "look_temporary"))
  /\ UNCHANGED <<world, touched, moved, spent>>

OpenMetadata(w) ==
  /\ AtReady(w, "metadata")
  /\ IF Named(w, "temporary") # cap[w].temporaryPin
     THEN Fail(w) /\ UNCHANGED spent
     ELSE GoOn(w, Take(To(cap[w], "read_metadata"), "metadata"))

\* Metadata read, its descriptor and then the writer are closed.
CloseWriter(w) ==
  /\ At(w, "read_metadata")
  /\ GoOn(w, Without(To(cap[w], "intent"), {"metadata", "writer"}))

Intent(w) ==
  /\ AtReady(w, "intent")
  /\ journal' = [journal EXCEPT !.state = "publishing"]
  /\ Put(w, To(cap[w], "publish"))
  /\ UNCHANGED <<world, touched, moved, spent>>

Publish(w) ==
  /\ AtReady(w, "publish")
  /\ LET n == Named(w, "temporary")
         d == Below(cap[w].base)
     IN  IF n = 0 \/ Named(w, "final") # 0 THEN Fail(w) /\ UNCHANGED spent
         ELSE /\ files' = [files EXCEPT ![d].temporary = 0, ![d].final = n]
              /\ moved' = moved \cup {[dir |-> d, ino |-> n]}
              /\ Put(w, [To(cap[w], "ack") EXCEPT !.published = TRUE])
              /\ UNCHANGED <<root, child, fresh, journal, touched, spent>>

\* The directory is synced, the binding asserted, the transition committed.
\* Mutant: nothing is compared once the rename returned.
AckAs(w) ==
  /\ At(w, "ack")
  /\ journal' = [journal EXCEPT !.state = "published"]
  /\ Put(w, To(cap[w], "commit"))
  /\ UNCHANGED <<world, touched, moved, spent>>

Ack(w) ==
  /\ AtReady(w, "ack")
  /\ journal' = [journal EXCEPT !.state = "published"]
  /\ Put(w, To(cap[w], "commit"))
  /\ UNCHANGED <<world, touched, moved, spent>>

Commit(w) ==
  /\ AtReady(w, "commit")
  /\ journal' = [journal EXCEPT !.state = "committed"]
  /\ Put(w, IF w = "first" THEN Close(cap[w]) ELSE To(cap[w], "clean"))
  /\ UNCHANGED <<world, touched, moved, spent>>

(***************************************************************************)
(* reopen and recover.                                                     *)
(***************************************************************************)
\* What inspectTarget hands out has the journalled identity.
Unowned(w, n) == Named(w, n) \notin {0, cap[w].read}

Inspect(w, pc, n, then) ==
  /\ AtReady(w, pc)
  /\ IF Unowned(w, n) THEN Fail(w) /\ UNCHANGED spent
     ELSE GoOn(w, IF Named(w, n) = 0 THEN To(cap[w], then)
                  ELSE Take([To(cap[w], then) EXCEPT !.seen = Named(w, n)], n))

Reopen(w) ==
  \/ Inspect(w, "reopen_temporary", "temporary", "reopen_final")
  \/ Inspect(w, "reopen_final", "final", "adopt")

Adopt(w) ==
  /\ At(w, "adopt")
  /\ LET found == cap[w].fds \cap {"temporary", "final"}
         c == To(cap[w], "confirm")
     IN  IF found = {"temporary", "final"} THEN Fail(w) /\ UNCHANGED spent
         ELSE IF found = {} THEN GoOn(w, c)
         ELSE GoOn(w, [c EXCEPT !.fds = (@ \ found) \cup {"artifact"},
                !.temporaryPin = c.seen, !.published = "final" \in found])

\* The journal is read again under the fence.
Confirm(w) ==
  /\ At(w, "confirm")
  /\ IF journal.target # cap[w].read \/ journal.state # cap[w].was
     THEN Fail(w) /\ UNCHANGED spent
     ELSE GoOn(w, To(cap[w],
            CASE journal.state = "assembling" -> "resume"
              [] journal.state \in {"verified", "publishing"} ->
                   "look_temporary"
              [] journal.state = "published" -> "commit"
              [] OTHER -> "clean"))

\* With no temporary a new one is made; one may already be whole.
Resume(w) ==
  /\ AtReady(w, "resume")
  /\ LET n == Named(w, "temporary")
     IN  IF \/ Named(w, "final") # 0 \/ Unowned(w, "temporary")
            \/ n = 0 /\ journal.target # 0
         THEN Fail(w) /\ UNCHANGED spent
         ELSE \/ n # 0 /\ GoOn(w, To(cap[w], "durable"))
              \/ /\ Named(w, "chunk") = 4       \* every source chunk verifies
                 /\ GoOn(w, [To(cap[w], IF n = 0 THEN "create" ELSE "reset")
                               EXCEPT !.seen = n])
              \/ Named(w, "chunk") # 4 /\ Fail(w) /\ UNCHANGED spent

ResetTemporary(w) ==
  /\ AtReady(w, "reset")
  /\ LET n == Named(w, "temporary")
     IN  IF cap[w].temporaryPin = 0 \/ Unowned(w, "temporary") \/ n = 0
         THEN Fail(w) /\ UNCHANGED spent
         ELSE /\ touched' = touched \cup {n}
              /\ Put(w, Take([To(cap[w], "record") EXCEPT !.seen = n],
                             "writer"))
              /\ UNCHANGED <<world, journal, moved, spent>>

SyncTarget(w) ==
  /\ AtReady(w, "durable")
  /\ IF cap[w].temporaryPin = 0 \/ ~AssertPin(w)
     THEN Fail(w) /\ UNCHANGED spent
     ELSE GoOn(w, To(cap[w], "verified"))

Look(w) ==
  \/ Inspect(w, "look_temporary", "temporary", "look_final")
  \/ Inspect(w, "look_final", "final", "sync_found")

\* Exactly one artifact; a verified operation has not named its file yet.
SyncFound(w) ==
  /\ AtReady(w, "sync_found")
  /\ LET found == cap[w].fds \cap {"temporary", "final"}
         c == Without(To(cap[w], "intent"), found)
     IN  IF \/ found \in {{}, {"temporary", "final"}}
            \/ journal.state = "verified" /\ "final" \in found
            \/ cap[w].temporaryPin = 0 \/ cap[w].published # ("final" \in found)
         THEN Fail(w) /\ UNCHANGED spent
         ELSE GoOn(w, IF "final" \in found THEN To(c, "ack")
                      ELSE IF journal.state = "verified" THEN c
                      ELSE To(c, "publish"))

RemoveChunk(w) ==
  /\ AtReady(w, "clean")
  /\ LET n == Named(w, "chunk")
     IN  IF n = 0 THEN GoOn(w, To(cap[w], "sync_source"))
         ELSE IF n # 4 THEN Fail(w) /\ UNCHANGED spent
         ELSE /\ files' = [files EXCEPT ![child[1]].chunk = 0]
              /\ touched' = touched \cup {n}
              /\ Put(w, To(cap[w], "sync_source"))
              /\ UNCHANGED <<root, child, fresh, journal, moved, spent>>

SyncSource(w) ==
  /\ AtReady(w, "sync_source")
  /\ IF child[1] = 0 \/ ~AssertPin(w) THEN Fail(w) /\ UNCHANGED spent
     ELSE /\ journal' = [journal EXCEPT !.state = "cleaned"]
          /\ Put(w, Close(cap[w]))
          /\ UNCHANGED <<world, touched, moved, spent>>

(***************************************************************************)
(* A call fails; a process dies, and with it its descriptors.              *)
(***************************************************************************)
Throw(w) ==
  /\ cap[w].pc \notin {"idle", "closed", "dead"} /\ spent.fault < MaxFaults
  /\ Fail(w) /\ spent' = [spent EXCEPT !.fault = @ + 1]

Die(w) ==
  /\ cap[w].pc \notin {"idle", "closed", "dead"} /\ spent.fault < MaxFaults
  /\ Put(w, [Unused EXCEPT !.pc = "dead"])
  /\ spent' = [spent EXCEPT !.fault = @ + 1]
  /\ UNCHANGED <<world, journal, touched, moved>>

\* Recovery is run again.
Again(w) ==
  /\ w = "recovery" /\ cap[w].pc \in {"closed", "dead"}
  /\ ~cap[w].twice /\ cap[w].fds = {}
  /\ journal.state # "cleaned"
  /\ Put(w, Unused) /\ Quiet

Acquire(w) ==
  Start(w) \/ PinStat(w) \/ PinOpen(w) \/ PinCheck(w) \/ Lock(w)
    \/ OpenTarget(w) \/ Base(w) \/ Mkdir(w) \/ Bind(w)

Operate(w) ==
  Assert(w) \/ Begin(w) \/ Create(w) \/ Anchor(w) \/ SyncCreated(w)
    \/ Record(w) \/ Verified(w) \/ OpenMetadata(w) \/ CloseWriter(w)
    \/ Intent(w) \/ Publish(w) \/ Ack(w) \/ Commit(w)

Recover(w) ==
  Reopen(w) \/ Adopt(w) \/ Confirm(w) \/ Resume(w) \/ ResetTemporary(w)
    \/ SyncTarget(w) \/ Look(w) \/ SyncFound(w) \/ RemoveChunk(w)
    \/ SyncSource(w)

World ==
  \/ \E side \in {"source", "target"} :
       ReplaceRoot(side) \/ ReplaceDirectory(side)
  \/ ReplaceFile("source", "chunk")
  \/ \E n \in {"temporary", "final"} : ReplaceFile("target", n)

Next ==
  \/ World
  \/ \E w \in Workers :
       Acquire(w) \/ Operate(w) \/ Recover(w) \/ Throw(w) \/ Die(w) \/ Again(w)

Spec == Init /\ [][Next]_vars

\* However a finalization ends, at whatever call, every descriptor it opened
\* is closed, each one once: none is leaked by a refused recovery, and no
\* number that another request got meanwhile is closed under it.
ClosesEach ==
  \A w \in Workers :
    /\ cap[w].pc = "closed" => cap[w].fds = {}
    /\ ~cap[w].twice

\* Never are two workers at one operation, whatever became of the paths.
OneOwner == ~(cap["first"].bound /\ cap["recovery"].bound)

\* What the journal calls published was renamed, under its final name, in the
\* directory the journal has, and is the file whose identity it recorded.
PublishedInPlace ==
  journal.state \in {"published", "committed", "cleaned"} =>
    [dir |-> journal.pins.target, ino |-> journal.target] \in moved

\* Only the operation's own temporary is ever truncated, and only the chunk
\* that was uploaded unlinked.
TouchesItsOwn == touched \subseteq {journal.target, 4}

\* A worker that is bound to an operation works in the journalled directories.
BoundAsJournalled ==
  \A w \in Workers :
    cap[w].bound /\ journal.state # "none" => cap[w].pins = journal.pins
=============================================================================
