--------------------------- MODULE StorageMounts ---------------------------
(***************************************************************************)
(* Which filesystem the program writes to: StorageMountRegistry with its   *)
(* pins and marker anchors, StorageRegistry's component checks, the upload *)
(* workspaces that pin a directory, the descriptor boundary their writes   *)
(* go through, and the operator's enrolment of a volume.                   *)
(*                                                                         *)
(* The code is one Node process whose checks are synchronous, so a call    *)
(* meets no other call.  What moves under it is the world: a volume is     *)
(* mounted over the root or taken away, a marker or a .tmp is replaced, a  *)
(* filesystem turns read-only.  Each system call is a step, the world may  *)
(* change between any two, and call.calm is lost when it does: the code    *)
(* promises to see a replacement that is over, not one that races it.      *)
(* Inode numbers and timestamps are reused as the kernel reuses them;      *)
(* `made' is the ghost that tells files apart for good.                    *)
(***************************************************************************)
EXTENDS Integers, FiniteSets

CONSTANTS Volumes,      \* filesystems
          System,       \* the one below an unmounted root: no mount entry
          HddVolume,    \* mounted at the permanent root at first
          SsdVolume,    \* mounted at the SSD root, as its binding expects
          Legacy,       \* UploadWorkspaceResolvers, each pins by itself
          Ssd,          \* the one PreparedSsdWorkspace
          Inodes,       \* inode numbers of a filesystem
          Enrolled,     \* the volumes enrolled as permanent storage
          Production,   \* whether NODE_ENV is production
          Ops,          \* the calls the process makes
          None,         \* nothing there
          MaxChanges, MaxClock, MaxCalls, MaxStarts, MaxEnrolments

VolumesFit ==
  /\ {HddVolume, SsdVolume, System} \subseteq Volumes
  /\ Ops \subseteq {"probe", "read", "write", "chunk"}
  /\ Production \in BOOLEAN
  /\ Ssd # None /\ None \notin Volumes \cup Legacy
  /\ None \notin [vol : Volumes, ino : Inodes \cup {0}, made : Int]
  /\ None \notin [ino : Inodes, tick : Int, made : Int,
                  text : {"hdd", "ssd", "blank"}]
  /\ None \notin [vol : Volumes, ino : Inodes, tick : Int]
  /\ None \notin [vol : Volumes, ino : Inodes]
  /\ None \notin [stat : Volumes, mount : Volumes \cup {None},
                  mark : [vol : Volumes, ino : Inodes, tick : Int]
                         \cup {None}]

VARIABLES at,       \* at[r]: the volume a root's pathname leads to
          nested,   \* nested[r]: something is mounted below the root
          vol,      \* what each volume holds
          clock,    \* the kernel's coarse clock
          changes,  \* changes of the world so far (bound, and ghost)
          pins,     \* StorageMountRegistry.pins
          anchors,  \* StorageMountRegistry.markerAnchors
          born,     \* ghost: which marker file each anchor holds
          ws,       \* the workspaces
          proc,     \* "down", "starting" or "up"
          call,     \* the call under way
          counts,   \* calls, starts and enrolments so far
          landed,   \* ghost: where this process's chunks went
          enrol     \* bootstrapLegacyMarker

world == <<at, nested, vol, clock, changes>>
registry == <<pins, anchors, born>>
vars == <<world, registry, ws, proc, call, counts, landed, enrol>>

Roots == {"hdd", "ssd"}
Workspaces == Legacy \cup {Ssd}

Dirs == [vol : Volumes, ino : Inodes \cup {0}, made : Int]

Free(v) ==
  Inodes \ ({x.ino : x \in {vol[v].marker} \ {None}} \cup {vol[v].tmp.ino}
            \cup {anchors[r].ino : r \in {q \in Roots : /\ anchors[q] # None
                                                        /\ anchors[q].vol = v}}
            \cup {ws[w].fd.ino : w \in {x \in Workspaces :
                                   ws[x].fd # None /\ ws[x].fd.vol = v}})

(* A removed file's number is free at once unless a descriptor holds it.   *)
FreeOnce(v, ino) ==
  LET held == {anchors[r].ino : r \in {q \in Roots : anchors[q] # None
                                                     /\ anchors[q].vol = v}}
              \cup {ws[w].fd.ino : w \in {x \in Workspaces :
                                   ws[x].fd # None /\ ws[x].fd.vol = v}}
  IN Free(v) \cup ({ino} \ held)

(* legacyBinding and ssdUploadBinding.                                     *)
RequiresMount(r) == r = "ssd" \/ Production
RequiresMarker(r) == r = "ssd" \/ Production

(* The directory a workspace is to pin: .tmp below the permanent root, the *)
(* mounted root of the SSD.                                                *)
DirAt(r) ==
  IF r = "hdd"
  THEN [vol |-> at[r], ino |-> vol[at[r]].tmp.ino, made |-> vol[at[r]].tmp.made]
  ELSE [vol |-> at[r], ino |-> 0, made |-> 0]
RealDir(r) == r = "ssd" \/ vol[at[r]].tmp.kind = "dir"

SameFile(d, e) == d.vol = e.vol /\ d.ino = e.ino

NoCall == [op |-> "none", w |-> None, root |-> "hdd", pc |-> "idle",
           stat |-> System, mount |-> None, ro |-> FALSE, mark |-> None,
           round |-> 1, failed |-> FALSE, calm |-> TRUE, shown |-> None]
NoWs == [fd |-> None, ident |-> None, boundary |-> None, failed |-> FALSE]

Goto(l) == call' = [call EXCEPT !.pc = l]
Undisturbed(c) == [c EXCEPT !.calm = FALSE]

----------------------------------------------------------------------------
Init ==
  /\ at = [r \in Roots |-> IF r = "hdd" THEN HddVolume ELSE SsdVolume]
  /\ nested = [r \in Roots |-> FALSE]
  /\ \E i, j \in Inodes :
       /\ i # j
       /\ vol = [v \in Volumes |->
            [marker |-> IF v \in Enrolled \cup {SsdVolume}
                        THEN [ino |-> i, tick |-> 0, made |-> 0,
                              text |-> IF v = SsdVolume THEN "ssd" ELSE "hdd"]
                        ELSE None,
             disk |-> IF v = SsdVolume THEN "ssd"
                      ELSE IF v \in Enrolled THEN "hdd" ELSE "none",
             ro |-> FALSE, tmp |-> [ino |-> j, kind |-> "dir", made |-> 0],
             user |-> "dir", probes |-> {}]]
  /\ clock = 0 /\ changes = 0
  /\ pins = [r \in Roots |-> None] /\ anchors = [r \in Roots |-> None]
  /\ born = [r \in Roots |-> None]
  /\ ws = [w \in Workspaces |-> NoWs]
  /\ proc = "down" /\ call = NoCall
  /\ counts = [calls |-> 0, starts |-> 0, enrolments |-> 0]
  /\ landed = {}
  /\ enrol = [pc |-> "idle", vol |-> None, at |-> 0,
              done |-> None, doneAt |-> 0]

----------------------------------------------------------------------------
(* The world.                                                              *)
Change ==
  /\ changes < MaxChanges /\ changes' = changes + 1
  /\ call' = Undisturbed(call)
  /\ UNCHANGED <<clock, registry, ws, proc, counts, landed, enrol>>

Remount(r, v) ==
  /\ Change /\ v # at[r] /\ at' = [at EXCEPT ![r] = v]
  /\ UNCHANGED <<nested, vol>>

Nest(r) ==
  /\ Change /\ nested' = [nested EXCEPT ![r] = ~@] /\ UNCHANGED <<at, vol>>

ReplaceMarker(v, text) ==
  /\ Change /\ vol[v].marker # None
  /\ \E i \in FreeOnce(v, vol[v].marker.ino) :
       vol' = [vol EXCEPT ![v].disk = text,
                          ![v].marker = [ino |-> i, tick |-> clock,
                                         text |-> text, made |-> changes + 1]]
  /\ UNCHANGED <<at, nested>>

RemoveMarker(v) ==
  /\ Change /\ vol[v].marker # None
  /\ vol' = [vol EXCEPT ![v].marker = None, ![v].disk = "none"]
  /\ UNCHANGED <<at, nested>>

ReplaceTmp(v, kind) ==
  /\ Change
  /\ \E i \in FreeOnce(v, vol[v].tmp.ino) :
       vol' = [vol EXCEPT ![v].tmp = [ino |-> i, kind |-> kind,
                                      made |-> changes + 1]]
  /\ UNCHANGED <<at, nested>>

LinkUserDirectory(v) ==
  /\ Change /\ vol[v].user = "dir" /\ vol' = [vol EXCEPT ![v].user = "link"]
  /\ UNCHANGED <<at, nested>>

ToggleReadOnly(v) ==
  /\ Change /\ vol' = [vol EXCEPT ![v].ro = ~@] /\ UNCHANGED <<at, nested>>

Tick ==
  /\ clock < MaxClock /\ clock' = clock + 1
  /\ UNCHANGED <<at, nested, vol, changes, registry, ws, proc, call, counts,
                 landed, enrol>>

----------------------------------------------------------------------------
(* The process.                                                            *)
Exit ==
  /\ proc' = "down" /\ call' = NoCall
  /\ pins' = [r \in Roots |-> None] /\ anchors' = [r \in Roots |-> None]
  /\ born' = [r \in Roots |-> None]
  /\ ws' = [w \in Workspaces |-> NoWs] /\ landed' = {}
  /\ UNCHANGED <<world, counts, enrol>>

(* onModuleDestroy, or the process is killed: descriptors close either way.*)
StopProcess == proc # "down" /\ Exit

(* StorageService's constructor inspects with a write probe.               *)
Start ==
  /\ proc = "down" /\ counts.starts < MaxStarts
  /\ proc' = "starting"
  /\ counts' = [counts EXCEPT !.starts = @ + 1, !.calls = @ + 1]
  /\ call' = [NoCall EXCEPT !.op = "probe", !.pc = "stat"]
  /\ UNCHANGED <<world, registry, ws, landed, enrol>>

Begin(op, w) ==
  /\ proc = "up" /\ call.pc = "idle" /\ counts.calls < MaxCalls
  /\ op \in Ops
  /\ op = "chunk" => ~ws[w].failed
  /\ counts' = [counts EXCEPT !.calls = @ + 1]
  /\ call' = [NoCall EXCEPT !.op = op, !.pc = "stat",
                            !.w = IF op = "chunk" THEN w ELSE None,
                            !.root = IF op = "chunk" /\ w = Ssd THEN "ssd"
                                     ELSE "hdd"]
  /\ UNCHANGED <<world, registry, ws, proc, landed, enrol>>

(* A refusal.  assertRoot latches the resolver, PreparedSsdWorkspace also  *)
(* closes; a failed start ends the process; a probe that is refused after  *)
(* it has written still tries to clean up.                                 *)
Latched(w) ==
  IF w = Ssd THEN [NoWs EXCEPT !.failed = TRUE]
  ELSE [ws[w] EXCEPT !.failed = TRUE]

Refuse ==
  IF call.op = "chunk"
  THEN /\ call' = NoCall /\ ws' = [ws EXCEPT ![call.w] = Latched(call.w)]
       /\ UNCHANGED <<world, registry, proc, counts, landed, enrol>>
  ELSE IF call.op = "probe" /\ call.round = 2
  THEN /\ call' = [call EXCEPT !.failed = TRUE, !.round = 3, !.pc = "stat"]
       /\ UNCHANGED <<world, registry, ws, proc, counts, landed, enrol>>
  ELSE IF call.op = "probe" /\ call.round = 3 /\ ~call.failed
  THEN /\ Goto("verdict")
       /\ UNCHANGED <<world, registry, ws, proc, counts, landed, enrol>>
  ELSE IF proc = "starting" THEN Exit
  ELSE /\ call' = NoCall
       /\ UNCHANGED <<world, registry, ws, proc, counts, landed, enrol>>

Steady == UNCHANGED <<world, registry, ws, proc, counts, landed, enrol>>
Go(c) == call' = c /\ Steady

(* inspect: lstat of the root ...                                          *)
StatRoot ==
  /\ call.pc = "stat"
  /\ Go([call EXCEPT !.stat = at[call.root],
           !.pc = IF RequiresMount(call.root) THEN "mount" ELSE "marker"])

(* ... /proc/self/mountinfo: exactly this mount, nothing below it, and for *)
(* the SSD the configured source ...                                       *)
ExactMount(r) ==
  /\ at[r] # System /\ ~nested[r]
  /\ r = "ssd" => at[r] = SsdVolume

ReadMount ==
  /\ call.pc = "mount"
  /\ IF ExactMount(call.root)
     THEN Go([call EXCEPT !.mount = at[call.root], !.ro = vol[at[call.root]].ro,
                          !.pc = "marker"])
     ELSE Refuse

(* ... readMarker: on the device of the root, with the contents the        *)
(* binding asks for ...                                                    *)
SeesMarker(r) == vol[at[r]].marker # None
MarkerFits(r) ==
  /\ SeesMarker(r) /\ at[r] = call.stat /\ vol[at[r]].marker.text = r
MarkerStat(r) ==
  [vol |-> at[r], ino |-> vol[at[r]].marker.ino,
   tick |-> vol[at[r]].marker.tick]

Fingerprint(c) == [stat |-> c.stat, mount |-> c.mount, mark |-> c.mark]

ReadMarker ==
  /\ call.pc = "marker"
  /\ IF ~RequiresMarker(call.root) THEN Go([call EXCEPT !.pc = "compare"])
     ELSE IF MarkerFits(call.root)
     THEN Go([call EXCEPT !.mark = MarkerStat(call.root), !.pc = "compare"])
     ELSE Refuse

(* ... and the comparison with the pin.                                    *)
Unpinned(r) == pins[r] = None
ComparePin ==
  /\ call.pc = "compare"
  /\ IF Unpinned(call.root) THEN Go([call EXCEPT !.pc = "pin"])
     ELSE IF pins[call.root] = Fingerprint(call)
     THEN Go([call EXCEPT !.pc = "rights"])
     ELSE Refuse

\* Mutant: the pin is kept without the descriptor.
AnchorOfAs(r) == None

(* The first inspection opens the marker again, reads it through the       *)
(* descriptor, and keeps the descriptor: a marker that is held cannot give *)
(* its inode number to another.                                            *)
AnchorOf(r) == [vol |-> at[r], ino |-> vol[at[r]].marker.ino]

Pin ==
  /\ call.pc = "pin"
  /\ LET r == call.root IN
     IF ~RequiresMarker(r)
     THEN /\ pins' = [pins EXCEPT ![r] = Fingerprint(call)]
          /\ Goto("rights")
          /\ UNCHANGED <<world, anchors, born, ws, proc, counts, landed, enrol>>
     ELSE IF MarkerFits(r) /\ MarkerStat(r) = call.mark
     THEN /\ pins' = [pins EXCEPT ![r] = Fingerprint(call)]
          /\ anchors' = [anchors EXCEPT ![r] = AnchorOf(r)]
          /\ born' = [born EXCEPT ![r] = vol[at[r]].marker.made]
          /\ Goto("rights")
          /\ UNCHANGED <<world, ws, proc, counts, landed, enrol>>
     ELSE Refuse

(* Read-only by the mount's options as read, or by access(W_OK) now.       *)
Writes(op) == op # "read"
Admitted ==
  IF call.op = "probe"
  THEN IF call.round = 1 THEN "probe"
       ELSE IF call.round = 2 THEN "again" ELSE "unlink"
  ELSE IF call.op = "chunk"
  THEN IF call.w = Ssd THEN "apart" ELSE "tmp"
  ELSE "object"

CheckRights ==
  /\ call.pc = "rights"
  /\ IF Writes(call.op) /\ (call.ro \/ vol[at[call.root]].ro) THEN Refuse
     ELSE Go([call EXCEPT !.pc = Admitted])

(* The write probe, the fresh inspection, the last one, the removal.       *)
WriteProbe ==
  /\ call.pc = "probe"
  /\ LET v == at["hdd"] IN
     IF vol[v].ro THEN Refuse
     ELSE /\ vol' = [vol EXCEPT ![v].probes = @ \cup {counts.calls}]
          /\ call' = [call EXCEPT !.round = 2, !.pc = "stat"]
          /\ UNCHANGED <<at, nested, clock, changes, registry, ws, proc, counts,
                         landed, enrol>>

Again ==
  /\ call.pc = "again" /\ Go([call EXCEPT !.round = 3, !.pc = "stat"])

Unlinks == {counts.calls}

UnlinkProbe ==
  /\ call.pc = "unlink"
  /\ LET v == at["hdd"] IN
     IF counts.calls \in vol[v].probes /\ ~vol[v].ro
     THEN /\ vol' = [vol EXCEPT ![v].probes = @ \ Unlinks]
          /\ IF call.failed THEN call' = NoCall ELSE Goto("verdict")
          /\ IF call.failed /\ proc = "starting"
             THEN /\ proc' = "down"
                  /\ pins' = [r \in Roots |-> None]
                  /\ anchors' = [r \in Roots |-> None]
                  /\ born' = [r \in Roots |-> None]
             ELSE UNCHANGED <<registry, proc>>
          /\ UNCHANGED <<at, nested, clock, changes, ws, counts, landed, enrol>>
     ELSE /\ call' = [call EXCEPT !.failed = TRUE, !.pc = "verdict"] /\ Steady

(* The verdict; a starting service then wants its .tmp.                    *)
Verdict ==
  /\ call.pc = "verdict"
  /\ IF call.failed \/ (proc = "starting" /\ ~RealDir("hdd"))
     THEN IF proc = "starting" THEN Exit ELSE Go(NoCall)
     ELSE /\ proc' = "up" /\ call' = NoCall
          /\ UNCHANGED <<world, registry, ws, counts, landed, enrol>>

----------------------------------------------------------------------------
(* An object of the permanent storage: checkComponents, then a path.       *)
Confined(v) == vol[v].user = "dir"

CheckObject ==
  /\ call.pc = "object"
  /\ IF Confined(at["hdd"]) THEN Go([call EXCEPT !.pc = "use"]) ELSE Refuse

UseObject == call.pc = "use" /\ Go(NoCall)

----------------------------------------------------------------------------
(* A chunk goes through a workspace.  getPreparedSsdRoot first compares    *)
(* the devices of the two roots.                                           *)
Apart == at["ssd"] # at["hdd"]

CheckApart ==
  /\ call.pc = "apart"
  /\ IF Apart
     THEN Go([call EXCEPT !.pc = IF ws[Ssd].fd = None THEN "open" ELSE "check"])
     ELSE Refuse

(* assertTemporaryPath, and the lstat that the first use remembers.        *)
CheckTmp ==
  /\ call.pc = "tmp"
  /\ LET w == call.w IN
     IF ~RealDir("hdd") THEN Refuse
     ELSE IF ws[w].fd # None THEN Go([call EXCEPT !.pc = "check"])
     ELSE /\ ws' = [ws EXCEPT ![w].ident = DirAt("hdd")] /\ Goto("open")
          /\ UNCHANGED <<world, registry, proc, counts, landed, enrol>>

(* openSync without following a link.                                      *)
OpenRoot ==
  /\ call.pc = "open"
  /\ LET w == call.w r == call.root IN
     IF ~RealDir(r) THEN Refuse
     ELSE /\ ws' = [ws EXCEPT ![w].fd = DirAt(r),
                              ![w].ident = IF w = Ssd THEN DirAt(r) ELSE @]
          /\ Goto("bind")
          /\ UNCHANGED <<world, registry, proc, counts, landed, enrol>>

\* Mutant: the boundary takes what the path leads to now.
BindsAs(w, r) == RealDir(r)

(* SecureFilesystem opens the root by itself and compares.                 *)
Binds(w, r) == RealDir(r) /\ SameFile(DirAt(r), ws[w].fd)

BindBoundary ==
  /\ call.pc = "bind"
  /\ LET w == call.w r == call.root IN
     IF ~Binds(w, r) THEN Refuse
     ELSE /\ ws' = [ws EXCEPT ![w].boundary = DirAt(r)] /\ Goto("check")
          /\ UNCHANGED <<world, registry, proc, counts, landed, enrol>>

(* The path, the remembered identity and the descriptor agree.             *)
RootStands(w, r) ==
  /\ RealDir(r) /\ SameFile(DirAt(r), ws[w].ident)
  /\ SameFile(ws[w].fd, ws[w].ident)

CheckRoot ==
  /\ call.pc = "check"
  /\ IF RootStands(call.w, call.root)
     THEN Go([call EXCEPT !.pc = "write", !.shown = DirAt(call.root)])
     ELSE Refuse

(* Every write is relative to the boundary's descriptor.                   *)
WriteChunk ==
  /\ call.pc = "write"
  /\ landed' = landed \cup {[w |-> call.w, dir |-> ws[call.w].boundary,
                             shown |-> call.shown,
                             apart |-> call.calm => at["hdd"] #
                                         ws[call.w].boundary.vol]}
  /\ call' = NoCall
  /\ UNCHANGED <<world, registry, ws, proc, counts, enrol>>

----------------------------------------------------------------------------
(* bootstrapLegacyMarker, run by the operator: an exact, writable mount;   *)
(* O_EXCL; the text; fsync of the file; fsync of the directory.            *)
EnrolBegin ==
  /\ enrol.pc = "idle" /\ counts.enrolments < MaxEnrolments
  /\ at["hdd"] # System /\ ~nested["hdd"] /\ ~vol[at["hdd"]].ro
  /\ enrol' = [enrol EXCEPT !.pc = "create"]
  /\ counts' = [counts EXCEPT !.enrolments = @ + 1]
  /\ UNCHANGED <<world, registry, ws, proc, call, landed>>

EnrolCreate ==
  /\ enrol.pc = "create"
  /\ LET v == at["hdd"] IN
     IF vol[v].marker # None \/ vol[v].ro \/ Free(v) = {}
     THEN /\ enrol' = [enrol EXCEPT !.pc = "idle"] /\ UNCHANGED vol
     ELSE /\ \E i \in Free(v) :
               vol' = [vol EXCEPT ![v].marker = [ino |-> i, tick |-> clock,
                          text |-> "blank", made |-> changes + 1]]
          /\ enrol' = [enrol EXCEPT !.pc = "write", !.vol = v, !.at = changes]
  /\ UNCHANGED <<at, nested, clock, changes, registry, ws, proc, call, counts,
                 landed>>

(* A later change may have removed the file; what is written then is lost. *)
Holds(v) == vol[v].marker # None /\ changes = enrol.at
EnrolWrite ==
  /\ enrol.pc = "write"
  /\ vol' = IF Holds(enrol.vol)
            THEN [vol EXCEPT ![enrol.vol].marker =
                    [@ EXCEPT !.text = "hdd", !.tick = clock]]
            ELSE vol
  /\ enrol' = [enrol EXCEPT !.pc = "sync"]
  /\ UNCHANGED <<at, nested, clock, changes, registry, ws, proc, call, counts,
                 landed>>

(* The bytes are on the disk, the name may not be: the name is what the    *)
(* directory's fsync adds.                                                 *)
SyncFile(d) == IF d = "none" THEN "unnamed" ELSE d
SyncDirectory(d) == IF d = "unnamed" THEN "hdd" ELSE d

EnrolSync ==
  /\ enrol.pc \in {"sync", "dirsync"}
  /\ vol' = IF Holds(enrol.vol)
            THEN [vol EXCEPT ![enrol.vol].disk =
                    IF enrol.pc = "sync" THEN SyncFile(@) ELSE SyncDirectory(@)]
            ELSE vol
  /\ enrol' = IF enrol.pc = "sync" THEN [enrol EXCEPT !.pc = "dirsync"]
              ELSE [enrol EXCEPT !.pc = "idle", !.done = enrol.vol,
                                 !.doneAt = enrol.at]
  /\ UNCHANGED <<at, nested, clock, changes, registry, ws, proc, call, counts,
                 landed>>

(* Power is lost: a marker whose name or text was not synced may be gone   *)
(* or empty.                                                               *)
PowerLoss ==
  /\ enrol.pc # "idle" \/ enrol.done # None
  /\ \E lost \in {None, "blank"} :
       vol' = [v \in Volumes |->
         IF vol[v].marker = None \/ vol[v].disk \in Roots THEN vol[v]
         ELSE [vol[v] EXCEPT !.disk = "none",
                 !.marker = IF lost = None THEN None
                            ELSE [@ EXCEPT !.text = "blank"]]]
  /\ proc' = "down" /\ call' = NoCall
  /\ pins' = [r \in Roots |-> None] /\ anchors' = [r \in Roots |-> None]
  /\ born' = [r \in Roots |-> None]
  /\ ws' = [w \in Workspaces |-> NoWs] /\ landed' = {}
  /\ enrol' = [enrol EXCEPT !.pc = "idle"]
  /\ UNCHANGED <<at, nested, clock, changes, counts>>

----------------------------------------------------------------------------
WorldStep ==
  \/ \E r \in Roots, v \in Volumes : Remount(r, v)
  \/ \E r \in Roots : Nest(r)
  \/ \E v \in Volumes, text \in Roots : ReplaceMarker(v, text)
  \/ \E v \in Volumes : RemoveMarker(v) \/ LinkUserDirectory(v)
                        \/ ToggleReadOnly(v)
  \/ \E v \in Volumes, kind \in {"dir", "link"} : ReplaceTmp(v, kind)
  \/ Tick

InspectStep ==
  \/ StatRoot \/ ReadMount \/ ReadMarker \/ ComparePin \/ Pin \/ CheckRights
  \/ WriteProbe \/ Again \/ UnlinkProbe \/ Verdict

UseStep ==
  \/ CheckObject \/ UseObject \/ CheckApart \/ CheckTmp \/ OpenRoot
  \/ BindBoundary \/ CheckRoot \/ WriteChunk

Next ==
  \/ WorldStep \/ InspectStep \/ UseStep
  \/ Start \/ StopProcess \/ \E op \in Ops, w \in Workspaces : Begin(op, w)
  \/ EnrolBegin \/ EnrolCreate \/ EnrolWrite \/ EnrolSync \/ PowerLoss

Spec == Init /\ [][Next]_vars

----------------------------------------------------------------------------
(* What an inspection admits while nothing moves is the volume that was    *)
(* pinned when this process first saw the root, with the very marker file  *)
(* it had then: another volume, or another marker with the same number,    *)
(* time and text, is refused.                                              *)
AdmittedAt == {"probe", "again", "unlink", "object", "use", "apart", "tmp",
               "open", "bind", "check", "write"}
AdmitsPinned ==
  call.pc \in AdmittedAt /\ call.calm =>
    LET r == call.root IN
    /\ at[r] = pins[r].stat
    /\ RequiresMarker(r) => /\ vol[at[r]].marker # None
                            /\ vol[at[r]].marker.made = born[r]

(* In production it is an enrolled volume, mounted exactly there.          *)
AdmitsEnrolled ==
  call.pc \in AdmittedAt /\ call.calm =>
    LET r == call.root IN
    /\ RequiresMarker(r) => vol[at[r]].marker.text = r
    /\ RequiresMount(r) => at[r] # System /\ ~nested[r]

(* A chunk lands in the directory its own call saw at the path, whatever   *)
(* happened to the path since.                                             *)
LandsWhereShown == \A l \in landed : l.dir = l.shown

(* All the chunks that one workspace ever stores in a process are in one   *)
(* directory, also when another stood at its path in between.              *)
OneDirectory ==
  \A k, l \in landed : k.w = l.w => k.dir = l.dir

(* A chunk of the SSD is not on the permanent filesystem.                  *)
SsdApart == \A l \in landed : l.w = Ssd => l.apart

(* An object path that is used while nothing moves stays inside the root.  *)
StaysInside ==
  call.pc = "use" /\ call.calm => vol[at["hdd"]].user = "dir"

(* A probe that ends well leaves nothing behind.                           *)
ProbeGone ==
  call.pc = "verdict" /\ call.calm /\ ~call.failed =>
    \A v \in DOMAIN vol : counts.calls \notin vol[v].probes

(* A volume whose enrolment was reported stays enrolled through a power    *)
(* loss.                                                                   *)
EnrolmentDurable ==
  enrol.done # None /\ changes = enrol.doneAt =>
    /\ vol[enrol.done].marker # None
    /\ vol[enrol.done].marker.text = "hdd"
============================================================================
