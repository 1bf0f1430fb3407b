--------------------------- MODULE AdmittedUploads ---------------------------
(***************************************************************************)
(* What lets an upload in: its size against the limits of its owner, once  *)
(* (UploadLimits), each request with a chunk against rate, leases and the  *)
(* lock on the workspace (UploadAdmission), and each inspection against    *)
(* the volume that was pinned (StorageMounts); and how long the browser    *)
(* waits when a request is not let in (Retries).  They share no state.     *)
(*                                                                         *)
(* For TLC, one of them at a time: `part` says which.  Requests run with   *)
(* two buckets, and with one that the users displace each other from.      *)
(* Volumes are in four instances: reads, writes and probes of an enrolled  *)
(* volume that may be exchanged for another, probes on the host of a       *)
(* developer, chunks, and an enrolment.                                    *)
(***************************************************************************)
EXTENDS UploadAdmission

CONSTANTS
  MaxSafe, ChunkSize, Configs, Accounts, Sizes, Rooms,    \* of UploadLimits
  Attempts, MaxWait, Window, Cancelling, Replaying, MaxAsked,    \* of Retries
  home, fast, spare, system,                              \* volumes
  Volumes, System, HddVolume, SsdVolume, Legacy, Ssd, Inodes, Enrolled,
  Production, Ops, None, MaxChanges, MaxClock, MaxCalls, MaxStarts,
  MaxEnrolments                                           \* of StorageMounts

VARIABLES
  part,
  config, user, size, told, session, sent, stage,       \* UploadLimits
  st, step, call, budget, own, abort, till, barred, waited,  \* Retries
  at, nested, vol, clock, changes, pins, anchors, born,  \* StorageMounts
  ws, proc, check, counts, landed, enrol

L == INSTANCE UploadLimits WITH Users <- Accounts

W == INSTANCE Retries WITH stage <- step

V == INSTANCE StorageMounts WITH call <- check

ASSUME LimitsAssumption == L!LimitsFit
ASSUME WaitsAssumption  == W!RetriesFit
ASSUME VolumesAssumption == V!VolumesFit

requests == vars
limits   == <<config, user, size, told, session, sent, stage>>
waits    == <<st, step, call, budget, own, abort, till, barred, waited>>
volumes  == <<at, nested, vol, clock, changes, pins, anchors, born, ws, proc,
              check, counts, landed, enrol>>
mcvars   == <<part, limits, requests, waits, volumes>>

SmallConfigs ==
  [mode: {"legacy", "ssd"}, maxFile: {0, 4, 7}, maxTotal: {0, 5},
   maxChunk: {1, 3}, maxChunks: 1..3]
SmallAccounts == [quota: {0, 5, 9}, used: {0, 2, 6}, active: {0, 1, 4, 6}]
SmallSizes == 1..10

OneBucket == INSTANCE UploadAdmission WITH MaxKeys <- 1, MaxTime <- 2

\* Write probes, on a host of a developer.
Probes == INSTANCE StorageMounts WITH
  Volumes <- {home, fast, system}, Enrolled <- {home}, Production <- FALSE,
  Ops <- {"probe"}, MaxClock <- 0, MaxCalls <- 1, MaxStarts <- 2,
  call <- check

Chunks == INSTANCE StorageMounts WITH
  Volumes <- {home, fast, system}, Enrolled <- {home}, Inodes <- {1, 2, 3},
  Ops <- {"chunk"}, MaxClock <- 0, MaxCalls <- 4, call <- check

Enrols == INSTANCE StorageMounts WITH
  Volumes <- {home, fast, system}, Enrolled <- {}, Ops <- {}, MaxChanges <- 1,
  MaxClock <- 0, MaxCalls <- 1, MaxEnrolments <- 2, call <- check

\* Where the limits stay while requests run.
Resting == config.mode = "ssd" /\ config.maxFile = 0 /\ config.maxTotal = 0
           /\ config.maxChunk = 1 /\ config.maxChunks = 1 /\ size = 1
           /\ user = [quota |-> 0, used |-> 0, active |-> 0]

\* Numbers of inodes are only compared, and which two are taken first does not
\* matter; what does not run has one initial state.
MCInit ==
  /\ part \in {"limits", "requests", "bucket", "waits", "mounts", "probes",
              "chunks", "enrols"}
  /\ W!Init
  /\ L!Init /\ (part = "limits" \/ Resting)
  /\ Init
  /\ CASE part = "probes" -> Probes!Init
       [] part = "chunks" -> Chunks!Init
       [] part = "enrols" -> Enrols!Init
       [] OTHER -> V!Init
  /\ vol[HddVolume].tmp.ino = 2 /\ vol[SsdVolume].marker.ino = 1

MCNext ==
  /\ part' = part
  /\ \/ part = "limits" /\ L!Next /\ UNCHANGED <<requests, waits, volumes>>
     \/ part = "requests" /\ Next /\ UNCHANGED <<limits, waits, volumes>>
     \/ /\ part = "bucket" /\ OneBucket!Next
        /\ UNCHANGED <<limits, waits, volumes>>
     \/ part = "waits" /\ W!Next /\ UNCHANGED <<limits, requests, volumes>>
     \/ /\ \/ part = "mounts" /\ V!Next
           \/ part = "probes" /\ Probes!Next
           \/ part = "chunks" /\ Chunks!Next
           \/ part = "enrols" /\ Enrols!Next
        /\ UNCHANGED <<limits, requests, waits>>

\* The fairness of UploadAdmission's FairSpec.
Run(A) == part = "requests" /\ A /\ UNCHANGED <<part, limits, waits, volumes>>

Fairness ==
  \A r \in Requests :
    /\ WF_mcvars(Run(Resolve(r) \/ TryLock(r) \/ Acquire(r) \/ Refuse(r)))
    /\ WF_mcvars(Run(Open(r) \/ Unparsed(r)))
    /\ WF_mcvars(Run(Finish(r) \/ Break(r)))
    /\ WF_mcvars(Run(Close(r))) /\ WF_mcvars(Run(Serve(r)))
    /\ WF_mcvars(Run(Served(r))) /\ WF_mcvars(Run(Finalize(r)))

MCSpec == MCInit /\ [][MCNext]_mcvars /\ Fairness
-----------------------------------------------------------------------------
\* A file is refused only for a reason, and one that is admitted is sent whole.
AdmittedWhole == L!AdmittedWhole

\* The limits an owner is told are those of the service, as far as the moment
\* and the room on the volumes allow, and none is exceeded.
LimitsTrue == L!LimitsTrue

\* The counters are the leases that are out, within the limits; dropping idle
\* buckets gives nobody more than their rate; a handler at work has its lease
\* and lock; and a request that is over leaves no file, lock or lease.
LeasesAccount == CountersAgree /\ RateHeld /\ WorkProtected /\ NothingLeft

\* The file of a request is kept while its handler or writer needs it.
FilesKept == [][FileKept]_requests

\* The workspace lock comes back, or every other SSD upload would be refused;
\* and a file is not taken from who needs it in order to give it back.
KeptThenReturned == FilesKept /\ (part = "requests" => LockReturned)

\* Between two acts of the user the browser waits no more for an upload than
\* one window and what an earlier answer asks for yet, and no request of the
\* retry loop goes out before the time an answer asked to wait for.
WindowKept == W!WindowKept
NeverEarly == W!NeverEarly

\* What an inspection admits is the volume that was pinned, the enrolled one in
\* production, whatever was mounted or rewritten since; an object's path stays
\* inside, a probe that ends well leaves nothing; chunks land where their call
\* looked, all in one directory, and not on the permanent filesystem; an
\* enrolment that was reported survives a power loss.
VolumeKept ==
  /\ part # "probes" => V!AdmitsPinned /\ V!AdmitsEnrolled
  /\ V!StaysInside /\ V!ProbeGone
  /\ V!LandsWhereShown /\ V!OneDirectory /\ V!SsdApart
  /\ V!EnrolmentDurable
=============================================================================
