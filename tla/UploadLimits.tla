----------------------------- MODULE UploadLimits -----------------------------
(***************************************************************************)
(* What an owner is told may be uploaded (getUploadLimits), how the        *)
(* browser cuts a file (uploadQueue.ts run), and what the server then      *)
(* admits and expects: UploadsService.createUploadSession and uploadChunk, *)
(* or those of SsdUploadsService, and the layout its finalization accepts. *)
(*                                                                         *)
(* Sizes are JavaScript numbers: past MaxSafe they are no longer exact,    *)
(* and a sum that gets there is refused by parseDatabaseSize.              *)
(***************************************************************************)
EXTENDS Integers, FiniteSets

CONSTANTS
  MaxSafe,      \* Number.MAX_SAFE_INTEGER
  ChunkSize,    \* UPLOAD_CHUNK_SIZE of the browser
  Configs,      \* limits of a deployment
  Users,        \* quota, bytes used, bytes in active sessions
  Sizes,        \* sizes of files
  Rooms         \* free bytes of a volume, less those active sessions may take

\* Mode and limits; no limit for a file or for all active uploads is zero.
ConfigType ==
  [mode: {"legacy", "ssd"}, maxFile: Nat, maxTotal: Nat,
   maxChunk: Nat \ {0}, maxChunks: Nat \ {0}]
UserType == [quota: Nat, used: Nat, active: Nat]

\* Limits are numbers that JavaScript has.
LimitsFit ==
  /\ MaxSafe \in Nat \ {0} /\ ChunkSize \in Nat \ {0}
  /\ Configs \subseteq ConfigType /\ Users \subseteq UserType
  /\ Sizes \subseteq Nat \ {0} /\ Rooms \subseteq Int
  /\ \A c \in Configs :
       c.maxFile <= MaxSafe /\ c.maxTotal <= MaxSafe /\ c.maxChunk <= MaxSafe
  /\ \A u \in Users : u.quota <= MaxSafe

VARIABLES
  config, user, size,
  told,       \* the limits the browser got
  session,    \* what was admitted
  sent,       \* chunks stored, with the bytes of each
  stage

vars == <<config, user, size, told, session, sent, stage>>

Least(a, b) == IF a <= b THEN a ELSE b
Most(a, b) == IF a <= b THEN b ELSE a
CeilDiv(a, b) == (a + b - 1) \div b
Safe(n) == n <= MaxSafe

(***************************************************************************)
(* getUploadLimits                                                         *)
(***************************************************************************)
\* A sum that is not exact fails the request.
LimitsFail(u) == ~Safe(u.active) \/ ~Safe(u.used) \/ ~Safe(u.used + u.active)

quotaRemainingBytes(u) == Most(0, u.quota - (u.used + u.active))
remainingActiveBytes(c, u) ==
  IF c.maxTotal > 0 THEN Most(0, c.maxTotal - u.active) ELSE MaxSafe
maxFileBytes(c) == IF c.maxFile > 0 THEN c.maxFile ELSE MaxSafe

\* Mutant: bytes of active sessions count against the quota only.
effectiveMaxFileBytesAs(c, u) ==
  Least(Least(maxFileBytes(c), IF c.maxTotal > 0 THEN c.maxTotal ELSE MaxSafe),
        Least(quotaRemainingBytes(u), Least(c.maxChunks * c.maxChunk, MaxSafe)))

effectiveMaxFileBytes(c, u) ==
  Least(Least(maxFileBytes(c), remainingActiveBytes(c, u)),
        Least(quotaRemainingBytes(u), Least(c.maxChunks * c.maxChunk, MaxSafe)))

(***************************************************************************)
(* The browser                                                             *)
(***************************************************************************)
\* Chunks grow beyond the usual size when there would be too many.
\* Mutant: they do not.
PlannedChunkAs(c, n) == Least(c.maxChunk, ChunkSize)
PlannedChunk(c, n) ==
  Least(c.maxChunk, Most(ChunkSize, CeilDiv(n, c.maxChunks)))

Offers(c, limit, n) ==
  n <= limit /\ CeilDiv(n, PlannedChunk(c, n)) <= c.maxChunks

\* The bytes of the file in the i-th chunk: file.slice.
Slice(n, k, i) == i * k .. (Least(i * k + k, n) - 1)

FitsLegacy(c, u, n) ==
  /\ c.maxTotal > 0 => n <= c.maxTotal
  /\ c.maxTotal > 0 => Safe(u.active + n) /\ u.active + n <= c.maxTotal
  /\ Safe(u.active) /\ Safe(u.used) /\ Safe(u.used + u.active)
  /\ Safe(u.used + u.active + n)
  /\ u.used + u.active + n <= u.quota

\* SsdUploadsService adds up with BigInt.
FitsSsd(c, u, n) ==
  /\ u.used + u.active + n <= u.quota
  /\ c.maxTotal > 0 => u.active + n <= c.maxTotal

\* SsdUploadsService.capacity: both volumes must hold the file and one chunk
\* more, beyond what the active sessions of everybody have yet to bring.
HasRoom(c, n, room) == n + c.maxChunk <= room

\* What both services compare with configuration and owner, in both the same
\* way but for the sums.
Admits(c, u, n, k) ==
  /\ Safe(n) /\ n > 0 /\ Safe(k) /\ k > 0
  /\ k <= c.maxChunk
  /\ c.maxFile > 0 => n <= c.maxFile
  /\ CeilDiv(n, k) <= c.maxChunks
  /\ IF c.mode = "ssd" THEN FitsSsd(c, u, n) ELSE FitsLegacy(c, u, n)

(***************************************************************************)
(* uploadChunk, validateLayout                                             *)
(***************************************************************************)
TotalChunks(n, k) == CeilDiv(n, k)

Expected(n, k, i) ==
  IF i = TotalChunks(n, k) - 1 THEN n - i * k ELSE k

AcceptsChunk(c, n, k, i, bytes) ==
  /\ i < TotalChunks(n, k) /\ n - i * k > 0
  /\ bytes = Expected(n, k, i) /\ bytes <= c.maxChunk

validateLayout(s) ==
  /\ s.size > 0 /\ s.chunk > 0 /\ s.chunks > 0
  /\ s.chunks = CeilDiv(s.size, s.chunk)

(***************************************************************************)
(* One upload, with others of its owner in between                         *)
(***************************************************************************)
Nothing == [size |-> 0, chunk |-> 0, chunks |-> 0]

Init ==
  /\ config \in Configs /\ user \in Users /\ size \in Sizes
  /\ told = -1 /\ session = Nothing /\ sent = {} /\ stage = "new"

Tell ==
  /\ stage = "new"
  /\ IF LimitsFail(user) THEN stage' = "failed" /\ UNCHANGED told
     ELSE /\ told' = effectiveMaxFileBytes(config, user)
          /\ stage' = IF Offers(config, told', size) THEN "told" ELSE "refused"
  /\ UNCHANGED <<config, user, size, session, sent>>

\* Another upload is admitted, or one ends: published or given up.
Others ==
  /\ stage = "told"
  /\ stage' = "stale"
  /\ user' \in
       {u \in Users :
          /\ u.quota = user.quota
          /\ \/ u.used = user.used /\ u.active # user.active
             \/ u.used + u.active = user.used + user.active
                  /\ u.used > user.used}
  /\ UNCHANGED <<config, size, told, session, sent>>

\* Neither volume's room is told to anybody; a lack of it is answered with 503.
NoRoom(ssd, hdd) ==
  /\ config.mode = "ssd"
  /\ ~HasRoom(config, size, ssd) \/ ~HasRoom(config, size, hdd)

CreateIn(ssd, hdd) ==
  /\ stage \in {"told", "stale"}
  /\ LET k == PlannedChunk(config, size) IN
     IF NoRoom(ssd, hdd)
     THEN stage' = "full" /\ UNCHANGED <<user, session>>
     ELSE IF Admits(config, user, size, k)
     THEN /\ session' = [size |-> size, chunk |-> k,
                         chunks |-> TotalChunks(size, k)]
          /\ user' = [user EXCEPT !.active = @ + size]
          /\ stage' = "admitted"
     ELSE stage' = "rejected" /\ UNCHANGED <<user, session>>
  /\ UNCHANGED <<config, size, told, sent>>

Create == \E ssd, hdd \in Rooms : CreateIn(ssd, hdd)

Chunk(i) == [index |-> i, bytes |-> Slice(session.size, session.chunk, i)]

\* A chunk refused for lack of room (503) changes nothing and is sent again.
Send ==
  /\ stage = "admitted"
  /\ \E i \in 0..(session.chunks - 1) :
       /\ \A c \in sent : c.index # i
       /\ IF AcceptsChunk(config, session.size, session.chunk, i,
                          Cardinality(Chunk(i).bytes))
          THEN sent' = sent \cup {Chunk(i)} /\ UNCHANGED stage
          ELSE stage' = "stuck" /\ UNCHANGED sent
  /\ UNCHANGED <<config, user, size, told, session>>

Complete ==
  /\ stage = "admitted"
  /\ \A i \in 0..(session.chunks - 1) : \E c \in sent : c.index = i
  /\ stage' = IF validateLayout(session) THEN "complete" ELSE "stuck"
  /\ UNCHANGED <<config, user, size, told, session, sent>>

Next == Tell \/ Others \/ Create \/ Send \/ Complete

Spec == Init /\ [][Next]_vars

(***************************************************************************)
(* Properties                                                              *)
(***************************************************************************)
\* The limit told is a size or not yet there; of the user only the bytes in
\* active sessions grow by an admission; chunks lie within the session.
TypeOK ==
  /\ config \in Configs /\ size \in Sizes /\ user \in UserType
  /\ told \in -1..MaxSafe
  /\ session \in [size: Nat, chunk: Nat, chunks: Nat]
  /\ \A c \in sent : c.index \in 0..(session.chunks - 1)
  /\ stage \in {"new", "failed", "refused", "told", "stale", "rejected", "full",
               "admitted", "stuck", "complete"}

\* A file within the limits the owner was told is not refused for its size, as
\* the browser cuts it, unless another upload came in between or, on an SSD
\* workspace, a volume has no room for it: of what configuration, quota and
\* sessions allow getUploadLimits leaves nothing out, and no sum is inexact.
LimitsHold ==
  \A ssd, hdd \in Rooms :
    stage = "told" /\ CreateIn(ssd, hdd) =>
      stage' = IF NoRoom(ssd, hdd) THEN "full" ELSE "admitted"

\* No admission goes past the quota or the limit for active uploads, however
\* old the limits the browser went by.
NeverOver ==
  Create /\ stage' = "admitted" =>
    /\ user'.used + user'.active <= user.quota
    /\ config.maxTotal > 0 => user'.active <= config.maxTotal

\* The limits an owner is told are those of the service, as far as the moment
\* and the room on the volumes allow, and none is exceeded.
LimitsTrue == [][LimitsHold /\ NeverOver]_vars

\* The limits are no smaller than they need to be: what they exclude would not
\* have been admitted in any chunks.
LimitsExact ==
  stage = "refused" =>
    \A k \in 1..config.maxChunk : ~Admits(config, user, size, k)

\* Every chunk the browser cuts is the one the server expects, so an admitted
\* upload can be sent and completed.
NeverStuck == stage # "stuck"

\* What was sent in the end is every byte of the file, once.
WholeFile ==
  stage = "complete" =>
    /\ UNION {c.bytes : c \in sent} = 0..(size - 1)
    /\ \A c, d \in sent : c # d => c.bytes \cap d.bytes = {}

\* A file is refused only for a reason, and one that is admitted is sent whole.
AdmittedWhole == LimitsExact /\ NeverStuck /\ WholeFile
=============================================================================
