------------------------------ MODULE Downloads ------------------------------
(***************************************************************************)
(* Downloads: DownloadCapabilityService and NativeDownloadsController, the *)
(* capabilities of ArchiveDownloadsService, and the descriptors of the     *)
(* private and public download handlers (src/backend/src/files/,           *)
(* src/backend/src/sharing/sharing.controller.ts).                         *)
(*                                                                         *)
(* A download is prepared with a bearer token and fetched by the browser   *)
(* with a cookie that is good for one GET.  An issue is one transaction of *)
(* several statements; what it deletes stays locked until it commits, and  *)
(* a fetch of such a row waits.  ArchiveStream models what an archive      *)
(* holds, ShareLinks how a public download is admitted.                    *)
(***************************************************************************)
EXTENDS Integers, FiniteSets

CONSTANTS Procs,        \* requests being served
          Files, Users,
          Owner,        \* Owner[f]: the user whose file f is
          Kinds,        \* which capabilities: "file", "archive"
          OwnLimit,     \* OwnLimit[k]: pending capabilities of a user
          AllLimit,     \* AllLimit[k]: of all users
          PrepareLimit, \* activePrepares
          MaxTokens,    \* bound: tokens made
          None

\* Limits are numbers, a file has an owner, and requests are finitely many, as
\* those that prepare are counted.
DownloadsFit ==
  /\ MaxTokens \in Nat /\ IsFiniteSet(Procs) /\ None \notin Procs
  /\ Kinds \subseteq {"file", "archive"} /\ Owner \in [Files -> Users]
  /\ OwnLimit \in [Kinds -> Nat] /\ AllLimit \in [Kinds -> Nat]

ASSUME DownloadsAssumption == DownloadsFit

VARIABLES
  row,       \* the rows of both tables, by token
  live,      \* files neither trashed nor deleted
  active,    \* users with isActive
  lock,      \* the advisory lock of each kind
  prepares,  \* activePrepares
  h,         \* the handlers
  fd,        \* the open file of each handler and who closes it
  made,      \* tokens made
  used       \* how often each token let a GET through

vars == <<row, live, active, lock, prepares, h, fd, made, used>>

Tokens == 1..MaxTokens
Absent == [kind |-> "none"]

Labels == {"idle", "find", "lock", "purge", "drop", "count", "insert",
           "commit", "authorize", "fetch", "file", "public", "admit",
           "stream"}

\* doom: rows its transaction has deleted; on: its response is still open;
\* late, a history variable: it was not any more when the file was handed over.
Handler == [pc: Labels, kind: Kinds \cup {"public"}, user: Users,
            item: Files, token: Tokens \cup {0}, doom: SUBSET Tokens,
            get: BOOLEAN, on: BOOLEAN, late: BOOLEAN]

Init ==
  /\ row = [t \in Tokens |-> Absent]
  /\ live = Files /\ active = Users
  /\ lock = [k \in Kinds |-> None] /\ prepares = 0
  /\ \E f \in Files, k \in Kinds :
       h = [p \in Procs |->
              [pc |-> "idle", kind |-> k, user |-> Owner[f], item |-> f,
               token |-> 0, doom |-> {}, get |-> FALSE, on |-> FALSE,
               late |-> FALSE]]
  /\ fd = [p \in Procs |-> "none"] /\ made = 0
  /\ used = [t \in Tokens |-> 0]

-----------------------------------------------------------------------------
\* A row is in the table for everyone once its transaction has committed.
Pending(k) ==
  {t \in Tokens : row[t] # Absent /\ row[t].kind = k /\ row[t].by = None}
Mine(k, u) == {t \in Pending(k) : row[t].user = u}
Doomed == UNION {h[p].doom : p \in Procs}

At(p, l) == h[p].pc = l
Goto(p, l) == h' = [h EXCEPT ![p].pc = l]
Answer(p) == h' = [h EXCEPT ![p].pc = "idle", ![p].token = 0,
                            ![p].doom = {}, ![p].on = FALSE,
                            ![p].late = FALSE]
Rest == UNCHANGED <<live, active>>
Tables == UNCHANGED <<row, lock, made>>
Work == UNCHANGED <<prepares, fd, used>>

Issuing == {p \in Procs : h[p].pc \in
  {"find", "lock", "purge", "drop", "count", "insert"}}

\* Two archives are prepared at once.
Room(k) == k = "archive" => prepares < PrepareLimit

\* POST prepare, by the user.  Only archives are counted while prepared.
Prepare(p, k, f) ==
  /\ At(p, "idle") /\ fd[p] = "none"
  /\ made + Cardinality(Issuing) < MaxTokens
  /\ IF ~Room(k) THEN UNCHANGED <<h, prepares>>
     ELSE /\ h' = [h EXCEPT ![p] = [pc |-> "find", kind |-> k,
                     user |-> Owner[f], item |-> f, token |-> 0,
                     doom |-> {}, get |-> FALSE, on |-> TRUE,
                     late |-> FALSE]]
          /\ prepares' = prepares + (IF k = "archive" THEN 1 ELSE 0)
  /\ Rest /\ Tables /\ UNCHANGED <<fd, used>>

\* The finally of an archive's preparation.
Prepared(p) == prepares' = prepares - (IF h[p].kind = "archive" THEN 1 ELSE 0)

\* findOne, or the plan of the archive and its preflight.
FindItem(p) ==
  /\ At(p, "find") /\ Rest /\ Tables /\ UNCHANGED <<fd, used>>
  /\ \/ h[p].item \in live /\ Goto(p, "lock") /\ UNCHANGED prepares
     \/ Answer(p) /\ Prepared(p)

\* pg_advisory_xact_lock.
Granted(k) == lock[k] = None

Lock(p) ==
  /\ At(p, "lock") /\ Granted(h[p].kind)
  /\ lock' = [lock EXCEPT ![h[p].kind] = p]
  /\ Goto(p, "purge") /\ Rest /\ Work /\ UNCHANGED <<row, made>>

\* DELETE of the rows that have expired.
Purge(p) ==
  LET S == {t \in Pending(h[p].kind) : row[t].old} IN
  /\ At(p, "purge") /\ S \cap Doomed = {}
  /\ h' = [h EXCEPT ![p].doom = S,
             ![p].pc = IF h[p].kind = "file" THEN "drop" ELSE "count"]
  /\ Rest /\ Tables /\ Work

\* The user's earlier capability for this file.
SameFile(p) == {t \in Mine("file", h[p].user) : row[t].item = h[p].item}

Drop(p) ==
  /\ At(p, "drop") /\ SameFile(p) \cap (Doomed \ h[p].doom) = {}
  /\ h' = [h EXCEPT ![p].doom = @ \cup SameFile(p), ![p].pc = "count"]
  /\ Rest /\ Tables /\ Work

\* A transaction lets its lock go when it ends.
Freed(p) == [k \in Kinds |-> IF lock[k] = p THEN None ELSE lock[k]]

\* ROLLBACK, or the connection is lost: what was deleted is there again.
Rollback(p) ==
  /\ row' = [t \in Tokens |-> IF row[t] # Absent /\ row[t].by = p
                              THEN Absent ELSE row[t]]
  /\ lock' = Freed(p)
  /\ Answer(p) /\ Prepared(p) /\ UNCHANGED <<made, fd, used>>

\* COUNT(*), of the user and of all.
Count(p) ==
  LET k == h[p].kind IN
  /\ At(p, "count") /\ Rest
  /\ IF \/ Cardinality(Pending(k) \ h[p].doom) >= AllLimit[k]
        \/ Cardinality(Mine(k, h[p].user) \ h[p].doom) >= OwnLimit[k]
     THEN Rollback(p)
     ELSE Goto(p, "insert") /\ Tables /\ Work

Insert(p) ==
  /\ At(p, "insert") /\ made' = made + 1
  /\ row' = [row EXCEPT ![made + 1] = [kind |-> h[p].kind, by |-> p,
               user |-> h[p].user, item |-> h[p].item, old |-> FALSE]]
  /\ h' = [h EXCEPT ![p].pc = "commit", ![p].token = made + 1]
  /\ Rest /\ Work /\ UNCHANGED lock

Commit(p) ==
  /\ At(p, "commit")
  /\ row' = [t \in Tokens |->
               IF t \in h[p].doom THEN Absent
               ELSE IF t = h[p].token THEN [row[t] EXCEPT !.by = None]
               ELSE row[t]]
  /\ lock' = Freed(p)
  /\ Answer(p) /\ Prepared(p) /\ Rest /\ UNCHANGED <<fd, made, used>>

\* The database connection of an issue is lost.
LoseConnection(p) ==
  /\ h[p].pc \in {"lock", "purge", "drop", "count", "insert", "commit"}
  /\ Rollback(p) /\ Rest

-----------------------------------------------------------------------------
\* GET or HEAD with a cookie.
Fetch(p, t, get) ==
  /\ At(p, "idle") /\ row[t] # Absent /\ row[t].by = None /\ fd[p] = "none"
  /\ h' = [h EXCEPT ![p] = [pc |-> "authorize", kind |-> row[t].kind,
             user |-> row[t].user, item |-> row[t].item, token |-> t,
             doom |-> {}, get |-> get, on |-> TRUE,
             late |-> FALSE]]
  /\ Rest /\ Tables /\ Work

\* The row, its user and, for a file, the file are still good.
Authorized(t) ==
  /\ row[t] # Absent /\ row[t].by = None /\ ~row[t].old
  /\ row[t].user \in active
  /\ row[t].kind = "file" => row[t].item \in live

\* Mutant: a GET, too, only selects.
ConsumedAs(p) == row

\* DELETE ... RETURNING for a GET, SELECT for a HEAD.
Consumed(p) == IF h[p].get THEN [row EXCEPT ![h[p].token] = Absent] ELSE row

\* A DELETE waits for the transaction that has the row.
Authorize(p) ==
  LET t == h[p].token IN
  /\ At(p, "authorize") /\ Rest
  /\ h[p].get => t \notin Doomed
  /\ IF Authorized(t)
     THEN /\ row' = Consumed(p)
          /\ used' = [used EXCEPT ![t] = @ + (IF h[p].get THEN 1 ELSE 0)]
          /\ IF h[p].kind = "file" THEN Goto(p, "file") ELSE Answer(p)
     ELSE Answer(p) /\ UNCHANGED <<row, used>>
  /\ UNCHANGED <<prepares, fd, lock, made>>

\* GET files/:id/download, with a bearer token.
Download(p, f, get) ==
  /\ At(p, "idle") /\ fd[p] = "none"
  /\ h' = [h EXCEPT ![p] = [pc |-> "file", kind |-> "public",
             user |-> Owner[f], item |-> f, token |-> 0, doom |-> {},
             get |-> get, on |-> TRUE,
             late |-> FALSE]]
  /\ Rest /\ Tables /\ Work

\* finally: whoever has not handed the descriptor over closes it.
Unstreamed == "none"

\* The file goes to a stream, which listens for res.on("close") from now on.
HandOver(p) ==
  /\ h' = [h EXCEPT ![p].pc = "stream", ![p].late = ~h[p].on]
  /\ fd' = [fd EXCEPT ![p] = "stream"]

\* streamOriginalDownload: findOne, then in one turn the file is opened,
\* looked at, and handed to a stream when there is a body to send.
Serve(p) ==
  /\ At(p, "file") /\ Rest /\ Tables /\ UNCHANGED <<prepares, used>>
  /\ \/ Answer(p) /\ UNCHANGED fd
     \/ /\ h[p].item \in live
        /\ Answer(p) /\ fd' = [fd EXCEPT ![p] = Unstreamed]
     \/ h[p].item \in live /\ h[p].get /\ HandOver(p)

\* A public download opens the file before it is admitted.
PublicDownload(p, f) ==
  /\ At(p, "idle") /\ fd[p] = "none"
  /\ h' = [h EXCEPT ![p] = [pc |-> "public", kind |-> "public",
             user |-> Owner[f], item |-> f, token |-> 0, doom |-> {},
             get |-> TRUE, on |-> TRUE,
             late |-> FALSE]]
  /\ Rest /\ Tables /\ Work

OpenPublic(p) ==
  /\ At(p, "public") /\ Rest /\ Tables /\ UNCHANGED <<prepares, used>>
  /\ \/ Answer(p) /\ UNCHANGED fd
     \/ h[p].item \in live /\ Answer(p) /\ fd' = [fd EXCEPT ![p] = Unstreamed]
     \/ /\ h[p].item \in live
        /\ Goto(p, "admit") /\ fd' = [fd EXCEPT ![p] = "own"]

\* Admitted (ShareLinks), or not.
Admit(p) ==
  /\ At(p, "admit") /\ Rest /\ Tables /\ UNCHANGED <<prepares, used>>
  /\ \/ HandOver(p)
     \/ Answer(p) /\ fd' = [fd EXCEPT ![p] = Unstreamed]

\* The stream ends, or fails: it closes its file (autoClose).  A stream into
\* a response that was closed already is never drained.
EndStream(p) ==
  /\ At(p, "stream") /\ h[p].on
  /\ Answer(p) /\ fd' = [fd EXCEPT ![p] = "none"]
  /\ Rest /\ Tables /\ UNCHANGED <<prepares, used>>

\* res.on("close") destroys the stream that exists then.
OnClose(p) == IF fd[p] = "stream" THEN "none" ELSE fd[p]

\* The client goes away.
Disconnect(p) ==
  /\ h[p].pc # "idle" /\ h[p].on
  /\ fd' = [fd EXCEPT ![p] = OnClose(p)]
  /\ IF At(p, "stream") THEN Answer(p) ELSE h' = [h EXCEPT ![p].on = FALSE]
  /\ Rest /\ Tables /\ UNCHANGED <<prepares, used>>

-----------------------------------------------------------------------------
\* 120 seconds pass, a file is trashed or restored, an account is disabled.
Expire(t) ==
  /\ row[t] # Absent /\ row[t].by = None
  /\ row' = [row EXCEPT ![t].old = TRUE]
  /\ UNCHANGED <<live, active, lock, prepares, h, fd, made, used>>
Toggle(f) ==
  /\ live' = (live \ {f}) \cup ({f} \ live)
  /\ UNCHANGED <<row, active, lock, prepares, h, fd, made, used>>
Disable(u) ==
  /\ active' = active \ {u}
  /\ UNCHANGED <<row, live, lock, prepares, h, fd, made, used>>

Issue(p) ==
  FindItem(p) \/ Lock(p) \/ Purge(p) \/ Drop(p) \/ Count(p) \/ Insert(p)
    \/ Commit(p)

Requests(p) ==
  \/ \E k \in Kinds, f \in Files : Prepare(p, k, f)
  \/ \E t \in Tokens, get \in BOOLEAN : Fetch(p, t, get)
  \/ \E f \in Files : PublicDownload(p, f) \/ Download(p, f, TRUE)
                        \/ Download(p, f, FALSE)

Next ==
  \/ \E p \in Procs :
       \/ Requests(p) \/ Issue(p) \/ LoseConnection(p)
       \/ Authorize(p) \/ Serve(p) \/ OpenPublic(p) \/ Admit(p)
       \/ EndStream(p) \/ Disconnect(p)
  \/ \E t \in Tokens : Expire(t)
  \/ \E f \in Files : Toggle(f)
  \/ \E u \in Users : Disable(u)

Spec == Init /\ [][Next]_vars

-----------------------------------------------------------------------------
\* Concurrent issues, on any number of processes, never leave more pending
\* capabilities than a user, or all users, may have.
Bounded ==
  \A k \in Kinds :
    /\ Cardinality(Pending(k)) <= AllLimit[k]
    /\ \A u \in Users : Cardinality(Mine(k, u)) <= OwnLimit[k]

\* A user has one capability for a file, the last one issued.
OnePerFile ==
  "file" \in Kinds => \A u \in Users : \A s, t \in Mine("file", u) :
    row[s].item = row[t].item => s = t

\* A token lets one GET through, however many arrive at once and whatever
\* issue replaces it meanwhile.
UsedOnce == \A t \in Tokens : used[t] <= 1

\* A file is open only for a public download that waits to be admitted or for
\* a stream whose client is there: a client that leaves closes it.  One file
\* is not given back: the client had left before the file was handed over, so
\* that res.on("close") comes too late and nothing drains the stream.
DescriptorsReturned ==
  \A p \in Procs : fd[p] # "none" =>
    \/ At(p, "admit")
    \/ At(p, "stream") /\ (h[p].on \/ h[p].late)

\* The counter of preparations is the number of them.
PreparesCounted ==
  prepares = Cardinality({p \in Procs : h[p].kind = "archive" /\
    h[p].pc \in {"find", "lock", "purge", "count", "insert", "commit"}})

\* However many issues and GETs come at once: a capability lets one GET
\* through, a user has no more of them than the limits say and one for a file,
\* a file stays open only where the client left before it was handed over,
\* and preparations are counted.
SingleUse ==
  UsedOnce /\ Bounded /\ OnePerFile /\ DescriptorsReturned /\ PreparesCounted
=============================================================================
