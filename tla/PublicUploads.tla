---------------------------- MODULE PublicUploads ----------------------------
(***************************************************************************)
(* Writing through one public folder link: PublicUploadsService and        *)
(* PublicFolderService (src/backend/src/sharing/) with the session and     *)
(* publication transactions of UploadsService.                             *)
(*                                                                         *)
(* A visitor makes a folder, or an upload session, under an idempotency    *)
(* key; the receipt of the key is written by the transaction that makes    *)
(* the result, and a repeated request is answered from it.  A transaction  *)
(* locks the owner's row, then the link's; every change of the owner's     *)
(* tree takes the owner's row too, a revocation the link's.  The checks    *)
(* made again before COMMIT are a step, COMMIT is the next.                *)
(***************************************************************************)
EXTENDS Integers, FiniteSets

CONSTANTS Procs,        \* concurrent requests
          Keys,         \* idempotency keys
          Targets,      \* folders below the shared one
          MaxResults,   \* bound: folders and sessions made
          MaxReceipts,  \* receipts a link may have
          MaxPending,   \* unfinished sessions an owner may have
          MaxTurns      \* bound: requests

VARIABLES
  link,       \* isActive, and whether expiresAt has passed
  inside,     \* targets that are live and below the shared folder
  res,        \* the folders and sessions made, by id
  receipt,    \* public_share_operations, by kind and key
  forgotten,  \* results whose receipt was cleaned up
  user, row,  \* who has locked the owner's row, the link's: one or nobody
  h,          \* the request each process is serving
  answers,    \* what visitors were told: request and result
  turns       \* requests begun

vars == <<link, inside, res, receipt, forgotten, user, row, h, answers,
          turns>>

Kinds   == {"mkdir", "upload_session"}
Results == 1..MaxResults

NoResult == [kind |-> "none"]

\* requestSha256 stands for the target; a result may be gone (0).
Receipt == [target: Targets, result: 0..MaxResults, old: BOOLEAN]
NoReceipt == [result |-> -1]

Labels == {"idle", "user", "link", "replay", "check", "make", "publish",
           "commit"}

\* todo says what COMMIT will do.
Handler == [pc: Labels, kind: Kinds, key: Keys, target: Targets,
            r: 0..MaxResults, todo: {"make", "publish"}]

Init ==
  /\ link = [active |-> TRUE, old |-> FALSE]
  /\ inside = Targets
  /\ res = [r \in Results |-> NoResult]
  /\ receipt = [o \in Kinds \X Keys |-> NoReceipt]
  /\ forgotten = {}
  /\ user = {} /\ row = {}
  /\ \E k \in Keys, t \in Targets : h = [p \in Procs |->
       [pc |-> "idle", kind |-> "mkdir", key |-> k, target |-> t, r |-> 0,
        todo |-> "make"]]
  /\ answers = {}
  /\ turns = 0

-----------------------------------------------------------------------------
Made     == {r \in Results : res[r] # NoResult}
Fresh    == Cardinality(Made) + 1
Receipts == {o \in Kinds \X Keys : receipt[o] # NoReceipt}
Pending  == {r \in Made : res[r].status = "pending"}

\* Mutant: only the link is checked, not where the folder is.
AuthorizedAs(t) == link.active /\ ~link.old

\* authorizeUpload: the link is valid and the folder live and below its root.
Authorized(t) == link.active /\ ~link.old /\ t \in inside

At(p, l) == h[p].pc = l
Goto(p, l) == h' = [h EXCEPT ![p].pc = l]

\* The transaction ends, its locks are let go.
Release(p) == user' = user \ {p} /\ row' = row \ {p}
Rollback(p) == Goto(p, "idle") /\ Release(p)

Tell(p, r) ==
  \/ answers' = answers \cup {<<h[p].kind, h[p].key, h[p].target, r>>}
  \/ UNCHANGED answers

\* A visitor with a proof asks for a folder or a session; a session is
\* authorized once before anything is locked.
Ask(p, kind, k, t) ==
  /\ At(p, "idle") /\ turns < MaxTurns /\ turns' = turns + 1
  /\ kind = "mkdir" \/ Authorized(t)
  /\ h' = [h EXCEPT ![p] = [pc |-> "user", kind |-> kind, key |-> k,
                            target |-> t, r |-> 0, todo |-> "make"]]
  /\ UNCHANGED <<link, inside, res, receipt, forgotten, user, row, answers>>

\* completeUpload of a session: authorized, then assembled without locks.
AskComplete(p, r) ==
  /\ At(p, "idle") /\ turns < MaxTurns /\ turns' = turns + 1
  /\ r \in Pending /\ ~res[r].old /\ Authorized(res[r].target)
  /\ h' = [h EXCEPT ![p] = [pc |-> "user", kind |-> "upload_session",
                            key |-> res[r].key, target |-> res[r].target,
                            r |-> r, todo |-> "publish"]]
  /\ UNCHANGED <<link, inside, res, receipt, forgotten, user, row, answers>>

LockUser(p) ==
  /\ At(p, "user") /\ user = {} /\ user' = {p}
  /\ Goto(p, "link")
  /\ UNCHANGED <<link, inside, res, receipt, forgotten, row, answers, turns>>

\* The link FOR UPDATE, then the folders and mirrors up to its root.
LockLink(p) ==
  /\ At(p, "link") /\ row = {}
  /\ IF Authorized(h[p].target)
     THEN /\ Goto(p, IF h[p].todo = "make" THEN "replay" ELSE "publish")
          /\ row' = {p} /\ UNCHANGED user
     ELSE Rollback(p)
  /\ UNCHANGED <<link, inside, res, receipt, forgotten, answers, turns>>

Full(kind) ==
  \/ Cardinality(Receipts) >= MaxReceipts
  \/ kind = "upload_session" /\ Cardinality(Pending) >= MaxPending

\* The receipt of the key: of another request or expired, the key is refused;
\* of this one, its result is looked at; none, the limits are.
Replay(p) ==
  LET prior == receipt[<<h[p].kind, h[p].key>>] IN
  /\ At(p, "replay")
  /\ \/ /\ prior # NoReceipt
        /\ IF prior.target = h[p].target /\ ~prior.old /\ prior.result # 0
           THEN /\ h' = [h EXCEPT ![p].pc = "check", ![p].r = prior.result]
                /\ UNCHANGED <<user, row>>
           ELSE Rollback(p)
     \/ /\ prior = NoReceipt
        /\ IF Full(h[p].kind) THEN Rollback(p)
           ELSE Goto(p, "make") /\ UNCHANGED <<user, row>>
  /\ UNCHANGED <<link, inside, res, receipt, forgotten, answers, turns>>

\* checkResult, or what createFolder asks of the folder it made.
Replayable(r) ==
  \/ res[r].status \in {"made", "completed"} /\ res[r].at = "put"
  \/ res[r].status \in {"pending", "aborted"} /\ ~res[r].old

\* The link may have expired by now: a session is authorized once more.
Check(p) ==
  LET ok == /\ Replayable(h[p].r)
            /\ h[p].kind = "mkdir" \/ Authorized(h[p].target)
  IN
  /\ At(p, "check") /\ Rollback(p)
  /\ IF ok THEN Tell(p, h[p].r) ELSE UNCHANGED answers
  /\ UNCHANGED <<link, inside, res, receipt, forgotten, turns>>

\* What INSERT ... SELECT, or the receipt's authorize, checks again.
Make(p) ==
  /\ At(p, "make") /\ Fresh \in Results
  /\ IF Authorized(h[p].target)
     THEN Goto(p, "commit") /\ UNCHANGED <<user, row>>
     ELSE Rollback(p)
  /\ UNCHANGED <<link, inside, res, receipt, forgotten, answers, turns>>

\* The publication: the session is locked and must still be unfinished.
Publish(p) ==
  LET r == h[p].r IN
  /\ At(p, "publish")
  /\ IF r \in Pending /\ ~res[r].old /\ Authorized(res[r].target)
     THEN Goto(p, "commit") /\ UNCHANGED <<user, row>>
     ELSE Rollback(p)
  /\ UNCHANGED <<link, inside, res, receipt, forgotten, answers, turns>>

\* Mutant: the receipt is written after COMMIT, when the answer was sent.
CommitMadeAs(p) ==
  /\ At(p, "commit") /\ h[p].todo = "make" /\ Rollback(p)
  /\ res' = [res EXCEPT ![Fresh] =
       [kind |-> h[p].kind, key |-> h[p].key, target |-> h[p].target,
        old |-> FALSE, at |-> "put",
        status |-> IF h[p].kind = "mkdir" THEN "made" ELSE "pending"]]
  /\ \/ UNCHANGED receipt
     \/ receipt' = [receipt EXCEPT ![<<h[p].kind, h[p].key>>] =
          [target |-> h[p].target, result |-> Fresh, old |-> FALSE]]
  /\ Tell(p, Fresh)
  /\ UNCHANGED <<link, inside, forgotten, turns>>

\* COMMIT: the result and its receipt; the answer may be lost.
CommitMade(p) ==
  /\ At(p, "commit") /\ h[p].todo = "make" /\ Rollback(p)
  /\ res' = [res EXCEPT ![Fresh] =
       [kind |-> h[p].kind, key |-> h[p].key, target |-> h[p].target,
        old |-> FALSE, at |-> "put",
        status |-> IF h[p].kind = "mkdir" THEN "made" ELSE "pending"]]
  /\ receipt' = [receipt EXCEPT ![<<h[p].kind, h[p].key>>] =
       [target |-> h[p].target, result |-> Fresh, old |-> FALSE]]
  /\ Tell(p, Fresh)
  /\ UNCHANGED <<link, inside, forgotten, turns>>

CommitPublished(p) ==
  /\ At(p, "commit") /\ h[p].todo = "publish" /\ Rollback(p)
  /\ res' = [res EXCEPT ![h[p].r].status = "completed"]
  /\ UNCHANGED <<link, inside, receipt, forgotten, answers, turns>>

\* A crash, or a connection lost in the transaction.
Fail(p) ==
  /\ ~At(p, "idle") /\ Rollback(p)
  /\ UNCHANGED <<link, inside, res, receipt, forgotten, answers, turns>>

-----------------------------------------------------------------------------
\* A publication holds the lock of its session from "publish" on.
Locked(r) == \E p \in Procs : /\ At(p, "commit") /\ h[p].todo = "publish"
                              /\ h[p].r = r

\* abortUpload by the visitor.
AbortUpload(r) ==
  /\ r \in Pending /\ ~Locked(r) /\ Authorized(res[r].target)
  /\ res' = [res EXCEPT ![r].status = "aborted"]
  /\ UNCHANGED <<link, inside, receipt, forgotten, user, row, h, answers,
                 turns>>

\* A result is deleted: its receipt forgets it, and refuses its key.
Forget(r) ==
  receipt' = [o \in Kinds \X Keys |->
    IF receipt[o] # NoReceipt /\ receipt[o].result = r
    THEN [receipt[o] EXCEPT !.result = 0] ELSE receipt[o]]

\* The expiry sweep removes sessions.
Sweep(r) ==
  /\ r \in Pending /\ res[r].kind = "upload_session" /\ res[r].old
  /\ ~Locked(r)
  /\ res' = [res EXCEPT ![r].status = "gone"]
  /\ Forget(r)
  /\ UNCHANGED <<link, inside, forgotten, user, row, h, answers, turns>>

\* The owner moves, trashes, restores or deletes, under the owner's row.
MoveTarget(t) ==
  /\ user = {}
  /\ inside' = (inside \ {t}) \cup ({t} \ inside)
  /\ UNCHANGED <<link, res, receipt, forgotten, user, row, h, answers,
                 turns>>

MoveResult(r, a) ==
  /\ user = {} /\ r \in Made /\ res[r].status \in {"made", "completed"}
  /\ res[r].at # a
  /\ res' = [res EXCEPT ![r].at = a]
  /\ UNCHANGED <<link, inside, receipt, forgotten, user, row, h, answers,
                 turns>>

DeleteFolder(r) ==
  /\ user = {} /\ r \in Made /\ res[r].status = "made"
  /\ res' = [res EXCEPT ![r].status = "gone"]
  /\ Forget(r)
  /\ UNCHANGED <<link, inside, forgotten, user, row, h, answers, turns>>

\* revokeShare's UPDATE waits for the link's row.
Revoke ==
  /\ row = {} /\ link.active
  /\ link' = [link EXCEPT !.active = FALSE]
  /\ UNCHANGED <<inside, res, receipt, forgotten, user, row, h, answers,
                 turns>>

\* Time: the link, a session or a receipt expires.
LinkExpires ==
  /\ ~link.old /\ link' = [link EXCEPT !.old = TRUE]
  /\ UNCHANGED <<inside, res, receipt, forgotten, user, row, h, answers,
                 turns>>

SessionExpires(r) ==
  /\ r \in Made /\ res[r].kind = "upload_session" /\ ~res[r].old
  /\ res' = [res EXCEPT ![r].old = TRUE]
  /\ UNCHANGED <<link, inside, receipt, forgotten, user, row, h, answers,
                 turns>>

ReceiptExpires(o) ==
  /\ o \in Receipts /\ ~receipt[o].old
  /\ receipt' = [receipt EXCEPT ![o].old = TRUE]
  /\ UNCHANGED <<link, inside, res, forgotten, user, row, h, answers, turns>>

\* cleanupReceipts deletes what has expired; the key may be used again.
CleanupReceipt(o) ==
  /\ o \in Receipts /\ receipt[o].old
  /\ receipt' = [receipt EXCEPT ![o] = NoReceipt]
  /\ forgotten' = forgotten \cup {r \in Made :
                    res[r].kind = o[1] /\ res[r].key = o[2]}
  /\ UNCHANGED <<link, inside, res, user, row, h, answers, turns>>

Next ==
  \/ \E p \in Procs :
       \/ \E kind \in Kinds, k \in Keys, t \in Targets : Ask(p, kind, k, t)
       \/ \E r \in Results : AskComplete(p, r)
       \/ LockUser(p) \/ LockLink(p) \/ Replay(p) \/ Check(p) \/ Make(p)
       \/ Publish(p) \/ CommitMade(p) \/ CommitPublished(p) \/ Fail(p)
  \/ \E r \in Results :
       \/ AbortUpload(r) \/ Sweep(r) \/ DeleteFolder(r) \/ SessionExpires(r)
       \/ \E a \in {"put", "away"} : MoveResult(r, a)
  \/ \E t \in Targets : MoveTarget(t)
  \/ \E o \in Kinds \X Keys : ReceiptExpires(o) \/ CleanupReceipt(o)
  \/ Revoke \/ LinkExpires

Spec == Init /\ [][Next]_vars

-----------------------------------------------------------------------------
\* While its receipt lives, a key makes one folder or session, however often
\* and however concurrently the request is repeated, whatever answer was lost
\* and whatever became of the result.
OnePerKey ==
  \A r, s \in Made \ forgotten :
    res[r].kind = res[s].kind /\ res[r].key = res[s].key => r = s

\* A visitor is never told of a result that another request made.
AnswersFit ==
  \A a \in answers :
    /\ res[a[4]].kind = a[1] /\ res[a[4]].key = a[2]
    /\ res[a[4]].target = a[3]

\* A repeated request is answered only while the result is where the visitor
\* asked for it: a tree upload never goes on in a folder that was moved out.
AnsweredInPlace ==
  [][\A a \in answers' \ answers :
       /\ a[3] \in inside
       /\ res'[a[4]].status \in {"made", "completed"} =>
            res'[a[4]].at = "put"]_vars

\* Once a revocation has committed, nothing is made or published through the
\* link, whatever was authorized before.
RevokedMakesNothing ==
  [][~link.active =>
       \A r \in Results :
         /\ res'[r] # NoResult => res[r] # NoResult
         /\ r \in Pending => res'[r].status # "completed"]_vars

\* What is made or published lands in a folder that is live and below the
\* shared one, although the owner moves folders at any time.
LandsInside ==
  [][\A r \in Results :
       (r \notin Made /\ res'[r] # NoResult)
         \/ (r \in Pending /\ res'[r].status = "completed")
       => res'[r].target \in inside]_vars

\* Visitors leave a bounded number of receipts and unfinished sessions.
Bounded ==
  Cardinality(Receipts) <= MaxReceipts /\ Cardinality(Pending) <= MaxPending
=============================================================================
