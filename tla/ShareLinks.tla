----------------------------- MODULE ShareLinks -----------------------------
(***************************************************************************)
(* Share links: SharingService and the public download of                  *)
(* SharingController (src/backend/src/sharing/).                           *)
(*                                                                         *)
(* Every statement on a row of share_links is atomic; between two of them  *)
(* other requests run.  A visitor's request finds the link, counts an      *)
(* attempt and compares the password when the link has one, opens the      *)
(* file, takes a download slot and streams.  Time is what it does to a     *)
(* link: it expires, and its lock ends.                                    *)
(***************************************************************************)
EXTENDS Integers, FiniteSets

CONSTANTS Links,          \* rows of share_links
          Procs,          \* concurrent requests
          Secret,         \* the links with a password
          FolderLinks,    \* the links to a folder
          Limit,          \* maxDownloads of every link
          LockThreshold,  \* LOCK_THRESHOLD
          MaxTurns        \* bound: requests that may begin

ASSUME ConstantsAssumption ==
  /\ Secret \subseteq Links /\ FolderLinks \subseteq Links
  /\ Limit \in Nat /\ MaxTurns \in Nat
  /\ LockThreshold \in Nat \ {0}

VARIABLES
  link,     \* the rows
  live,     \* links whose file or folder, and owner, are live
  cut,      \* <<l, "chain">>: an ancestor of l's folder is in the trash;
            \* <<l, "member">>: the file asked for is not below that folder
  gone,     \* links that have expired
  served,   \* downloads each link has let through
  h,        \* the request each process is serving
  turns     \* requests begun

vars == <<link, live, cut, gone, served, h, turns>>

\* lockedUntil: "none", in the future or in the past.
Row == [active: BOOLEAN, count: 0..Limit, failed: 0..LockThreshold,
        lock: {"none", "future", "past"}]

Fresh == [active |-> TRUE, count |-> 0, failed |-> 0, lock |-> "none"]

\* What a request does next.  "find": verifySharePassword has to read the
\* link; "advance": it has to count the attempt; "compare"; "open"; "admit";
\* "save": revokeShare has read the entity it will save.
Labels == {"idle", "find", "advance", "compare", "open", "admit", "save"}

Handler == [pc: Labels, on: Links, seen: Row, right: BOOLEAN,
            get: {"nothing", "file", "archive"}]

Init ==
  /\ link = [l \in Links |-> Fresh]
  /\ live = Links /\ cut = {} /\ gone = {}
  /\ served = [l \in Links |-> 0]
  /\ \E l \in Links : h = [p \in Procs |->
       [pc |-> "idle", on |-> l, seen |-> Fresh, right |-> FALSE,
        get |-> "nothing"]]
  /\ turns = 0

-----------------------------------------------------------------------------
\* findShareByToken answers for l.
Found(l) == link[l].active /\ l \in live \ gone

At(p, l) == h[p].pc = l
Goto(p, l) == h' = [h EXCEPT ![p].pc = l]
Refuse(p) == Goto(p, "idle") /\ UNCHANGED link

\* A visitor asks for a file, or for a folder as an archive, with the right
\* password or a wrong one.
AskDownload(p, l, right, what) ==
  /\ At(p, "idle") /\ turns < MaxTurns /\ turns' = turns + 1
  /\ right \/ l \in Secret
  /\ what = "file" \/ l \in FolderLinks
  /\ IF Found(l)
     THEN h' = [h EXCEPT ![p] =
            [pc |-> IF l \in Secret THEN "find" ELSE "open", on |-> l,
             seen |-> Fresh, right |-> right, get |-> what]]
     ELSE UNCHANGED h
  /\ UNCHANGED <<link, live, cut, gone, served>>

\* A visitor asks to verify a password and download nothing yet.
AskVerify(p, l, right) ==
  /\ At(p, "idle") /\ turns < MaxTurns /\ turns' = turns + 1
  /\ l \in Secret
  /\ h' = [h EXCEPT ![p] = [pc |-> "find", on |-> l, seen |-> Fresh,
                             right |-> right, get |-> "nothing"]]
  /\ UNCHANGED <<link, live, cut, gone, served>>

\* verifySharePassword reads the link and refuses while it is locked.
Find(p) ==
  LET l == h[p].on IN
  /\ At(p, "find")
  /\ IF Found(l) /\ link[l].lock # "future"
     THEN h' = [h EXCEPT ![p].pc = "advance", ![p].seen = link[l]]
     ELSE Goto(p, "idle")
  /\ UNCHANGED <<link, live, cut, gone, served, turns>>

\* The row after one more attempt.
Counted(r) ==
  IF r.lock = "past" THEN [r EXCEPT !.failed = 1, !.lock = "none"]
  ELSE [r EXCEPT !.failed = @ + 1,
                 !.lock = IF r.failed + 1 >= LockThreshold THEN "future"
                          ELSE @]

\* WHERE id = :id AND lockedUntil IS NULL OR lockedUntil <= NOW(): the query
\* builder adds no parentheses to the second condition.
Matched(l) == {k \in Links : (k = l /\ link[k].lock = "none")
                               \/ link[k].lock = "past"}

\* The attempt is counted before the password is compared; the answer is
\* read from the first row the UPDATE returns.
Advance(p) ==
  LET l == h[p].on
      hit == Matched(l)
  IN
  /\ At(p, "advance")
  /\ link' = [k \in Links |-> IF k \in hit THEN Counted(link[k])
                              ELSE link[k]]
  /\ \/ /\ hit = {} /\ Goto(p, "idle")
     \/ \E first \in hit :
          Goto(p, IF link'[first].failed >= LockThreshold THEN "idle"
                  ELSE "compare")
  /\ UNCHANGED <<live, cut, gone, served, turns>>

\* A right password clears the counter if the link read at first had one.
Compare(p) ==
  LET l == h[p].on
      dirty == h[p].seen.failed > 0 \/ h[p].seen.lock # "none"
  IN
  /\ At(p, "compare")
  /\ IF h[p].right
     THEN /\ link' = IF dirty
                     THEN [link EXCEPT ![l].failed = 0, ![l].lock = "none"]
                     ELSE link
          /\ Goto(p, IF h[p].get = "nothing" THEN "idle" ELSE "open")
     ELSE Refuse(p)
  /\ UNCHANGED <<live, cut, gone, served, turns>>

\* folderSubtreeSql: the folder and its ancestors are live.
Rooted(l) == l \in live /\ <<l, "chain">> \notin cut

\* resolveSharedFolderFile: the file is live and somewhere below the folder.
Below(l) == Rooted(l) /\ <<l, "member">> \notin cut

\* What a request is for can be resolved: for a link to a file, always, as
\* its bytes stay while it is in the trash.
Resolved(p) ==
  LET l == h[p].on IN
  \/ l \notin FolderLinks
  \/ h[p].get = "archive" /\ Rooted(l)
  \/ h[p].get = "file" /\ Below(l)

\* The file is resolved and opened and the range parsed, or the archive's
\* members are listed.
Open(p) ==
  /\ At(p, "open") /\ Resolved(p) /\ Goto(p, "admit")
  /\ UNCHANGED <<link, live, cut, gone, served, turns>>

\* Any of it can fail, and then no slot is taken.
OpenFails(p) ==
  /\ At(p, "open") /\ Goto(p, "idle")
  /\ UNCHANGED <<link, live, cut, gone, served, turns>>

\* Mutant: the limit is checked against the link that was read earlier.
SlotAs(p) ==
  LET l == h[p].on
  IN  link[l].active /\ l \notin gone /\ h[p].seen.count < Limit

\* Mutant: whether the link is active was checked when it was found.
SlotRevokedAs(p) ==
  LET l == h[p].on IN l \notin gone /\ link[l].count < Limit

\* The conditions of incrementDownloadCount's UPDATE.
Slot(p) ==
  LET l == h[p].on
  IN  link[l].active /\ l \notin gone /\ link[l].count < Limit

\* incrementFolderDownloadCount: and, in the same statement, the file is
\* still below the folder.
MemberSlot(p) == Slot(p) /\ Below(h[p].on)

\* incrementFolderArchiveDownloadCount: and the folder is still live.
ArchiveSlot(p) == Slot(p) /\ Rooted(h[p].on)

Admits(p) ==
  IF h[p].on \notin FolderLinks THEN Slot(p)
  ELSE IF h[p].get = "archive" THEN ArchiveSlot(p) ELSE MemberSlot(p)

\* The slot is taken in one statement; then the bytes flow, and an aborted
\* stream gives no slot back.
Admit(p) ==
  LET l == h[p].on IN
  /\ At(p, "admit") /\ Goto(p, "idle")
  /\ IF Admits(p)
     THEN /\ link' = [link EXCEPT ![l].count = @ + 1]
          /\ served' = [served EXCEPT ![l] = @ + 1]
     ELSE UNCHANGED <<link, served>>
  /\ UNCHANGED <<live, cut, gone, turns>>

\* The owner revokes: the entity is read, and saved with isActive false.
\* save() writes every column that differs from the row by then.
AskRevoke(p, l) ==
  /\ At(p, "idle") /\ turns < MaxTurns /\ turns' = turns + 1
  /\ h' = [h EXCEPT ![p].pc = "save", ![p].on = l, ![p].seen = link[l]]
  /\ UNCHANGED <<link, live, cut, gone, served>>

Revoke(p) ==
  /\ At(p, "save") /\ Goto(p, "idle")
  /\ link' = [link EXCEPT ![h[p].on] = [h[p].seen EXCEPT !.active = FALSE]]
  /\ UNCHANGED <<live, cut, gone, served, turns>>

-----------------------------------------------------------------------------
\* FilesService, seen from a link: its object goes to the trash and back.
Trash(l) ==
  /\ l \in live /\ live' = live \ {l}
  /\ UNCHANGED <<link, cut, gone, served, h, turns>>

Restore(l) ==
  /\ l \notin live /\ live' = live \cup {l}
  /\ UNCHANGED <<link, cut, gone, served, h, turns>>

\* Its ancestors, or the file asked for, are moved, trashed and restored.
Cut(l, what) ==
  /\ l \in FolderLinks /\ cut' = cut \cup {<<l, what>>}
  /\ UNCHANGED <<link, live, gone, served, h, turns>>

Mend(l, what) ==
  /\ <<l, what>> \in cut /\ cut' = cut \ {<<l, what>>}
  /\ UNCHANGED <<link, live, gone, served, h, turns>>

\* Time: expiresAt passes, lockedUntil passes.
Expire(l) ==
  /\ l \notin gone /\ gone' = gone \cup {l}
  /\ UNCHANGED <<link, live, cut, served, h, turns>>

LockEnds(l) ==
  /\ link[l].lock = "future"
  /\ link' = [link EXCEPT ![l].lock = "past"]
  /\ UNCHANGED <<live, cut, gone, served, h, turns>>

Next ==
  \/ \E p \in Procs, l \in Links :
       \/ \E right \in BOOLEAN :
            \/ AskVerify(p, l, right)
            \/ \E what \in {"file", "archive"} :
                 AskDownload(p, l, right, what)
       \/ AskRevoke(p, l)
  \/ \E p \in Procs :
       \/ Find(p) \/ Advance(p) \/ Compare(p) \/ Open(p) \/ OpenFails(p)
       \/ Admit(p) \/ Revoke(p)
  \/ \E l \in Links : Trash(l) \/ Restore(l) \/ Expire(l) \/ LockEnds(l)
                       \/ \E what \in {"chain", "member"} :
                            Cut(l, what) \/ Mend(l, what)

Spec == Init /\ [][Next]_vars

-----------------------------------------------------------------------------
\* However downloads, password resets and a revocation that saves a stale
\* entity interleave, no link lets more downloads through than its limit, and
\* the counter an owner sees on an active link is their number: nothing that
\* writes the row meanwhile loses one.
WithinLimit ==
  \A l \in Links : /\ served[l] <= Limit
                   /\ link[l].active => link[l].count = served[l]

\* Once a revocation has committed, no request that found the link before it
\* takes a slot: revoked links stay revoked and serve nothing.
RevokedForGood ==
  [][\A l \in Links : ~link[l].active =>
       ~link'[l].active /\ served'[l] = served[l]]_vars

=============================================================================
