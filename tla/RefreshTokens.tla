--------------------------- MODULE RefreshTokens ---------------------------
(***************************************************************************)
(* The refresh tokens of one user: AuthService                             *)
(* (src/backend/src/auth/auth.service.ts) over PostgreSQL, READ COMMITTED. *)
(*                                                                         *)
(* A token is a row of refresh_tokens.  SELECT ... FOR UPDATE waits for    *)
(* the transaction that holds the row and then reads what it committed.  A *)
(* bulk UPDATE or DELETE goes through the rows its snapshot shows, waits   *)
(* for each that is held, and leaves it if its condition no longer holds;  *)
(* it never sees a row committed after its snapshot.  Tokens are numbered  *)
(* in the order they are inserted, and expire in that order within a       *)
(* family: the tokens that descend from one login.                         *)
(***************************************************************************)
EXTENDS Integers, FiniteSets

CONSTANTS Procs,      \* concurrent requests
          MaxTokens,  \* bound: tokens issued
          MaxTurns    \* bound: requests

ASSUME ConstantsAssumption == MaxTokens \in Nat /\ MaxTurns \in Nat

VARIABLES
  row,      \* refresh_tokens; NoRow before the insert and after the cleanup
  drawn,    \* tokens inserted so far
  fam,      \* the login each token descends from
  old,      \* tokens whose expiresAt has passed
  h,        \* the request each process is serving
  ended,    \* families that were answered "logged out", by what ended them
  turns     \* requests begun

vars == <<row, drawn, fam, old, h, ended, turns>>

Tokens == 1..MaxTokens
NoRow  == [revoked |-> FALSE, next |-> -1]
Reasons == {"logout", "reuse", "password"}

\* Where a request is: it has to insert the token of a login, lock the token
\* it found for a refresh or a logout, rotate it, follow the chain, take the
\* snapshot of a bulk statement, or go through its rows.
Labels == {"idle", "insert", "lock", "rotate", "outlock", "follow",
           "snapshot", "bulk"}

\* held: rows the transaction has locked; todo: rows the bulk statement has
\* still to visit; why: what the bulk statement is for; known: the families
\* there were when the request promised to end them.
Handler == [pc: Labels, tok: 0..MaxTokens, held: SUBSET Tokens,
            todo: SUBSET Tokens, why: Reasons \cup {"clean"},
            known: SUBSET Tokens]

Idle == [pc |-> "idle", tok |-> 0, held |-> {}, todo |-> {},
         why |-> "clean", known |-> {}]

Init ==
  /\ row = [t \in Tokens |-> NoRow]
  /\ drawn = 0
  /\ fam = [t \in Tokens |-> 0]
  /\ old = {}
  /\ h = [p \in Procs |-> Idle]
  /\ ended = [r \in Reasons |-> {}]
  /\ turns = 0

-----------------------------------------------------------------------------
Stored    == {t \in Tokens : row[t] # NoRow}
Issued    == 1..drawn
Unrevoked == {t \in Stored : ~row[t].revoked}
Live      == Unrevoked \ old
Families  == {fam[t] : t \in Issued}

\* No other transaction holds the row.
Free(p, t) == \A q \in Procs \ {p} : t \notin h[q].held

\* Mutant: the revoked column is not consulted.
UsableAs(t) == TRUE

\* The check of the locked row, and the guard of the UPDATE.
Usable(t) == ~row[t].revoked

At(p, l) == h[p].pc = l
Done(p) == h' = [h EXCEPT ![p] = Idle]

Ask(p, req) ==
  /\ At(p, "idle") /\ turns < MaxTurns /\ turns' = turns + 1
  /\ h' = [h EXCEPT ![p] = req]
  /\ UNCHANGED <<row, drawn, fam, old, ended>>

\* login, or register: the password was right; the token is inserted later.
AskLogin(p) == Ask(p, [Idle EXCEPT !.pc = "insert"])

Insert(p) ==
  /\ At(p, "insert") /\ drawn < MaxTokens
  /\ drawn' = drawn + 1
  /\ row' = [row EXCEPT ![drawn + 1] = [revoked |-> FALSE, next |-> 0]]
  /\ fam' = [fam EXCEPT ![drawn + 1] = drawn + 1]
  /\ Done(p)
  /\ UNCHANGED <<old, ended, turns>>

\* refresh and logout look for the row whose hash matches among the rows a
\* plain SELECT returns; only then do they lock it.
AskRefresh(p, t) ==
  /\ t \in Stored
  /\ Ask(p, [Idle EXCEPT !.pc = "lock", !.tok = t])

AskLogout(p, t) ==
  /\ t \in Stored
  /\ Ask(p, [Idle EXCEPT !.pc = "outlock", !.tok = t])

\* The locked row decides: gone or expired, refused; revoked, it is reuse.
Lock(p) ==
  LET t == h[p].tok IN
  /\ At(p, "lock") /\ Free(p, t)
  /\ IF t \notin Stored \/ t \in old THEN Done(p)
     ELSE h' = [h EXCEPT ![p].held = {t},
                         ![p].pc = IF Usable(t) THEN "rotate"
                                   ELSE "snapshot",
                         ![p].why = "reuse", ![p].known = Families]
  /\ UNCHANGED <<row, drawn, fam, old, ended, turns>>

\* The old row is revoked with replacedBy, the new row inserted, commit.
Rotate(p) ==
  LET t == h[p].tok IN
  /\ At(p, "rotate") /\ drawn < MaxTokens
  /\ IF Usable(t)
     THEN /\ drawn' = drawn + 1
          /\ row' = [row EXCEPT
               ![t] = [revoked |-> TRUE, next |-> drawn + 1],
               ![drawn + 1] = [revoked |-> FALSE, next |-> 0]]
          /\ fam' = [fam EXCEPT ![drawn + 1] = fam[t]]
          /\ Done(p)
     ELSE /\ h' = [h EXCEPT ![p].pc = "snapshot"]
          /\ UNCHANGED <<row, drawn, fam>>
  /\ UNCHANGED <<old, ended, turns>>

\* changePassword saves the new password; revokeAllUserTokens is a statement
\* of its own.
AskPassword(p) ==
  Ask(p, [Idle EXCEPT !.pc = "snapshot", !.why = "password",
                      !.known = Families])

\* cleanupExpiredTokens deletes what has expired.
AskClean(p) == Ask(p, [Idle EXCEPT !.pc = "snapshot"])

\* The rows the bulk statement of the request is about.
Concerns(p, t) ==
  IF h[p].why = "clean" THEN t \in Stored \cap old ELSE t \in Unrevoked

Snapshot(p) ==
  /\ At(p, "snapshot")
  /\ h' = [h EXCEPT ![p].pc = "bulk",
                    ![p].todo = {t \in Tokens : Concerns(p, t)}]
  /\ UNCHANGED <<row, drawn, fam, old, ended, turns>>

\* The next row: wait for it, check the condition again, write it.
Visit(p, t) ==
  /\ At(p, "bulk") /\ t \in h[p].todo /\ Free(p, t)
  /\ h' = [h EXCEPT ![p].todo = @ \ {t},
                    ![p].held = IF Concerns(p, t) THEN @ \cup {t} ELSE @]
  /\ UNCHANGED <<row, drawn, fam, old, ended, turns>>

\* Commit: what the statement wrote becomes visible.
BulkCommit(p) ==
  LET why == h[p].why
      hit == h[p].held \ {h[p].tok}
  IN
  /\ At(p, "bulk") /\ h[p].todo = {}
  /\ row' = [t \in Tokens |->
       IF t \notin hit THEN row[t]
       ELSE IF why = "clean" THEN NoRow
       ELSE [row[t] EXCEPT !.revoked = TRUE]]
  /\ ended' = IF why = "clean" THEN ended
              ELSE [ended EXCEPT ![why] = @ \cup h[p].known]
  /\ Done(p)
  /\ UNCHANGED <<drawn, fam, old, turns>>

LockLogout(p) ==
  LET t == h[p].tok IN
  /\ At(p, "outlock") /\ Free(p, t)
  /\ IF t \notin Stored THEN Done(p)
     ELSE h' = [h EXCEPT ![p].held = {t}, ![p].pc = "follow"]
  /\ UNCHANGED <<row, drawn, fam, old, ended, turns>>

\* Mutant: only the token that was sent is revoked.
FollowAs(p) ==
  LET t == h[p].tok IN
  /\ At(p, "follow")
  /\ row' = [row EXCEPT ![t].revoked = TRUE]
  /\ ended' = [ended EXCEPT !["logout"] = @ \cup {fam[t]}]
  /\ Done(p)
  /\ UNCHANGED <<drawn, fam, old, turns>>

\* The chain is followed row by row, each locked before it is read; the last
\* row is revoked.  (It has no cycle: the code stops at one too.)
Follow(p) ==
  LET t == h[p].tok
      next == row[t].next
  IN
  /\ At(p, "follow")
  /\ \/ /\ next # 0 /\ Free(p, next)
        /\ IF next \in Stored
           THEN h' = [h EXCEPT ![p].tok = next, ![p].held = @ \cup {next}]
           ELSE Done(p)
        /\ UNCHANGED <<row, ended>>
     \/ /\ next = 0
        /\ row' = [row EXCEPT ![t].revoked = TRUE]
        /\ ended' = [ended EXCEPT !["logout"] = @ \cup {fam[t]}]
        /\ Done(p)
  /\ UNCHANGED <<drawn, fam, old, turns>>

\* A transaction fails: a crash, a lost connection, a deadlock victim.
Abort(p) ==
  /\ ~At(p, "idle") /\ Done(p)
  /\ UNCHANGED <<row, drawn, fam, old, ended, turns>>

\* Time: a token expires, after those of its family that are older.
Expire(t) ==
  /\ t \in Issued \ old
  /\ \A u \in Issued \ old : fam[u] = fam[t] => t <= u
  /\ old' = old \cup {t}
  /\ UNCHANGED <<row, drawn, fam, h, ended, turns>>

Next ==
  \/ \E p \in Procs :
       \/ AskLogin(p) \/ AskPassword(p) \/ AskClean(p)
       \/ Insert(p) \/ Lock(p) \/ Rotate(p) \/ LockLogout(p) \/ Follow(p)
       \/ Snapshot(p) \/ BulkCommit(p) \/ Abort(p)
       \/ \E t \in Tokens : AskRefresh(p, t) \/ AskLogout(p, t)
                              \/ Visit(p, t)
  \/ \E t \in Tokens : Expire(t)

Spec == Init /\ [][Next]_vars

-----------------------------------------------------------------------------
\* However refreshes, retries with an old token and reuse interleave, a login
\* has at most one token that can still be used: rotation never forks.
OneLivePerLogin ==
  \A t, u \in Live : fam[t] = fam[u] => t = u

\* A logout that found its token, however old, leaves the login without a
\* usable token, whatever refreshes were under way.
LogoutEnds == \A t \in Live : fam[t] \notin ended["logout"]

\* Revocation is terminal, and only an expired row is deleted.
RevokedForGood ==
  [][\A t \in Stored :
       /\ row[t].revoked => row'[t] = NoRow \/ row'[t].revoked
       /\ row'[t] = NoRow => t \in old]_vars

=============================================================================
