--------------------------- MODULE SessionsProofs ---------------------------
(***************************************************************************)
(* Proofs about RefreshTokens, for any number of requests and tokens, and  *)
(* about BrowserSession, for any users, requests and disturbances.         *)
(*                                                                         *)
(* The tokens of a login are a chain: a row that leads nowhere is the last *)
(* one issued for it (Chains), and only such a row is ever unrevoked.  So  *)
(* there is one at most, and a logout that has followed the chain to its   *)
(* end has revoked it.  What makes it a chain is that who rotates a row    *)
(* holds it since it was found unrevoked (Locked), and what ends it for    *)
(* good that nobody else writes a row that is held (Apart).                *)
(*                                                                         *)
(* A tab decides by numbers what an answer is about: a refresh is about    *)
(* the tokens kept as long as the epoch is its own (CallOwn), a request is *)
(* its owner's as long as the generation is (RequestOwn).                  *)
(***************************************************************************)
EXTENDS Sessions, FiniteSetTheorems, TLAPS

AnyRow == [revoked: BOOLEAN, next: Int]

Types ==
  /\ drawn \in Nat /\ drawn <= MaxTokens
  /\ row \in [Tokens -> AnyRow]
  /\ fam \in [Tokens -> Nat]
  /\ old \subseteq Tokens
  /\ h \in [Procs -> Handler]
  /\ ended \in [Reasons -> SUBSET Tokens]

\* Rows are numbered as they are drawn, and a login by its first.
Numbered ==
  /\ \A t \in Stored : t <= drawn
  /\ \A t \in Issued : fam[t] \in 1..drawn
  /\ \A f \in ended["logout"] : f <= drawn

\* A row has one holder.
Apart == \A p, q \in Procs : p # q => h[p].held \cap h[q].held = {}

\* A request holds rows there are; who rotates a token, or follows its chain,
\* holds it as it was found; and a cleanup holds nothing that is still valid.
MayBe(r) ==
  /\ r.held \subseteq Stored
  /\ r.pc = "rotate" => r.tok \in r.held /\ ~row[r.tok].revoked
  /\ r.pc = "follow" => r.tok \in r.held
  /\ r.pc \in {"snapshot", "bulk"} /\ r.why = "clean" => r.held \subseteq old
  /\ r.why # "logout"

Locked == \A p \in Procs : MayBe(h[p])

\* A row without a successor is the last of its login; one that is not
\* revoked has none.
Chains ==
  /\ \A t \in Stored : row[t].next = 0 =>
       \A u \in Issued : fam[u] = fam[t] => u <= t
  /\ \A t \in Unrevoked : row[t].next = 0

\* A login that was logged out has no unrevoked token, expired or not.
EndedAll == \A t \in Unrevoked : fam[t] \notin ended["logout"]

IInv == Types /\ Numbered /\ Apart /\ Locked /\ Chains /\ EndedAll

(***************************************************************************)
(* Rows and requests                                                       *)
(***************************************************************************)
\* There is a row where the table has one; a row that was never there, or was
\* deleted, has no end.
LEMMA RowFacts ==
  /\ NoRow \in AnyRow /\ NoRow.next = -1 /\ ~NoRow.revoked
  /\ \A b \in BOOLEAN, n \in Int :
       /\ [revoked |-> b, next |-> n] \in AnyRow
       /\ n # -1 => [revoked |-> b, next |-> n] # NoRow
BY DEF NoRow, AnyRow

\* A request that has not begun holds nothing and may be.
LEMMA IdleFacts ==
  /\ Idle \in Handler /\ Idle.held = {} /\ Idle.pc = "idle"
  /\ Idle.why = "clean" /\ Idle.tok = 0 /\ Idle.todo = {}
  /\ Idle.known = {}
  /\ MayBe(Idle)
<1>1. Idle \in Handler
  BY ConstantsAssumption DEF Idle, Handler, Labels, Tokens
<1> QED
  BY <1>1 DEF Idle, MayBe

\* Initially there is no token.
LEMMA InitInv == Init => IInv
<1> SUFFICES ASSUME Init PROVE IInv
  OBVIOUS
<1>1. Stored = {} /\ Unrevoked = {} /\ Issued = {}
  BY DEF Init, Stored, Unrevoked, Issued
<1>2. Types
  BY RowFacts, IdleFacts, ConstantsAssumption DEF Init, Types
<1>3. Apart /\ Locked
  BY IdleFacts DEF Init, Apart, Locked
<1> QED
  BY <1>1, <1>2, <1>3 DEF IInv, Numbered, Chains, EndedAll, Init, Reasons

\* A request goes on and writes nothing: it holds rows there are, that it
\* held already or that are free.
LEMMA HolderStep ==
  ASSUME IInv, NEW p \in Procs, NEW r \in Handler, MayBe(r),
         \A t \in r.held : t \in h[p].held \/ Free(p, t),
         h' = [h EXCEPT ![p] = r],
         UNCHANGED <<row, drawn, fam, old, ended>>
  PROVE  IInv'
<1> USE DEF IInv
<1>1. /\ h' \in [Procs -> Handler] /\ h'[p] = r
      /\ \A q \in Procs \ {p} : h'[q] = h[q]
  BY DEF Types
<1>2. Types'
  BY <1>1 DEF Types
<1>3. Apart'
  BY <1>1 DEF Apart, Free
<1>4. \A q \in Procs : MayBe(h'[q])
  BY <1>1 DEF Locked
<1>5. Locked'
  BY <1>4 DEF Locked, MayBe, Stored
<1> QED
  BY <1>2, <1>3, <1>5
  DEF Numbered, Chains, EndedAll, Stored, Unrevoked, Issued

\* A request that ends has written only rows it held, or rows there were not:
\* nobody else notices.
LEMMA WriterStep ==
  ASSUME IInv, NEW p \in Procs, Done(p), old' = old,
         \A t \in Stored \ h[p].held : row'[t] = row[t]
  PROVE  h' \in [Procs -> Handler] /\ Apart' /\ Locked'
<1> USE DEF IInv
<1>1. /\ h' \in [Procs -> Handler] /\ h'[p] = Idle
      /\ \A q \in Procs \ {p} : h'[q] = h[q]
  BY IdleFacts DEF Types, Done
<1>2. Apart'
  BY <1>1, IdleFacts DEF Apart
<1>3. ASSUME NEW q \in Procs \ {p} PROVE MayBe(h[q])'
  <2>1. h[q].held \cap h[p].held = {} /\ MayBe(h[q])
    BY <1>3 DEF Apart, Locked
  <2>2. \A t \in h[q].held : t \in Stored /\ row'[t] = row[t]
    BY <2>1 DEF MayBe
  <2>3. h[q].held \subseteq Stored'
    BY <2>2 DEF Stored
  <2>4. h'[q] = h[q] /\ old' = old
    BY <1>1
  <2> QED
    BY <2>1, <2>2, <2>3, <2>4 DEF MayBe
<1>4. MayBe(h[p])'
  BY <1>1, IdleFacts DEF MayBe
<1> QED
  BY <1>1, <1>2, <1>3, <1>4 DEF Locked

\* A request that ends and wrote nothing.
LEMMA EndStep ==
  ASSUME IInv, NEW p \in Procs, Done(p),
         UNCHANGED <<row, drawn, fam, old, ended>>
  PROVE  IInv'
<1>1. h' = [h EXCEPT ![p] = Idle]
  BY DEF Done
<1>2. \A t \in Idle.held : t \in h[p].held \/ Free(p, t)
  BY IdleFacts
<1> QED
  BY <1>1, <1>2, IdleFacts, HolderStep

\* The rows there are were issued, and the logins there are have numbers of
\* tokens.
LEMMA IssuedFacts ==
  ASSUME Types, Numbered
  PROVE  /\ Stored \subseteq Issued /\ Issued \subseteq Tokens
         /\ \A t \in Issued : fam[t] \in Issued
         /\ \A f \in ended["logout"] : f \in Issued
         /\ Families \subseteq Tokens
<1>1. Issued \subseteq Tokens
  BY ConstantsAssumption DEF Types, Issued, Tokens
<1>2. Stored \subseteq Issued
  BY ConstantsAssumption DEF Types, Numbered, Stored, Issued, Tokens
<1>3. \A t \in Issued : fam[t] \in Issued
  BY DEF Numbered, Issued
<1>4. ended["logout"] \subseteq Tokens
  BY DEF Types, Reasons
<1>5. \A f \in ended["logout"] : f \in Issued
  BY <1>4, ConstantsAssumption DEF Types, Numbered, Issued, Tokens
<1> QED
  BY <1>1, <1>2, <1>3, <1>5 DEF Families

(***************************************************************************)
(* The actions                                                             *)
(***************************************************************************)
\* Requests begin holding nothing.
LEMMA AskInv ==
  ASSUME IInv, NEW p \in Procs,
         \/ AskLogin(p) \/ AskPassword(p) \/ AskClean(p)
         \/ \E t \in Tokens : AskRefresh(p, t) \/ AskLogout(p, t)
  PROVE  IInv'
<1> USE DEF IInv
<1>1. PICK r : Ask(p, r) /\ r \in Handler /\ r.held = {}
               /\ r.why # "logout" /\ r.pc \notin {"rotate", "follow"}
  <2>1. CASE AskLogin(p)
    <3> DEFINE r == [Idle EXCEPT !.pc = "insert"]
    <3>1. r \in Handler /\ r.held = {} /\ r.why = "clean" /\ r.pc = "insert"
      BY IdleFacts DEF Handler, Labels
    <3> QED
      BY <2>1, <3>1 DEF AskLogin
  <2>2. CASE AskPassword(p)
    <3> DEFINE r == [Idle EXCEPT !.pc = "snapshot", !.why = "password",
                                 !.known = Families]
    <3>1. /\ r \in Handler /\ r.held = {} /\ r.why = "password"
          /\ r.pc = "snapshot"
      BY IdleFacts, IssuedFacts DEF Handler, Labels, Reasons
    <3> QED
      BY <2>2, <3>1 DEF AskPassword
  <2>3. CASE AskClean(p)
    <3> DEFINE r == [Idle EXCEPT !.pc = "snapshot"]
    <3>1. /\ r \in Handler /\ r.held = {} /\ r.why = "clean"
          /\ r.pc = "snapshot"
      BY IdleFacts DEF Handler, Labels
    <3> QED
      BY <2>3, <3>1 DEF AskClean
  <2>4. ASSUME NEW t \in Tokens, NEW l \in {"lock", "outlock"},
               Ask(p, [Idle EXCEPT !.pc = l, !.tok = t])
        PROVE  \E r : Ask(p, r) /\ r \in Handler /\ r.held = {}
                      /\ r.why # "logout" /\ r.pc \notin {"rotate", "follow"}
    <3> DEFINE r == [Idle EXCEPT !.pc = l, !.tok = t]
    <3>1. t \in 0..MaxTokens
      BY ConstantsAssumption DEF Tokens
    <3>2. r \in Handler /\ r.held = {} /\ r.why = "clean" /\ r.pc = l
      BY <3>1, IdleFacts DEF Handler, Labels
    <3> QED
      BY <2>4, <3>2
  <2> QED
    BY <2>1, <2>2, <2>3, <2>4 DEF AskRefresh, AskLogout
<1>2. MayBe(r)
  BY <1>1 DEF MayBe
<1> QED
  BY <1>1, <1>2, HolderStep DEF Ask

\* A row is locked while it is free, and the request goes by what it says.
LEMMA LockInv ==
  ASSUME IInv, NEW p \in Procs, Lock(p) \/ LockLogout(p)
  PROVE  IInv'
<1> USE DEF IInv
<1> DEFINE t == h[p].tok
<1>1. h[p] \in Handler /\ h[p].why # "logout"
  BY DEF IInv, Types, Locked, MayBe
<1>2. CASE Done(p)
  BY <1>2, EndStep DEF Lock, LockLogout
<1>3. CASE Lock(p) /\ ~Done(p)
  <2> DEFINE r == [h[p] EXCEPT !.held = {t},
                     !.pc = IF Usable(t) THEN "rotate" ELSE "snapshot",
                     !.why = "reuse", !.known = Families]
  <2>1. t \in Stored /\ Free(p, t) /\ t \in Tokens
    BY <1>3 DEF Lock, Stored
  <2>2. h' = [h EXCEPT ![p] = r]
    BY <1>3 DEF Lock, IInv, Types
  <2>3. /\ r \in Handler /\ r.held = {t} /\ r.why = "reuse" /\ r.tok = t
        /\ r.pc = IF Usable(t) THEN "rotate" ELSE "snapshot"
    BY <1>1, <2>1, IssuedFacts DEF Handler, Labels, Reasons
  <2>4. MayBe(r)
    BY <2>1, <2>3 DEF MayBe, Usable
  <2> HIDE DEF r
  <2> QED
    BY <1>3, <2>1, <2>2, <2>3, <2>4, HolderStep DEF Lock
<1>4. CASE LockLogout(p) /\ ~Done(p)
  <2> DEFINE r == [h[p] EXCEPT !.held = {t}, !.pc = "follow"]
  <2>1. t \in Stored /\ Free(p, t) /\ t \in Tokens
    BY <1>4 DEF LockLogout, Stored
  <2>2. h' = [h EXCEPT ![p] = r]
    BY <1>4 DEF LockLogout, IInv, Types
  <2>3. /\ r \in Handler /\ r.held = {t} /\ r.why = h[p].why /\ r.tok = t
        /\ r.pc = "follow"
    BY <1>1, <2>1 DEF Handler, Labels
  <2>4. MayBe(r)
    BY <1>1, <2>1, <2>3 DEF MayBe
  <2> HIDE DEF r
  <2> QED
    BY <1>4, <2>1, <2>2, <2>3, <2>4, HolderStep DEF LockLogout
<1> QED
  BY <1>2, <1>3, <1>4

\* A bulk statement takes its snapshot, and the rows that still concern it.
LEMMA BulkInv ==
  ASSUME IInv, NEW p \in Procs,
         Snapshot(p) \/ \E t \in Tokens : Visit(p, t)
  PROVE  IInv'
<1>1. h[p] \in Handler /\ MayBe(h[p])
  BY DEF IInv, Types, Locked
<1>2. CASE Snapshot(p)
  <2> DEFINE r == [h[p] EXCEPT !.pc = "bulk",
                     !.todo = {t \in Tokens : Concerns(p, t)}]
  <2>1. h' = [h EXCEPT ![p] = r]
    BY <1>2 DEF Snapshot, IInv, Types
  <2>2. /\ r \in Handler /\ r.held = h[p].held /\ r.why = h[p].why
        /\ r.pc = "bulk"
    BY <1>1 DEF Handler, Labels
  <2>3. h[p].pc = "snapshot"
    BY <1>2 DEF Snapshot, At
  <2>4. MayBe(r)
    BY <1>1, <2>2, <2>3 DEF MayBe
  <2> HIDE DEF r
  <2> QED
    BY <1>2, <2>1, <2>2, <2>4, HolderStep DEF Snapshot
<1>3. ASSUME NEW t \in Tokens, Visit(p, t) PROVE IInv'
  <2> DEFINE held == IF Concerns(p, t) THEN h[p].held \cup {t}
                     ELSE h[p].held
             r == [h[p] EXCEPT !.todo = h[p].todo \ {t}, !.held = held]
  <2>1. h' = [h EXCEPT ![p] = r]
    BY <1>3 DEF Visit, IInv, Types
  <2>2. /\ r \in Handler /\ r.held = held /\ r.why = h[p].why
        /\ r.pc = h[p].pc
    BY <1>1 DEF Handler
  <2>3. h[p].pc = "bulk" /\ Free(p, t)
    BY <1>3 DEF Visit, At
  <2>4. Concerns(p, t) =>
          t \in Stored /\ (h[p].why = "clean" => t \in old)
    BY DEF Concerns, Unrevoked
  <2>5. MayBe(r)
    BY <1>1, <2>2, <2>3, <2>4 DEF MayBe
  <2>6. \A u \in r.held : u \in h[p].held \/ Free(p, u)
    BY <2>2, <2>3
  <2> HIDE DEF r
  <2> QED
    BY <1>3, <2>1, <2>2, <2>5, <2>6, HolderStep DEF Visit
<1> QED
  BY <1>2, <1>3

\* A login's first token is a chain of its own.
LEMMA InsertInv == ASSUME IInv, NEW p \in Procs, Insert(p) PROVE IInv'
<1> USE DEF IInv
<1> DEFINE n == drawn + 1
<1>1. /\ n \in Tokens /\ n \notin Stored /\ n \notin Issued /\ n \in Nat
      /\ n > drawn
  BY ConstantsAssumption DEF Insert, Types, Numbered, Tokens, Issued, Stored
<1>2. /\ drawn' = n /\ Done(p) /\ old' = old /\ ended' = ended
      /\ row' = [row EXCEPT ![n] = [revoked |-> FALSE, next |-> 0]]
      /\ fam' = [fam EXCEPT ![n] = n]
  BY DEF Insert
<1> HIDE DEF n
<1>3. /\ row' \in [Tokens -> AnyRow] /\ fam' \in [Tokens -> Nat]
      /\ row'[n].next = 0 /\ ~row'[n].revoked /\ fam'[n] = n
      /\ \A t \in Tokens \ {n} : row'[t] = row[t] /\ fam'[t] = fam[t]
  <2> DEFINE r == [revoked |-> FALSE, next |-> 0]
  <2>1. r \in AnyRow /\ r.next = 0 /\ ~r.revoked
    BY DEF AnyRow
  <2>2. row' = [row EXCEPT ![n] = r]
    BY <1>2
  <2> HIDE DEF r
  <2> QED
    BY <1>1, <1>2, <2>1, <2>2 DEF Types
<1>4. h' \in [Procs -> Handler] /\ Apart' /\ Locked'
  BY <1>1, <1>2, <1>3, WriterStep DEF Stored
<1>5. Types'
  BY <1>1, <1>2, <1>3, <1>4 DEF Types, Tokens
<1>6. /\ Stored' \subseteq Stored \cup {n}
      /\ Unrevoked' \subseteq Unrevoked \cup {n}
      /\ Issued' = Issued \cup {n} /\ Issued \subseteq Tokens
      /\ Stored \subseteq Issued
  <2>1. Issued' = Issued \cup {n}
    BY <1>1, <1>2 DEF Issued, Types, n
  <2>2. Stored' \subseteq Stored \cup {n}
    BY <1>3 DEF Stored
  <2>3. Unrevoked' \subseteq Unrevoked \cup {n}
    BY <1>3, <2>2 DEF Unrevoked, Stored
  <2> QED
    BY <2>1, <2>2, <2>3, IssuedFacts
<1>7. Numbered'
  <2>1. \A t \in Issued : fam'[t] \in Issued
    BY <1>1, <1>3, <1>6, IssuedFacts
  <2>2. \A t \in Issued' : fam'[t] \in Issued'
    BY <1>3, <1>6, <2>1
  <2>3. \A t \in Issued' : t <= drawn'
    BY DEF Issued
  <2>4. Issued' = 1..drawn'
    BY DEF Issued
  <2> QED
    BY <1>2, <1>6, <2>2, <2>3, <2>4, IssuedFacts DEF Numbered
<1>8. Chains'
  <2>1. ASSUME NEW t \in Stored', row'[t].next = 0,
               NEW u \in Issued', fam'[u] = fam'[t]
        PROVE  u <= t
    <3>1. CASE t = n
      BY <1>1, <1>2, <3>1 DEF Issued
    <3>2. CASE t # n /\ u # n
      BY <1>3, <1>6, <2>1, <3>2 DEF Chains
    <3>3. CASE t # n /\ u = n
      <4>1. t \in Issued /\ fam'[t] = fam[t] /\ fam[t] <= drawn
        BY <1>3, <1>6, <3>3 DEF Numbered, Types
      <4> QED
        BY <1>1, <1>3, <2>1, <3>3, <4>1 DEF Types
    <3> QED
      BY <3>1, <3>2, <3>3
  <2> QED
    BY <1>3, <1>6, <2>1 DEF Chains, Unrevoked, Stored
<1>9. EndedAll'
  BY <1>1, <1>2, <1>3, <1>6
  DEF EndedAll, Numbered, Types, Unrevoked, Stored, Reasons
<1> QED
  BY <1>4, <1>5, <1>7, <1>8, <1>9

\* Rotation adds a link to the end of a chain: what is held and unrevoked is
\* the last token of its login.
LEMMA RotateInv == ASSUME IInv, NEW p \in Procs, Rotate(p) PROVE IInv'
<1> USE DEF IInv
<1> DEFINE n == drawn + 1
           t == h[p].tok
<1>1. t \in h[p].held /\ t \in Stored /\ ~row[t].revoked
  BY DEF Rotate, At, Locked, MayBe
<1>2. /\ n \in Tokens /\ n \notin Stored /\ n \notin Issued /\ n \in Nat
      /\ n > drawn
  BY <1>1, ConstantsAssumption
  DEF Rotate, Usable, Types, Numbered, Tokens, Issued, Stored
<1>3. t \in Unrevoked /\ row[t].next = 0 /\ t \in Issued /\ t \in Tokens
  BY <1>1 DEF Unrevoked, Chains, Stored, Numbered, Issued, Types, Tokens
<1>4. /\ drawn' = n /\ Done(p) /\ old' = old /\ ended' = ended
      /\ row' = [row EXCEPT ![t] = [revoked |-> TRUE, next |-> n],
                            ![n] = [revoked |-> FALSE, next |-> 0]]
      /\ fam' = [fam EXCEPT ![n] = fam[t]]
  BY <1>1 DEF Rotate, Usable
<1> HIDE DEF n, t
<1>5. t # n
  BY <1>2, <1>1
<1>6. /\ row' \in [Tokens -> AnyRow] /\ fam' \in [Tokens -> Nat]
      /\ row'[n].next = 0 /\ ~row'[n].revoked /\ fam'[n] = fam[t]
      /\ row'[t].next = n /\ row'[t].revoked /\ fam'[t] = fam[t]
      /\ \A x \in Tokens \ {n} : fam'[x] = fam[x]
      /\ \A x \in Tokens \ {n, t} : row'[x] = row[x]
  <2> DEFINE r1 == [revoked |-> TRUE, next |-> n]
             r2 == [revoked |-> FALSE, next |-> 0]
  <2>1. /\ r1 \in AnyRow /\ r1.next = n /\ r1.revoked
        /\ r2 \in AnyRow /\ r2.next = 0 /\ ~r2.revoked
    BY <1>2 DEF AnyRow
  <2>2. row' = [row EXCEPT ![t] = r1, ![n] = r2]
    BY <1>4
  <2> HIDE DEF r1, r2
  <2>3. /\ row' \in [Tokens -> AnyRow] /\ row'[n] = r2 /\ row'[t] = r1
        /\ \A x \in Tokens \ {n, t} : row'[x] = row[x]
    BY <1>2, <1>3, <1>5, <2>1, <2>2 DEF Types
  <2>4. /\ fam' \in [Tokens -> Nat] /\ fam'[n] = fam[t]
        /\ \A x \in Tokens \ {n} : fam'[x] = fam[x]
    BY <1>2, <1>3, <1>4 DEF Types
  <2> QED
    BY <1>3, <1>5, <2>1, <2>3, <2>4
<1>7. h' \in [Procs -> Handler] /\ Apart' /\ Locked'
  <2>1. \A x \in Stored \ h[p].held : row'[x] = row[x]
    BY <1>1, <1>2, <1>6 DEF Stored
  <2> QED
    BY <1>4, <2>1, WriterStep
<1>8. Types'
  <2>1. drawn' \in Nat /\ drawn' <= MaxTokens
    BY <1>2, <1>4, ConstantsAssumption DEF Tokens
  <2> QED
    BY <1>4, <1>6, <1>7, <2>1 DEF Types
<1>9. /\ Stored' \subseteq Stored \cup {n}
      /\ Unrevoked' \subseteq (Unrevoked \ {t}) \cup {n}
      /\ Issued' = Issued \cup {n} /\ Issued \subseteq Tokens
      /\ Stored \subseteq Issued
  <2>1. Issued' = Issued \cup {n}
    BY <1>2, <1>4 DEF Issued, Types, n
  <2>2. Stored \subseteq Issued /\ Issued \subseteq Tokens
    BY IssuedFacts
  <2>3. Stored' \subseteq Stored \cup {n}
    BY <1>1, <1>6 DEF Stored
  <2> QED
    BY <1>6, <2>1, <2>2, <2>3 DEF Stored, Unrevoked
<1>10. Numbered'
  <2>1. \A x \in Issued : fam'[x] \in Issued
    BY <1>2, <1>6, <1>9, IssuedFacts
  <2>2. \A x \in Issued' : fam'[x] \in Issued'
    BY <1>3, <1>6, <1>9, <2>1, IssuedFacts
  <2>3. Issued' = 1..drawn' /\ \A x \in Issued' : x <= drawn'
    BY DEF Issued
  <2> QED
    BY <1>4, <1>9, <2>2, <2>3, IssuedFacts DEF Numbered
<1>11. Chains'
  <2>1. ASSUME NEW x \in Stored', row'[x].next = 0,
               NEW u \in Issued', fam'[u] = fam'[x]
        PROVE  u <= x
    <3>1. CASE x = n
      BY <1>2, <1>4, <3>1 DEF Issued
    <3>2. x # t
      BY <1>2, <1>6, <2>1 DEF Types
    <3>3. CASE x # n
      <4>1. /\ x \in Stored /\ x \in Issued /\ row[x].next = 0
            /\ fam'[x] = fam[x]
        BY <1>6, <1>9, <2>1, <3>2, <3>3
      <4>2. CASE u # n
        BY <1>6, <1>9, <2>1, <4>1, <4>2 DEF Chains
      <4>3. CASE u = n
        <5>1. fam[x] = fam[t]
          BY <1>6, <2>1, <4>1, <4>3
        <5>2. x <= t /\ t <= x
          BY <1>1, <1>3, <4>1, <5>1 DEF Chains
        <5> QED
          BY <3>2, <4>1, <1>3, <5>2 DEF Issued, Types
      <4> QED
        BY <4>2, <4>3
    <3> QED
      BY <3>1, <3>3
  <2>2. ASSUME NEW x \in Unrevoked' PROVE row'[x].next = 0
    BY <1>6, <1>9, <2>2 DEF Chains, Unrevoked, Stored
  <2> QED
    BY <2>1, <2>2 DEF Chains
<1>12. EndedAll'
  BY <1>3, <1>4, <1>6, <1>9 DEF EndedAll, Unrevoked, Stored
<1> QED
  BY <1>7, <1>8, <1>10, <1>11, <1>12

\* A bulk statement commits: rows it holds are revoked, or, when all of them
\* have expired, deleted.  No chain grows.
LEMMA CommitInv == ASSUME IInv, NEW p \in Procs, BulkCommit(p) PROVE IInv'
<1> USE DEF IInv
<1> DEFINE why == h[p].why
           hit == h[p].held \ {h[p].tok}
<1>1. /\ Done(p) /\ drawn' = drawn /\ fam' = fam /\ old' = old
      /\ row' = [t \in Tokens |->
           IF t \notin hit THEN row[t]
           ELSE IF why = "clean" THEN NoRow
           ELSE [row[t] EXCEPT !.revoked = TRUE]]
      /\ ended' = IF why = "clean" THEN ended
                  ELSE [ended EXCEPT ![why] = @ \cup h[p].known]
  BY DEF BulkCommit
<1>2. MayBe(h[p]) /\ h[p] \in Handler
  BY DEF Locked, Types
<1>3. /\ hit \subseteq Stored
      /\ why \in Reasons \cup {"clean"} /\ why # "logout"
      /\ h[p].known \subseteq Tokens
  BY <1>2 DEF MayBe, Handler
<1>4. \A t \in hit : t \in h[p].held
  OBVIOUS
<1> HIDE DEF why, hit
<1>5. \A t \in Tokens \ hit : row'[t] = row[t]
  BY <1>1
<1>6. ASSUME NEW t \in hit
      PROVE  /\ t \in Tokens /\ row'[t] \in AnyRow
             /\ \/ row'[t] = NoRow
                \/ row'[t].revoked /\ row'[t].next = row[t].next
  <2>1. t \in Tokens /\ row[t] \in AnyRow
    BY <1>3, <1>6 DEF Stored, Types
  <2>2. /\ [row[t] EXCEPT !.revoked = TRUE] \in AnyRow
        /\ [row[t] EXCEPT !.revoked = TRUE].revoked
        /\ [row[t] EXCEPT !.revoked = TRUE].next = row[t].next
    BY <2>1 DEF AnyRow
  <2>3. row'[t] = NoRow \/ row'[t] = [row[t] EXCEPT !.revoked = TRUE]
    BY <1>1, <1>6, <2>1
  <2> QED
    BY <2>1, <2>2, <2>3, RowFacts
<1>7. row' \in [Tokens -> AnyRow]
  <2>1. \A t \in Tokens : row'[t] \in AnyRow
    BY <1>5, <1>6 DEF Types
  <2>2. /\ DOMAIN row' = Tokens
        /\ row' = [t \in DOMAIN row' |-> row'[t]]
    BY <1>1
  <2> QED
    BY <2>1, <2>2
<1>8. /\ ended' \in [Reasons -> SUBSET Tokens]
      /\ ended'["logout"] = ended["logout"]
  BY <1>1, <1>3 DEF Types, Reasons
<1>9. h' \in [Procs -> Handler] /\ Apart' /\ Locked'
  <2>1. \A t \in Stored \ h[p].held : row'[t] = row[t]
    BY <1>4, <1>5 DEF Stored
  <2> QED
    BY <1>1, <2>1, WriterStep
<1>10. Types'
  BY <1>1, <1>7, <1>8, <1>9 DEF Types
<1>11. /\ Stored' \subseteq Stored /\ Unrevoked' \subseteq Unrevoked \ hit
       /\ Issued' = Issued
       /\ \A t \in Stored' : row'[t].next = row[t].next
  <2>1. Stored' \subseteq Stored
    BY <1>3, <1>5 DEF Stored
  <2>2. Unrevoked' \subseteq Unrevoked \ hit
    BY <1>5, <1>6, <2>1 DEF Stored, Unrevoked
  <2> QED
    BY <1>1, <1>5, <1>6, <2>1, <2>2 DEF Stored, Issued
<1>12. Numbered'
  BY <1>1, <1>8, <1>11 DEF Numbered
<1>13. Chains'
  BY <1>1, <1>11 DEF Chains, Unrevoked
<1>14. EndedAll'
  BY <1>1, <1>8, <1>11 DEF EndedAll
<1> QED
  BY <1>9, <1>10, <1>12, <1>13, <1>14

\* A logout takes the next row of the chain, or revokes the row at its end:
\* the only one of the login that could be unrevoked.
LEMMA FollowInv == ASSUME IInv, NEW p \in Procs, Follow(p) PROVE IInv'
<1> USE DEF IInv
<1> DEFINE t == h[p].tok
           next == row[t].next
<1>1. /\ h[p].pc = "follow" /\ h[p] \in Handler /\ MayBe(h[p])
      /\ t \in h[p].held /\ t \in Stored
  BY DEF Follow, At, Locked, MayBe, Types
<1>2. CASE Done(p) /\ row' = row /\ ended' = ended
  <2>1. UNCHANGED <<row, drawn, fam, old, ended>>
    BY <1>2 DEF Follow
  <2> QED
    BY <1>2, <2>1, EndStep
<1>3. CASE /\ Free(p, next) /\ next \in Stored /\ row' = row /\ ended' = ended
           /\ h' = [h EXCEPT ![p].tok = next, ![p].held = @ \cup {next}]
  <2> DEFINE r == [h[p] EXCEPT !.tok = next, !.held = h[p].held \cup {next}]
  <2>1. h' = [h EXCEPT ![p] = r]
    BY <1>3 DEF Types
  <2>2. next \in Tokens /\ next \in 0..MaxTokens
    BY <1>3, ConstantsAssumption DEF Stored, Tokens
  <2>3. /\ r \in Handler /\ r.held = h[p].held \cup {next} /\ r.tok = next
        /\ r.pc = h[p].pc /\ r.why = h[p].why
    BY <1>1, <2>2 DEF Handler
  <2>4. MayBe(r)
    BY <1>1, <1>3, <2>3 DEF MayBe
  <2>5. \A u \in r.held : u \in h[p].held \/ Free(p, u)
    BY <1>3, <2>3
  <2>6. UNCHANGED <<row, drawn, fam, old, ended>>
    BY <1>3 DEF Follow
  <2> HIDE DEF r
  <2> QED
    BY <2>1, <2>3, <2>4, <2>5, <2>6, HolderStep
<1>4. CASE /\ next = 0 /\ Done(p)
           /\ row' = [row EXCEPT ![t].revoked = TRUE]
           /\ ended' = [ended EXCEPT !["logout"] = @ \cup {fam[t]}]
  <2> DEFINE r == [row[t] EXCEPT !.revoked = TRUE]
  <2>1. drawn' = drawn /\ fam' = fam /\ old' = old
    BY DEF Follow
  <2>2. t \in Tokens /\ t \in Issued /\ fam[t] \in Issued
        /\ row[t] \in AnyRow /\ Issued \subseteq Tokens
    BY <1>1, IssuedFacts DEF Types
  <2> HIDE DEF t
  <2>3. r \in AnyRow /\ r.revoked /\ r.next = row[t].next
    BY <2>2 DEF AnyRow
  <2>4. row' = [row EXCEPT ![t] = r]
    BY <1>4, <2>2 DEF Types
  <2> HIDE DEF r
  <2>5. /\ row' \in [Tokens -> AnyRow] /\ row'[t] = r
        /\ \A u \in Tokens \ {t} : row'[u] = row[u]
    BY <2>2, <2>3, <2>4 DEF Types
  <2>6. /\ ended' \in [Reasons -> SUBSET Tokens]
        /\ ended'["logout"] = ended["logout"] \cup {fam[t]}
    BY <1>4, <2>2 DEF Types, Reasons
  <2>7. h' \in [Procs -> Handler] /\ Apart' /\ Locked'
    <3>1. \A u \in Stored \ h[p].held : row'[u] = row[u]
      BY <1>1, <2>5 DEF Stored, t
    <3> QED
      BY <1>4, <2>1, <3>1, WriterStep
  <2>8. Types'
    BY <2>1, <2>5, <2>6, <2>7 DEF Types
  <2>9. /\ Stored' \subseteq Stored /\ Unrevoked' \subseteq Unrevoked \ {t}
        /\ Issued' = Issued
        /\ \A u \in Stored' : row'[u].next = row[u].next
    <3>1. Stored' \subseteq Stored
      BY <1>1, <2>5 DEF Stored, t
    <3>2. Unrevoked' \subseteq Unrevoked \ {t}
      BY <2>3, <2>5, <3>1 DEF Stored, Unrevoked
    <3> QED
      BY <2>1, <2>3, <2>5, <3>1, <3>2 DEF Stored, Issued
  <2>10. Numbered'
    <3>1. fam[t] <= drawn
      BY <2>2 DEF Numbered
    <3> QED
      BY <2>1, <2>6, <2>9, <3>1 DEF Numbered
  <2>11. Chains'
    BY <2>1, <2>9 DEF Chains, Unrevoked
  <2>12. ASSUME NEW u \in Unrevoked' PROVE fam[u] # fam[t]
    <3>1. u \in Unrevoked /\ u # t /\ u \in Stored /\ row[u].next = 0
      BY <2>9, <2>12 DEF Chains, Unrevoked
    <3>2. u \in Issued
      BY <3>1, IssuedFacts
    <3>3. CASE fam[u] = fam[t]
      <4>1. u <= t
        BY <1>1, <1>4, <3>2, <3>3 DEF Chains, t
      <4>2. t <= u
        BY <2>2, <3>1, <3>3 DEF Chains
      <4> QED
        BY <2>2, <3>1, <3>2, <4>1, <4>2 DEF Issued, Types
    <3> QED
      BY <3>3
  <2>13. EndedAll'
    BY <2>1, <2>6, <2>9, <2>12 DEF EndedAll
  <2> QED
    BY <2>7, <2>8, <2>10, <2>11, <2>13
<1>5. CASE next # 0
  <2>1. /\ Free(p, next) /\ row' = row /\ ended' = ended
        /\ IF next \in Stored
           THEN h' = [h EXCEPT ![p].tok = next, ![p].held = @ \cup {next}]
           ELSE Done(p)
    BY <1>5 DEF Follow
  <2> HIDE DEF next
  <2>2. CASE next \in Stored
    BY <1>3, <2>1, <2>2
  <2>3. CASE next \notin Stored
    BY <1>2, <2>1, <2>3
  <2> QED
    BY <2>2, <2>3
<1>6. CASE next = 0
  BY <1>4, <1>6 DEF Follow
<1> QED
  BY <1>5, <1>6

\* Time expires tokens; nothing is held or written.
LEMMA ExpireInv == ASSUME IInv, NEW t \in Tokens, Expire(t) PROVE IInv'
<1> USE DEF IInv
<1>1. /\ row' = row /\ drawn' = drawn /\ fam' = fam /\ h' = h
      /\ ended' = ended /\ old' = old \cup {t}
  BY DEF Expire
<1>2. Types' /\ Apart'
  BY <1>1 DEF Types, Apart
<1>3. Numbered' /\ Chains' /\ EndedAll'
  BY <1>1
  DEF Numbered, Chains, EndedAll, Stored, Unrevoked, Issued
<1>4. Locked'
  BY <1>1 DEF Locked, MayBe, Stored
<1> QED
  BY <1>2, <1>3, <1>4

\* The invariant is inductive.
LEMMA NextInv == ASSUME IInv, [Next]_vars PROVE IInv'
<1>1. CASE UNCHANGED vars
  <2>1. /\ row' = row /\ drawn' = drawn /\ fam' = fam /\ h' = h
        /\ ended' = ended /\ old' = old
    BY <1>1 DEF vars
  <2> QED
    BY <2>1
    DEF IInv, Types, Numbered, Apart, Locked, MayBe, Chains, EndedAll,
        Stored, Unrevoked, Issued
<1>2. ASSUME NEW p \in Procs, Abort(p) PROVE IInv'
  BY <1>2, EndStep DEF Abort
<1> QED
  BY <1>1, <1>2, AskInv, LockInv, BulkInv, InsertInv, RotateInv, CommitInv,
     FollowInv, ExpireInv
  DEF Next

\* In every reachable state the tokens of a login are a chain, and who writes
\* one holds it.
THEOREM AlwaysIInv == Spec => []IInv
<1>1. Init => IInv
  BY InitInv
<1>2. IInv /\ [Next]_vars => IInv'
  BY NextInv
<1> QED
  BY <1>1, <1>2, PTL DEF Spec

(***************************************************************************)
(* What a reader should know of                                            *)
(***************************************************************************)
\* Rotation never forks: a login has at most one token that can be used.
THEOREM RotationNeverForks == Spec => []OneLivePerLogin
<1>1. ASSUME IInv PROVE OneLivePerLogin
  <2>1. SUFFICES ASSUME NEW t \in Live, NEW u \in Live, fam[t] = fam[u]
                 PROVE  t = u
    BY DEF OneLivePerLogin
  <2>2. /\ t \in Unrevoked /\ u \in Unrevoked /\ t \in Stored /\ u \in Stored
        /\ t \in Issued /\ u \in Issued
    BY <1>1, IssuedFacts DEF Live, Unrevoked, IInv
  <2>3. t <= u /\ u <= t
    BY <1>1, <2>1, <2>2 DEF IInv, Chains
  <2> QED
    BY <1>1, <2>2, <2>3 DEF IInv, Types, Issued
<1> QED
  BY <1>1, AlwaysIInv, PTL

\* A logout that found its token leaves its login without a usable one.
THEOREM LogoutIsFinal == Spec => []LogoutEnds
<1>1. IInv => LogoutEnds
  BY DEF IInv, EndedAll, LogoutEnds, Live
<1> QED
  BY <1>1, AlwaysIInv, PTL

\* A revoked token stays revoked until it is deleted, and only a token that
\* has expired is deleted.
THEOREM RevocationIsTerminal == Spec => RevokedForGood
<1>1. ASSUME IInv, Next, NEW t \in Stored
      PROVE  /\ row[t].revoked => row'[t] = NoRow \/ row'[t].revoked
             /\ row'[t] = NoRow => t \in old
  <2> USE <1>1 DEF IInv
  <2>1. /\ t \in Tokens /\ row[t] \in AnyRow /\ row[t] # NoRow
        /\ drawn \in Nat /\ t <= drawn
    BY DEF Stored, Types, Numbered
  <2>2. CASE row' = row
    BY <2>1, <2>2
  <2>3. ASSUME NEW p \in Procs, Insert(p)
        PROVE  row'[t] = row[t]
    <3>1. row' = [row EXCEPT ![drawn + 1] = [revoked |-> FALSE, next |-> 0]]
      BY <2>3 DEF Insert
    <3>2. t # drawn + 1
      BY <2>1 DEF Tokens
    <3> QED
      BY <2>1, <3>1, <3>2 DEF Types
  <2>4. ASSUME NEW p \in Procs, Rotate(p)
        PROVE  /\ row[t].revoked => row'[t].revoked
               /\ row'[t] # NoRow
    <3>1. CASE row' = row
      BY <2>1, <3>1
    <3>2. CASE row' # row
      <4> DEFINE r1 == [revoked |-> TRUE, next |-> drawn + 1]
      <4>1. row' = [row EXCEPT ![h[p].tok] = r1,
                      ![drawn + 1] = [revoked |-> FALSE, next |-> 0]]
        BY <2>4, <3>2 DEF Rotate
      <4>2. t # drawn + 1
        BY <2>1 DEF Tokens
      <4>3. r1.revoked /\ r1 # NoRow
        BY DEF NoRow
      <4> HIDE DEF r1
      <4>4. row'[t] = r1 \/ row'[t] = row[t]
        BY <2>1, <4>1, <4>2 DEF Types
      <4> QED
        BY <2>1, <4>3, <4>4
    <3> QED
      BY <3>1, <3>2
  <2>5. ASSUME NEW p \in Procs, BulkCommit(p)
        PROVE  /\ row[t].revoked => row'[t] = NoRow \/ row'[t].revoked
               /\ row'[t] = NoRow => t \in old
    <3>1. \/ row'[t] = row[t]
          \/ row'[t] = NoRow /\ t \in h[p].held /\ h[p].why = "clean"
          \/ row'[t] = [row[t] EXCEPT !.revoked = TRUE]
      BY <2>1, <2>5 DEF BulkCommit
    <3>2. [row[t] EXCEPT !.revoked = TRUE].revoked
      BY <2>1 DEF AnyRow
    <3>3. h[p].pc = "bulk" /\ MayBe(h[p])
      BY <2>5 DEF BulkCommit, At, Locked
    <3> QED
      BY <2>1, <3>1, <3>2, <3>3, RowFacts DEF MayBe
  <2>6. ASSUME NEW p \in Procs, Follow(p)
        PROVE  /\ row[t].revoked => row'[t].revoked
               /\ row'[t] # NoRow
    <3>1. \/ row'[t] = row[t]
          \/ row'[t] = [row[t] EXCEPT !.revoked = TRUE]
      BY <2>1, <2>6 DEF Follow, Types
    <3>2. [row[t] EXCEPT !.revoked = TRUE].revoked
      BY <2>1 DEF AnyRow
    <3> QED
      BY <2>1, <3>1, <3>2, RowFacts
  <2>7. ASSUME NEW p \in Procs,
               \/ AskLogin(p) \/ AskPassword(p) \/ AskClean(p) \/ Lock(p)
               \/ LockLogout(p) \/ Snapshot(p) \/ Abort(p)
        PROVE  row' = row
    BY <2>7 DEF AskLogin, AskPassword, AskClean, Ask, Lock, LockLogout,
                Snapshot, Abort
  <2>8. ASSUME NEW p \in Procs, NEW u \in Tokens,
               AskRefresh(p, u) \/ AskLogout(p, u) \/ Visit(p, u)
        PROVE  row' = row
    BY <2>8 DEF AskRefresh, AskLogout, Ask, Visit
  <2>9. ASSUME NEW u \in Tokens, Expire(u) PROVE row' = row
    BY <2>9 DEF Expire
  <2> QED
    BY <2>1, <2>2, <2>3, <2>4, <2>5, <2>6, <2>7, <2>8, <2>9 DEF Next
<1>2. IInv /\ [Next]_vars =>
        [\A t \in Stored :
           /\ row[t].revoked => row'[t] = NoRow \/ row'[t].revoked
           /\ row'[t] = NoRow => t \in old]_vars
  BY <1>1
<1> QED
  BY <1>2, AlwaysIInv, PTL DEF RevokedForGood, Spec

----------------------------------------------------------------------------
(* The tab.                                                                *)

\* The instance counts as this module does.
LEMMA SameCardinality == \A S : B!Cardinality(S) = Cardinality(S)
BY DEF B!Cardinality, Cardinality

\* A login, pair or user, or none.
Ids == B!Pairs \cup {B!None}

TokenRows == [user: Users \cup {B!None}, login: Ids,
           state: {"none", "live", "rotated", "revoked"}]
Refreshes == [pc: {"none", "sent", "answered"}, tok: Ids, epoch: Nat, got: Ids]
Stores == [access: Ids, refresh: Ids, epoch: Nat, gen: Nat]
Calls == [pc: {"none", "queued", "sent", "refused", "waiting"}, gen: Nat,
          access: Ids, retry: BOOLEAN, owner: Ids]
Flows == [pc: {"none", "boot", "load", "out", "logout"}, gen: Nat]
Statuses == {"anonymous", "authenticated", "bootstrapping", "unavailable"}

TabTypes ==
  /\ store \in Stores /\ refresh \in Refreshes
  /\ req \in [Requests -> Calls] /\ flow \in Flows
  /\ ui.status \in Statuses
  /\ server \in [B!Pairs -> TokenRows] /\ owner \in Ids
  /\ losses \in Nat /\ reloads \in Nat

\* Pairs are issued in order.
GivenInOrder == \E n \in 0..MaxPairs : B!Issued = 1..n

\* The tokens kept are one pair, of the login that began the session.
StoreOwn ==
  /\ store.access \in {B!None, store.refresh}
  /\ store.refresh # B!None =>
       store.refresh \in B!Issued /\ server[store.refresh].login = owner

\* A refresh is about the tokens kept as long as nothing was stored since;
\* what it is answered descends from what it sent.
CallOwn ==
  /\ refresh.pc # "none" =>
       /\ refresh.tok \in B!Issued /\ refresh.epoch <= store.epoch
       /\ refresh.epoch = store.epoch <=> refresh.tok = store.refresh
  /\ refresh.got # B!None =>
       /\ refresh.pc = "answered" /\ refresh.got \in B!Issued
       /\ server[refresh.got].login = server[refresh.tok].login
       /\ server[refresh.got].user = server[refresh.tok].user

\* While the generation is that of a request there are tokens, of the login
\* that it belongs to.
RequestOwn(r) ==
  /\ req[r].pc # "none" =>
       /\ req[r].gen <= store.gen
       /\ req[r].gen = store.gen =>
            req[r].owner = owner /\ store.refresh # B!None
  /\ req[r].access # B!None =>
       req[r].access \in B!Issued /\ server[req[r].access].login = req[r].owner

\* So it is for what the provider is about to load.
FlowOwn ==
  flow.pc # "none" =>
    /\ flow.gen <= store.gen
    /\ flow.pc = "load" /\ flow.gen = store.gen => store.access # B!None

\* Who is shown as signed in, or has something to retry, has tokens.
Shown ==
  /\ ui.status # "anonymous" => store.refresh # B!None
  /\ ui.status = "authenticated" => server[store.refresh].user = ui.user

\* Undisturbed, a rotated token is neither sent nor kept, but while the answer
\* is under way that replaces it.
Undisturbed ==
  losses = 0 /\ reloads = 0 =>
    /\ ~reused
    /\ refresh.pc = "sent" => server[refresh.tok].state # "rotated"
    /\ refresh.got # B!None => server[refresh.got].state # "rotated"
    /\ store.refresh # B!None /\ server[store.refresh].state = "rotated" =>
         /\ refresh.pc = "answered" /\ refresh.got # B!None
         /\ refresh.tok = store.refresh

\* The invariant of the tab.
BInv == /\ TabTypes /\ GivenInOrder /\ StoreOwn /\ CallOwn /\ FlowOwn /\ Shown
        /\ Undisturbed /\ \A r \in Requests : RequestOwn(r)
----------------------------------------------------------------------------
\* The table only grows, and nobody's login or user changes.
Evolves ==
  /\ server' \in [B!Pairs -> TokenRows] /\ GivenInOrder'
  /\ \A t \in B!Issued :
       /\ t \in B!Issued' /\ server'[t].login = server[t].login
       /\ server'[t].user = server[t].user

\* No token is rotated but t.
RotatesOnly(t) ==
  \A u \in B!Pairs : server'[u].state = "rotated" =>
                     server[u].state = "rotated" \/ u = t

\* A step that leaves the server alone.
LEMMA Unchanged ==
  ASSUME TabTypes, GivenInOrder, server' = server
  PROVE  Evolves /\ RotatesOnly(B!None)
BY DEF Evolves, TabTypes, GivenInOrder, B!Issued, RotatesOnly

\* Revoking a token changes its state only, and rotates or issues none.
LEMMA RevokedFacts ==
  ASSUME NEW t \in TokenRows
  PROVE  /\ B!Revoked(t) \in TokenRows /\ B!Revoked(t).login = t.login
         /\ B!Revoked(t).user = t.user
         /\ B!Revoked(t).state = "none" <=> t.state = "none"
         /\ B!Revoked(t).state = "rotated" <=> t.state = "rotated"
BY DEF B!Revoked, TokenRows

\* Nor does revoking many.
LEMMA RevokingEvolves ==
  ASSUME TabTypes, GivenInOrder, server' = [u \in B!Pairs |-> server'[u]],
         \A u \in B!Pairs : server'[u] \in {server[u], B!Revoked(server[u])}
  PROVE  Evolves /\ RotatesOnly(B!None) /\ B!Issued' = B!Issued
<1>1. \A u \in B!Pairs :
        /\ server'[u] \in TokenRows /\ server'[u].login = server[u].login
        /\ server'[u].user = server[u].user
        /\ server'[u].state = "none" <=> server[u].state = "none"
        /\ server'[u].state = "rotated" <=> server[u].state = "rotated"
  BY RevokedFacts DEF TabTypes
<1>2. B!Issued' = B!Issued
  BY <1>1 DEF B!Issued
<1> QED
  BY <1>1, <1>2 DEF Evolves, RotatesOnly, GivenInOrder, B!Issued

\* The next pair is one more than those issued.
LEMMA NextFacts ==
  ASSUME GivenInOrder
  PROVE  /\ B!Next1 \in Nat \ {0} /\ B!Next1 \notin B!Issued
         /\ B!Issued = 1..(B!Next1 - 1)
<1>1. PICK n \in 0..MaxPairs : B!Issued = 1..n
  BY DEF GivenInOrder
<1>2. Cardinality(B!Issued) = n
  BY <1>1, FS_Interval, SameCardinality, TabAssumption
<1> QED
  BY <1>1, <1>2, SameCardinality, TabAssumption DEF B!Next1

\* The next pair is issued: the table grows by it.
LEMMA IssueEvolves ==
  ASSUME TabTypes, GivenInOrder, B!Next1 \in B!Pairs,
         server' \in [B!Pairs -> TokenRows],
         server'[B!Next1].state # "none",
         \A t \in B!Pairs \ {B!Next1} :
           /\ server'[t].login = server[t].login
           /\ server'[t].user = server[t].user
           /\ server'[t].state = "none" <=> server[t].state = "none"
  PROVE  Evolves /\ B!Issued' = B!Issued \cup {B!Next1}
<1> DEFINE n == B!Next1
<1>1. /\ n \in Nat \ {0} /\ n \notin B!Issued /\ B!Issued = 1..(n - 1)
      /\ n \in 1..MaxPairs
  BY NextFacts DEF B!Pairs
<1>2. B!Issued' = B!Issued \cup {n}
  BY DEF B!Issued
<1> HIDE DEF n
<1>3. B!Issued' = 1..n
  BY <1>1, <1>2
<1>4. GivenInOrder'
  BY <1>1, <1>3, TabAssumption DEF GivenInOrder
<1> QED
  BY <1>1, <1>2, <1>4 DEF Evolves, n, B!Issued

\* What tokenStorage holds once a login is stored, or all is cleared.
LEMMA StoreFacts ==
  ASSUME NEW s \in Stores, NEW t \in Ids
  PROVE  /\ B!Set(s, t) \in Stores /\ B!Clear(s) \in Stores
         /\ B!Set(s, t).access = t /\ B!Set(s, t).refresh = t
         /\ B!Set(s, t).epoch = s.epoch + 1 /\ B!Set(s, t).gen = s.gen + 1
         /\ B!Clear(s).access = B!None /\ B!Clear(s).refresh = B!None
         /\ B!Clear(s).epoch = s.epoch + 1 /\ B!Clear(s).gen = s.gen + 1
BY DEF Stores, B!Set, B!Clear, Ids

\* And once a refresh is: the epoch moves, the generation stays.
LEMMA RotatedFacts ==
  ASSUME NEW s \in Stores, NEW t \in Ids
  PROVE  LET x == B!Rotated(s, t) IN
         /\ x \in Stores /\ x.access = t /\ x.refresh = t
         /\ x.epoch = s.epoch + 1 /\ x.gen = s.gen
<1> DEFINE s1 == [s EXCEPT !.access = t]
           s2 == [s1 EXCEPT !.refresh = t]
           s3 == [s2 EXCEPT !.epoch = s.epoch + 1]
<1>1. s1 \in Stores /\ s1.access = t /\ s1.epoch = s.epoch /\ s1.gen = s.gen
  BY DEF Stores
<1> HIDE DEF s1
<1>2. /\ s2 \in Stores /\ s2.access = t /\ s2.refresh = t
      /\ s2.epoch = s.epoch /\ s2.gen = s.gen
  BY <1>1 DEF Stores
<1> HIDE DEF s2
<1>3. /\ s3 \in Stores /\ s3.access = t /\ s3.refresh = t
      /\ s3.epoch = s.epoch + 1 /\ s3.gen = s.gen
  BY <1>2 DEF Stores
<1>4. B!Rotated(s, t) = s3
  BY DEF B!Rotated, s1, s2
<1> QED
  BY <1>3, <1>4

----------------------------------------------------------------------------
\* How the state of a request moves: not at all, to its end, to its beginning,
\* or on, perhaps with the access token there is.
Stays(r) == req'[r] = req[r]
Ends(r)  == req'[r] = B!Idle
Opens(r) == /\ req'[r].gen = store.gen /\ req'[r].owner = owner
            /\ req'[r].access = B!None /\ store.refresh # B!None
GoesOn(r) ==
  /\ req[r].pc # "none"
  /\ req'[r].gen = req[r].gen /\ req'[r].owner = req[r].owner
  /\ \/ req'[r].access = req[r].access
     \/ req[r].gen = store.gen /\ req'[r].access = store.access
Moves(r) == req'[r] \in Calls /\ (Stays(r) \/ Ends(r) \/ Opens(r) \/ GoesOn(r))

\* The session stays, or ends for those who began in it.
SameSession ==
  /\ store'.gen = store.gen /\ owner' = owner
  /\ store.refresh # B!None => store'.refresh # B!None
NewSession == store'.gen = store.gen + 1

\* A request stays its owner's, however it moves.
LEMMA RequestsKept ==
  ASSUME BInv, Evolves, NEW r \in Requests, Moves(r),
         SameSession \/ NewSession
  PROVE  RequestOwn(r)'
<1>1. /\ RequestOwn(r) /\ StoreOwn /\ req[r].gen \in Nat /\ store.gen \in Nat
  BY DEF BInv, TabTypes, Stores, Calls
<1>2. CASE Stays(r)
  BY <1>1, <1>2 DEF Stays, RequestOwn, SameSession, NewSession, Evolves
<1>3. CASE Ends(r)
  BY <1>3 DEF Ends, RequestOwn, B!Idle
<1>4. CASE Opens(r)
  BY <1>1, <1>4 DEF Opens, RequestOwn, SameSession, NewSession
<1>5. CASE GoesOn(r)
  BY <1>1, <1>5
  DEF GoesOn, RequestOwn, StoreOwn, SameSession, NewSession, Evolves
<1> QED
  BY <1>2, <1>3, <1>4, <1>5 DEF Moves

\* A request that is over has the shape of one.
LEMMA IdleCall == B!Idle \in Calls
BY DEF B!Idle, Calls, Ids

\* Those who wait for a refresh go on or end with it.
LEMMA WaitersMove ==
  ASSUME BInv, NEW ok \in BOOLEAN, req' = B!Waiters(ok)
  PROVE  req' \in [Requests -> Calls] /\ \A r \in Requests : Moves(r)
<1>1. ASSUME NEW r \in Requests PROVE Moves(r)
  <2>1. req[r] \in Calls /\ req'[r] = B!Waiters(ok)[r]
    BY DEF BInv, TabTypes
  <2>2. CASE req[r].pc # "waiting"
    BY <2>1, <2>2 DEF B!Waiters, Moves, Stays
  <2>3. CASE req[r].pc = "waiting" /\ ~ok
    BY <2>1, <2>3, IdleCall DEF B!Waiters, Moves, Ends
  <2>4. CASE req[r].pc = "waiting" /\ ok
    BY <2>1, <2>4 DEF B!Waiters, Moves, GoesOn, Calls
  <2> QED BY <2>2, <2>3, <2>4
<1> QED
  BY <1>1 DEF Moves, B!Waiters

----------------------------------------------------------------------------
\* Steps of requests only, and of time.
LEMMA RequestsMove ==
  ASSUME BInv, req' \in [Requests -> Calls], \A r \in Requests : Moves(r),
         UNCHANGED <<store, refresh, ui, flow, server, owner, reused, losses,
                     reloads>>
  PROVE  BInv'
<1>1. Evolves /\ SameSession
  BY Unchanged DEF BInv, SameSession
<1>2. \A r \in Requests : RequestOwn(r)'
  BY <1>1, RequestsKept
<1>3. TabTypes' /\ GivenInOrder'
  BY <1>1 DEF BInv, TabTypes, Evolves
<1>4. StoreOwn' /\ CallOwn' /\ FlowOwn' /\ Shown' /\ Undisturbed'
  BY DEF BInv, StoreOwn, CallOwn, FlowOwn, Shown, Undisturbed, B!Issued
<1> QED
  BY <1>2, <1>3, <1>4 DEF BInv

\* One request moves, the others stay.
LEMMA OneMoves ==
  ASSUME BInv, NEW r \in Requests, NEW x \in Calls,
         req' = [req EXCEPT ![r] = x], Moves(r)
  PROVE  req' \in [Requests -> Calls] /\ \A q \in Requests : Moves(q)
BY DEF BInv, TabTypes, Moves, Stays

\* A page asks.
LEMMA BeginStep ==
  ASSUME BInv, NEW r \in Requests, B!Begin(r)
  PROVE  BInv'
<1> DEFINE x1 == [B!Idle EXCEPT !.pc = "queued"]
           x2 == [x1 EXCEPT !.gen = store.gen]
           x == [x2 EXCEPT !.owner = owner]
<1>1. x1 \in Calls /\ x1.access = B!None
  BY IdleCall DEF Calls, B!Idle
<1>3. req' = [req EXCEPT ![r] = x]
  BY DEF B!Begin
<1> HIDE DEF x1
<1>4. x2 \in Calls /\ x2.access = B!None /\ x2.gen = store.gen
  BY <1>1 DEF Calls, BInv, TabTypes, Stores
<1> HIDE DEF x2
<1>2. /\ x \in Calls /\ x.access = B!None /\ x.gen = store.gen
      /\ x.owner = owner
  BY <1>4 DEF Calls, BInv, TabTypes
<1> HIDE DEF x
<1>5. req'[r] = x /\ store.refresh # B!None
  BY <1>3 DEF BInv, TabTypes, Shown, B!Begin
<1>6. Moves(r)
  BY <1>2, <1>5 DEF Moves, Opens
<1> QED
  BY <1>2, <1>3, <1>6, OneMoves, RequestsMove DEF B!Begin

\* A request is sent with the access token there is, or not at all.
LEMMA SendStep ==
  ASSUME BInv, NEW r \in Requests, B!Send(r)
  PROVE  BInv'
<1>1. /\ req[r] \in Calls /\ req[r].pc # "none" /\ store.access \in Ids
  BY DEF BInv, TabTypes, Stores, B!Send
<1>2. CASE req[r].gen = store.gen
  <2> DEFINE y == [req[r] EXCEPT !.pc = "sent"]
             x == [y EXCEPT !.access = store.access]
  <2>1. /\ y \in Calls /\ y.gen = req[r].gen /\ y.owner = req[r].owner
    BY <1>1 DEF Calls
  <2>2. req' = [req EXCEPT ![r] = x]
    BY <1>2 DEF B!Send
  <2> HIDE DEF y
  <2>3. /\ x \in Calls /\ x.gen = req[r].gen /\ x.owner = req[r].owner
        /\ x.access = store.access
    BY <1>1, <2>1 DEF Calls
  <2> HIDE DEF x
  <2>4. req'[r] = x
    BY <2>2 DEF BInv, TabTypes
  <2>5. Moves(r)
    BY <1>1, <1>2, <2>3, <2>4 DEF Moves, GoesOn
  <2> QED
    BY <2>2, <2>3, <2>5, OneMoves, RequestsMove DEF B!Send
<1>3. CASE req[r].gen # store.gen
  <2>1. req' = [req EXCEPT ![r] = B!Idle]
    BY <1>3 DEF B!Send
  <2>2. Moves(r)
    BY <2>1, IdleCall DEF BInv, TabTypes, Moves, Ends
  <2> QED
    BY <2>1, <2>2, IdleCall, OneMoves, RequestsMove DEF B!Send
<1> QED BY <1>2, <1>3

\* Only where a request stands changes.
LEMMA OnlyPc ==
  ASSUME NEW e \in Calls, NEW pc \in {"none", "queued", "sent", "refused",
                                      "waiting"}
  PROVE  LET x == [e EXCEPT !.pc = pc] IN
         /\ x \in Calls /\ x.gen = e.gen /\ x.owner = e.owner
         /\ x.access = e.access
BY DEF Calls

\* Which is one way to go on.
LEMMA OnlyPcMoves ==
  ASSUME BInv, NEW r \in Requests, req[r].pc # "none",
         NEW pc \in {"none", "queued", "sent", "refused", "waiting"},
         req' = [req EXCEPT ![r] = [req[r] EXCEPT !.pc = pc]]
  PROVE  req' \in [Requests -> Calls] /\ \A q \in Requests : Moves(q)
<1> DEFINE x == [req[r] EXCEPT !.pc = pc]
<1>1. /\ x \in Calls /\ x.gen = req[r].gen /\ x.owner = req[r].owner
      /\ x.access = req[r].access
  BY OnlyPc DEF BInv, TabTypes
<1>2. req' = [req EXCEPT ![r] = x]
  OBVIOUS
<1> HIDE DEF x
<1>3. Moves(r)
  BY <1>1, <1>2 DEF BInv, TabTypes, Moves, GoesOn
<1> QED
  BY <1>1, <1>2, <1>3, OneMoves

\* A request ends.
LEMMA ToIdleMoves ==
  ASSUME BInv, NEW r \in Requests, req' = [req EXCEPT ![r] = B!Idle]
  PROVE  req' \in [Requests -> Calls] /\ \A q \in Requests : Moves(q)
<1>1. Moves(r)
  BY IdleCall DEF BInv, TabTypes, Moves, Ends
<1> QED
  BY <1>1, IdleCall, OneMoves

\* The server answers it.
LEMMA AnsweredStep ==
  ASSUME BInv, NEW r \in Requests, B!Answered(r)
  PROVE  BInv'
<1>1. \/ req' = [req EXCEPT ![r] = [req[r] EXCEPT !.pc = "refused"]]
      \/ req' = [req EXCEPT ![r] = B!Idle]
  BY DEF B!Answered
<1>2. req[r].pc # "none"
  BY DEF B!Answered
<1> QED
  BY <1>1, <1>2, OnlyPcMoves, ToIdleMoves, RequestsMove DEF B!Answered

----------------------------------------------------------------------------
\* Whoever clears the tokens ends the session.
LEMMA SessionEnds ==
  ASSUME BInv, Evolves, RotatesOnly(B!None), store' = B!Clear(store),
         ui' = B!Anonymous, refresh' \in {refresh, B!NoCall}, owner' \in Ids,
         flow' = flow \/ flow' = [pc |-> "none", gen |-> 0],
         req' \in [Requests -> Calls], \A r \in Requests : Moves(r),
         UNCHANGED <<reused, losses, reloads>>
  PROVE  BInv'
<1>1. /\ store' \in Stores /\ store'.access = B!None /\ store'.refresh = B!None
      /\ store'.epoch = store.epoch + 1 /\ store'.gen = store.gen + 1
  <2>1. store \in Stores /\ B!None \in Ids
    BY DEF BInv, TabTypes, Ids
  <2> QED BY <2>1, StoreFacts
<1>2. store \in Stores /\ refresh \in Refreshes /\ B!NoCall \in Refreshes
  BY DEF BInv, TabTypes, B!NoCall, Refreshes, Ids
<1>3. \A r \in Requests : RequestOwn(r)'
  BY <1>1, RequestsKept DEF NewSession
<1>4. TabTypes' /\ GivenInOrder'
  <2>1. flow' \in Flows /\ ui'.status \in Statuses
    BY DEF BInv, TabTypes, Flows, B!Anonymous, Statuses
  <2> QED
    BY <1>1, <1>2, <2>1 DEF BInv, TabTypes, Evolves
<1>5. StoreOwn' /\ Shown'
  BY <1>1 DEF StoreOwn, Shown, B!Anonymous
<1>6. CallOwn'
  <2>1. \A t \in B!Issued : t \in 1..MaxPairs
    BY DEF B!Issued, B!Pairs
  <2>2. CASE refresh' = B!NoCall
    BY <2>2 DEF CallOwn, B!NoCall
  <2>3. CASE refresh' = refresh
    BY <1>1, <1>2, <2>1, <2>3, TabAssumption
    DEF BInv, CallOwn, Evolves, Stores, Refreshes, B!None
  <2> QED BY <2>2, <2>3
<1>7. FlowOwn'
  BY <1>1, <1>2 DEF BInv, FlowOwn, Stores, TabTypes, Flows
<1>8. Undisturbed'
  <2>1. \A t \in B!Pairs : server'[t].state = "rotated" =>
                           server[t].state = "rotated"
    BY TabAssumption DEF RotatesOnly, B!Pairs, B!None
  <2>2. \A t \in B!Issued : t \in B!Pairs
    BY DEF B!Issued
  <2>3. CASE refresh' = B!NoCall
    BY <1>1, <2>3 DEF BInv, Undisturbed, B!NoCall
  <2>4. CASE refresh' = refresh
    BY <1>1, <2>1, <2>2, <2>4 DEF BInv, Undisturbed, CallOwn
  <2> QED BY <2>3, <2>4
<1> QED
  BY <1>3, <1>4, <1>5, <1>6, <1>7, <1>8 DEF BInv

\* A refresh begins with the tokens there are, or is the one under way.
LEMMA JoinKeeps ==
  ASSUME BInv, store.refresh # B!None, refresh' = B!Join,
         UNCHANGED <<store, server, reused, losses, reloads>>
  PROVE  refresh' \in Refreshes /\ CallOwn' /\ Undisturbed'
<1>1. store \in Stores /\ refresh \in Refreshes /\ store.refresh \in B!Issued
  BY DEF BInv, TabTypes, StoreOwn
<1>2. CASE refresh.pc # "none"
  BY <1>1, <1>2 DEF B!Join, BInv, CallOwn, Undisturbed, B!Issued
<1>3. CASE refresh.pc = "none"
  <2>1. /\ refresh' \in Refreshes /\ refresh'.pc = "sent"
        /\ refresh'.tok = store.refresh /\ refresh'.epoch = store.epoch
        /\ refresh'.got = B!None
    BY <1>1, <1>3 DEF B!Join, B!Call, Refreshes, Stores, Ids
  <2>2. CallOwn'
    BY <1>1, <2>1 DEF CallOwn, Stores, B!Issued
  <2>3. Undisturbed'
    BY <1>1, <1>3, <2>1 DEF BInv, Undisturbed
  <2> QED BY <2>1, <2>2, <2>3
<1> QED BY <1>2, <1>3

\* A 401: the request ends, the session does, or it tries once more.
LEMMA RefusedStep ==
  ASSUME BInv, NEW r \in Requests, B!Refused(r)
  PROVE  BInv'
<1>1. req[r] \in Calls /\ req[r].pc # "none"
  BY DEF B!Refused, BInv, TabTypes
<1>2. CASE req' = [req EXCEPT ![r] = B!Idle] /\ UNCHANGED <<store, refresh, ui>>
  BY <1>2, ToIdleMoves, RequestsMove DEF B!Refused
<1>3. CASE /\ B!ExpireSession /\ req' = [req EXCEPT ![r] = B!Idle]
           /\ UNCHANGED refresh
  <2>1. Evolves /\ RotatesOnly(B!None) /\ owner' \in Ids
    BY Unchanged DEF B!Refused, BInv, TabTypes
  <2> QED
    BY <1>3, <2>1, ToIdleMoves, SessionEnds DEF B!Refused, B!ExpireSession
<1>4. CASE /\ req' = [req EXCEPT ![r].pc = "queued", ![r].retry = TRUE]
           /\ UNCHANGED <<store, refresh, ui>>
  <2> DEFINE y == [req[r] EXCEPT !.pc = "queued"]
             x == [y EXCEPT !.retry = TRUE]
  <2>1. /\ y \in Calls /\ y.gen = req[r].gen /\ y.owner = req[r].owner
        /\ y.access = req[r].access
    BY <1>1 DEF Calls
  <2>2. req' = [req EXCEPT ![r] = x]
    BY <1>1, <1>4 DEF BInv, TabTypes
  <2> HIDE DEF y
  <2>3. /\ x \in Calls /\ x.gen = req[r].gen /\ x.owner = req[r].owner
        /\ x.access = req[r].access
    BY <1>1, <2>1 DEF Calls
  <2> HIDE DEF x
  <2>4. Moves(r)
    BY <1>1, <2>2, <2>3 DEF BInv, TabTypes, Moves, GoesOn
  <2> QED
    BY <1>4, <2>2, <2>3, <2>4, OneMoves, RequestsMove DEF B!Refused
<1>5. CASE /\ req[r].gen = store.gen /\ refresh' = B!Join
           /\ req' = [req EXCEPT ![r].pc = "waiting"]
           /\ UNCHANGED <<store, ui>>
  <2>1. req' = [req EXCEPT ![r] = [req[r] EXCEPT !.pc = "waiting"]]
    BY <1>5
  <2>2. store.refresh # B!None
    BY <1>1, <1>5 DEF BInv, RequestOwn
  <2>3. refresh' \in Refreshes /\ CallOwn' /\ Undisturbed'
    BY <1>5, <2>2, JoinKeeps DEF B!Refused
  <2>4. req' \in [Requests -> Calls] /\ \A q \in Requests : Moves(q)
    BY <1>1, <2>1, OnlyPcMoves
  <2>5. Evolves /\ SameSession
    BY <1>5, Unchanged DEF B!Refused, BInv, SameSession
  <2>6. \A q \in Requests : RequestOwn(q)'
    BY <2>4, <2>5, RequestsKept
  <2>7. TabTypes' /\ GivenInOrder'
    BY <1>5, <2>3, <2>4, <2>5 DEF BInv, TabTypes, Evolves, B!Refused
  <2>8. StoreOwn' /\ FlowOwn' /\ Shown'
    BY <1>5 DEF BInv, StoreOwn, FlowOwn, Shown, B!Issued, B!Refused
  <2> QED
    BY <2>3, <2>6, <2>7, <2>8 DEF BInv
<1> QED
  BY <1>2, <1>3, <1>4, <1>5 DEF B!Refused

----------------------------------------------------------------------------
\* The provider stops waiting, or goes on.
LEMMA FlowEnds ==
  ASSUME BInv, store' = store,
         flow' = flow \/ flow' = [pc |-> "none", gen |-> 0]
  PROVE  flow' \in Flows /\ FlowOwn'
BY DEF BInv, TabTypes, Flows, FlowOwn

\* A refresh that ends without a pair for the tokens kept changes nothing but
\* who waited for it.
LEMMA RefreshFails ==
  ASSUME BInv, refresh.pc # "none", store' = store, ui' = B!UiAfter(FALSE),
         req' = B!Waiters(FALSE), flow' = B!FlowAfter(FALSE),
         refresh' = B!NoCall, losses' \in Nat,
         \/ losses' # 0
         \/ /\ losses' = losses
            /\ refresh.got = B!None \/ refresh.epoch # store.epoch,
         UNCHANGED <<server, owner, reused, reloads>>
  PROVE  BInv'
<1>1. Evolves /\ SameSession
  BY Unchanged DEF BInv, SameSession
<1>2. req' \in [Requests -> Calls] /\ \A r \in Requests : Moves(r)
  BY WaitersMove
<1>3. \A r \in Requests : RequestOwn(r)'
  BY <1>1, <1>2, RequestsKept
<1>4. B!NoCall \in Refreshes
  BY DEF B!NoCall, Refreshes, Ids
<1>5. flow' = flow \/ flow' = [pc |-> "none", gen |-> 0]
  BY DEF B!FlowAfter
<1>6. flow' \in Flows /\ FlowOwn'
  BY <1>5, FlowEnds
<1>7. \/ ui' = ui
      \/ /\ ui'.status \in {"anonymous", "unavailable"}
         /\ store.refresh = B!None => ui'.status = "anonymous"
  BY DEF B!UiAfter
<1>8. TabTypes' /\ GivenInOrder'
  <2>1. ui'.status \in Statuses
    BY <1>7 DEF BInv, TabTypes, Statuses
  <2> QED
    BY <1>1, <1>2, <1>4, <1>6, <2>1 DEF BInv, TabTypes, Evolves
<1>9. StoreOwn' /\ Shown'
  BY <1>7 DEF BInv, StoreOwn, Shown, B!Issued
<1>10. CallOwn'
  BY DEF CallOwn, B!NoCall
<1>11. Undisturbed'
  BY DEF BInv, Undisturbed, CallOwn, B!NoCall
<1> QED
  BY <1>3, <1>8, <1>6, <1>10, <1>11, <1>9 DEF BInv

\* A refresh that brought a pair, for the tokens kept or for earlier ones.
LEMMA RefreshOkStep ==
  ASSUME BInv, B!RefreshOk
  PROVE  BInv'
<1>1. /\ refresh.pc = "answered" /\ refresh.got # B!None /\ refresh' = B!NoCall
      /\ UNCHANGED <<server, stale, owner, reused, losses, reloads>>
  BY DEF B!RefreshOk
<1>2. CASE refresh.epoch # store.epoch
  <2>1. /\ store' = store /\ ui' = B!UiAfter(FALSE) /\ req' = B!Waiters(FALSE)
        /\ flow' = B!FlowAfter(FALSE)
    <3>1. B!Current(refresh.epoch) = FALSE
      BY <1>2 DEF B!Current
    <3> QED
      BY <3>1 DEF B!RefreshOk
  <2> QED
    BY <1>1, <1>2, <2>1, RefreshFails DEF BInv, TabTypes
<1>3. CASE refresh.epoch = store.epoch
  <2>1. /\ store' = B!Rotated(store, refresh.got) /\ ui' = B!UiAfter(TRUE)
        /\ req' = B!Waiters(TRUE) /\ flow' = B!FlowAfter(TRUE)
    <3>1. B!Current(refresh.epoch) = TRUE
      BY <1>3 DEF B!Current
    <3> QED
      BY <3>1 DEF B!RefreshOk
  <2>2. /\ store \in Stores /\ refresh \in Refreshes /\ refresh.got \in Ids
    BY DEF BInv, TabTypes, Refreshes
  <2>3. /\ store' \in Stores /\ store'.access = refresh.got
        /\ store'.refresh = refresh.got /\ store'.gen = store.gen
        /\ store'.epoch = store.epoch + 1
    BY <2>1, <2>2, RotatedFacts
  <2>4. /\ refresh.got \in B!Issued /\ refresh.tok = store.refresh
        /\ refresh.tok \in B!Issued
        /\ server[refresh.got].login = server[store.refresh].login
        /\ server[refresh.got].user = server[store.refresh].user
    BY <1>1, <1>3 DEF BInv, CallOwn
  <2>5. store.refresh # B!None
    BY <2>4 DEF B!Issued, B!Pairs, B!None
  <2>6. Evolves /\ SameSession
    BY <1>1, <2>3, Unchanged DEF BInv, SameSession
  <2>7. req' \in [Requests -> Calls] /\ \A r \in Requests : Moves(r)
    BY <2>1, WaitersMove
  <2>8. \A r \in Requests : RequestOwn(r)'
    BY <2>6, <2>7, RequestsKept
  <2>9. B!NoCall \in Refreshes
    BY DEF B!NoCall, Refreshes, Ids
  <2>10. ui' = ui
    BY <2>1 DEF B!UiAfter
  <2>11. \/ flow' = flow
         \/ flow'.pc \in {"load", "logout"} /\ flow'.gen = store'.gen
    BY <2>1 DEF B!FlowAfter
  <2>12. flow' \in Flows
    BY <2>1, <2>3 DEF B!FlowAfter, Flows, Stores, BInv, TabTypes
  <2>13. TabTypes' /\ GivenInOrder'
    BY <1>1, <2>3, <2>6, <2>7, <2>9, <2>10, <2>12 DEF BInv, TabTypes, Evolves
  <2>14. StoreOwn' /\ Shown'
    BY <1>1, <2>3, <2>4, <2>5, <2>10 DEF BInv, StoreOwn, Shown, B!Issued
  <2>15. FlowOwn'
    BY <1>1, <2>3, <2>11 DEF BInv, FlowOwn, Stores
  <2>16. CallOwn'
    BY <1>1 DEF CallOwn, B!NoCall
  <2>17. Undisturbed'
    BY <1>1, <2>3 DEF BInv, Undisturbed, B!NoCall
  <2> QED
    BY <2>8, <2>13, <2>14, <2>15, <2>16, <2>17 DEF BInv
<1> QED BY <1>2, <1>3

\* One that was refused ends the session that asked for it, no other.
LEMMA RefreshRefusedStep ==
  ASSUME BInv, B!RefreshRefused
  PROVE  BInv'
<1>1. /\ refresh.pc = "answered" /\ refresh.got = B!None /\ refresh' = B!NoCall
      /\ req' = B!Waiters(FALSE) /\ flow' = B!FlowAfter(FALSE)
      /\ UNCHANGED <<server, stale, owner, reused, losses, reloads>>
  BY DEF B!RefreshRefused
<1>2. CASE B!ExpireSession
  <2>1. Evolves /\ RotatesOnly(B!None) /\ owner' \in Ids
    BY <1>1, Unchanged DEF BInv, TabTypes
  <2>2. req' \in [Requests -> Calls] /\ \A r \in Requests : Moves(r)
    BY <1>1, WaitersMove
  <2>3. flow' = flow \/ flow' = [pc |-> "none", gen |-> 0]
    BY <1>1 DEF B!FlowAfter
  <2> QED
    BY <1>1, <1>2, <2>1, <2>2, <2>3, SessionEnds DEF B!ExpireSession
<1>3. CASE store' = store /\ ui' = B!UiAfter(FALSE)
  BY <1>1, <1>3, RefreshFails DEF BInv, TabTypes
<1> QED
  BY <1>2, <1>3 DEF B!RefreshRefused

\* One whose answer is lost.
LEMMA RefreshLostStep ==
  ASSUME BInv, B!RefreshLost
  PROVE  BInv'
<1>1. losses' \in Nat /\ losses' # 0
  BY DEF B!RefreshLost, BInv, TabTypes
<1> QED
  BY <1>1, RefreshFails DEF B!RefreshLost

----------------------------------------------------------------------------
\* What the server does to a token that it rotates.
LEMMA RotationEvolves ==
  ASSUME BInv, NEW t \in B!Issued, server[t].state = "live",
         B!Next1 \in B!Pairs,
         server' = [server EXCEPT ![t].state = "rotated",
                                  ![B!Next1] = server[t]]
  PROVE  /\ Evolves /\ RotatesOnly(t) /\ B!Issued' = B!Issued \cup {B!Next1}
         /\ server'[B!Next1] = server[t] /\ server'[t].state = "rotated"
<1> DEFINE x == [server[t] EXCEPT !.state = "rotated"]
<1>1. /\ t \in B!Pairs /\ server[t] \in TokenRows /\ t # B!Next1
      /\ server \in [B!Pairs -> TokenRows]
  BY NextFacts DEF BInv, TabTypes, B!Issued
<1>2. /\ x \in TokenRows /\ x.login = server[t].login
      /\ x.user = server[t].user /\ x.state = "rotated"
  BY <1>1 DEF TokenRows
<1>3. server' = [server EXCEPT ![t] = x, ![B!Next1] = server[t]]
  BY <1>1
<1> HIDE DEF x
<1>4. /\ server' \in [B!Pairs -> TokenRows] /\ server'[t] = x
      /\ server'[B!Next1] = server[t]
      /\ \A u \in B!Pairs \ {t, B!Next1} : server'[u] = server[u]
  BY <1>1, <1>2, <1>3
<1>5. t \in B!Issued /\ x.state # "none" /\ server[t].state # "none"
  BY <1>2
<1>6. Evolves /\ B!Issued' = B!Issued \cup {B!Next1}
  BY <1>1, <1>2, <1>4, <1>5, IssueEvolves DEF BInv
<1>7. RotatesOnly(t)
  BY <1>1, <1>2, <1>4 DEF RotatesOnly
<1> QED
  BY <1>2, <1>4, <1>6, <1>7

\* The server rotates, sees a reuse, or refuses.
LEMMA ServeStep ==
  ASSUME BInv, B!Serve
  PROVE  BInv'
<1> DEFINE t == refresh.tok
<1>1. /\ refresh.pc = "sent" /\ refresh.got = B!None /\ t \in B!Issued
      /\ t \in B!Pairs /\ refresh \in Refreshes
      /\ UNCHANGED <<store, req, ui, flow, stale, owner, losses, reloads>>
  BY DEF B!Serve, BInv, CallOwn, B!Issued, TabTypes
<1>2. ASSUME Evolves, refresh' \in Refreshes,
             CallOwn', Undisturbed'
      PROVE  BInv'
  <2>1. SameSession /\ \A r \in Requests : Moves(r)
    BY <1>1 DEF SameSession, Moves, Stays, BInv, TabTypes
  <2>2. \A r \in Requests : RequestOwn(r)'
    BY <1>2, <2>1, RequestsKept
  <2>3. TabTypes' /\ GivenInOrder'
    BY <1>1, <1>2 DEF BInv, TabTypes, Evolves
  <2>4. StoreOwn' /\ Shown' /\ FlowOwn'
    BY <1>1, <1>2 DEF BInv, StoreOwn, Shown, FlowOwn, Evolves
  <2> QED
    BY <1>2, <2>2, <2>3, <2>4 DEF BInv
<1>3. ASSUME refresh' = [refresh EXCEPT !.pc = "answered"]
      PROVE  /\ refresh' \in Refreshes /\ refresh'.pc = "answered"
             /\ refresh'.tok = t /\ refresh'.epoch = refresh.epoch
             /\ refresh'.got = B!None
  BY <1>1, <1>3 DEF Refreshes
<1>4. CASE /\ server[t].state = "live" /\ B!Next1 \in B!Pairs
           /\ server' = [server EXCEPT ![t].state = "rotated",
                                       ![B!Next1] = server[t]]
           /\ refresh' = [refresh EXCEPT !.pc = "answered", !.got = B!Next1]
           /\ UNCHANGED reused
  <2>1. /\ Evolves /\ RotatesOnly(t) /\ B!Issued' = B!Issued \cup {B!Next1}
        /\ server'[B!Next1] = server[t] /\ server'[t].state = "rotated"
    BY <1>1, <1>4, RotationEvolves
  <2>2. /\ refresh' \in Refreshes /\ refresh'.pc = "answered"
        /\ refresh'.tok = t /\ refresh'.epoch = refresh.epoch
        /\ refresh'.got = B!Next1
    <3> DEFINE y == [refresh EXCEPT !.pc = "answered"]
               x == [y EXCEPT !.got = B!Next1]
    <3>1. /\ y \in Refreshes /\ y.pc = "answered" /\ y.tok = t
          /\ y.epoch = refresh.epoch
      BY <1>1 DEF Refreshes
    <3>2. refresh' = x
      BY <1>4
    <3> HIDE DEF y
    <3>3. /\ x \in Refreshes /\ x.pc = "answered" /\ x.tok = t
          /\ x.epoch = refresh.epoch /\ x.got = B!Next1
      BY <1>4, <3>1 DEF Refreshes, Ids
    <3> QED BY <3>2, <3>3
  <2>3. CallOwn'
    BY <1>1, <2>1, <2>2 DEF BInv, CallOwn, Evolves
  <2>4. Undisturbed'
    <3>1. B!Next1 # B!None
      BY NextFacts DEF BInv, B!None
    <3>2. store.refresh # B!None => store.refresh \in B!Pairs
      BY DEF BInv, StoreOwn, B!Issued
    <3> QED
      BY <1>1, <1>4, <2>1, <2>2, <3>1, <3>2
      DEF BInv, Undisturbed, RotatesOnly
  <2> QED
    BY <1>2, <1>4, <2>1, <2>2, <2>3, <2>4 DEF BInv, TabTypes
<1>5. CASE /\ server[t].state # "live"
           /\ server' = [u \in B!Pairs |->
                IF server[u].user = server[t].user THEN B!Revoked(server[u])
                ELSE server[u]]
           /\ refresh' = [refresh EXCEPT !.pc = "answered"]
           /\ reused' = (reused \/ server[t].state = "rotated")
  <2>1. Evolves /\ RotatesOnly(B!None) /\ B!Issued' = B!Issued
    <3>1. \A u \in B!Pairs : server'[u] \in {server[u], B!Revoked(server[u])}
      BY <1>5
    <3> QED
      BY <1>5, <3>1, RevokingEvolves DEF BInv
  <2>2. CallOwn'
    BY <1>1, <1>3, <1>5, <2>1 DEF BInv, CallOwn
  <2>3. Undisturbed'
    <3>1. \A u \in B!Pairs : server'[u].state = "rotated" =>
                             server[u].state = "rotated"
      BY <2>1 DEF RotatesOnly, B!Pairs, B!None
    <3>2. store.refresh # B!None => store.refresh \in B!Pairs
      BY DEF BInv, StoreOwn, B!Issued
    <3> QED
      BY <1>1, <1>3, <1>5, <3>1, <3>2 DEF BInv, Undisturbed
  <2> QED
    BY <1>2, <1>3, <1>5, <2>1, <2>2, <2>3
<1>6. CASE /\ refresh' = [refresh EXCEPT !.pc = "answered"]
           /\ UNCHANGED <<server, reused>>
  <2>1. Evolves
    BY <1>6, Unchanged DEF BInv
  <2>2. CallOwn' /\ Undisturbed'
    BY <1>1, <1>3, <1>6 DEF BInv, CallOwn, Undisturbed, B!Issued
  <2> QED
    BY <1>2, <1>3, <1>6, <2>1, <2>2
<1> QED
  BY <1>4, <1>5, <1>6 DEF B!Serve

----------------------------------------------------------------------------
\* The requests and the refresh under way have nothing to do with the step.
LEMMA NobodyMoves ==
  ASSUME BInv, req' = req
  PROVE  req' \in [Requests -> Calls] /\ \A r \in Requests : Moves(r)
BY DEF BInv, TabTypes, Moves, Stays

\* A login begins a session under new numbers.
LEMMA LoginStep ==
  ASSUME BInv, NEW u \in Users, B!Login(u)
  PROVE  BInv'
<1> DEFINE n == B!Next1
           x == [user |-> u, login |-> n, state |-> "live"]
<1>1. /\ n \in B!Pairs /\ n \notin B!Issued /\ n \in Ids /\ n # B!None
      /\ server' = [server EXCEPT ![n] = x]
      /\ store' = B!Set(store, n) /\ owner' = n
      /\ flow' = [pc |-> "load", gen |-> store'.gen]
      /\ ui.status = "anonymous"
      /\ UNCHANGED <<refresh, req, ui, stale, reused, losses, reloads>>
  BY NextFacts DEF B!Login, BInv, Ids, B!None
<1>2. x \in TokenRows /\ x.state = "live" /\ x.login = n
  BY <1>1 DEF TokenRows
<1> HIDE DEF x
<1>3. /\ server \in [B!Pairs -> TokenRows] /\ server' \in [B!Pairs -> TokenRows]
      /\ server'[n] = x /\ \A t \in B!Pairs \ {n} : server'[t] = server[t]
  BY <1>1, <1>2 DEF BInv, TabTypes
<1>4. Evolves /\ B!Issued' = B!Issued \cup {n}
  BY <1>1, <1>2, <1>3, IssueEvolves DEF BInv
<1> HIDE DEF n
<1>5. /\ store \in Stores /\ store' \in Stores /\ store'.access = n
      /\ store'.refresh = n /\ store'.epoch = store.epoch + 1
      /\ store'.gen = store.gen + 1
  BY <1>1, StoreFacts DEF BInv, TabTypes
<1>6. req' \in [Requests -> Calls] /\ \A r \in Requests : RequestOwn(r)'
  BY <1>1, <1>4, <1>5, NobodyMoves, RequestsKept DEF NewSession
<1>7. TabTypes' /\ GivenInOrder'
  <2>1. flow' \in Flows
    BY <1>1, <1>5 DEF Flows, Stores
  <2> QED
    BY <1>1, <1>3, <1>4, <1>5, <1>6, <2>1 DEF BInv, TabTypes, Evolves
<1>8. StoreOwn' /\ Shown'
  BY <1>1, <1>2, <1>3, <1>4, <1>5 DEF StoreOwn, Shown
<1>9. FlowOwn'
  BY <1>1, <1>5 DEF FlowOwn, Stores
<1>10. CallOwn'
  BY <1>1, <1>4, <1>5 DEF BInv, CallOwn, Evolves, Stores, TabTypes, Refreshes
<1>11. Undisturbed'
  <2>1. \A t \in B!Issued : server'[t] = server[t]
    BY <1>1, <1>3 DEF B!Issued
  <2> QED
    BY <1>1, <1>2, <1>3, <1>5, <2>1 DEF BInv, Undisturbed, CallOwn
<1> QED
  BY <1>6, <1>7, <1>8, <1>9, <1>10, <1>11 DEF BInv

\* Steps of the provider that leave tokens and server alone.
LEMMA ProviderMoves ==
  ASSUME BInv, ui'.status \in Statuses, flow' \in Flows, Shown', FlowOwn',
         refresh' \in Refreshes, CallOwn', Undisturbed',
         UNCHANGED <<store, req, server, owner, losses, reloads>>
  PROVE  BInv'
<1>1. Evolves /\ SameSession
  BY Unchanged DEF BInv, SameSession
<1>2. req' \in [Requests -> Calls] /\ \A r \in Requests : RequestOwn(r)'
  BY <1>1, NobodyMoves, RequestsKept
<1>3. TabTypes' /\ GivenInOrder'
  BY <1>1, <1>2 DEF BInv, TabTypes, Evolves
<1>4. StoreOwn'
  BY DEF BInv, StoreOwn, B!Issued
<1> QED
  BY <1>2, <1>3, <1>4 DEF BInv

\* A step that leaves tokens, server and refresh alone.
LEMMA SameCalls ==
  ASSUME BInv,
         UNCHANGED <<store, refresh, server, reused, losses, reloads>>
  PROVE  refresh' \in Refreshes /\ CallOwn' /\ Undisturbed'
BY DEF BInv, TabTypes, CallOwn, Undisturbed, B!Issued

\* The user shown is the one of the tokens kept.
LEMMA LoadUserStep ==
  ASSUME BInv, B!LoadUser
  PROVE  BInv'
<1>1. /\ store.access # B!None /\ store.access = store.refresh
      /\ ui' = [status |-> "authenticated",
                user |-> server[store.access].user]
      /\ flow' = [pc |-> "none", gen |-> 0]
      /\ UNCHANGED <<store, refresh, req, server, stale, owner, reused,
                     losses, reloads>>
  BY DEF B!LoadUser, BInv, FlowOwn, StoreOwn
<1>2. Shown' /\ ui'.status \in Statuses
  BY <1>1 DEF Shown, Statuses
<1> QED
  BY <1>1, <1>2, FlowEnds, SameCalls, ProviderMoves

\* The user cannot be loaded.
LEMMA LoadFailsStep ==
  ASSUME BInv, B!LoadFails
  PROVE  BInv'
<1>1. /\ flow' = [pc |-> "none", gen |-> 0]
      /\ UNCHANGED <<refresh, req, server, stale, reused, losses, reloads>>
  BY DEF B!LoadFails
<1>2. CASE /\ ui' = [status |-> IF store.refresh = B!None THEN "anonymous"
                                ELSE "unavailable", user |-> B!None]
           /\ UNCHANGED <<store, owner>>
  <2>1. Shown' /\ ui'.status \in Statuses
    BY <1>2 DEF Shown, Statuses
  <2> QED
    BY <1>1, <1>2, <2>1, FlowEnds, SameCalls, ProviderMoves
<1>3. CASE store' = B!Clear(store) /\ ui' = B!Anonymous /\ owner' = B!None
  <2>1. Evolves /\ RotatesOnly(B!None) /\ owner' \in Ids
    BY <1>1, <1>3, Unchanged DEF BInv, Ids
  <2> QED
    BY <1>1, <1>3, <2>1, NobodyMoves, SessionEnds
<1> QED
  BY <1>2, <1>3 DEF B!LoadFails

\* A logout refreshes first.
LEMMA AskLogoutStep ==
  ASSUME BInv, B!AskLogout
  PROVE  BInv'
<1>1. /\ store.refresh # B!None /\ refresh' = B!Join
      /\ flow' = [pc |-> "out", gen |-> store.gen]
      /\ UNCHANGED <<store, req, ui, server, stale, owner, reused, losses,
                     reloads>>
  BY DEF B!AskLogout
<1>2. flow' \in Flows /\ FlowOwn'
  BY <1>1 DEF FlowOwn, Flows, BInv, TabTypes, Stores
<1>3. Shown' /\ ui'.status \in Statuses
  BY <1>1 DEF BInv, TabTypes, Shown
<1> QED
  BY <1>1, <1>2, <1>3, JoinKeeps, ProviderMoves

\* So does the retry of bootstrap.
LEMMA RetryBootstrapStep ==
  ASSUME BInv, B!RetryBootstrap
  PROVE  BInv'
<1>1. /\ store.refresh # B!None /\ refresh' = B!Join
      /\ flow' = [pc |-> "boot", gen |-> store.gen]
      /\ ui' = [status |-> "bootstrapping", user |-> B!None]
      /\ UNCHANGED <<store, req, server, stale, owner, reused, losses,
                     reloads>>
  BY DEF B!RetryBootstrap, BInv, Shown
<1>2. flow' \in Flows /\ FlowOwn'
  BY <1>1 DEF FlowOwn, Flows, BInv, TabTypes, Stores
<1>3. Shown' /\ ui'.status \in Statuses
  BY <1>1 DEF Statuses, Shown
<1> QED
  BY <1>1, <1>2, <1>3, JoinKeeps, ProviderMoves

\* A logout and a password change revoke and clear.
LEMMA LogoutStep ==
  ASSUME BInv, B!Logout \/ B!EndSession
  PROVE  BInv'
<1>1. /\ store' = B!Clear(store) /\ ui' = B!Anonymous /\ owner' = B!None
      /\ flow' = flow \/ flow' = [pc |-> "none", gen |-> 0]
      /\ UNCHANGED <<refresh, req, stale, reused, losses, reloads>>
  BY DEF B!Logout, B!EndSession
<1>2. /\ server' = [u \in B!Pairs |-> server'[u]]
      /\ \A u \in B!Pairs : server'[u] \in {server[u], B!Revoked(server[u])}
  BY DEF B!Logout, B!EndSession
<1>3. Evolves /\ RotatesOnly(B!None) /\ owner' \in Ids
  BY <1>1, <1>2, RevokingEvolves DEF BInv, Ids
<1> QED
  BY <1>1, <1>3, NobodyMoves, SessionEnds

\* A logout that is refused.
LEMMA LogoutFailsStep ==
  ASSUME BInv, B!LogoutFails
  PROVE  BInv'
<1>1. Shown' /\ ui'.status \in Statuses
  BY DEF B!LogoutFails, BInv, TabTypes, Shown
<1> QED
  BY <1>1, FlowEnds, SameCalls, ProviderMoves DEF B!LogoutFails

\* A reload keeps the refresh token and starts to count anew.
LEMMA ReloadStep ==
  ASSUME BInv, B!Reload
  PROVE  BInv'
<1> DEFINE kept == [B!Empty EXCEPT !.refresh = store.refresh]
<1>1. /\ store \in Stores /\ refresh \in Refreshes /\ store.refresh \in Ids
      /\ store' = kept /\ req' = [r \in Requests |-> B!Idle]
      /\ reloads' = reloads + 1 /\ reloads \in Nat
      /\ UNCHANGED <<stale, owner, reused, losses>>
  BY DEF B!Reload, BInv, TabTypes, Stores
<1>2. /\ kept \in Stores /\ kept.access = B!None /\ kept.epoch = 0
      /\ kept.refresh = store.refresh /\ kept.gen = 0
  BY <1>1 DEF Stores, B!Empty, Ids
<1>3. Evolves
  <2>1. CASE UNCHANGED server
    BY <2>1, Unchanged DEF BInv
  <2>2. CASE /\ refresh.pc = "sent" /\ server[refresh.tok].state = "live"
             /\ B!Next1 \in B!Pairs
             /\ server' = [server EXCEPT ![refresh.tok].state = "rotated",
                                         ![B!Next1] = server[refresh.tok]]
    BY <2>2, RotationEvolves DEF BInv, CallOwn
  <2> QED
    BY <2>1, <2>2 DEF B!Reload
<1>4. \/ /\ store.refresh = B!None /\ ui' = B!Anonymous /\ refresh' = B!NoCall
         /\ flow' = [pc |-> "none", gen |-> 0]
      \/ /\ store.refresh # B!None
         /\ ui' = [status |-> "bootstrapping", user |-> B!None]
         /\ refresh' = [pc |-> "sent", tok |-> store.refresh, epoch |-> 0,
                        got |-> B!None]
         /\ flow' = [pc |-> "boot", gen |-> 0]
  BY <1>2 DEF B!Reload
<1> HIDE DEF kept
<1>5. /\ refresh' \in Refreshes /\ flow' \in Flows
      /\ ui'.status \in Statuses
  BY <1>1, <1>4
  DEF B!NoCall, Refreshes, Ids, Flows, Statuses, B!Anonymous
<1>6. TabTypes' /\ GivenInOrder'
  BY <1>1, <1>2, <1>3, <1>5, IdleCall DEF BInv, TabTypes, Evolves
<1>7. StoreOwn' /\ Shown'
  BY <1>1, <1>2, <1>3, <1>4
  DEF BInv, StoreOwn, Shown, Evolves, B!Anonymous
<1>8. CallOwn'
  BY <1>1, <1>2, <1>3, <1>4, <1>7 DEF BInv, CallOwn, StoreOwn, Stores, B!NoCall
<1>9. FlowOwn' /\ Undisturbed'
  BY <1>1, <1>2, <1>4 DEF FlowOwn, Undisturbed
<1>10. \A r \in Requests : RequestOwn(r)'
  BY <1>1 DEF RequestOwn, B!Idle
<1> QED
  BY <1>6, <1>7, <1>8, <1>9, <1>10 DEF BInv

----------------------------------------------------------------------------
\* On the login page nothing is known yet.
LEMMA InitBInv == B!Init => BInv
<1> SUFFICES ASSUME B!Init PROVE BInv
  OBVIOUS
<1>1. B!Issued = {} /\ {} = 1..0 /\ 0 \in 0..MaxPairs
  BY TabAssumption DEF B!Init, B!Issued, B!NoTok
<1>2. GivenInOrder
  BY <1>1 DEF GivenInOrder
<1>3. B!NoTok \in TokenRows /\ B!None \in Ids
  BY DEF B!NoTok, TokenRows, Ids
<1>4. TabTypes
  BY <1>3, IdleCall
  DEF B!Init, TabTypes, Stores, B!Empty, B!NoCall, Refreshes, Flows, Statuses
<1>5. StoreOwn /\ CallOwn /\ FlowOwn /\ Shown
  BY DEF B!Init, B!Empty, B!NoCall, StoreOwn, CallOwn, FlowOwn, Shown
<1>6. Undisturbed /\ \A r \in Requests : RequestOwn(r)
  BY DEF B!Init, Undisturbed, B!Empty, B!NoCall, RequestOwn, B!Idle
<1> QED
  BY <1>2, <1>4, <1>5, <1>6 DEF BInv

\* Every callback, answer and disturbance keeps the invariant.
LEMMA NextBInv == BInv /\ [B!Next]_(B!vars) => BInv'
<1> SUFFICES ASSUME BInv, [B!Next]_(B!vars) PROVE BInv'
  OBVIOUS
<1>1. CASE UNCHANGED B!vars \/ \E t \in B!Pairs : B!AccessExpires(t)
  BY <1>1, NobodyMoves, RequestsMove DEF B!vars, B!AccessExpires
<1>2. CASE B!Steps
  BY <1>2, ServeStep, RefreshOkStep, RefreshRefusedStep, LoadUserStep,
     LoadFailsStep, LogoutStep, LogoutFailsStep, SendStep, AnsweredStep,
     RefusedStep
  DEF B!Steps
<1>3. CASE \/ B!RefreshLost \/ B!Reload \/ B!RetryBootstrap
           \/ (\E u \in Users : B!Login(u)) \/ B!AskLogout \/ B!EndSession
           \/ \E r \in Requests : B!Begin(r)
  BY <1>3, RefreshLostStep, ReloadStep, RetryBootstrapStep, LoginStep,
     AskLogoutStep, LogoutStep, BeginStep
<1> QED
  BY <1>1, <1>2, <1>3 DEF B!Next

\* The invariant holds in every reachable state.
THEOREM TabInvariance == B!Spec => []BInv
  BY InitBInv, NextBInv, PTL DEF B!Spec

\* A tab sends, keeps and shows its own session's tokens only, and undisturbed
\* it sends none twice.
THEOREM TabKeepsItsTokens == B!Spec => []OwnTokensOnly
<1>1. BInv => OwnTokensOnly
  BY DEF BInv, OwnTokensOnly, B!NoForeignRequest, B!KeepsOwnTokens, RequestOwn,
     B!SignedInHasTokens, B!NoSelfReuse, StoreOwn, Shown, Undisturbed
<1> QED
  BY <1>1, TabInvariance, PTL
=============================================================================
