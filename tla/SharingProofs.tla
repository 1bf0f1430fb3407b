---------------------------- MODULE SharingProofs ----------------------------
(***************************************************************************)
(* Proofs about ShareLinks, for any links, requests, limits and locks, and *)
(* about PublicUploads, for any requests, keys, folders and bounds.        *)
(*                                                                         *)
(* The counter and what was served part only where a revocation saves a    *)
(* stale entity, and it saves it revoked; a slot is taken by one statement *)
(* that reads the row it writes.                                           *)
(*                                                                         *)
(* An upload commits what it looked up under its locks: who has the        *)
(* owner's row and the link's is alone with the receipts, and the link and *)
(* the target stay as they were.  The receipt of a key stands for what was *)
(* made, so that the key makes nothing else until it is cleaned up.        *)
(***************************************************************************)
EXTENDS Sharing, FiniteSetTheorems, TLAPS

\* A row, without the bounds on its counters.
AnyRow == [active: BOOLEAN, count: Nat, failed: Nat,
           lock: {"none", "future", "past"}]

\* What a request keeps of a row is a row, however old.
Types ==
  /\ link \in [Links -> AnyRow]
  /\ served \in [Links -> Nat]
  /\ h \in [Procs -> [pc: Labels, on: Links, seen: AnyRow, right: BOOLEAN,
                      get: {"nothing", "file", "archive"}]]

IInv == Types /\ WithinLimit

\* Initially nothing is counted.
LEMMA InitInv == Init => IInv
<1> SUFFICES ASSUME Init PROVE IInv
  OBVIOUS
<1>1. Fresh \in AnyRow
  BY DEF Fresh, AnyRow
<1>2. PICK l \in Links : h = [p \in Procs |->
        [pc |-> "idle", on |-> l, seen |-> Fresh, right |-> FALSE,
         get |-> "nothing"]]
  BY DEF Init
<1>3. Types
  BY <1>1, <1>2 DEF Types, Init, Labels
<1>4. WithinLimit
  BY ConstantsAssumption DEF WithinLimit, Init, Fresh
<1> QED
  BY <1>3, <1>4 DEF IInv

\* One more attempt is a row with the same count, as active as before.
LEMMA CountedRow ==
  ASSUME NEW r \in AnyRow
  PROVE  /\ Counted(r) \in AnyRow
         /\ Counted(r).active = r.active /\ Counted(r).count = r.count
<1> DEFINE locked == IF r.failed + 1 >= LockThreshold THEN "future"
                     ELSE r.lock
<1>1. /\ r.active \in BOOLEAN /\ r.count \in Nat /\ r.failed + 1 \in Nat
      /\ r.lock \in {"none", "future", "past"}
  BY DEF AnyRow
<1>2. locked \in {"none", "future", "past"}
  BY <1>1
<1> DEFINE r1 == [r EXCEPT !.failed = 1, !.lock = "none"]
           r2 == [r EXCEPT !.failed = r.failed + 1, !.lock = locked]
<1> HIDE DEF locked
<1>3. r1 \in AnyRow /\ r1.active = r.active /\ r1.count = r.count
  BY DEF AnyRow
<1>4. r2 \in AnyRow /\ r2.active = r.active /\ r2.count = r.count
  BY <1>1, <1>2 DEF AnyRow
<1>5. Counted(r) = r1 \/ Counted(r) = r2
  BY DEF Counted, locked
<1> HIDE DEF r1, r2
<1> QED
  BY <1>3, <1>4, <1>5

\* A statement that changes neither the count nor active keeps what they say,
\* as long as nothing is served.
LEMMA SameCounts ==
  ASSUME IInv, served' = served,
         link' \in [Links -> AnyRow],
         \A l \in Links : /\ link'[l].active => link[l].active
                          /\ link'[l].active =>
                               link'[l].count = link[l].count
  PROVE  WithinLimit'
BY DEF IInv, WithinLimit

\* A request goes on, with a row it may have read.
LEMMA HandlerStep ==
  ASSUME Types, NEW p \in Procs, NEW l \in Labels, Goto(p, l)
  PROVE  h' \in [Procs -> [pc: Labels, on: Links, seen: AnyRow,
                           right: BOOLEAN,
                           get: {"nothing", "file", "archive"}]]
BY DEF Types, Goto

\* What a request of a visitor, or of the owner, begins with.
LEMMA AskInv ==
  ASSUME IInv, NEW p \in Procs, NEW l \in Links,
         \/ \E right \in BOOLEAN :
              \/ AskVerify(p, l, right)
              \/ \E what \in {"file", "archive"} :
                   AskDownload(p, l, right, what)
         \/ AskRevoke(p, l)
  PROVE  IInv'
<1>1. link' = link /\ served' = served
  BY DEF AskVerify, AskDownload, AskRevoke
<1>2. Fresh \in AnyRow /\ link[l] \in AnyRow
  BY DEF Fresh, AnyRow, IInv, Types
<1>3. Types'
  <2>1. CASE AskRevoke(p, l)
    <3> DEFINE r == [h[p] EXCEPT !.pc = "save", !.on = l, !.seen = link[l]]
    <3>1. h' = [h EXCEPT ![p] = r]
      BY <2>1 DEF AskRevoke, IInv, Types
    <3>2. r \in [pc: Labels, on: Links, seen: AnyRow, right: BOOLEAN,
                 get: {"nothing", "file", "archive"}]
      <4>1. h[p] \in [pc: Labels, on: Links, seen: AnyRow, right: BOOLEAN,
                      get: {"nothing", "file", "archive"}]
        BY DEF IInv, Types
      <4> QED
        BY <1>2, <4>1 DEF Labels
    <3> HIDE DEF r
    <3> QED
      BY <1>1, <3>1, <3>2 DEF IInv, Types
  <2>2. CASE \E right \in BOOLEAN : AskVerify(p, l, right)
    BY <1>1, <1>2, <2>2 DEF AskVerify, IInv, Types, Labels
  <2>3. CASE \E right \in BOOLEAN, what \in {"file", "archive"} :
               AskDownload(p, l, right, what)
    BY <1>1, <1>2, <2>3 DEF AskDownload, IInv, Types, Labels
  <2> QED
    BY <2>1, <2>2, <2>3
<1> QED
  BY <1>1, <1>3 DEF IInv, WithinLimit

\* The password: attempts are counted and cleared, downloads are not touched.
LEMMA PasswordInv ==
  ASSUME IInv, NEW p \in Procs, Find(p) \/ Advance(p) \/ Compare(p)
  PROVE  IInv'
<1> USE DEF IInv
<1>1. served' = served
  BY DEF Find, Advance, Compare
<1>2. CASE Find(p)
  <2>1. link' = link /\ Types'
    BY <1>1, <1>2 DEF Find, Goto, Types, Labels
  <2> QED
    BY <1>1, <2>1, SameCounts DEF Types
<1>3. CASE Advance(p)
  <2>1. link' = [k \in Links |-> IF k \in Matched(h[p].on)
                                 THEN Counted(link[k]) ELSE link[k]]
    BY <1>3 DEF Advance
  <2>2. /\ link' \in [Links -> AnyRow]
        /\ \A k \in Links : /\ link'[k].active = link[k].active
                            /\ link'[k].count = link[k].count
    BY <2>1, CountedRow DEF Types
  <2>3. \E l \in Labels : Goto(p, l)
    BY <1>3 DEF Advance, Labels
  <2> QED
    BY <1>1, <2>2, <2>3, HandlerStep, SameCounts DEF Types
<1>4. CASE Compare(p)
  <2>1. h[p].on \in Links
    BY DEF Types
  <2>2. \/ link' = link
        \/ link' = [link EXCEPT ![h[p].on].failed = 0,
                                ![h[p].on].lock = "none"]
    BY <1>4 DEF Compare, Refuse
  <2>3. /\ link' \in [Links -> AnyRow]
        /\ \A k \in Links : /\ link'[k].active = link[k].active
                            /\ link'[k].count = link[k].count
    <3>1. CASE link' = link
      BY <3>1 DEF Types
    <3>2. CASE link' # link
      <4> DEFINE o == h[p].on
                 r == [link[o] EXCEPT !.failed = 0, !.lock = "none"]
      <4>1. link[o] \in AnyRow
        BY <2>1 DEF Types
      <4>3. link' = [link EXCEPT ![o] = r]
        BY <2>1, <2>2, <3>2 DEF Types
      <4>4. /\ r \in AnyRow /\ r.active = link[o].active
            /\ r.count = link[o].count
        BY <4>1 DEF AnyRow
      <4> HIDE DEF r
      <4> QED
        BY <2>1, <4>3, <4>4 DEF Types
    <3> QED
      BY <3>1, <3>2
  <2>4. \E l \in Labels : Goto(p, l)
    BY <1>4 DEF Compare, Refuse, Labels
  <2> QED
    BY <1>1, <2>3, <2>4, HandlerStep, SameCounts DEF Types
<1> QED
  BY <1>2, <1>3, <1>4

\* Opening takes no slot.
LEMMA OpenInv ==
  ASSUME IInv, NEW p \in Procs, Open(p) \/ OpenFails(p)
  PROVE  IInv'
<1>1. link' = link /\ served' = served /\ \E l \in Labels : Goto(p, l)
  BY DEF Open, OpenFails, Labels
<1> QED
  BY <1>1, HandlerStep, SameCounts DEF IInv, Types

\* A slot is taken only while there is one, of an active link, whose count
\* is what it served.
LEMMA AdmitInv == ASSUME IInv, NEW p \in Procs, Admit(p) PROVE IInv'
<1> USE DEF IInv
<1> DEFINE l == h[p].on
<1>1. l \in Links /\ \E to \in Labels : Goto(p, to)
  BY DEF Types, Admit, Labels
<1>2. CASE ~Admits(p)
  <2>1. link' = link /\ served' = served
    BY <1>2 DEF Admit
  <2> QED
    BY <1>1, <2>1, HandlerStep, SameCounts DEF Types
<1>3. CASE Admits(p)
  <2>1. /\ link' = [link EXCEPT ![l].count = @ + 1]
        /\ served' = [served EXCEPT ![l] = @ + 1]
    BY <1>3 DEF Admit
  <2>2. link[l].active /\ link[l].count < Limit
    BY <1>3 DEF Admits, Slot, MemberSlot, ArchiveSlot
  <2>3. served[l] = link[l].count /\ served[l] \in Nat
    BY <1>1, <2>2 DEF WithinLimit, Types
  <2>4. /\ link' \in [Links -> AnyRow] /\ served' \in [Links -> Nat]
        /\ link'[l].count = link[l].count + 1
        /\ served'[l] = served[l] + 1
        /\ \A k \in Links \ {l} : link'[k] = link[k] /\ served'[k] = served[k]
    BY <1>1, <2>1 DEF Types, AnyRow
  <2>5. Types'
    BY <1>1, <2>4, HandlerStep DEF Types
  <2>6. WithinLimit'
    BY <1>1, <2>2, <2>3, <2>4, ConstantsAssumption DEF WithinLimit
  <2> QED
    BY <2>5, <2>6
<1> QED
  BY <1>2, <1>3

\* A stale entity is saved, and with it a stale count: of a link that is not
\* active.
LEMMA RevokeInv == ASSUME IInv, NEW p \in Procs, Revoke(p) PROVE IInv'
<1> USE DEF IInv
<1>1. /\ h[p].on \in Links /\ h[p].seen \in AnyRow
      /\ served' = served /\ \E to \in Labels : Goto(p, to)
  BY DEF Types, Revoke, Labels
<1>2. link' = [link EXCEPT ![h[p].on] = [h[p].seen EXCEPT !.active = FALSE]]
  BY DEF Revoke
<1>3. /\ [h[p].seen EXCEPT !.active = FALSE] \in AnyRow
      /\ ~[h[p].seen EXCEPT !.active = FALSE].active
  BY <1>1 DEF AnyRow
<1>4. /\ link' \in [Links -> AnyRow] /\ ~link'[h[p].on].active
      /\ \A k \in Links \ {h[p].on} : link'[k] = link[k]
  BY <1>1, <1>2, <1>3 DEF Types
<1> QED
  BY <1>1, <1>4, HandlerStep, SameCounts DEF Types

\* The trash, the tree above a file and time write no count.
LEMMA WorldInv ==
  ASSUME IInv, NEW l \in Links,
         \/ Trash(l) \/ Restore(l) \/ Expire(l) \/ LockEnds(l)
         \/ \E what \in {"chain", "member"} : Cut(l, what) \/ Mend(l, what)
  PROVE  IInv'
<1>1. h' = h /\ served' = served
  BY DEF Trash, Restore, Expire, LockEnds, Cut, Mend
<1>2. link' = link \/ link' = [link EXCEPT ![l].lock = "past"]
  BY DEF Trash, Restore, Expire, LockEnds, Cut, Mend
<1> DEFINE r == [link[l] EXCEPT !.lock = "past"]
<1>3. /\ r \in AnyRow /\ r.active = link[l].active
      /\ r.count = link[l].count
  BY DEF IInv, Types, AnyRow
<1>4. link' = link \/ link' = [link EXCEPT ![l] = r]
  BY <1>2 DEF IInv, Types
<1> HIDE DEF r
<1>5. /\ link' \in [Links -> AnyRow]
      /\ \A k \in Links : /\ link'[k].active = link[k].active
                          /\ link'[k].count = link[k].count
  BY <1>3, <1>4 DEF IInv, Types
<1> QED
  BY <1>1, <1>5, SameCounts DEF IInv, Types

\* The invariant is inductive.
LEMMA NextInv == ASSUME IInv, [Next]_vars PROVE IInv'
<1>1. CASE UNCHANGED vars
  BY <1>1 DEF vars, IInv, Types, WithinLimit
<1> QED
  BY <1>1, AskInv, PasswordInv, OpenInv, AdmitInv, RevokeInv, WorldInv
  DEF Next

\* In every reachable state the rows are rows and the counters of active
\* links are true.
THEOREM AlwaysIInv == Spec => []IInv
<1>1. Init => IInv
  BY InitInv
<1>2. IInv /\ [Next]_vars => IInv'
  BY NextInv
<1> QED
  BY <1>1, <1>2, PTL DEF Spec

(***************************************************************************)
(* What a reader should know of                                            *)
(***************************************************************************)
\* No link lets more downloads through than its limit, and the counter of an
\* active link is their number, whatever runs at once.
THEOREM LimitKept == Spec => []WithinLimit
<1>1. IInv => WithinLimit
  BY DEF IInv
<1> QED
  BY <1>1, AlwaysIInv, PTL

\* A revoked link stays revoked and serves nothing, whatever was under way.
THEOREM RevocationHolds == Spec => RevokedForGood
<1>1. ASSUME IInv, Next, NEW l \in Links, ~link[l].active
      PROVE  ~link'[l].active /\ served'[l] = served[l]
  <2> USE <1>1 DEF IInv
  <2>1. CASE link' = link /\ served' = served
    BY <2>1
  <2>2. ASSUME NEW p \in Procs, Advance(p)
        PROVE  ~link'[l].active /\ served'[l] = served[l]
    <3>1. link'[l] = link[l] \/ link'[l] = Counted(link[l])
      BY <2>2 DEF Advance
    <3> QED
      BY <2>2, <3>1, CountedRow DEF Types, Advance
  <2>3. ASSUME NEW p \in Procs, Compare(p)
        PROVE  ~link'[l].active /\ served'[l] = served[l]
    BY <2>3 DEF Compare, Refuse, Types, AnyRow
  <2>4. ASSUME NEW p \in Procs, Admit(p)
        PROVE  ~link'[l].active /\ served'[l] = served[l]
    <3>1. CASE Admits(p)
      <4>1. l # h[p].on /\ h[p].on \in Links
        BY <3>1 DEF Admits, Slot, MemberSlot, ArchiveSlot, Types
      <4> QED
        BY <2>4, <3>1, <4>1 DEF Admit, Types
    <3> QED
      BY <2>4, <3>1 DEF Admit
  <2>5. ASSUME NEW p \in Procs, Revoke(p)
        PROVE  ~link'[l].active /\ served'[l] = served[l]
    BY <2>5 DEF Revoke, Types, AnyRow
  <2>6. ASSUME NEW k \in Links, LockEnds(k)
        PROVE  ~link'[l].active /\ served'[l] = served[l]
    BY <2>6 DEF LockEnds, Types, AnyRow
  <2> QED
    BY ZenonT(90), <2>1, <2>2, <2>3, <2>4, <2>5, <2>6
    DEF Next, AskVerify, AskDownload, AskRevoke, Find, Open, OpenFails,
        Trash, Restore, Expire, Cut, Mend
<1>2. IInv /\ [Next]_vars =>
        [\A l \in Links : ~link[l].active =>
           ~link'[l].active /\ served'[l] = served[l]]_vars
  BY <1>1
<1> QED
  BY <1>2, AlwaysIInv, PTL DEF RevokedForGood, Spec
-----------------------------------------------------------------------------
\* The invariant.
Result == [kind: U!Kinds, key: Keys, target: Targets, old: BOOLEAN,
           at: {"put", "away"},
           status: {"made", "pending", "completed", "aborted", "gone"}]

UTypes ==
  /\ shared \in [active: BOOLEAN, old: BOOLEAN] /\ inside \subseteq Targets
  /\ res \in [U!Results -> Result \cup {U!NoResult}]
  /\ receipt \in [U!Kinds \X Keys -> U!Receipt \cup {U!NoReceipt}]
  /\ forgotten \subseteq U!Results
  /\ user \subseteq Procs /\ row \subseteq Procs
  /\ g \in [Procs -> U!Handler]
  /\ answers \subseteq U!Kinds \X Keys \X Targets \X U!Results

\* One request at a time has the owner's row, and one of those the link's.
HoldsLocks(p) ==
  /\ IF g[p].pc \in {"idle", "user"} THEN p \notin user ELSE user = {p}
  /\ IF g[p].pc \in {"idle", "user", "link"} THEN p \notin row ELSE row = {p}

\* Ids are given in order.
Numbered == \E n \in 0..MaxResults : U!Made = 1..n

\* r is what a request of that kind, key and target made.
Fits(kind, key, t, r) ==
  r \in U!Made /\ res[r].kind = kind /\ res[r].key = key /\ res[r].target = t

\* What was made keeps its receipt until that is cleaned up; a receipt
\* names what its request made.
HasReceipt ==
  \A r \in U!Made \ forgotten :
    receipt[<<res[r].kind, res[r].key>>] # U!NoReceipt
NamesItsResult ==
  \A kind \in U!Kinds, key \in Keys :
    LET o == receipt[<<kind, key>>] IN
    o # U!NoReceipt /\ o.result # 0 => Fits(kind, key, o.target, o.result)

\* There is room for what a request is about to make, and no receipt yet.
MayMake(p) ==
  /\ receipt[<<g[p].kind, g[p].key>>] = U!NoReceipt
  /\ Cardinality(U!Receipts) < MaxReceipts
  /\ g[p].kind = "upload_session" => Cardinality(U!Pending) < MaxPending

\* Under its locks the link stays active and the target inside.
Works(p) ==
  g[p].pc \notin {"idle", "user", "link"} =>
    /\ shared.active
    /\ g[p].todo = "make" => g[p].target \in inside
    /\ g[p].pc \in {"replay", "check", "make"} => g[p].todo = "make"
    /\ U!At(p, "publish") => g[p].todo = "publish"
    /\ U!At(p, "check") => Fits(g[p].kind, g[p].key, g[p].target, g[p].r)
    /\ g[p].pc \in {"make", "commit"} /\ g[p].todo = "make" => MayMake(p)
    /\ U!At(p, "commit") /\ g[p].todo = "make" => U!Fresh \in U!Results
    /\ U!At(p, "commit") /\ g[p].todo = "publish" =>
         g[p].r \in U!Pending /\ res[g[p].r].target \in inside

UInv ==
  /\ UTypes /\ Numbered /\ HasReceipt /\ NamesItsResult
  /\ U!OnePerKey /\ U!AnswersFit /\ U!Bounded
  /\ \A p \in Procs : HoldsLocks(p) /\ Works(p)
----------------------------------------------------------------------------
\* The instance counts as this module does.
LEMMA SameCardinality == \A S : U!Cardinality(S) = Cardinality(S)
BY DEF U!Cardinality, Cardinality

\* Numbers and finite sets.
LEMMA MadeFacts ==
  ASSUME UTypes, BoundsAreNumbers
  PROVE  /\ U!Made \subseteq U!Results /\ IsFiniteSet(U!Made)
         /\ \A r \in U!Made : res[r] \in Result
         /\ \A r \in U!Results \ U!Made : res[r] = U!NoResult
         /\ U!Pending \subseteq U!Made
         /\ IsFiniteSet(U!Pending) /\ Cardinality(U!Pending) \in Nat
         /\ IsFiniteSet(U!Receipts) /\ Cardinality(U!Receipts) \in Nat
<1>1. IsFiniteSet(U!Results)
  BY FS_Interval DEF U!Results, BoundsAreNumbers
<1>2. /\ U!Made \subseteq U!Results /\ U!Pending \subseteq U!Made
      /\ \A r \in U!Made : res[r] \in Result
      /\ \A r \in U!Results \ U!Made : res[r] = U!NoResult
  BY DEF U!Made, U!Pending, UTypes
<1>3. IsFiniteSet(U!Made) /\ IsFiniteSet(U!Pending)
  BY <1>1, <1>2, FS_Subset
<1>4. IsFiniteSet(U!Kinds)
  <2>1. U!Kinds = {"mkdir"} \cup {"upload_session"}
    BY DEF U!Kinds
  <2> QED
    BY <2>1, FS_Singleton, FS_Union
<1>5. IsFiniteSet(U!Receipts)
  <2>1. IsFiniteSet(U!Kinds \X Keys)
    BY <1>4, FS_Product DEF BoundsAreNumbers
  <2> QED
    BY <2>1, FS_Subset DEF U!Receipts
<1> QED
  BY <1>2, <1>3, <1>5, FS_CardinalityType

\* The next id is that of nothing made.
LEMMA FreshFacts ==
  ASSUME UInv, BoundsAreNumbers
  PROVE  /\ U!Fresh \in Nat \ {0} /\ U!Fresh \notin U!Made
         /\ U!Made = 1..(U!Fresh - 1) /\ U!Fresh - 1 \in 0..MaxResults
<1>1. PICK n \in 0..MaxResults : U!Made = 1..n
  BY DEF UInv, Numbered
<1>2. Cardinality(U!Made) = n
  BY <1>1, FS_Interval DEF BoundsAreNumbers
<1> QED
  BY <1>1, <1>2, SameCardinality DEF U!Fresh, BoundsAreNumbers

\* No two requests are past the owner's row.
LEMMA OneWorks ==
  ASSUME UInv, NEW p \in Procs, NEW q \in Procs, p # q,
         g[p].pc \notin {"idle", "user"}
  PROVE  g[q].pc \in {"idle", "user"}
<1>1. HoldsLocks(p) /\ HoldsLocks(q)
  BY DEF UInv
<1> QED
  BY <1>1 DEF HoldsLocks

----------------------------------------------------------------------------
\* A step of a request that writes nothing: its own locks and its own part
\* are what it has to keep.
LEMMA RequestKeeps ==
  ASSUME UInv, BoundsAreNumbers, NEW p \in Procs,
         UNCHANGED <<shared, inside, res, receipt, forgotten>>,
         g' \in [Procs -> U!Handler],
         \A q \in Procs \ {p} : g'[q] = g[q],
         \A q \in Procs : HoldsLocks(q)',
         user' \subseteq Procs, row' \subseteq Procs,
         answers' \subseteq U!Kinds \X Keys \X Targets \X U!Results,
         U!AnswersFit', Works(p)'
  PROVE  UInv'
<1>1. UTypes'
  BY DEF UInv, UTypes, U!Results
<1>2. /\ U!Made' = U!Made /\ U!Pending' = U!Pending /\ U!Receipts' = U!Receipts
      /\ U!Fresh' = U!Fresh
  BY DEF U!Made, U!Pending, U!Receipts, U!Fresh
<1>3. Numbered' /\ U!OnePerKey' /\ U!Bounded'
  BY <1>2 DEF UInv, Numbered, U!OnePerKey, U!Bounded
<1>4. HasReceipt' /\ NamesItsResult'
  BY <1>2 DEF UInv, HasReceipt, NamesItsResult, Fits
<1>5. ASSUME NEW q \in Procs PROVE Works(q)'
  <2>1. CASE q = p
    BY <2>1
  <2>2. CASE q # p
    <3>1. Works(q) /\ g'[q] = g[q]
      BY <2>2 DEF UInv
    <3> QED
      BY <1>2, <3>1 DEF Works, MayMake, Fits, U!At
  <2> QED BY <2>1, <2>2
<1> QED
  BY <1>1, <1>3, <1>4, <1>5 DEF UInv

\* Where a request stands, nothing told.
LEMMA RequestMoves ==
  ASSUME UInv, BoundsAreNumbers, NEW p \in Procs, NEW e \in U!Handler,
         UNCHANGED <<shared, inside, res, receipt, forgotten, answers>>,
         g' = [g EXCEPT ![p] = e],
         \A q \in Procs : HoldsLocks(q)',
         user' \subseteq Procs, row' \subseteq Procs,
         Works(p)'
  PROVE  UInv'
<1>1. /\ g' \in [Procs -> U!Handler] /\ \A q \in Procs \ {p} : g'[q] = g[q]
      /\ answers' \subseteq U!Kinds \X Keys \X Targets \X U!Results
  BY DEF UInv, UTypes
<1>2. U!AnswersFit'
  BY DEF UInv, U!AnswersFit
<1> QED
  BY <1>1, <1>2, RequestKeeps

\* The end of a transaction.
LEMMA RollbackFacts ==
  ASSUME UInv, NEW p \in Procs, U!Rollback(p)
  PROVE  /\ g' \in [Procs -> U!Handler] /\ g'[p].pc = "idle"
         /\ \A q \in Procs \ {p} : g'[q] = g[q]
         /\ \A q \in Procs : HoldsLocks(q)'
         /\ user' \subseteq Procs /\ row' \subseteq Procs
         /\ \A q \in Procs \ {p} :
              g[p].pc \notin {"idle", "user"} => g[q].pc \in {"idle", "user"}
         /\ Works(p)'
<1>1. g \in [Procs -> U!Handler] /\ user \subseteq Procs /\ row \subseteq Procs
  BY DEF UInv, UTypes
<1>2. /\ g' \in [Procs -> U!Handler] /\ g'[p].pc = "idle"
      /\ \A q \in Procs \ {p} : g'[q] = g[q]
  BY <1>1 DEF U!Rollback, U!Goto, U!Handler, U!Labels
<1>3. user' = user \ {p} /\ row' = row \ {p}
  BY DEF U!Rollback, U!Release
<1>4. ASSUME NEW q \in Procs PROVE HoldsLocks(q)'
  <2>1. HoldsLocks(q) /\ HoldsLocks(p)
    BY DEF UInv
  <2>2. CASE q = p
    BY <1>2, <1>3, <2>2 DEF HoldsLocks
  <2>3. CASE q # p
    BY <1>2, <1>3, <2>1, <2>3 DEF HoldsLocks
  <2> QED BY <2>2, <2>3
<1>5. Works(p)'
  BY <1>2 DEF Works
<1> QED
  BY <1>1, <1>2, <1>3, <1>4, <1>5, OneWorks

\* A ROLLBACK keeps the invariant.
LEMMA RollbackKeeps ==
  ASSUME UInv, BoundsAreNumbers, NEW p \in Procs, U!Rollback(p),
         UNCHANGED <<shared, inside, res, receipt, forgotten, answers>>
  PROVE  UInv'
<1>1. /\ U!AnswersFit'
      /\ answers' \subseteq U!Kinds \X Keys \X Targets \X U!Results
  BY DEF UInv, U!AnswersFit, UTypes
<1> QED
  BY <1>1, RollbackFacts, RequestKeeps

\* It goes on with the locks it has.
LEMMA GoesOn ==
  ASSUME UInv, BoundsAreNumbers, NEW p \in Procs,
         NEW l \in {"check", "make", "commit"}, NEW r \in 0..MaxResults,
         g[p].pc \in {"replay", "make", "publish"},
         g' = [g EXCEPT ![p] = [g[p] EXCEPT !.pc = l, !.r = r]],
         UNCHANGED <<shared, inside, res, receipt, forgotten, answers>>,
         UNCHANGED <<user, row>>,
         l \in {"check", "make"} => g[p].todo = "make",
         l = "check" => Fits(g[p].kind, g[p].key, g[p].target, r),
         l \in {"make", "commit"} /\ g[p].todo = "make" => MayMake(p),
         l = "commit" /\ g[p].todo = "make" => U!Fresh \in U!Results,
         l = "commit" /\ g[p].todo = "publish" =>
           r \in U!Pending /\ res[r].target \in inside
  PROVE  UInv'
<1>1. g \in [Procs -> U!Handler] /\ user \subseteq Procs /\ row \subseteq Procs
  BY DEF UInv, UTypes
<1>2. /\ g' \in [Procs -> U!Handler] /\ g'[p].pc = l /\ g'[p].r = r
      /\ g'[p].kind = g[p].kind /\ g'[p].key = g[p].key
      /\ g'[p].target = g[p].target /\ g'[p].todo = g[p].todo
      /\ \A q \in Procs \ {p} : g'[q] = g[q]
  BY <1>1 DEF U!Handler, U!Labels
<1>3. \A q \in Procs : HoldsLocks(q)'
  <2>1. \A q \in Procs : HoldsLocks(q)
    BY DEF UInv
  <2> QED
    BY <1>2, <2>1 DEF HoldsLocks
<1>4. Works(p)'
  <2>1. Works(p)
    BY DEF UInv
  <2>2. U!Made' = U!Made /\ U!Pending' = U!Pending /\ U!Receipts' = U!Receipts
        /\ U!Fresh' = U!Fresh
    BY DEF U!Made, U!Pending, U!Receipts, U!Fresh
  <2> QED
    BY <1>2, <2>1, <2>2 DEF Works, MayMake, Fits, U!At
<1>5. /\ U!AnswersFit'
      /\ answers' \subseteq U!Kinds \X Keys \X Targets \X U!Results
      /\ user' \subseteq Procs /\ row' \subseteq Procs
  BY DEF UInv, U!AnswersFit, UTypes
<1> QED
  BY <1>2, <1>3, <1>4, <1>5, RequestKeeps

\* A request that goes on keeps what it is about.
LEMMA GotoKeeps ==
  ASSUME UInv, NEW p \in Procs, NEW l \in U!Labels, U!Goto(p, l)
  PROVE  g' = [g EXCEPT ![p] = [g[p] EXCEPT !.pc = l, !.r = g[p].r]]
<1>1. g[p] \in U!Handler /\ g' = [g EXCEPT ![p] = [g[p] EXCEPT !.pc = l]]
  BY DEF UInv, UTypes, U!Goto
<1>2. ASSUME NEW e \in U!Handler, NEW x, NEW y, x = [e EXCEPT !.pc = l],
             y = [e EXCEPT !.pc = l, !.r = e.r]
      PROVE  x = y
  BY <1>2 DEF U!Handler
<1> QED
  BY <1>1, <1>2

\* A request that begins has no locks.
LEMMA AskStep ==
  ASSUME UInv, BoundsAreNumbers, NEW p \in Procs,
         \/ \E kind \in U!Kinds, k \in Keys, t \in Targets :
              U!Ask(p, kind, k, t)
         \/ \E r \in U!Results : U!AskComplete(p, r)
  PROVE  UInv'
<1>1. PICK e \in U!Handler :
        /\ e.pc = "user" /\ g' = [g EXCEPT ![p] = e] /\ U!At(p, "idle")
        /\ UNCHANGED <<shared, inside, res, receipt, forgotten, user, row,
                       answers>>
  <2>1. CASE \E kind \in U!Kinds, k \in Keys, t \in Targets :
               U!Ask(p, kind, k, t)
    <3>1. PICK kind \in U!Kinds, k \in Keys, t \in Targets :
            U!Ask(p, kind, k, t)
      BY <2>1
    <3> DEFINE e == [pc |-> "user", kind |-> kind, key |-> k, target |-> t,
                     r |-> 0, todo |-> "make"]
    <3>2. e \in U!Handler
      BY DEF U!Handler, U!Labels, BoundsAreNumbers
    <3> QED
      BY <3>1, <3>2 DEF U!Ask
  <2>2. CASE \E r \in U!Results : U!AskComplete(p, r)
    <3>1. PICK r \in U!Results : U!AskComplete(p, r)
      BY <2>2
    <3>2. res[r] \in Result
      BY <3>1, MadeFacts DEF U!AskComplete, UInv
    <3> DEFINE e == [pc |-> "user", kind |-> "upload_session",
                     key |-> res[r].key, target |-> res[r].target,
                     r |-> r, todo |-> "publish"]
    <3>3. e \in U!Handler
      BY <3>2 DEF U!Handler, U!Labels, Result, U!Results, U!Kinds,
         BoundsAreNumbers
    <3> QED
      BY <3>1, <3>3 DEF U!AskComplete
  <2> QED BY <2>1, <2>2
<1>2. /\ g'[p].pc = "user" /\ g[p].pc = "idle"
      /\ \A q \in Procs \ {p} : g'[q] = g[q]
  BY <1>1 DEF UInv, UTypes, U!At
<1>3. \A q \in Procs : HoldsLocks(q)'
  <2>1. \A q \in Procs : HoldsLocks(q)
    BY DEF UInv
  <2> QED
    BY <1>1, <1>2, <2>1 DEF HoldsLocks
<1>4. Works(p)'
  BY <1>2 DEF Works
<1> QED
  BY <1>1, <1>3, <1>4, RequestMoves DEF UInv, UTypes

\* The owner's row is taken when it is free.
LEMMA LockUserStep ==
  ASSUME UInv, BoundsAreNumbers, NEW p \in Procs, U!LockUser(p)
  PROVE  UInv'
<1>1. /\ g[p].pc = "user" /\ user = {} /\ user' = {p} /\ U!Goto(p, "link")
      /\ UNCHANGED <<shared, inside, res, receipt, forgotten, row, answers>>
  BY DEF U!LockUser, U!At
<1>2. g \in [Procs -> U!Handler]
  BY DEF UInv, UTypes
<1>3. /\ g' \in [Procs -> U!Handler] /\ g'[p].pc = "link"
      /\ \A q \in Procs \ {p} : g'[q] = g[q]
  BY <1>1, <1>2 DEF U!Goto, U!Handler, U!Labels
<1>4. ASSUME NEW q \in Procs PROVE HoldsLocks(q)'
  <2>1. HoldsLocks(q)
    BY DEF UInv
  <2>2. CASE q = p
    BY <1>1, <1>3, <2>1, <2>2 DEF HoldsLocks
  <2>3. CASE q # p
    <3>1. g[q].pc \in {"idle", "user"}
      BY <1>1, <2>1 DEF HoldsLocks
    <3> QED
      BY <1>1, <1>3, <2>1, <2>3, <3>1 DEF HoldsLocks
  <2> QED BY <2>2, <2>3
<1>5. Works(p)' /\ U!AnswersFit'
  BY <1>1, <1>3 DEF Works, UInv, U!AnswersFit
<1> QED
  BY <1>1, <1>3, <1>4, <1>5, RequestKeeps DEF UInv, UTypes

\* The link's row is taken when it is free, by one it authorizes.
LEMMA LockLinkStep ==
  ASSUME UInv, BoundsAreNumbers, NEW p \in Procs, U!LockLink(p)
  PROVE  UInv'
<1>1. /\ g[p].pc = "link" /\ row = {}
      /\ UNCHANGED <<shared, inside, res, receipt, forgotten, answers>>
  BY DEF U!LockLink, U!At
<1>2. CASE ~U!Authorized(g[p].target)
  BY <1>1, <1>2, RollbackKeeps DEF U!LockLink
<1>3. CASE U!Authorized(g[p].target)
  <2> DEFINE l == IF g[p].todo = "make" THEN "replay" ELSE "publish"
  <2>1. U!Goto(p, l) /\ row' = {p} /\ UNCHANGED user
    BY <1>3 DEF U!LockLink
  <2>2. g \in [Procs -> U!Handler]
    BY DEF UInv, UTypes
  <2>3. /\ g' \in [Procs -> U!Handler] /\ g'[p].pc = l
        /\ g'[p].target = g[p].target /\ g'[p].todo = g[p].todo
        /\ \A q \in Procs \ {p} : g'[q] = g[q]
    BY <2>1, <2>2 DEF U!Goto, U!Handler, U!Labels
  <2>4. ASSUME NEW q \in Procs PROVE HoldsLocks(q)'
    <3>1. HoldsLocks(q) /\ HoldsLocks(p)
      BY DEF UInv
    <3>2. CASE q = p
      BY <1>1, <2>1, <2>3, <3>1, <3>2 DEF HoldsLocks
    <3>3. CASE q # p
      <4>1. g[q].pc \in {"idle", "user"}
        BY <1>1, <3>3, OneWorks
      <4> QED
        BY <1>1, <2>1, <2>3, <3>1, <3>3, <4>1 DEF HoldsLocks
    <3> QED BY <3>2, <3>3
  <2>5. Works(p)' /\ U!AnswersFit'
    <3>1. g[p].todo \in {"make", "publish"}
      BY <2>2 DEF U!Handler
    <3> QED
      BY <1>1, <1>3, <2>3, <3>1 DEF Works, U!Authorized, U!At, UInv,
         U!AnswersFit
  <2> QED
    BY <1>1, <2>1, <2>3, <2>4, <2>5, RequestKeeps DEF UInv, UTypes
<1> QED
  BY <1>2, <1>3

\* A receipt found is of this request; none, there is room for one.
LEMMA ReplayStep ==
  ASSUME UInv, BoundsAreNumbers, NEW p \in Procs, U!Replay(p)
  PROVE  UInv'
<1> DEFINE prior == receipt[<<g[p].kind, g[p].key>>]
<1>1. /\ g[p].pc = "replay"
      /\ UNCHANGED <<shared, inside, res, receipt, forgotten, answers>>
  BY DEF U!Replay, U!At
<1>2. /\ g[p] \in U!Handler /\ g[p].kind \in U!Kinds /\ g[p].key \in Keys
      /\ g[p].target \in Targets /\ g[p].r \in 0..MaxResults
  BY DEF UInv, UTypes, U!Handler
<1>3. g[p].todo = "make"
  BY <1>1 DEF UInv, Works
<1>4. CASE U!Rollback(p)
  BY <1>1, <1>4, RollbackKeeps
<1>5. CASE ~U!Rollback(p) /\ prior # U!NoReceipt
  <2>1. /\ prior.target = g[p].target /\ prior.result # 0
        /\ g' = [g EXCEPT ![p].pc = "check", ![p].r = prior.result]
        /\ UNCHANGED <<user, row>>
    BY <1>5 DEF U!Replay
  <2>2. prior.result \in 0..MaxResults
    BY <1>2, <1>5 DEF UInv, UTypes, U!Receipt
  <2>3. Fits(g[p].kind, g[p].key, g[p].target, prior.result)
    BY <1>2, <1>5, <2>1 DEF UInv, NamesItsResult
  <2>4. g' = [g EXCEPT ![p] = [g[p] EXCEPT !.pc = "check",
                                           !.r = prior.result]]
    BY <2>1
  <2> HIDE DEF prior
  <2> QED
    BY <1>1, <1>3, <2>1, <2>2, <2>3, <2>4, GoesOn
<1>6. CASE ~U!Rollback(p) /\ prior = U!NoReceipt
  <2>1. ~U!Full(g[p].kind) /\ U!Goto(p, "make") /\ UNCHANGED <<user, row>>
    BY <1>6 DEF U!Replay
  <2>2. g' = [g EXCEPT ![p] = [g[p] EXCEPT !.pc = "make", !.r = g[p].r]]
    BY <2>1, GotoKeeps DEF U!Labels
  <2>3. MayMake(p)
    BY <1>6, <2>1, MadeFacts, SameCardinality
    DEF MayMake, U!Full, BoundsAreNumbers, UInv
  <2> HIDE DEF prior
  <2> QED
    BY <1>1, <1>2, <1>3, <2>1, <2>2, <2>3, GoesOn
<1> QED
  BY <1>4, <1>5, <1>6

\* A replay tells what the receipt names.
LEMMA CheckStep ==
  ASSUME UInv, BoundsAreNumbers, NEW p \in Procs, U!Check(p)
  PROVE  UInv'
<1>1. /\ g[p].pc = "check" /\ U!Rollback(p)
      /\ UNCHANGED <<shared, inside, res, receipt, forgotten>>
      /\ U!Tell(p, g[p].r) \/ UNCHANGED answers
  BY DEF U!Check, U!At
<1>2. /\ g[p] \in U!Handler /\ g[p].kind \in U!Kinds /\ g[p].key \in Keys
      /\ g[p].target \in Targets /\ g[p].r \in 0..MaxResults
  BY DEF UInv, UTypes, U!Handler
<1>3. Fits(g[p].kind, g[p].key, g[p].target, g[p].r) /\ g[p].r \in U!Results
  BY <1>1 DEF UInv, Works, U!At, Fits, U!Made
<1>4. /\ answers' \subseteq U!Kinds \X Keys \X Targets \X U!Results
      /\ U!AnswersFit'
  BY <1>1, <1>2, <1>3 DEF UInv, UTypes, U!AnswersFit, U!Tell, Fits
<1> QED
  BY <1>1, <1>4, RollbackFacts, RequestKeeps

\* What is about to be made has been authorized again.
LEMMA MakeStep ==
  ASSUME UInv, BoundsAreNumbers, NEW p \in Procs, U!Make(p)
  PROVE  UInv'
<1>1. /\ g[p].pc = "make" /\ U!Fresh \in U!Results
      /\ UNCHANGED <<shared, inside, res, receipt, forgotten, answers>>
      /\ g[p].r \in 0..MaxResults
  BY DEF U!Make, U!At, UInv, UTypes, U!Handler
<1>2. CASE U!Rollback(p)
  BY <1>1, <1>2, RollbackKeeps
<1>3. CASE U!Goto(p, "commit") /\ UNCHANGED <<user, row>>
  <2>1. g' = [g EXCEPT ![p] = [g[p] EXCEPT !.pc = "commit", !.r = g[p].r]]
    BY <1>3, GotoKeeps DEF U!Labels
  <2>2. MayMake(p) /\ g[p].todo = "make"
    BY <1>1 DEF UInv, Works
  <2> QED
    BY <1>1, <1>3, <2>1, <2>2, GoesOn
<1> QED
  BY <1>2, <1>3 DEF U!Make

\* What is about to be published is pending, and its place inside.
LEMMA PublishStep ==
  ASSUME UInv, BoundsAreNumbers, NEW p \in Procs, U!Publish(p)
  PROVE  UInv'
<1>1. /\ g[p].pc = "publish"
      /\ UNCHANGED <<shared, inside, res, receipt, forgotten, answers>>
      /\ g[p].r \in 0..MaxResults
  BY DEF U!Publish, U!At, UInv, UTypes, U!Handler
<1>2. CASE U!Rollback(p)
  BY <1>1, <1>2, RollbackKeeps
<1>3. CASE ~U!Rollback(p)
  <2>1. /\ U!Goto(p, "commit") /\ UNCHANGED <<user, row>>
        /\ g[p].r \in U!Pending /\ res[g[p].r].target \in inside
    BY <1>3 DEF U!Publish, U!Authorized
  <2>2. g' = [g EXCEPT ![p] = [g[p] EXCEPT !.pc = "commit", !.r = g[p].r]]
    BY <2>1, GotoKeeps DEF U!Labels
  <2>3. g[p].todo = "publish"
    BY <1>1 DEF UInv, Works, U!At
  <2> QED
    BY <1>1, <2>1, <2>2, <2>3, GoesOn
<1> QED
  BY <1>2, <1>3

\* A transaction commits and lets go of its locks: no other request has any
\* to rely on.
LEMMA CommitKeeps ==
  ASSUME UInv, BoundsAreNumbers, NEW p \in Procs, g[p].pc = "commit",
         U!Rollback(p), UTypes', Numbered', HasReceipt', NamesItsResult',
         U!OnePerKey', U!AnswersFit', U!Bounded'
  PROVE  UInv'
<1>1. /\ \A q \in Procs \ {p} : g'[q] = g[q]
      /\ \A q \in Procs : HoldsLocks(q)'
      /\ \A q \in Procs \ {p} : g[q].pc \in {"idle", "user"}
      /\ Works(p)'
  BY RollbackFacts
<1>2. ASSUME NEW q \in Procs PROVE Works(q)'
  <2>1. CASE q = p
    BY <1>1, <2>1
  <2>2. CASE q # p
    BY <1>1, <2>2 DEF Works
  <2> QED BY <2>1, <2>2
<1> QED
  BY <1>1, <1>2 DEF UInv

\* What visitors were told of was made.
LEMMA AnswersMade ==
  ASSUME UTypes, U!AnswersFit, NEW a \in answers
  PROVE  /\ a[4] \in U!Made /\ a[1] \in U!Kinds /\ a[2] \in Keys
         /\ a[3] \in Targets
<1>1. /\ a[1] \in U!Kinds /\ a[2] \in Keys /\ a[3] \in Targets
      /\ a[4] \in U!Results
  BY DEF UTypes
<1>2. res[a[4]].kind = a[1]
  BY DEF U!AnswersFit
<1>3. U!NoResult.kind \notin U!Kinds
  BY DEF U!NoResult, U!Kinds
<1> QED
  BY <1>1, <1>2, <1>3 DEF U!Made

\* COMMIT makes a result where its key had none, with its receipt.
LEMMA CommitMadeStep ==
  ASSUME UInv, BoundsAreNumbers, NEW p \in Procs, U!CommitMade(p)
  PROVE  UInv'
<1> DEFINE kind == g[p].kind
           key == g[p].key
           o == <<kind, key>>
           n == U!Fresh
           x == [kind |-> kind, key |-> key, target |-> g[p].target,
                 old |-> FALSE, at |-> "put",
                 status |-> IF kind = "mkdir" THEN "made" ELSE "pending"]
           y == [target |-> g[p].target, result |-> n, old |-> FALSE]
<1>1. /\ g[p].pc = "commit" /\ g[p].todo = "make" /\ U!Rollback(p)
      /\ res' = [res EXCEPT ![n] = x]
      /\ receipt' = [receipt EXCEPT ![o] = y]
      /\ shared' = shared /\ inside' = inside /\ forgotten' = forgotten
      /\ U!Tell(p, n)
  BY DEF U!CommitMade, U!At
<1>2. /\ UTypes /\ Works(p) /\ g[p] \in U!Handler /\ kind \in U!Kinds
      /\ key \in Keys /\ g[p].target \in Targets /\ o \in U!Kinds \X Keys
  BY DEF UInv, UTypes, U!Handler
<1>3. /\ n \in U!Results /\ n \in Nat \ {0} /\ n \notin U!Made
      /\ U!Made = 1..(n - 1) /\ n <= MaxResults
      /\ receipt[o] = U!NoReceipt /\ Cardinality(U!Receipts) < MaxReceipts
      /\ kind = "upload_session" => Cardinality(U!Pending) < MaxPending
  BY <1>1, <1>2, FreshFacts DEF Works, MayMake, U!At, U!Results,
     BoundsAreNumbers
<1>4. x \in Result /\ x # U!NoResult /\ y \in U!Receipt /\ y # U!NoReceipt
  <2>1. x \in Result
    BY <1>2 DEF Result
  <2>2. x.kind # U!NoResult.kind
    BY <1>2 DEF U!NoResult, U!Kinds
  <2>3. y \in U!Receipt
    BY <1>2, <1>3 DEF U!Receipt, U!Results
  <2>4. y.result # U!NoReceipt.result
    BY <1>3 DEF U!NoReceipt
  <2> QED BY <2>1, <2>2, <2>3, <2>4
<1>5. /\ res'[n] = x /\ \A r \in U!Results \ {n} : res'[r] = res[r]
      /\ res' \in [U!Results -> Result \cup {U!NoResult}]
      /\ receipt'[o] = y
      /\ \A z \in (U!Kinds \X Keys) \ {o} : receipt'[z] = receipt[z]
      /\ receipt' \in [U!Kinds \X Keys -> U!Receipt \cup {U!NoReceipt}]
  <2> HIDE DEF o, n, x, y
  <2> QED
    BY <1>1, <1>2, <1>3, <1>4 DEF UTypes
<1>6. /\ x.kind = kind /\ x.key = key /\ x.target = g[p].target
      /\ y.target = g[p].target /\ y.result = n
      /\ x.status = "pending" => kind = "upload_session"
  BY <1>2 DEF U!Kinds
<1>7. /\ g' \in [Procs -> U!Handler] /\ user' \subseteq Procs
      /\ row' \subseteq Procs
  BY <1>1, RollbackFacts
<1>8. answers' \subseteq answers \cup {<<kind, key, g[p].target, n>>}
  BY <1>1 DEF U!Tell
<1> HIDE DEF kind, key, o, n, x, y
<1>9. UTypes'
  <2>1. answers' \subseteq U!Kinds \X Keys \X Targets \X U!Results
    BY <1>2, <1>3, <1>8 DEF UTypes
  <2> QED
    BY <1>1, <1>2, <1>5, <1>7, <2>1 DEF UTypes, U!Results
<1>10. U!Made' = U!Made \cup {n} /\ U!Pending' \subseteq U!Pending \cup {n}
       /\ (kind # "upload_session" => U!Pending' \subseteq U!Pending)
       /\ U!Receipts' = U!Receipts \cup {o} /\ o \notin U!Receipts
  <2>1. U!Made' = U!Made \cup {n}
    BY <1>3, <1>4, <1>5 DEF U!Made, U!Results
  <2>2. U!Pending' \subseteq U!Pending \cup {n}
        /\ (kind # "upload_session" => U!Pending' \subseteq U!Pending)
    BY <2>1, <1>3, <1>4, <1>5, <1>6 DEF U!Pending, U!Made
  <2>3. U!Receipts' = U!Receipts \cup {o} /\ o \notin U!Receipts
    BY <1>2, <1>3, <1>4, <1>5 DEF U!Receipts
  <2> QED BY <2>1, <2>2, <2>3
<1>11. Numbered'
  <2>1. U!Made' = 1..n /\ n \in 0..MaxResults
    BY <1>3, <1>10 DEF U!Results, BoundsAreNumbers
  <2> QED
    BY <2>1 DEF Numbered
<1>12. HasReceipt'
  <2> SUFFICES ASSUME NEW r \in U!Made' \ forgotten
               PROVE  receipt'[<<res'[r].kind, res'[r].key>>] # U!NoReceipt
    BY <1>1 DEF HasReceipt
  <2>1. CASE r = n
    BY <1>4, <1>5, <1>6, <2>1 DEF o
  <2>2. CASE r # n
    <3>1. r \in U!Made \ forgotten /\ res'[r] = res[r] /\ res[r] \in Result
      BY <1>2, <1>5, <1>10, <2>2, MadeFacts
    <3>2. receipt[<<res[r].kind, res[r].key>>] # U!NoReceipt
      BY <3>1 DEF UInv, HasReceipt
    <3>3. <<res[r].kind, res[r].key>> \in U!Kinds \X Keys
      BY <3>1 DEF Result
    <3> QED
      BY <1>4, <1>5, <3>1, <3>2, <3>3
  <2> QED BY <2>1, <2>2
<1>13. NamesItsResult'
  <2> SUFFICES ASSUME NEW k \in U!Kinds, NEW e \in Keys,
                      receipt'[<<k, e>>] # U!NoReceipt,
                      receipt'[<<k, e>>].result # 0
               PROVE  LET r == receipt'[<<k, e>>].result IN
                      /\ r \in U!Made' /\ res'[r].kind = k /\ res'[r].key = e
                      /\ res'[r].target = receipt'[<<k, e>>].target
    BY DEF NamesItsResult, Fits
  <2>1. CASE <<k, e>> = o
    <3>1. k = kind /\ e = key /\ receipt'[<<k, e>>] = y
      BY <1>5, <2>1 DEF o
    <3> QED
      BY <1>5, <1>6, <1>10, <3>1
  <2>2. CASE <<k, e>> # o
    <3>1. receipt'[<<k, e>>] = receipt[<<k, e>>]
      BY <1>5, <2>2
    <3>2. Fits(k, e, receipt[<<k, e>>].target, receipt[<<k, e>>].result)
      BY <3>1 DEF UInv, NamesItsResult
    <3>3. receipt[<<k, e>>].result \in U!Results \ {n}
      BY <1>2, <1>3, <3>2, MadeFacts DEF Fits
    <3> QED
      BY <1>5, <1>10, <3>1, <3>2, <3>3 DEF Fits
  <2> QED BY <2>1, <2>2
<1>14. U!OnePerKey'
  <2> SUFFICES ASSUME NEW r \in U!Made' \ forgotten,
                      NEW s \in U!Made' \ forgotten,
                      res'[r].kind = res'[s].kind, res'[r].key = res'[s].key
               PROVE  r = s
    BY <1>1 DEF U!OnePerKey
  <2>1. ASSUME NEW a \in U!Made \ forgotten
        PROVE  res'[a] = res[a] /\ ~(res[a].kind = kind /\ res[a].key = key)
    <3>1. receipt[<<res[a].kind, res[a].key>>] # U!NoReceipt /\ a \in U!Results
      BY <1>2, MadeFacts DEF UInv, HasReceipt
    <3> QED
      BY <1>3, <1>5, <3>1 DEF o
  <2>2. r \in U!Made \ forgotten \/ r = n
    BY <1>10
  <2>3. s \in U!Made \ forgotten \/ s = n
    BY <1>10
  <2>4. CASE r = n /\ s # n
    BY <1>5, <1>6, <2>1, <2>3, <2>4
  <2>5. CASE s = n /\ r # n
    BY <1>5, <1>6, <2>1, <2>2, <2>5
  <2>6. CASE r # n /\ s # n
    BY <2>1, <2>2, <2>3, <2>6 DEF UInv, U!OnePerKey
  <2> QED BY <2>4, <2>5, <2>6
<1>15. U!AnswersFit'
  <2> SUFFICES ASSUME NEW a \in answers'
               PROVE  /\ res'[a[4]].kind = a[1] /\ res'[a[4]].key = a[2]
                      /\ res'[a[4]].target = a[3]
    BY DEF U!AnswersFit
  <2>1. CASE a \in answers
    <3>1. a[4] \in U!Made
      BY <1>2, <2>1, AnswersMade DEF UInv
    <3>2. res'[a[4]] = res[a[4]]
      BY <1>2, <1>3, <1>5, <3>1, MadeFacts
    <3> QED
      BY <2>1, <3>2 DEF UInv, U!AnswersFit
  <2>2. CASE a = <<kind, key, g[p].target, n>>
    BY <1>5, <1>6, <2>2
  <2> QED BY <1>8, <2>1, <2>2
<1>16. U!Bounded'
  <2>1. Cardinality(U!Receipts') <= MaxReceipts
    <3>1. Cardinality(U!Receipts \cup {o}) = Cardinality(U!Receipts) + 1
      BY <1>2, <1>10, MadeFacts, FS_AddElement
    <3> QED
      BY <1>2, <1>3, <1>10, <3>1, MadeFacts DEF BoundsAreNumbers
  <2>2. Cardinality(U!Pending') <= MaxPending
    <3>1. IsFiniteSet(U!Pending) /\ Cardinality(U!Pending) \in Nat
          /\ Cardinality(U!Pending) <= MaxPending
      BY <1>2, MadeFacts, SameCardinality DEF UInv, U!Bounded
    <3>2. CASE kind # "upload_session"
      <4>1. Cardinality(U!Pending') <= Cardinality(U!Pending)
            /\ Cardinality(U!Pending') \in Nat
        BY <1>10, <3>1, <3>2, FS_Subset, FS_CardinalityType
      <4> QED
        BY <3>1, <4>1 DEF BoundsAreNumbers
    <3>3. CASE kind = "upload_session"
      <4>1. n \notin U!Pending
        BY <1>2, <1>3, MadeFacts
      <4>2. /\ IsFiniteSet(U!Pending \cup {n})
            /\ Cardinality(U!Pending \cup {n}) = Cardinality(U!Pending) + 1
        BY <3>1, <4>1, FS_AddElement
      <4>3. Cardinality(U!Pending') <= Cardinality(U!Pending \cup {n})
            /\ Cardinality(U!Pending') \in Nat
        BY <1>10, <4>2, FS_Subset, FS_CardinalityType
      <4> QED
        BY <1>3, <3>1, <3>3, <4>2, <4>3 DEF BoundsAreNumbers
    <3> QED BY <3>2, <3>3
  <2> QED
    BY <2>1, <2>2, SameCardinality DEF U!Bounded
<1> QED
  BY <1>1, <1>9, <1>11, <1>12, <1>13, <1>14, <1>15, <1>16, CommitKeeps

\* A transaction that fails writes nothing.
LEMMA FailStep ==
  ASSUME UInv, BoundsAreNumbers, NEW p \in Procs, U!Fail(p)
  PROVE  UInv'
BY RollbackKeeps DEF U!Fail

----------------------------------------------------------------------------
\* Nothing new is made: what there is keeps its request, or ends; a receipt
\* keeps its result, forgets it, or goes.
Settles ==
  /\ res' \in [U!Results -> Result \cup {U!NoResult}]
  /\ U!Made' = U!Made /\ U!Pending' \subseteq U!Pending
  /\ \A r \in U!Made :
       /\ res'[r].kind = res[r].kind /\ res'[r].key = res[r].key
       /\ res'[r].target = res[r].target
  /\ receipt' \in [U!Kinds \X Keys -> U!Receipt \cup {U!NoReceipt}]
  /\ \A o \in U!Kinds \X Keys :
       receipt'[o] # U!NoReceipt =>
         /\ receipt[o] # U!NoReceipt /\ receipt'[o].target = receipt[o].target
         /\ receipt'[o].result \in {0, receipt[o].result}
  /\ forgotten \subseteq forgotten' /\ forgotten' \subseteq U!Results
  /\ \A r \in U!Made \ forgotten' :
       receipt'[<<res[r].kind, res[r].key>>] # U!NoReceipt

\* Such a step keeps what results and receipts say.
LEMMA SettlesKeeps ==
  ASSUME UInv, BoundsAreNumbers, Settles, answers' = answers
  PROVE  /\ Numbered' /\ HasReceipt' /\ NamesItsResult' /\ U!OnePerKey'
         /\ U!AnswersFit' /\ U!Bounded'
         /\ U!Fresh' = U!Fresh /\ U!Receipts' \subseteq U!Receipts
         /\ Cardinality(U!Receipts') <= Cardinality(U!Receipts)
         /\ Cardinality(U!Pending') <= Cardinality(U!Pending)
<1>1. UTypes /\ U!Made \subseteq U!Results
  BY MadeFacts DEF UInv
<1>2. Numbered' /\ U!Fresh' = U!Fresh
  BY DEF Settles, Numbered, U!Fresh, UInv
<1>3. HasReceipt'
  BY DEF Settles, HasReceipt
<1>4. NamesItsResult'
  <2> SUFFICES ASSUME NEW k \in U!Kinds, NEW e \in Keys,
                      receipt'[<<k, e>>] # U!NoReceipt,
                      receipt'[<<k, e>>].result # 0
               PROVE  LET r == receipt'[<<k, e>>].result IN
                      /\ r \in U!Made' /\ res'[r].kind = k /\ res'[r].key = e
                      /\ res'[r].target = receipt'[<<k, e>>].target
    BY DEF NamesItsResult, Fits
  <2>1. /\ receipt[<<k, e>>] # U!NoReceipt
        /\ receipt'[<<k, e>>].target = receipt[<<k, e>>].target
        /\ receipt'[<<k, e>>].result = receipt[<<k, e>>].result
    BY DEF Settles
  <2>2. Fits(k, e, receipt[<<k, e>>].target, receipt[<<k, e>>].result)
    BY <2>1 DEF UInv, NamesItsResult
  <2> QED
    BY <2>1, <2>2 DEF Settles, Fits
<1>5. U!OnePerKey'
  BY DEF UInv, U!OnePerKey, Settles
<1>6. U!AnswersFit'
  <2> SUFFICES ASSUME NEW a \in answers
               PROVE  /\ res'[a[4]].kind = a[1] /\ res'[a[4]].key = a[2]
                      /\ res'[a[4]].target = a[3]
    BY DEF U!AnswersFit
  <2>1. a[4] \in U!Made
    BY <1>1, AnswersMade DEF UInv
  <2> QED
    BY <2>1 DEF UInv, U!AnswersFit, Settles
<1>7. U!Receipts' \subseteq U!Receipts
  BY DEF U!Receipts, Settles
<1>8. /\ Cardinality(U!Receipts') <= Cardinality(U!Receipts)
      /\ Cardinality(U!Pending') <= Cardinality(U!Pending)
      /\ Cardinality(U!Receipts') \in Nat /\ Cardinality(U!Pending') \in Nat
  <2>1. U!Pending' \subseteq U!Pending
    BY DEF Settles
  <2> QED
    BY <1>1, <1>7, <2>1, MadeFacts, FS_Subset, FS_CardinalityType
<1>9. U!Bounded'
  BY <1>1, <1>8, MadeFacts, SameCardinality
  DEF UInv, U!Bounded, BoundsAreNumbers
<1> QED
  BY <1>2, <1>3, <1>4, <1>5, <1>6, <1>7, <1>8, <1>9

\* A step of nobody's request: the rows locked keep what they say.
LEMMA WorldKeeps ==
  ASSUME UInv, BoundsAreNumbers, Settles,
         UNCHANGED <<user, row, g, answers>>,
         shared' \in [active: BOOLEAN, old: BOOLEAN], inside' \subseteq Targets,
         row # {} => shared'.active = shared.active,
         user # {} => inside' = inside,
         \A r \in U!Pending : U!Locked(r) => r \in U!Pending'
  PROVE  UInv'
<1>1. UTypes'
  BY DEF UInv, UTypes, Settles, U!Results
<1>2. ASSUME NEW q \in Procs PROVE HoldsLocks(q)' /\ Works(q)'
  <2>1. HoldsLocks(q) /\ Works(q) /\ g' = g /\ g[q] \in U!Handler
    BY DEF UInv, UTypes
  <2>2. HoldsLocks(q)'
    BY <2>1 DEF HoldsLocks
  <2>3. CASE g[q].pc \in {"idle", "user", "link"}
    <3>1. g'[q].pc \in {"idle", "user", "link"}
      BY <2>1, <2>3
    <3>2. Works(q)'
      BY <3>1 DEF Works
    <3> QED
      BY <2>2, <3>2
  <2>4. CASE g[q].pc \notin {"idle", "user", "link"}
    <3>1. /\ shared'.active = shared.active /\ inside' = inside
      BY <2>1, <2>4 DEF HoldsLocks
    <3>2. MayMake(q) => MayMake(q)'
      <4>1. <<g[q].kind, g[q].key>> \in U!Kinds \X Keys
        BY <2>1 DEF U!Handler
      <4>2. /\ Cardinality(U!Receipts') <= Cardinality(U!Receipts)
            /\ Cardinality(U!Pending') <= Cardinality(U!Pending)
        BY SettlesKeeps
      <4>3. UTypes' /\ UTypes
        BY <1>1 DEF UInv
      <4>4. /\ Cardinality(U!Receipts') \in Nat
            /\ Cardinality(U!Pending') \in Nat
            /\ Cardinality(U!Receipts) \in Nat /\ Cardinality(U!Pending) \in Nat
        <5>1. U!Receipts' \subseteq U!Receipts /\ U!Pending' \subseteq U!Pending
          BY SettlesKeeps DEF Settles
        <5> QED
          BY <4>3, <5>1, MadeFacts, FS_Subset, FS_CardinalityType
      <4> QED
        BY <2>1, <4>1, <4>2, <4>4 DEF MayMake, Settles, BoundsAreNumbers
    <3>3. \A kind, key, t, r : Fits(kind, key, t, r) => Fits(kind, key, t, r)'
      BY DEF Fits, Settles
    <3>4. U!At(q, "commit") /\ g[q].todo = "publish" =>
            g[q].r \in U!Pending' /\ res'[g[q].r].target \in inside'
      <4> SUFFICES ASSUME U!At(q, "commit"), g[q].todo = "publish"
                   PROVE  /\ g[q].r \in U!Pending'
                          /\ res'[g[q].r].target \in inside'
        OBVIOUS
      <4>1. g[q].r \in U!Pending /\ res[g[q].r].target \in inside
        BY <2>1, <2>4 DEF Works
      <4>2. U!Locked(g[q].r) /\ g[q].r \in U!Made
        BY <4>1, MadeFacts DEF U!Locked, UInv
      <4> QED
        BY <3>1, <4>1, <4>2 DEF Settles
    <3>5. U!Fresh' = U!Fresh
      BY SettlesKeeps
    <3>6. Works(q)'
      BY <2>1, <2>4, <3>1, <3>2, <3>3, <3>4, <3>5 DEF Works, U!At, U!Results
    <3> QED
      BY <2>2, <3>6
  <2> QED
    BY <2>2, <2>3, <2>4
<1>3. /\ Numbered' /\ HasReceipt' /\ NamesItsResult' /\ U!OnePerKey'
      /\ U!AnswersFit' /\ U!Bounded'
  BY SettlesKeeps
<1> QED
  BY <1>1, <1>2, <1>3 DEF UInv

\* One result changes where it is, how far it got or its age.
LEMMA ResultChanges ==
  ASSUME UInv, BoundsAreNumbers, NEW r \in U!Made, NEW e \in Result,
         e.kind = res[r].kind, e.key = res[r].key, e.target = res[r].target,
         e.status = "pending" => res[r].status = "pending",
         res' = [res EXCEPT ![r] = e]
  PROVE  /\ res' \in [U!Results -> Result \cup {U!NoResult}]
         /\ U!Made' = U!Made /\ U!Pending' \subseteq U!Pending
         /\ \A s \in U!Pending :
              s # r \/ e.status = "pending" => s \in U!Pending'
         /\ \A s \in U!Made :
              /\ res'[s].kind = res[s].kind /\ res'[s].key = res[s].key
              /\ res'[s].target = res[s].target
<1>1. UTypes /\ U!Made \subseteq U!Results /\ res[r] \in Result
  BY MadeFacts DEF UInv
<1>2. /\ res' \in [U!Results -> Result \cup {U!NoResult}] /\ res'[r] = e
      /\ \A s \in U!Results \ {r} : res'[s] = res[s]
  BY <1>1 DEF UTypes
<1>3. e # U!NoResult
  <2>1. e.kind \in U!Kinds /\ U!NoResult.kind \notin U!Kinds
    BY DEF Result, U!NoResult, U!Kinds
  <2> QED BY <2>1
<1>4. U!Made' = U!Made
  BY <1>1, <1>2, <1>3 DEF U!Made, U!Results
<1> QED
  BY <1>1, <1>2, <1>4 DEF U!Pending

\* No receipt changes, or the receipts of one result forget it.
LEMMA Forgets ==
  ASSUME UInv, BoundsAreNumbers, NEW r \in U!Results,
         U!Forget(r) \/ receipt' = receipt
  PROVE  /\ receipt' \in [U!Kinds \X Keys -> U!Receipt \cup {U!NoReceipt}]
         /\ \A o \in U!Kinds \X Keys :
              /\ receipt'[o] # U!NoReceipt <=> receipt[o] # U!NoReceipt
              /\ receipt'[o] # U!NoReceipt =>
                   /\ receipt'[o].target = receipt[o].target
                   /\ receipt'[o].result \in {0, receipt[o].result}
<1>1. UTypes
  BY DEF UInv
<1>2. CASE receipt' = receipt
  BY <1>1, <1>2 DEF UTypes
<1>3. CASE U!Forget(r)
  <2>1. ASSUME NEW y \in U!Receipt, NEW z, z = [y EXCEPT !.result = 0]
        PROVE  z \in U!Receipt /\ z.target = y.target /\ z.result = 0
    <3>1. z = [target |-> y.target, result |-> 0, old |-> y.old]
      BY <2>1 DEF U!Receipt
    <3>2. 0 \in 0..MaxResults
      BY DEF BoundsAreNumbers
    <3> QED
      BY <3>1, <3>2 DEF U!Receipt
  <2>2. \A y \in U!Receipt : y # U!NoReceipt
    <3>1. \A y \in U!Receipt : y.result # U!NoReceipt.result
      BY DEF U!Receipt, U!NoReceipt
    <3> QED BY <3>1
  <2>3. ASSUME NEW o \in U!Kinds \X Keys
        PROVE  /\ receipt'[o] \in U!Receipt \cup {U!NoReceipt}
               /\ receipt'[o] # U!NoReceipt <=> receipt[o] # U!NoReceipt
               /\ receipt'[o] # U!NoReceipt =>
                    /\ receipt'[o].target = receipt[o].target
                    /\ receipt'[o].result \in {0, receipt[o].result}
    <3>1. receipt[o] \in U!Receipt \cup {U!NoReceipt}
      BY <1>1 DEF UTypes
    <3>2. CASE receipt[o] # U!NoReceipt /\ receipt[o].result = r
      <4>1. receipt'[o] = [receipt[o] EXCEPT !.result = 0]
        BY <1>3, <3>2 DEF U!Forget
      <4> QED
        BY <2>1, <2>2, <3>1, <3>2, <4>1
    <3>3. CASE ~(receipt[o] # U!NoReceipt /\ receipt[o].result = r)
      <4>1. receipt'[o] = receipt[o]
        BY <1>3, <3>3 DEF U!Forget
      <4> QED
        BY <3>1, <4>1
    <3> QED BY <3>2, <3>3
  <2>4. receipt' \in [U!Kinds \X Keys -> U!Receipt \cup {U!NoReceipt}]
    BY <1>3, <2>3 DEF U!Forget
  <2> QED BY <2>3, <2>4
<1> QED BY <1>2, <1>3

\* A step on one result is such a step.
LEMMA ResultSettles ==
  ASSUME UInv, BoundsAreNumbers, NEW r \in U!Made, NEW e \in Result,
         e.kind = res[r].kind, e.key = res[r].key, e.target = res[r].target,
         e.status = "pending" => res[r].status = "pending",
         res' = [res EXCEPT ![r] = e],
         U!Forget(r) \/ receipt' = receipt, forgotten' = forgotten
  PROVE  Settles /\ \A s \in U!Pending : s # r \/ e.status = "pending"
                                         => s \in U!Pending'
<1>1. UTypes /\ r \in U!Results /\ forgotten \subseteq U!Results
  BY MadeFacts DEF UInv, UTypes
<1>2. \A s \in U!Made \ forgotten' :
        receipt'[<<res[s].kind, res[s].key>>] # U!NoReceipt
  <2> SUFFICES ASSUME NEW s \in U!Made \ forgotten
               PROVE  receipt'[<<res[s].kind, res[s].key>>] # U!NoReceipt
    OBVIOUS
  <2>1. <<res[s].kind, res[s].key>> \in U!Kinds \X Keys
    BY <1>1, MadeFacts DEF Result
  <2> QED
    BY <1>1, <2>1, Forgets DEF UInv, HasReceipt
<1>3. /\ receipt' \in [U!Kinds \X Keys -> U!Receipt \cup {U!NoReceipt}]
      /\ \A o \in U!Kinds \X Keys :
           receipt'[o] # U!NoReceipt =>
             /\ receipt[o] # U!NoReceipt
             /\ receipt'[o].target = receipt[o].target
             /\ receipt'[o].result \in {0, receipt[o].result}
  BY <1>1, Forgets
<1> QED
  BY <1>1, <1>2, <1>3, ResultChanges DEF Settles

\* What the steps make of a result.
LEMMA OneField ==
  ASSUME NEW e \in Result
  PROVE  /\ \A v \in {"made", "pending", "completed", "aborted", "gone"} :
              LET x == [e EXCEPT !.status = v] IN
              /\ x \in Result /\ x.kind = e.kind /\ x.key = e.key
              /\ x.target = e.target /\ x.status = v
         /\ \A v \in {"put", "away"} :
              LET x == [e EXCEPT !.at = v] IN
              /\ x \in Result /\ x.kind = e.kind /\ x.key = e.key
              /\ x.target = e.target /\ x.status = e.status
         /\ LET x == [e EXCEPT !.old = TRUE] IN
              /\ x \in Result /\ x.kind = e.kind /\ x.key = e.key
              /\ x.target = e.target /\ x.status = e.status
BY DEF Result

\* COMMIT completes a session.
LEMMA CommitPublishedStep ==
  ASSUME UInv, BoundsAreNumbers, NEW p \in Procs, U!CommitPublished(p)
  PROVE  UInv'
<1> DEFINE r == g[p].r
           e == [res[r] EXCEPT !.status = "completed"]
<1>1. /\ g[p].pc = "commit" /\ g[p].todo = "publish" /\ U!Rollback(p)
      /\ res' = [res EXCEPT ![r].status = "completed"]
      /\ UNCHANGED <<shared, inside, receipt, forgotten, answers>>
  BY DEF U!CommitPublished, U!At
<1>2. r \in U!Pending /\ r \in U!Made /\ res[r] \in Result
  BY <1>1, MadeFacts DEF UInv, Works, U!At
<1>3. /\ e \in Result /\ e.kind = res[r].kind /\ e.key = res[r].key
      /\ e.target = res[r].target /\ e.status = "completed"
      /\ res' = [res EXCEPT ![r] = e]
  BY <1>1, <1>2, OneField
<1> HIDE DEF e, r
<1>4. Settles
  BY <1>1, <1>2, <1>3, ResultSettles
<1>5. /\ Numbered' /\ HasReceipt' /\ NamesItsResult' /\ U!OnePerKey'
      /\ U!AnswersFit' /\ U!Bounded'
  BY <1>1, <1>4, SettlesKeeps
<1>6. UTypes'
  <2>1. /\ g' \in [Procs -> U!Handler] /\ user' \subseteq Procs
        /\ row' \subseteq Procs
    BY <1>1, RollbackFacts
  <2> QED
    BY <1>1, <1>4, <2>1 DEF UInv, UTypes, Settles, U!Results
<1> QED
  BY <1>1, <1>5, <1>6, CommitKeeps

\* The steps on one result, by the visitor, the sweep, the owner and time.
LEMMA ResultStep ==
  ASSUME UInv, BoundsAreNumbers, NEW r \in U!Results,
         \/ U!AbortUpload(r) \/ U!Sweep(r) \/ U!DeleteFolder(r)
         \/ U!SessionExpires(r)
         \/ \E a \in {"put", "away"} : U!MoveResult(r, a)
  PROVE  UInv'
<1>1. r \in U!Made /\ res[r] \in Result
  BY MadeFacts DEF UInv, U!AbortUpload, U!Sweep, U!DeleteFolder,
     U!SessionExpires,
     U!MoveResult
<1>2. /\ UNCHANGED <<shared, inside, forgotten, user, row, g, answers>>
      /\ U!Forget(r) \/ receipt' = receipt
  BY DEF U!AbortUpload, U!Sweep, U!DeleteFolder, U!SessionExpires, U!MoveResult
<1>3. \E e \in Result :
        /\ e.kind = res[r].kind /\ e.key = res[r].key
        /\ e.target = res[r].target /\ res' = [res EXCEPT ![r] = e]
        /\ e.status = res[r].status
             \/ (e.status # "pending" /\ (r \in U!Pending => ~U!Locked(r)))
  <2>1. CASE U!AbortUpload(r)
    <3> DEFINE e == [res[r] EXCEPT !.status = "aborted"]
    <3>1. res' = [res EXCEPT ![r] = e] /\ ~U!Locked(r)
      BY <2>1 DEF U!AbortUpload
    <3>2. /\ e \in Result /\ e.kind = res[r].kind /\ e.key = res[r].key
          /\ e.target = res[r].target /\ e.status = "aborted"
      BY <1>1, OneField
    <3> HIDE DEF e
    <3> QED BY <3>1, <3>2
  <2>2. CASE U!Sweep(r) \/ U!DeleteFolder(r)
    <3> DEFINE e == [res[r] EXCEPT !.status = "gone"]
    <3>1. /\ res' = [res EXCEPT ![r] = e]
          /\ r \in U!Pending => ~U!Locked(r)
      BY <2>2 DEF U!Sweep, U!DeleteFolder, U!Pending
    <3>2. /\ e \in Result /\ e.kind = res[r].kind /\ e.key = res[r].key
          /\ e.target = res[r].target /\ e.status = "gone"
      BY <1>1, OneField
    <3> HIDE DEF e
    <3> QED BY <3>1, <3>2
  <2>3. CASE U!SessionExpires(r)
    <3> DEFINE e == [res[r] EXCEPT !.old = TRUE]
    <3>1. res' = [res EXCEPT ![r] = e]
      BY <2>3 DEF U!SessionExpires
    <3>2. /\ e \in Result /\ e.kind = res[r].kind /\ e.key = res[r].key
          /\ e.target = res[r].target /\ e.status = res[r].status
      BY <1>1, OneField
    <3> HIDE DEF e
    <3> QED BY <3>1, <3>2
  <2>4. CASE \E a \in {"put", "away"} : U!MoveResult(r, a)
    <3>1. PICK a \in {"put", "away"} : U!MoveResult(r, a)
      BY <2>4
    <3> DEFINE e == [res[r] EXCEPT !.at = a]
    <3>2. res' = [res EXCEPT ![r] = e]
      BY <3>1 DEF U!MoveResult
    <3>3. /\ e \in Result /\ e.kind = res[r].kind /\ e.key = res[r].key
          /\ e.target = res[r].target /\ e.status = res[r].status
      BY <1>1, OneField
    <3> HIDE DEF e
    <3> QED BY <3>2, <3>3
  <2> QED BY <2>1, <2>2, <2>3, <2>4
<1>4. PICK e \in Result :
        /\ e.kind = res[r].kind /\ e.key = res[r].key
        /\ e.target = res[r].target /\ res' = [res EXCEPT ![r] = e]
        /\ e.status = res[r].status
             \/ (e.status # "pending" /\ (r \in U!Pending => ~U!Locked(r)))
  BY <1>3
<1>5. Settles /\ \A s \in U!Pending : s # r \/ e.status = "pending"
                                      => s \in U!Pending'
  BY <1>1, <1>2, <1>4, ResultSettles
<1>6. \A s \in U!Pending : U!Locked(s) => s \in U!Pending'
  BY <1>4, <1>5 DEF U!Pending
<1>7. shared' \in [active: BOOLEAN, old: BOOLEAN] /\ inside' \subseteq Targets
  BY <1>2 DEF UInv, UTypes
<1> QED
  BY <1>2, <1>5, <1>6, <1>7, WorldKeeps

\* Receipts go on, age or go away.
LEMMA ReceiptStep ==
  ASSUME UInv, BoundsAreNumbers, NEW o \in U!Kinds \X Keys,
         U!ReceiptExpires(o) \/ U!CleanupReceipt(o)
  PROVE  UInv'
<1>1. /\ UNCHANGED <<shared, inside, res, user, row, g, answers>> /\ UTypes
      /\ receipt[o] \in U!Receipt /\ receipt[o] # U!NoReceipt
  BY DEF U!ReceiptExpires, U!CleanupReceipt, U!Receipts, UInv, UTypes
<1>2. /\ U!Made' = U!Made /\ U!Pending' = U!Pending
      /\ forgotten \subseteq U!Results
      /\ \A r \in U!Made : r \in U!Results
                         /\ <<res[r].kind, res[r].key>> \in U!Kinds \X Keys
  <2>1. \A r \in U!Made : r \in U!Results /\ res[r] \in Result
    BY <1>1, MadeFacts
  <2> QED
    BY <1>1, <2>1 DEF U!Made, U!Pending, Result, UTypes
<1>3. Settles
  <2>1. CASE U!ReceiptExpires(o)
    <3>1. ASSUME NEW y \in U!Receipt, NEW z, z = [y EXCEPT !.old = TRUE]
          PROVE  /\ z \in U!Receipt /\ z.target = y.target
                 /\ z.result = y.result /\ z # U!NoReceipt
      <4>1. z = [target |-> y.target, result |-> y.result, old |-> TRUE]
        BY <3>1 DEF U!Receipt
      <4>2. z \in U!Receipt /\ z.result # U!NoReceipt.result
        BY <4>1 DEF U!Receipt, U!NoReceipt, BoundsAreNumbers
      <4> QED BY <4>1, <4>2
    <3> DEFINE z == [receipt[o] EXCEPT !.old = TRUE]
    <3>2. /\ z \in U!Receipt /\ z.target = receipt[o].target
          /\ z.result = receipt[o].result /\ z # U!NoReceipt
      BY <1>1, <3>1
    <3>3. receipt' = [receipt EXCEPT ![o] = z] /\ forgotten' = forgotten
      BY <2>1 DEF U!ReceiptExpires
    <3> HIDE DEF z
    <3>4. /\ receipt' \in [U!Kinds \X Keys -> U!Receipt \cup {U!NoReceipt}]
          /\ receipt'[o] = z
          /\ \A u \in (U!Kinds \X Keys) \ {o} : receipt'[u] = receipt[u]
      BY <1>1, <3>2, <3>3 DEF UTypes
    <3>5. \A r \in U!Made \ forgotten :
            receipt'[<<res[r].kind, res[r].key>>] # U!NoReceipt
      BY <1>2, <3>2, <3>4 DEF UInv, HasReceipt
    <3> QED
      BY <1>1, <1>2, <3>2, <3>3, <3>4, <3>5 DEF Settles, UTypes
  <2>2. CASE U!CleanupReceipt(o)
    <3>1. /\ receipt' = [receipt EXCEPT ![o] = U!NoReceipt]
          /\ forgotten' = forgotten \cup {r \in U!Made :
                            res[r].kind = o[1] /\ res[r].key = o[2]}
      BY <2>2 DEF U!CleanupReceipt
    <3>2. /\ receipt' \in [U!Kinds \X Keys -> U!Receipt \cup {U!NoReceipt}]
          /\ receipt'[o] = U!NoReceipt
          /\ \A u \in (U!Kinds \X Keys) \ {o} : receipt'[u] = receipt[u]
      BY <1>1, <3>1 DEF UTypes
    <3>3. ASSUME NEW r \in U!Made \ forgotten'
          PROVE  receipt'[<<res[r].kind, res[r].key>>] # U!NoReceipt
      <4>1. r \in U!Made \ forgotten /\ <<res[r].kind, res[r].key>> # o
        BY <3>1
      <4> QED
        BY <1>2, <3>2, <4>1 DEF UInv, HasReceipt
    <3>4. \A u \in U!Kinds \X Keys :
            receipt'[u] # U!NoReceipt => u # o /\ receipt'[u] = receipt[u]
      BY <3>2
    <3>5. forgotten \subseteq forgotten' /\ forgotten' \subseteq U!Results
      BY <1>2, <3>1
    <3> QED
      BY <1>1, <1>2, <3>2, <3>3, <3>4, <3>5 DEF Settles, UTypes
  <2> QED BY <2>1, <2>2
<1>4. shared' \in [active: BOOLEAN, old: BOOLEAN] /\ inside' \subseteq Targets
  BY <1>1 DEF UTypes
<1> QED
  BY <1>1, <1>2, <1>3, <1>4, WorldKeeps

\* The link and the target: neither changes while a request has it locked.
LEMMA LinkStep ==
  ASSUME UInv, BoundsAreNumbers,
         \/ \E t \in Targets : U!MoveTarget(t)
         \/ U!Revoke \/ U!LinkExpires
  PROVE  UInv'
<1>1. /\ UNCHANGED <<res, receipt, forgotten, user, row, g, answers>>
      /\ UTypes
  BY DEF U!MoveTarget, U!Revoke, U!LinkExpires, UInv
<1>2. U!Made' = U!Made /\ U!Pending' = U!Pending
  BY <1>1 DEF U!Made, U!Pending
<1>3. Settles
  BY <1>1, <1>2 DEF Settles, UTypes, UInv, HasReceipt
<1>4. /\ shared' \in [active: BOOLEAN, old: BOOLEAN]
      /\ inside' \subseteq Targets
      /\ row # {} => shared'.active = shared.active
      /\ user # {} => inside' = inside
  <2>1. CASE \E t \in Targets : U!MoveTarget(t)
    BY <1>1, <2>1 DEF U!MoveTarget, UTypes
  <2>2. CASE U!Revoke \/ U!LinkExpires
    <3>1. ASSUME NEW l \in [active: BOOLEAN, old: BOOLEAN]
          PROVE  /\ [l EXCEPT !.active = FALSE] \in
                      [active: BOOLEAN, old: BOOLEAN]
                 /\ [l EXCEPT !.old = TRUE] \in
                      [active: BOOLEAN, old: BOOLEAN]
                 /\ [l EXCEPT !.old = TRUE].active = l.active
      OBVIOUS
    <3>2. CASE U!Revoke
      BY <1>1, <3>1, <3>2 DEF U!Revoke, UTypes
    <3>3. CASE U!LinkExpires
      BY <1>1, <3>1, <3>3 DEF U!LinkExpires, UTypes
    <3> QED BY <2>2, <3>2, <3>3
  <2> QED BY <2>1, <2>2
<1> QED
  BY <1>1, <1>2, <1>3, <1>4, WorldKeeps

\* The invariant holds initially.
LEMMA InitUInv ==
  ASSUME BoundsAreNumbers, U!Init
  PROVE  UInv
<1>1. UTypes
  <2>1. PICK k \in Keys, t \in Targets : g = [p \in Procs |->
          [pc |-> "idle", kind |-> "mkdir", key |-> k, target |-> t, r |-> 0,
           todo |-> "make"]]
    BY DEF U!Init
  <2>2. g \in [Procs -> U!Handler]
    BY <2>1 DEF U!Handler, U!Labels, U!Kinds, BoundsAreNumbers
  <2> QED
    BY <2>2 DEF U!Init, UTypes
<1>2. \A p \in Procs : g[p].pc = "idle"
  BY DEF U!Init
<1>3. U!Made = {} /\ U!Pending = {} /\ U!Receipts = {}
  BY DEF U!Init, U!Made, U!Pending, U!Receipts
<1>4. Numbered
  <2>1. {} = 1..0 /\ 0 \in 0..MaxResults
    BY DEF BoundsAreNumbers
  <2> QED
    BY <1>3, <2>1 DEF Numbered
<1>5. HasReceipt /\ NamesItsResult /\ U!OnePerKey /\ U!AnswersFit
  BY <1>3 DEF U!Init, HasReceipt, NamesItsResult, U!OnePerKey, U!AnswersFit
<1>6. U!Bounded
  BY <1>3, FS_EmptySet, SameCardinality DEF U!Bounded, BoundsAreNumbers
<1>7. \A p \in Procs : HoldsLocks(p) /\ Works(p)
  BY <1>2 DEF U!Init, HoldsLocks, Works
<1> QED
  BY <1>1, <1>4, <1>5, <1>6, <1>7 DEF UInv

\* Every step keeps it.
LEMMA NextUInv ==
  ASSUME UInv, BoundsAreNumbers, [U!Next]_(U!vars)
  PROVE  UInv'
<1>1. CASE U!Next
  <2>1. ASSUME NEW p \in Procs,
               \/ \E kind \in U!Kinds, k \in Keys, t \in Targets :
                    U!Ask(p, kind, k, t)
               \/ \E r \in U!Results : U!AskComplete(p, r)
        PROVE  UInv'
    BY <2>1, AskStep
  <2>2. ASSUME NEW p \in Procs,
               \/ U!LockUser(p) \/ U!LockLink(p) \/ U!Replay(p) \/ U!Check(p)
               \/ U!Make(p) \/ U!Publish(p) \/ U!CommitMade(p)
               \/ U!CommitPublished(p) \/ U!Fail(p)
        PROVE  UInv'
    BY <2>2, LockUserStep, LockLinkStep, ReplayStep, CheckStep, MakeStep,
       PublishStep, CommitMadeStep, CommitPublishedStep, FailStep
  <2> QED
    BY <1>1, <2>1, <2>2, ResultStep, ReceiptStep, LinkStep DEF U!Next
<1>2. CASE UNCHANGED U!vars
  <2>1. /\ UNCHANGED <<shared, inside, res, receipt, forgotten, user, row, g,
                       answers>>
        /\ UTypes
    BY <1>2 DEF U!vars, UInv
  <2>2. U!Made' = U!Made /\ U!Pending' = U!Pending
    BY <2>1 DEF U!Made, U!Pending
  <2>3. Settles
    BY <2>1, <2>2 DEF Settles, UTypes, UInv, HasReceipt
  <2>4. shared' \in [active: BOOLEAN, old: BOOLEAN] /\ inside' \subseteq Targets
    BY <2>1 DEF UTypes
  <2> QED
    BY <2>1, <2>2, <2>3, <2>4, WorldKeeps
<1> QED BY <1>1, <1>2

\* The invariant holds in every reachable state.
THEOREM UploadsInvariance == U!Spec => []UInv
<1>1. U!Init => UInv
  BY InitUInv, UploadsAssumption
<1>2. UInv /\ [U!Next]_(U!vars) => UInv'
  BY NextUInv, UploadsAssumption
<1> QED
  BY <1>1, <1>2, PTL DEF U!Spec

\* Making and publishing are COMMITs; no other step does either.
LEMMA OthersMakeNothing ==
  ASSUME UInv, BoundsAreNumbers, U!Next,
         \A p \in Procs : ~U!CommitMade(p) /\ ~U!CommitPublished(p),
         NEW r \in U!Results
  PROVE  /\ res'[r] # U!NoResult => res[r] # U!NoResult
         /\ r \in U!Pending => res'[r].status # "completed"
<1>1. ASSUME res' = res
      PROVE  /\ res'[r] # U!NoResult => res[r] # U!NoResult
             /\ r \in U!Pending => res'[r].status # "completed"
  BY <1>1 DEF U!Pending
<1>2. ASSUME NEW s \in U!Results,
             \/ U!AbortUpload(s) \/ U!Sweep(s) \/ U!DeleteFolder(s)
             \/ U!SessionExpires(s)
             \/ \E a \in {"put", "away"} : U!MoveResult(s, a)
      PROVE  /\ res'[r] # U!NoResult => res[r] # U!NoResult
             /\ r \in U!Pending => res'[r].status # "completed"
  <2>1. /\ s \in U!Made /\ res[s] \in Result
        /\ res \in [U!Results -> Result \cup {U!NoResult}]
    BY <1>2, MadeFacts DEF UInv, UTypes, U!AbortUpload, U!Sweep, U!DeleteFolder,
       U!SessionExpires, U!MoveResult
  <2>2. CASE r # s
    <3>1. res'[r] = res[r]
      BY <1>2, <2>1, <2>2 DEF U!AbortUpload, U!Sweep, U!DeleteFolder,
         U!SessionExpires, U!MoveResult
    <3> QED
      BY <3>1 DEF U!Pending
  <2>3. CASE r = s
    <3>1. \/ res'[r] = [res[r] EXCEPT !.status = "aborted"]
          \/ res'[r] = [res[r] EXCEPT !.status = "gone"]
          \/ res'[r] = [res[r] EXCEPT !.old = TRUE]
          \/ \E a \in {"put", "away"} : res'[r] = [res[r] EXCEPT !.at = a]
      BY <1>2, <2>1, <2>3 DEF U!AbortUpload, U!Sweep, U!DeleteFolder,
         U!SessionExpires, U!MoveResult
    <3>2. res'[r].status \in {"aborted", "gone", res[r].status}
      <4>1. \A v \in {"put", "away"} :
              [res[r] EXCEPT !.at = v].status = res[r].status
        BY <2>1, <2>3, OneField
      <4>2. /\ [res[r] EXCEPT !.status = "aborted"].status = "aborted"
            /\ [res[r] EXCEPT !.status = "gone"].status = "gone"
            /\ [res[r] EXCEPT !.old = TRUE].status = res[r].status
        BY <2>1, <2>3, OneField
      <4> QED
        BY <3>1, <4>1, <4>2
    <3> QED
      BY <2>1, <2>3, <3>2 DEF U!Pending, U!Made
  <2> QED BY <2>2, <2>3
<1>3. ASSUME NEW p \in Procs,
             \/ \E kind \in U!Kinds, k \in Keys, t \in Targets :
                  U!Ask(p, kind, k, t)
             \/ \E q \in U!Results : U!AskComplete(p, q)
             \/ U!LockUser(p) \/ U!LockLink(p) \/ U!Replay(p) \/ U!Check(p)
             \/ U!Make(p) \/ U!Publish(p) \/ U!Fail(p)
      PROVE  res' = res
  BY <1>3 DEF U!Ask, U!AskComplete, U!LockUser, U!LockLink, U!Replay, U!Check,
     U!Make,
     U!Publish, U!Fail
<1>4. ASSUME \/ \E t \in Targets : U!MoveTarget(t)
             \/ \E o \in U!Kinds \X Keys :
                  U!ReceiptExpires(o) \/ U!CleanupReceipt(o)
             \/ U!Revoke \/ U!LinkExpires
      PROVE  res' = res
  BY <1>4 DEF U!MoveTarget, U!ReceiptExpires, U!CleanupReceipt, U!Revoke,
     U!LinkExpires
<1> QED
  BY <1>1, <1>2, <1>3, <1>4 DEF U!Next

\* A COMMIT makes or publishes one result, under an active link and in a
\* folder that is inside.
LEMMA CommitsInside ==
  ASSUME UInv, BoundsAreNumbers, NEW p \in Procs,
         U!CommitMade(p) \/ U!CommitPublished(p), NEW r \in U!Results
  PROVE  /\ shared.active
         /\ \/ res'[r] = res[r]
            \/ res'[r].target \in inside
<1>1. CASE U!CommitMade(p)
  <2> DEFINE x == [kind |-> g[p].kind, key |-> g[p].key,
                   target |-> g[p].target, old |-> FALSE, at |-> "put",
                   status |-> IF g[p].kind = "mkdir" THEN "made"
                              ELSE "pending"]
  <2>1. /\ g[p].pc = "commit" /\ g[p].todo = "make"
        /\ res' = [res EXCEPT ![U!Fresh] = x]
    BY <1>1 DEF U!CommitMade, U!At
  <2>2. shared.active /\ g[p].target \in inside
    BY <2>1 DEF UInv, Works
  <2>3. x.target = g[p].target
    OBVIOUS
  <2> HIDE DEF x
  <2> QED
    BY <2>1, <2>2, <2>3 DEF UInv, UTypes
<1>2. CASE U!CommitPublished(p)
  <2> DEFINE q == g[p].r
             e == [res[q] EXCEPT !.status = "completed"]
  <2>1. /\ g[p].pc = "commit" /\ g[p].todo = "publish"
        /\ res' = [res EXCEPT ![q] = e]
    BY <1>2 DEF U!CommitPublished, U!At
  <2>2. shared.active /\ q \in U!Pending /\ res[q].target \in inside
    BY <2>1 DEF UInv, Works, U!At
  <2>3. res[q] \in Result
    BY <2>2, MadeFacts DEF UInv
  <2>4. e.target = res[q].target
    BY <2>3, OneField
  <2> HIDE DEF e, q
  <2> QED
    BY <2>1, <2>2, <2>4 DEF UInv, UTypes
<1> QED BY <1>1, <1>2

\* What is made or published lands in a folder that is live and below the
\* shared one, wherever its owner moves folders meanwhile.
THEOREM UploadsLandInside == U!Spec => U!LandsInside
<1>1. UInv /\ [U!Next]_(U!vars) =>
        [\A r \in U!Results :
           (r \notin U!Made /\ res'[r] # U!NoResult)
             \/ (r \in U!Pending /\ res'[r].status = "completed")
           => res'[r].target \in inside]_(U!vars)
  <2> SUFFICES ASSUME UInv, U!Next, NEW r \in U!Results,
                      (r \notin U!Made /\ res'[r] # U!NoResult)
                        \/ (r \in U!Pending /\ res'[r].status = "completed")
               PROVE  res'[r].target \in inside
    OBVIOUS
  <2>1. \E p \in Procs : U!CommitMade(p) \/ U!CommitPublished(p)
    BY OthersMakeNothing, UploadsAssumption DEF U!Made
  <2>2. res'[r] # res[r]
    BY DEF U!Made, U!Pending
  <2> QED
    BY <2>1, <2>2, CommitsInside, UploadsAssumption
<1>2. U!Spec => []UInv
  BY UploadsInvariance
<1> QED
  BY <1>1, <1>2, PTL DEF U!Spec, U!LandsInside

\* After a revocation nothing is made or published, whatever was authorized
\* before: the COMMIT has the link's row, and the UPDATE waits for it.
THEOREM RevocationEndsUploads == U!Spec => U!RevokedMakesNothing
<1>1. UInv /\ [U!Next]_(U!vars) =>
        [~shared.active =>
           \A r \in U!Results :
             /\ res'[r] # U!NoResult => res[r] # U!NoResult
             /\ r \in U!Pending => res'[r].status # "completed"]_(U!vars)
  <2> SUFFICES ASSUME UInv, U!Next, ~shared.active, NEW r \in U!Results
               PROVE  /\ res'[r] # U!NoResult => res[r] # U!NoResult
                      /\ r \in U!Pending => res'[r].status # "completed"
    OBVIOUS
  <2>1. \A p \in Procs : ~U!CommitMade(p) /\ ~U!CommitPublished(p)
    BY CommitsInside, UploadsAssumption
  <2> QED
    BY <2>1, OthersMakeNothing, UploadsAssumption
<1>2. U!Spec => []UInv
  BY UploadsInvariance
<1> QED
  BY <1>1, <1>2, PTL DEF U!Spec, U!RevokedMakesNothing

\* Who tells a visitor of a result, and when.
LEMMA Told ==
  ASSUME UInv, BoundsAreNumbers, U!Next, NEW a \in answers' \ answers
  PROVE  /\ a[3] \in inside
         /\ res'[a[4]].status \in {"made", "completed"} =>
              res'[a[4]].at = "put"
<1>1. PICK p \in Procs : U!Check(p) \/ U!CommitMade(p)
  <2>1. ASSUME NEW p \in Procs,
               \/ \E kind \in U!Kinds, k \in Keys, t \in Targets :
                    U!Ask(p, kind, k, t)
               \/ \E q \in U!Results : U!AskComplete(p, q)
               \/ U!LockUser(p) \/ U!LockLink(p) \/ U!Replay(p)
               \/ U!Make(p) \/ U!Publish(p) \/ U!Fail(p) \/ U!CommitPublished(p)
        PROVE  answers' = answers
    BY <2>1 DEF U!Ask, U!AskComplete, U!LockUser, U!LockLink, U!Replay, U!Make,
       U!Publish, U!Fail, U!CommitPublished
  <2>2. ASSUME \/ \E t \in Targets : U!MoveTarget(t)
               \/ \E o \in U!Kinds \X Keys :
                    U!ReceiptExpires(o) \/ U!CleanupReceipt(o)
               \/ U!Revoke \/ U!LinkExpires
        PROVE  answers' = answers
    BY <2>2 DEF U!MoveTarget, U!ReceiptExpires, U!CleanupReceipt, U!Revoke,
       U!LinkExpires
  <2>3. ASSUME NEW s \in U!Results,
               \/ U!AbortUpload(s) \/ U!Sweep(s) \/ U!DeleteFolder(s)
               \/ U!SessionExpires(s)
               \/ \E v \in {"put", "away"} : U!MoveResult(s, v)
        PROVE  answers' = answers
    BY <2>3 DEF U!AbortUpload, U!Sweep, U!DeleteFolder, U!SessionExpires,
       U!MoveResult
  <2> QED
    BY <2>1, <2>2, <2>3 DEF U!Next
<1>2. CASE U!Check(p)
  <2>1. /\ g[p].pc = "check" /\ res' = res /\ U!Replayable(g[p].r)
        /\ a = <<g[p].kind, g[p].key, g[p].target, g[p].r>>
    BY <1>2 DEF U!Check, U!Tell, U!At
  <2>2. g[p].target \in inside
    BY <2>1 DEF UInv, Works
  <2> QED
    BY <2>1, <2>2 DEF U!Replayable
<1>3. CASE U!CommitMade(p)
  <2> DEFINE x == [kind |-> g[p].kind, key |-> g[p].key,
                   target |-> g[p].target, old |-> FALSE, at |-> "put",
                   status |-> IF g[p].kind = "mkdir" THEN "made"
                              ELSE "pending"]
  <2>1. /\ g[p].pc = "commit" /\ g[p].todo = "make"
        /\ res' = [res EXCEPT ![U!Fresh] = x]
        /\ a = <<g[p].kind, g[p].key, g[p].target, U!Fresh>>
    BY <1>3 DEF U!CommitMade, U!Tell, U!At
  <2>2. g[p].target \in inside /\ U!Fresh \in U!Results
    BY <2>1 DEF UInv, Works, U!At
  <2>3. x.at = "put"
    OBVIOUS
  <2> HIDE DEF x
  <2>4. res'[U!Fresh] = x
    BY <2>1, <2>2 DEF UInv, UTypes
  <2> QED
    BY <2>1, <2>2, <2>3, <2>4
<1> QED BY <1>1, <1>2, <1>3

\* A visitor, also one who repeats a request, is told of a result only where
\* he asked for it.
THEOREM RepliesInPlace == U!Spec => U!AnsweredInPlace
<1>1. UInv /\ [U!Next]_(U!vars) =>
        [\A a \in answers' \ answers :
           /\ a[3] \in inside
           /\ res'[a[4]].status \in {"made", "completed"} =>
                res'[a[4]].at = "put"]_(U!vars)
  <2> SUFFICES ASSUME UInv, U!Next, NEW a \in answers' \ answers
               PROVE  /\ a[3] \in inside
                      /\ res'[a[4]].status \in {"made", "completed"} =>
                           res'[a[4]].at = "put"
    OBVIOUS
  <2> QED
    BY Told, UploadsAssumption
<1>2. U!Spec => []UInv
  BY UploadsInvariance
<1> QED
  BY <1>1, <1>2, PTL DEF U!Spec, U!AnsweredInPlace

\* While its receipt lives, a key makes one result; visitors are told of what
\* their own requests made; receipts and unfinished sessions are bounded.
THEOREM OneResultPerKey == U!Spec => []OnePerKey
<1>1. UInv => OnePerKey
  BY DEF UInv, OnePerKey
<1>2. U!Spec => []UInv
  BY UploadsInvariance
<1> QED
  BY <1>1, <1>2, PTL
=============================================================================
