--------------------------- MODULE DownloadsProofs ---------------------------
(***************************************************************************)
(* Proofs about Downloads, for any number of requests, users, files and    *)
(* tokens, and about Ranges, for headers and files of any size.            *)
(*                                                                         *)
(* An issue counts the capabilities that are pending and inserts one more, *)
(* in different statements.  The room it found is still there when it      *)
(* commits (HasRoom), since the advisory lock lets no other issue of that  *)
(* kind commit meanwhile (LockHeld) and everything else only takes rows    *)
(* away.  What it deletes is locked by it, so that a GET cannot use it and *)
(* nobody else deletes it (Writes), and a GET takes its row with it, so    *)
(* that there is no second one (Once).                                     *)
(***************************************************************************)
EXTENDS NativeDownloads, FiniteSetTheorems, TLAPS

\* A row of either table.
Row == [kind: Kinds, by: Procs \cup {None}, user: Users, item: Files,
        old: BOOLEAN]

\* What kind of value each variable has.
Types ==
  /\ row \in [Tokens -> Row \cup {Absent}] /\ h \in [Procs -> Handler]
  /\ lock \in [Kinds -> Procs \cup {None}] /\ prepares \in Int
  /\ fd \in [Procs -> {"none", "own", "stream"}]
  /\ made \in 0..MaxTokens /\ used \in [Tokens -> Nat]

\* Where a request is while its transaction has the lock.
Locking == {"purge", "drop", "count", "insert", "commit"}

\* Who holds the lock of a kind is issuing one of that kind.
LockHeld(p) ==
  /\ h[p].pc \in Locking => h[p].kind \in Kinds /\ lock[h[p].kind] = p
  /\ \A k \in Kinds :
       lock[k] = p => h[p].kind = k /\ h[p].pc \in Locking

\* A row is there once at most, and serves one GET while it is there.
Once ==
  /\ \A t \in Tokens : used[t] <= 1 /\ (row[t] # Absent => used[t] = 0)
  /\ \A t \in Tokens : t > made => row[t] = Absent /\ used[t] = 0

\* What a transaction wrote is its own, what it deleted was everyone's.
Writes(p) ==
  /\ h[p].pc = "commit" =>
       /\ h[p].token \in Tokens /\ row[h[p].token] # Absent
       /\ row[h[p].token] = [kind |-> h[p].kind, by |-> p,
            user |-> h[p].user, item |-> h[p].item, old |-> FALSE]
  /\ \A t \in Tokens : row[t] # Absent /\ row[t].by = p =>
       h[p].pc = "commit" /\ h[p].token = t
  /\ h[p].doom # {} => h[p].pc \in Locking \ {"purge"}
  /\ \A t \in h[p].doom :
       row[t] # Absent /\ row[t].by = None /\ row[t].kind = h[p].kind

\* A request to issue has a kind of its own, a fetch a token.
Issues(p) ==
  /\ h[p].pc = "authorize" => h[p].token \in Tokens
  /\ h[p].pc \in {"find", "lock"} => h[p].kind \in Kinds
  /\ h[p].pc = "drop" => h[p].kind = "file"

\* After the count there is room for one more, and none for the same file.
HasRoom(p) ==
  LET k == h[p].kind IN
  /\ h[p].pc \in {"insert", "commit"} =>
       /\ Cardinality(Pending(k) \ h[p].doom) < AllLimit[k]
       /\ Cardinality(Mine(k, h[p].user) \ h[p].doom) < OwnLimit[k]
  /\ h[p].pc \in {"count", "insert", "commit"} /\ k = "file" =>
       SameFile(p) \subseteq h[p].doom

\* A file is open for a request that is to be admitted, or streams; its client
\* is there, or had left already when the file was handed over.
Opened(p) ==
  /\ fd[p] = IF h[p].pc = "admit" THEN "own"
             ELSE IF h[p].pc = "stream" THEN "stream" ELSE "none"
  /\ h[p].pc = "stream" => h[p].on \/ h[p].late

\* Every request that issues may still make its token.
Enough == made + Cardinality(Issuing) <= MaxTokens

\* What is said of each request.
Own(p) == LockHeld(p) /\ Writes(p) /\ Issues(p) /\ HasRoom(p) /\ Opened(p)

\* The invariant.
DInv ==
  /\ Types /\ Once /\ Enough /\ Bounded /\ OnePerFile /\ PreparesCounted
  /\ \A p \in Procs : Own(p)
----------------------------------------------------------------------------
\* The requests counted: those that issue, and the archives being prepared.
Counts(e) == e.pc \in {"find", "lock", "purge", "drop", "count", "insert"}
Prepares(e) ==
  e.kind = "archive" /\
    e.pc \in {"find", "lock", "purge", "count", "insert", "commit"}
Preparing == {p \in Procs : Prepares(h[p])}
One(y) == IF y THEN 1 ELSE 0

\* Of the same requests one is counted now and was not, or the reverse.
LEMMA CountMoves ==
  ASSUME NEW S, NEW T, IsFiniteSet(S), NEW p, NEW was \in BOOLEAN,
         NEW is \in BOOLEAN, (p \in S) <=> was, (p \in T) <=> is,
         S \ {p} = T \ {p}
  PROVE  /\ Cardinality(S) \in Nat /\ Cardinality(T) \in Nat
         /\ Cardinality(T) + One(was) = Cardinality(S) + One(is)
<1>1. IsFiniteSet(S \ {p}) /\ Cardinality(S \ {p}) \in Nat
  BY FS_Difference, FS_CardinalityType
<1>2. ASSUME NEW U, U \ {p} = S \ {p}, NEW y \in BOOLEAN, (p \in U) <=> y
      PROVE  Cardinality(U) = Cardinality(S \ {p}) + One(y)
  <2>1. CASE y
    <3>1. U = (S \ {p}) \cup {p}
      BY <1>2, <2>1
    <3>2. Cardinality((S \ {p}) \cup {p}) = Cardinality(S \ {p}) + 1
      BY <1>1, FS_AddElement
    <3> QED
      BY <2>1, <3>1, <3>2 DEF One
  <2>2. CASE ~y
    <3>1. U = S \ {p}
      BY <1>2, <2>2
    <3> QED
      BY <1>1, <2>2, <3>1 DEF One
  <2> QED BY <2>1, <2>2
<1>3. Cardinality(S) = Cardinality(S \ {p}) + One(was)
  BY <1>2
<1>4. Cardinality(T) = Cardinality(S \ {p}) + One(is)
  BY <1>2
<1>5. One(was) \in {0, 1} /\ One(is) \in {0, 1}
  BY DEF One
<1> QED
  BY <1>1, <1>3, <1>4, <1>5

\* The step of p moves p only.
Moved(p) == h' \in [Procs -> Handler] /\ \A q \in Procs \ {p} : h'[q] = h[q]

\* The step of p, seen from the two counters.
LEMMA CountersMove ==
  ASSUME Types, DownloadsFit, NEW p \in Procs, Moved(p)
  PROVE  /\ Cardinality(Issuing) \in Nat /\ Cardinality(Issuing') \in Nat
         /\ Cardinality(Issuing') + One(Counts(h[p])) =
              Cardinality(Issuing) + One(Counts(h'[p]))
         /\ Cardinality(Preparing) \in Nat /\ Cardinality(Preparing') \in Nat
         /\ Cardinality(Preparing') + One(Prepares(h[p])) =
              Cardinality(Preparing) + One(Prepares(h'[p]))
<1>1. /\ Issuing = {q \in Procs : Counts(h[q])}
      /\ Issuing' = {q \in Procs : Counts(h'[q])}
      /\ Preparing' = {q \in Procs : Prepares(h'[q])}
  BY DEF Issuing, Counts, Preparing, Prepares
<1>2. /\ Issuing \subseteq Procs /\ Preparing \subseteq Procs
      /\ IsFiniteSet(Procs)
  BY <1>1 DEF Preparing, DownloadsFit
<1>3. IsFiniteSet(Issuing) /\ IsFiniteSet(Preparing)
  BY <1>2, FS_Subset
<1>4. \A q \in Procs \ {p} : h'[q] = h[q]
  BY DEF Moved
<1>5. /\ Issuing \ {p} = Issuing' \ {p} /\ Preparing \ {p} = Preparing' \ {p}
      /\ (p \in Issuing) <=> Counts(h[p])
      /\ (p \in Issuing') <=> Counts(h'[p])
      /\ (p \in Preparing) <=> Prepares(h[p])
      /\ (p \in Preparing') <=> Prepares(h'[p])
  BY <1>1, <1>4 DEF Preparing
<1>6. /\ Counts(h[p]) \in BOOLEAN /\ Counts(h'[p]) \in BOOLEAN
      /\ Prepares(h[p]) \in BOOLEAN /\ Prepares(h'[p]) \in BOOLEAN
  BY DEF Counts, Prepares
<1>7. /\ Cardinality(Issuing) \in Nat /\ Cardinality(Issuing') \in Nat
      /\ Cardinality(Issuing') + One(Counts(h[p])) =
           Cardinality(Issuing) + One(Counts(h'[p]))
  BY <1>3, <1>5, <1>6, CountMoves
<1>8. /\ Cardinality(Preparing) \in Nat /\ Cardinality(Preparing') \in Nat
      /\ Cardinality(Preparing') + One(Prepares(h[p])) =
           Cardinality(Preparing) + One(Prepares(h'[p]))
  BY <1>3, <1>5, <1>6, CountMoves
<1> QED BY <1>7, <1>8

----------------------------------------------------------------------------
\* Tables with fewer rows: the counts do not grow.
PendingNext(k) ==
  {t \in Tokens : row'[t] # Absent /\ row'[t].kind = k /\ row'[t].by = None}
MineNext(k, u) == {t \in PendingNext(k) : row'[t].user = u}

\* No row of a kind appears.
NoneAppears(k) ==
  \A t \in PendingNext(k) :
    t \in Pending(k) /\ row'[t].user = row[t].user
      /\ row'[t].item = row[t].item

\* Tables are finite.
LEMMA FiniteTables ==
  ASSUME DownloadsFit, NEW S \in SUBSET Tokens
  PROVE  IsFiniteSet(S) /\ Cardinality(S) \in Nat
<1>1. IsFiniteSet(Tokens)
  BY FS_Interval DEF Tokens, DownloadsFit
<1> QED
  BY <1>1, FS_Subset, FS_CardinalityType

\* Without a new row in a table its counts do not grow.
LEMMA Fewer ==
  ASSUME DownloadsFit, NEW k, NEW u, NEW D, NoneAppears(k)
  PROVE  /\ Cardinality(PendingNext(k) \ D) <= Cardinality(Pending(k) \ D)
         /\ Cardinality(MineNext(k, u) \ D) <= Cardinality(Mine(k, u) \ D)
         /\ Cardinality(PendingNext(k)) <= Cardinality(Pending(k))
         /\ Cardinality(MineNext(k, u)) <= Cardinality(Mine(k, u))
         /\ Cardinality(PendingNext(k) \ D) \in Nat
         /\ Cardinality(MineNext(k, u) \ D) \in Nat
         /\ Cardinality(PendingNext(k)) \in Nat
         /\ Cardinality(MineNext(k, u)) \in Nat
<1>1. /\ PendingNext(k) \subseteq Pending(k)
      /\ MineNext(k, u) \subseteq Mine(k, u)
      /\ Pending(k) \subseteq Tokens /\ Mine(k, u) \subseteq Tokens
  BY DEF NoneAppears, PendingNext, MineNext, Pending, Mine
<1>2. /\ PendingNext(k) \ D \subseteq Pending(k) \ D
      /\ MineNext(k, u) \ D \subseteq Mine(k, u) \ D
      /\ Pending(k) \ D \subseteq Tokens /\ Mine(k, u) \ D \subseteq Tokens
  BY <1>1
<1>3. \A S, T : S \subseteq T /\ T \subseteq Tokens =>
        Cardinality(S) <= Cardinality(T) /\ Cardinality(S) \in Nat
  BY FiniteTables, FS_Subset, FS_CardinalityType
<1> QED
  BY <1>1, <1>2, <1>3

\* The limits are numbers.
LEMMA LimitsAreNumbers ==
  ASSUME DownloadsFit, NEW k \in Kinds
  PROVE  OwnLimit[k] \in Nat /\ AllLimit[k] \in Nat
BY DEF DownloadsFit

\* Without a new row the limits stay kept, and a file has one row still.
LEMMA LimitsKept ==
  ASSUME DInv, DownloadsFit, \A k \in Kinds : NoneAppears(k)
  PROVE  Bounded' /\ OnePerFile'
<1>1. ASSUME NEW k \in Kinds, NEW u
      PROVE  /\ Cardinality(PendingNext(k)) <= AllLimit[k]
             /\ u \in Users => Cardinality(MineNext(k, u)) <= OwnLimit[k]
  <2>1. /\ Cardinality(PendingNext(k)) <= Cardinality(Pending(k))
        /\ Cardinality(MineNext(k, u)) <= Cardinality(Mine(k, u))
        /\ Cardinality(PendingNext(k)) \in Nat
        /\ Cardinality(MineNext(k, u)) \in Nat
    BY <1>1, Fewer
  <2>2. /\ Cardinality(Pending(k)) <= AllLimit[k]
        /\ u \in Users => Cardinality(Mine(k, u)) <= OwnLimit[k]
    BY <1>1 DEF DInv, Bounded
  <2>3. Cardinality(Pending(k)) \in Nat /\ Cardinality(Mine(k, u)) \in Nat
    BY FiniteTables DEF Pending, Mine
  <2> QED
    BY <2>1, <2>2, <2>3, LimitsAreNumbers
<1>2. ASSUME "file" \in Kinds, NEW u \in Users, NEW s \in MineNext("file", u),
             NEW t \in MineNext("file", u), row'[s].item = row'[t].item
      PROVE  s = t
  <2>1. /\ s \in Mine("file", u) /\ t \in Mine("file", u)
        /\ row[s].item = row[t].item
    BY <1>2 DEF NoneAppears, MineNext, Mine
  <2> QED
    BY <1>2, <2>1 DEF DInv, OnePerFile
<1>3. \A k : Pending(k)' = PendingNext(k) /\ \A u : Mine(k, u)' = MineNext(k, u)
  BY DEF Pending, Mine, PendingNext, MineNext
<1>5. Bounded'
  BY <1>1, <1>3 DEF Bounded
<1>4. OnePerFile'
  BY <1>2 DEF OnePerFile, Pending, Mine, PendingNext, MineNext
<1> QED BY <1>4, <1>5
----------------------------------------------------------------------------
\* One request moved: the two counters are right again.
LEMMA Tally ==
  ASSUME DInv, DownloadsFit, NEW p \in Procs, Moved(p), made' \in Int,
         prepares' = prepares + One(Prepares(h'[p])) - One(Prepares(h[p])),
         \/ made' + One(Counts(h'[p])) <= made + One(Counts(h[p]))
         \/ made' = made /\ made + Cardinality(Issuing) < MaxTokens
  PROVE  Enough' /\ PreparesCounted' /\ prepares' \in Int
<1>1. /\ made \in Int /\ MaxTokens \in Int /\ Types
      /\ made + Cardinality(Issuing) <= MaxTokens
      /\ prepares = Cardinality(Preparing)
  BY DEF DInv, Types, DownloadsFit, Enough, PreparesCounted, Preparing,
         Prepares
<1>2. /\ Cardinality(Issuing) \in Nat /\ Cardinality(Issuing') \in Nat
      /\ Cardinality(Issuing') + One(Counts(h[p])) =
           Cardinality(Issuing) + One(Counts(h'[p]))
      /\ Cardinality(Preparing) \in Nat /\ Cardinality(Preparing') \in Nat
      /\ Cardinality(Preparing') + One(Prepares(h[p])) =
           Cardinality(Preparing) + One(Prepares(h'[p]))
  BY <1>1, CountersMove
<1>3. /\ One(Counts(h[p])) \in {0, 1} /\ One(Counts(h'[p])) \in {0, 1}
      /\ One(Prepares(h[p])) \in {0, 1} /\ One(Prepares(h'[p])) \in {0, 1}
  BY DEF One
<1>4. made' + Cardinality(Issuing') <= MaxTokens
  BY <1>1, <1>2, <1>3
<1>5. prepares' = Cardinality(Preparing') /\ prepares' \in Int
  BY <1>1, <1>2, <1>3
<1>6. Enough'
  BY <1>4 DEF Enough, DownloadsFit
<1>7. PreparesCounted'
  BY <1>5 DEF PreparesCounted, Preparing, Prepares
<1> QED BY <1>5, <1>6, <1>7

\* What another step may do to what q has written and deleted.
RowsKept(q) ==
  /\ \A t \in Tokens :
       \/ row[t] # Absent /\ row[t].by = q
       \/ row'[t] # Absent /\ row'[t].by = q
       => row'[t] = row[t]
  /\ \A t \in h[q].doom :
       row'[t] # Absent /\ row'[t].by = None /\ row'[t].kind = row[t].kind
  /\ h[q].pc \in Locking => NoneAppears(h[q].kind)

LocksKept(q) == \A k \in Kinds : (lock'[k] = q) <=> (lock[k] = q)

\* The request is where it was, with the same locals.
Stays(q) ==
  /\ h'[q].pc = h[q].pc /\ h'[q].kind = h[q].kind /\ h'[q].user = h[q].user
  /\ h'[q].item = h[q].item /\ h'[q].token = h[q].token
  /\ h'[q].doom = h[q].doom
  /\ h[q].pc = "stream" => h'[q].on = h[q].on /\ h'[q].late = h[q].late

\* The sets that the room is counted in, after a step that leaves q alone.
LEMMA RoomKept ==
  ASSUME DInv, DownloadsFit, NEW q \in Procs, Stays(q), RowsKept(q)
  PROVE  HasRoom(q)'
<1> DEFINE k == h[q].kind
           u == h[q].user
           D == h[q].doom
<1>1. CASE h[q].pc \in {"count", "insert", "commit"}
  <2>1. h[q].pc \in Locking /\ k \in Kinds /\ HasRoom(q)
    BY <1>1 DEF DInv, Own, LockHeld, Locking
  <2>2. NoneAppears(k)
    BY <2>1 DEF RowsKept
  <2>3. /\ Cardinality(PendingNext(k) \ D) <= Cardinality(Pending(k) \ D)
        /\ Cardinality(MineNext(k, u) \ D) <= Cardinality(Mine(k, u) \ D)
        /\ Cardinality(PendingNext(k) \ D) \in Nat
        /\ Cardinality(MineNext(k, u) \ D) \in Nat
    BY <2>2, Fewer
  <2>4. /\ Cardinality(Pending(k) \ D) \in Nat
        /\ Cardinality(Mine(k, u) \ D) \in Nat
    BY FiniteTables DEF Pending, Mine
  <2>5. h[q].pc \in {"insert", "commit"} =>
          /\ Cardinality(PendingNext(k) \ D) < AllLimit[k]
          /\ Cardinality(MineNext(k, u) \ D) < OwnLimit[k]
    <3>1. OwnLimit[k] \in Nat /\ AllLimit[k] \in Nat
      BY <2>1, LimitsAreNumbers
    <3>2. h[q].pc \in {"insert", "commit"} =>
            /\ Cardinality(Pending(k) \ D) < AllLimit[k]
            /\ Cardinality(Mine(k, u) \ D) < OwnLimit[k]
      BY <2>1 DEF HasRoom
    <3> HIDE DEF k, u, D
    <3> QED BY <2>3, <2>4, <3>1, <3>2
  <2>6. k = "file" =>
          \A t \in MineNext("file", u) : row'[t].item = h[q].item => t \in D
    <3> SUFFICES ASSUME k = "file", NEW t \in MineNext("file", u),
                        row'[t].item = h[q].item
                 PROVE  t \in D
      OBVIOUS
    <3>1. t \in Pending("file") /\ row[t].user = u /\ row[t].item = h[q].item
      BY <2>2 DEF NoneAppears, MineNext
    <3>2. t \in SameFile(q)
      BY <3>1 DEF SameFile, Mine
    <3> QED BY <1>1, <2>1, <3>2 DEF HasRoom
  <2>7. \A j : /\ Pending(j)' = PendingNext(j)
               /\ \A v : Mine(j, v)' = MineNext(j, v)
    BY DEF Pending, Mine, PendingNext, MineNext
  <2>8. SameFile(q)' = {t \in MineNext("file", u) : row'[t].item = h[q].item}
    BY DEF SameFile, Mine, MineNext, Pending, PendingNext, Stays
  <2>9. k = "file" => SameFile(q)' \subseteq D
    BY <2>6, <2>8
  <2>10. h'[q].kind = k /\ h'[q].user = u /\ h'[q].doom = D
         /\ h'[q].pc = h[q].pc
    BY DEF Stays
  <2> HIDE DEF k, u, D
  <2> QED BY <2>5, <2>7, <2>9, <2>10 DEF HasRoom
<1>2. CASE h[q].pc \notin {"count", "insert", "commit"}
  BY <1>2 DEF HasRoom, Stays
<1> QED BY <1>1, <1>2

\* A step of another request, or of none, keeps what is said of q.
LEMMA OtherKept ==
  ASSUME DInv, DownloadsFit, NEW q \in Procs, Stays(q), fd'[q] = fd[q],
         RowsKept(q), LocksKept(q)
  PROVE  Own(q)'
<1>0. LockHeld(q) /\ Writes(q) /\ Issues(q) /\ Opened(q)
  BY DEF DInv, Own
<1>1. LockHeld(q)'
  BY <1>0 DEF LockHeld, LocksKept, Stays
<1>2. Writes(q)'
  <2>1. h[q].pc = "commit" => row'[h[q].token] = row[h[q].token]
    BY <1>0 DEF Writes, RowsKept
  <2>2. \A t \in Tokens : row'[t] # Absent /\ row'[t].by = q =>
          h[q].pc = "commit" /\ h[q].token = t
    BY <1>0 DEF Writes, RowsKept
  <2>3. \A t \in h[q].doom :
          row'[t] # Absent /\ row'[t].by = None /\ row'[t].kind = h[q].kind
    BY <1>0 DEF Writes, RowsKept
  <2> QED BY <1>0, <2>1, <2>2, <2>3 DEF Writes, Stays
<1>3. Issues(q)'
  BY <1>0 DEF Issues, Stays
<1>4. HasRoom(q)'
  BY RoomKept
<1>5. Opened(q)'
  BY <1>0 DEF Opened, Stays
<1> QED BY <1>1, <1>2, <1>3, <1>4, <1>5 DEF Own

\* The same rows.
LEMMA SameRows ==
  ASSUME DInv, row' = row
  PROVE  /\ \A q \in Procs : RowsKept(q)
         /\ \A k : NoneAppears(k)
<1>1. \A k : NoneAppears(k)
  BY DEF NoneAppears, PendingNext, Pending
<1>2. ASSUME NEW q \in Procs
      PROVE  RowsKept(q)
  <2>1. Writes(q)
    BY DEF DInv, Own
  <2> QED BY <1>1, <2>1 DEF Writes, RowsKept
<1> QED BY <1>1, <1>2

\* A request that issues nothing, and holds nothing of the tables.
LEMMA Quiet ==
  ASSUME NEW p \in Procs, h'[p].pc \notin Locking, h'[p].doom = {},
         \A k \in Kinds : lock'[k] # p,
         \A t \in Tokens : row'[t] = Absent \/ row'[t].by # p,
         h'[p].pc \in {"find", "lock"} => h'[p].kind \in Kinds,
         h'[p].pc = "authorize" => h'[p].token \in Tokens, Opened(p)'
  PROVE  Own(p)'
<1>1. LockHeld(p)'
  BY DEF LockHeld
<1>2. Writes(p)'
  BY DEF Writes, Locking
<1>3. Issues(p)'
  BY DEF Issues, Locking
<1>4. HasRoom(p)'
  BY DEF HasRoom, Locking
<1> QED BY <1>1, <1>2, <1>3, <1>4 DEF Own

\* Only the descriptor of p changes.
Filed(p) ==
  /\ fd' \in [Procs -> {"none", "own", "stream"}]
  /\ \A q \in Procs \ {p} : fd'[q] = fd[q]

\* The step of one request, once what it does to the tables is known.
LEMMA RequestStep ==
  ASSUME DInv, DownloadsFit, NEW p \in Procs, Moved(p), Filed(p), Own(p)',
         row' \in [Tokens -> Row \cup {Absent}],
         lock' \in [Kinds -> Procs \cup {None}], made' \in 0..MaxTokens,
         used' \in [Tokens -> Nat], Once', Bounded', OnePerFile',
         \A q \in Procs \ {p} : RowsKept(q) /\ LocksKept(q),
         prepares' = prepares + One(Prepares(h'[p])) - One(Prepares(h[p])),
         \/ made' + One(Counts(h'[p])) <= made + One(Counts(h[p]))
         \/ made' = made /\ made + Cardinality(Issuing) < MaxTokens
  PROVE  DInv'
<1>1. Enough' /\ PreparesCounted' /\ prepares' \in Int
  BY Tally DEF DownloadsFit
<1>2. Types'
  BY <1>1 DEF Types, Moved, Filed
<1>3. ASSUME NEW q \in Procs
      PROVE  Own(q)'
  <2>1. CASE q = p
    BY <2>1
  <2>2. CASE q # p
    <3>1. Stays(q) /\ fd'[q] = fd[q]
      BY <2>2 DEF Moved, Filed, Stays
    <3> QED BY <2>2, <3>1, OtherKept
  <2> QED BY <2>1, <2>2
<1> QED BY <1>1, <1>2, <1>3 DEF DInv

\* The step of one request that leaves the tables alone.
LEMMA LightStep ==
  ASSUME DInv, DownloadsFit, NEW p \in Procs, Moved(p), Filed(p), Tables,
         used' = used, Own(p)',
         prepares' = prepares + One(Prepares(h'[p])) - One(Prepares(h[p])),
         \/ One(Counts(h'[p])) <= One(Counts(h[p]))
         \/ made + Cardinality(Issuing) < MaxTokens
  PROVE  DInv'
<1>1. row' = row /\ lock' = lock /\ made' = made /\ Types
  BY DEF Tables, DInv
<1>2. /\ row' \in [Tokens -> Row \cup {Absent}]
      /\ lock' \in [Kinds -> Procs \cup {None}]
      /\ made' \in 0..MaxTokens /\ used' \in [Tokens -> Nat]
  BY <1>1 DEF Types
<1>3. \/ made' + One(Counts(h'[p])) <= made + One(Counts(h[p]))
      \/ made' = made /\ made + Cardinality(Issuing) < MaxTokens
  <2>1. made \in Int
    BY <1>1 DEF Types
  <2>2. One(Counts(h'[p])) \in Int /\ One(Counts(h[p])) \in Int
    BY DEF One
  <2> QED BY <1>1, <2>1, <2>2
<1>4. Once'
  BY <1>1 DEF DInv, Once
<1>5. Bounded' /\ OnePerFile'
  BY <1>1, SameRows, LimitsKept
<1>6. \A q \in Procs \ {p} : RowsKept(q) /\ LocksKept(q)
  BY <1>1, SameRows DEF LocksKept
<1> QED BY <1>2, <1>3, <1>4, <1>5, <1>6, RequestStep
----------------------------------------------------------------------------
\* Outside of its transaction a request holds nothing of the tables.
LEMMA Outside ==
  ASSUME DInv, NEW p \in Procs, h[p].pc \notin Locking
  PROVE  /\ h[p].doom = {} /\ \A k \in Kinds : lock[k] # p
         /\ \A t \in Tokens : row[t] = Absent \/ row[t].by # p
<1>1. LockHeld(p) /\ Writes(p)
  BY DEF DInv, Own
<1> QED BY <1>1 DEF LockHeld, Writes, Locking

\* A request goes on, or answers, and nobody else moves.
LEMMA GotoFacts ==
  ASSUME Types, NEW p \in Procs, NEW l \in Labels, Goto(p, l)
  PROVE  /\ Moved(p) /\ h'[p].pc = l
         /\ h'[p].kind = h[p].kind /\ h'[p].user = h[p].user
         /\ h'[p].item = h[p].item /\ h'[p].token = h[p].token
         /\ h'[p].doom = h[p].doom
<1>1. h[p] \in Handler
  BY DEF Types
<1>2. h'[p] = [h[p] EXCEPT !.pc = l]
  BY DEF Types, Goto
<1>3. h'[p] \in Handler
  BY <1>1, <1>2 DEF Handler
<1>4. h' \in [Procs -> Handler] /\ \A q \in Procs \ {p} : h'[q] = h[q]
  BY <1>3 DEF Types, Goto
<1> QED BY <1>1, <1>2, <1>4 DEF Handler, Moved

\* A request that hands its file over streams, and nobody else moves.
LEMMA HandOverFacts ==
  ASSUME Types, NEW p \in Procs, HandOver(p)
  PROVE  /\ Moved(p) /\ h'[p].pc = "stream" /\ h'[p].doom = h[p].doom
         /\ h'[p].on \/ h'[p].late
<1> DEFINE e == [h[p] EXCEPT !.pc = "stream", !.late = ~h[p].on]
<1>1. h[p] \in Handler
  BY DEF Types
<1>2. e \in Handler /\ e.pc = "stream" /\ e.doom = h[p].doom
  BY <1>1 DEF Handler, Labels
<1>3. e.on \/ e.late
  BY <1>1 DEF Handler
<1>4. h' = [h EXCEPT ![p] = e]
  BY DEF HandOver, Types
<1> HIDE DEF e
<1>5. h' \in [Procs -> Handler] /\ h'[p] = e
      /\ \A q \in Procs \ {p} : h'[q] = h[q]
  BY <1>2, <1>4 DEF Types
<1> QED BY <1>2, <1>3, <1>5 DEF Moved

\* A request that answers is idle, and nobody else moves.
LEMMA AnswerFacts ==
  ASSUME Types, NEW p \in Procs, Answer(p)
  PROVE  Moved(p) /\ h'[p].pc = "idle" /\ h'[p].doom = {}
<1> DEFINE e == [h[p] EXCEPT !.pc = "idle", !.token = 0, !.doom = {},
                             !.on = FALSE, !.late = FALSE]
<1>1. h[p] \in Handler
  BY DEF Types
<1>2. e \in Handler /\ e.pc = "idle" /\ e.doom = {}
  BY <1>1 DEF Handler, Labels
<1>3. h' = [h EXCEPT ![p] = e]
  BY DEF Answer, Types
<1> HIDE DEF e
<1>4. h' \in [Procs -> Handler] /\ h'[p] = e
      /\ \A q \in Procs \ {p} : h'[q] = h[q]
  BY <1>2, <1>3 DEF Types
<1> QED BY <1>2, <1>4 DEF Moved

\* What a request asked with is a handler.
LEMMA AskedFacts ==
  ASSUME Types, NEW p \in Procs, NEW e \in Handler, h' = [h EXCEPT ![p] = e]
  PROVE  Moved(p) /\ h'[p] = e
BY DEF Types, Moved

\* Whom a step of the descriptors leaves alone.
LEMMA FiledFacts ==
  ASSUME Types, NEW p \in Procs, NEW d \in {"none", "own", "stream"},
         fd' = [fd EXCEPT ![p] = d]
  PROVE  Filed(p) /\ fd'[p] = d
BY DEF Types, Filed

\* Nor does a step that opens and closes nothing.
LEMMA SameFiled ==
  ASSUME Types, NEW p \in Procs, fd' = fd
  PROVE  Filed(p) /\ fd'[p] = fd[p]
BY DEF Types, Filed

\* A request outside of its transaction ends outside of it, and none is
\* counted that was not.
LEMMA QuietStep ==
  ASSUME DInv, DownloadsFit, NEW p \in Procs, Moved(p), Filed(p), Tables,
         used' = used, h[p].pc \notin Locking, h'[p].pc \notin Locking,
         h'[p].doom = {}, ~Counts(h'[p]),
         prepares' = prepares - One(Prepares(h[p])),
         h'[p].pc = "authorize" => h'[p].token \in Tokens, Opened(p)'
  PROVE  DInv'
<1>1. row' = row /\ lock' = lock /\ prepares \in Int
  BY DEF Tables, DInv, Types
<1>2. ~Prepares(h'[p]) /\ h'[p].pc \notin {"find", "lock"}
  BY DEF Prepares, Counts, Locking
<1>3. Own(p)'
  BY <1>1, <1>2, Outside, Quiet
<1>4. One(Counts(h'[p])) <= One(Counts(h[p]))
  BY DEF One
<1>5. prepares' = prepares + One(Prepares(h'[p])) - One(Prepares(h[p]))
  BY <1>1, <1>2 DEF One
<1> QED BY <1>3, <1>4, <1>5, LightStep

\* A request begins that issues nothing.
LEMMA Begins ==
  ASSUME DInv, DownloadsFit, NEW p \in Procs, NEW e \in Handler, At(p, "idle"),
         h' = [h EXCEPT ![p] = e], Tables, Work,
         e.pc \in {"authorize", "file", "public"}, e.doom = {},
         e.pc = "authorize" => e.token \in Tokens
  PROVE  DInv'
<1>1. Types /\ Opened(p) /\ prepares \in Int
  BY DEF DInv, Own, Types
<1>2. Moved(p) /\ h'[p] = e
  BY <1>1, AskedFacts
<1>3. Filed(p) /\ fd'[p] = fd[p] /\ used' = used /\ prepares' = prepares
  BY <1>1, SameFiled DEF Work
<1>4. Opened(p)'
  BY <1>1, <1>2, <1>3 DEF Opened, At
<1>5. h[p].pc \notin Locking /\ h'[p].pc \notin Locking /\ ~Counts(h'[p])
  BY <1>2 DEF At, Locking, Counts
<1>6. prepares' = prepares - One(Prepares(h[p]))
  BY <1>1, <1>3 DEF One, Prepares, At
<1> QED BY <1>2, <1>3, <1>4, <1>5, <1>6, QuietStep

\* A cookie arrives.
LEMMA FetchStep ==
  ASSUME DInv, DownloadsFit, NEW p \in Procs, NEW t \in Tokens,
         NEW get \in BOOLEAN, Fetch(p, t, get)
  PROVE  DInv'
<1> DEFINE e == [pc |-> "authorize", kind |-> row[t].kind,
                 user |-> row[t].user, item |-> row[t].item, token |-> t,
                 doom |-> {}, get |-> get, on |-> TRUE,
                 late |-> FALSE]
<1>1. row[t] \in Row
  BY DEF Fetch, DInv, Types
<1>2. e \in Handler /\ e.pc = "authorize" /\ e.doom = {} /\ e.token = t
  BY <1>1 DEF Handler, Labels, Row
<1>3. h' = [h EXCEPT ![p] = e] /\ At(p, "idle") /\ Tables /\ Work
  BY DEF Fetch
<1> HIDE DEF e
<1> QED BY <1>2, <1>3, Begins

\* A download with a bearer token, and one of the public, begin.
LEMMA DownloadStep ==
  ASSUME DInv, DownloadsFit, NEW p \in Procs, NEW f \in Files,
         NEW get \in BOOLEAN, Download(p, f, get)
  PROVE  DInv'
<1> DEFINE e == [pc |-> "file", kind |-> "public", user |-> Owner[f],
                 item |-> f, token |-> 0, doom |-> {}, get |-> get,
                 on |-> TRUE, late |-> FALSE]
<1>1. e \in Handler /\ e.pc = "file" /\ e.doom = {}
  BY DEF Handler, Labels, DownloadsFit
<1>2. h' = [h EXCEPT ![p] = e] /\ At(p, "idle") /\ Tables /\ Work
  BY DEF Download
<1> HIDE DEF e
<1> QED BY <1>1, <1>2, Begins

\* A download through a share link.
LEMMA PublicDownloadStep ==
  ASSUME DInv, DownloadsFit, NEW p \in Procs, NEW f \in Files,
         PublicDownload(p, f)
  PROVE  DInv'
<1> DEFINE e == [pc |-> "public", kind |-> "public", user |-> Owner[f],
                 item |-> f, token |-> 0, doom |-> {}, get |-> TRUE,
                 on |-> TRUE, late |-> FALSE]
<1>1. e \in Handler /\ e.pc = "public" /\ e.doom = {}
  BY DEF Handler, Labels, DownloadsFit
<1>2. h' = [h EXCEPT ![p] = e] /\ At(p, "idle") /\ Tables /\ Work
  BY DEF PublicDownload
<1> HIDE DEF e
<1> QED BY <1>1, <1>2, Begins

\* A request that serves a file: it answers, or goes on with it open.
LEMMA Serves ==
  ASSUME DInv, DownloadsFit, NEW p \in Procs, Tables, prepares' = prepares,
         used' = used, h[p].pc \in {"file", "public", "admit", "stream"},
         NEW d \in {"none", "own", "stream"}, fd' = [fd EXCEPT ![p] = d],
         \/ Answer(p) /\ d = "none"
         \/ HandOver(p) /\ d = "stream"
         \/ Goto(p, "admit") /\ d = "own"
  PROVE  DInv'
<1>1. Types /\ prepares \in Int
  BY DEF DInv, Types
<1>2. Filed(p) /\ fd'[p] = d
  BY <1>1, FiledFacts
<1>3. h[p].pc \notin Locking /\ h[p].doom = {}
  BY Outside DEF Locking
<1>4. /\ Moved(p) /\ h'[p].doom = {}
      /\ \/ h'[p].pc = "idle" /\ d = "none"
         \/ h'[p].pc = "stream" /\ d = "stream" /\ (h'[p].on \/ h'[p].late)
         \/ h'[p].pc = "admit" /\ d = "own"
  BY <1>1, <1>3, AnswerFacts, GotoFacts, HandOverFacts DEF Labels
<1>5. Opened(p)'
  BY <1>2, <1>4 DEF Opened
<1>6. h'[p].pc \notin Locking /\ ~Counts(h'[p]) /\ h'[p].pc # "authorize"
  BY <1>4 DEF Locking, Counts
<1>7. prepares' = prepares - One(Prepares(h[p]))
  BY <1>1 DEF One, Prepares
<1> QED BY <1>2, <1>3, <1>4, <1>5, <1>6, <1>7, QuietStep

\* The file is opened, handed to a stream, sent, or closed.
LEMMA ServingStep ==
  ASSUME DInv, DownloadsFit, NEW p \in Procs,
         Serve(p) \/ OpenPublic(p) \/ Admit(p) \/ EndStream(p)
  PROVE  DInv'
<1>1. /\ h[p].pc \in {"file", "public", "admit", "stream"}
      /\ Tables /\ prepares' = prepares /\ used' = used
  BY DEF Serve, OpenPublic, Admit, EndStream, At
<1>2. fd[p] = "none" => fd = [fd EXCEPT ![p] = "none"]
  BY DEF DInv, Types
<1>3. h[p].pc \in {"file", "public"} => fd[p] = "none"
  BY DEF DInv, Own, Opened
<1>4. \E d \in {"none", "own", "stream"} :
        /\ fd' = [fd EXCEPT ![p] = d]
        /\ \/ Answer(p) /\ d = "none"
           \/ HandOver(p) /\ d = "stream"
           \/ Goto(p, "admit") /\ d = "own"
  BY <1>2, <1>3 DEF Serve, OpenPublic, Admit, EndStream, At, Unstreamed,
                    HandOver
<1> QED BY <1>1, <1>4, Serves

\* The client of a request goes away.
LEMMA DisconnectStep ==
  ASSUME DInv, DownloadsFit, NEW p \in Procs, Disconnect(p)
  PROVE  DInv'
<1>1. Types /\ Opened(p) /\ prepares \in Int
  BY DEF DInv, Own, Types
<1>2. Tables /\ prepares' = prepares /\ used' = used
  BY DEF Disconnect
<1>3. CASE At(p, "stream")
  <2>1. fd' = [fd EXCEPT ![p] = "none"] /\ Answer(p)
    BY <1>1, <1>3 DEF Disconnect, OnClose, Opened, At
  <2>2. h[p].pc \in {"file", "public", "admit", "stream"}
    BY <1>3 DEF At
  <2> QED BY <1>2, <2>1, <2>2, Serves
<1>4. CASE ~At(p, "stream")
  <2> DEFINE e == [h[p] EXCEPT !.on = FALSE]
  <2>1. h[p] \in Handler
    BY <1>1 DEF Types
  <2>2. /\ e \in Handler /\ e.pc = h[p].pc /\ e.kind = h[p].kind
        /\ e.user = h[p].user /\ e.item = h[p].item
        /\ e.token = h[p].token /\ e.doom = h[p].doom
    BY <2>1 DEF Handler
  <2>3. h' = [h EXCEPT ![p] = e] /\ fd' = [fd EXCEPT ![p] = OnClose(p)]
    BY <1>1, <1>4 DEF Disconnect, Types
  <2> HIDE DEF e
  <2>4. fd' = fd
    BY <1>1, <1>4, <2>3 DEF OnClose, Opened, At, Types
  <2>5. Moved(p) /\ h'[p] = e
    BY <1>1, <2>2, <2>3, AskedFacts
  <2>6. Filed(p) /\ fd'[p] = fd[p]
    BY <1>1, <2>4, SameFiled
  <2>7. Stays(p)
    BY <1>4, <2>2, <2>5 DEF Stays, At
  <2>8. RowsKept(p) /\ LocksKept(p)
    BY <1>2, SameRows DEF Tables, LocksKept
  <2>9. Own(p)'
    BY <2>6, <2>7, <2>8, OtherKept
  <2>10. /\ One(Counts(h'[p])) <= One(Counts(h[p]))
         /\ prepares' = prepares + One(Prepares(h'[p])) - One(Prepares(h[p]))
    BY <1>1, <1>2, <2>7 DEF Stays, Counts, Prepares, One
  <2> QED BY <1>2, <2>5, <2>6, <2>9, <2>10, LightStep
<1> QED BY <1>3, <1>4

\* Nothing moves that the invariant speaks of.
LEMMA Still ==
  ASSUME DInv, DownloadsFit,
         UNCHANGED <<row, lock, prepares, h, fd, made, used>>
  PROVE  DInv'
<1>1. Types' /\ Once' /\ Enough' /\ Bounded' /\ OnePerFile' /\ PreparesCounted'
  BY DEF DInv, Types, Once, Enough, Issuing, Bounded, OnePerFile,
         PreparesCounted, Pending, Mine
<1>2. ASSUME NEW p \in Procs
      PROVE  Own(p)'
  BY SameRows, OtherKept DEF Stays, LocksKept
<1> QED BY <1>1, <1>2 DEF DInv

\* A capability is asked for, if there is room to prepare it.
LEMMA PrepareStep ==
  ASSUME DInv, DownloadsFit, NEW p \in Procs, NEW k \in Kinds, NEW f \in Files,
         Prepare(p, k, f)
  PROVE  DInv'
<1>1. CASE ~Room(k)
  BY <1>1, Still DEF Prepare, Tables
<1>2. CASE Room(k)
  <2> DEFINE e == [pc |-> "find", kind |-> k, user |-> Owner[f], item |-> f,
                   token |-> 0, doom |-> {}, get |-> FALSE, on |-> TRUE,
                   late |-> FALSE]
  <2>1. Types /\ Opened(p) /\ prepares \in Int
    BY DEF DInv, Own, Types
  <2>2. e \in Handler /\ e.pc = "find" /\ e.doom = {} /\ e.kind = k
    BY DEF Handler, Labels, DownloadsFit
  <2>3. h' = [h EXCEPT ![p] = e]
    BY <1>2 DEF Prepare
  <2> HIDE DEF e
  <2>4. /\ Tables /\ fd' = fd /\ used' = used /\ At(p, "idle")
        /\ made + Cardinality(Issuing) < MaxTokens
        /\ prepares' = prepares + (IF k = "archive" THEN 1 ELSE 0)
    BY <1>2 DEF Prepare
  <2>5. Moved(p) /\ h'[p] = e
    BY <2>1, <2>2, <2>3, AskedFacts
  <2>6. Filed(p) /\ fd'[p] = fd[p]
    BY <2>1, <2>4, SameFiled
  <2>7. Opened(p)'
    BY <2>1, <2>2, <2>4, <2>5, <2>6 DEF Opened, At
  <2>8. Own(p)'
    <3>1. h[p].pc \notin Locking /\ h'[p].pc \notin Locking
      BY <2>2, <2>4, <2>5 DEF At, Locking
    <3>2. row' = row /\ lock' = lock
      BY <2>4 DEF Tables
    <3> QED BY <2>2, <2>5, <2>7, <3>1, <3>2, Outside, Quiet
  <2>9. prepares' = prepares + One(Prepares(h'[p])) - One(Prepares(h[p]))
    BY <2>1, <2>2, <2>4, <2>5 DEF One, Prepares, At
  <2> QED BY <2>4, <2>5, <2>6, <2>8, <2>9, LightStep
<1> QED BY <1>1, <1>2

\* Its item is found, or the request ends.
LEMMA FindItemStep ==
  ASSUME DInv, DownloadsFit, NEW p \in Procs, FindItem(p)
  PROVE  DInv'
<1>1. Types /\ Opened(p) /\ Issues(p) /\ prepares \in Int
  BY DEF DInv, Own, Types
<1>2. /\ Tables /\ fd' = fd /\ used' = used /\ h[p].pc = "find"
      /\ row' = row /\ lock' = lock
  BY DEF FindItem, Tables, At
<1>3. h[p].pc \notin Locking
  BY <1>2 DEF Locking
<1>4. Filed(p) /\ fd'[p] = fd[p]
  BY <1>1, <1>2, SameFiled
<1>5. CASE Goto(p, "lock") /\ prepares' = prepares
  <2>1. /\ Moved(p) /\ h'[p].pc = "lock" /\ h'[p].kind = h[p].kind
        /\ h'[p].doom = {}
    BY <1>1, <1>3, <1>5, Outside, GotoFacts DEF Labels
  <2>2. Opened(p)'
    BY <1>1, <1>2, <1>4, <2>1 DEF Opened
  <2>3. Own(p)'
    <3>1. h'[p].pc \notin Locking
      BY <2>1 DEF Locking
    <3> QED BY <1>1, <1>2, <1>3, <2>1, <2>2, <3>1, Outside, Quiet DEF Issues
  <2>4. /\ One(Counts(h'[p])) <= One(Counts(h[p]))
        /\ prepares' = prepares + One(Prepares(h'[p])) - One(Prepares(h[p]))
    BY <1>1, <1>2, <1>5, <2>1 DEF Counts, Prepares, One
  <2> QED BY <1>2, <1>4, <2>1, <2>3, <2>4, LightStep
<1>6. CASE Answer(p) /\ Prepared(p)
  <2>1. Moved(p) /\ h'[p].pc = "idle" /\ h'[p].doom = {}
    BY <1>1, <1>6, AnswerFacts
  <2>2. Opened(p)'
    BY <1>1, <1>2, <1>4, <2>1 DEF Opened
  <2>3. ~Counts(h'[p]) /\ h'[p].pc \notin Locking
    BY <2>1 DEF Counts, Locking
  <2>4. prepares' = prepares - One(Prepares(h[p]))
    BY <1>2, <1>6 DEF Prepared, Prepares, One
  <2> QED BY <1>2, <1>3, <1>4, <2>1, <2>2, <2>3, <2>4, QuietStep
<1> QED BY <1>5, <1>6 DEF FindItem

----------------------------------------------------------------------------
\* In its transaction a request has the lock of its kind, alone.
LEMMA Inside ==
  ASSUME DInv, NEW p \in Procs, h[p].pc \in Locking
  PROVE  /\ h[p].kind \in Kinds /\ lock[h[p].kind] = p
         /\ \A q \in Procs \ {p} : h[q].pc \in Locking => h[q].kind # h[p].kind
         /\ \A q \in Procs \ {p} : h[q].doom \cap h[p].doom = {}
<1>1. \A q \in Procs : LockHeld(q) /\ Writes(q)
  BY DEF DInv, Own
<1>2. h[p].kind \in Kinds /\ lock[h[p].kind] = p
  BY <1>1 DEF LockHeld
<1>3. \A q \in Procs \ {p} : h[q].pc \in Locking => h[q].kind # h[p].kind
  BY <1>1, <1>2 DEF LockHeld
<1>4. \A q \in Procs \ {p} : h[q].doom \cap h[p].doom = {}
  <2> SUFFICES ASSUME NEW q \in Procs \ {p}, NEW t \in h[q].doom,
                      t \in h[p].doom
               PROVE  FALSE
    OBVIOUS
  <2>1. row[t].kind = h[q].kind /\ row[t].kind = h[p].kind
    BY <1>1 DEF Writes
  <2>2. h[q].doom # {} => h[q].pc \in Locking
    BY <1>1 DEF Writes
  <2> QED BY <1>3, <2>1, <2>2
<1> QED BY <1>2, <1>3, <1>4

\* The issue gets the lock of its kind.
LEMMA LockStep ==
  ASSUME DInv, DownloadsFit, NEW p \in Procs, Lock(p)
  PROVE  DInv'
<1> DEFINE k == h[p].kind
<1>1. /\ Types /\ Issues(p) /\ Opened(p) /\ LockHeld(p) /\ prepares \in Int
      /\ made \in Int /\ Once
  BY DEF DInv, Own, Types
<1>2. /\ h[p].pc = "lock" /\ k \in Kinds /\ lock[k] = None
      /\ lock' = [lock EXCEPT ![k] = p] /\ Goto(p, "purge")
      /\ row' = row /\ made' = made
      /\ prepares' = prepares /\ fd' = fd /\ used' = used
  BY <1>1 DEF Lock, At, Granted, Work, Issues
<1>3. h[p].pc \notin Locking /\ h[p].doom = {}
      /\ \A j \in Kinds : lock[j] # p
  BY <1>2, Outside DEF Locking
<1>5. /\ Moved(p) /\ h'[p].pc = "purge" /\ h'[p].kind = k
      /\ h'[p].doom = {}
  BY <1>1, <1>2, <1>3, GotoFacts DEF Labels
<1>6. Filed(p) /\ fd'[p] = fd[p]
  BY <1>1, <1>2, SameFiled
<1>7. lock' \in [Kinds -> Procs \cup {None}] /\ lock'[k] = p
      /\ \A j \in Kinds \ {k} : lock'[j] = lock[j]
  BY <1>1, <1>2 DEF Types
<1>8. \A q \in Procs \ {p} : RowsKept(q) /\ LocksKept(q)
  <2>1. \A q \in Procs : RowsKept(q)
    BY <1>2, SameRows
  <2>2. \A q \in Procs \ {p} : LocksKept(q)
    BY <1>2, <1>7 DEF LocksKept, DownloadsFit
  <2> QED BY <2>1, <2>2
<1>9. Own(p)'
  <2>1. LockHeld(p)'
    BY <1>2, <1>3, <1>5, <1>7 DEF LockHeld, Locking
  <2>2. Writes(p)'
    BY <1>2, <1>3, <1>5, Outside DEF Writes
  <2>3. Issues(p)'
    BY <1>5 DEF Issues
  <2>4. HasRoom(p)'
    BY <1>5 DEF HasRoom
  <2>5. Opened(p)'
    BY <1>1, <1>2, <1>5, <1>6 DEF Opened
  <2> QED BY <2>1, <2>2, <2>3, <2>4, <2>5 DEF Own
<1>10. Once'
  BY <1>1, <1>2 DEF Once
<1>11. Bounded' /\ OnePerFile'
  BY <1>2, SameRows, LimitsKept
<1>12. /\ made' + One(Counts(h'[p])) <= made + One(Counts(h[p]))
       /\ prepares' = prepares + One(Prepares(h'[p])) - One(Prepares(h[p]))
  BY <1>1, <1>2, <1>5 DEF Counts, Prepares, One
<1>13. row' \in [Tokens -> Row \cup {Absent}] /\ made' \in 0..MaxTokens
       /\ used' \in [Tokens -> Nat]
  BY <1>1, <1>2 DEF Types
<1> HIDE DEF k
<1> QED
  BY <1>5, <1>6, <1>7, <1>8, <1>9, <1>10, <1>11, <1>12, <1>13, RequestStep

\* A statement of a transaction that writes no row and stays in it.
LEMMA Inner ==
  ASSUME DInv, DownloadsFit, NEW p \in Procs, Moved(p), Tables, Work,
         h[p].pc \in {"purge", "drop", "count"},
         h'[p].pc \in {"drop", "count", "insert"},
         h'[p].kind = h[p].kind, h'[p].user = h[p].user, h'[p].item = h[p].item,
         h'[p].pc = "drop" <=> h[p].pc = "purge" /\ h[p].kind = "file",
         \A t \in h'[p].doom :
           row[t] # Absent /\ row[t].by = None /\ row[t].kind = h[p].kind,
         HasRoom(p)'
  PROVE  DInv'
<1>1. /\ Types /\ Issues(p) /\ Opened(p) /\ LockHeld(p) /\ Writes(p)
      /\ prepares \in Int
  BY DEF DInv, Own, Types
<1>2. row' = row /\ lock' = lock /\ prepares' = prepares /\ fd' = fd
      /\ used' = used
  BY DEF Tables, Work
<1>3. Filed(p) /\ fd'[p] = fd[p]
  BY <1>1, <1>2, SameFiled
<1>4. LockHeld(p)'
  BY <1>1, <1>2 DEF LockHeld, Locking
<1>5. Writes(p)'
  BY <1>1, <1>2 DEF Writes, Locking
<1>6. Issues(p)'
  BY DEF Issues
<1>7. Opened(p)'
  BY <1>1, <1>3 DEF Opened
<1>8. Own(p)'
  BY <1>4, <1>5, <1>6, <1>7 DEF Own
<1>9. /\ One(Counts(h'[p])) <= One(Counts(h[p]))
      /\ prepares' = prepares + One(Prepares(h'[p])) - One(Prepares(h[p]))
  <2>1. Counts(h[p]) /\ Counts(h'[p])
    BY DEF Counts
  <2>2. Prepares(h[p]) <=> Prepares(h'[p])
    BY <1>1 DEF Prepares, Issues
  <2> QED BY <1>1, <1>2, <2>1, <2>2 DEF One
<1> QED BY <1>2, <1>3, <1>8, <1>9, LightStep

\* It deletes what has expired.
LEMMA PurgeStep ==
  ASSUME DInv, DownloadsFit, NEW p \in Procs, Purge(p)
  PROVE  DInv'
<1> DEFINE S == {t \in Pending(h[p].kind) : row[t].old}
           l == IF h[p].kind = "file" THEN "drop" ELSE "count"
           e == [h[p] EXCEPT !.doom = S, !.pc = l]
<1>1. Types /\ h[p] \in Handler
  BY DEF DInv, Types
<1>2. S \in SUBSET Tokens
  BY DEF Pending
<1>3. \A t \in S :
        row[t] # Absent /\ row[t].by = None /\ row[t].kind = h[p].kind
  BY DEF Pending
<1>4. l \in Labels /\ l \in {"drop", "count"}
      /\ (l = "drop" <=> h[p].kind = "file")
  BY DEF Labels
<1>5. h' = [h EXCEPT ![p].doom = S, ![p].pc = l] /\ h[p].pc = "purge"
      /\ Tables /\ Work
  BY DEF Purge, At
<1> HIDE DEF S, l
<1>6. /\ e \in Handler /\ e.pc = l /\ e.doom = S /\ e.kind = h[p].kind
      /\ e.user = h[p].user /\ e.item = h[p].item
  BY <1>1, <1>2, <1>4 DEF Handler
<1>7. h' = [h EXCEPT ![p] = e]
  BY <1>1, <1>5 DEF Types
<1> HIDE DEF e
<1>8. Moved(p) /\ h'[p] = e
  BY <1>1, <1>6, <1>7, AskedFacts
<1>9. HasRoom(p)'
  BY <1>4, <1>6, <1>8 DEF HasRoom
<1> QED BY <1>3, <1>4, <1>5, <1>6, <1>8, <1>9, Inner

\* It deletes the capability it replaces.
LEMMA DropStep ==
  ASSUME DInv, DownloadsFit, NEW p \in Procs, Drop(p)
  PROVE  DInv'
<1> DEFINE S == h[p].doom \cup SameFile(p)
           e == [h[p] EXCEPT !.doom = S, !.pc = "count"]
<1>1. Types /\ h[p] \in Handler /\ Issues(p) /\ Writes(p)
  BY DEF DInv, Own, Types
<1>2. h[p].pc = "drop" /\ h[p].kind = "file" /\ Tables /\ Work
  BY <1>1 DEF Drop, At, Issues
<1>3. S \in SUBSET Tokens
  BY <1>1 DEF SameFile, Mine, Pending, Handler
<1>4. \A t \in S :
        row[t] # Absent /\ row[t].by = None /\ row[t].kind = h[p].kind
  BY <1>1, <1>2 DEF SameFile, Mine, Pending, Writes
<1>5. h' = [h EXCEPT ![p].doom = S, ![p].pc = "count"]
  BY <1>1 DEF Drop, Types
<1>6. SameFile(p) \subseteq S
  OBVIOUS
<1> HIDE DEF S
<1>7. /\ e \in Handler /\ e.pc = "count" /\ e.doom = S /\ e.kind = h[p].kind
      /\ e.user = h[p].user /\ e.item = h[p].item
  BY <1>1, <1>3 DEF Handler, Labels
<1>8. h' = [h EXCEPT ![p] = e]
  BY <1>1, <1>5 DEF Types
<1> HIDE DEF e
<1>9. Moved(p) /\ h'[p] = e
  BY <1>1, <1>7, <1>8, AskedFacts
<1>10. SameFile(p)' = SameFile(p)
  BY <1>2, <1>7, <1>9 DEF SameFile, Mine, Pending, Tables
<1>11. HasRoom(p)'
  BY <1>6, <1>7, <1>9, <1>10 DEF HasRoom
<1> QED BY <1>2, <1>4, <1>7, <1>9, <1>11, Inner

----------------------------------------------------------------------------
\* A transaction that ends lets go of its own locks only.
LEMMA FreedFacts ==
  ASSUME DInv, DownloadsFit, NEW p \in Procs, lock' = Freed(p)
  PROVE  /\ lock' \in [Kinds -> Procs \cup {None}]
         /\ \A k \in Kinds : lock'[k] # p
         /\ \A q \in Procs \ {p} : LocksKept(q)
BY DEF DInv, Types, Freed, LocksKept, DownloadsFit

\* An issue ends without a token: only its own row goes.
LEMMA RollbackStep ==
  ASSUME DInv, DownloadsFit, NEW p \in Procs,
         h[p].pc \in {"lock", "purge", "drop", "count", "insert", "commit"},
         Rollback(p)
  PROVE  DInv'
<1>1. /\ Types /\ Issues(p) /\ Opened(p) /\ Once /\ prepares \in Int
      /\ made \in Int
  BY DEF DInv, Own, Types
<1>2. /\ made' = made /\ fd' = fd /\ used' = used /\ Answer(p) /\ Prepared(p)
      /\ lock' = Freed(p)
      /\ row' = [t \in Tokens |-> IF row[t] # Absent /\ row[t].by = p
                                  THEN Absent ELSE row[t]]
  BY DEF Rollback
<1>3. Moved(p) /\ h'[p].pc = "idle" /\ h'[p].doom = {}
  BY <1>1, <1>2, AnswerFacts
<1>4. Filed(p) /\ fd'[p] = fd[p]
  BY <1>1, <1>2, SameFiled
<1>5. /\ row' \in [Tokens -> Row \cup {Absent}]
      /\ \A t \in Tokens : row'[t] = Absent \/ row'[t].by # p
      /\ \A t \in Tokens : row'[t] = row[t] \/ row'[t] = Absent
      /\ \A t \in Tokens : row[t] # Absent /\ row[t].by # p => row'[t] = row[t]
  BY <1>1, <1>2 DEF Types
<1>6. \A k : NoneAppears(k)
  BY <1>5 DEF NoneAppears, PendingNext, Pending
<1>7. \A q \in Procs \ {p} : RowsKept(q)
  <2> SUFFICES ASSUME NEW q \in Procs \ {p}
               PROVE  RowsKept(q)
    OBVIOUS
  <2>1. Writes(q) /\ h[q].doom \subseteq Tokens
    BY DEF DInv, Own, Types, Handler
  <2>2. \A t \in h[q].doom : row'[t] = row[t]
    BY <1>5, <2>1 DEF Writes, DownloadsFit
  <2>3. \A t \in Tokens :
          \/ row[t] # Absent /\ row[t].by = q
          \/ row'[t] # Absent /\ row'[t].by = q
          => row'[t] = row[t]
    BY <1>5
  <2> QED BY <1>6, <2>1, <2>2, <2>3 DEF RowsKept, Writes
<1>8. /\ lock' \in [Kinds -> Procs \cup {None}]
      /\ \A k \in Kinds : lock'[k] # p
      /\ \A q \in Procs \ {p} : LocksKept(q)
  BY <1>2, FreedFacts
<1>9. Opened(p)'
  BY <1>1, <1>3, <1>4 DEF Opened
<1>10. Own(p)'
  BY <1>3, <1>5, <1>8, <1>9, Quiet DEF Locking
<1>11. Once'
  BY <1>1, <1>2, <1>5 DEF Once
<1>12. Bounded' /\ OnePerFile'
  BY <1>6, LimitsKept
<1>13. /\ made' + One(Counts(h'[p])) <= made + One(Counts(h[p]))
       /\ prepares' = prepares + One(Prepares(h'[p])) - One(Prepares(h[p]))
  <2>1. ~Counts(h'[p]) /\ ~Prepares(h'[p])
    BY <1>3 DEF Counts, Prepares
  <2>2. Prepares(h[p]) <=> h[p].kind = "archive"
    BY <1>1 DEF Prepares, Issues
  <2> QED BY <1>1, <1>2, <2>1, <2>2 DEF One, Prepared
<1>14. made' \in 0..MaxTokens /\ used' \in [Tokens -> Nat]
  BY <1>1, <1>2 DEF Types
<1> QED
  BY <1>3, <1>4, <1>5, <1>7, <1>8, <1>10, <1>11, <1>12, <1>13, <1>14,
     RequestStep

\* Its connection is lost.
LEMMA LoseConnectionStep ==
  ASSUME DInv, DownloadsFit, NEW p \in Procs, LoseConnection(p)
  PROVE  DInv'
BY RollbackStep DEF LoseConnection

\* It counts: there is room, or it ends.
LEMMA CountStep ==
  ASSUME DInv, DownloadsFit, NEW p \in Procs, Count(p)
  PROVE  DInv'
<1> DEFINE k == h[p].kind
           D == h[p].doom
           u == h[p].user
<1>1. h[p].pc = "count" /\ Types /\ Writes(p) /\ HasRoom(p)
  BY DEF Count, At, DInv, Own
<1>2. CASE Rollback(p)
  BY <1>1, <1>2, RollbackStep
<1>3. CASE /\ ~(\/ Cardinality(Pending(k) \ D) >= AllLimit[k]
                \/ Cardinality(Mine(k, u) \ D) >= OwnLimit[k])
           /\ Goto(p, "insert") /\ Tables /\ Work
  <2>1. k \in Kinds
    BY <1>1, Inside DEF Locking
  <2>2. /\ Moved(p) /\ h'[p].pc = "insert" /\ h'[p].kind = k
        /\ h'[p].user = u /\ h'[p].item = h[p].item /\ h'[p].doom = D
    BY <1>1, <1>3, GotoFacts DEF Labels
  <2>3. /\ Cardinality(Pending(k) \ D) \in Nat
        /\ Cardinality(Mine(k, u) \ D) \in Nat
    BY FiniteTables DEF Pending, Mine
  <2>4. OwnLimit[k] \in Nat /\ AllLimit[k] \in Nat
    BY <2>1, LimitsAreNumbers
  <2>5. /\ Cardinality(Pending(k) \ D) < AllLimit[k]
        /\ Cardinality(Mine(k, u) \ D) < OwnLimit[k]
    <3> HIDE DEF k, D, u
    <3> QED BY <1>3, <2>3, <2>4
  <2>6. row' = row
    BY <1>3 DEF Tables
  <2>7. \A j : Pending(j)' = Pending(j) /\ \A v : Mine(j, v)' = Mine(j, v)
    BY <2>6 DEF Pending, Mine
  <2>8. SameFile(p)' = SameFile(p)
    BY <2>2, <2>6 DEF SameFile, Mine, Pending
  <2>9. k = "file" => SameFile(p) \subseteq D
    BY <1>1 DEF HasRoom
  <2>10. HasRoom(p)'
    <3> HIDE DEF k, D, u
    <3> QED BY <2>2, <2>5, <2>7, <2>8, <2>9 DEF HasRoom
  <2>11. \A t \in h'[p].doom :
           row[t] # Absent /\ row[t].by = None /\ row[t].kind = h[p].kind
    BY <1>1, <2>2 DEF Writes
  <2> QED BY <1>1, <1>3, <2>2, <2>10, <2>11, Inner
<1> QED BY <1>2, <1>3 DEF Count

\* It inserts a row that nobody else sees yet.
LEMMA InsertStep ==
  ASSUME DInv, DownloadsFit, NEW p \in Procs, Insert(p)
  PROVE  DInv'
<1> DEFINE t0 == made + 1
           r0 == [kind |-> h[p].kind, by |-> p, user |-> h[p].user,
                  item |-> h[p].item, old |-> FALSE]
           e == [h[p] EXCEPT !.pc = "commit", !.token = t0]
<1>1. /\ Types /\ Issues(p) /\ Opened(p) /\ Once /\ prepares \in Int
      /\ LockHeld(p) /\ Writes(p) /\ HasRoom(p)
      /\ made \in Int /\ h[p] \in Handler /\ Enough
  BY DEF DInv, Own, Types
<1>2. /\ made' = t0 /\ row' = [row EXCEPT ![t0] = r0] /\ h[p].pc = "insert"
      /\ h' = [h EXCEPT ![p].pc = "commit", ![p].token = t0]
      /\ lock' = lock /\ prepares' = prepares /\ fd' = fd /\ used' = used
  BY DEF Insert, At, Work
<1>3. h[p].kind \in Kinds
  BY <1>2, Inside DEF Locking
<1>4. t0 \in Tokens /\ t0 <= MaxTokens
  <2>1. p \in Issuing
    BY <1>2 DEF Issuing
  <2>2. IsFiniteSet(Issuing)
    BY FS_Subset DEF Issuing, DownloadsFit
  <2>3. Cardinality(Issuing) \in Nat /\ Cardinality(Issuing) # 0
    BY <2>1, <2>2, FS_CardinalityType, FS_EmptySet
  <2>4. made \in Nat /\ MaxTokens \in Nat
    BY <1>1 DEF Types, DownloadsFit
  <2> QED BY <1>1, <2>3, <2>4 DEF Enough, Tokens
<1>5. row[t0] = Absent /\ used[t0] = 0
  BY <1>1, <1>4 DEF Once
<1>6. /\ r0 \in Row /\ r0.kind = h[p].kind /\ r0.by = p
      /\ r0.user = h[p].user /\ r0.item = h[p].item /\ r0 # Absent
  <2>1. r0 \in Row
    BY <1>1, <1>3 DEF Row, Handler
  <2>2. r0.kind # "none"
    BY <1>3 DEF DownloadsFit
  <2> QED BY <2>1, <2>2 DEF Absent
<1>7. h' = [h EXCEPT ![p] = e]
  BY <1>1, <1>2 DEF Types
<1>8. /\ e \in Handler /\ e.pc = "commit" /\ e.token = t0
      /\ e.kind = h[p].kind /\ e.user = h[p].user /\ e.item = h[p].item
      /\ e.doom = h[p].doom
  BY <1>1, <1>4 DEF Handler, Labels
<1> HIDE DEF e
<1>9. Moved(p) /\ h'[p] = e
  BY <1>1, <1>7, <1>8, AskedFacts
<1>10. Filed(p) /\ fd'[p] = fd[p]
  BY <1>1, <1>2, SameFiled
<1>11. /\ row' \in [Tokens -> Row \cup {Absent}] /\ row'[t0] = r0
       /\ \A t \in Tokens \ {t0} : row'[t] = row[t]
  <2> HIDE DEF r0, t0
  <2> QED BY <1>1, <1>2, <1>4, <1>6 DEF Types
<1>12. p # None
  BY DEF DownloadsFit
<1>13. \A k : NoneAppears(k)
  <2> HIDE DEF r0, t0
  <2> QED BY <1>6, <1>11, <1>12 DEF NoneAppears, PendingNext, Pending
<1>14. \A q \in Procs : \A t \in h[q].doom : t # t0 /\ t \in Tokens
  <2> HIDE DEF r0, t0
  <2> QED BY <1>5 DEF DInv, Own, Writes, Types, Handler
<1>15. \A q \in Procs \ {p} : RowsKept(q) /\ LocksKept(q)
  <2> HIDE DEF r0, t0
  <2> SUFFICES ASSUME NEW q \in Procs \ {p}
               PROVE  RowsKept(q) /\ LocksKept(q)
    OBVIOUS
  <2>1. Writes(q)
    BY DEF DInv, Own
  <2>2. \A t \in h[q].doom :
          row'[t] # Absent /\ row'[t].by = None /\ row'[t].kind = row[t].kind
    BY <1>11, <1>14, <2>1 DEF Writes
  <2>3. \A t \in Tokens :
          \/ row[t] # Absent /\ row[t].by = q
          \/ row'[t] # Absent /\ row'[t].by = q
          => row'[t] = row[t]
    BY <1>5, <1>6, <1>11
  <2> QED BY <1>2, <1>13, <2>2, <2>3 DEF RowsKept, LocksKept
<1>16. Own(p)'
  <2>1. LockHeld(p)'
    BY <1>1, <1>2, <1>8, <1>9 DEF LockHeld, Locking
  <2>2. Writes(p)'
    <3>1. \A t \in Tokens : row[t] # Absent => row[t].by # p
      BY <1>1, <1>2 DEF Writes
    <3>2. \A t \in Tokens : row'[t] # Absent /\ row'[t].by = p => t = t0
      BY <1>11, <3>1
    <3>3. \A t \in h[p].doom :
            row'[t] # Absent /\ row'[t].by = None /\ row'[t].kind = h[p].kind
      BY <1>1, <1>11, <1>14 DEF Writes
    <3>4. row'[t0] = [kind |-> e.kind, by |-> p, user |-> e.user,
                      item |-> e.item, old |-> FALSE]
      BY <1>8, <1>11
    <3>5. row'[t0] # Absent
      BY <1>6, <1>11
    <3> HIDE DEF r0, t0
    <3> QED
      BY <1>4, <1>8, <1>9, <3>2, <3>3, <3>4, <3>5 DEF Writes, Locking
  <2>3. Issues(p)'
    BY <1>8, <1>9 DEF Issues
  <2>4. HasRoom(p)'
    <3> DEFINE k == h[p].kind
               D == h[p].doom
               u == h[p].user
    <3>1. /\ Cardinality(PendingNext(k) \ D) <= Cardinality(Pending(k) \ D)
          /\ Cardinality(MineNext(k, u) \ D) <= Cardinality(Mine(k, u) \ D)
          /\ Cardinality(PendingNext(k) \ D) \in Nat
          /\ Cardinality(MineNext(k, u) \ D) \in Nat
      BY <1>13, Fewer
    <3>2. /\ Cardinality(Pending(k) \ D) \in Nat
          /\ Cardinality(Mine(k, u) \ D) \in Nat
      BY FiniteTables DEF Pending, Mine
    <3>3. OwnLimit[k] \in Nat /\ AllLimit[k] \in Nat
      BY <1>3, LimitsAreNumbers
    <3>4. /\ Cardinality(Pending(k) \ D) < AllLimit[k]
          /\ Cardinality(Mine(k, u) \ D) < OwnLimit[k]
          /\ k = "file" => SameFile(p) \subseteq D
      BY <1>1, <1>2 DEF HasRoom
    <3>5. \A j : /\ Pending(j)' = PendingNext(j)
                 /\ \A v : Mine(j, v)' = MineNext(j, v)
      BY DEF Pending, Mine, PendingNext, MineNext
    <3>6. SameFile(p)' = {t \in MineNext("file", u) : row'[t].item = h[p].item}
      BY <1>8, <1>9 DEF SameFile, Mine, MineNext, Pending, PendingNext
    <3>7. SameFile(p)' \subseteq SameFile(p)
      BY <1>13, <3>6 DEF NoneAppears, MineNext, SameFile, Mine
    <3>8. h'[p].kind = k /\ h'[p].user = u /\ h'[p].doom = D
      BY <1>8, <1>9
    <3> HIDE DEF k, D, u, r0, t0
    <3>9. /\ Cardinality(PendingNext(k) \ D) < AllLimit[k]
          /\ Cardinality(MineNext(k, u) \ D) < OwnLimit[k]
      BY <3>1, <3>2, <3>3, <3>4
    <3> QED BY <3>4, <3>5, <3>7, <3>8, <3>9 DEF HasRoom
  <2>5. Opened(p)'
    BY <1>1, <1>2, <1>8, <1>9, <1>10 DEF Opened
  <2> QED BY <2>1, <2>2, <2>3, <2>4, <2>5 DEF Own
<1>17. Once'
  <2>1. \A t \in Tokens : t > t0 => t > made /\ t # t0
    BY <1>1 DEF Tokens
  <2> HIDE DEF t0, r0
  <2> QED BY <1>1, <1>2, <1>5, <1>11, <2>1 DEF Once
<1>18. Bounded' /\ OnePerFile'
  BY <1>13, LimitsKept
<1>19. /\ made' + One(Counts(h'[p])) <= made + One(Counts(h[p]))
       /\ prepares' = prepares + One(Prepares(h'[p])) - One(Prepares(h[p]))
  <2>1. Counts(h[p]) /\ ~Counts(h'[p])
    BY <1>2, <1>8, <1>9 DEF Counts
  <2>2. Prepares(h[p]) <=> Prepares(h'[p])
    BY <1>2, <1>8, <1>9 DEF Prepares
  <2> QED BY <1>1, <1>2, <2>1, <2>2 DEF One
<1>20. /\ made' \in 0..MaxTokens /\ used' \in [Tokens -> Nat]
       /\ lock' \in [Kinds -> Procs \cup {None}]
  BY <1>1, <1>2, <1>4 DEF Types, Tokens
<1> QED
  <2> HIDE DEF t0, r0
  <2> QED
    BY <1>9, <1>10, <1>11, <1>15, <1>16, <1>17, <1>18, <1>19, <1>20,
       RequestStep

\* What a COMMIT makes of the table: the rows it deleted are gone, its own is
\* everyone's.
LEMMA Committed ==
  ASSUME DInv, DownloadsFit, NEW p \in Procs, h[p].pc = "commit",
         row' = [t \in Tokens |->
                   IF t \in h[p].doom THEN Absent
                   ELSE IF t = h[p].token THEN [row[t] EXCEPT !.by = None]
                   ELSE row[t]]
  PROVE  /\ row' \in [Tokens -> Row \cup {Absent}]
         /\ h[p].token \in Tokens /\ h[p].token \notin h[p].doom
         /\ row[h[p].token] # Absent /\ row[h[p].token].by = p
         /\ row'[h[p].token] # Absent /\ row'[h[p].token].by = None
         /\ row'[h[p].token].kind = h[p].kind
         /\ row'[h[p].token].user = h[p].user
         /\ row'[h[p].token].item = h[p].item
         /\ \A t \in h[p].doom : row'[t] = Absent
         /\ \A t \in Tokens : t \notin h[p].doom /\ t # h[p].token =>
              row'[t] = row[t]
<1> DEFINE t0 == h[p].token
           D == h[p].doom
           r == [row[t0] EXCEPT !.by = None]
<1>1. Writes(p) /\ Types /\ h[p] \in Handler
  BY DEF DInv, Own, Types
<1>2. t0 \in Tokens /\ row[t0] # Absent /\ row[t0].by = p
      /\ row[t0].kind = h[p].kind /\ row[t0].user = h[p].user
      /\ row[t0].item = h[p].item
  BY <1>1 DEF Writes
<1>3. t0 \notin D /\ D \subseteq Tokens
  BY <1>1, <1>2 DEF Writes, DownloadsFit, Handler
<1>4. row[t0] \in Row /\ h[p].kind \in Kinds
  BY <1>1, <1>2, Inside DEF Types, Locking
<1>5. /\ r \in Row /\ r.by = None /\ r.kind = h[p].kind
      /\ r.user = h[p].user /\ r.item = h[p].item
  BY <1>2, <1>4 DEF Row
<1>6. r # Absent
  BY <1>4, <1>5 DEF Absent, DownloadsFit
<1>7. row' = [t \in Tokens |->
                IF t \in D THEN Absent ELSE IF t = t0 THEN r ELSE row[t]]
  OBVIOUS
<1>8. row'[t0] = r
  BY <1>2, <1>3, <1>7
<1>9. row' \in [Tokens -> Row \cup {Absent}]
  <2> HIDE DEF r, D, t0
  <2> QED BY <1>1, <1>5, <1>7 DEF Types
<1>10. \A t \in D : row'[t] = Absent
  BY <1>3, <1>7
<1>11. \A t \in Tokens : t \notin D /\ t # t0 => row'[t] = row[t]
  BY <1>7
<1> HIDE DEF r
<1> QED BY <1>2, <1>3, <1>5, <1>6, <1>8, <1>9, <1>10, <1>11

\* Room for one more is enough for one more.
LEMMA OneMore ==
  ASSUME NEW S, NEW T, IsFiniteSet(T), NEW x, S \subseteq T \cup {x},
         NEW n \in Nat, Cardinality(T) < n
  PROVE  Cardinality(S) <= n
<1>1. /\ IsFiniteSet(T \cup {x}) /\ Cardinality(T) \in Nat
      /\ \/ Cardinality(T \cup {x}) = Cardinality(T)
         \/ Cardinality(T \cup {x}) = Cardinality(T) + 1
  BY FS_AddElement, FS_CardinalityType
<1>2. /\ IsFiniteSet(S) /\ Cardinality(S) \in Nat
      /\ Cardinality(S) <= Cardinality(T \cup {x})
  BY <1>1, FS_Subset, FS_CardinalityType
<1> QED BY <1>1, <1>2

\* A COMMIT fills the room that the count found.
LEMMA RoomFilled ==
  ASSUME DInv, DownloadsFit, NEW p \in Procs, h[p].pc = "commit",
         row' = [t \in Tokens |->
                   IF t \in h[p].doom THEN Absent
                   ELSE IF t = h[p].token THEN [row[t] EXCEPT !.by = None]
                   ELSE row[t]]
  PROVE  /\ \A j \in Kinds \ {h[p].kind} : NoneAppears(j)
         /\ Bounded' /\ OnePerFile'
<1> DEFINE t0 == h[p].token
           D == h[p].doom
           k == h[p].kind
           u == h[p].user
<1>0. /\ t0 \in Tokens /\ t0 \notin D
      /\ row[t0] # Absent /\ row[t0].by = p
      /\ row'[t0] # Absent /\ row'[t0].by = None
      /\ row'[t0].kind = k /\ row'[t0].user = u /\ row'[t0].item = h[p].item
      /\ \A t \in D : row'[t] = Absent
      /\ \A t \in Tokens : t \notin D /\ t # t0 => row'[t] = row[t]
  BY Committed
<1>1. HasRoom(p) /\ k \in Kinds /\ Bounded /\ OnePerFile
  BY Inside DEF DInv, Own, Locking
<1>2. \A j : \A t \in PendingNext(j) : t # t0 => t \in Pending(j) \ D
                                         /\ row'[t] = row[t]
  BY <1>0 DEF PendingNext, Pending
<1>3. \A j : j # k => t0 \notin PendingNext(j)
  BY <1>0 DEF PendingNext
<1>4. \A j \in Kinds \ {k} : NoneAppears(j)
  BY <1>2, <1>3 DEF NoneAppears
<1>5. IsFiniteSet(Pending(k) \ D) /\ Cardinality(Pending(k) \ D) \in Nat
      /\ IsFiniteSet(Mine(k, u) \ D) /\ Cardinality(Mine(k, u) \ D) \in Nat
  BY FiniteTables DEF Pending, Mine
<1>6. OwnLimit[k] \in Nat /\ AllLimit[k] \in Nat
  BY <1>1, LimitsAreNumbers
<1>7. /\ Cardinality(Pending(k) \ D) < AllLimit[k]
      /\ Cardinality(Mine(k, u) \ D) < OwnLimit[k]
      /\ k = "file" => SameFile(p) \subseteq D
  BY <1>1 DEF HasRoom
<1> HIDE DEF t0, D, k, u
<1>9. Cardinality(PendingNext(k)) <= AllLimit[k]
  <2>1. PendingNext(k) \subseteq (Pending(k) \ D) \cup {t0}
    BY <1>2
  <2>2. Cardinality(Pending(k) \ D) < AllLimit[k]
    BY <1>7
  <2> QED BY <1>5, <1>6, <2>1, <2>2, OneMore
<1>10. ASSUME NEW v \in Users
       PROVE  Cardinality(MineNext(k, v)) <= OwnLimit[k]
  <2>1. CASE v = u
    <3>1. MineNext(k, u) \subseteq (Mine(k, u) \ D) \cup {t0}
      <4> SUFFICES ASSUME NEW t \in MineNext(k, u), t # t0
                   PROVE  t \in Mine(k, u) \ D
        OBVIOUS
      <4>1. t \in PendingNext(k) /\ row'[t].user = u
        BY DEF MineNext
      <4>2. t \in Pending(k) \ D /\ row'[t] = row[t]
        BY <1>2, <4>1
      <4> QED BY <4>1, <4>2 DEF Mine
    <3>2. Cardinality(Mine(k, u) \ D) < OwnLimit[k]
      BY <1>7
    <3>3. Cardinality(MineNext(k, u)) <= OwnLimit[k]
      BY <1>5, <1>6, <3>1, <3>2, OneMore
    <3> QED BY <2>1, <3>3
  <2>2. CASE v # u
    <3>1. MineNext(k, v) \subseteq Mine(k, v)
      <4> SUFFICES ASSUME NEW t \in MineNext(k, v)
                   PROVE  t \in Mine(k, v)
        OBVIOUS
      <4>1. t \in PendingNext(k) /\ row'[t].user = v
        BY DEF MineNext
      <4>2. t # t0
        BY <1>0, <2>2, <4>1
      <4>3. t \in Pending(k) /\ row'[t] = row[t]
        BY <1>2, <4>1, <4>2
      <4> QED BY <4>1, <4>3 DEF Mine
    <3>2. IsFiniteSet(Mine(k, v)) /\ Cardinality(Mine(k, v)) \in Nat
      BY FiniteTables DEF Mine, Pending
    <3>3. /\ Cardinality(MineNext(k, v)) \in Nat
          /\ Cardinality(MineNext(k, v)) <= Cardinality(Mine(k, v))
      BY <3>1, <3>2, FS_Subset, FS_CardinalityType
    <3>4. Cardinality(Mine(k, v)) <= OwnLimit[k]
      BY <1>1 DEF Bounded
    <3> QED BY <1>6, <3>2, <3>3, <3>4
  <2> QED BY <2>1, <2>2
<1>11. ASSUME NEW j \in Kinds, NEW v
       PROVE  /\ Cardinality(PendingNext(j)) <= AllLimit[j]
              /\ v \in Users => Cardinality(MineNext(j, v)) <= OwnLimit[j]
  <2>1. CASE j = k
    BY <1>9, <1>10, <2>1
  <2>2. CASE j # k
    <3>1. /\ Cardinality(PendingNext(j)) <= Cardinality(Pending(j))
          /\ Cardinality(MineNext(j, v)) <= Cardinality(Mine(j, v))
          /\ Cardinality(PendingNext(j)) \in Nat
          /\ Cardinality(MineNext(j, v)) \in Nat
      BY <1>4, <2>2, Fewer
    <3>2. /\ Cardinality(Pending(j)) <= AllLimit[j]
          /\ v \in Users => Cardinality(Mine(j, v)) <= OwnLimit[j]
      BY <1>1 DEF Bounded
    <3>3. Cardinality(Pending(j)) \in Nat /\ Cardinality(Mine(j, v)) \in Nat
      BY FiniteTables DEF Pending, Mine
    <3> QED BY <3>1, <3>2, <3>3, LimitsAreNumbers
  <2> QED BY <2>1, <2>2
<1>12. \A j : Pending(j)' = PendingNext(j)
              /\ \A v : Mine(j, v)' = MineNext(j, v)
  BY DEF Pending, Mine, PendingNext, MineNext
<1>13. Bounded'
  BY <1>11, <1>12 DEF Bounded
<1>14. ASSUME "file" \in Kinds, NEW v \in Users, NEW s \in MineNext("file", v),
              s # t0
       PROVE  /\ s \in Mine("file", v) /\ row'[s] = row[s] /\ s \notin D
  BY <1>2, <1>14 DEF MineNext, Mine
<1>15. ASSUME "file" \in Kinds, NEW v \in Users, NEW s \in MineNext("file", v),
              s # t0, t0 \in MineNext("file", v), row'[s].item = row'[t0].item
       PROVE  FALSE
  <2>1. k = "file" /\ v = u
    BY <1>0, <1>3, <1>15 DEF MineNext
  <2>2. s \in SameFile(p)
    BY <1>0, <1>14, <1>15, <2>1 DEF SameFile, u
  <2>3. s \notin D
    BY <1>14, <1>15
  <2>4. SameFile(p) \subseteq D
    BY <1>7, <2>1
  <2> QED BY <2>2, <2>3, <2>4
<1>16. ASSUME "file" \in Kinds, NEW v \in Users, NEW s \in MineNext("file", v),
              NEW t \in MineNext("file", v), row'[s].item = row'[t].item
       PROVE  s = t
  <2>1. CASE s # t0 /\ t # t0
    <3>1. /\ s \in Mine("file", v) /\ t \in Mine("file", v)
          /\ row[s].item = row[t].item
      BY <1>14, <1>16, <2>1
    <3> QED BY <1>1, <1>16, <3>1 DEF OnePerFile
  <2>2. CASE s = t0 \/ t = t0
    BY <1>15, <1>16, <2>2
  <2> QED BY <2>1, <2>2
<1>17. OnePerFile'
  BY <1>12, <1>16 DEF OnePerFile
<1> QED BY <1>4, <1>13, <1>17 DEF k

\* It commits: what it deleted is gone, its own row is there.
LEMMA CommitStep ==
  ASSUME DInv, DownloadsFit, NEW p \in Procs, Commit(p)
  PROVE  DInv'
<1> DEFINE t0 == h[p].token
           D == h[p].doom
<1>1. /\ Types /\ Issues(p) /\ Opened(p) /\ Once /\ prepares \in Int
      /\ made \in Int /\ Writes(p) /\ D \subseteq Tokens
  BY DEF DInv, Own, Types, Handler
<1>2. /\ made' = made /\ fd' = fd /\ used' = used /\ Answer(p) /\ Prepared(p)
      /\ lock' = Freed(p) /\ h[p].pc = "commit"
      /\ row' = [t \in Tokens |->
                   IF t \in h[p].doom THEN Absent
                   ELSE IF t = h[p].token THEN [row[t] EXCEPT !.by = None]
                   ELSE row[t]]
  BY DEF Commit, At
<1>3. /\ row' \in [Tokens -> Row \cup {Absent}]
      /\ t0 \in Tokens /\ t0 \notin D
      /\ row[t0] # Absent /\ row[t0].by = p
      /\ row'[t0].by = None
      /\ \A t \in D : row'[t] = Absent
      /\ \A t \in Tokens : t \notin D /\ t # t0 => row'[t] = row[t]
  BY <1>2, Committed
<1>4. /\ \A j \in Kinds \ {h[p].kind} : NoneAppears(j)
      /\ Bounded' /\ OnePerFile'
  BY <1>2, RoomFilled
<1>5. Moved(p) /\ h'[p].pc = "idle" /\ h'[p].doom = {}
  BY <1>1, <1>2, AnswerFacts
<1>6. Filed(p) /\ fd'[p] = fd[p]
  BY <1>1, <1>2, SameFiled
<1>7. /\ lock' \in [Kinds -> Procs \cup {None}]
      /\ \A k \in Kinds : lock'[k] # p
      /\ \A q \in Procs \ {p} : LocksKept(q)
  BY <1>2, FreedFacts
<1>8. h[p].pc \in Locking
  BY <1>2 DEF Locking
<1> HIDE DEF t0, D
<1>9. \A q \in Procs \ {p} : RowsKept(q)
  <2> SUFFICES ASSUME NEW q \in Procs \ {p}
               PROVE  RowsKept(q)
    OBVIOUS
  <2>1. Writes(q) /\ LockHeld(q) /\ h[q].doom \subseteq Tokens
    BY DEF DInv, Own, Types, Handler
  <2>2. h[q].doom \cap D = {}
    BY <1>8, Inside DEF D
  <2>3. \A t \in h[q].doom : t \notin D /\ t # t0
    BY <1>3, <2>1, <2>2 DEF Writes, DownloadsFit
  <2>4. \A t \in h[q].doom :
          row'[t] # Absent /\ row'[t].by = None /\ row'[t].kind = row[t].kind
    BY <1>3, <2>1, <2>3 DEF Writes
  <2>5. \A t \in D : row[t].by = None
    BY <1>1 DEF Writes, D
  <2>6. \A t \in Tokens :
          \/ row[t] # Absent /\ row[t].by = q
          \/ row'[t] # Absent /\ row'[t].by = q
          => row'[t] = row[t]
    <3>1. q # None
      BY DEF DownloadsFit
    <3> QED BY <1>3, <2>5, <3>1
  <2>7. h[q].pc \in Locking => NoneAppears(h[q].kind)
    <3>1. h[q].pc \in Locking => h[q].kind \in Kinds /\ h[q].kind # h[p].kind
      BY <1>8, <2>1, Inside DEF LockHeld
    <3> QED BY <1>4, <3>1
  <2> QED BY <2>4, <2>6, <2>7 DEF RowsKept
<1>10. Opened(p)'
  BY <1>1, <1>2, <1>5, <1>6 DEF Opened
<1>11. \A t \in Tokens : row'[t] = Absent \/ row'[t].by # p
  <2>1. \A t \in Tokens : t # t0 => row[t] = Absent \/ row[t].by # p
    BY <1>1 DEF Writes, t0
  <2>2. p # None
    BY DEF DownloadsFit
  <2> QED BY <1>3, <2>1, <2>2
<1>12. Own(p)'
  BY <1>5, <1>7, <1>10, <1>11, Quiet DEF Locking
<1>13. Once'
  <2>1. \A t \in Tokens : row'[t] # Absent => row[t] # Absent
    BY <1>3
  <2> QED BY <1>1, <1>2, <2>1 DEF Once
<1>14. /\ made' + One(Counts(h'[p])) <= made + One(Counts(h[p]))
       /\ prepares' = prepares + One(Prepares(h'[p])) - One(Prepares(h[p]))
  <2>1. ~Counts(h'[p]) /\ ~Prepares(h'[p]) /\ ~Counts(h[p])
    BY <1>2, <1>5 DEF Counts, Prepares
  <2>2. Prepares(h[p]) <=> h[p].kind = "archive"
    BY <1>2 DEF Prepares
  <2> QED BY <1>1, <1>2, <2>1, <2>2 DEF One, Prepared
<1>15. made' \in 0..MaxTokens /\ used' \in [Tokens -> Nat]
  BY <1>1, <1>2 DEF Types
<1> QED
  BY <1>3, <1>4, <1>5, <1>6, <1>7, <1>9, <1>12, <1>13, <1>14, <1>15,
     RequestStep

\* A fetch with a good row goes on; a GET takes the row with it, unless an
\* issue is deleting it.
LEMMA AuthorizeStep ==
  ASSUME DInv, DownloadsFit, NEW p \in Procs, Authorize(p)
  PROVE  DInv'
<1> DEFINE t0 == h[p].token
<1>1. /\ Types /\ Issues(p) /\ Opened(p) /\ Once /\ prepares \in Int
      /\ made \in Int /\ h[p] \in Handler
  BY DEF DInv, Own, Types
<1>2. /\ h[p].pc = "authorize" /\ t0 \in Tokens /\ h[p].get \in BOOLEAN
      /\ prepares' = prepares /\ fd' = fd /\ lock' = lock /\ made' = made
      /\ h[p].get => t0 \notin Doomed
  BY <1>1 DEF Authorize, At, Issues, Handler
<1>3. h[p].pc \notin Locking
  BY <1>2 DEF Locking
<1>4. Goto(p, "file") \/ Answer(p)
  BY DEF Authorize
<1>5. /\ Moved(p) /\ h'[p].pc \in {"file", "idle"} /\ h'[p].doom = {}
  BY <1>1, <1>3, <1>4, Outside, GotoFacts, AnswerFacts DEF Labels
<1>6. Filed(p) /\ fd'[p] = fd[p]
  BY <1>1, <1>2, SameFiled
<1>7. \/ row' = row /\ used' = used
      \/ row' = row /\ used' = [used EXCEPT ![t0] = @ + 0]
      \/ /\ row' = [row EXCEPT ![t0] = Absent]
         /\ used' = [used EXCEPT ![t0] = @ + 1]
         /\ row[t0] # Absent /\ row[t0].by = None
         /\ \A q \in Procs : t0 \notin h[q].doom
  BY <1>2 DEF Authorize, Consumed, Authorized, Doomed
<1> HIDE DEF t0
<1>8. /\ row' \in [Tokens -> Row \cup {Absent}] /\ used' \in [Tokens -> Nat]
      /\ Once'
      /\ \A t \in Tokens : row'[t] = row[t] \/
           /\ row'[t] = Absent /\ row[t] # Absent /\ row[t].by = None
           /\ \A q \in Procs : t \notin h[q].doom
  <2>1. CASE /\ row' = row
             /\ used' = used \/ used' = [used EXCEPT ![t0] = @ + 0]
    <3>1. used' = used
      BY <1>1, <1>2, <2>1 DEF Types
    <3> QED BY <1>1, <1>2, <2>1, <3>1 DEF Types, Once
  <2>2. CASE /\ row' = [row EXCEPT ![t0] = Absent]
             /\ used' = [used EXCEPT ![t0] = @ + 1]
             /\ row[t0] # Absent /\ row[t0].by = None
             /\ \A q \in Procs : t0 \notin h[q].doom
    <3>1. used[t0] = 0 /\ ~(t0 > made)
      BY <1>1, <1>2, <2>2 DEF Once
    <3>2. /\ row'[t0] = Absent /\ used'[t0] = 1
          /\ \A t \in Tokens \ {t0} : row'[t] = row[t] /\ used'[t] = used[t]
      BY <1>1, <1>2, <2>2, <3>1 DEF Types
    <3>3. row' \in [Tokens -> Row \cup {Absent}] /\ used' \in [Tokens -> Nat]
      BY <1>1, <1>2, <2>2 DEF Types
    <3>4. Once'
      BY <1>1, <1>2, <3>1, <3>2 DEF Once
    <3> QED BY <2>2, <3>2, <3>3, <3>4
  <2> QED BY <1>7, <2>1, <2>2
<1>9. \A k : NoneAppears(k)
  BY <1>8 DEF NoneAppears, PendingNext, Pending
<1>10. \A q \in Procs \ {p} : RowsKept(q) /\ LocksKept(q)
  <2> SUFFICES ASSUME NEW q \in Procs \ {p}
               PROVE  RowsKept(q) /\ LocksKept(q)
    OBVIOUS
  <2>1. Writes(q) /\ h[q].doom \subseteq Tokens /\ q # None
    BY DEF DInv, Own, Types, Handler, DownloadsFit
  <2>2. \A t \in h[q].doom : row'[t] = row[t]
    BY <1>8, <2>1
  <2>3. \A t \in Tokens :
          \/ row[t] # Absent /\ row[t].by = q
          \/ row'[t] # Absent /\ row'[t].by = q
          => row'[t] = row[t]
    BY <1>8, <2>1
  <2> QED BY <1>2, <1>9, <2>1, <2>2, <2>3 DEF RowsKept, LocksKept, Writes
<1>11. Opened(p)'
  BY <1>1, <1>2, <1>5, <1>6 DEF Opened
<1>12. Own(p)'
  <2>1. \A t \in Tokens : row'[t] = Absent \/ row'[t].by # p
    BY <1>3, <1>8, Outside
  <2>2. \A k \in Kinds : lock'[k] # p
    BY <1>2, <1>3, Outside
  <2> QED BY <1>5, <1>11, <2>1, <2>2, Quiet DEF Locking
<1>13. Bounded' /\ OnePerFile'
  BY <1>9, LimitsKept
<1>14. /\ made' + One(Counts(h'[p])) <= made + One(Counts(h[p]))
       /\ prepares' = prepares + One(Prepares(h'[p])) - One(Prepares(h[p]))
  BY <1>1, <1>2, <1>5 DEF Counts, Prepares, One
<1>15. /\ made' \in 0..MaxTokens /\ lock' \in [Kinds -> Procs \cup {None}]
  BY <1>1, <1>2 DEF Types
<1> QED
  BY <1>5, <1>6, <1>8, <1>10, <1>12, <1>13, <1>14, <1>15, RequestStep

\* A row grows old.
LEMMA ExpireStep ==
  ASSUME DInv, DownloadsFit, NEW t \in Tokens, Expire(t)
  PROVE  DInv'
<1>1. Types /\ Once /\ Enough /\ PreparesCounted
  BY DEF DInv
<1>2. /\ lock' = lock /\ prepares' = prepares /\ h' = h /\ fd' = fd
      /\ made' = made /\ used' = used
      /\ row[t] # Absent /\ row[t].by = None
      /\ row' = [row EXCEPT ![t].old = TRUE]
  BY DEF Expire
<1> DEFINE r == [row[t] EXCEPT !.old = TRUE]
<1>3. row[t] \in Row
  BY <1>1, <1>2 DEF Types
<1>4. /\ r \in Row /\ r.kind = row[t].kind /\ r.by = None
      /\ r.user = row[t].user /\ r.item = row[t].item
  BY <1>2, <1>3 DEF Row
<1>5. row' = [row EXCEPT ![t] = r]
  BY <1>1, <1>2 DEF Types
<1> HIDE DEF r
<1>6. r # Absent
  BY <1>4 DEF Row, Absent, DownloadsFit
<1>7. /\ row' \in [Tokens -> Row \cup {Absent}] /\ row'[t] = r
      /\ \A s \in Tokens \ {t} : row'[s] = row[s]
  BY <1>1, <1>4, <1>5 DEF Types
<1>8. \A k : NoneAppears(k)
  BY <1>2, <1>4, <1>7 DEF NoneAppears, PendingNext, Pending
<1>9. ASSUME NEW q \in Procs
      PROVE  Own(q)'
  <2>1. Writes(q) /\ h[q].doom \subseteq Tokens /\ q # None
    BY <1>1 DEF DInv, Own, Types, Handler, DownloadsFit
  <2>2. \A s \in h[q].doom :
          row'[s] # Absent /\ row'[s].by = None /\ row'[s].kind = row[s].kind
    BY <1>4, <1>6, <1>7, <2>1 DEF Writes
  <2>3. \A s \in Tokens :
          \/ row[s] # Absent /\ row[s].by = q
          \/ row'[s] # Absent /\ row'[s].by = q
          => row'[s] = row[s]
    BY <1>2, <1>4, <1>7, <2>1
  <2>4. RowsKept(q) /\ LocksKept(q) /\ Stays(q)
    BY <1>2, <1>8, <2>2, <2>3 DEF RowsKept, LocksKept, Stays
  <2> QED BY <1>2, <2>4, OtherKept
<1>10. Types'
  BY <1>1, <1>2, <1>7 DEF Types
<1>11. Once'
  BY <1>1, <1>2, <1>7 DEF Once
<1>12. Enough' /\ PreparesCounted'
  BY <1>1, <1>2 DEF Enough, Issuing, PreparesCounted
<1>13. Bounded' /\ OnePerFile'
  BY <1>8, LimitsKept
<1> QED BY <1>9, <1>10, <1>11, <1>12, <1>13 DEF DInv

\* At the beginning there are no rows and no requests.
LEMMA DownloadsStart ==
  ASSUME Init, DownloadsFit
  PROVE  DInv
<1>1. PICK f \in Files, k \in Kinds :
        h = [p \in Procs |->
               [pc |-> "idle", kind |-> k, user |-> Owner[f], item |-> f,
                token |-> 0, doom |-> {}, get |-> FALSE, on |-> FALSE,
                late |-> FALSE]]
  BY DEF Init
<1>2. /\ row = [t \in Tokens |-> Absent] /\ lock = [j \in Kinds |-> None]
      /\ prepares = 0 /\ fd = [p \in Procs |-> "none"] /\ made = 0
      /\ used = [t \in Tokens |-> 0]
  BY DEF Init
<1>3. h \in [Procs -> Handler] /\ \A p \in Procs : h[p].pc = "idle"
      /\ h[p].doom = {}
  BY <1>1 DEF Handler, Labels, DownloadsFit
<1>4. Types
  BY <1>2, <1>3 DEF Types, DownloadsFit
<1>5. Once
  BY <1>2 DEF Once
<1>6. Issuing = {} /\ Cardinality({}) = 0
  BY <1>3, FS_EmptySet DEF Issuing
<1>7. Enough
  BY <1>2, <1>6 DEF Enough, DownloadsFit
<1>8. PreparesCounted
  <2>1. {p \in Procs : /\ h[p].kind = "archive"
                       /\ h[p].pc \in {"find", "lock", "purge", "count",
                                       "insert", "commit"}} = {}
    BY <1>3
  <2> QED BY <1>2, <1>6, <2>1 DEF PreparesCounted
<1>9. \A j : Pending(j) = {} /\ \A v : Mine(j, v) = {}
  BY <1>2 DEF Pending, Mine
<1>10. Bounded /\ OnePerFile
  BY <1>6, <1>9, LimitsAreNumbers DEF Bounded, OnePerFile
<1>11. ASSUME NEW p \in Procs
       PROVE  Own(p)
  <2>1. LockHeld(p) /\ Writes(p)
    BY <1>2, <1>3 DEF LockHeld, Writes, Locking, DownloadsFit
  <2>2. Issues(p) /\ HasRoom(p) /\ Opened(p)
    BY <1>2, <1>3 DEF Issues, HasRoom, Opened
  <2> QED BY <2>1, <2>2 DEF Own
<1> QED BY <1>4, <1>5, <1>7, <1>8, <1>10, <1>11 DEF DInv

\* Every step keeps the invariant.
LEMMA DownloadsStep ==
  ASSUME DInv, DownloadsFit, [Next]_vars
  PROVE  DInv'
<1>1. CASE UNCHANGED vars
  BY <1>1, Still DEF vars
<1>2. ASSUME NEW p \in Procs, Requests(p)
      PROVE  DInv'
  BY <1>2, PrepareStep, FetchStep, PublicDownloadStep, DownloadStep DEF Requests
<1>3. ASSUME NEW p \in Procs, Issue(p)
      PROVE  DInv'
  BY <1>3, FindItemStep, LockStep, PurgeStep, DropStep, CountStep, InsertStep,
     CommitStep DEF Issue
<1>4. ASSUME NEW p \in Procs,
             \/ LoseConnection(p) \/ Authorize(p) \/ Serve(p) \/ OpenPublic(p)
             \/ Admit(p) \/ EndStream(p) \/ Disconnect(p)
      PROVE  DInv'
  BY <1>4, LoseConnectionStep, AuthorizeStep, ServingStep, DisconnectStep
<1>5. ASSUME NEW t \in Tokens, Expire(t)
      PROVE  DInv'
  BY <1>5, ExpireStep
<1>6. ASSUME \/ \E f \in Files : Toggle(f)
             \/ \E u \in Users : Disable(u)
      PROVE  DInv'
  BY <1>6, Still DEF Toggle, Disable
<1> QED BY <1>1, <1>2, <1>3, <1>4, <1>5, <1>6 DEF Next

\* The invariant holds in every reachable state of Downloads.
THEOREM DownloadsInvariance == Spec => []DInv
<1>1. Init => DInv
  BY DownloadsStart, DownloadsAssumption
<1>2. DInv /\ [Next]_vars => DInv'
  BY DownloadsStep, DownloadsAssumption
<1> QED BY <1>1, <1>2, PTL DEF Spec

\* Whatever requests come at once, a capability lets one GET through, limits
\* are kept, a file has one, preparations are counted, and a file is open only
\* until it is sent or its client leaves, unless the client left before it was
\* handed over.
THEOREM CapabilitiesHold == Spec => []SingleUse
<1>1. DInv => UsedOnce /\ Bounded /\ OnePerFile /\ PreparesCounted
  BY DEF DInv, Once, UsedOnce
<1>2. DInv => DescriptorsReturned
  BY DEF DInv, Own, Opened, DescriptorsReturned, At
<1>3. DInv => SingleUse
  BY <1>1, <1>2 DEF SingleUse
<1> QED BY <1>3, DownloadsInvariance, PTL

-----------------------------------------------------------------------------
(* Ranges.                                                                 *)

\* What a header of each form holds.
LEMMA HeaderFacts ==
  ASSUME NEW hd \in R!Headers
  PROVE  /\ hd.form \in {"none", "other", "bytes"}
         /\ hd.first \in Nat \cup {Missing} /\ hd.last \in Nat \cup {Missing}
         /\ hd.form # "bytes" => hd.first = Missing /\ hd.last = Missing
BY NumbersAssumption DEF R!Headers, R!Digits, R!NumbersFit

\* A bounded range is refused, or is what was asked for of the file.
LEMMA BoundedBytes ==
  ASSUME NEW x \in Nat, NEW y \in Int, NEW n \in Nat,
         NEW r, r = R!Bounded(x, y, n)
  PROVE  \/ r = R!Unsatisfiable /\ {i \in 0..(n - 1) : x <= i /\ i <= y} = {}
         \/ /\ r.type = "range" /\ r.start = x /\ r.start \in 0..(n - 1)
            /\ r.end \in x..(n - 1)
            /\ r.start..r.end = {i \in 0..(n - 1) : x <= i /\ i <= y}
<1>1. CASE y < 0 \/ x > y \/ x >= n
  <2>1. R!Bounded(x, y, n) = R!Unsatisfiable
    BY <1>1 DEF R!Bounded
  <2>2. {i \in 0..(n - 1) : x <= i /\ i <= y} = {}
    BY <1>1
  <2> QED BY <2>1, <2>2
<1>2. CASE ~(y < 0 \/ x > y \/ x >= n)
  <2>1. R!Bounded(x, y, n) = R!Range(x, R!Clamp(y, n))
    BY <1>2 DEF R!Bounded
  <2>2. R!Clamp(y, n) \in x..(n - 1) /\ R!Clamp(y, n) <= y
    BY <1>2 DEF R!Clamp
  <2>3. x..R!Clamp(y, n) = {i \in 0..(n - 1) : x <= i /\ i <= y}
    BY <1>2 DEF R!Clamp
  <2> QED BY <1>2, <2>1, <2>2, <2>3 DEF R!Range
<1> QED BY <1>1, <1>2

\* The two parsers give one answer: they check for an empty file at different
\* places, and a range of an empty file is refused by its bounds, too.
THEOREM SameParse ==
  ASSUME NEW hd \in R!Headers, NEW n \in Nat
  PROVE  R!parseDownloadRange(hd, n) = R!parseRangeHeader(hd, n)
<1>1. CASE n = 0 /\ hd.first = Missing
  <2>1. R!Bounded(R!SuffixStart(R!Value(hd.last), n), n - 1, n)
          = R!Unsatisfiable
    BY <1>1 DEF R!Bounded
  <2> QED
    BY <1>1, <2>1
    DEF R!parseDownloadRange, R!parseRangeHeader, R!DownloadSuffix,
        R!PublicSuffix
<1>2. CASE n = 0 /\ hd.first # Missing
  <2>1. hd.first \in Nat
    BY <1>2, HeaderFacts
  <2>2. R!Bounded(hd.first, R!EndOf(hd, n), n) = R!Unsatisfiable
    BY <1>2, <2>1 DEF R!Bounded
  <2> QED
    BY <1>2, <2>2 DEF R!parseDownloadRange, R!parseRangeHeader
<1>3. CASE n # 0
  BY <1>3
  DEF R!parseDownloadRange, R!parseRangeHeader, R!DownloadSuffix,
      R!PublicSuffix
<1> QED BY <1>1, <1>2, <1>3

\* The bytes of a suffix: from its start to the end of the file.
LEMMA SuffixBytes ==
  ASSUME NEW k \in Nat, NEW n \in Nat, k > 0, n > 0
  PROVE  /\ R!SuffixStart(k, n) \in 0..(n - 1)
         /\ {i \in 0..(n - 1) : R!SuffixStart(k, n) <= i /\ i <= n - 1}
              = {i \in 0..(n - 1) : i >= n - k}
BY DEF R!SuffixStart

\* A range whose bytes are what was asked for is answered faithfully, and so
\* is a refusal when nothing was.
LEMMA RangeFaithful ==
  ASSUME NEW hd \in R!Headers, NEW n \in Nat, NEW x \in Nat, NEW y \in Int,
         {i \in 0..(n - 1) : x <= i /\ i <= y} = R!Asked(hd, n)
  PROVE  R!Faithful(R!Bounded(x, y, n), hd, n)
<1> DEFINE r == R!Bounded(x, y, n)
<1>1. CASE r = R!Unsatisfiable /\ {i \in 0..(n - 1) : x <= i /\ i <= y} = {}
  <2>1. r.type = "unsatisfiable"
    BY <1>1 DEF R!Unsatisfiable
  <2>2. R!Reply(r, n).status = 416
    BY <2>1 DEF R!Reply
  <2> HIDE DEF r
  <2> QED BY <1>1, <2>2 DEF R!Faithful, r
<1>2. CASE /\ r.type = "range" /\ r.start = x /\ r.start \in 0..(n - 1)
           /\ r.end \in x..(n - 1)
           /\ r.start..r.end = {i \in 0..(n - 1) : x <= i /\ i <= y}
  <2> HIDE DEF r
  <2>1. R!Reply(r, n) = [status |-> 206, length |-> r.end - r.start + 1,
                       bytes |-> r.start..r.end]
    BY <1>2 DEF R!Reply
  <2>2. r.end - r.start + 1 \in 1..n /\ r.start \in 0..(n - 1)
    BY <1>2
  <2>3. r.start..r.end = R!Asked(hd, n)
    BY <1>2
  <2>4. /\ R!Reply(r, n).status = 206 /\ R!Reply(r, n).length \in 1..n
        /\ R!Reply(r, n).bytes = R!Asked(hd, n)
    BY <2>1, <2>2, <2>3
  <2>5. R!Faithful(r, hd, n)
    BY <2>2, <2>4 DEF R!Faithful
  <2> QED BY <2>5 DEF r
<1> QED BY SMTT(90), <1>1, <1>2, BoundedBytes

\* A refusal is faithful when a number cannot be held or nothing was asked.
LEMMA RefusalFaithful ==
  ASSUME NEW hd \in R!Headers, NEW n \in Nat,
         ~R!Exact(hd, n) \/ R!Asked(hd, n) = {}
  PROVE  R!Faithful(R!Unsatisfiable, hd, n)
<1>1. R!Reply(R!Unsatisfiable, n).status = 416
  BY DEF R!Reply, R!Unsatisfiable
<1> QED BY <1>1 DEF R!Faithful

\* What an owner's download sends is what its header asks for.
THEOREM ParseFaithful ==
  ASSUME NEW hd \in R!Headers, NEW n \in Nat
  PROVE  R!Faithful(R!parseDownloadRange(hd, n), hd, n)
<1> DEFINE p == R!parseDownloadRange(hd, n)
<1>0. /\ hd.form \in {"none", "other", "bytes"}
      /\ hd.first \in Nat \cup {Missing} /\ hd.last \in Nat \cup {Missing}
      /\ MaxSafe \in Nat /\ Missing \notin Int
  BY HeaderFacts, NumbersAssumption DEF R!NumbersFit
<1>1. CASE ~R!Safe(n) \/ (R!Safe(n) /\ hd.form = "other")
  <2>1. p = R!Unsatisfiable
    BY <1>1 DEF R!parseDownloadRange
  <2>2. ~R!Exact(hd, n)
    BY <1>1 DEF R!Exact
  <2> QED BY <2>1, <2>2, RefusalFaithful
<1>2. CASE R!Safe(n) /\ hd.form = "none"
  <2>1. p = R!Whole
    BY <1>2 DEF R!parseDownloadRange
  <2>2. R!Reply(R!Whole, n)
          = [status |-> 200, length |-> n, bytes |-> 0..(n - 1)]
    BY DEF R!Reply, R!Whole
  <2>3. R!Asked(hd, n) = 0..(n - 1)
    BY <1>2 DEF R!Asked
  <2> QED BY <2>1, <2>2, <2>3 DEF R!Faithful
<1>3. CASE R!Safe(n) /\ hd.form = "bytes" /\ hd.first = Missing
  <2> DEFINE k == R!Value(hd.last)
  <2>1. k \in Nat
    BY <1>0 DEF R!Value
  <2>2. R!Asked(hd, n) = {i \in 0..(n - 1) : i >= n - k}
    BY <1>3 DEF R!Asked
  <2>3. CASE ~R!Safe(k) \/ k <= 0 \/ n = 0
    <3>1. p = R!Unsatisfiable
      BY <1>3, <2>3 DEF R!parseDownloadRange, R!DownloadSuffix
    <3>2. ~R!Exact(hd, n) \/ R!Asked(hd, n) = {}
      BY <2>1, <2>2, <2>3 DEF R!Exact
    <3> QED BY <3>1, <3>2, RefusalFaithful
  <2>4. CASE ~(~R!Safe(k) \/ k <= 0 \/ n = 0)
    <3>1. p = R!Bounded(R!SuffixStart(k, n), n - 1, n)
      BY <1>3, <2>4 DEF R!parseDownloadRange, R!DownloadSuffix
    <3>2. k > 0 /\ n > 0
      BY <2>1, <2>4
    <3>3. /\ R!SuffixStart(k, n) \in Nat
          /\ {i \in 0..(n - 1) : R!SuffixStart(k, n) <= i /\ i <= n - 1}
               = R!Asked(hd, n)
      BY <2>1, <2>2, <3>2, SuffixBytes
    <3>4. R!Faithful(R!Bounded(R!SuffixStart(k, n), n - 1, n), hd, n)
      <4> HIDE DEF k
      <4> QED BY <3>3, RangeFaithful
    <3> QED BY <3>1, <3>4
  <2> QED BY <2>3, <2>4
<1>4. CASE R!Safe(n) /\ hd.form = "bytes" /\ hd.first # Missing
  <2>1. hd.first \in Nat /\ R!EndOf(hd, n) \in Int
    BY <1>0, <1>4 DEF R!EndOf
  <2>2. R!Asked(hd, n)
          = {i \in 0..(n - 1) : hd.first <= i /\ i <= R!EndOf(hd, n)}
    <3>1. CASE hd.last = Missing
      <4>1. R!Asked(hd, n) = {i \in 0..(n - 1) : i >= hd.first}
        BY <1>4, <3>1 DEF R!Asked
      <4>2. R!EndOf(hd, n) = n - 1
        BY <3>1 DEF R!EndOf
      <4> QED BY <2>1, <4>1, <4>2
    <3>2. CASE hd.last # Missing
      BY <1>4, <3>2 DEF R!Asked, R!EndOf
    <3> QED BY <3>1, <3>2
  <2>3. CASE ~R!Safe(hd.first) \/ ~R!Safe(R!EndOf(hd, n)) \/ n = 0
    <3>1. p = R!Unsatisfiable
      BY <1>4, <2>3 DEF R!parseDownloadRange
    <3>2. CASE n = 0
      <4>1. R!Asked(hd, n) = {}
        BY <2>2, <3>2
      <4> QED BY <3>1, <4>1, RefusalFaithful
    <3>3. CASE ~R!Safe(hd.first)
      <4>1. ~R!Exact(hd, n)
        BY <1>4, <3>3 DEF R!Exact, R!Value
      <4> QED BY <3>1, <4>1, RefusalFaithful
    <3>4. CASE n # 0 /\ ~R!Safe(R!EndOf(hd, n))
      <4>1. hd.last # Missing
        BY <1>0, <1>4, <3>4 DEF R!EndOf, R!Safe
      <4>2. ~R!Exact(hd, n)
        BY <3>4, <4>1 DEF R!Exact, R!Value, R!EndOf
      <4> QED BY <3>1, <4>2, RefusalFaithful
    <3> QED BY <2>3, <3>2, <3>3, <3>4
  <2>4. CASE ~(~R!Safe(hd.first) \/ ~R!Safe(R!EndOf(hd, n)) \/ n = 0)
    <3>1. p = R!Bounded(hd.first, R!EndOf(hd, n), n)
      BY <1>4, <2>4 DEF R!parseDownloadRange
    <3>2. R!Faithful(R!Bounded(hd.first, R!EndOf(hd, n), n), hd, n)
      BY <2>1, <2>2, RangeFaithful
    <3> QED BY <3>1, <3>2
  <2> QED BY <2>3, <2>4
<1> QED BY <1>0, <1>1, <1>2, <1>3, <1>4

\* An owner's download sends the bytes its header names, and a public download
\* of the file answers the same, for every header and every size.
THEOREM SendsAskedAlways == R!Spec => SendsAsked
<1>1. [R!Next]_(R!vars) =>
        [R!Faithful(own', header', size') /\ own' = public']_(R!vars)
  <2>1. ASSUME R!Next
        PROVE  R!Faithful(own', header', size') /\ own' = public'
    <3>1. header' \in R!Headers /\ size' \in Nat
      BY <2>1, NumbersAssumption DEF R!Next, R!NumbersFit
    <3>2. R!Faithful(R!parseDownloadRange(header', size'), header', size')
      BY <3>1, ParseFaithful
    <3>3. R!parseDownloadRange(header', size')
            = R!parseRangeHeader(header', size')
      BY <3>1, SameParse
    <3> QED BY <2>1, <3>2, <3>3 DEF R!Next
  <2> QED BY <2>1
<1> QED BY <1>1, PTL DEF R!Spec, SendsAsked, R!SendsAsked
=============================================================================
