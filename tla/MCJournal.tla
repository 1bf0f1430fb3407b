------------------------------ MODULE MCJournal ------------------------------
(***************************************************************************)
(* JournalGuards in two parts: two transactions of two sessions, and three *)
(* transactions of one.  `part` says which, and no step changes it.        *)
(***************************************************************************)
EXTENDS JournalGuards, TLC

CONSTANTS s1, s2, t1, t2, t3, a

VARIABLE part

MCInit == Init /\ part \in {"two", "three"}

MCNext ==
  /\ Next /\ part' = part
  /\ part = "two" => tx'[t3] = tx[t3]
  /\ part = "three" => \A t \in Txs : tx'[t].s # s2 /\ tx'[t].n <= 1

MCSpec == MCInit /\ [][MCNext]_<<vars, part>>

Alike == Permutations({t1, t2})
=============================================================================
