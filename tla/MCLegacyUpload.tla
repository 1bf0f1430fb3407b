--------------------------- MODULE MCLegacyUpload ---------------------------
(* Instances of LegacyUpload for TLC. *)
EXTENDS LegacyUpload, TLC

CONSTANTS s1, s2, h1, h2, timer, a, b

Alike == Permutations(Handlers)

UnitSize == [s \in Sessions |-> 1]
AnyBody  == [s \in Sessions |-> None]
ABody    == [s \in Sessions |-> [i \in Chunks |-> IF i = 1 THEN a ELSE b]]

\* Nothing has happened to a session yet but what the first state says of it.
Untouched(s) ==
  /\ s \notin expired \cup hydrated /\ status[s] \in {"none", "uploading"}
  /\ file[s] # Deleted /\ \A p \in Procs : w[p].s # s

\* It was swept before anyone asked for it.
Swept(s) ==
  /\ status[s] = "gone" /\ s \notin hydrated /\ next[s] = 1
  /\ file[s] = None /\ ~dir[s] /\ \A p \in Procs : w[p].s # s

\* Two sessions and the other services, with one request at a time and no
\* fault; or one session with two requests at a time and faults: the one an
\* earlier release left, or one created when that one is gone.
Few ==
  \/ faults' = 0 /\ w'[h2] = Idle
  \/ faults' <= 1 /\ other' = 0 /\ Untouched(s1)'
  \/ other' = 0 /\ Swept(s2)'

\* What ReservationsFit starts from.
ASSUME HistoryAssumption == HistoryFits
=============================================================================
