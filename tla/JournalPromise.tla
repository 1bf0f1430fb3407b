--------------------------- MODULE JournalPromise ---------------------------
(***************************************************************************)
(* What the SSD finalization journal promises of the tables it guards      *)
(* (ssd_finalization_operations and the triggers of migrations             *)
(* 1746825180000 to 1746825200000): from the transaction that begins an    *)
(* operation to the one that ends its cleanup, the session row, its chunk  *)
(* rows and its File row change in the journal's own transactions only;    *)
(* one operation is pending at a time.  A step here is a COMMIT.           *)
(***************************************************************************)
EXTENDS Naturals

CONSTANTS Sessions,  \* upload sessions, by id
          Rows,      \* what the chunk rows of a session may record
          NoRows,    \* no chunk row
          Active,    \* upload_sessions.status of a session under way
          Deleted,   \* a File row that was deleted or changed for good
          None       \* no File row

VARIABLES op,      \* ssd_finalization_operations
          rec,     \* upload_chunks
          status,  \* upload_sessions.status, "none" without a row
          file     \* the File row of the upload

vars == <<op, rec, status, file>>

States == {"none", "assembling", "verified", "publishing", "published",
           "committed"}
Journal == [state : States, man : Rows, target : BOOLEAN, mime : BOOLEAN,
            cleaned : BOOLEAN]
NoOp == [state |-> "none", man |-> NoRows, target |-> FALSE, mime |-> FALSE,
         cleaned |-> FALSE]

Pending(o) == o.state # "none" /\ ~o.cleaned

(* What outcome() demands of session and File before it trusts the row.    *)
Unambiguous(s) ==
  IF op[s].state = "committed"
  THEN status[s] = "completed" /\ file[s] = "live"
  ELSE status[s] \in Active /\ file[s] = None

Init ==
  /\ op = [s \in Sessions |-> NoOp]
  /\ rec = [s \in Sessions |-> NoRows]
  /\ status = [s \in Sessions |-> "none"]
  /\ file = [s \in Sessions |-> None]

RowsKept(s) == rec'[s] = rec[s] /\ status'[s] = status[s] /\ file'[s] = file[s]

(* Without a pending operation the services do as they like.               *)
Free(s) == ~Pending(op[s]) /\ op'[s] = op[s]

(* With one, its rows stand still between the steps of the journal.        *)
Held(s) == Pending(op[s]) /\ op'[s] = op[s] /\ RowsKept(s)

(* The manifest is what the chunk rows are when the operation is there.    *)
Begin(s) ==
  /\ op[s].state = "none"
  /\ op'[s] = [NoOp EXCEPT !.state = "assembling", !.man = rec'[s]]
  /\ status'[s] \in Active /\ file'[s] = None

RecordTarget(s) ==
  /\ op[s].state = "assembling"
  /\ op'[s] = [op[s] EXCEPT !.target = TRUE] /\ RowsKept(s)

RecordMime(s) ==
  /\ op[s].state = "verified"
  /\ op'[s] = [op[s] EXCEPT !.mime = TRUE] /\ RowsKept(s)

Follows == {<<"assembling", "verified">>, <<"verified", "publishing">>,
            <<"publishing", "published">>}
Advance(s) ==
  /\ op[s].target
  /\ \E to \in States :
       /\ <<op[s].state, to>> \in Follows
       /\ to = "publishing" => op[s].mime
       /\ op'[s] = [op[s] EXCEPT !.state = to]
  /\ RowsKept(s)

(* The File and the completed session come with the state, or not at all.  *)
Commit(s) ==
  /\ op[s].state = "published"
  /\ op'[s] = [op[s] EXCEPT !.state = "committed"]
  /\ rec'[s] = rec[s] /\ status'[s] = "completed" /\ file'[s] = "live"

Clean(s) ==
  /\ Pending(op[s]) /\ op[s].state = "committed"
  /\ op'[s] = [op[s] EXCEPT !.cleaned = TRUE]
  /\ rec'[s] = NoRows /\ status'[s] = status[s] /\ file'[s] = file[s]

SessionStep(s) ==
  \/ Free(s) \/ Held(s) \/ Begin(s) \/ RecordTarget(s) \/ RecordMime(s)
  \/ Advance(s) \/ Commit(s) \/ Clean(s)

OneAtATime(o) ==
  \A s, t \in Sessions : Pending(o[s]) /\ Pending(o[t]) => s = t

Next ==
  /\ op' \in [Sessions -> Journal] /\ rec' \in [Sessions -> Rows]
  /\ \A s \in Sessions : SessionStep(s)
  /\ OneAtATime(op')

Spec == Init /\ [][Next]_vars

----------------------------------------------------------------------------
(* The rows are of the shape of the tables.                                *)
TypeOK == op \in [Sessions -> Journal] /\ rec \in [Sessions -> Rows]

(* A pending operation is never ambiguous: the manifest it was begun with  *)
(* is what the chunk rows still say, session and File are what its state   *)
(* says, an artifact beyond assembly has its inode recorded, and no other  *)
(* operation is pending.                                                   *)
NeverAmbiguous ==
  /\ OneAtATime(op)
  /\ \A s \in Sessions : Pending(op[s]) =>
       /\ Unambiguous(s) /\ op[s].man = rec[s]
       /\ op[s].state # "assembling" => op[s].target
       /\ op[s].state \in {"publishing", "published", "committed"} => op[s].mime

(* A journal row is a receipt: it never goes away, its manifest never      *)
(* changes, and what was committed stays committed.                        *)
Receipt ==
  [][\A s \in Sessions : op[s].state # "none" =>
       /\ op'[s].state # "none" /\ op'[s].man = op[s].man
       /\ op[s].state = "committed" => op'[s].state = "committed"
       /\ op[s].cleaned => op'[s] = op[s]]_vars
============================================================================
