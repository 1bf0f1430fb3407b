------------------------------- MODULE Sharing -------------------------------
(***************************************************************************)
(* Sharing with the public: the links of ShareLinks, and beside them one   *)
(* writable link to a folder with the uploads through it (PublicUploads).  *)
(* They share no row: a download counts on its link, an upload only reads  *)
(* whether its link is active, under a lock.                               *)
(***************************************************************************)
EXTENDS ShareLinks

CONSTANTS Keys,         \* idempotency keys
          Targets,      \* folders a visitor asks for
          MaxResults,   \* bound: folders and sessions made
          MaxReceipts,  \* receipts that a link may have
          MaxPending,   \* unfinished sessions that it may have
          MaxAsked      \* bound: requests

VARIABLES shared,                                     \* the writable link
          inside, res, receipt, forgotten, user, row,
          g, answers, asked                           \* its requests

U == INSTANCE PublicUploads WITH
  MaxTurns <- MaxAsked, link <- shared, h <- g, turns <- asked

uploads == <<shared, inside, res, receipt, forgotten, user, row, g, answers,
             asked>>

\* The bounds are numbers; keys are finitely many, as receipts are counted.
BoundsAreNumbers ==
  /\ MaxResults \in Nat /\ MaxReceipts \in Nat /\ MaxPending \in Nat
  /\ IsFiniteSet(Keys)

ASSUME UploadsAssumption == BoundsAreNumbers

\* While its receipt lives a key makes one result, and a visitor is only told
\* of a result that his request made; receipts and unfinished sessions stay
\* below their limits.
OnePerKey == U!OnePerKey /\ U!AnswersFit /\ U!Bounded
=============================================================================
