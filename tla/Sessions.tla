------------------------------ MODULE Sessions ------------------------------
(***************************************************************************)
(* The two ends of a login: the refresh tokens of the server               *)
(* (RefreshTokens), and one tab with what it knows of them                 *)
(* (BrowserSession).  The server's end says what concurrent rotations may  *)
(* leave, the tab's which token it sends, and for whom.                    *)
(*                                                                         *)
(* For TLC, one of them at a time: the tokens, one tab of any users, and   *)
(* one tab of one user whose callbacks are fair.  `part` says which runs;  *)
(* no step changes it.                                                     *)
(***************************************************************************)
EXTENDS RefreshTokens

CONSTANTS Users, Requests,       \* of the tab
          MaxPairs,              \* bound: pairs of tokens that it is given
          MaxLosses, MaxReloads  \* bounds: what disturbs it

VARIABLES store, refresh, req, ui, flow, server, stale, owner, reused, losses,
          reloads

B == INSTANCE BrowserSession WITH MaxTokens <- MaxPairs

browser == <<store, refresh, req, ui, flow, server, stale, owner, reused,
             losses, reloads>>

ASSUME TabAssumption == MaxPairs \in Nat

-----------------------------------------------------------------------------
VARIABLE part

mcvars == <<part, vars, browser>>

Fair == INSTANCE BrowserSession WITH
  Users <- {1}, MaxTokens <- 2, MaxLosses <- 1, MaxReloads <- 1

MCInit == /\ part \in {"tokens", "users", "fair"}
          /\ Init
          /\ IF part = "fair" THEN Fair!Init ELSE B!Init

MCNext ==
  /\ part' = part
  /\ \/ part = "tokens" /\ Next /\ UNCHANGED browser
     \/ part = "users" /\ B!Next /\ UNCHANGED vars
     \/ part = "fair" /\ Fair!Next /\ UNCHANGED vars

\* The fairness of BrowserSession's FairSpec, for the part that states it.
Run(A) == part = "fair" /\ A /\ UNCHANGED <<part, vars>>

Fairness ==
  /\ WF_mcvars(Run(Fair!Serve))
  /\ WF_mcvars(Run(Fair!RefreshOk \/ Fair!RefreshRefused))
  /\ WF_mcvars(Run(Fair!LoadUser \/ Fair!LoadFails))
  /\ \A r \in Requests :
       WF_mcvars(Run(Fair!Send(r) \/ Fair!Answered(r) \/ Fair!Refused(r)))

MCSpec == MCInit /\ [][MCNext]_mcvars /\ Fairness
-----------------------------------------------------------------------------
\* A request of one owner's pages is never sent with another owner's token, the
\* tokens kept are those of the login that began the session, and who is shown
\* as signed in has them; and while no answer is lost and no page reloaded, the
\* tab sends no refresh token twice.
OwnTokensOnly ==
  /\ B!NoForeignRequest /\ B!KeepsOwnTokens /\ B!SignedInHasTokens
  /\ losses = 0 /\ reloads = 0 => B!NoSelfReuse

\* Every request of a page is settled, and bootstrap comes to an answer.
RequestsSettle == part = "fair" => Fair!RequestsSettle
=============================================================================
