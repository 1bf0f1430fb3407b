--------------------------- MODULE BrowserSession ---------------------------
(***************************************************************************)
(* The session of one browser tab: tokenStorage, the API client with its   *)
(* single refresh and the SessionProvider (src/frontend/src/auth,          *)
(* src/frontend/src/api/client.ts), with the answers AuthService gives     *)
(* them (RefreshTokens).                                                   *)
(*                                                                         *)
(* A pair of tokens is one number; both halves belong to the user of the   *)
(* login it descends from.  JavaScript runs one callback at a time: each   *)
(* action is one callback, the answer of a shared refresh and the requests *)
(* that wait for it are one.                                               *)
(***************************************************************************)
EXTENDS Integers, FiniteSets

CONSTANTS Users,
          Requests,   \* requests of the pages that may be open at once
          MaxTokens,  \* bound: pairs the server issues
          MaxLosses,  \* bound: answers the network loses
          MaxReloads  \* bound: reloads of the page

None == 0
Pairs == 1..MaxTokens

VARIABLES
  store,    \* tokenStorage
  refresh,  \* refreshPromise: the refresh in flight
  req,      \* requests of the pages
  ui,       \* SessionState
  flow,     \* what the provider is waiting for
  server,   \* the refresh tokens: who they belong to and their state
  stale,    \* pairs whose access half has expired
  owner,    \* login that established the tab's session
  reused,   \* the server was sent a token it had rotated
  losses, reloads

vars == <<store, refresh, req, ui, flow, server, stale, owner, reused,
          losses, reloads>>

Idle   == [pc |-> "none", gen |-> 0, access |-> None, retry |-> FALSE,
           owner |-> None]
NoCall == [pc |-> "none", tok |-> None, epoch |-> 0, got |-> None]
NoTok  == [user |-> None, login |-> None, state |-> "none"]
Empty  == [access |-> None, refresh |-> None, epoch |-> 0, gen |-> 0]

\* Everyone starts on the login page.
Init ==
  /\ store = Empty
  /\ refresh = NoCall
  /\ req = [r \in Requests |-> Idle]
  /\ ui = [status |-> "anonymous", user |-> None]
  /\ flow = [pc |-> "none", gen |-> 0]
  /\ server = [t \in Pairs |-> NoTok]
  /\ stale = {}
  /\ owner = None
  /\ reused = FALSE
  /\ losses = 0 /\ reloads = 0

-----------------------------------------------------------------------------
\* tokenStorage.set, setIfCurrent and clear.
Set(s, t) == [access |-> t, refresh |-> t, epoch |-> s.epoch + 1,
              gen |-> s.gen + 1]
Clear(s)  == [access |-> None, refresh |-> None, epoch |-> s.epoch + 1,
              gen |-> s.gen + 1]
Rotated(s, t) == [s EXCEPT !.access = t, !.refresh = t, !.epoch = @ + 1]

\* Mutant: the answer of a refresh is stored whatever happened meanwhile.
CurrentAs(epoch) == TRUE

\* The condition of setIfCurrent, and of expiring the session on a 401.
Current(epoch) == store.epoch = epoch

Anonymous == [status |-> "anonymous", user |-> None]
Issued == {t \in Pairs : server[t].state # "none"}
Next1 == Cardinality(Issued) + 1

-----------------------------------------------------------------------------
(* Requests.                                                               *)

Call == [pc |-> "sent", tok |-> store.refresh, epoch |-> store.epoch,
         got |-> None]

\* Mutant: a refresh that was answered is not waited for, its token is sent
\* again.
JoinAs == IF refresh.pc = "sent" THEN refresh ELSE Call

\* refreshSession: the refresh in flight, or a new one.
Join == IF refresh.pc # "none" THEN refresh ELSE Call

\* A page, mounted while signed in, calls apiRequest.
Begin(r) ==
  /\ ui.status = "authenticated" /\ req[r].pc = "none"
  /\ req' = [req EXCEPT ![r] = [Idle EXCEPT !.pc = "queued",
                                 !.gen = store.gen, !.owner = owner]]
  /\ UNCHANGED <<store, refresh, ui, flow, server, stale, owner, reused,
                 losses, reloads>>

\* The request interceptor: refuses when the owner changed, else adds the
\* access token there is.
Send(r) ==
  /\ req[r].pc = "queued"
  /\ req' = [req EXCEPT ![r] =
       IF @.gen = store.gen
       THEN [@ EXCEPT !.pc = "sent", !.access = store.access]
       ELSE Idle]
  /\ UNCHANGED <<store, refresh, ui, flow, server, stale, owner, reused,
                 losses, reloads>>

\* The server accepts an access token until it expires; a 401 comes back to
\* the response interceptor.  Any other answer ends the request.
Answered(r) ==
  /\ req[r].pc = "sent"
  /\ req' = [req EXCEPT ![r] =
       IF @.access = None \/ @.access \in stale
       THEN [@ EXCEPT !.pc = "refused"] ELSE Idle]
  /\ UNCHANGED <<store, refresh, ui, flow, server, stale, owner, reused,
                 losses, reloads>>

\* expireSession: clear the tokens and tell the provider.
ExpireSession == store' = Clear(store) /\ ui' = Anonymous

\* The response interceptor on a 401.  (While the generation is the request's
\* there are tokens: whatever removes them advances it.)
Refused(r) ==
  /\ req[r].pc = "refused"
  /\ \/ /\ req[r].gen # store.gen          \* another owner's session by now
        /\ req' = [req EXCEPT ![r] = Idle]
        /\ UNCHANGED <<store, refresh, ui>>
     \/ /\ req[r].gen = store.gen /\ req[r].retry
        /\ ExpireSession
        /\ req' = [req EXCEPT ![r] = Idle]
        /\ UNCHANGED refresh
     \/ /\ req[r].gen = store.gen /\ ~req[r].retry
        /\ req[r].access \notin {None, store.access}
        /\ store.access # None
        /\ req' = [req EXCEPT ![r].pc = "queued", ![r].retry = TRUE]
        /\ UNCHANGED <<store, refresh, ui>>
     \/ /\ req[r].gen = store.gen /\ ~req[r].retry
        /\ req[r].access \in {None, store.access} \/ store.access = None
        /\ refresh' = Join
        /\ req' = [req EXCEPT ![r].pc = "waiting"]
        /\ UNCHANGED <<store, ui>>
  /\ UNCHANGED <<flow, server, stale, owner, reused, losses, reloads>>

-----------------------------------------------------------------------------
(* The refresh.                                                            *)

Revoked(t) == IF t.state = "live" THEN [t EXCEPT !.state = "revoked"] ELSE t

\* AuthService.refresh: a live token is rotated; one rotated or revoked before
\* ends every session of the user; one that expired is refused.
Serve ==
  LET t == refresh.tok IN
  /\ refresh.pc = "sent"
  /\ \/ /\ server[t].state = "live" /\ Next1 \in Pairs
        /\ server' = [server EXCEPT ![t].state = "rotated",
                                    ![Next1] = server[t]]
        /\ refresh' = [refresh EXCEPT !.pc = "answered", !.got = Next1]
        /\ UNCHANGED reused
     \/ /\ server[t].state # "live"
        /\ server' = [u \in Pairs |->
             IF server[u].user = server[t].user THEN Revoked(server[u])
             ELSE server[u]]
        /\ refresh' = [refresh EXCEPT !.pc = "answered"]
        /\ reused' = (reused \/ server[t].state = "rotated")
     \/ /\ refresh' = [refresh EXCEPT !.pc = "answered"]
        /\ UNCHANGED <<server, reused>>
  /\ UNCHANGED <<store, req, ui, flow, stale, owner, losses, reloads>>

\* Mutant: requests that wait for a refresh that fails are forgotten.
WaitersAs(ok) ==
  [r \in Requests |->
     IF req[r].pc = "waiting" /\ ok
     THEN [req[r] EXCEPT !.pc = "queued", !.retry = TRUE]
     ELSE req[r]]

\* What the waiting requests do: retry once, or fail with the refresh.
Waiters(ok) ==
  [r \in Requests |->
     IF req[r].pc # "waiting" THEN req[r]
     ELSE IF ok THEN [req[r] EXCEPT !.pc = "queued", !.retry = TRUE]
     ELSE Idle]

\* The provider waits for the same refresh: bootstrap then loads the user,
\* logout then sends its request.
FlowAfter(ok) ==
  CASE flow.pc = "boot" /\ ok -> [pc |-> "load", gen |-> store'.gen]
    [] flow.pc = "out" /\ ok -> [pc |-> "logout", gen |-> store'.gen]
    [] flow.pc \in {"boot", "out"} /\ ~ok -> [pc |-> "none", gen |-> 0]
    [] OTHER -> flow

\* bootstrap's catch: the tokens say whether a retry is of use.
UiAfter(ok) ==
  IF flow.pc = "boot" /\ ~ok
  THEN [status |-> IF store'.refresh = None THEN "anonymous"
                   ELSE "unavailable", user |-> None]
  ELSE ui

RefreshOk ==
  LET ok == Current(refresh.epoch) IN
  /\ refresh.pc = "answered" /\ refresh.got # None
  /\ store' = IF ok THEN Rotated(store, refresh.got) ELSE store
  /\ ui' = UiAfter(ok)
  /\ req' = Waiters(ok)
  /\ flow' = FlowAfter(ok)
  /\ refresh' = NoCall
  /\ UNCHANGED <<server, stale, owner, reused, losses, reloads>>

RefreshRefused ==
  /\ refresh.pc = "answered" /\ refresh.got = None
  /\ IF Current(refresh.epoch) THEN ExpireSession
     ELSE store' = store /\ ui' = UiAfter(FALSE)
  /\ req' = Waiters(FALSE)
  /\ flow' = FlowAfter(FALSE)
  /\ refresh' = NoCall
  /\ UNCHANGED <<server, stale, owner, reused, losses, reloads>>

\* The answer is lost, before or after the server did its part.
RefreshLost ==
  /\ refresh.pc \in {"sent", "answered"}
  /\ losses < MaxLosses /\ losses' = losses + 1
  /\ store' = store
  /\ ui' = UiAfter(FALSE)
  /\ req' = Waiters(FALSE)
  /\ flow' = FlowAfter(FALSE)
  /\ refresh' = NoCall
  /\ UNCHANGED <<server, stale, owner, reused, reloads>>

-----------------------------------------------------------------------------
(* The provider.                                                           *)

\* login: the server issues a pair, it is stored, the user is loaded.
Login(u) ==
  /\ ui.status = "anonymous" /\ flow.pc = "none" /\ Next1 \in Pairs
  /\ server' = [server EXCEPT ![Next1] =
       [user |-> u, login |-> Next1, state |-> "live"]]
  /\ store' = Set(store, Next1)
  /\ owner' = Next1
  /\ flow' = [pc |-> "load", gen |-> store'.gen]
  /\ UNCHANGED <<refresh, req, ui, stale, reused, losses, reloads>>

\* loadUser: the user it returns is the access token's.  Its own retry after
\* a 401 is left out: it succeeds or fails.
LoadUser ==
  /\ flow.pc = "load" /\ flow.gen = store.gen /\ store.access \notin stale
  /\ ui' = [status |-> "authenticated", user |-> server[store.access].user]
  /\ flow' = [pc |-> "none", gen |-> 0]
  /\ UNCHANGED <<store, refresh, req, server, stale, owner, reused, losses,
                 reloads>>

\* It fails: bootstrap looks at the tokens, login clears them.
LoadFails ==
  /\ flow.pc = "load"
  /\ flow' = [pc |-> "none", gen |-> 0]
  /\ \/ /\ ui.status = "bootstrapping"
        /\ ui' = [status |-> IF store.refresh = None THEN "anonymous"
                             ELSE "unavailable", user |-> None]
        /\ UNCHANGED <<store, owner>>
     \/ /\ ui.status # "bootstrapping"
        /\ store' = Clear(store) /\ ui' = Anonymous /\ owner' = None
  /\ UNCHANGED <<refresh, req, server, stale, reused, losses, reloads>>

\* logout refreshes first.
AskLogout ==
  /\ ui.status = "authenticated" /\ flow.pc = "none"
  /\ store.refresh # None
  /\ refresh' = Join
  /\ flow' = [pc |-> "out", gen |-> store.gen]
  /\ UNCHANGED <<store, req, ui, server, stale, owner, reused, losses,
                 reloads>>

\* Then the server revokes the end of the chain, the tokens are cleared.
Logout ==
  /\ flow.pc = "logout" /\ flow.gen = store.gen /\ store.access \notin stale
  /\ server' = [t \in Pairs |->
       IF server[t].login = server[store.refresh].login
       THEN Revoked(server[t]) ELSE server[t]]
  /\ store' = Clear(store) /\ ui' = Anonymous /\ owner' = None
  /\ flow' = [pc |-> "none", gen |-> 0]
  /\ UNCHANGED <<refresh, req, stale, reused, losses, reloads>>

\* Or it is refused, and the user is still signed in.
LogoutFails ==
  /\ flow.pc = "logout"
  /\ flow' = [pc |-> "none", gen |-> 0]
  /\ UNCHANGED <<store, refresh, req, ui, server, stale, owner, reused,
                 losses, reloads>>

\* endSession, after a password change has revoked every token.
EndSession ==
  /\ ui.status = "authenticated" /\ flow.pc = "none"
  /\ server' = [t \in Pairs |->
       IF server[t].user = ui.user THEN Revoked(server[t]) ELSE server[t]]
  /\ store' = Clear(store) /\ ui' = Anonymous /\ owner' = None
  /\ UNCHANGED <<refresh, req, flow, stale, reused, losses, reloads>>

\* A reload, or the retry of bootstrap: sessionStorage keeps the refresh
\* token, everything else is gone; the server may still serve the refresh.
Reload ==
  /\ reloads < MaxReloads /\ reloads' = reloads + 1
  /\ LET kept == [Empty EXCEPT !.refresh = store.refresh]
         lost == refresh.pc = "sent" /\ server[refresh.tok].state = "live"
     IN
     /\ store' = kept
     /\ req' = [r \in Requests |-> Idle]
     /\ IF kept.refresh = None
        THEN /\ ui' = Anonymous
             /\ refresh' = NoCall
             /\ flow' = [pc |-> "none", gen |-> 0]
        ELSE /\ ui' = [status |-> "bootstrapping", user |-> None]
             /\ refresh' = [pc |-> "sent", tok |-> kept.refresh, epoch |-> 0,
                            got |-> None]
             /\ flow' = [pc |-> "boot", gen |-> 0]
     /\ \/ UNCHANGED server
        \/ /\ lost /\ Next1 \in Pairs
           /\ server' = [server EXCEPT ![refresh.tok].state = "rotated",
                                       ![Next1] = server[refresh.tok]]
  /\ UNCHANGED <<stale, owner, reused, losses>>

RetryBootstrap ==
  /\ ui.status = "unavailable" /\ flow.pc = "none"
  /\ refresh' = Join
  /\ ui' = [status |-> "bootstrapping", user |-> None]
  /\ flow' = [pc |-> "boot", gen |-> store.gen]
  /\ UNCHANGED <<store, req, server, stale, owner, reused, losses, reloads>>

\* The lifetime of an access token passes.
AccessExpires(t) ==
  /\ t \in Issued \ stale
  /\ stale' = stale \cup {t}
  /\ UNCHANGED <<store, refresh, req, ui, flow, server, owner, reused,
                 losses, reloads>>

Steps ==
  \/ Serve \/ RefreshOk \/ RefreshRefused
  \/ LoadUser \/ LoadFails \/ Logout \/ LogoutFails
  \/ \E r \in Requests : Send(r) \/ Answered(r) \/ Refused(r)

Next ==
  \/ Steps \/ RefreshLost \/ Reload \/ RetryBootstrap
  \/ \E u \in Users : Login(u)
  \/ AskLogout \/ EndSession
  \/ \E r \in Requests : Begin(r)
  \/ \E t \in Pairs : AccessExpires(t)

Spec == Init /\ [][Next]_vars

\* Callbacks run, and the server answers what it is sent.
FairSpec == Spec /\ WF_vars(Serve)
              /\ WF_vars(RefreshOk \/ RefreshRefused)
              /\ WF_vars(LoadUser \/ LoadFails)
              /\ \A r \in Requests :
                   WF_vars(Send(r) \/ Answered(r) \/ Refused(r))

-----------------------------------------------------------------------------
\* A request of one owner's pages is never sent with another owner's token:
\* not when it is retried after a refresh, and not when the user has logged
\* out and another has logged in since.
NoForeignRequest ==
  \A r \in Requests : req[r].pc = "sent" /\ req[r].access # None =>
    server[req[r].access].login = req[r].owner

\* The tokens kept are those of the login that established the session: the
\* late answer of an earlier session's refresh does not bring it back.
KeepsOwnTokens ==
  store.refresh # None => server[store.refresh].login = owner

\* Who is shown as signed in has tokens, and they are that user's.
SignedInHasTokens ==
  ui.status = "authenticated" =>
    /\ store.refresh # None
    /\ server[store.refresh].user = ui.user

\* While no answer is lost and the page is not reloaded, the tab never sends
\* a refresh token twice: however many requests meet a 401 at once, the
\* server has no reason to see a reuse and end the user's sessions.
NoSelfReuse == ~reused

\* Every request of a page is settled, and bootstrap comes to an answer.
RequestsSettle ==
  /\ \A r \in Requests : req[r].pc # "none" ~> req[r].pc = "none"
  /\ ui.status = "bootstrapping" ~> ui.status # "bootstrapping"
=============================================================================
