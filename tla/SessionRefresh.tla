--------------------------- MODULE SessionRefresh ---------------------------
(***************************************************************************)
(* How the BFF keeps one browser session's tokens fresh: relayRequest of   *)
(* src/server/relay.ts, refreshSession and logout of server.ts, and the    *)
(* session store they share.  Requests are relayed concurrently, expired   *)
(* tokens are refreshed by one call that the others join, logout waits for *)
(* a refresh under way.                                                    *)
(*                                                                         *)
(* The session's tokens are numbered by the refresh that issued them, 0    *)
(* standing for a session that is gone.  Both session stores work          *)
(* synchronously, so a handler's steps between two network calls are one   *)
(* action, the continuations of an ending refresh included; the network    *)
(* calls, all bounded by a timeout, separate actions.  Paths that need no  *)
(* session touch none of this state and are left out.                      *)
(***************************************************************************)
EXTENDS Integers, Sequences, SequencesExt

CONSTANTS
  Requests,        (* requests relayed to the proxy                         *)
  Logouts,         (* calls of the logout route                             *)
  MaxTokens        (* bound on the token pairs the auth service issues      *)

ASSUME RefreshAssumption == MaxTokens \in Nat \ {0}

VARIABLES
  session,         (* the tokens in the store, 0 for no such session        *)
  inFlight,        (* the tokens under refresh, 0 for none: refreshes       *)
  issued,          (* token pairs the auth service issued                   *)
  presented,       (* refresh tokens this server presented, in order        *)
  stage, body, attempts,
  logout, revokes  (* progress of a logout, and the tokens it will revoke   *)

store == <<session, inFlight, issued, presented>>
relays == <<stage, body, attempts>>
logouts == <<logout, revokes>>
vars == <<store, relays, logouts>>

NoSession == 0
Idle == 0
Bodies == {"buffered", "stream", "replayed"}
RelayStages == {"new", "sent", "refreshing", "redirected", "answered",
                "unauthenticated", "lost"}
LogoutStages == {"new", "waiting", "revoking", "done", "lost"}

(* A user who has just signed in.                                          *)
Init ==
  /\ session = 1 /\ inFlight = Idle /\ issued = 1 /\ presented = <<>>
  /\ stage = [r \in Requests |-> "new"]
  /\ body \in [Requests -> {"buffered", "stream"}]
  /\ attempts = [r \in Requests |-> <<>>]
  /\ logout = [l \in Logouts |-> "new"]
  /\ revokes = [l \in Logouts |-> NoSession]

---------------------------------------------------------------------------
(* Relaying.                                                               *)

(* Where a request goes on once its refresh has succeeded: an upload whose *)
(* stream is spent has to come again from the browser.                     *)
Resumed(r) ==
  IF body[r] = "stream" /\ attempts[r] # <<>> THEN "redirected" ELSE "sent"

(* Mutation: the retry goes out with the token the request began with.     *)
StaleResend(r, tokens) ==
  IF attempts[r] = <<>> THEN tokens ELSE Last(attempts[r])

TokensToSend(r, tokens) == tokens

(* The requests of S go on with the given tokens.                          *)
GoOn(S, tokens) ==
  /\ stage' = [r \in Requests |-> IF r \in S THEN Resumed(r) ELSE stage[r]]
  /\ attempts' = [r \in Requests |->
       IF r \in S /\ Resumed(r) = "sent"
       THEN Append(attempts[r], TokensToSend(r, tokens)) ELSE attempts[r]]

(* Mutation: every caller starts a refresh of its own.                     *)
MayJoinNone == FALSE

MayJoin == inFlight # Idle

(* Mutation: a session that is gone counts as one with other tokens.       *)
ReplacedOrGone(stale) == session # stale

(* The session got newer tokens meanwhile.                                 *)
Replaced(stale) == session \notin {NoSession, stale}

(* refreshSession(id, stale).                                              *)
RefreshSession(r, stale) ==
  \/ /\ session = NoSession
     /\ stage' = [stage EXCEPT ![r] = "unauthenticated"]
     /\ UNCHANGED <<store, attempts>>
  \/ /\ Replaced(stale)
     /\ GoOn({r}, session)
     /\ UNCHANGED store
  \/ /\ session = stale /\ MayJoin
     /\ stage' = [stage EXCEPT ![r] = "refreshing"]
     /\ UNCHANGED <<store, attempts>>
  \/ /\ session = stale /\ session # NoSession /\ ~MayJoin
     /\ inFlight' = session
     /\ presented' = Append(presented, session)
     /\ stage' = [stage EXCEPT ![r] = "refreshing"]
     /\ UNCHANGED <<session, issued, attempts>>

(* A request arrives, or an upload comes again after the redirect.         *)
Arrive(r) ==
  /\ stage[r] \in {"new", "redirected"}
  /\ body' = [body EXCEPT ![r] = IF stage[r] = "redirected" THEN "replayed" ELSE @]
  /\ \/ /\ session = NoSession
        /\ stage' = [stage EXCEPT ![r] = "unauthenticated"]
        /\ UNCHANGED <<store, attempts>>
     \/ /\ session # NoSession
        /\ stage' = [stage EXCEPT ![r] = "sent"]
        /\ attempts' = [attempts EXCEPT ![r] = Append(@, session)]
        /\ UNCHANGED store
     \/ /\ session # NoSession      (* the token is about to expire         *)
        /\ RefreshSession(r, session)
  /\ UNCHANGED logouts

(* Any answer but 401, or none.                                            *)
UpstreamAnswers(r) ==
  /\ stage[r] = "sent"
  /\ stage' = [stage EXCEPT ![r] = "answered"]
  /\ UNCHANGED <<store, body, attempts, logouts>>

(* 401: refresh and retry once.  A second 401, or one for an upload sent   *)
(* twice, goes to the browser as it is.                                    *)
UpstreamRejects(r) ==
  /\ stage[r] = "sent"
  /\ IF Len(attempts[r]) = 2 \/ body[r] = "replayed"
     THEN /\ stage' = [stage EXCEPT ![r] = "answered"]
          /\ UNCHANGED <<store, attempts>>
     ELSE RefreshSession(r, Last(attempts[r]))
  /\ UNCHANGED <<body, logouts>>

---------------------------------------------------------------------------
(* The end of a refresh.                                                   *)

Refreshing == {r \in Requests : stage[r] = "refreshing"}

(* Mutation: a logout does not outlive the refresh that fails.             *)
ResumeOnSuccess(ok, l) == ok /\ logout[l] = "waiting"

ResumesLogout(ok, l) == logout[l] = "waiting"

(* The logouts that waited delete the session.                             *)
ResumeLogouts(ok) ==
  /\ logout' = [l \in Logouts |->
       IF ResumesLogout(ok, l) THEN "revoking" ELSE logout[l]]
  /\ UNCHANGED revokes

Waited == \E l \in Logouts : logout[l] = "waiting"

RefreshSucceeds ==
  /\ inFlight # Idle
  /\ issued < MaxTokens
  /\ issued' = issued + 1
  /\ session' = IF Waited THEN NoSession ELSE issued + 1
  /\ inFlight' = Idle
  /\ GoOn(Refreshing, issued + 1)
  /\ ResumeLogouts(TRUE)
  /\ UNCHANGED <<presented, body>>

(* Mutation: a failed refresh leaves the session in the store.             *)
SessionKept == IF Waited THEN NoSession ELSE session

SessionAfterFailure == NoSession

(* The auth service refuses, fails or times out: the session is deleted.   *)
RefreshFails ==
  /\ inFlight # Idle
  /\ session' = SessionAfterFailure
  /\ inFlight' = Idle
  /\ stage' = [r \in Requests |->
       IF r \in Refreshing THEN "unauthenticated" ELSE stage[r]]
  /\ ResumeLogouts(FALSE)
  /\ UNCHANGED <<issued, presented, body, attempts>>

---------------------------------------------------------------------------
(* Logout.                                                                 *)

(* Mutation: logout does not wait for a refresh.                           *)
NeverWaits == FALSE

MustWait == inFlight # Idle

(* The tokens to revoke are read before the wait.                          *)
Logout(l) ==
  /\ logout[l] = "new"
  /\ revokes' = [revokes EXCEPT ![l] = session]
  /\ IF MustWait
     THEN /\ logout' = [logout EXCEPT ![l] = "waiting"]
          /\ UNCHANGED session
     ELSE /\ logout' = [logout EXCEPT ![l] = "revoking"]
          /\ session' = NoSession
  /\ UNCHANGED <<inFlight, issued, presented, relays>>

(* The auth service's logout has been tried; the answer is 204.            *)
LogoutDone(l) ==
  /\ logout[l] = "revoking"
  /\ logout' = [logout EXCEPT ![l] = "done"]
  /\ UNCHANGED <<store, relays, revokes>>

---------------------------------------------------------------------------
(* The server restarts: the store is on disk, everything else is lost.     *)
Restart ==
  /\ inFlight' = Idle
  /\ presented' = <<>>
  /\ stage' = [r \in Requests |->
       IF stage[r] \in {"sent", "refreshing"} THEN "lost" ELSE stage[r]]
  /\ logout' = [l \in Logouts |->
       IF logout[l] \in {"waiting", "revoking"} THEN "lost" ELSE logout[l]]
  /\ UNCHANGED <<session, issued, body, attempts, revokes>>

Next ==
  \/ \E r \in Requests : Arrive(r) \/ UpstreamAnswers(r) \/ UpstreamRejects(r)
  \/ RefreshSucceeds \/ RefreshFails
  \/ \E l \in Logouts : Logout(l) \/ LogoutDone(l)
  \/ Restart

Spec == Init /\ [][Next]_vars

(* proxyFetch gives every network call a timeout.                          *)
NetworkFairness ==
  /\ \A r \in Requests : WF_vars(UpstreamAnswers(r) \/ UpstreamRejects(r))
  /\ WF_vars(RefreshSucceeds \/ RefreshFails)
  /\ \A l \in Logouts : WF_vars(LogoutDone(l))

FairSpec == Spec /\ NetworkFairness

---------------------------------------------------------------------------
(* Type invariant.                                                         *)
TypeOK ==
  /\ issued \in 1..MaxTokens
  /\ session \in 0..issued /\ inFlight \in 0..issued
  /\ presented \in Seq(1..issued)
  /\ stage \in [Requests -> RelayStages]
  /\ body \in [Requests -> Bodies]
  /\ attempts \in [Requests -> Seq(1..issued)]
  /\ logout \in [Logouts -> LogoutStages]
  /\ revokes \in [Logouts -> 0..issued]

(* However many requests find their token expired at once, the server      *)
(* presents each refresh token once: a rotating auth service would answer  *)
(* a second use by ending the session.                                     *)
RefreshTokenUsedOnce ==
  \A i, j \in DOMAIN presented : i < j => presented[i] < presented[j]

(* A request goes upstream at most twice, the second time with newer       *)
(* tokens: nobody is refused for a token that was already replaced.        *)
RetriesWithNewerToken ==
  \A r \in Requests :
    /\ Len(attempts[r]) <= 2
    /\ \A i, j \in DOMAIN attempts[r] : i < j => attempts[r][i] < attempts[r][j]

(* Once a logout has deleted the session, no refresh that was under way    *)
(* brings it back and none is under way that could.                        *)
LoggedOutForGood ==
  (\E l \in Logouts : logout[l] \in {"revoking", "done"}) =>
    session = NoSession /\ inFlight = Idle

(* The browser is told to sign in again only when its session is gone.     *)
UnauthenticatedMeansGone ==
  (\E r \in Requests : stage[r] = "unauthenticated") => session = NoSession

(* Every request and every logout the server took is answered, unless the  *)
(* server restarts.                                                        *)
AllAnswered ==
  /\ \A r \in Requests :
       stage[r] = "refreshing" ~> stage[r] # "refreshing"
  /\ \A l \in Logouts :
       logout[l] \in {"waiting", "revoking"} ~> logout[l] \in {"done", "lost"}
=============================================================================
