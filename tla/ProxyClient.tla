---------------------------- MODULE ProxyClient -----------------------------
(***************************************************************************)
(* The core's client of the proxy (core/proxy-api-client.ts): calls that   *)
(* share one token store and one refresh, and a logout.  It is written for *)
(* any HttpPort and TokenStore.  The store answers with what it holds at   *)
(* some moment, and the client goes on with that later; nobody else writes *)
(* to it.  Tokens are numbered by the refresh that issued them.            *)
(***************************************************************************)
EXTENDS Integers, Sequences

CONSTANTS
  Calls,
  MaxTokens         (* bound on the token pairs issued                      *)

VARIABLES
  tokens,           (* the store: a pair, an incomplete one, or Nothing     *)
  issued,           (* the newest pair                                      *)
  refreshTask,      (* where the refresh under way is, and with which pair  *)
  spent,            (* history: pairs whose refresh token was answered      *)
  call,             (* per call: where it is                                *)
  read, held,       (* per call: the pair read last, the one to be compared *)
  attempts,         (* per call: the pairs it was sent with                 *)
  logout,           (* where the logout is                                  *)
  overtaken         (* history: a refresh began while the logout was read   *)

calls == <<call, read, held, attempts>>
vars == <<tokens, issued, refreshTask, spent, calls, logout, overtaken>>

Nothing == 0
Partial == -1
Complete(t) == t > 0
NoTask == [phase |-> "none", pair |-> Nothing]

Init ==
  /\ tokens \in {Nothing, Partial, 1} /\ issued = 1
  /\ refreshTask = NoTask /\ spent = {}
  /\ call = [c \in Calls |-> "new"]
  /\ read = [c \in Calls |-> Nothing] /\ held = [c \in Calls |-> Nothing]
  /\ attempts = [c \in Calls |-> <<>>]
  /\ logout = "none" /\ overtaken = FALSE

Goes(c, s) == call' = [call EXCEPT ![c] = s]
Reads(c) == read' = [read EXCEPT ![c] = tokens]

---------------------------------------------------------------------------
(* A call: authorized.                                                     *)

Begin(c) ==
  /\ call[c] = "new" /\ Goes(c, "session") /\ Reads(c)
  /\ UNCHANGED <<tokens, issued, refreshTask, spent, held, attempts, logout, overtaken>>

sendAuthorized(c, t) ==
  /\ Goes(c, "sent") /\ attempts' = [attempts EXCEPT ![c] = Append(@, t)]

(* refreshIfUnchanged begins with another read.                            *)
ReadsAgain(c, t) ==
  /\ Goes(c, "compare") /\ held' = [held EXCEPT ![c] = t] /\ Reads(c)

(* currentTokens: an incomplete pair is cleared, one about to expire is    *)
(* refreshed, any other is used.                                           *)
currentTokens(c) ==
  /\ call[c] = "session"
  /\ IF ~Complete(read[c])
     THEN tokens' = Nothing /\ Goes(c, "unauthenticated") /\ UNCHANGED <<read, held, attempts>>
     ELSE /\ \/ sendAuthorized(c, read[c]) /\ UNCHANGED <<read, held>>
             \/ ReadsAgain(c, read[c]) /\ UNCHANGED attempts
          /\ UNCHANGED tokens
  /\ UNCHANGED <<issued, refreshTask, spent, logout, overtaken>>

Answered(c) ==
  /\ call[c] = "sent" /\ Goes(c, "over")
  /\ UNCHANGED <<tokens, issued, refreshTask, spent, read, held, attempts, logout, overtaken>>

(* The first 401 sends it for newer tokens, the second one is an error.    *)
Unauthorized(c) ==
  /\ call[c] = "sent"
  /\ IF Len(attempts[c]) = 1 THEN ReadsAgain(c, attempts[c][1])
                             ELSE Goes(c, "unauthenticated") /\ UNCHANGED <<read, held>>
  /\ UNCHANGED <<tokens, issued, refreshTask, spent, attempts, logout, overtaken>>

(* refreshIfUnchanged, with what was read: gone, newer, or still the same. *)
TokensGone(c) ==
  /\ call[c] = "compare" /\ read[c] = Nothing /\ Goes(c, "unauthenticated")
  /\ UNCHANGED <<tokens, issued, refreshTask, spent, read, held, attempts, logout, overtaken>>

TokensNewer(c) ==
  /\ call[c] = "compare" /\ read[c] \notin {Nothing, held[c]}
  /\ sendAuthorized(c, read[c])
  /\ UNCHANGED <<tokens, issued, refreshTask, spent, read, held, logout, overtaken>>

(* performRefresh reads the store once more.  One that took the pair that  *)
(* was rejected instead would present:                                     *)
PairRejected(c) == held[c]
PairToPresent(c) == tokens

(* refresh: the first call begins the task, the others wait with it.       *)
refresh(c) ==
  /\ call[c] = "compare" /\ read[c] = held[c] /\ read[c] # Nothing
  /\ Goes(c, "refreshing")
  /\ refreshTask' = IF refreshTask = NoTask THEN [phase |-> "read", pair |-> PairToPresent(c)]
                                        ELSE refreshTask
  /\ overtaken' = (overtaken \/ (refreshTask = NoTask /\ logout \in {"waited", "read"}))
  /\ UNCHANGED <<tokens, issued, spent, read, held, attempts, logout>>

SendAgain(c) ==
  /\ call[c] = "refreshed" /\ sendAuthorized(c, read[c])
  /\ UNCHANGED <<tokens, issued, refreshTask, spent, read, held, logout, overtaken>>

---------------------------------------------------------------------------
(* The shared refresh.                                                     *)

(* All that wait for it go on with the new pair, or fail.                  *)
Settles(s, t) ==
  /\ refreshTask' = NoTask
  /\ call' = [c \in Calls |-> IF call[c] = "refreshing" THEN s ELSE call[c]]
  /\ read' = [c \in Calls |-> IF call[c] = "refreshing" THEN t ELSE read[c]]
  /\ logout' = IF logout = "waiting" THEN "waited" ELSE logout
  /\ UNCHANGED <<held, attempts, overtaken>>

PresentToken ==
  /\ refreshTask.phase = "read" /\ Complete(refreshTask.pair)
  /\ refreshTask' = [refreshTask EXCEPT !.phase = "sent"]
  /\ UNCHANGED <<tokens, issued, spent, calls, logout, overtaken>>

NothingToPresent ==
  /\ refreshTask.phase = "read" /\ ~Complete(refreshTask.pair)
  /\ tokens' = Nothing /\ Settles("unauthenticated", Nothing) /\ UNCHANGED <<issued, spent>>

Refreshed ==
  /\ refreshTask.phase = "sent" /\ issued < MaxTokens
  /\ issued' = issued + 1 /\ tokens' = issued' /\ spent' = spent \cup {refreshTask.pair}
  /\ Settles("refreshed", issued')

(* A refusal, an answer that does not decode, a store that cannot write.   *)
RefreshRefused ==
  /\ refreshTask.phase = "sent" /\ tokens' = Nothing
  /\ spent' = spent \cup {refreshTask.pair}
  /\ Settles("unauthenticated", Nothing) /\ UNCHANGED issued

(* A request that does not get through leaves the tokens.                  *)
RefreshUnsent ==
  /\ refreshTask.phase = "sent" /\ Settles("over", Nothing)
  /\ UNCHANGED <<tokens, issued, spent>>

---------------------------------------------------------------------------
(* logout waits for the refresh under way when it begins, and for no       *)
(* later one.                                                              *)

LogoutBegins ==
  /\ logout = "none" /\ logout' = IF refreshTask = NoTask THEN "waited" ELSE "waiting"
  /\ UNCHANGED <<tokens, issued, refreshTask, spent, calls, overtaken>>

LogoutReads ==
  /\ logout = "waited" /\ logout' = "read"
  /\ UNCHANGED <<tokens, issued, refreshTask, spent, calls, overtaken>>

(* The call to the proxy that follows changes nothing, whatever its answer.*)
LogoutClears ==
  /\ logout = "read" /\ logout' = "over" /\ tokens' = Nothing
  /\ UNCHANGED <<issued, refreshTask, spent, calls, overtaken>>

Next ==
  \/ \E c \in Calls :
       \/ Begin(c) \/ currentTokens(c) \/ Answered(c) \/ Unauthorized(c) \/ TokensGone(c)
       \/ TokensNewer(c) \/ refresh(c) \/ SendAgain(c)
  \/ PresentToken \/ NothingToPresent \/ Refreshed \/ RefreshRefused \/ RefreshUnsent
  \/ LogoutBegins \/ LogoutReads \/ LogoutClears

Spec == Init /\ [][Next]_vars

---------------------------------------------------------------------------
(* A refresh token that was answered is not presented again, whichever     *)
(* calls were refused with the tokens it belongs to, and with whatever     *)
(* they had read when they were.                                           *)
RefreshJoined == refreshTask.phase = "sent" => refreshTask.pair \notin spent

(* A call goes out at most twice, and the second time with newer tokens.   *)
RetriesNewer ==
  \A c \in Calls :
    Len(attempts[c]) <= 2 /\ (Len(attempts[c]) = 2 => attempts[c][1] < attempts[c][2])

(* A refresh that was under way when the logout began does not bring the   *)
(* tokens back.  One that begins while the logout reads them may.          *)
LoggedOut == logout = "over" /\ ~overtaken => tokens = Nothing

TokensKeptTogether == RefreshJoined /\ RetriesNewer /\ LoggedOut
=============================================================================
