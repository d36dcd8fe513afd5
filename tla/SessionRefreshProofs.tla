------------------------ MODULE SessionRefreshProofs ------------------------
(***************************************************************************)
(* Proofs about SessionRefresh for any requests, any logouts and any       *)
(* number of token pairs.                                                  *)
(***************************************************************************)
EXTENDS SessionRefresh, SequenceTheorems, TLAPS

---------------------------------------------------------------------------
(* Sequences of token numbers.                                             *)

Increasing(s) == \A i, j \in DOMAIN s : i < j => s[i] < s[j]
Below(s, t) == \A i \in DOMAIN s : s[i] < t

(* A sequence over fewer tokens is one over more.                          *)
LEMMA MoreTokens ==
  ASSUME NEW m \in Nat, NEW n \in Nat, m <= n, NEW s \in Seq(1..m)
  PROVE  s \in Seq(1..n)
<1>1. 1..m \subseteq 1..n
  OBVIOUS
<1>. QED  BY <1>1

(* Every token of a sequence is one of those issued.                       *)
LEMMA TokenSequence ==
  ASSUME NEW n \in Nat, NEW s \in Seq(1..n)
  PROVE  Below(s, n + 1) /\ Len(s) \in Nat
<1>1. Len(s) \in Nat /\ DOMAIN s = 1..Len(s)
  OBVIOUS
<1>2. \A i \in 1..Len(s) : s[i] \in 1..n
  OBVIOUS
<1>. QED  BY <1>1, <1>2 DEF Below

(* The last token of a sequence of one is its only one.                    *)
LEMMA OneToken ==
  ASSUME NEW n \in Nat, NEW s \in Seq(1..n), Len(s) <= 2, Len(s) # 2, s # <<>>
  PROVE  /\ Len(s) = 1 /\ Last(s) \in 1..n
         /\ \A u \in Nat : Last(s) < u => Below(s, u)
<1>1. Len(s) \in Nat /\ DOMAIN s = 1..Len(s) /\ Len(s) # 0
  BY EmptySeq
<1>2. Len(s) = 1
  BY <1>1
<1>3. Last(s) = s[1] /\ s[1] \in 1..n
  BY <1>2 DEF Last
<1>. QED  BY <1>1, <1>2, <1>3 DEF Below

(* A greater token at the end keeps a sequence increasing.                 *)
LEMMA AppendIncreasing ==
  ASSUME NEW n \in Nat, NEW s \in Seq(1..n), NEW t \in 1..n,
         Increasing(s), Below(s, t)
  PROVE  /\ Append(s, t) \in Seq(1..n) /\ Increasing(Append(s, t))
         /\ Len(Append(s, t)) = Len(s) + 1
         /\ \A u \in Nat : t < u => Below(Append(s, t), u)
<1>. DEFINE a == Append(s, t)
<1>1. a \in Seq(1..n) /\ Len(a) = Len(s) + 1 /\ DOMAIN a = 1..(Len(s) + 1)
  OBVIOUS
<1>2. \A i \in 1..Len(s) : a[i] = s[i] /\ s[i] \in 1..n
  OBVIOUS
<1>3. a[Len(s) + 1] = t /\ Len(s) \in Nat /\ DOMAIN s = 1..Len(s)
  OBVIOUS
<1>. HIDE DEF a
<1>4. Increasing(a)
  <2> SUFFICES ASSUME NEW i \in 1..(Len(s) + 1), NEW j \in 1..(Len(s) + 1), i < j
               PROVE  a[i] < a[j]
    BY <1>1 DEF Increasing
  <2>1. i \in 1..Len(s)
    BY <1>3
  <2>2. CASE j \in 1..Len(s)
    BY <1>2, <1>3, <2>1, <2>2 DEF Increasing
  <2>3. CASE j = Len(s) + 1
    BY <1>2, <1>3, <2>1, <2>3 DEF Below
  <2>. QED  BY <1>3, <2>2, <2>3
<1>5. ASSUME NEW u \in Nat, t < u  PROVE Below(a, u)
  <2>1. ASSUME NEW i \in 1..Len(s)  PROVE a[i] < u
    <3>1. a[i] < t
      BY <1>2, <1>3 DEF Below
    <3>2. a[i] \in Nat /\ t \in Nat
      BY <1>2
    <3>. QED  BY <1>5, <3>1, <3>2
  <2>2. a[Len(s) + 1] < u
    BY <1>3, <1>5
  <2>3. \A i \in 1..(Len(s) + 1) : i \in 1..Len(s) \/ i = Len(s) + 1
    BY <1>3
  <2>. QED  BY <1>1, <2>1, <2>2, <2>3 DEF Below
<1>. QED  BY <1>1, <1>4, <1>5 DEF a

---------------------------------------------------------------------------
(* The inductive invariant.  That a request goes out again with newer      *)
(* tokens follows from where its attempts stand against the session's      *)
(* tokens, which are always the newest ones issued.                        *)

Request(r) ==
  /\ Len(attempts[r]) <= 2 /\ Increasing(attempts[r])
  /\ stage[r] = "new" => Len(attempts[r]) = 0
  /\ stage[r] = "refreshing" => Len(attempts[r]) <= 1
  /\ stage[r] = "redirected" => Len(attempts[r]) = 1 /\ Below(attempts[r], issued)
  /\ stage[r] = "sent" => Len(attempts[r]) >= 1
  /\ stage[r] = "unauthenticated" => session = NoSession

Tokens ==
  /\ session \in {NoSession, issued}
  /\ inFlight # Idle => session = inFlight
  /\ Increasing(presented)
  /\ session # NoSession /\ inFlight = Idle => Below(presented, session)

IInv ==
  /\ TypeOK /\ Tokens /\ LoggedOutForGood
  /\ \A r \in Requests : Request(r)

LEMMA InitIInv == Init => IInv
<1> SUFFICES ASSUME Init  PROVE IInv
  OBVIOUS
<1>1. \A n \in Nat : <<>> \in Seq(1..n) /\ Len(<<>>) = 0
  BY EmptySeq
<1>2. TypeOK
  BY <1>1, RefreshAssumption
     DEF Init, TypeOK, RelayStages, LogoutStages, Bodies, Idle, NoSession
<1>3. Tokens
  BY DEF Init, Tokens, Increasing, Below, NoSession, Idle
<1>4. LoggedOutForGood
  BY DEF Init, LoggedOutForGood
<1>5. ASSUME NEW r \in Requests  PROVE Request(r)
  BY <1>1 DEF Init, Request, Increasing
<1>. QED  BY <1>2, <1>3, <1>4, <1>5 DEF IInv

---------------------------------------------------------------------------
(* What a step does to the requests.                                       *)

(* A request whose attempts stay, and which is answered, lost, refused for *)
(* a session that is gone, or waits for its only refresh.                  *)
LEMMA RequestKept ==
  ASSUME IInv, NEW r \in Requests, attempts'[r] = attempts[r],
         issued' \in Nat, issued <= issued',
         \/ stage'[r] = stage[r] \/ stage'[r] \in {"answered", "lost", "unauthenticated"}
         \/ stage'[r] = "refreshing" /\ Len(attempts[r]) <= 1,
         stage'[r] = "unauthenticated" => session' = NoSession
  PROVE  Request(r)'
<1>1. Request(r) /\ attempts[r] \in Seq(1..issued) /\ issued \in Nat
  BY RefreshAssumption DEF IInv, TypeOK
<1>2. \A i \in DOMAIN attempts[r] : attempts[r][i] \in 1..issued
  BY <1>1
<1>3. Below(attempts[r], issued) => Below(attempts[r], issued')
  BY <1>1, <1>2 DEF Below
<1>. QED  BY <1>1, <1>3 DEF Request

(* One that is sent with tokens newer than those of its last attempt.      *)
LEMMA RequestSent ==
  ASSUME IInv, NEW r \in Requests, issued' \in Nat, issued <= issued',
         NEW t \in 1..issued', Len(attempts[r]) <= 1, Below(attempts[r], t),
         stage'[r] = "sent", attempts'[r] = Append(attempts[r], t)
  PROVE  Request(r)' /\ attempts'[r] \in Seq(1..issued')
<1>1. Request(r) /\ attempts[r] \in Seq(1..issued) /\ issued \in Nat
  BY RefreshAssumption DEF IInv, TypeOK
<1>2. attempts[r] \in Seq(1..issued')
  BY <1>1, MoreTokens
<1>3. /\ attempts'[r] \in Seq(1..issued') /\ Increasing(attempts'[r])
      /\ Len(attempts'[r]) = Len(attempts[r]) + 1
  BY <1>1, <1>2, AppendIncreasing DEF Request
<1>4. Len(attempts[r]) \in Nat
  BY <1>1
<1>. QED  BY <1>3, <1>4 DEF Request

(* Those that go on after a refresh.                                       *)
LEMMA GoOnKeeps ==
  ASSUME IInv, NEW S \in SUBSET Requests, NEW t \in 1..issued', GoOn(S, t),
         issued' \in Nat, issued <= issued', t = issued',
         \A r \in S : Len(attempts[r]) <= 1 /\ Below(attempts[r], t),
         \A r \in Requests : stage[r] = "unauthenticated" => session' = NoSession
  PROVE  /\ stage' \in [Requests -> RelayStages]
         /\ attempts' \in [Requests -> Seq(1..issued')]
         /\ \A r \in Requests : Request(r)'
<1>1. /\ stage' = [r \in Requests |-> IF r \in S THEN Resumed(r) ELSE stage[r]]
      /\ attempts' = [r \in Requests |->
           IF r \in S /\ Resumed(r) = "sent" THEN Append(attempts[r], t) ELSE attempts[r]]
  BY DEF GoOn, TokensToSend
<1>2. \A r \in Requests : stage[r] \in RelayStages /\ attempts[r] \in Seq(1..issued')
  <2>1. issued \in Nat /\ \A r \in Requests : attempts[r] \in Seq(1..issued)
    BY RefreshAssumption DEF IInv, TypeOK
  <2>. QED  BY <2>1, MoreTokens DEF IInv, TypeOK
<1>3. \A r \in Requests :
        \/ Resumed(r) = "sent"
        \/ Resumed(r) = "redirected" /\ attempts[r] # <<>>
  BY DEF Resumed
<1>4. ASSUME NEW r \in Requests
      PROVE  Request(r)' /\ stage'[r] \in RelayStages /\ attempts'[r] \in Seq(1..issued')
  <2>1. CASE r \notin S
    <3>1. stage'[r] = stage[r] /\ attempts'[r] = attempts[r]
      BY <1>1, <2>1
    <3>. QED  BY <1>2, <3>1, RequestKept
  <2>2. CASE r \in S /\ Resumed(r) = "sent"
    <3>1. stage'[r] = "sent" /\ attempts'[r] = Append(attempts[r], t)
      BY <1>1, <2>2
    <3>2. Request(r)' /\ attempts'[r] \in Seq(1..issued')
      BY <2>2, <3>1, RequestSent
    <3>. QED  BY <3>1, <3>2 DEF RelayStages
  <2>3. CASE r \in S /\ Resumed(r) = "redirected" /\ attempts[r] # <<>>
    <3>1. stage'[r] = "redirected" /\ attempts'[r] = attempts[r]
      BY <1>1, <2>3
    <3>2. Len(attempts[r]) = 1 /\ Below(attempts[r], issued')
      <4>1. attempts[r] \in Seq(1..issued) /\ issued \in Nat /\ attempts[r] # <<>>
        BY <2>3, RefreshAssumption DEF IInv, TypeOK
      <4>2. r \in S
        BY <2>3
      <4>3. Len(attempts[r]) <= 1
        BY <4>2
      <4>4. Len(attempts[r]) \in Nat
        BY <4>1, TokenSequence
      <4>5. \A k \in Nat : k <= 1 => k <= 2 /\ k # 2
        OBVIOUS
      <4>6. Len(attempts[r]) <= 2 /\ Len(attempts[r]) # 2
        BY <4>3, <4>4, <4>5
      <4>7. Len(attempts[r]) = 1
        BY <4>1, <4>6, OneToken
      <4>8. Below(attempts[r], t)
        BY <4>2
      <4>. QED  BY <4>7, <4>8
    <3>3. Increasing(attempts[r])
      BY DEF IInv, Request
    <3>. QED  BY <1>2, <3>1, <3>2, <3>3 DEF Request, RelayStages
  <2>. QED  BY <1>3, <2>1, <2>2, <2>3
<1>. QED  BY <1>1, <1>4

---------------------------------------------------------------------------
(* Relaying.                                                               *)

LEMMA RefreshSessionPreserves ==
  ASSUME IInv, NEW r \in Requests, NEW stale \in 1..issued, RefreshSession(r, stale),
         Len(attempts[r]) <= 1, \A u \in Nat : stale < u => Below(attempts[r], u),
         body' \in [Requests -> Bodies], UNCHANGED logouts
  PROVE  IInv'
<1>. USE RefreshAssumption
<1>0. /\ stage \in [Requests -> RelayStages] /\ issued \in Nat /\ session \in 0..issued
      /\ session \in {NoSession, issued}
  BY DEF IInv, TypeOK, Tokens
<1>1. CASE /\ session = NoSession /\ stage' = [stage EXCEPT ![r] = "unauthenticated"]
           /\ UNCHANGED <<store, attempts>>
  <2>1. TypeOK'
    BY <1>1 DEF IInv, TypeOK, RelayStages, store, logouts
  <2>2. Tokens' /\ LoggedOutForGood'
    BY <1>1 DEF IInv, Tokens, LoggedOutForGood, store, logouts
  <2>3. ASSUME NEW q \in Requests  PROVE Request(q)'
    <3>1. \/ stage'[q] = stage[q] \/ stage'[q] = "unauthenticated"
      BY <1>0, <1>1
    <3>2. session' = NoSession /\ issued' = issued /\ attempts'[q] = attempts[q]
      BY <1>1 DEF store
    <3>. QED  BY <1>0, <3>1, <3>2, RequestKept
  <2>. QED  BY <2>1, <2>2, <2>3 DEF IInv
<1>2. CASE Replaced(stale) /\ GoOn({r}, session) /\ UNCHANGED store
  <2>1. session = issued /\ stale < session /\ issued' = issued /\ session' = session
    BY <1>0, <1>2 DEF Replaced, store
  <2>2. /\ stage' \in [Requests -> RelayStages]
        /\ attempts' \in [Requests -> Seq(1..issued')]
        /\ \A q \in Requests : Request(q)'
    <3>1. session \in 1..issued' /\ issued' \in Nat /\ issued <= issued'
      BY <1>0, <2>1
    <3>2. Below(attempts[r], session)
      BY <1>0, <2>1
    <3>3. \A q \in Requests : stage[q] = "unauthenticated" => session' = NoSession
      BY <2>1 DEF IInv, Request
    <3>. QED  BY <1>2, <2>1, <3>1, <3>2, <3>3, GoOnKeeps
  <2>3. TypeOK'
    BY <1>2, <2>2 DEF IInv, TypeOK, store, logouts
  <2>4. Tokens' /\ LoggedOutForGood'
    BY <1>2 DEF IInv, Tokens, LoggedOutForGood, store, logouts
  <2>. QED  BY <2>2, <2>3, <2>4 DEF IInv
<1>3. ASSUME stage' = [stage EXCEPT ![r] = "refreshing"],
             UNCHANGED <<session, issued, attempts>>
      PROVE  stage' \in [Requests -> RelayStages] /\ \A q \in Requests : Request(q)'
  <2>1. ASSUME NEW q \in Requests  PROVE Request(q)'
    <3>1. \/ stage'[q] = stage[q]
          \/ stage'[q] = "refreshing" /\ Len(attempts[q]) <= 1
      BY <1>0, <1>3
    <3>2. stage'[q] = "unauthenticated" => session' = NoSession
      BY <1>3, <3>1 DEF IInv, Request
    <3>3. issued' = issued /\ attempts'[q] = attempts[q]
      BY <1>3
    <3>. QED  BY <1>0, <3>1, <3>2, <3>3, RequestKept
  <2>. QED  BY <1>0, <1>3, <2>1 DEF RelayStages
<1>4. CASE /\ session = stale /\ MayJoin /\ stage' = [stage EXCEPT ![r] = "refreshing"]
           /\ UNCHANGED <<store, attempts>>
  <2>1. stage' \in [Requests -> RelayStages] /\ \A q \in Requests : Request(q)'
    BY <1>3, <1>4 DEF store
  <2>2. TypeOK'
    BY <1>4, <2>1 DEF IInv, TypeOK, store, logouts
  <2>3. Tokens' /\ LoggedOutForGood'
    BY <1>4 DEF IInv, Tokens, LoggedOutForGood, store, logouts
  <2>. QED  BY <2>1, <2>2, <2>3 DEF IInv
<1>5. CASE /\ session = stale /\ session # NoSession /\ ~MayJoin
           /\ inFlight' = session /\ presented' = Append(presented, session)
           /\ stage' = [stage EXCEPT ![r] = "refreshing"]
           /\ UNCHANGED <<session, issued, attempts>>
  <2>1. stage' \in [Requests -> RelayStages] /\ \A q \in Requests : Request(q)'
    BY <1>3, <1>5
  <2>2. presented' \in Seq(1..issued) /\ Increasing(presented')
    <3>1. Below(presented, session) /\ Increasing(presented) /\ presented \in Seq(1..issued)
      BY <1>5 DEF IInv, TypeOK, Tokens, MayJoin
    <3>2. session \in 1..issued
      BY <1>0, <1>5 DEF NoSession
    <3>. QED  BY <1>0, <1>5, <3>1, <3>2, AppendIncreasing
  <2>3. TypeOK'
    BY <1>0, <1>5, <2>1, <2>2 DEF IInv, TypeOK, logouts
  <2>4. Tokens'
    BY <1>0, <1>5, <2>2 DEF Tokens, NoSession, Idle
  <2>5. LoggedOutForGood'
    BY <1>5 DEF IInv, LoggedOutForGood, logouts
  <2>. QED  BY <2>1, <2>3, <2>4, <2>5 DEF IInv
<1>. QED  BY <1>1, <1>2, <1>4, <1>5 DEF RefreshSession

LEMMA ArrivePreserves ==
  ASSUME IInv, NEW r \in Requests, Arrive(r)
  PROVE  IInv'
<1>. USE RefreshAssumption
<1>0. /\ stage \in [Requests -> RelayStages] /\ issued \in Nat /\ session \in 0..issued
      /\ session \in {NoSession, issued} /\ attempts \in [Requests -> Seq(1..issued)]
      /\ stage[r] \in {"new", "redirected"}
  BY DEF IInv, TypeOK, Tokens, Arrive
<1>1. body' \in [Requests -> Bodies]
  BY DEF IInv, TypeOK, Arrive, Bodies
<1>2. UNCHANGED logouts
  BY DEF Arrive
<1>3. Len(attempts[r]) <= 1 /\ Below(attempts[r], issued)
  <2>1. CASE stage[r] = "new"
    <3>1. Len(attempts[r]) = 0
      BY <2>1 DEF IInv, Request
    <3>2. attempts[r] \in Seq(1..issued)
      BY <1>0
    <3>. QED  BY <3>1, <3>2 DEF Below
  <2>2. CASE stage[r] = "redirected"
    <3>1. Len(attempts[r]) = 1 /\ Below(attempts[r], issued)
      BY <2>2 DEF IInv, Request
    <3>. QED  BY <3>1
  <2>. QED  BY <1>0, <2>1, <2>2
<1>4. CASE /\ session = NoSession /\ stage' = [stage EXCEPT ![r] = "unauthenticated"]
           /\ UNCHANGED <<store, attempts>>
  <2>1. TypeOK'
    BY <1>1, <1>2, <1>4 DEF IInv, TypeOK, RelayStages, store, logouts
  <2>2. Tokens' /\ LoggedOutForGood'
    BY <1>2, <1>4 DEF IInv, Tokens, LoggedOutForGood, store, logouts
  <2>3. ASSUME NEW q \in Requests  PROVE Request(q)'
    <3>1. \/ stage'[q] = stage[q] \/ stage'[q] = "unauthenticated"
      BY <1>0, <1>4
    <3>2. session' = NoSession /\ issued' = issued /\ attempts'[q] = attempts[q]
      BY <1>4 DEF store
    <3>. QED  BY <1>0, <3>1, <3>2, RequestKept
  <2>. QED  BY <2>1, <2>2, <2>3 DEF IInv
<1>5. CASE /\ session # NoSession /\ stage' = [stage EXCEPT ![r] = "sent"]
           /\ attempts' = [attempts EXCEPT ![r] = Append(@, session)]
           /\ UNCHANGED store
  <2>1. session = issued /\ session \in 1..issued /\ issued' = issued /\ session' = session
    BY <1>0, <1>5 DEF NoSession, store
  <2>2. stage'[r] = "sent" /\ attempts'[r] = Append(attempts[r], session)
    BY <1>0, <1>5
  <2>3. Request(r)' /\ attempts'[r] \in Seq(1..issued')
    BY <1>0, <1>3, <2>1, <2>2, RequestSent
  <2>4. ASSUME NEW q \in Requests, q # r  PROVE Request(q)'
    <3>1. stage'[q] = stage[q] /\ attempts'[q] = attempts[q]
      BY <1>0, <1>5, <2>4
    <3>2. stage'[q] = "unauthenticated" => session' = NoSession
      BY <2>1, <3>1 DEF IInv, Request
    <3>. QED  BY <1>0, <2>1, <3>1, <3>2, RequestKept
  <2>5. TypeOK'
    <3>1. attempts' \in [Requests -> Seq(1..issued')]
      BY <1>0, <1>5, <2>1, <2>2, <2>3
    <3>. QED  BY <1>1, <1>2, <1>5, <3>1 DEF IInv, TypeOK, RelayStages, store, logouts
  <2>6. Tokens' /\ LoggedOutForGood'
    BY <1>2, <1>5 DEF IInv, Tokens, LoggedOutForGood, store, logouts
  <2>. QED  BY <2>3, <2>4, <2>5, <2>6 DEF IInv
<1>6. CASE session # NoSession /\ RefreshSession(r, session)
  <2>1. session = issued /\ session \in 1..issued
    BY <1>0, <1>6 DEF NoSession
  <2>2. \A u \in Nat : session < u => Below(attempts[r], u)
    BY <1>0, <1>3, <2>1 DEF Below
  <2>. QED  BY <1>1, <1>2, <1>3, <1>6, <2>1, <2>2, RefreshSessionPreserves
<1>. QED  BY <1>4, <1>5, <1>6 DEF Arrive

(* A step that only answers a request.                                     *)
LEMMA AnsweredPreserves ==
  ASSUME IInv, NEW r \in Requests, stage' = [stage EXCEPT ![r] = "answered"],
         UNCHANGED <<store, body, attempts, logouts>>
  PROVE  IInv'
<1>. USE RefreshAssumption
<1>1. TypeOK'
  BY DEF IInv, TypeOK, RelayStages, store, logouts
<1>2. Tokens' /\ LoggedOutForGood'
  BY DEF IInv, Tokens, LoggedOutForGood, store, logouts
<1>3. ASSUME NEW q \in Requests  PROVE Request(q)'
  <2>1. stage'[q] = stage[q] \/ stage'[q] = "answered"
    BY DEF IInv, TypeOK
  <2>2. /\ issued' = issued /\ issued \in Nat /\ session' = session
        /\ attempts'[q] = attempts[q]
    BY DEF IInv, TypeOK, store
  <2>3. stage'[q] = "unauthenticated" => session' = NoSession
    BY <2>1, <2>2 DEF IInv, Request
  <2>. QED  BY <2>1, <2>2, <2>3, RequestKept
<1>. QED  BY <1>1, <1>2, <1>3 DEF IInv

LEMMA UpstreamRejectsPreserves ==
  ASSUME IInv, NEW r \in Requests, UpstreamRejects(r)
  PROVE  IInv'
<1>. USE RefreshAssumption
<1>1. UNCHANGED <<body, logouts>> /\ stage[r] = "sent"
  BY DEF UpstreamRejects
<1>2. CASE stage' = [stage EXCEPT ![r] = "answered"] /\ UNCHANGED <<store, attempts>>
  BY <1>1, <1>2, AnsweredPreserves
<1>3. CASE Len(attempts[r]) # 2 /\ RefreshSession(r, Last(attempts[r]))
  <2>1. attempts[r] \in Seq(1..issued) /\ issued \in Nat /\ body \in [Requests -> Bodies]
    BY DEF IInv, TypeOK
  <2>2. Len(attempts[r]) <= 2 /\ Len(attempts[r]) # 2 /\ attempts[r] # <<>>
    <3>1. Len(attempts[r]) <= 2 /\ Len(attempts[r]) >= 1
      BY <1>1 DEF IInv, Request
    <3>2. Len(<<>>) = 0
      OBVIOUS
    <3>. QED  BY <1>3, <3>1, <3>2
  <2>3. /\ Len(attempts[r]) = 1 /\ Last(attempts[r]) \in 1..issued
        /\ \A u \in Nat : Last(attempts[r]) < u => Below(attempts[r], u)
    BY <2>1, <2>2, OneToken
  <2>4. Len(attempts[r]) <= 1
    BY <2>3
  <2>. QED  BY <1>1, <1>3, <2>1, <2>3, <2>4, RefreshSessionPreserves
<1>. QED  BY <1>2, <1>3 DEF UpstreamRejects

---------------------------------------------------------------------------
(* The end of a refresh.                                                   *)

(* The logouts that waited go on, the others stay where they are.          *)
LEMMA ResumedLogouts ==
  ASSUME IInv, NEW ok, ResumeLogouts(ok)
  PROVE  /\ logout' \in [Logouts -> LogoutStages] /\ revokes' = revokes
         /\ \A l \in Logouts : logout'[l] \in {"revoking", "done"} =>
              logout[l] = "waiting" \/ logout[l] \in {"revoking", "done"}
BY DEF IInv, TypeOK, ResumeLogouts, ResumesLogout, LogoutStages

LEMMA RefreshSucceedsPreserves ==
  ASSUME IInv, RefreshSucceeds
  PROVE  IInv'
<1>. USE RefreshAssumption
<1>0. /\ issued \in Nat /\ issued' = issued + 1 /\ issued < MaxTokens
      /\ inFlight # Idle /\ inFlight' = Idle /\ session = inFlight
      /\ session' = NoSession \/ session' = issued + 1
      /\ presented' = presented /\ body' = body
  BY DEF IInv, TypeOK, Tokens, RefreshSucceeds
<1>1. /\ stage' \in [Requests -> RelayStages]
      /\ attempts' \in [Requests -> Seq(1..issued')]
      /\ \A q \in Requests : Request(q)'
  <2>1. \A r \in Refreshing : Len(attempts[r]) <= 1 /\ Below(attempts[r], issued + 1)
    <3>1. ASSUME NEW r \in Refreshing
          PROVE  Len(attempts[r]) <= 1 /\ Below(attempts[r], issued + 1)
      <4>1. r \in Requests /\ stage[r] = "refreshing"
        BY DEF Refreshing
      <4>2. attempts[r] \in Seq(1..issued)
        BY <4>1 DEF IInv, TypeOK
      <4>3. Below(attempts[r], issued + 1)
        BY <1>0, <4>2, TokenSequence
      <4>. QED  BY <4>1, <4>3 DEF IInv, Request
    <3>. QED  BY <3>1
  <2>2. \A r \in Requests : stage[r] = "unauthenticated" => session' = NoSession
    BY <1>0 DEF IInv, Request, NoSession, Idle
  <2>3. issued + 1 \in 1..issued' /\ issued' \in Nat /\ issued <= issued'
    BY <1>0
  <2>4. Refreshing \in SUBSET Requests /\ GoOn(Refreshing, issued + 1)
    BY DEF Refreshing, RefreshSucceeds
  <2>. QED  BY <1>0, <2>1, <2>2, <2>3, <2>4, GoOnKeeps
<1>2. /\ logout' \in [Logouts -> LogoutStages] /\ revokes' = revokes
      /\ \A l \in Logouts : logout'[l] \in {"revoking", "done"} =>
           logout[l] = "waiting" \/ logout[l] \in {"revoking", "done"}
  BY ResumedLogouts DEF RefreshSucceeds
<1>3. presented \in Seq(1..issued) /\ presented' \in Seq(1..issued')
  BY <1>0, MoreTokens DEF IInv, TypeOK
<1>4. TypeOK'
  <2>1. revokes' \in [Logouts -> 0..issued']
    BY <1>0, <1>2 DEF IInv, TypeOK
  <2>2. issued' \in 1..MaxTokens /\ session' \in 0..issued' /\ inFlight' \in 0..issued'
    BY <1>0 DEF NoSession, Idle
  <2>3. body' \in [Requests -> Bodies]
    BY <1>0 DEF IInv, TypeOK
  <2>. QED  BY <1>1, <1>2, <1>3, <2>1, <2>2, <2>3 DEF TypeOK
<1>5. Tokens'
  <2>1. Below(presented, issued + 1)
    BY <1>0, <1>3, TokenSequence
  <2>2. Increasing(presented)
    BY DEF IInv, Tokens
  <2>. QED  BY <1>0, <2>1, <2>2 DEF Tokens
<1>6. LoggedOutForGood'
  <2>1. ASSUME NEW l \in Logouts, logout'[l] \in {"revoking", "done"}
        PROVE  session' = NoSession
    <3>1. CASE logout[l] = "waiting"
      BY <3>1 DEF RefreshSucceeds, Waited
    <3>2. CASE logout[l] \in {"revoking", "done"}
      BY <1>0, <3>2 DEF IInv, LoggedOutForGood
    <3>. QED  BY <1>2, <2>1, <3>1, <3>2
  <2>. QED  BY <1>0, <2>1 DEF LoggedOutForGood
<1>. QED  BY <1>1, <1>4, <1>5, <1>6 DEF IInv

LEMMA RefreshFailsPreserves ==
  ASSUME IInv, RefreshFails
  PROVE  IInv'
<1>. USE RefreshAssumption
<1>0. /\ session' = NoSession /\ inFlight' = Idle
      /\ UNCHANGED <<issued, presented, body, attempts>> /\ issued \in Nat
      /\ stage \in [Requests -> RelayStages]
  BY DEF IInv, TypeOK, RefreshFails, SessionAfterFailure
<1>1. /\ stage' \in [Requests -> RelayStages]
      /\ \A q \in Requests : stage'[q] = stage[q] \/ stage'[q] = "unauthenticated"
  BY <1>0 DEF RefreshFails, RelayStages
<1>2. logout' \in [Logouts -> LogoutStages] /\ revokes' = revokes
  BY ResumedLogouts DEF RefreshFails
<1>3. TypeOK'
  BY <1>0, <1>1, <1>2 DEF IInv, TypeOK, NoSession, Idle
<1>4. Tokens' /\ LoggedOutForGood'
  BY <1>0 DEF IInv, Tokens, LoggedOutForGood
<1>5. ASSUME NEW q \in Requests  PROVE Request(q)'
  BY <1>0, <1>1, RequestKept
<1>. QED  BY <1>3, <1>4, <1>5 DEF IInv

---------------------------------------------------------------------------
(* Logout and restart.                                                     *)

LEMMA LogoutPreserves ==
  ASSUME IInv, NEW l \in Logouts, Logout(l)
  PROVE  IInv'
<1>. USE RefreshAssumption
<1>0. /\ UNCHANGED <<inFlight, issued, presented, stage, body, attempts>>
      /\ session' = session \/ (session' = NoSession /\ inFlight = Idle)
      /\ issued \in Nat /\ session \in 0..issued
  BY DEF IInv, TypeOK, Logout, relays, MustWait
<1>1. TypeOK'
  <2>1. logout' \in [Logouts -> LogoutStages]
    BY DEF IInv, TypeOK, Logout, LogoutStages
  <2>2. revokes' \in [Logouts -> 0..issued]
    BY <1>0 DEF IInv, TypeOK, Logout
  <2>. QED  BY <1>0, <2>1, <2>2 DEF IInv, TypeOK, NoSession
<1>2. Tokens'
  BY <1>0 DEF IInv, Tokens
<1>3. LoggedOutForGood'
  <2>1. CASE inFlight # Idle
    BY <1>0, <2>1 DEF IInv, TypeOK, LoggedOutForGood, Logout, MustWait
  <2>2. CASE inFlight = Idle
    BY <1>0, <2>2 DEF LoggedOutForGood, Logout, MustWait
  <2>. QED  BY <2>1, <2>2
<1>4. ASSUME NEW q \in Requests  PROVE Request(q)'
  <2>1. stage'[q] = "unauthenticated" => session' = NoSession
    BY <1>0 DEF IInv, Request
  <2>. QED  BY <1>0, <2>1, RequestKept
<1>. QED  BY <1>1, <1>2, <1>3, <1>4 DEF IInv

LEMMA LogoutDonePreserves ==
  ASSUME IInv, NEW l \in Logouts, LogoutDone(l)
  PROVE  IInv'
<1>. USE RefreshAssumption
<1>0. /\ UNCHANGED <<session, inFlight, issued, presented, stage, body, attempts, revokes>>
      /\ issued \in Nat
  BY DEF IInv, TypeOK, LogoutDone, relays, store
<1>1. TypeOK'
  BY <1>0 DEF IInv, TypeOK, LogoutDone, LogoutStages
<1>2. Tokens'
  BY <1>0 DEF IInv, Tokens
<1>3. LoggedOutForGood'
  BY <1>0 DEF IInv, TypeOK, LoggedOutForGood, LogoutDone
<1>4. ASSUME NEW q \in Requests  PROVE Request(q)'
  <2>1. stage'[q] = "unauthenticated" => session' = NoSession
    BY <1>0 DEF IInv, Request
  <2>. QED  BY <1>0, <2>1, RequestKept
<1>. QED  BY <1>1, <1>2, <1>3, <1>4 DEF IInv

LEMMA RestartPreserves ==
  ASSUME IInv, Restart
  PROVE  IInv'
<1>. USE RefreshAssumption
<1>0. /\ UNCHANGED <<session, issued, body, attempts, revokes>> /\ issued \in Nat
      /\ inFlight' = Idle /\ presented' = <<>>
  BY DEF IInv, TypeOK, Restart
<1>1. /\ stage' \in [Requests -> RelayStages]
      /\ \A q \in Requests : stage'[q] = stage[q] \/ stage'[q] = "lost"
  BY DEF IInv, TypeOK, Restart, RelayStages
<1>2. /\ logout' \in [Logouts -> LogoutStages]
      /\ \A l \in Logouts : logout'[l] \in {"revoking", "done"} => logout[l] = "done"
  BY DEF IInv, TypeOK, Restart, LogoutStages
<1>3. TypeOK'
  <2>1. presented' \in Seq(1..issued) /\ inFlight' \in 0..issued
    BY <1>0, EmptySeq DEF Idle
  <2>. QED  BY <1>0, <1>1, <1>2, <2>1 DEF IInv, TypeOK
<1>4. Tokens'
  BY <1>0 DEF IInv, Tokens, Increasing, Below
<1>5. LoggedOutForGood'
  BY <1>0, <1>2 DEF IInv, LoggedOutForGood
<1>6. ASSUME NEW q \in Requests  PROVE Request(q)'
  <2>1. stage'[q] = "unauthenticated" => session' = NoSession
    BY <1>0, <1>1 DEF IInv, Request
  <2>. QED  BY <1>0, <1>1, <2>1, RequestKept
<1>. QED  BY <1>3, <1>4, <1>5, <1>6 DEF IInv

---------------------------------------------------------------------------
(* The invariant, and what follows from it.                                *)

THEOREM RefreshInvariant == Spec => []IInv
<1>1. Init => IInv
  BY InitIInv
<1>2. IInv /\ [Next]_vars => IInv'
  <2>1. ASSUME IInv, Next  PROVE IInv'
    <3>1. CASE \E r \in Requests : Arrive(r) \/ UpstreamAnswers(r) \/ UpstreamRejects(r)
      BY <2>1, <3>1, ArrivePreserves, AnsweredPreserves, UpstreamRejectsPreserves
         DEF UpstreamAnswers
    <3>2. CASE RefreshSucceeds \/ RefreshFails \/ Restart
      BY <2>1, <3>2, RefreshSucceedsPreserves, RefreshFailsPreserves, RestartPreserves
    <3>3. CASE \E l \in Logouts : Logout(l) \/ LogoutDone(l)
      BY <2>1, <3>3, LogoutPreserves, LogoutDonePreserves
    <3>. QED  BY <2>1, <3>1, <3>2, <3>3 DEF Next
  <2>2. ASSUME IInv, UNCHANGED vars  PROVE IInv'
    BY <2>2 DEF IInv, TypeOK, Tokens, LoggedOutForGood, Request, Increasing, Below,
                vars, store, relays, logouts
  <2>. QED  BY <2>1, <2>2
<1>. QED  BY <1>1, <1>2, PTL DEF Spec

(* The store, the requests and the logouts keep their types.               *)
THEOREM TypeCorrect == Spec => []TypeOK
<1>1. IInv => TypeOK
  BY DEF IInv
<1>. QED  BY <1>1, RefreshInvariant, PTL

(* However many requests, redirected uploads and logouts meet, between two *)
(* restarts refreshSession presents each refresh token once.               *)
THEOREM TokenPresentedOnce == Spec => []RefreshTokenUsedOnce
<1>1. IInv => RefreshTokenUsedOnce
  BY DEF IInv, Tokens, Increasing, RefreshTokenUsedOnce
<1>. QED  BY <1>1, RefreshInvariant, PTL

(* relayRequest sends a request at most twice, and the second time with    *)
(* tokens issued after those the proxy rejected, for bodies it buffered    *)
(* and for uploads that come again after the redirect.                     *)
THEOREM RetriedWithNewerToken == Spec => []RetriesWithNewerToken
<1>1. IInv => RetriesWithNewerToken
  BY DEF IInv, Request, Increasing, RetriesWithNewerToken
<1>. QED  BY <1>1, RefreshInvariant, PTL

(* No refresh that was under way, or that a request starts afterwards,     *)
(* brings back a session a logout deleted.                                 *)
THEOREM LogoutLasts == Spec => []LoggedOutForGood
<1>1. IInv => LoggedOutForGood
  BY DEF IInv
<1>. QED  BY <1>1, RefreshInvariant, PTL

(* Nobody is sent to sign in while the session is there.                   *)
THEOREM RefusedWhenGone == Spec => []UnauthenticatedMeansGone
<1>1. IInv => UnauthenticatedMeansGone
  BY DEF IInv, Request, UnauthenticatedMeansGone
<1>. QED  BY <1>1, RefreshInvariant, PTL
=============================================================================
