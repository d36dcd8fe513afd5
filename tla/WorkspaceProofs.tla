-------------------------- MODULE WorkspaceProofs ---------------------------
(***************************************************************************)
(* Proofs about Workspace for any tabs, recordings and sections of the     *)
(* settings: no save is lost, in whatever order the answers come, and what *)
(* a tab shows once its requests are answered is what the store holds, if  *)
(* no answer overtakes another.                                            *)
(*                                                                         *)
(* The second one looks ahead: as long as requests are under way, a pane   *)
(* may show what is out of date, but then an answer that will correct it   *)
(* is on its way to this tab, or a change whose answer makes some tab tell *)
(* this one to read again.                                                 *)
(***************************************************************************)
EXTENDS Workspace, SequenceTheorems, FiniteSetTheorems, TLAPS

---------------------------------------------------------------------------
(* The inductive invariant: whatever has become of the pane that sent it,  *)
(* a save under way carries nothing but its own form.                      *)

Sane(q) ==
  /\ "kind" \in DOMAIN q /\ "arg" \in DOMAIN q
  /\ q.kind = "save" => q.arg.sent = [s \in q.arg.form |-> q.arg.value]

Sound(qs) == \E S : qs \in [Tabs -> Seq(S)] /\ \A q \in S : Sane(q)

IInv == NoLostUpdate /\ Sound(queue)

LEMMA InitIInv == Init => IInv
<1> SUFFICES ASSUME Init  PROVE IInv
  OBVIOUS
<1>1. queue \in [Tabs -> Seq({})]
  BY EmptySeq DEF Init
<1>2. NoLostUpdate
  BY DEF Init, NoLostUpdate
<1>. QED  BY <1>1, <1>2 DEF IInv, Sound

---------------------------------------------------------------------------
(* Requests and queues.                                                    *)

LEMMA OtherRequests ==
  ASSUME NEW kind, NEW arg, kind # "save"
  PROVE  Sane(Request(kind, arg))
BY DEF Sane, Request

(* Serving a request, or leaving its pane, keeps what it carries.          *)
LEMMA EditedRequests ==
  ASSUME NEW q, Sane(q), NEW x, NEW y
  PROVE  /\ Sane([q EXCEPT !.shown = x]) /\ Sane([q EXCEPT !.state = x])
         /\ Sane([q EXCEPT !.state = x, !.value = y])
BY DEF Sane

LEMMA MoreRequests ==
  ASSUME NEW S, NEW R, NEW s \in Seq(S)
  PROVE  s \in Seq(S \cup R)
OBVIOUS

LEMMA WiderRequests ==
  ASSUME NEW T, NEW R, R \subseteq T, NEW s \in Seq(R)
  PROVE  s \in Seq(T)
<1>1. T = R \cup T
  OBVIOUS
<1>2. s \in Seq(R \cup T)
  BY MoreRequests
<1>. QED  BY <1>1, <1>2

(* The reads a pane sends when it appears, or is told to.                  *)
LEMMA RefreshReads ==
  ASSUME NEW v, NEW r
  PROVE  Refresh(v, r) \in
           Seq({Request("settings", None), Request("list", 0), Request("detail", r)})
<1>. DEFINE R == {Request("settings", None), Request("list", 0), Request("detail", r)}
<1>1. /\ <<>> \in Seq(R) /\ <<Request("settings", None)>> \in Seq(R)
      /\ <<Request("list", 0)>> \in Seq(R)
      /\ <<Request("list", 0), Request("detail", r)>> \in Seq(R)
  OBVIOUS
<1>. HIDE DEF R
<1>2. Refresh(v, r) \in Seq(R)
  BY <1>1 DEF Refresh
<1>. QED  BY <1>2 DEF R

(* One queue of many is replaced.                                          *)
LEMMA SoundReplaced ==
  ASSUME NEW qs, Sound(qs), NEW t \in Tabs, NEW R, NEW s \in Seq(R),
         \A q \in R : Sane(q)
  PROVE  Sound([qs EXCEPT ![t] = s])
<1>1. PICK S : qs \in [Tabs -> Seq(S)] /\ \A q \in S : Sane(q)
  BY DEF Sound
<1>2. \A u \in Tabs : qs[u] \in Seq(S \cup R)
  BY <1>1, MoreRequests
<1>3. s \in Seq(R \cup S)
  BY MoreRequests
<1>4. R \cup S = S \cup R
  OBVIOUS
<1>5. [qs EXCEPT ![t] = s] \in [Tabs -> Seq(S \cup R)]
  BY <1>1, <1>2, <1>3, <1>4
<1>6. \A q \in S \cup R : Sane(q)
  BY <1>1
<1>. QED  BY <1>5, <1>6 DEF Sound

LEMMA SoundLonger ==
  ASSUME NEW qs, Sound(qs), NEW t \in Tabs, NEW R, NEW s \in Seq(R),
         \A q \in R : Sane(q)
  PROVE  Sound([qs EXCEPT ![t] = @ \o s])
<1>1. PICK S : qs \in [Tabs -> Seq(S)] /\ \A q \in S : Sane(q)
  BY DEF Sound
<1>2. qs[t] \in Seq(S \cup R)
  BY <1>1, MoreRequests
<1>3. s \in Seq(R \cup S) /\ R \cup S = S \cup R
  BY MoreRequests
<1>4. qs[t] \o s \in Seq(S \cup R)
  BY <1>2, <1>3
<1>5. \A q \in S \cup R : Sane(q)
  BY <1>1
<1>6. Sound([qs EXCEPT ![t] = qs[t] \o s])
  BY <1>4, <1>5, SoundReplaced
<1>. QED  BY <1>6

LEMMA SoundAppended ==
  ASSUME NEW qs, Sound(qs), NEW t \in Tabs, NEW q, Sane(q)
  PROVE  Sound([qs EXCEPT ![t] = Append(@, q)])
<1>1. PICK S : qs \in [Tabs -> Seq(S)] /\ \A p \in S : Sane(p)
  BY DEF Sound
<1>2. qs[t] \in Seq(S \cup {q})
  BY <1>1, MoreRequests
<1>3. Append(qs[t], q) \in Seq(S \cup {q})
  BY <1>2
<1>4. \A p \in S \cup {q} : Sane(p)
  BY <1>1
<1>5. Sound([qs EXCEPT ![t] = Append(qs[t], q)])
  BY <1>3, <1>4, SoundReplaced
<1>. QED  BY <1>5

LEMMA SoundAnswered ==
  ASSUME Sound(queue), NEW t \in Tabs, queue[t] # <<>>
  PROVE  Sound(Answered(t))
<1>1. PICK S : queue \in [Tabs -> Seq(S)] /\ \A p \in S : Sane(p)
  BY DEF Sound
<1>2. Tail(queue[t]) \in Seq(S)
  BY <1>1
<1>3. Sound([queue EXCEPT ![t] = Tail(queue[t])])
  BY <1>1, <1>2, SoundReplaced
<1>. QED  BY <1>3 DEF Answered

LEMMA SoundTold ==
  ASSUME NEW qs, Sound(qs), NEW ts
  PROVE  Sound(Told(qs, ts))
<1>1. PICK S : qs \in [Tabs -> Seq(S)] /\ \A p \in S : Sane(p)
  BY DEF Sound
<1>. DEFINE R == {Request("settings", None), Request("list", 0)}
                   \cup {Request("detail", selected[u]) : u \in Tabs}
<1>2. \A u \in Tabs : Refresh(view[u], selected[u]) \in Seq(R)
  <2>1. ASSUME NEW u \in Tabs
        PROVE  Refresh(view[u], selected[u]) \in Seq(R)
    <3>. DEFINE Q == {Request("settings", None), Request("list", 0),
                      Request("detail", selected[u])}
    <3>1. Q \subseteq R
      OBVIOUS
    <3>2. Refresh(view[u], selected[u]) \in Seq(Q)
      BY RefreshReads
    <3>. HIDE DEF Q, R
    <3>. QED  BY <3>1, <3>2, WiderRequests
  <2>. QED  BY <2>1
<1>3. \A q \in R : Sane(q)
  BY OtherRequests
<1>. HIDE DEF R
<1>4. \A u \in Tabs : qs[u] \in Seq(S \cup R)
  BY <1>1, MoreRequests
<1>5. \A u \in Tabs : Refresh(view[u], selected[u]) \in Seq(S \cup R)
  <2>1. S \cup R = R \cup S
    OBVIOUS
  <2>. QED  BY <1>2, <2>1, MoreRequests
<1>6. \A u \in Tabs : qs[u] \o Refresh(view[u], selected[u]) \in Seq(S \cup R)
  BY <1>4, <1>5
<1>7. Told(qs, ts) \in [Tabs -> Seq(S \cup R)]
  BY <1>4, <1>6 DEF Told
<1>8. \A q \in S \cup R : Sane(q)
  BY <1>1, <1>3
<1>. QED  BY <1>7, <1>8 DEF Sound

---------------------------------------------------------------------------
(* The server.                                                             *)

(* A request of the queue is marked as served or failed.                   *)
LEMMA SoundMarked ==
  ASSUME Sound(queue), NEW t \in Tabs, NEW i \in 1 .. Len(queue[t]), NEW q, Sane(q)
  PROVE  Sound([queue EXCEPT ![t][i] = q])
<1>1. PICK S : queue \in [Tabs -> Seq(S)] /\ \A p \in S : Sane(p)
  BY DEF Sound
<1>2. queue[t] \in Seq(S \cup {q})
  BY <1>1, MoreRequests
<1>3. [queue[t] EXCEPT ![i] = q] \in Seq(S \cup {q})
  BY <1>2
<1>4. \A p \in S \cup {q} : Sane(p)
  BY <1>1
<1>5. Sound([queue EXCEPT ![t] = [queue[t] EXCEPT ![i] = q]])
  BY <1>3, <1>4, SoundReplaced
<1>. QED  BY <1>5

LEMMA QueuedSane ==
  ASSUME Sound(queue), NEW t \in Tabs, NEW i \in 1 .. Len(queue[t])
  PROVE  Sane(queue[t][i])
<1>1. PICK S : queue \in [Tabs -> Seq(S)] /\ \A p \in S : Sane(p)
  BY DEF Sound
<1>2. queue[t][i] \in S
  BY <1>1
<1>. QED  BY <1>1, <1>2

LEMMA ServePreserves ==
  ASSUME IInv, NEW t \in Tabs, Serve(t)
  PROVE  IInv'
<1>1. PICK i \in 1 .. Len(queue[t]) :
        /\ \/ ServeRead(queue[t][i]) \/ ServeSave(queue[t][i]) \/ ServeRetention(queue[t][i])
           \/ ServeTitle(queue[t][i]) \/ ServeDelete(queue[t][i])
        /\ queue' = [queue EXCEPT ![t][i] =
             IF Found(queue[t][i])
             THEN [queue[t][i] EXCEPT !.state = "served", !.value = Value(queue[t][i])]
             ELSE [queue[t][i] EXCEPT !.state = "failed"]]
  BY DEF Serve
<1>2. Sane(queue[t][i])
  BY QueuedSane DEF IInv
<1>3. Sound(queue')
  <2>1. CASE Found(queue[t][i])
    <3>1. Sane([queue[t][i] EXCEPT !.state = "served", !.value = Value(queue[t][i])])
      BY <1>2, EditedRequests
    <3>. QED  BY <1>1, <2>1, <3>1, SoundMarked DEF IInv
  <2>2. CASE ~Found(queue[t][i])
    <3>1. Sane([queue[t][i] EXCEPT !.state = "failed"])
      BY <1>2, EditedRequests
    <3>. QED  BY <1>1, <2>2, <3>1, SoundMarked DEF IInv
  <2>. QED  BY <2>1, <2>2
<1>4. NoLostUpdate'
  <2>1. CASE ServeSave(queue[t][i])
    <3>1. queue[t][i].arg.sent = [s \in queue[t][i].arg.form |-> queue[t][i].arg.value]
      BY <1>2, <2>1 DEF Sane, ServeSave
    <3>2. DOMAIN queue[t][i].arg.sent = queue[t][i].arg.form
          /\ \A s \in queue[t][i].arg.form :
               queue[t][i].arg.sent[s] = queue[t][i].arg.value
      BY <3>1
    <3>3. /\ settings' = [s \in Sections |-> IF s \in DOMAIN queue[t][i].arg.sent
                            THEN queue[t][i].arg.sent[s] ELSE settings[s]]
          /\ lastSaved' = [s \in Sections |-> IF s \in queue[t][i].arg.form
                             THEN queue[t][i].arg.value ELSE lastSaved[s]]
      BY <2>1 DEF ServeSave, updateWorkspaceSettings
    <3>. QED  BY <3>2, <3>3 DEF IInv, NoLostUpdate
  <2>2. CASE ~ServeSave(queue[t][i])
    BY <1>1, <2>2 DEF IInv, NoLostUpdate, ServeRead, ServeRetention, ServeTitle,
                      ServeDelete, store
  <2>. QED  BY <2>1, <2>2
<1>. QED  BY <1>3, <1>4 DEF IInv, Sound

(* A step that only changes what is queued, shown or removed.              *)
LEMMA SettingsKept ==
  ASSUME IInv, UNCHANGED <<settings, lastSaved>>, Sound(queue')
  PROVE  IInv'
BY DEF IInv, NoLostUpdate, Sound

LEMMA RefusePreserves ==
  ASSUME IInv, NEW t \in Tabs, Refuse(t)
  PROVE  IInv'
<1>1. queue' = [queue EXCEPT ![t][1].state = "failed"] /\ queue[t] # <<>>
  BY DEF Refuse
<1>2. 1 \in 1 .. Len(queue[t])
  <2>1. PICK S : queue \in [Tabs -> Seq(S)]
    BY DEF IInv, Sound
  <2>2. queue[t] \in Seq(S)
    BY <2>1
  <2>. QED  BY <1>1, <2>2, EmptySeq
<1>3. Sane([queue[t][1] EXCEPT !.state = "failed"])
  BY <1>2, QueuedSane, EditedRequests DEF IInv
<1>4. queue' = [queue EXCEPT ![t][1] = [queue[t][1] EXCEPT !.state = "failed"]]
  BY <1>1
<1>5. Sound(queue')
  BY <1>2, <1>3, <1>4, SoundMarked DEF IInv
<1>. QED  BY <1>5, SettingsKept DEF Refuse, store

(* One request goes past others, which changes none but whether it shows.  *)
LEMMA OvertakePreserves ==
  ASSUME IInv, NEW t \in Tabs, Overtake(t)
  PROVE  IInv'
<1>. DEFINE s == queue[t]
<1>1. PICK i \in 2 .. Len(s) :
        queue' = [queue EXCEPT ![t] =
          [j \in 1 .. Len(s) |->
             IF j = 1 THEN s[i]
             ELSE IF j <= i
             THEN [s[j - 1] EXCEPT !.shown = @ /\ (s[i].shown /\ s[i].kind = "detail"
                                                    => s[j - 1].kind # "detail")]
             ELSE s[j]]]
  BY Zenon DEF Overtake
<1>2. PICK S : queue \in [Tabs -> Seq(S)] /\ \A q \in S : Sane(q)
  BY DEF IInv, Sound
<1>3. s \in Seq(S) /\ Len(s) \in Nat
  BY <1>2
<1>. DEFINE x == queue'[t]
            R == {x[j] : j \in 1 .. Len(s)}
<1>4. x = [j \in 1 .. Len(s) |-> x[j]]
  BY <1>1, <1>2
<1>5. x \in Seq(R)
  BY <1>3, <1>4
<1>6. \A j \in 1 .. Len(s) : Sane(x[j])
  <2>. SUFFICES ASSUME NEW j \in 1 .. Len(s)  PROVE Sane(x[j])
    OBVIOUS
  <2>1. CASE j = 1
    BY <1>1, <1>2, <1>3, <2>1
  <2>2. CASE j # 1 /\ j <= i
    <3>1. j - 1 \in 1 .. Len(s)
      BY <1>3, <2>2
    <3>2. Sane(s[j - 1])
      BY <1>2, <1>3, <3>1
    <3>3. \E b : x[j] = [s[j - 1] EXCEPT !.shown = b]
      BY <1>1, <1>2, <2>2
    <3>4. PICK b : x[j] = [s[j - 1] EXCEPT !.shown = b]
      BY <3>3
    <3>. DEFINE p == s[j - 1]
    <3>. HIDE DEF p, x
    <3>5. Sane([p EXCEPT !.shown = b])
      BY <3>2, EditedRequests DEF p
    <3>. QED  BY <3>4, <3>5 DEF p
  <2>3. CASE j > i
    BY <1>1, <1>2, <1>3, <2>3
  <2>. QED  BY <2>1, <2>2, <2>3
<1>7. queue' = [queue EXCEPT ![t] = x]
  BY <1>1, <1>2
<1>8. Sound(queue')
  <2>1. \A q \in R : Sane(q)
    BY <1>6
  <2>. HIDE DEF x, R, s
  <2>2. Sound([queue EXCEPT ![t] = x])
    BY <1>5, <2>1, SoundReplaced DEF IInv
  <2>. QED  BY <1>7, <2>2
<1>. QED  BY <1>8, SettingsKept DEF Overtake, store

---------------------------------------------------------------------------
(* The tabs.                                                               *)

LEMMA ReceivePreserves ==
  ASSUME IInv, NEW t \in Tabs, Receive(t)
  PROVE  IInv'
<1>0. queue[t] # <<>> /\ UNCHANGED <<settings, lastSaved>>
  BY DEF Receive, store
<1>1. Sound(Answered(t))
  BY <1>0, SoundAnswered DEF IInv
<1>2. \A ts : Sound(Told(Answered(t), ts))
  BY <1>1, SoundTold
<1>3. Sound(queue')
  <2>1. CASE ReceiveUnshown(t, queue[t][1]) \/ ReceiveSettings(t, queue[t][1])
    BY <1>1, <1>2, <2>1 DEF ReceiveUnshown, ReceiveSettings, TellsAfter
  <2>2. CASE \/ ReceiveList(t, queue[t][1]) \/ ReceiveDetail(t, queue[t][1])
             \/ ReceiveRefusal(t, queue[t][1])
    BY <1>1, <2>2 DEF ReceiveList, ReceiveDetail, ReceiveRefusal
  <2>3. CASE ReceiveSaved(t, queue[t][1]) \/ ReceiveTitle(t, queue[t][1])
    BY <1>2, <2>3 DEF ReceiveSaved, ReceiveTitle
  <2>4. CASE ReceiveReset(t, queue[t][1])
    <3>. DEFINE read == [Request("settings", Tell) EXCEPT !.shown = queue[t][1].shown]
    <3>1. queue' = [queue EXCEPT ![t] = Append(Tail(@), read)]
      BY <2>4 DEF ReceiveReset
    <3>2. Sane(read)
      BY OtherRequests, EditedRequests
    <3>. HIDE DEF read
    <3>3. PICK S : queue \in [Tabs -> Seq(S)] /\ \A p \in S : Sane(p)
      BY DEF IInv, Sound
    <3>4. Tail(queue[t]) \in Seq(S)
      BY <1>0, <3>3
    <3>5. Tail(queue[t]) \in Seq(S \cup {read})
      BY <3>4, MoreRequests
    <3>6. Append(Tail(queue[t]), read) \in Seq(S \cup {read})
      BY <3>5
    <3>7. \A p \in S \cup {read} : Sane(p)
      BY <3>2, <3>3
    <3>8. Sound([queue EXCEPT ![t] = Append(Tail(queue[t]), read)])
      BY <3>6, <3>7, SoundReplaced DEF IInv
    <3>. QED  BY <3>1, <3>8
  <2>. QED  BY <2>1, <2>2, <2>3, <2>4 DEF Receive
<1>. QED  BY <1>0, <1>3, SettingsKept

LEMMA ReceiveDeletedPreserves ==
  ASSUME IInv, NEW t \in Tabs, ReceiveDeleted(t)
  PROVE  IInv'
<1>. DEFINE list == IF queue[t][1].shown THEN <<Request("list", 0)>> ELSE <<>>
            R == {Request("list", 0)}
<1>1. /\ queue' = [Told(Answered(t), Tabs \ {t}) EXCEPT ![t] = @ \o list]
      /\ queue[t] # <<>> /\ UNCHANGED <<settings, lastSaved>>
  BY DEF ReceiveDeleted, store
<1>2. list \in Seq(R)
  <2>1. <<>> \in Seq(R) /\ <<Request("list", 0)>> \in Seq(R)
    OBVIOUS
  <2>. HIDE DEF R
  <2>. QED  BY <2>1
<1>3. \A q \in R : Sane(q)
  BY OtherRequests
<1>. HIDE DEF list, R
<1>4. Sound(Told(Answered(t), Tabs \ {t}))
  BY <1>1, SoundAnswered, SoundTold DEF IInv
<1>5. Sound(queue')
  BY <1>1, <1>2, <1>3, <1>4, SoundLonger
<1>. QED  BY <1>1, <1>5, SettingsKept

LEMMA SendPreserves ==
  ASSUME IInv, NEW t \in Tabs, NEW q, Sane(q), Send(t, q),
         UNCHANGED <<settings, lastSaved>>
  PROVE  IInv'
<1>1. Sound(queue')
  BY SoundAppended DEF Send, IInv
<1>. QED  BY <1>1, SettingsKept

LEMMA SavePreserves ==
  ASSUME IInv, NEW t \in Tabs, NEW form, NEW v, save(t, form, v)
  PROVE  IInv'
<1>1. Send(t, Request("save", [form |-> form, value |-> v, sent |-> Sent(t, form, v)]))
  BY DEF save
<1>2. Sane(Request("save", [form |-> form, value |-> v, sent |-> Sent(t, form, v)]))
  BY DEF Sane, Request, Sent
<1>. QED  BY <1>1, <1>2, SendPreserves DEF save, store

LEMMA ShowViewPreserves ==
  ASSUME IInv, NEW t \in Tabs, NEW v, showView(t, v)
  PROVE  IInv'
<1>1. PICK S : queue \in [Tabs -> Seq(S)] /\ \A p \in S : Sane(p)
  BY DEF IInv, Sound
<1>. DEFINE L == {[q EXCEPT !.shown = FALSE] : q \in S}
            R == {Request("settings", None), Request("list", 0), Request("detail", None)}
<1>2. Left(t) \in Seq(L)
  <2>1. queue[t] \in Seq(S)
    BY <1>1
  <2>2. /\ Len(queue[t]) \in Nat /\ \A i \in 1 .. Len(queue[t]) : queue[t][i] \in S
    BY <2>1
  <2>3. \A i \in 1 .. Len(queue[t]) : [queue[t][i] EXCEPT !.shown = FALSE] \in L
    BY <2>2
  <2>. HIDE DEF L
  <2>. QED  BY <2>2, <2>3 DEF Left
<1>3. Refresh(v, None) \in Seq(R)
  BY RefreshReads
<1>4. \A q \in L \cup R : Sane(q)
  BY <1>1, OtherRequests, EditedRequests
<1>. HIDE DEF L, R
<1>5. Left(t) \in Seq(L \cup R)
  BY <1>2, MoreRequests
<1>6. Refresh(v, None) \in Seq(L \cup R)
  <2>1. L \cup R = R \cup L
    OBVIOUS
  <2>. QED  BY <1>3, <2>1, MoreRequests
<1>7. Left(t) \o Refresh(v, None) \in Seq(L \cup R)
  BY <1>5, <1>6
<1>8. Sound([queue EXCEPT ![t] = Left(t) \o Refresh(v, None)])
  BY <1>4, <1>7, SoundReplaced DEF IInv
<1>9. Sound(queue')
  BY <1>8 DEF showView
<1>. QED  BY <1>9, SettingsKept DEF showView, store

LEMMA MovePreserves ==
  ASSUME IInv, NEW t \in Tabs, Move(t)
  PROVE  IInv'
<1>1. CASE \E v \in {"dictation", "library", "settings"} : showView(t, v)
  BY <1>1, ShowViewPreserves
<1>2. CASE \E r \in Recordings : select(t, r)
  BY <1>2, OtherRequests, SendPreserves DEF select, store
<1>3. CASE returnToList(t)
  BY <1>3, OtherRequests, SendPreserves DEF returnToList, store
<1>4. CASE Change(t, moves + 1)
  <2>1. CASE \/ \E s \in Sections : save(t, {s}, moves + 1)
             \/ save(t, Sections, 0)
    BY <2>1, SavePreserves
  <2>2. CASE \E c \in Categories, p \in Policies : saveRetention(t, c, p)
    BY <2>2, OtherRequests, SendPreserves DEF saveRetention, store
  <2>3. CASE saveDetails(t, moves + 1)
    BY <2>3, OtherRequests, SendPreserves DEF saveDetails, store
  <2>4. CASE deleteRecording(t)
    BY <2>4, OtherRequests, SendPreserves DEF deleteRecording, store
  <2>. QED  BY <1>4, <2>1, <2>2, <2>3, <2>4 DEF Change
<1>. QED  BY <1>1, <1>2, <1>3, <1>4 DEF Move

LEMMA StepIInv == IInv /\ [Next]_vars => IInv'
<1>1. ASSUME IInv, NEW t \in Tabs, TabStep(t)  PROVE IInv'
  <2>1. CASE loadMore(t)
    BY <1>1, <2>1, OtherRequests, SendPreserves DEF loadMore, store
  <2>. QED
    BY <1>1, <2>1, ServePreserves, RefusePreserves, OvertakePreserves, ReceivePreserves,
       ReceiveDeletedPreserves, MovePreserves
    DEF TabStep
<1>2. ASSUME IInv, NEW r \in Recordings, GrowOld(r)  PROVE IInv'
  BY <1>2 DEF IInv, NoLostUpdate, Sound, GrowOld
<1>3. ASSUME IInv, NEW c \in Categories, sweepRetention(c)  PROVE IInv'
  BY <1>3 DEF IInv, NoLostUpdate, Sound, sweepRetention
<1>4. ASSUME IInv, UNCHANGED vars  PROVE IInv'
  BY <1>4 DEF IInv, NoLostUpdate, Sound, vars, store
<1>. QED  BY <1>1, <1>2, <1>3, <1>4 DEF Next

(* The settings the store holds are, section by section, the last ones     *)
(* saved: updateWorkspaceSettings merges what a form sent, and a form      *)
(* sends its own section only, however old the snapshot it was filled from.*)
THEOREM NothingLost == Spec => []NoLostUpdate
<1>1. Init => IInv
  BY InitIInv
<1>2. IInv /\ [Next]_vars => IInv'
  BY StepIInv
<1>3. IInv => NoLostUpdate
  BY DEF IInv
<1>. QED  BY <1>1, <1>2, <1>3, PTL DEF Spec

---------------------------------------------------------------------------
(* What the requests of a tab will show.  s is its queue, v its view, sel  *)
(* the selected recording; db and both are what the store holds.           *)

(* A pane that is still there will take the answer of such a request, and  *)
(* a later one overwrites it.                                              *)
Shows(q, kinds) == q.shown /\ q.kind \in kinds
LaterShows(s, i, kinds) == \E j \in 1 .. Len(s) : j > i /\ Shows(s[j], kinds)
Writes(q) == q.shown /\ (q.kind = "detail" \/ (q.kind = "title" /\ q.state = "served"))
LaterWrites(s, i) == \E j \in 1 .. Len(s) : j > i /\ Writes(s[j])
(* The list is read again once the tab hears of its deletion.              *)
DeletePending(s) == \E i \in 1 .. Len(s) : Shows(s[i], {"delete"}) /\ s[i].state = "served"

(* What a list and a detail view may show of the store: a recording that   *)
(* is there or grew too old, with its title; behind an open recording the  *)
(* list may show an earlier title until it is read again.                  *)
ItemsOk(items, sel, db) ==
  /\ \E S : items \in Seq(S)
  /\ \A i \in 1 .. Len(items) :
       /\ items[i][1] \in db.rows \/ items[i][1] \in db.old
       /\ \/ items[i][2] = db.title[items[i][1]] \/ sel # None
          \/ items[i][1] \notin db.rows
DetailGood(v, sel, db) ==
  v # <<>> /\ v[1] = sel => sel \in db.old \/ (sel \in db.rows /\ v[2] = db.title[sel])

(* In each pane: an answer that has come is right unless a later one will  *)
(* overwrite it, and so is what shows now, unless a read of it failed.     *)
SettingsShow(s, v, snap, miss, both) ==
  v = "settings" =>
    /\ \A i \in 1 .. Len(s) :
         Shows(s[i], {"settings"}) /\ s[i].state = "served" =>
           LaterShows(s, i, {"settings"}) \/ s[i].value = both
    /\ LaterShows(s, 0, {"settings"}) \/ "settings" \in miss \/ snap = both

ListShows(s, v, sel, items, miss, db) ==
  v = "library" /\ ~DeletePending(s) =>
    /\ \A i \in 1 .. Len(s) :
         Shows(s[i], {"list", "more"}) /\ s[i].state = "served" =>
           LaterShows(s, i, {"list"}) \/ ItemsOk(s[i].value.items, sel, db)
    /\ LaterShows(s, 0, {"list"}) \/ "list" \in miss \/ ItemsOk(items, sel, db)

DetailShows(s, sel, det, miss, db) ==
  sel # None /\ ~DeletePending(s) =>
    /\ \A i \in 1 .. Len(s) :
         Writes(s[i]) /\ s[i].state = "served" =>
           LaterWrites(s, i) \/ DetailGood(s[i].value, sel, db)
    /\ LaterWrites(s, 0) \/ "detail" \in miss \/ DetailGood(det, sel, db)

(* A request as the panes send it and the server answers it.               *)
Fit(q) ==
  /\ DOMAIN q = {"kind", "arg", "shown", "state", "value"}
  /\ q.state \in {"sent", "served", "failed"}
  /\ q.kind \in {"list", "more"} => q.arg \in Nat
  /\ q.kind \in {"list", "more"} /\ q.state = "served" =>
       DOMAIN q.value = {"items", "next"} /\ q.value.next \in Nat
  /\ q.kind = "title" => q.arg = <<q.arg[1], q.arg[2]>>

(* Requests are served in turn.                                            *)
Ordered(s) ==
  \A i, j \in 1 .. Len(s) : i < j /\ s[j].state # "sent" => s[i].state # "sent"
(* With a recording open, whatever an earlier view asked or changed is     *)
(* followed by a read for this one; with the list open, a change made in   *)
(* the detail view is followed by a read of the list.                      *)
DetailAsked(s, sel) ==
  sel # None => \A i \in 1 .. Len(s) :
    /\ s[i].kind = "detail" =>
         (s[i].shown /\ s[i].arg = sel) \/ LaterShows(s, i, {"detail"})
    /\ s[i].kind \in {"title", "delete"} => s[i].shown \/ LaterShows(s, i, {"detail"})
ListAsked(s, v, sel) ==
  v = "library" => \A i \in 1 .. Len(s) :
    s[i].kind \in {"title", "delete"} =>
      (s[i].shown /\ sel # None) \/ LaterShows(s, i, {"list"})
Settled(s, v, sel) ==
  /\ sel # None => v = "library"
  /\ \A i \in 1 .. Len(s) : Fit(s[i])
  /\ Ordered(s) /\ DetailAsked(s, sel) /\ ListAsked(s, v, sel)

---------------------------------------------------------------------------
(* Queues: z is s without its first request, or s with one more.           *)
Popped(s, z) ==
  /\ Len(s) \in Nat /\ Len(z) \in Nat /\ Len(s) = Len(z) + 1
  /\ \A i \in 1 .. Len(z) : z[i] = s[i + 1]
Added(s, z, x) ==
  /\ Len(s) \in Nat /\ Len(z) \in Nat /\ Len(z) = Len(s) + 1
  /\ \A i \in 1 .. Len(s) : z[i] = s[i]
  /\ z[Len(z)] = x

(* What is later stays so as the queue moves on or grows.                  *)
LEMMA PoppedLater ==
  ASSUME NEW s, NEW z, Popped(s, z), NEW i \in Nat, NEW K
  PROVE  LaterShows(z, i, K) <=> LaterShows(s, i + 1, K)
<1>1. \A j \in 1 .. Len(s) : j > i + 1 => j - 1 \in 1 .. Len(z) /\ j - 1 > i /\ z[j - 1] = s[j]
  BY DEF Popped
<1>2. \A j \in 1 .. Len(z) : j > i => j + 1 \in 1 .. Len(s) /\ j + 1 > i + 1 /\ z[j] = s[j + 1]
  BY DEF Popped
<1>3. LaterShows(s, i + 1, K) => LaterShows(z, i, K)
  BY <1>1 DEF LaterShows
<1>4. LaterShows(z, i, K) => LaterShows(s, i + 1, K)
  BY <1>2 DEF LaterShows
<1>. QED  BY <1>3, <1>4

LEMMA PoppedLaterWrites ==
  ASSUME NEW s, NEW z, Popped(s, z), NEW i \in Nat
  PROVE  LaterWrites(z, i) <=> LaterWrites(s, i + 1)
<1>1. \A j \in 1 .. Len(s) : j > i + 1 => j - 1 \in 1 .. Len(z) /\ j - 1 > i /\ z[j - 1] = s[j]
  BY DEF Popped
<1>2. \A j \in 1 .. Len(z) : j > i => j + 1 \in 1 .. Len(s) /\ j + 1 > i + 1 /\ z[j] = s[j + 1]
  BY DEF Popped
<1>3. LaterWrites(s, i + 1) => LaterWrites(z, i)
  BY <1>1 DEF LaterWrites
<1>4. LaterWrites(z, i) => LaterWrites(s, i + 1)
  BY <1>2 DEF LaterWrites
<1>. QED  BY <1>3, <1>4

LEMMA HeadLater ==
  ASSUME NEW s, NEW z, Popped(s, z), NEW K
  PROVE  LaterShows(s, 0, K) <=> Shows(s[1], K) \/ LaterShows(z, 0, K)
<1>1. /\ \A j \in 1 .. Len(s) : j > 0 <=> j = 1 \/ j > 0 + 1
      /\ 1 \in 1 .. Len(s)
  BY DEF Popped
<1>2. LaterShows(s, 0, K) <=> Shows(s[1], K) \/ LaterShows(s, 0 + 1, K)
  BY <1>1 DEF LaterShows
<1>. QED  BY <1>2, PoppedLater

LEMMA HeadLaterWrites ==
  ASSUME NEW s, NEW z, Popped(s, z)
  PROVE  LaterWrites(s, 0) <=> Writes(s[1]) \/ LaterWrites(z, 0)
<1>1. /\ \A j \in 1 .. Len(s) : j > 0 <=> j = 1 \/ j > 0 + 1
      /\ 1 \in 1 .. Len(s)
  BY DEF Popped
<1>2. LaterWrites(s, 0) <=> Writes(s[1]) \/ LaterWrites(s, 0 + 1)
  BY <1>1 DEF LaterWrites
<1>. QED  BY <1>2, PoppedLaterWrites

LEMMA AddedLater ==
  ASSUME NEW s, NEW z, NEW x, Added(s, z, x), NEW i \in Nat, NEW K
  PROVE  /\ LaterShows(s, i, K) => LaterShows(z, i, K)
         /\ i <= Len(s) /\ Shows(x, K) => LaterShows(z, i, K)
<1>1. \A j \in 1 .. Len(s) : j \in 1 .. Len(z) /\ z[j] = s[j]
  BY DEF Added
<1>2. i <= Len(s) => Len(z) \in 1 .. Len(z) /\ Len(z) > i /\ z[Len(z)] = x
  BY DEF Added
<1>3. LaterShows(s, i, K) => LaterShows(z, i, K)
  BY <1>1 DEF LaterShows
<1>4. i <= Len(s) /\ Shows(x, K) => LaterShows(z, i, K)
  BY <1>2 DEF LaterShows
<1>. QED  BY <1>3, <1>4

LEMMA AddedLaterWrites ==
  ASSUME NEW s, NEW z, NEW x, Added(s, z, x), NEW i \in Nat
  PROVE  /\ LaterWrites(s, i) => LaterWrites(z, i)
         /\ i <= Len(s) /\ Writes(x) => LaterWrites(z, i)
<1>1. \A j \in 1 .. Len(s) : j \in 1 .. Len(z) /\ z[j] = s[j]
  BY DEF Added
<1>2. i <= Len(s) => Len(z) \in 1 .. Len(z) /\ Len(z) > i /\ z[Len(z)] = x
  BY DEF Added
<1>3. LaterWrites(s, i) => LaterWrites(z, i)
  BY <1>1 DEF LaterWrites
<1>4. i <= Len(s) /\ Writes(x) => LaterWrites(z, i)
  BY <1>2 DEF LaterWrites
<1>. QED  BY <1>3, <1>4

(* The order of the requests is kept.                                      *)
LEMMA PoppedSettled ==
  ASSUME NEW s, NEW z, Popped(s, z), NEW v, NEW sel, Settled(s, v, sel)
  PROVE  Settled(z, v, sel)
<1>1. \A i \in 1 .. Len(z) : i + 1 \in 1 .. Len(s) /\ z[i] = s[i + 1] /\ i \in Nat
  BY DEF Popped
<1>2. Ordered(z)
  <2>1. \A i, j \in 1 .. Len(z) : i < j => i + 1 < j + 1
    BY <1>1
  <2>. QED  BY <1>1, <2>1 DEF Settled, Ordered
<1>3. DetailAsked(z, sel)
  <2>1. ASSUME sel # None, NEW i \in 1 .. Len(z)
        PROVE /\ z[i].kind = "detail" => (z[i].shown /\ z[i].arg = sel) \/ LaterShows(z, i, {"detail"})
              /\ z[i].kind \in {"title", "delete"} => z[i].shown \/ LaterShows(z, i, {"detail"})
    <3>1. /\ s[i+1].kind = "detail" => (s[i+1].shown /\ s[i+1].arg = sel) \/ LaterShows(s, i+1, {"detail"})
          /\ s[i+1].kind \in {"title", "delete"} => s[i+1].shown \/ LaterShows(s, i+1, {"detail"})
      BY <1>1, <2>1 DEF Settled, DetailAsked
    <3>. QED  BY <1>1, <3>1, PoppedLater
  <2>. QED  BY <2>1 DEF DetailAsked
<1>4. ListAsked(z, v, sel)
  <2>1. ASSUME v = "library", NEW i \in 1 .. Len(z)
        PROVE  z[i].kind \in {"title", "delete"} =>
                 (z[i].shown /\ sel # None) \/ LaterShows(z, i, {"list"})
    <3>1. s[i+1].kind \in {"title", "delete"} =>
            (s[i+1].shown /\ sel # None) \/ LaterShows(s, i+1, {"list"})
      BY <1>1, <2>1 DEF Settled, ListAsked
    <3>. QED  BY <1>1, <3>1, PoppedLater
  <2>. QED  BY <2>1 DEF ListAsked
<1>. QED  BY <1>1, <1>2, <1>3, <1>4 DEF Settled

LEMMA AddedSettled ==
  ASSUME NEW s, NEW z, NEW x, Added(s, z, x), NEW v, NEW sel, Settled(s, v, sel),
         Fit(x), x.state = "sent",
         x.kind = "detail" /\ sel # None => x.shown /\ x.arg = sel,
         x.kind \in {"title", "delete"} => x.shown /\ sel # None
  PROVE  Settled(z, v, sel)
<1>1. \A i \in 1 .. Len(z) : i \in Nat /\ ((i \in 1 .. Len(s) /\ z[i] = s[i]) \/ i = Len(z))
  BY DEF Added
<1>2. z[Len(z)] = x
  BY DEF Added
<1>3. Ordered(z)
  <2>1. ASSUME NEW i \in 1 .. Len(z), NEW j \in 1 .. Len(z), i < j, z[j].state # "sent"
        PROVE  z[i].state # "sent"
    <3>1. j # Len(z)
      BY <1>2, <2>1
    <3>2. i # Len(z)
      BY <2>1 DEF Added
    <3>. QED  BY <1>1, <2>1, <3>1, <3>2 DEF Settled, Ordered
  <2>. QED  BY <2>1 DEF Ordered
<1>4. DetailAsked(z, sel)
  <2>1. ASSUME sel # None, NEW i \in 1 .. Len(z)
        PROVE /\ z[i].kind = "detail" => (z[i].shown /\ z[i].arg = sel) \/ LaterShows(z, i, {"detail"})
              /\ z[i].kind \in {"title", "delete"} => z[i].shown \/ LaterShows(z, i, {"detail"})
    <3>1. CASE i = Len(z)
      BY <1>2, <2>1, <3>1
    <3>2. CASE i # Len(z)
      <4>1. i \in 1 .. Len(s) /\ z[i] = s[i] /\ i \in Nat
        BY <1>1, <3>2
      <4>2. /\ s[i].kind = "detail" => (s[i].shown /\ s[i].arg = sel) \/ LaterShows(s, i, {"detail"})
            /\ s[i].kind \in {"title", "delete"} => s[i].shown \/ LaterShows(s, i, {"detail"})
        BY <2>1, <4>1 DEF Settled, DetailAsked
      <4>. QED  BY <4>1, <4>2, AddedLater
    <3>. QED  BY <3>1, <3>2
  <2>. QED  BY <2>1 DEF DetailAsked
<1>5. ListAsked(z, v, sel)
  <2>1. ASSUME v = "library", NEW i \in 1 .. Len(z)
        PROVE  z[i].kind \in {"title", "delete"} =>
                 (z[i].shown /\ sel # None) \/ LaterShows(z, i, {"list"})
    <3>1. CASE i = Len(z)
      BY <1>2, <2>1, <3>1
    <3>2. CASE i # Len(z)
      <4>1. i \in 1 .. Len(s) /\ z[i] = s[i] /\ i \in Nat
        BY <1>1, <3>2
      <4>2. s[i].kind \in {"title", "delete"} =>
              (s[i].shown /\ sel # None) \/ LaterShows(s, i, {"list"})
        BY <2>1, <4>1 DEF Settled, ListAsked
      <4>. QED  BY <4>1, <4>2, AddedLater
    <3>. QED  BY <3>1, <3>2
  <2>. QED  BY <2>1 DEF ListAsked
<1>6. \A i \in 1 .. Len(z) : Fit(z[i])
  BY <1>1, <1>2 DEF Settled
<1>. QED  BY <1>3, <1>4, <1>5, <1>6 DEF Settled

---------------------------------------------------------------------------
(* A request that is not yet served is added.                              *)

LEMMA PendingAdded ==
  ASSUME NEW s, NEW z, NEW x, Added(s, z, x), DeletePending(s)
  PROVE  DeletePending(z)
<1>1. PICK i \in 1 .. Len(s) : Shows(s[i], {"delete"}) /\ s[i].state = "served"
  BY DEF DeletePending
<1>2. i \in 1 .. Len(z) /\ z[i] = s[i]
  BY DEF Added
<1>. QED  BY <1>1, <1>2 DEF DeletePending

LEMMA AddedPlaces ==
  ASSUME NEW s, NEW z, NEW x, Added(s, z, x), x.state = "sent", NEW i \in 1 .. Len(z)
  PROVE  i \in Nat /\ (z[i].state # "served" \/ (i \in 1 .. Len(s) /\ z[i] = s[i]))
BY DEF Added

LEMMA AddedSettings ==
  ASSUME NEW s, NEW z, NEW x, Added(s, z, x), x.state = "sent",
         NEW v, NEW snap, NEW miss, NEW both, SettingsShow(s, v, snap, miss, both)
  PROVE  SettingsShow(z, v, snap, miss, both)
<1>. SUFFICES ASSUME v = "settings"
     PROVE  /\ \A i \in 1 .. Len(z) :
                 Shows(z[i], {"settings"}) /\ z[i].state = "served" =>
                   LaterShows(z, i, {"settings"}) \/ z[i].value = both
            /\ LaterShows(z, 0, {"settings"}) \/ "settings" \in miss \/ snap = both
  BY DEF SettingsShow
<1>1. ASSUME NEW i \in 1 .. Len(z), Shows(z[i], {"settings"}), z[i].state = "served"
      PROVE  LaterShows(z, i, {"settings"}) \/ z[i].value = both
  <2>1. i \in Nat /\ i \in 1 .. Len(s) /\ z[i] = s[i]
    BY <1>1, AddedPlaces
  <2>2. LaterShows(s, i, {"settings"}) \/ s[i].value = both
    BY <1>1, <2>1 DEF SettingsShow
  <2>. QED  BY <2>1, <2>2, AddedLater
<1>2. LaterShows(z, 0, {"settings"}) \/ "settings" \in miss \/ snap = both
  BY AddedLater DEF SettingsShow
<1>. QED  BY <1>1, <1>2

LEMMA AddedList ==
  ASSUME NEW s, NEW z, NEW x, Added(s, z, x), x.state = "sent",
         NEW v, NEW sel, NEW items, NEW miss, NEW db, ListShows(s, v, sel, items, miss, db)
  PROVE  ListShows(z, v, sel, items, miss, db)
<1>. SUFFICES ASSUME v = "library", ~DeletePending(z)
     PROVE  /\ \A i \in 1 .. Len(z) :
                 Shows(z[i], {"list", "more"}) /\ z[i].state = "served" =>
                   LaterShows(z, i, {"list"}) \/ ItemsOk(z[i].value.items, sel, db)
            /\ LaterShows(z, 0, {"list"}) \/ "list" \in miss \/ ItemsOk(items, sel, db)
  BY DEF ListShows
<1>0. ~DeletePending(s)
  BY PendingAdded
<1>1. ASSUME NEW i \in 1 .. Len(z), Shows(z[i], {"list", "more"}), z[i].state = "served"
      PROVE  LaterShows(z, i, {"list"}) \/ ItemsOk(z[i].value.items, sel, db)
  <2>1. i \in Nat /\ i \in 1 .. Len(s) /\ z[i] = s[i]
    BY <1>1, AddedPlaces
  <2>2. LaterShows(s, i, {"list"}) \/ ItemsOk(s[i].value.items, sel, db)
    BY <1>0, <1>1, <2>1 DEF ListShows
  <2>. QED  BY <2>1, <2>2, AddedLater
<1>2. LaterShows(z, 0, {"list"}) \/ "list" \in miss \/ ItemsOk(items, sel, db)
  BY <1>0, AddedLater DEF ListShows
<1>. QED  BY <1>1, <1>2

LEMMA AddedDetail ==
  ASSUME NEW s, NEW z, NEW x, Added(s, z, x), x.state = "sent",
         NEW sel, NEW det, NEW miss, NEW db, DetailShows(s, sel, det, miss, db)
  PROVE  DetailShows(z, sel, det, miss, db)
<1>. SUFFICES ASSUME sel # None, ~DeletePending(z)
     PROVE  /\ \A i \in 1 .. Len(z) :
                 Writes(z[i]) /\ z[i].state = "served" =>
                   LaterWrites(z, i) \/ DetailGood(z[i].value, sel, db)
            /\ LaterWrites(z, 0) \/ "detail" \in miss \/ DetailGood(det, sel, db)
  BY DEF DetailShows
<1>0. ~DeletePending(s)
  BY PendingAdded
<1>1. ASSUME NEW i \in 1 .. Len(z), Writes(z[i]), z[i].state = "served"
      PROVE  LaterWrites(z, i) \/ DetailGood(z[i].value, sel, db)
  <2>1. i \in Nat /\ i \in 1 .. Len(s) /\ z[i] = s[i]
    BY <1>1, AddedPlaces
  <2>2. LaterWrites(s, i) \/ DetailGood(s[i].value, sel, db)
    BY <1>0, <1>1, <2>1 DEF DetailShows
  <2>. QED  BY <2>1, <2>2, AddedLaterWrites
<1>2. LaterWrites(z, 0) \/ "detail" \in miss \/ DetailGood(det, sel, db)
  BY <1>0, AddedLaterWrites DEF DetailShows
<1>. QED  BY <1>1, <1>2

---------------------------------------------------------------------------
(* What is asked for last settles what will show, whatever showed before.  *)

LEMMA SettingsAskedLast ==
  ASSUME NEW s, NEW z, NEW x, Added(s, z, x), x.state = "sent", Shows(x, {"settings"}),
         NEW v, NEW snap, NEW miss, NEW both
  PROVE  SettingsShow(z, v, snap, miss, both)
<1>1. \A i \in 1 .. Len(z) : z[i].state = "served" => i \in Nat /\ i <= Len(s)
  BY AddedPlaces DEF Added
<1>2. \A i \in 1 .. Len(z) : z[i].state = "served" => LaterShows(z, i, {"settings"})
  BY <1>1, AddedLater
<1>3. LaterShows(z, 0, {"settings"})
  BY AddedLater DEF Added
<1>. QED  BY <1>2, <1>3 DEF SettingsShow

LEMMA ListAskedLast ==
  ASSUME NEW s, NEW z, NEW x, Added(s, z, x), x.state = "sent", Shows(x, {"list"}),
         NEW v, NEW sel, NEW items, NEW miss, NEW db
  PROVE  ListShows(z, v, sel, items, miss, db)
<1>1. \A i \in 1 .. Len(z) : z[i].state = "served" => i \in Nat /\ i <= Len(s)
  BY AddedPlaces DEF Added
<1>2. \A i \in 1 .. Len(z) : z[i].state = "served" => LaterShows(z, i, {"list"})
  BY <1>1, AddedLater
<1>3. LaterShows(z, 0, {"list"})
  BY AddedLater DEF Added
<1>. QED  BY <1>2, <1>3 DEF ListShows

LEMMA DetailAskedLast ==
  ASSUME NEW s, NEW z, NEW x, Added(s, z, x), x.state = "sent", Shows(x, {"detail"}),
         NEW sel, NEW det, NEW miss, NEW db
  PROVE  DetailShows(z, sel, det, miss, db)
<1>0. Writes(x)
  BY DEF Shows, Writes
<1>1. \A i \in 1 .. Len(z) : z[i].state = "served" => i \in Nat /\ i <= Len(s)
  BY AddedPlaces DEF Added
<1>2. \A i \in 1 .. Len(z) : z[i].state = "served" => LaterWrites(z, i)
  BY <1>0, <1>1, AddedLaterWrites
<1>3. LaterWrites(z, 0)
  BY <1>0, AddedLaterWrites DEF Added
<1>. QED  BY <1>2, <1>3 DEF DetailShows

(* The list is asked for as the pane goes back to it.                      *)
LEMMA ListSettled ==
  ASSUME NEW s, NEW z, NEW x, Added(s, z, x), x.state = "sent", Shows(x, {"list"}), Fit(x),
         NEW v, \A i \in 1 .. Len(s) : Fit(s[i]), Ordered(s)
  PROVE  Settled(z, v, None)
<1>1. Settled(s, "dictation", None)
  BY DEF Settled, DetailAsked, ListAsked
<1>2. x.kind = "list"
  BY DEF Shows
<1>3. Settled(z, "dictation", None)
  BY <1>1, <1>2, AddedSettled
<1>4. ListAsked(z, v, None)
  <2>1. ASSUME NEW i \in 1 .. Len(z), z[i].kind \in {"title", "delete"}
        PROVE  LaterShows(z, i, {"list"})
    <3>1. z[i] # x
      BY <1>2, <2>1
    <3>2. i \in Nat /\ i <= Len(s)
      BY <3>1 DEF Added
    <3>. QED  BY <3>2, AddedLater
  <2>. QED  BY <2>1 DEF ListAsked
<1>. QED  BY <1>3, <1>4 DEF Settled, DetailAsked

(* A recording is opened from the list.                                    *)
LEMMA DetailSettled ==
  ASSUME NEW s, NEW z, NEW x, Added(s, z, x), x.state = "sent", Shows(x, {"detail"}), Fit(x),
         NEW sel, x.arg = sel, Settled(s, "library", None)
  PROVE  Settled(z, "library", sel)
<1>0. x.kind = "detail" /\ x.shown
  BY DEF Shows
<1>1. Settled(z, "library", None)
  BY <1>0, AddedSettled
<1>2. DetailAsked(z, sel)
  <2>1. ASSUME NEW i \in 1 .. Len(z)
        PROVE  LaterShows(z, i, {"detail"}) \/ z[i] = x
    <3>1. CASE i = Len(z)
      BY <3>1 DEF Added
    <3>2. CASE i # Len(z)
      <4>1. i \in Nat /\ i <= Len(s)
        BY <3>2 DEF Added
      <4>. QED  BY <4>1, AddedLater
    <3>. QED  BY <3>1, <3>2
  <2>. QED  BY <1>0, <2>1 DEF DetailAsked
<1>3. ListAsked(z, "library", sel)
  BY <1>1 DEF Settled, ListAsked
<1>. QED  BY <1>1, <1>2, <1>3 DEF Settled

LEMMA PlainSettled ==
  ASSUME NEW s, NEW v, v # "library", \A i \in 1 .. Len(s) : Fit(s[i]), Ordered(s)
  PROVE  Settled(s, v, None)
BY DEF Settled, DetailAsked, ListAsked

---------------------------------------------------------------------------
(* A request is answered that did not matter.                              *)

LEMMA PoppedPending ==
  ASSUME NEW s, NEW z, Popped(s, z)
  PROVE  /\ DeletePending(z) => DeletePending(s)
         /\ DeletePending(s) => DeletePending(z) \/ (Shows(s[1], {"delete"}) /\ s[1].state = "served")
<1>1. \A j \in 1 .. Len(s) : j # 1 => j - 1 \in 1 .. Len(z) /\ z[j - 1] = s[j]
  BY DEF Popped
<1>2. \A j \in 1 .. Len(z) : j + 1 \in 1 .. Len(s) /\ z[j] = s[j + 1]
  BY DEF Popped
<1>3. DeletePending(z) => DeletePending(s)
  BY <1>2 DEF DeletePending
<1>4. ASSUME DeletePending(s), ~DeletePending(z)
      PROVE  Shows(s[1], {"delete"}) /\ s[1].state = "served"
  <2>1. PICK j \in 1 .. Len(s) : Shows(s[j], {"delete"}) /\ s[j].state = "served"
    BY <1>4 DEF DeletePending
  <2>2. j = 1
    BY <1>1, <1>4, <2>1 DEF DeletePending
  <2>. QED  BY <2>1, <2>2
<1>. QED  BY <1>3, <1>4

LEMMA PoppedPlaces ==
  ASSUME NEW s, NEW z, Popped(s, z), NEW i \in 1 .. Len(z)
  PROVE  i \in Nat /\ i + 1 \in 1 .. Len(s) /\ z[i] = s[i + 1]
BY DEF Popped

(* What the later requests show is right as long as what the pane keeps is *)
(* right when none of them is shown.                                       *)
LEMMA PoppedSettings ==
  ASSUME NEW s, NEW z, Popped(s, z), NEW v, NEW snap, NEW miss, NEW both,
         SettingsShow(s, v, snap, miss, both), NEW snap2, NEW miss2,
         v = "settings" =>
           LaterShows(z, 0, {"settings"}) \/ "settings" \in miss2 \/ snap2 = both
  PROVE  SettingsShow(z, v, snap2, miss2, both)
<1>1. ASSUME v = "settings",
             NEW i \in 1 .. Len(z), Shows(z[i], {"settings"}), z[i].state = "served"
      PROVE  LaterShows(z, i, {"settings"}) \/ z[i].value = both
  <2>1. i \in Nat /\ i + 1 \in 1 .. Len(s) /\ z[i] = s[i + 1]
    BY PoppedPlaces
  <2>2. LaterShows(s, i + 1, {"settings"}) \/ s[i + 1].value = both
    BY <1>1, <2>1 DEF SettingsShow
  <2>. QED  BY <2>1, <2>2, PoppedLater
<1>. QED  BY <1>1 DEF SettingsShow

LEMMA PoppedList ==
  ASSUME NEW s, NEW z, Popped(s, z), NEW v, NEW sel, NEW items, NEW miss, NEW db,
         ListShows(s, v, sel, items, miss, db), NEW items2, NEW miss2,
         ~(Shows(s[1], {"delete"}) /\ s[1].state = "served"),
         v = "library" /\ ~DeletePending(s) =>
           LaterShows(z, 0, {"list"}) \/ "list" \in miss2 \/ ItemsOk(items2, sel, db)
  PROVE  ListShows(z, v, sel, items2, miss2, db)
<1>1. ASSUME v = "library", ~DeletePending(z),
             NEW i \in 1 .. Len(z), Shows(z[i], {"list", "more"}), z[i].state = "served"
      PROVE  LaterShows(z, i, {"list"}) \/ ItemsOk(z[i].value.items, sel, db)
  <2>1. i \in Nat /\ i + 1 \in 1 .. Len(s) /\ z[i] = s[i + 1]
    BY PoppedPlaces
  <2>2. ~DeletePending(s)
    BY <1>1, PoppedPending
  <2>3. LaterShows(s, i + 1, {"list"}) \/ ItemsOk(s[i + 1].value.items, sel, db)
    BY <1>1, <2>1, <2>2 DEF ListShows
  <2>. QED  BY <2>1, <2>3, PoppedLater
<1>2. ~DeletePending(z) => ~DeletePending(s)
  BY PoppedPending
<1>. QED  BY <1>1, <1>2 DEF ListShows

LEMMA PoppedDetail ==
  ASSUME NEW s, NEW z, Popped(s, z), NEW sel, NEW det, NEW miss, NEW db,
         DetailShows(s, sel, det, miss, db), NEW det2, NEW miss2,
         ~(Shows(s[1], {"delete"}) /\ s[1].state = "served"),
         sel # None /\ ~DeletePending(s) =>
           LaterWrites(z, 0) \/ "detail" \in miss2 \/ DetailGood(det2, sel, db)
  PROVE  DetailShows(z, sel, det2, miss2, db)
<1>1. ASSUME sel # None, ~DeletePending(z),
             NEW i \in 1 .. Len(z), Writes(z[i]), z[i].state = "served"
      PROVE  LaterWrites(z, i) \/ DetailGood(z[i].value, sel, db)
  <2>1. i \in Nat /\ i + 1 \in 1 .. Len(s) /\ z[i] = s[i + 1]
    BY PoppedPlaces
  <2>2. ~DeletePending(s)
    BY <1>1, PoppedPending
  <2>3. LaterWrites(s, i + 1) \/ DetailGood(s[i + 1].value, sel, db)
    BY <1>1, <2>1, <2>2 DEF DetailShows
  <2>. QED  BY <2>1, <2>3, PoppedLaterWrites
<1>2. ~DeletePending(z) => ~DeletePending(s)
  BY PoppedPending
<1>. QED  BY <1>1, <1>2 DEF DetailShows

(* A pane keeps what it shows when the answer changes nothing there.       *)
LEMMA PoppedOther ==
  ASSUME NEW s, NEW z, Popped(s, z), NEW v, NEW sel, NEW db, NEW both,
         NEW snap, NEW miss, NEW miss2, NEW items, NEW det,
         ~(Shows(s[1], {"delete"}) /\ s[1].state = "served")
  PROVE  /\ /\ SettingsShow(s, v, snap, miss, both) /\ ~Shows(s[1], {"settings"})
            /\ "settings" \in miss => "settings" \in miss2
            => SettingsShow(z, v, snap, miss2, both)
         /\ /\ ListShows(s, v, sel, items, miss, db) /\ ~Shows(s[1], {"list"})
            /\ "list" \in miss => "list" \in miss2
            => ListShows(z, v, sel, items, miss2, db)
         /\ /\ DetailShows(s, sel, det, miss, db) /\ ~Writes(s[1])
            /\ "detail" \in miss => "detail" \in miss2
            => DetailShows(z, sel, det, miss2, db)
<1>1. ASSUME SettingsShow(s, v, snap, miss, both), ~Shows(s[1], {"settings"}),
             "settings" \in miss => "settings" \in miss2
      PROVE  SettingsShow(z, v, snap, miss2, both)
  <2>1. v = "settings" =>
          LaterShows(z, 0, {"settings"}) \/ "settings" \in miss2 \/ snap = both
    BY <1>1, HeadLater DEF SettingsShow
  <2>. QED  BY <1>1, <2>1, PoppedSettings
<1>2. ASSUME ListShows(s, v, sel, items, miss, db), ~Shows(s[1], {"list"}),
             "list" \in miss => "list" \in miss2
      PROVE  ListShows(z, v, sel, items, miss2, db)
  <2>1. v = "library" /\ ~DeletePending(s) =>
          LaterShows(z, 0, {"list"}) \/ "list" \in miss2 \/ ItemsOk(items, sel, db)
    BY <1>2, HeadLater DEF ListShows
  <2>. QED  BY <1>2, <2>1, PoppedList
<1>3. ASSUME DetailShows(s, sel, det, miss, db), ~Writes(s[1]),
             "detail" \in miss => "detail" \in miss2
      PROVE  DetailShows(z, sel, det, miss2, db)
  <2>1. sel # None /\ ~DeletePending(s) =>
          LaterWrites(z, 0) \/ "detail" \in miss2 \/ DetailGood(det, sel, db)
    BY <1>3, HeadLaterWrites DEF DetailShows
  <2>. QED  BY <1>3, <2>1, PoppedDetail
<1>. QED  BY <1>1, <1>2, <1>3

---------------------------------------------------------------------------
(* The first request that waits is served or refused: x takes its place.   *)

Marked(s, z, i, x) ==
  /\ Len(s) \in Nat /\ Len(z) = Len(s) /\ i \in 1 .. Len(s)
  /\ \A j \in 1 .. Len(s) : z[j] = IF j = i THEN x ELSE s[j]
  /\ s[i].state = "sent" /\ x.state # "sent"
  /\ \A j \in 1 .. Len(s) : j < i => s[j].state # "sent"
  /\ x.kind = s[i].kind /\ x.arg = s[i].arg /\ x.shown = s[i].shown

LEMMA MarkedLater ==
  ASSUME NEW s, NEW z, NEW i, NEW x, Marked(s, z, i, x), NEW k \in Nat, NEW K
  PROVE  LaterShows(z, k, K) <=> LaterShows(s, k, K)
<1>1. \A j \in 1 .. Len(s) : Shows(z[j], K) <=> Shows(s[j], K)
  BY DEF Marked, Shows
<1>. QED  BY <1>1 DEF LaterShows, Marked

LEMMA MarkedLaterWrites ==
  ASSUME NEW s, NEW z, NEW i, NEW x, Marked(s, z, i, x), NEW k \in Nat
  PROVE  /\ LaterWrites(s, k) => LaterWrites(z, k)
         /\ Writes(x) /\ k < i => LaterWrites(z, k)
<1>1. \A j \in 1 .. Len(s) : Writes(s[j]) => Writes(z[j])
  BY DEF Marked, Writes
<1>2. LaterWrites(s, k) => LaterWrites(z, k)
  BY <1>1 DEF LaterWrites, Marked
<1>3. Writes(x) /\ k < i => LaterWrites(z, k)
  BY DEF LaterWrites, Marked
<1>. QED  BY <1>2, <1>3

LEMMA MarkedWaiting ==
  ASSUME NEW s, NEW z, NEW i, NEW x, Marked(s, z, i, x), Ordered(s),
         NEW j \in 1 .. Len(z), z[j].state # "sent"
  PROVE  j \in Nat /\ i \in Nat /\ ((j = i /\ z[j] = x) \/ (j < i /\ z[j] = s[j]))
<1>1. i \in 1 .. Len(s) /\ j \in 1 .. Len(s) /\ s[i].state = "sent" /\ i \in Nat /\ j \in Nat
  BY DEF Marked
<1>2. z[j] = IF j = i THEN x ELSE s[j]
  BY <1>1 DEF Marked
<1>3. j # i => ~(i < j)
  BY <1>1, <1>2 DEF Ordered
<1>. QED  BY <1>1, <1>2, <1>3

LEMMA MarkedSettled ==
  ASSUME NEW s, NEW z, NEW i, NEW x, Marked(s, z, i, x), Fit(x),
         NEW v, NEW sel, Settled(s, v, sel)
  PROVE  Settled(z, v, sel)
<1>1. \A j \in 1 .. Len(z) : j \in 1 .. Len(s) /\ j \in Nat
  BY DEF Marked
<1>2. \A j \in 1 .. Len(s) :
        z[j].kind = s[j].kind /\ z[j].arg = s[j].arg /\ z[j].shown = s[j].shown
  BY DEF Marked
<1>3. \A j \in 1 .. Len(z) : Fit(z[j])
  BY DEF Marked, Settled
<1>4. Ordered(z)
  <2>1. ASSUME NEW k \in 1 .. Len(z), NEW j \in 1 .. Len(z), k < j, z[j].state # "sent"
        PROVE  z[k].state # "sent"
    <3>1. j <= i
      BY <2>1, MarkedWaiting DEF Settled
    <3>2. k < i /\ k \in 1 .. Len(s)
      BY <1>1, <2>1, <3>1 DEF Marked
    <3>. QED  BY <3>2 DEF Marked
  <2>. QED  BY <2>1 DEF Ordered
<1>5. DetailAsked(z, sel)
  <2>1. ASSUME sel # None, NEW j \in 1 .. Len(z)
        PROVE /\ z[j].kind = "detail" => (z[j].shown /\ z[j].arg = sel) \/ LaterShows(z, j, {"detail"})
              /\ z[j].kind \in {"title", "delete"} => z[j].shown \/ LaterShows(z, j, {"detail"})
    <3>1. /\ s[j].kind = "detail" => (s[j].shown /\ s[j].arg = sel) \/ LaterShows(s, j, {"detail"})
          /\ s[j].kind \in {"title", "delete"} => s[j].shown \/ LaterShows(s, j, {"detail"})
      BY <1>1, <2>1 DEF Settled, DetailAsked
    <3>2. LaterShows(z, j, {"detail"}) <=> LaterShows(s, j, {"detail"})
      BY <1>1, MarkedLater
    <3>. QED  BY <1>1, <1>2, <3>1, <3>2
  <2>. QED  BY <2>1 DEF DetailAsked
<1>6. ListAsked(z, v, sel)
  <2>1. ASSUME v = "library", NEW j \in 1 .. Len(z)
        PROVE  z[j].kind \in {"title", "delete"} =>
                 (z[j].shown /\ sel # None) \/ LaterShows(z, j, {"list"})
    <3>1. s[j].kind \in {"title", "delete"} =>
            (s[j].shown /\ sel # None) \/ LaterShows(s, j, {"list"})
      BY <1>1, <2>1 DEF Settled, ListAsked
    <3>2. LaterShows(z, j, {"list"}) <=> LaterShows(s, j, {"list"})
      BY <1>1, MarkedLater
    <3>. QED  BY <1>1, <1>2, <3>1, <3>2
  <2>. QED  BY <2>1 DEF ListAsked
<1>. QED  BY <1>3, <1>4, <1>5, <1>6 DEF Settled

LEMMA MarkedPending ==
  ASSUME NEW s, NEW z, NEW i, NEW x, Marked(s, z, i, x)
  PROVE  /\ DeletePending(s) => DeletePending(z)
         /\ Shows(x, {"delete"}) /\ x.state = "served" => DeletePending(z)
<1>1. \A j \in 1 .. Len(s) : s[j].state = "served" => j \in 1 .. Len(z) /\ z[j] = s[j]
  BY DEF Marked
<1>2. i \in 1 .. Len(z) /\ z[i] = x
  BY DEF Marked
<1>. QED  BY <1>1, <1>2 DEF DeletePending

(* An answer that is right as it is given leaves every pane right.         *)
LEMMA MarkedSettings ==
  ASSUME NEW s, NEW z, NEW i, NEW x, Marked(s, z, i, x), Ordered(s),
         NEW v, NEW snap, NEW miss, NEW both, SettingsShow(s, v, snap, miss, both),
         x.kind = "settings" /\ x.state = "served" => x.value = both
  PROVE  SettingsShow(z, v, snap, miss, both)
<1>1. ASSUME v = "settings",
             NEW j \in 1 .. Len(z), Shows(z[j], {"settings"}), z[j].state = "served"
      PROVE  LaterShows(z, j, {"settings"}) \/ z[j].value = both
  <2>1. CASE z[j] = x
    BY <1>1, <2>1 DEF Shows
  <2>2. CASE z[j] # x
    <3>1. j \in Nat /\ z[j] = s[j] /\ j \in 1 .. Len(s)
      BY <1>1, <2>2, MarkedWaiting DEF Marked
    <3>2. LaterShows(s, j, {"settings"}) \/ s[j].value = both
      BY <1>1, <3>1 DEF SettingsShow
    <3>. QED  BY <3>1, <3>2, MarkedLater
  <2>. QED  BY <2>1, <2>2
<1>2. v = "settings" =>
        LaterShows(z, 0, {"settings"}) \/ "settings" \in miss \/ snap = both
  BY MarkedLater DEF SettingsShow
<1>. QED  BY <1>1, <1>2 DEF SettingsShow

LEMMA MarkedList ==
  ASSUME NEW s, NEW z, NEW i, NEW x, Marked(s, z, i, x), Ordered(s),
         NEW v, NEW sel, NEW items, NEW miss, NEW db, ListShows(s, v, sel, items, miss, db),
         x.kind \in {"list", "more"} /\ x.state = "served" => ItemsOk(x.value.items, sel, db)
  PROVE  ListShows(z, v, sel, items, miss, db)
<1>0. ~DeletePending(z) => ~DeletePending(s)
  BY MarkedPending
<1>1. ASSUME v = "library", ~DeletePending(z),
             NEW j \in 1 .. Len(z), Shows(z[j], {"list", "more"}), z[j].state = "served"
      PROVE  LaterShows(z, j, {"list"}) \/ ItemsOk(z[j].value.items, sel, db)
  <2>1. CASE z[j] = x
    BY <1>1, <2>1 DEF Shows
  <2>2. CASE z[j] # x
    <3>1. j \in Nat /\ z[j] = s[j] /\ j \in 1 .. Len(s)
      BY <1>1, <2>2, MarkedWaiting DEF Marked
    <3>2. LaterShows(s, j, {"list"}) \/ ItemsOk(s[j].value.items, sel, db)
      BY <1>0, <1>1, <3>1 DEF ListShows
    <3>. QED  BY <3>1, <3>2, MarkedLater
  <2>. QED  BY <2>1, <2>2
<1>2. v = "library" /\ ~DeletePending(z) =>
        LaterShows(z, 0, {"list"}) \/ "list" \in miss \/ ItemsOk(items, sel, db)
  BY <1>0, MarkedLater DEF ListShows
<1>. QED  BY <1>1, <1>2 DEF ListShows

LEMMA MarkedDetail ==
  ASSUME NEW s, NEW z, NEW i, NEW x, Marked(s, z, i, x), Ordered(s),
         NEW sel, NEW det, NEW miss, NEW db, DetailShows(s, sel, det, miss, db),
         Writes(x) /\ x.state = "served" => DetailGood(x.value, sel, db)
  PROVE  DetailShows(z, sel, det, miss, db)
<1>0. ~DeletePending(z) => ~DeletePending(s)
  BY MarkedPending
<1>1. ASSUME sel # None, ~DeletePending(z),
             NEW j \in 1 .. Len(z), Writes(z[j]), z[j].state = "served"
      PROVE  LaterWrites(z, j) \/ DetailGood(z[j].value, sel, db)
  <2>1. CASE z[j] = x
    BY <1>1, <2>1
  <2>2. CASE z[j] # x
    <3>1. j \in Nat /\ z[j] = s[j] /\ j \in 1 .. Len(s)
      BY <1>1, <2>2, MarkedWaiting DEF Marked
    <3>2. LaterWrites(s, j) \/ DetailGood(s[j].value, sel, db)
      BY <1>0, <1>1, <3>1 DEF DetailShows
    <3>. QED  BY <3>1, <3>2, MarkedLaterWrites
  <2>. QED  BY <2>1, <2>2
<1>2. sel # None /\ ~DeletePending(z) =>
        LaterWrites(z, 0) \/ "detail" \in miss \/ DetailGood(det, sel, db)
  BY <1>0, MarkedLaterWrites DEF DetailShows
<1>. QED  BY <1>1, <1>2 DEF DetailShows

(* A title or a deletion that is served changes what the list and the      *)
(* recording it came from should show: the view it came from shows it when *)
(* it is answered, or reads again after it.                                *)
LEMMA ChangedList ==
  ASSUME NEW s, NEW z, NEW i, NEW x, Marked(s, z, i, x),
         NEW v, NEW sel, Settled(s, v, sel), NEW items, NEW miss, NEW db, NEW new,
         ListShows(s, v, sel, items, miss, db),
         x.state = "served", x.kind \in {"title", "delete"},
         x.kind = "title" => new.rows = db.rows /\ new.old = db.old
  PROVE  ListShows(z, v, sel, items, miss, new)
<1>0. Ordered(s) /\ i \in Nat /\ x.kind = s[i].kind /\ x.shown = s[i].shown /\ i \in 1 .. Len(s)
  BY DEF Settled, Marked
<1>1. CASE v = "library" /\ LaterShows(s, i, {"list"})
  <2>1. \A j \in 1 .. Len(z) : z[j].state = "served" => j \in Nat /\ j <= i
    BY <1>0, MarkedWaiting
  <2>2. \A j \in Nat : j <= i => LaterShows(s, j, {"list"})
    BY <1>0, <1>1 DEF LaterShows, Marked
  <2>3. \A j \in 1 .. Len(z) : z[j].state = "served" => LaterShows(z, j, {"list"})
    BY <2>1, <2>2, MarkedLater
  <2>4. 0 <= i /\ LaterShows(z, 0, {"list"})
    BY <1>0, <2>2, MarkedLater
  <2>. QED  BY <2>3, <2>4 DEF ListShows
<1>2. CASE v = "library" /\ ~LaterShows(s, i, {"list"})
  <2>1. x.shown /\ sel # None
    BY <1>0, <1>2 DEF Settled, ListAsked
  <2>2. CASE x.kind = "delete"
    <3>1. Shows(x, {"delete"})
      BY <2>1, <2>2 DEF Shows
    <3>2. DeletePending(z)
      BY <3>1, MarkedPending
    <3>. QED  BY <3>2 DEF ListShows
  <2>3. CASE x.kind = "title"
    <3>1. \A its : ItemsOk(its, sel, db) => ItemsOk(its, sel, new)
      BY <2>1, <2>3 DEF ItemsOk
    <3>2. ListShows(s, v, sel, items, miss, new)
      BY <3>1 DEF ListShows
    <3>. QED  BY <1>0, <2>3, <3>2, MarkedList
  <2>. QED  BY <2>2, <2>3
<1>. QED  BY <1>1, <1>2 DEF ListShows

LEMMA ChangedDetail ==
  ASSUME NEW s, NEW z, NEW i, NEW x, Marked(s, z, i, x),
         NEW v, NEW sel, Settled(s, v, sel), NEW det, NEW miss, NEW new,
         x.state = "served", x.kind \in {"title", "delete"},
         x.kind = "title" => DetailGood(x.value, sel, new)
  PROVE  DetailShows(z, sel, det, miss, new)
<1>0. Ordered(s) /\ i \in Nat /\ x.kind = s[i].kind /\ x.shown = s[i].shown /\ i \in 1 .. Len(s)
  BY DEF Settled, Marked
<1>1. CASE sel # None /\ ~x.shown
  <2>1. LaterShows(s, i, {"detail"})
    BY <1>0, <1>1 DEF Settled, DetailAsked
  <2>2. LaterWrites(s, i)
    BY <2>1 DEF LaterShows, LaterWrites, Shows, Writes
  <2>3. \A j \in Nat : j <= i => LaterWrites(s, j)
    BY <1>0, <2>2 DEF LaterWrites, Marked
  <2>4. \A j \in 1 .. Len(z) : z[j].state = "served" => j \in Nat /\ j <= i
    BY <1>0, MarkedWaiting
  <2>5. \A j \in 1 .. Len(z) : z[j].state = "served" => LaterWrites(z, j)
    BY <2>3, <2>4, MarkedLaterWrites
  <2>6. 0 <= i /\ LaterWrites(z, 0)
    BY <1>0, <2>3, MarkedLaterWrites
  <2>. QED  BY <2>5, <2>6 DEF DetailShows
<1>2. CASE x.shown /\ x.kind = "delete"
  <2>1. DeletePending(z)
    BY <1>2, MarkedPending DEF Shows
  <2>. QED  BY <2>1 DEF DetailShows
<1>3. CASE x.shown /\ x.kind = "title"
  <2>1. Writes(x)
    BY <1>3 DEF Writes
  <2>2. \A j \in 1 .. Len(z) : z[j].state = "served" => j \in Nat /\ (z[j] = x \/ j < i)
    BY <1>0, MarkedWaiting
  <2>3. \A j \in 1 .. Len(z) : z[j].state = "served" => z[j] = x \/ LaterWrites(z, j)
    BY <2>1, <2>2, MarkedLaterWrites
  <2>4. 0 < i /\ LaterWrites(z, 0)
    BY <1>0, <2>1, MarkedLaterWrites
  <2>. QED  BY <1>3, <2>3, <2>4 DEF DetailShows
<1>. QED  BY <1>1, <1>2, <1>3 DEF DetailShows

---------------------------------------------------------------------------
(* Sequences.                                                              *)

LEMMA TailPopped ==
  ASSUME NEW S, NEW s \in Seq(S), s # <<>>
  PROVE  Popped(s, Tail(s))
<1>1. Len(s) \in Nat /\ Len(s) # 0
  BY EmptySeq
<1>. QED  BY <1>1 DEF Popped

LEMMA AppendAdded ==
  ASSUME NEW S, NEW s \in Seq(S), NEW x
  PROVE  Added(s, Append(s, x), x)
<1>1. s \in Seq(S \cup {x})
  OBVIOUS
<1>. QED  BY <1>1 DEF Added

LEMMA ConcatAdded ==
  ASSUME NEW S, NEW s \in Seq(S), NEW x, NEW y
  PROVE  /\ Added(s, s \o <<x>>, x)
         /\ Added(s \o <<x>>, s \o <<x, y>>, y)
<1>1. s \in Seq(S \cup {x, y}) /\ <<x>> \in Seq(S \cup {x, y}) /\ <<x, y>> \in Seq(S \cup {x, y})
  OBVIOUS
<1>2. /\ Len(s \o <<x>>) = Len(s) + 1 /\ Len(s) \in Nat
      /\ \A i \in 1 .. Len(s) : (s \o <<x>>)[i] = s[i]
      /\ (s \o <<x>>)[Len(s) + 1] = x
  BY <1>1
<1>3. /\ Len(s \o <<x, y>>) = Len(s) + 2
      /\ \A i \in 1 .. Len(s) : (s \o <<x, y>>)[i] = s[i]
      /\ (s \o <<x, y>>)[Len(s) + 1] = x /\ (s \o <<x, y>>)[Len(s) + 2] = y
  BY <1>1
<1>4. Added(s, s \o <<x>>, x)
  BY <1>2 DEF Added
<1>5. \A i \in 1 .. (Len(s) + 1) : (s \o <<x, y>>)[i] = (s \o <<x>>)[i]
  BY <1>2, <1>3
<1>6. Added(s \o <<x>>, s \o <<x, y>>, y)
  BY <1>2, <1>3, <1>5 DEF Added
<1>. QED  BY <1>4, <1>6

LEMMA ConcatNothing ==
  ASSUME NEW S, NEW s \in Seq(S)
  PROVE  s \o <<>> = s
OBVIOUS

(* Tabs tell each other: a change of the settings is answered by telling   *)
(* every tab, the reset after it is read; a title or a deletion by telling *)
(* the others.                                                             *)
TellsAll(q) ==
  \/ q.kind \in {"save", "retention"} /\ q.state = "served"
  \/ q.kind = "settings" /\ q.arg = Tell
TellsOthers(q) == q.kind \in {"title", "delete"} /\ q.state = "served"
Telling(s) == \E i \in 1 .. Len(s) : TellsAll(s[i])
TellingOthers(s) == \E i \in 1 .. Len(s) : TellsOthers(s[i])

LEMMA PoppedTelling ==
  ASSUME NEW s, NEW z, Popped(s, z)
  PROVE  /\ Telling(s) => TellsAll(s[1]) \/ Telling(z)
         /\ TellingOthers(s) => TellsOthers(s[1]) \/ TellingOthers(z)
<1>1. \A j \in 1 .. Len(s) : j # 1 => j - 1 \in 1 .. Len(z) /\ z[j - 1] = s[j]
  BY DEF Popped
<1>. QED  BY <1>1 DEF Telling, TellingOthers

LEMMA AddedTelling ==
  ASSUME NEW s, NEW z, NEW x, Added(s, z, x)
  PROVE  /\ Telling(s) \/ TellsAll(x) => Telling(z)
         /\ TellingOthers(s) => TellingOthers(z)
<1>1. \A j \in 1 .. Len(s) : j \in 1 .. Len(z) /\ z[j] = s[j]
  BY DEF Added
<1>2. Len(z) \in 1 .. Len(z) /\ z[Len(z)] = x
  BY DEF Added
<1>. QED  BY <1>1, <1>2 DEF Telling, TellingOthers

LEMMA MarkedTelling ==
  ASSUME NEW s, NEW z, NEW i, NEW x, Marked(s, z, i, x)
  PROVE  /\ Telling(s) \/ TellsAll(x) => Telling(z)
         /\ TellingOthers(s) \/ TellsOthers(x) => TellingOthers(z)
<1>1. \A j \in 1 .. Len(s) :
        j \in 1 .. Len(z) /\ (TellsAll(s[j]) => TellsAll(z[j])) /\ (TellsOthers(s[j]) => TellsOthers(z[j]))
  BY DEF Marked, TellsAll, TellsOthers
<1>2. i \in 1 .. Len(z) /\ z[i] = x
  BY DEF Marked
<1>. QED  BY <1>1, <1>2 DEF Telling, TellingOthers

---------------------------------------------------------------------------
(* What Refresh asks for.                                                  *)

LEMMA NewRequest ==
  ASSUME NEW kind, NEW arg, kind \in {"list", "more"} => arg \in Nat,
         kind = "title" => arg = <<arg[1], arg[2]>>
  PROVE  /\ Fit(Request(kind, arg)) /\ Request(kind, arg).state = "sent"
         /\ Request(kind, arg).kind = kind /\ Request(kind, arg).arg = arg
         /\ Request(kind, arg).shown /\ Shows(Request(kind, arg), {kind})
BY DEF Fit, Request, Shows

LEMMA RefreshAdds ==
  ASSUME NEW S, NEW s \in Seq(S), NEW v, NEW sel, sel # None => v = "library"
  PROVE  \/ v = "settings" /\ Added(s, s \o Refresh(v, sel), Request("settings", None))
         \/ v = "library" /\ sel = None /\ Added(s, s \o Refresh(v, sel), Request("list", 0))
         \/ /\ v = "library" /\ sel # None
            /\ Added(s, s \o <<Request("list", 0)>>, Request("list", 0))
            /\ Added(s \o <<Request("list", 0)>>, s \o Refresh(v, sel), Request("detail", sel))
         \/ v # "settings" /\ v # "library" /\ sel = None /\ s \o Refresh(v, sel) = s
<1>1. CASE v = "settings"
  <2>1. Refresh(v, sel) = <<Request("settings", None)>>
    BY <1>1 DEF Refresh
  <2>2. Added(s, s \o <<Request("settings", None)>>, Request("settings", None))
    BY ConcatAdded
  <2>. QED  BY <1>1, <2>1, <2>2
<1>2. CASE v = "library" /\ sel = None
  <2>1. Refresh(v, sel) = <<Request("list", 0)>>
    BY <1>2 DEF Refresh
  <2>2. Added(s, s \o <<Request("list", 0)>>, Request("list", 0))
    BY ConcatAdded
  <2>. QED  BY <1>2, <2>1, <2>2
<1>3. CASE v = "library" /\ sel # None
  <2>1. Refresh(v, sel) = <<Request("list", 0), Request("detail", sel)>>
    BY <1>3 DEF Refresh
  <2>2. /\ Added(s, s \o <<Request("list", 0)>>, Request("list", 0))
        /\ Added(s \o <<Request("list", 0)>>,
                 s \o <<Request("list", 0), Request("detail", sel)>>, Request("detail", sel))
    BY ConcatAdded
  <2>. QED  BY <1>3, <2>1, <2>2
<1>4. CASE v # "settings" /\ v # "library"
  <2>1. Refresh(v, sel) = <<>>
    BY <1>4 DEF Refresh
  <2>. QED  BY <1>4, <2>1, ConcatNothing
<1>. QED  BY <1>1, <1>2, <1>3, <1>4

LEMMA RequestAdded ==
  ASSUME NEW kind, NEW arg, kind \in {"list", "more"} => arg \in Nat,
         kind = "title" => arg = <<arg[1], arg[2]>>,
         NEW s, NEW z, Added(s, z, Request(kind, arg)),
         NEW v, NEW sel, Settled(s, v, sel),
         kind = "detail" /\ sel # None => arg = sel,
         kind \in {"title", "delete"} => sel # None
  PROVE  Settled(z, v, sel)
<1>1. PICK x : x = Request(kind, arg)
  OBVIOUS
<1>2. Fit(x) /\ x.state = "sent" /\ x.kind = kind /\ x.arg = arg /\ x.shown
  BY <1>1 DEF Fit, Request
<1>3. Added(s, z, x)
  BY <1>1
<1>. QED  BY <1>2, <1>3, AddedSettled

LEMMA RefreshTelling ==
  ASSUME NEW S, NEW s \in Seq(S), NEW v, NEW sel, sel # None => v = "library"
  PROVE  /\ Telling(s) => Telling(s \o Refresh(v, sel))
         /\ TellingOthers(s) => TellingOthers(s \o Refresh(v, sel))
<1>1. \A a, b, x : Added(a, b, x) => /\ Telling(a) => Telling(b)
                                     /\ TellingOthers(a) => TellingOthers(b)
  BY AddedTelling
<1>2. \/ \E x : Added(s, s \o Refresh(v, sel), x)
      \/ \E m, x, y : Added(s, m, x) /\ Added(m, s \o Refresh(v, sel), y)
      \/ s \o Refresh(v, sel) = s
  BY RefreshAdds
<1>. QED  BY <1>1, <1>2

LEMMA RefreshOnce ==
  ASSUME NEW s, NEW z, NEW v, NEW sel, Settled(s, v, sel),
         NEW snap, NEW items, NEW det, NEW miss, NEW both, NEW db,
         \/ v = "settings" /\ Added(s, z, Request("settings", None))
         \/ v = "library" /\ sel = None /\ Added(s, z, Request("list", 0))
         \/ /\ v = "library" /\ sel # None
            /\ \E m : Added(s, m, Request("list", 0)) /\ Added(m, z, Request("detail", sel))
         \/ v # "settings" /\ v # "library" /\ sel = None /\ z = s
  PROVE  /\ Settled(z, v, sel) /\ SettingsShow(z, v, snap, miss, both)
         /\ ListShows(z, v, sel, items, miss, db) /\ DetailShows(z, sel, det, miss, db)
<1>0. /\ Request("settings", None).state = "sent"
      /\ Shows(Request("settings", None), {"settings"})
      /\ Request("list", 0).state = "sent" /\ Shows(Request("list", 0), {"list"})
      /\ Request("detail", sel).state = "sent" /\ Shows(Request("detail", sel), {"detail"})
  BY NewRequest
<1>1. CASE v = "settings" /\ Added(s, z, Request("settings", None))
  <2>1. Settled(z, v, sel)
    BY <1>1, RequestAdded
  <2>2. SettingsShow(z, v, snap, miss, both)
    BY <1>0, <1>1, SettingsAskedLast
  <2>3. v # "library" /\ sel = None
    BY <1>1 DEF Settled
  <2>. QED  BY <2>1, <2>2, <2>3 DEF ListShows, DetailShows
<1>2. CASE v = "library" /\ sel = None /\ Added(s, z, Request("list", 0))
  <2>1. Settled(z, v, sel)
    BY <1>2, RequestAdded
  <2>2. ListShows(z, v, sel, items, miss, db)
    BY <1>0, <1>2, ListAskedLast
  <2>. QED  BY <1>2, <2>1, <2>2 DEF SettingsShow, DetailShows
<1>3. CASE /\ v = "library" /\ sel # None
           /\ \E m : Added(s, m, Request("list", 0)) /\ Added(m, z, Request("detail", sel))
  <2>1. PICK m : Added(s, m, Request("list", 0)) /\ Added(m, z, Request("detail", sel))
    BY <1>3
  <2>2. Settled(m, v, sel)
    BY <2>1, RequestAdded
  <2>3. Settled(z, v, sel)
    BY <2>1, <2>2, RequestAdded
  <2>4. ListShows(m, v, sel, items, miss, db)
    BY <1>0, <2>1, ListAskedLast
  <2>5. ListShows(z, v, sel, items, miss, db)
    BY <1>0, <2>1, <2>4, AddedList
  <2>6. DetailShows(z, sel, det, miss, db)
    BY <1>0, <2>1, DetailAskedLast
  <2>. QED  BY <1>3, <2>3, <2>5, <2>6 DEF SettingsShow
<1>4. CASE v # "settings" /\ v # "library" /\ sel = None /\ z = s
  BY <1>4 DEF SettingsShow, ListShows, DetailShows
<1>. QED  BY <1>1, <1>2, <1>3, <1>4

(* Whatever a pane showed, it will show what it is told to read.           *)
LEMMA RefreshShows ==
  ASSUME NEW S, NEW s \in Seq(S), NEW v, NEW sel, Settled(s, v, sel),
         NEW snap, NEW items, NEW det, NEW miss, NEW both, NEW db,
         NEW z, z = s \o Refresh(v, sel)
  PROVE  /\ Settled(z, v, sel) /\ SettingsShow(z, v, snap, miss, both)
         /\ ListShows(z, v, sel, items, miss, db) /\ DetailShows(z, sel, det, miss, db)
<1>1. sel # None => v = "library"
  BY DEF Settled
<1>2. \/ v = "settings" /\ Added(s, z, Request("settings", None))
      \/ v = "library" /\ sel = None /\ Added(s, z, Request("list", 0))
      \/ /\ v = "library" /\ sel # None
         /\ Added(s, s \o <<Request("list", 0)>>, Request("list", 0))
         /\ Added(s \o <<Request("list", 0)>>, z, Request("detail", sel))
      \/ v # "settings" /\ v # "library" /\ sel = None /\ z = s
  BY <1>1, RefreshAdds
<1>3. \/ v = "settings" /\ Added(s, z, Request("settings", None))
      \/ v = "library" /\ sel = None /\ Added(s, z, Request("list", 0))
      \/ /\ v = "library" /\ sel # None
         /\ \E m : Added(s, m, Request("list", 0)) /\ Added(m, z, Request("detail", sel))
      \/ v # "settings" /\ v # "library" /\ sel = None /\ z = s
  BY <1>2
<1>. HIDE <1>2
<1>. QED  BY <1>3, RefreshOnce

---------------------------------------------------------------------------
(* The inductive invariant: a tab will be told to read again, or what its  *)
(* requests will show is what the store holds.                             *)

Db == [rows |-> rows, title |-> title, old |-> old]
Both == [settings |-> settings, retention |-> policy]

Tells(t) ==
  \E u \in Tabs : Telling(queue[u]) \/ (u # t /\ TellingOthers(queue[u]))
Asks(t) == Settled(queue[t], view[t], selected[t])
Right(t) ==
  /\ SettingsShow(queue[t], view[t], snapshot[t], missed[t], Both)
  /\ ListShows(queue[t], view[t], selected[t], page[t].items, missed[t], Db)
  /\ DetailShows(queue[t], selected[t], detail[t], missed[t], Db)
Fine(t) == Asks(t) /\ (Tells(t) \/ Right(t))

Typed ==
  /\ DOMAIN title = Recordings /\ rows \subseteq Recordings
  /\ DOMAIN view = Tabs /\ DOMAIN selected = Tabs /\ DOMAIN snapshot = Tabs
  /\ DOMAIN page = Tabs /\ DOMAIN detail = Tabs /\ DOMAIN missed = Tabs
  /\ \A t \in Tabs : DOMAIN page[t] = {"items", "next"} /\ page[t].next \in Nat

CInv == IInv /\ Typed /\ \A t \in Tabs : Fine(t)

LEMMA QueueIs ==
  ASSUME IInv
  PROVE  DOMAIN queue = Tabs /\ \A t \in Tabs : \E S : queue[t] \in Seq(S)
<1>1. PICK S : queue \in [Tabs -> Seq(S)]
  BY DEF IInv, Sound
<1>. QED  BY <1>1

LEMMA TellsStays ==
  ASSUME NEW t \in Tabs, Tells(t),
         \A u \in Tabs : /\ Telling(queue[u]) => Telling(queue'[u])
                         /\ u # t /\ TellingOthers(queue[u]) => TellingOthers(queue'[u])
  PROVE  Tells(t)'
BY DEF Tells

(* A step of another tab that changes nothing here.                        *)
LEMMA StaysFine ==
  ASSUME NEW t \in Tabs, Fine(t), UNCHANGED store,
         queue'[t] = queue[t], view'[t] = view[t], selected'[t] = selected[t],
         snapshot'[t] = snapshot[t], page'[t] = page[t], detail'[t] = detail[t],
         missed'[t] = missed[t], Tells(t) => Tells(t)'
  PROVE  Fine(t)'
<1>1. Both' = Both /\ Db' = Db
  BY DEF Both, Db, store
<1>2. Asks(t)'
  BY DEF Fine, Asks
<1>3. Right(t) => Right(t)'
  BY <1>1 DEF Right
<1>. QED  BY <1>2, <1>3 DEF Fine

(* A tab that is told is right whatever has changed in the store.          *)
LEMMA ToldFine ==
  ASSUME NEW t \in Tabs, NEW S, NEW s \in Seq(S),
         queue'[t] = s \o Refresh(view'[t], selected'[t]),
         Settled(s, view'[t], selected'[t])
  PROVE  Fine(t)'
<1>1. Asks(t)'
  BY RefreshShows DEF Asks
<1>2. Right(t)'
  BY RefreshShows DEF Right
<1>. QED  BY <1>1, <1>2 DEF Fine

---------------------------------------------------------------------------
(* What the server answers.                                                *)

(* Recordings are numbers, and the store holds finitely many.              *)
LEMMA RowsFinite ==
  ASSUME Typed
  PROVE  IsFiniteSet(rows) /\ Cardinality(rows) \in Nat /\ rows \subseteq Nat
<1>1. IsFiniteSet(Recordings) /\ Recordings \subseteq Nat
  BY WorkspaceAssumption
<1>2. IsFiniteSet(rows)
  BY <1>1, FS_Subset DEF Typed
<1>. QED  BY <1>1, <1>2, FS_CardinalityType DEF Typed

(* Every place in the list is taken by the recording with so many newer.   *)
LEMMA PlacesTaken ==
  ASSUME Typed, NEW n \in Nat, n < Cardinality(rows)
  PROVE  NthNewest(n) \in rows
<1>. DEFINE Newer(r) == {x \in rows : x > r}
            f == [r \in rows |-> Cardinality(Newer(r))]
            T == 0 .. (Cardinality(rows) - 1)
<1>0. IsFiniteSet(rows) /\ Cardinality(rows) \in Nat /\ rows \subseteq Nat
  BY RowsFinite
<1>1. ASSUME NEW r \in rows
      PROVE  /\ IsFiniteSet(Newer(r)) /\ Cardinality(Newer(r)) \in Nat
             /\ Cardinality(Newer(r)) < Cardinality(rows)
  <2>1. Newer(r) \subseteq rows /\ Newer(r) # rows
    BY <1>0
  <2>. HIDE DEF Newer
  <2>. QED  BY <1>0, <2>1, FS_Subset, FS_CardinalityType
<1>2. ASSUME NEW r \in rows, NEW q \in rows, r < q
      PROVE  Cardinality(Newer(q)) < Cardinality(Newer(r))
  <2>1. ASSUME NEW x \in Newer(q)  PROVE x \in Newer(r)
    <3>1. x \in rows /\ x > q
      OBVIOUS
    <3>2. x \in Nat /\ q \in Nat /\ r \in Nat
      BY <1>0, <3>1
    <3>3. x > r
      BY <1>2, <3>1, <3>2
    <3>. QED  BY <3>1, <3>3
  <2>2. q \in Newer(r) /\ q \notin Newer(q)
    BY <1>0, <1>2
  <2>3. IsFiniteSet(Newer(r)) /\ Cardinality(Newer(r)) \in Nat /\ Cardinality(Newer(q)) \in Nat
    BY <1>1
  <2>4. Newer(q) \subseteq Newer(r)
    BY <2>1
  <2>. HIDE DEF Newer
  <2>5. Newer(q) # Newer(r)
    BY <2>2
  <2>6. /\ Cardinality(Newer(q)) <= Cardinality(Newer(r))
        /\ Cardinality(Newer(q)) = Cardinality(Newer(r)) => Newer(q) = Newer(r)
    BY <2>3, <2>4, FS_Subset
  <2>. QED  BY <2>3, <2>5, <2>6
<1>3. f \in [rows -> T]
  BY <1>0, <1>1
<1>4. \A r, q \in rows : f[r] = f[q] => r = q
  <2>1. ASSUME NEW r \in rows, NEW q \in rows, r # q  PROVE f[r] # f[q]
    <3>1. r < q \/ q < r
      BY <1>0, <2>1
    <3>2. f[r] \in Nat /\ f[q] \in Nat
      BY <1>1
    <3>. QED  BY <1>2, <3>1, <3>2
  <2>. QED  BY <2>1
<1>5. f \in Injection(rows, T)
  <2>. HIDE DEF f, T
  <2>. QED  BY <1>3, <1>4 DEF Injection, IsInjective
<1>6. IsFiniteSet(T) /\ Cardinality(T) = Cardinality(rows)
  <2>1. 0 \in Int /\ Cardinality(rows) - 1 \in Int
    BY <1>0
  <2>. QED  BY <1>0, <2>1, FS_Interval
<1>7. f \in Surjection(rows, T)
  <2>. HIDE DEF f, T
  <2>. QED  BY <1>5, <1>6, FS_Injection
<1>8. n \in T
  BY <1>0
<1>9. \E r \in rows : f[r] = n
  <2>. HIDE DEF f, T
  <2>. QED  BY <1>7, <1>8 DEF Surjection
<1>10. \E r \in rows : Cardinality({x \in rows : x > r}) = n
  BY <1>9
<1>. QED  BY <1>10 DEF NthNewest

LEMMA ListedIs ==
  ASSUME Typed, NEW n \in Nat
  PROVE  /\ DOMAIN Listed(n) = {"items", "next"} /\ Listed(n).next \in Nat
         /\ \A sel : ItemsOk(Listed(n).items, sel, Db)
<1>0. Cardinality(rows) \in Nat /\ PageSize \in Nat
  BY RowsFinite, WorkspaceAssumption
<1>. DEFINE all == Cardinality(rows)
            to == IF n + PageSize < all THEN n + PageSize ELSE all
            Item(i) == <<NthNewest(n + i - 1), title[NthNewest(n + i - 1)]>>
            items == [i \in 1 .. (to - n) |-> Item(i)]
<1>1. CASE n > all
  <2>1. Listed(n) = EmptyPage
    BY <1>1 DEF Listed
  <2>2. <<>> \in Seq({}) /\ Len(<<>>) = 0
    BY EmptySeq
  <2>3. \A sel : ItemsOk(<<>>, sel, Db)
    BY <2>2 DEF ItemsOk
  <2>. QED  BY <2>1, <2>3 DEF EmptyPage, None
<1>2. CASE ~(n > all)
  <2>1. Listed(n) = [items |-> items,
                     next |-> IF to - n = PageSize THEN n + PageSize ELSE None]
    BY <1>2 DEF Listed
  <2>2. to - n \in Nat
    BY <1>0, <1>2
  <2>3. ASSUME NEW i \in 1 .. (to - n)  PROVE NthNewest(n + i - 1) \in rows
    <3>1. n + i - 1 \in Nat /\ n + i - 1 < all
      BY <1>0, <1>2
    <3>. QED  BY <3>1, PlacesTaken
  <2>4. items \in Seq({Item(i) : i \in 1 .. (to - n)})
    <3>1. PICK k \in Nat : k = to - n
      BY <2>2
    <3>2. items = [i \in 1 .. k |-> Item(i)]
      BY <3>1
    <3>. HIDE DEF Item
    <3>3. [i \in 1 .. k |-> Item(i)] \in Seq({Item(i) : i \in 1 .. k})
      OBVIOUS
    <3>. HIDE DEF items, to
    <3>. QED  BY <3>1, <3>2, <3>3
  <2>5. Len(items) = to - n
    BY <2>2
  <2>. HIDE DEF to
  <2>6. ASSUME NEW i \in 1 .. Len(items)
        PROVE  items[i][1] \in rows /\ items[i][2] = title[items[i][1]]
    BY <2>3, <2>5
  <2>. HIDE DEF items
  <2>7. \A sel : ItemsOk(items, sel, Db)
    BY <2>4, <2>6 DEF ItemsOk, Db
  <2>8. (IF to - n = PageSize THEN n + PageSize ELSE None) \in Nat
    BY <1>0 DEF None
  <2>. QED  BY <2>1, <2>7, <2>8
<1>. QED  BY <1>1, <1>2

LEMMA OpenedIs ==
  ASSUME NEW r, NEW sel
  PROVE  DetailGood(Opened(r), sel, Db)
<1>1. Opened(r) = <<>> \/ (r \in rows /\ Opened(r) = <<r, title[r]>>)
  BY DEF Opened
<1>2. ASSUME r \in rows, Opened(r) = <<r, title[r]>>
      PROVE  Opened(r)[1] = r /\ Opened(r)[2] = title[r]
  BY <1>2
<1>. QED  BY <1>1, <1>2 DEF DetailGood, Db

(* A request served, or not.                                               *)
Served(q, x, v) ==
  x = [q EXCEPT !.state = "served", !.value = v]
Unserved(q, x) == x = [q EXCEPT !.state = "failed"]

LEMMA AnswerFits ==
  ASSUME NEW q, Fit(q), NEW x, NEW v,
         \/ Unserved(q, x)
         \/ /\ Served(q, x, v)
            /\ q.kind \in {"list", "more"} => DOMAIN v = {"items", "next"} /\ v.next \in Nat
  PROVE  /\ Fit(x) /\ x.kind = q.kind /\ x.arg = q.arg /\ x.shown = q.shown /\ x.state # "sent"
         /\ x.state = "served" => x.value = v
         /\ Unserved(q, x) => x.state = "failed"
         /\ Served(q, x, v) => x.state = "served"
<1>1. CASE Unserved(q, x)
  <2>1. /\ DOMAIN x = DOMAIN q /\ x.kind = q.kind /\ x.arg = q.arg /\ x.shown = q.shown
        /\ x.state = "failed"
    BY <1>1 DEF Unserved, Fit
  <2>2. ~Served(q, x, v)
    <3>1. Served(q, x, v) => x.state = "served"
      BY DEF Served, Fit
    <3>. QED  BY <2>1, <3>1
  <2>. QED  BY <2>1, <2>2 DEF Fit
<1>2. CASE /\ Served(q, x, v)
           /\ q.kind \in {"list", "more"} => DOMAIN v = {"items", "next"} /\ v.next \in Nat
  <2>1. /\ DOMAIN x = DOMAIN q /\ x.kind = q.kind /\ x.arg = q.arg /\ x.shown = q.shown
        /\ x.state = "served" /\ x.value = v
    BY <1>2 DEF Served, Fit
  <2>2. ~Unserved(q, x)
    <3>1. Unserved(q, x) => x.state = "failed"
      BY DEF Unserved, Fit
    <3>. QED  BY <2>1, <3>1
  <2>. QED  BY <1>2, <2>1, <2>2 DEF Fit
<1>. QED  BY <1>1, <1>2

LEMMA QueueMarked ==
  ASSUME IInv, NEW t \in Tabs, NEW i \in 1 .. Len(queue[t]), NEW x,
         queue' = [queue EXCEPT ![t][i] = x],
         queue[t][i].state = "sent", x.state # "sent",
         \A j \in 1 .. (i - 1) : queue[t][j].state # "sent",
         x.kind = queue[t][i].kind, x.arg = queue[t][i].arg, x.shown = queue[t][i].shown
  PROVE  Marked(queue[t], queue'[t], i, x) /\ \A u \in Tabs : u # t => queue'[u] = queue[u]
<1>1. PICK S : queue \in [Tabs -> Seq(S)]
  BY DEF IInv, Sound
<1>2. queue[t] \in Seq(S)
  BY <1>1
<1>3. /\ queue'[t] = [queue[t] EXCEPT ![i] = x]
      /\ \A u \in Tabs : u # t => queue'[u] = queue[u]
  BY <1>1
<1>4. /\ Len(queue[t]) \in Nat /\ Len([queue[t] EXCEPT ![i] = x]) = Len(queue[t])
      /\ \A j \in 1 .. Len(queue[t]) : [queue[t] EXCEPT ![i] = x][j] = IF j = i THEN x ELSE queue[t][j]
  BY <1>2
<1>5. \A j \in 1 .. Len(queue[t]) : j < i => j \in 1 .. (i - 1)
  OBVIOUS
<1>. QED  BY <1>3, <1>4, <1>5 DEF Marked

(* An answer that changes nothing in the store and is right as given.      *)
LEMMA AnsweredFine ==
  ASSUME IInv, NEW t \in Tabs, \A u \in Tabs : Fine(u),
         NEW i, NEW x, Marked(queue[t], queue'[t], i, x), Fit(x),
         \A u \in Tabs : u # t => queue'[u] = queue[u],
         UNCHANGED <<store, pane, place>>,
         x.state = "served" =>
           /\ x.kind = "settings" => x.value = Both
           /\ x.kind \in {"list", "more"} => ItemsOk(x.value.items, selected[t], Db)
           /\ Writes(x) => DetailGood(x.value, selected[t], Db)
  PROVE  \A u \in Tabs : Fine(u)'
<1>0. /\ Both' = Both /\ Db' = Db /\ view' = view /\ selected' = selected
      /\ snapshot' = snapshot /\ page' = page /\ detail' = detail /\ missed' = missed
  BY DEF Both, Db, store, pane, place
<1>1. Ordered(queue[t]) /\ Asks(t) /\ Settled(queue[t], view[t], selected[t])
  BY DEF Fine, Asks, Settled
<1>2. \A u \in Tabs : /\ Telling(queue[u]) => Telling(queue'[u])
                      /\ TellingOthers(queue[u]) => TellingOthers(queue'[u])
  BY MarkedTelling
<1>3. \A u \in Tabs : Tells(u) => Tells(u)'
  BY <1>2, TellsStays
<1>4. ASSUME NEW u \in Tabs, u # t  PROVE Fine(u)'
  <2>1. Fine(u) /\ queue'[u] = queue[u] /\ (Tells(u) => Tells(u)')
    BY <1>3, <1>4
  <2>. QED  BY <1>0, <2>1, StaysFine
<1>5. Asks(t)'
  BY <1>0, <1>1, MarkedSettled DEF Asks
<1>6. ASSUME Right(t)  PROVE Right(t)'
  <2>1. SettingsShow(queue'[t], view[t], snapshot[t], missed[t], Both)
    BY <1>1, <1>6, MarkedSettings DEF Right
  <2>2. ListShows(queue'[t], view[t], selected[t], page[t].items, missed[t], Db)
    BY <1>1, <1>6, MarkedList DEF Right
  <2>3. DetailShows(queue'[t], selected[t], detail[t], missed[t], Db)
    BY <1>1, <1>6, MarkedDetail DEF Right
  <2>. QED  BY <1>0, <2>1, <2>2, <2>3 DEF Right
<1>7. Fine(t)'
  BY <1>3, <1>5, <1>6 DEF Fine
<1>. QED  BY <1>4, <1>7

(* An answer that has every tab read again, or a change that has every     *)
(* other tab read again.                                                   *)
LEMMA ToldLater ==
  ASSUME IInv, NEW t \in Tabs, \A u \in Tabs : Fine(u),
         NEW i, NEW x, Marked(queue[t], queue'[t], i, x), Fit(x),
         \A u \in Tabs : u # t => queue'[u] = queue[u],
         UNCHANGED <<pane, place>>,
         \/ TellsAll(x)
         \/ /\ TellsOthers(x) /\ Both' = Both
            /\ x.kind = "title" => /\ Db.rows = Db.rows' /\ Db.old = Db.old'
                                   /\ DetailGood(x.value, selected[t], Db')
  PROVE  \A u \in Tabs : Fine(u)'
<1>0. /\ view' = view /\ selected' = selected
      /\ snapshot' = snapshot /\ page' = page /\ detail' = detail /\ missed' = missed
  BY DEF pane, place
<1>1. Ordered(queue[t]) /\ Settled(queue[t], view[t], selected[t])
  BY DEF Fine, Asks, Settled
<1>2. \A u \in Tabs : /\ Telling(queue[u]) => Telling(queue'[u])
                      /\ TellingOthers(queue[u]) => TellingOthers(queue'[u])
  BY MarkedTelling
<1>3. \A u \in Tabs : Tells(u) => Tells(u)'
  BY <1>2, TellsStays
<1>4. \A u \in Tabs : Asks(u)'
  <2>1. Asks(t)'
    BY <1>0, <1>1, MarkedSettled DEF Asks
  <2>2. \A u \in Tabs : u # t => Asks(u)'
    BY <1>0 DEF Fine, Asks
  <2>. QED  BY <2>1, <2>2
<1>5. CASE TellsAll(x)
  <2>1. Telling(queue'[t])
    BY <1>5, MarkedTelling
  <2>2. \A u \in Tabs : Tells(u)'
    BY <2>1 DEF Tells
  <2>. QED  BY <1>4, <2>2 DEF Fine
<1>6. CASE /\ TellsOthers(x) /\ Both' = Both
           /\ x.kind = "title" => /\ Db.rows = Db.rows' /\ Db.old = Db.old'
                                  /\ DetailGood(x.value, selected[t], Db')
  <2>1. TellingOthers(queue'[t])
    BY <1>6, MarkedTelling
  <2>2. \A u \in Tabs : u # t => Tells(u)'
    BY <2>1 DEF Tells
  <2>3. x.state = "served" /\ x.kind \in {"title", "delete"}
    BY <1>6 DEF TellsOthers
  <2>4. ASSUME Right(t)  PROVE Right(t)'
    <3>1. SettingsShow(queue'[t], view[t], snapshot[t], missed[t], Both)
      BY <1>1, <2>3, <2>4, MarkedSettings DEF Right
    <3>2. PICK new : new = Db'
      OBVIOUS
    <3>3. x.kind = "title" => /\ new.rows = Db.rows /\ new.old = Db.old
                              /\ DetailGood(x.value, selected[t], new)
      BY <1>6, <3>2
    <3>4. ListShows(queue'[t], view[t], selected[t], page[t].items, missed[t], new)
      BY <1>1, <2>3, <2>4, <3>3, ChangedList DEF Right
    <3>5. DetailShows(queue'[t], selected[t], detail[t], missed[t], new)
      BY <1>1, <2>3, <3>3, ChangedDetail
    <3>. QED  BY <1>0, <1>6, <3>1, <3>2, <3>4, <3>5 DEF Right
  <2>5. Fine(t)'
    BY <1>3, <1>4, <2>4 DEF Fine
  <2>. QED  BY <1>4, <2>2, <2>5 DEF Fine
<1>. QED  BY <1>5, <1>6

LEMMA ServeFine ==
  ASSUME CInv, NEW t \in Tabs, Serve(t)
  PROVE  Typed' /\ \A u \in Tabs : Fine(u)'
<1>1. PICK i \in 1 .. Len(queue[t]) :
        /\ queue[t][i].state = "sent"
        /\ \A j \in 1 .. (i - 1) : queue[t][j].state # "sent"
        /\ \/ ServeRead(queue[t][i]) \/ ServeSave(queue[t][i]) \/ ServeRetention(queue[t][i])
           \/ ServeTitle(queue[t][i]) \/ ServeDelete(queue[t][i])
        /\ queue' = [queue EXCEPT ![t][i] =
             IF Found(queue[t][i])
             THEN [queue[t][i] EXCEPT !.state = "served", !.value = Value(queue[t][i])]
             ELSE [queue[t][i] EXCEPT !.state = "failed"]]
        /\ UNCHANGED <<pane, place>>
  BY DEF Serve
<1>2. IInv /\ Typed /\ \A u \in Tabs : Fine(u)
  BY DEF CInv
<1>3. PICK q : q = queue[t][i]
  OBVIOUS
<1>4. PICK x : x = IF Found(q) THEN [q EXCEPT !.state = "served", !.value = Value(q)]
                               ELSE [q EXCEPT !.state = "failed"]
  OBVIOUS
<1>5. Fit(q)
  BY <1>2, <1>3 DEF Fine, Asks, Settled
<1>6. q.kind \in {"list", "more"} =>
        /\ DOMAIN Value(q) = {"items", "next"} /\ Value(q).next \in Nat
        /\ \A sel : ItemsOk(Value(q).items, sel, Db)
  BY <1>2, <1>5, ListedIs DEF Value, Fit
<1>7. PICK val : val = Value(q)
  OBVIOUS
<1>8. /\ Found(q) => Served(q, x, val)
      /\ ~Found(q) => Unserved(q, x)
  BY <1>4, <1>7 DEF Served, Unserved
<1>9. /\ Fit(x) /\ x.kind = q.kind /\ x.arg = q.arg /\ x.shown = q.shown /\ x.state # "sent"
      /\ x.state = "served" => x.value = val
      /\ Found(q) => x.state = "served"
      /\ ~Found(q) => x.state = "failed"
  BY <1>5, <1>6, <1>7, <1>8, AnswerFits
<1>10. queue' = [queue EXCEPT ![t][i] = x]
  BY <1>1, <1>3, <1>4
<1>11. /\ Marked(queue[t], queue'[t], i, x)
       /\ \A u \in Tabs : u # t => queue'[u] = queue[u]
  BY <1>1, <1>2, <1>3, <1>9, <1>10, QueueMarked
<1>12. CASE ServeRead(q)
  <2>1. q.kind \in Reads /\ UNCHANGED store
    BY <1>12 DEF ServeRead
  <2>2. Typed'
    BY <1>1, <1>2, <2>1 DEF Typed, store, pane, place
  <2>3. q.kind = "settings" => val = Both
    BY <1>7 DEF Value, Both
  <2>4. q.kind \in {"list", "more"} => ItemsOk(val.items, selected[t], Db)
    BY <1>6, <1>7
  <2>5. Writes(x) => DetailGood(val, selected[t], Db)
    <3>1. ASSUME Writes(x)  PROVE val = Opened(q.arg)
      <4>1. q.kind = "detail"
        BY <1>9, <2>1, <3>1 DEF Writes, Reads
      <4>. QED  BY <1>7, <4>1 DEF Value
    <3>. QED  BY <3>1, OpenedIs
  <2>6. \A u \in Tabs : Fine(u)'
    BY <1>1, <1>2, <1>9, <1>11, <2>1, <2>3, <2>4, <2>5, AnsweredFine
  <2>. QED  BY <2>2, <2>6
<1>13. CASE ServeSave(q) \/ ServeRetention(q)
  <2>1. q.kind \in {"save", "retention"} /\ UNCHANGED <<rows, title, old>>
    BY <1>13 DEF ServeSave, ServeRetention
  <2>2. Typed'
    BY <1>1, <1>2, <2>1 DEF Typed, pane, place
  <2>3. TellsAll(x)
    BY <1>9, <2>1 DEF TellsAll, Found
  <2>4. \A u \in Tabs : Fine(u)'
    BY <1>1, <1>2, <1>9, <1>11, <2>3, ToldLater
  <2>. QED  BY <2>2, <2>4
<1>14. CASE ServeDelete(q)
  <2>1. q.kind = "delete" /\ UNCHANGED <<settings, policy, title, old>> /\ rows' = rows \ {q.arg}
    BY <1>14 DEF ServeDelete
  <2>2. Typed'
    BY <1>1, <1>2, <2>1 DEF Typed, pane, place
  <2>3. TellsOthers(x) /\ x.kind # "title"
    BY <1>9, <2>1 DEF TellsOthers, Found
  <2>4. Both' = Both
    BY <2>1 DEF Both
  <2>5. \A u \in Tabs : Fine(u)'
    BY <1>1, <1>2, <1>9, <1>11, <2>3, <2>4, ToldLater
  <2>. QED  BY <2>2, <2>5
<1>15. CASE ServeTitle(q)
  <2>1. /\ q.kind = "title" /\ UNCHANGED <<settings, policy, rows, old, lastSaved>>
        /\ title' = IF q.arg[1] \in rows THEN [title EXCEPT ![q.arg[1]] = q.arg[2]] ELSE title
    BY <1>15 DEF ServeTitle
  <2>2. Typed'
    BY <1>1, <1>2, <2>1 DEF Typed, pane, place
  <2>3. Both' = Both
    BY <2>1 DEF Both
  <2>4. val = IF q.arg[1] \in rows THEN q.arg ELSE <<>>
    BY <1>7, <2>1 DEF Value
  <2>5. q.arg = <<q.arg[1], q.arg[2]>>
    BY <1>5, <2>1 DEF Fit
  <2>6. CASE q.arg[1] \in rows
    <3>1. q.arg # <<>>
      BY <2>5
    <3>2. x.state = "served" /\ x.value = q.arg
      BY <1>7, <1>9, <2>4, <2>6, <3>1 DEF Found
    <3>3. TellsOthers(x)
      BY <1>9, <2>1, <3>2 DEF TellsOthers
    <3>4. title'[q.arg[1]] = q.arg[2] /\ q.arg[1] \in rows'
      BY <1>2, <2>1, <2>6 DEF Typed
    <3>5. DetailGood(x.value, selected[t], Db')
      BY <3>2, <3>4 DEF DetailGood, Db
    <3>6. Db.rows = Db.rows' /\ Db.old = Db.old'
      BY <2>1 DEF Db
    <3>7. \A u \in Tabs : Fine(u)'
      BY <1>1, <1>2, <1>9, <1>11, <2>3, <3>3, <3>5, <3>6, ToldLater
    <3>. QED  BY <2>2, <3>7
  <2>7. CASE q.arg[1] \notin rows
    <3>1. ~Found(q)
      BY <1>7, <2>1, <2>4, <2>7 DEF Found
    <3>2. x.state = "failed" /\ UNCHANGED store
      BY <1>9, <2>1, <2>7, <3>1 DEF store
    <3>3. \A u \in Tabs : Fine(u)'
      BY <1>1, <1>2, <1>9, <1>11, <3>2, AnsweredFine
    <3>. QED  BY <2>2, <3>3
  <2>. QED  BY <2>6, <2>7
<1>. QED  BY <1>1, <1>3, <1>12, <1>13, <1>14, <1>15

LEMMA RefuseFine ==
  ASSUME CInv, NEW t \in Tabs, Refuse(t)
  PROVE  Typed' /\ \A u \in Tabs : Fine(u)'
<1>1. /\ queue[t] # <<>> /\ queue[t][1].state = "sent"
      /\ queue' = [queue EXCEPT ![t][1].state = "failed"]
      /\ UNCHANGED <<store, pane, place>>
  BY DEF Refuse
<1>2. IInv /\ Typed /\ \A u \in Tabs : Fine(u)
  BY DEF CInv
<1>3. PICK x : x = [queue[t][1] EXCEPT !.state = "failed"]
  OBVIOUS
<1>4. 1 \in 1 .. Len(queue[t])
  <2>1. PICK S : queue[t] \in Seq(S)
    BY <1>2, QueueIs
  <2>. QED  BY <1>1, <2>1, EmptySeq
<1>5. Fit(queue[t][1])
  BY <1>2, <1>4 DEF Fine, Asks, Settled
<1>6. /\ Fit(x) /\ x.kind = queue[t][1].kind /\ x.arg = queue[t][1].arg
      /\ x.shown = queue[t][1].shown /\ x.state = "failed"
  BY <1>3, <1>5, AnswerFits DEF Unserved
<1>7. queue' = [queue EXCEPT ![t][1] = x]
  BY <1>1, <1>3
<1>8. /\ Marked(queue[t], queue'[t], 1, x)
      /\ \A u \in Tabs : u # t => queue'[u] = queue[u]
  <2>1. x.state # "sent" /\ \A j \in 1 .. (1 - 1) : queue[t][j].state # "sent"
    BY <1>6
  <2>. QED  BY <1>1, <1>2, <1>4, <1>6, <1>7, <2>1, QueueMarked
<1>9. Typed'
  BY <1>1, <1>2 DEF Typed, store, pane, place
<1>10. \A u \in Tabs : Fine(u)'
  BY <1>1, <1>2, <1>6, <1>8, AnsweredFine
<1>. QED  BY <1>9, <1>10

(* What the sweeper removes may still show.                                *)
LEMMA SweptFine ==
  ASSUME CInv, UNCHANGED <<settings, policy, title, pane, place, queue>>,
         rows' \subseteq rows, old \subseteq old', rows \ rows' \subseteq old'
  PROVE  Typed' /\ \A u \in Tabs : Fine(u)'
<1>1. IInv /\ Typed /\ \A u \in Tabs : Fine(u)
  BY DEF CInv
<1>2. Typed'
  BY <1>1 DEF Typed, pane, place
<1>3. PICK db, new : db = Db /\ new = Db'
  OBVIOUS
<1>4. /\ new.title = db.title /\ new.rows \subseteq db.rows /\ db.old \subseteq new.old
      /\ db.rows \ new.rows \subseteq new.old
  BY <1>3 DEF Db
<1>5. \A items, sel : ItemsOk(items, sel, db) => ItemsOk(items, sel, new)
  BY <1>4 DEF ItemsOk
<1>6. \A v, sel : DetailGood(v, sel, db) => DetailGood(v, sel, new)
  BY <1>4 DEF DetailGood
<1>7. ASSUME NEW u \in Tabs  PROVE Fine(u)'
  <2>1. Asks(u)'
    BY <1>1 DEF Fine, Asks, place
  <2>2. Tells(u) => Tells(u)'
    BY DEF Tells
  <2>3. ASSUME Right(u)  PROVE Right(u)'
    <3>1. Both' = Both
      BY DEF Both
    <3>2. ListShows(queue[u], view[u], selected[u], page[u].items, missed[u], db)
      BY <1>3, <2>3 DEF Right
    <3>3. ListShows(queue[u], view[u], selected[u], page[u].items, missed[u], new)
      BY <1>5, <3>2 DEF ListShows
    <3>4. DetailShows(queue[u], selected[u], detail[u], missed[u], db)
      BY <1>3, <2>3 DEF Right
    <3>5. DetailShows(queue[u], selected[u], detail[u], missed[u], new)
      BY <1>6, <3>4 DEF DetailShows
    <3>. QED  BY <1>3, <2>3, <3>1, <3>3, <3>5 DEF Right, pane, place
  <2>. QED  BY <1>1, <2>1, <2>2, <2>3 DEF Fine
<1>. QED  BY <1>2, <1>7

LEMMA ItemsJoined ==
  ASSUME NEW a, NEW b, NEW sel, NEW db, ItemsOk(a, sel, db), ItemsOk(b, sel, db)
  PROVE  ItemsOk(a \o b, sel, db)
<1>1. PICK S : a \in Seq(S)
  BY DEF ItemsOk
<1>2. PICK R : b \in Seq(R)
  BY DEF ItemsOk
<1>3. a \in Seq(S \cup R) /\ b \in Seq(R \cup S) /\ R \cup S = S \cup R
  BY <1>1, <1>2, MoreRequests
<1>4. a \o b \in Seq(S \cup R)
  BY <1>3
<1>5. ASSUME NEW i \in 1 .. Len(a \o b)
      PROVE  \/ i \in 1 .. Len(a) /\ (a \o b)[i] = a[i]
             \/ i - Len(a) \in 1 .. Len(b) /\ (a \o b)[i] = b[i - Len(a)]
  BY <1>3
<1>. QED  BY <1>4, <1>5 DEF ItemsOk

(* What the tab whose request is answered begins with.                     *)
LEMMA HeadIs ==
  ASSUME CInv, NEW t \in Tabs, queue[t] # <<>>
  PROVE  /\ Popped(queue[t], Tail(queue[t])) /\ Fit(queue[t][1])
         /\ Answered(t)[t] = Tail(queue[t]) /\ DOMAIN Answered(t) = Tabs
         /\ \A u \in Tabs : u # t => Answered(t)[u] = queue[u]
         /\ \A u \in Tabs : \E S : Answered(t)[u] \in Seq(S)
         /\ \A u \in Tabs : Settled(Answered(t)[u], view[u], selected[u])
<1>0. IInv /\ \A u \in Tabs : Settled(queue[u], view[u], selected[u])
  BY DEF CInv, Fine, Asks
<1>1. DOMAIN queue = Tabs /\ \A u \in Tabs : \E S : queue[u] \in Seq(S)
  BY <1>0, QueueIs
<1>2. PICK S : queue[t] \in Seq(S)
  BY <1>1
<1>3. Popped(queue[t], Tail(queue[t])) /\ Tail(queue[t]) \in Seq(S)
  BY <1>2, TailPopped
<1>4. Fit(queue[t][1])
  <2>1. 1 \in 1 .. Len(queue[t])
    BY <1>3 DEF Popped
  <2>. QED  BY <1>0, <2>1 DEF Settled
<1>5. /\ Answered(t)[t] = Tail(queue[t]) /\ DOMAIN Answered(t) = Tabs
      /\ \A u \in Tabs : u # t => Answered(t)[u] = queue[u]
  BY <1>1 DEF Answered
<1>6. Settled(Tail(queue[t]), view[t], selected[t])
  BY <1>0, <1>3, PoppedSettled
<1>. QED  BY <1>0, <1>1, <1>3, <1>4, <1>5, <1>6

(* Only the tab itself takes note of the answer.                           *)
LEMMA AnswerFine ==
  ASSUME CInv, NEW t \in Tabs, queue[t] # <<>>, queue' = Answered(t),
         ~TellsAll(queue[t][1]), ~TellsOthers(queue[t][1]), UNCHANGED <<store, place>>,
         \A u \in Tabs : u # t => /\ snapshot'[u] = snapshot[u] /\ page'[u] = page[u]
                                  /\ detail'[u] = detail[u] /\ missed'[u] = missed[u],
         Right(t) => Right(t)'
  PROVE  \A u \in Tabs : Fine(u)'
<1>0. \A u \in Tabs : Fine(u)
  BY DEF CInv
<1>1. /\ Popped(queue[t], queue'[t]) /\ \A u \in Tabs : u # t => queue'[u] = queue[u]
      /\ Settled(queue'[t], view[t], selected[t])
  BY HeadIs
<1>2. \A u \in Tabs : /\ Telling(queue[u]) => Telling(queue'[u])
                      /\ TellingOthers(queue[u]) => TellingOthers(queue'[u])
  BY <1>1, PoppedTelling
<1>3. \A u \in Tabs : Tells(u) => Tells(u)'
  BY <1>2, TellsStays
<1>4. view' = view /\ selected' = selected
  BY DEF place
<1>5. ASSUME NEW u \in Tabs, u # t  PROVE Fine(u)'
  <2>1. Fine(u) /\ queue'[u] = queue[u] /\ (Tells(u) => Tells(u)')
    BY <1>0, <1>1, <1>3, <1>5
  <2>. QED  BY <1>4, <1>5, <2>1, StaysFine
<1>6. Fine(t)'
  BY <1>0, <1>1, <1>3, <1>4 DEF Fine, Asks
<1>. QED  BY <1>5, <1>6

(* Every tab is told.                                                      *)
LEMMA AllToldFine ==
  ASSUME CInv, NEW t \in Tabs, queue[t] # <<>>, queue' = Told(Answered(t), Tabs),
         UNCHANGED place
  PROVE  \A u \in Tabs : Fine(u)'
<1>1. ASSUME NEW u \in Tabs  PROVE Fine(u)'
  <2>1. PICK S : Answered(t)[u] \in Seq(S)
    BY HeadIs
  <2>2. view'[u] = view[u] /\ selected'[u] = selected[u]
    BY DEF place
  <2>3. queue'[u] = Answered(t)[u] \o Refresh(view[u], selected[u])
    BY DEF Told
  <2>4. Settled(Answered(t)[u], view[u], selected[u])
    BY HeadIs
  <2>. QED  BY <2>1, <2>2, <2>3, <2>4, ToldFine
<1>. QED  BY <1>1

LEMMA TypedStays ==
  ASSUME Typed, UNCHANGED <<store, place>>, DOMAIN snapshot' = Tabs,
         UNCHANGED page, DOMAIN detail' = Tabs, DOMAIN missed' = Tabs
  PROVE  Typed'
BY DEF Typed, store, place

LEMMA ReceiveUnshownFine ==
  ASSUME CInv, NEW t \in Tabs, queue[t] # <<>>, queue[t][1].state # "sent",
         UNCHANGED <<store, place>>, ReceiveUnshown(t, queue[t][1])
  PROVE  Typed' /\ \A u \in Tabs : Fine(u)'
<1>. DEFINE q == queue[t][1]
<1>1. /\ q.kind \in Reads /\ ~q.shown /\ queue' = TellsAfter(t, q)
      /\ UNCHANGED <<snapshot, page, detail, missed>>
  BY DEF ReceiveUnshown
<1>2. Typed'
  BY <1>1, TypedStays DEF CInv, Typed
<1>3. CASE q.kind = "settings" /\ q.arg = Tell
  BY <1>1, <1>2, <1>3, AllToldFine DEF TellsAfter
<1>4. CASE ~(q.kind = "settings" /\ q.arg = Tell)
  <2>1. queue' = Answered(t) /\ ~TellsAll(q) /\ ~TellsOthers(q)
    BY <1>1, <1>4 DEF TellsAfter, TellsAll, TellsOthers, Reads
  <2>2. Popped(queue[t], queue'[t])
    BY <2>1, HeadIs
  <2>3. \A K : ~Shows(q, K)
    BY <1>1 DEF Shows
  <2>4. ~Writes(q)
    BY <1>1 DEF Writes
  <2>5. Both' = Both /\ Db' = Db /\ view' = view /\ selected' = selected
    BY DEF Both, Db, store, place
  <2>6. Right(t) => Right(t)'
    BY <1>1, <2>2, <2>3, <2>4, <2>5, PoppedOther DEF Right
  <2>. QED  BY <1>1, <1>2, <2>1, <2>6, AnswerFine
<1>. QED  BY <1>2, <1>3, <1>4

LEMMA ReceiveSettingsFine ==
  ASSUME CInv, NEW t \in Tabs, queue[t] # <<>>, queue[t][1].state # "sent",
         UNCHANGED <<store, place>>, ReceiveSettings(t, queue[t][1])
  PROVE  Typed' /\ \A u \in Tabs : Fine(u)'
<1>. DEFINE q == queue[t][1]
<1>0. DOMAIN snapshot = Tabs /\ DOMAIN missed = Tabs /\ DOMAIN detail = Tabs
  BY DEF CInv, Typed
<1>1. /\ q.kind = "settings" /\ q.shown /\ queue' = TellsAfter(t, q)
      /\ \/ /\ q.state = "served" /\ snapshot' = [snapshot EXCEPT ![t] = q.value]
            /\ missed' = [missed EXCEPT ![t] = @ \ {"settings"}]
         \/ /\ q.state # "served" /\ snapshot' = snapshot
            /\ missed' = [missed EXCEPT ![t] = @ \cup {"settings"}]
      /\ UNCHANGED <<page, detail>>
  BY DEF ReceiveSettings, Failed, Succeeded
<1>2. Typed'
  BY <1>0, <1>1, TypedStays DEF CInv
<1>3. CASE q.arg = Tell
  BY <1>1, <1>2, <1>3, AllToldFine DEF TellsAfter
<1>4. CASE q.arg # Tell
  <2>1. queue' = Answered(t) /\ ~TellsAll(q) /\ ~TellsOthers(q)
    BY <1>1, <1>4 DEF TellsAfter, TellsAll, TellsOthers
  <2>2. Popped(queue[t], queue'[t])
    BY <2>1, HeadIs
  <2>3. ~Shows(q, {"list"}) /\ ~Shows(q, {"delete"}) /\ ~Writes(q)
    BY <1>1 DEF Shows, Writes
  <2>4. Both' = Both /\ Db' = Db /\ view' = view /\ selected' = selected
    BY DEF Both, Db, store, place
  <2>5. /\ "list" \in missed[t] => "list" \in missed'[t]
        /\ "detail" \in missed[t] => "detail" \in missed'[t]
    BY <1>0, <1>1
  <2>6. ASSUME Right(t)  PROVE Right(t)'
    <3>1. view[t] = "settings" =>
            LaterShows(queue'[t], 0, {"settings"}) \/ "settings" \in missed'[t]
              \/ snapshot'[t] = Both
      <4>1. CASE q.state # "served"
        <5>1. "settings" \in missed'[t]
          BY <1>0, <1>1, <4>1
        <5>. QED  BY <5>1
      <4>2. CASE q.state = "served"
        <5>1. snapshot'[t] = q.value
          BY <1>0, <1>1, <4>2
        <5>2. 1 \in 1 .. Len(queue[t]) /\ 0 + 1 = 1
          BY <2>2 DEF Popped
        <5>3. Shows(q, {"settings"})
          BY <1>1 DEF Shows
        <5>4. view[t] = "settings" => LaterShows(queue[t], 1, {"settings"}) \/ q.value = Both
          BY <2>6, <4>2, <5>2, <5>3 DEF Right, SettingsShow
        <5>5. LaterShows(queue'[t], 0, {"settings"}) <=> LaterShows(queue[t], 0 + 1, {"settings"})
          BY <2>2, PoppedLater
        <5>. QED  BY <5>1, <5>2, <5>4, <5>5
      <4>. QED  BY <4>1, <4>2
    <3>2. SettingsShow(queue'[t], view[t], snapshot'[t], missed'[t], Both)
      BY <2>2, <2>6, <3>1, PoppedSettings DEF Right
    <3>3. ListShows(queue'[t], view[t], selected[t], page[t].items, missed'[t], Db)
      BY <2>2, <2>3, <2>5, <2>6, PoppedOther DEF Right
    <3>4. DetailShows(queue'[t], selected[t], detail[t], missed'[t], Db)
      BY <2>2, <2>3, <2>5, <2>6, PoppedOther DEF Right
    <3>. QED  BY <1>1, <2>4, <3>2, <3>3, <3>4 DEF Right
  <2>7. \A u \in Tabs : u # t => snapshot'[u] = snapshot[u] /\ missed'[u] = missed[u]
    BY <1>0, <1>1
  <2>. QED  BY <1>1, <1>2, <2>1, <2>6, <2>7, AnswerFine
<1>. QED  BY <1>2, <1>3, <1>4

LEMMA ReceiveListFine ==
  ASSUME CInv, NEW t \in Tabs, queue[t] # <<>>, queue[t][1].state # "sent",
         UNCHANGED <<store, place>>, ReceiveList(t, queue[t][1])
  PROVE  Typed' /\ \A u \in Tabs : Fine(u)'
<1>. DEFINE q == queue[t][1]
<1>0. /\ DOMAIN page = Tabs /\ DOMAIN missed = Tabs /\ DOMAIN detail = Tabs /\ DOMAIN snapshot = Tabs
      /\ Typed
  BY DEF CInv, Typed
<1>1. /\ q.kind \in {"list", "more"} /\ q.shown /\ queue' = Answered(t)
      /\ UNCHANGED <<snapshot, detail>>
  BY DEF ReceiveList
<1>2. Popped(queue[t], queue'[t]) /\ Fit(q)
  BY <1>1, HeadIs
<1>3. \/ /\ q.state = "failed" /\ page' = page
         /\ missed' = [missed EXCEPT ![t] = @ \cup {"list"}]
      \/ /\ q.state = "served" /\ q.kind = "more" /\ missed' = missed
         /\ page' = [page EXCEPT ![t] = [q.value EXCEPT !.items = page[t].items \o @]]
      \/ /\ q.state = "served" /\ q.kind = "list" /\ page' = [page EXCEPT ![t] = q.value]
         /\ missed' = [missed EXCEPT ![t] = @ \ {"list"}]
  BY <1>1, <1>2 DEF ReceiveList, Failed, Succeeded, Fit
<1>4. q.state = "served" => DOMAIN q.value = {"items", "next"} /\ q.value.next \in Nat
  BY <1>1, <1>2 DEF Fit
<1>5. /\ DOMAIN page' = Tabs /\ DOMAIN missed' = Tabs
      /\ \A u \in Tabs : u # t => page'[u] = page[u] /\ missed'[u] = missed[u]
  BY <1>0, <1>3
<1>6. DOMAIN page'[t] = {"items", "next"} /\ page'[t].next \in Nat
  <2>1. CASE q.state = "failed"
    BY <1>0, <1>3, <2>1 DEF Typed
  <2>2. CASE q.state = "served" /\ q.kind = "more"
    <3>1. page'[t] = [q.value EXCEPT !.items = page[t].items \o @]
      BY <1>0, <1>3, <2>2
    <3>. QED  BY <1>4, <2>2, <3>1
  <2>3. CASE q.state = "served" /\ q.kind = "list"
    BY <1>0, <1>3, <1>4, <2>3
  <2>. QED  BY <1>3, <2>1, <2>2, <2>3
<1>7. Typed'
  BY <1>0, <1>1, <1>5, <1>6 DEF Typed, store, place
<1>8. ~TellsAll(q) /\ ~TellsOthers(q) /\ ~Shows(q, {"settings"}) /\ ~Shows(q, {"delete"}) /\ ~Writes(q)
  BY <1>1 DEF TellsAll, TellsOthers, Shows, Writes
<1>9. Both' = Both /\ Db' = Db /\ view' = view /\ selected' = selected
  BY DEF Both, Db, store, place
<1>10. /\ "settings" \in missed[t] => "settings" \in missed'[t]
       /\ "detail" \in missed[t] => "detail" \in missed'[t]
  BY <1>0, <1>3
<1>11. ASSUME Right(t)  PROVE Right(t)'
  <2>1. ASSUME view[t] = "library", ~DeletePending(queue[t])
        PROVE  LaterShows(queue'[t], 0, {"list"}) \/ "list" \in missed'[t]
                 \/ ItemsOk(page'[t].items, selected[t], Db)
    <3>1. CASE q.state = "failed"
      <4>1. "list" \in missed'[t]
        BY <1>0, <1>3, <3>1
      <4>. QED  BY <4>1
    <3>2. CASE q.state = "served"
      <4>1. 1 \in 1 .. Len(queue[t]) /\ 0 + 1 = 1
        BY <1>2 DEF Popped
      <4>2. Shows(q, {"list", "more"})
        BY <1>1 DEF Shows
      <4>3. LaterShows(queue[t], 1, {"list"}) \/ ItemsOk(q.value.items, selected[t], Db)
        BY <1>11, <2>1, <3>2, <4>1, <4>2 DEF Right, ListShows
      <4>4. LaterShows(queue'[t], 0, {"list"}) <=> LaterShows(queue[t], 0 + 1, {"list"})
        BY <1>2, PoppedLater
      <4>5. CASE q.kind = "list"
        <5>1. page'[t] = q.value
          BY <1>0, <1>3, <3>2, <4>5
        <5>. QED  BY <4>1, <4>3, <4>4, <5>1
      <4>6. CASE q.kind = "more"
        <5>1. page'[t] = [q.value EXCEPT !.items = page[t].items \o @] /\ missed' = missed
          BY <1>0, <1>3, <3>2, <4>6
        <5>2. page'[t].items = page[t].items \o q.value.items
          BY <1>4, <3>2, <5>1
        <5>3. ~Shows(q, {"list"})
          BY <4>6 DEF Shows
        <5>4. LaterShows(queue[t], 0, {"list"}) => LaterShows(queue'[t], 0, {"list"})
          BY <1>2, <5>3, HeadLater
        <5>5. LaterShows(queue[t], 0, {"list"}) \/ "list" \in missed[t]
                \/ ItemsOk(page[t].items, selected[t], Db)
          BY <1>11, <2>1 DEF Right, ListShows
        <5>6. /\ ItemsOk(page[t].items, selected[t], Db) /\ ItemsOk(q.value.items, selected[t], Db)
              => ItemsOk(page'[t].items, selected[t], Db)
          BY <5>2, ItemsJoined
        <5>. QED  BY <4>1, <4>3, <4>4, <5>1, <5>4, <5>5, <5>6
      <4>. QED  BY <1>1, <4>5, <4>6
    <3>. QED  BY <1>3, <3>1, <3>2
  <2>2. ListShows(queue'[t], view[t], selected[t], page'[t].items, missed'[t], Db)
    BY <1>2, <1>8, <1>11, <2>1, PoppedList DEF Right
  <2>3. SettingsShow(queue'[t], view[t], snapshot[t], missed'[t], Both)
    BY <1>2, <1>8, <1>10, <1>11, PoppedOther DEF Right
  <2>4. DetailShows(queue'[t], selected[t], detail[t], missed'[t], Db)
    BY <1>2, <1>8, <1>10, <1>11, PoppedOther DEF Right
  <2>. QED  BY <1>1, <1>9, <2>2, <2>3, <2>4 DEF Right
<1>12. \A u \in Tabs : Fine(u)'
  BY <1>1, <1>5, <1>8, <1>11, AnswerFine
<1>. QED  BY <1>7, <1>12

(* An answer that is not for the open recording is followed by one that is.*)
LEMMA InactiveFollowed ==
  ASSUME NEW t \in Tabs, Settled(queue[t], view[t], selected[t]), Len(queue[t]) \in Nat,
         1 \in 1 .. Len(queue[t]), selected[t] # None,
         queue[t][1].kind = "detail", queue[t][1].shown, ~Active(t, queue[t][1])
  PROVE  LaterShows(queue[t], 1, {"detail"})
<1>. DEFINE s == queue[t]
            sel == selected[t]
<1>1. DetailAsked(s, sel)
  BY DEF Settled
<1>2. (s[1].shown /\ s[1].arg = sel) \/ LaterShows(s, 1, {"detail"})
  BY <1>1 DEF DetailAsked
<1>3. CASE s[1].arg = sel
  <2>1. PICK i \in 2 .. Len(s) : s[i].kind = "detail" /\ s[i].shown
    BY <1>3 DEF Active
  <2>2. i \in 1 .. Len(s) /\ i > 1
    OBVIOUS
  <2>. QED  BY <2>1, <2>2 DEF LaterShows, Shows
<1>. QED  BY <1>2, <1>3

LEMMA ReceiveDetailFine ==
  ASSUME CInv, NEW t \in Tabs, queue[t] # <<>>, queue[t][1].state # "sent",
         UNCHANGED <<store, place>>, ReceiveDetail(t, queue[t][1])
  PROVE  Typed' /\ \A u \in Tabs : Fine(u)'
<1>. DEFINE q == queue[t][1]
<1>0. /\ DOMAIN page = Tabs /\ DOMAIN missed = Tabs /\ DOMAIN detail = Tabs /\ DOMAIN snapshot = Tabs
      /\ Typed /\ Settled(queue[t], view[t], selected[t])
  BY DEF CInv, Typed, Fine, Asks
<1>1. /\ q.kind = "detail" /\ q.shown /\ queue' = Answered(t)
      /\ UNCHANGED <<snapshot, page>>
  BY DEF ReceiveDetail
<1>2. Popped(queue[t], queue'[t]) /\ Fit(q)
  BY <1>1, HeadIs
<1>3. \/ ~Active(t, q) /\ detail' = detail /\ missed' = missed
      \/ /\ q.state = "served" /\ detail' = [detail EXCEPT ![t] = q.value]
         /\ missed' = [missed EXCEPT ![t] = @ \ {"detail"}]
      \/ /\ detail' = detail
         /\ missed' = [missed EXCEPT ![t] = @ \cup {"detail"}]
  BY DEF ReceiveDetail, Failed, Succeeded
<1>4. /\ DOMAIN detail' = Tabs /\ DOMAIN missed' = Tabs
      /\ \A u \in Tabs : u # t => detail'[u] = detail[u] /\ missed'[u] = missed[u]
  BY <1>0, <1>3
<1>5. Typed'
  BY <1>0, <1>1, <1>4, TypedStays
<1>6. /\ ~TellsAll(q) /\ ~TellsOthers(q) /\ ~Shows(q, {"settings"}) /\ ~Shows(q, {"delete"})
      /\ ~Shows(q, {"list"}) /\ Writes(q)
  BY <1>1 DEF TellsAll, TellsOthers, Shows, Writes
<1>7. Both' = Both /\ Db' = Db /\ view' = view /\ selected' = selected
  BY DEF Both, Db, store, place
<1>8. /\ "settings" \in missed[t] => "settings" \in missed'[t]
      /\ "list" \in missed[t] => "list" \in missed'[t]
  BY <1>0, <1>3
<1>9. 1 \in 1 .. Len(queue[t]) /\ 0 + 1 = 1 /\ Len(queue[t]) \in Nat
  BY <1>2 DEF Popped
<1>10. LaterWrites(queue'[t], 0) <=> LaterWrites(queue[t], 0 + 1)
  BY <1>2, PoppedLaterWrites
<1>11. ASSUME Right(t)  PROVE Right(t)'
  <2>1. ASSUME selected[t] # None, ~DeletePending(queue[t])
        PROVE  LaterWrites(queue'[t], 0) \/ "detail" \in missed'[t]
                 \/ DetailGood(detail'[t], selected[t], Db)
    <3>1. CASE ~Active(t, q)
      <4>1. LaterShows(queue[t], 1, {"detail"})
        BY <1>0, <1>1, <1>9, <2>1, <3>1, InactiveFollowed
      <4>2. LaterWrites(queue[t], 1)
        BY <4>1 DEF LaterShows, LaterWrites, Shows, Writes
      <4>. QED  BY <1>9, <1>10, <4>2
    <3>2. CASE q.state = "served" /\ detail' = [detail EXCEPT ![t] = q.value]
      <4>1. LaterWrites(queue[t], 1) \/ DetailGood(q.value, selected[t], Db)
        BY <1>6, <1>9, <1>11, <2>1, <3>2 DEF Right, DetailShows
      <4>2. detail'[t] = q.value
        BY <1>0, <3>2
      <4>. QED  BY <1>9, <1>10, <4>1, <4>2
    <3>3. CASE missed' = [missed EXCEPT ![t] = @ \cup {"detail"}]
      <4>1. "detail" \in missed'[t]
        BY <1>0, <3>3
      <4>. QED  BY <4>1
    <3>. QED  BY <1>3, <3>1, <3>2, <3>3
  <2>2. DetailShows(queue'[t], selected[t], detail'[t], missed'[t], Db)
    BY <1>2, <1>6, <1>11, <2>1, PoppedDetail DEF Right
  <2>3. SettingsShow(queue'[t], view[t], snapshot[t], missed'[t], Both)
    BY <1>2, <1>6, <1>8, <1>11, PoppedOther DEF Right
  <2>4. ListShows(queue'[t], view[t], selected[t], page[t].items, missed'[t], Db)
    BY <1>2, <1>6, <1>8, <1>11, PoppedOther DEF Right
  <2>. QED  BY <1>1, <1>7, <2>2, <2>3, <2>4 DEF Right
<1>12. \A u \in Tabs : Fine(u)'
  BY <1>1, <1>4, <1>6, <1>11, AnswerFine
<1>. QED  BY <1>5, <1>12

LEMMA ReceiveRefusalFine ==
  ASSUME CInv, NEW t \in Tabs, queue[t] # <<>>, queue[t][1].state # "sent",
         UNCHANGED <<store, place>>, ReceiveRefusal(t, queue[t][1])
  PROVE  Typed' /\ \A u \in Tabs : Fine(u)'
<1>. DEFINE q == queue[t][1]
<1>1. /\ q.kind \notin Reads /\ q.state = "failed" /\ queue' = Answered(t)
      /\ UNCHANGED <<snapshot, page, detail, missed>>
  BY DEF ReceiveRefusal, pane
<1>2. Popped(queue[t], queue'[t])
  BY <1>1, HeadIs
<1>3. Typed'
  BY <1>1, TypedStays DEF CInv, Typed
<1>4. /\ ~TellsAll(q) /\ ~TellsOthers(q) /\ ~Shows(q, {"settings"}) /\ ~Shows(q, {"list"})
      /\ ~Writes(q) /\ ~(Shows(q, {"delete"}) /\ q.state = "served")
  BY <1>1 DEF TellsAll, TellsOthers, Shows, Writes, Reads
<1>5. Both' = Both /\ Db' = Db /\ view' = view /\ selected' = selected
  BY DEF Both, Db, store, place
<1>6. Right(t) => Right(t)'
  BY <1>1, <1>2, <1>4, <1>5, PoppedOther DEF Right
<1>. QED  BY <1>1, <1>3, <1>4, <1>6, AnswerFine

LEMMA ReceiveResetFine ==
  ASSUME CInv, NEW t \in Tabs, queue[t] # <<>>, queue[t][1].state # "sent",
         UNCHANGED <<store, place>>, ReceiveReset(t, queue[t][1])
  PROVE  Typed' /\ \A u \in Tabs : Fine(u)'
<1>. DEFINE q == queue[t][1]
<1>1. PICK read : read = [Request("settings", Tell) EXCEPT !.shown = q.shown]
  OBVIOUS
<1>2. /\ queue' = [queue EXCEPT ![t] = Append(Tail(queue[t]), read)]
      /\ UNCHANGED <<snapshot, page, detail, missed>>
  BY <1>1 DEF ReceiveReset, pane
<1>3. Typed'
  BY <1>2, TypedStays DEF CInv, Typed
<1>4. /\ Fit(read) /\ read.state = "sent" /\ read.kind = "settings" /\ TellsAll(read)
  BY <1>1 DEF Fit, Request, TellsAll
<1>5. DOMAIN queue = Tabs
  BY QueueIs DEF CInv
<1>6. /\ queue'[t] = Append(Tail(queue[t]), read)
      /\ \A u \in Tabs : u # t => queue'[u] = queue[u]
  BY <1>2, <1>5
<1>7. Tail(queue[t]) = Answered(t)[t]
  BY HeadIs
<1>8. PICK S : Tail(queue[t]) \in Seq(S)
  BY <1>7, HeadIs
<1>9. Added(Tail(queue[t]), queue'[t], read)
  BY <1>6, <1>8, AppendAdded
<1>10. Settled(Tail(queue[t]), view[t], selected[t])
  BY <1>7, HeadIs
<1>11. Settled(queue'[t], view[t], selected[t])
  BY <1>4, <1>9, <1>10, AddedSettled
<1>12. Telling(queue'[t])
  BY <1>4, <1>9, AddedTelling
<1>13. \A u \in Tabs : Tells(u)'
  BY <1>12 DEF Tells
<1>14. \A u \in Tabs : Asks(u)'
  BY <1>6, <1>11 DEF CInv, Fine, Asks, place
<1>. QED  BY <1>3, <1>13, <1>14 DEF Fine

LEMMA ReceiveSavedFine ==
  ASSUME CInv, NEW t \in Tabs, queue[t] # <<>>, queue[t][1].state # "sent",
         UNCHANGED <<store, place>>, ReceiveSaved(t, queue[t][1])
  PROVE  Typed' /\ \A u \in Tabs : Fine(u)'
<1>1. queue' = Told(Answered(t), Tabs) /\ UNCHANGED <<page, detail, missed>>
  BY DEF ReceiveSaved
<1>2. DOMAIN snapshot' = Tabs
  <2>1. DOMAIN snapshot = Tabs
    BY DEF CInv, Typed
  <2>. QED  BY <2>1 DEF ReceiveSaved
<1>3. Typed'
  BY <1>1, <1>2, TypedStays DEF CInv, Typed
<1>4. \A u \in Tabs : Fine(u)'
  BY <1>1, AllToldFine
<1>. QED  BY <1>3, <1>4

(* The other tabs are told.                                                *)
LEMMA OthersTold ==
  ASSUME CInv, NEW t \in Tabs, queue[t] # <<>>, NEW u \in Tabs, u # t,
         queue'[u] = Told(Answered(t), Tabs \ {t})[u],
         view'[u] = view[u], selected'[u] = selected[u]
  PROVE  /\ Fine(u)' /\ (Telling(queue[u]) => Telling(queue'[u]))
         /\ (TellingOthers(queue[u]) => TellingOthers(queue'[u]))
<1>1. PICK S : Answered(t)[u] \in Seq(S)
  BY HeadIs
<1>2. Answered(t)[u] = queue[u]
  BY HeadIs
<1>3. queue'[u] = queue[u] \o Refresh(view[u], selected[u])
  BY <1>2 DEF Told
<1>4. Settled(queue[u], view[u], selected[u])
  BY DEF CInv, Fine, Asks
<1>5. Fine(u)'
  BY <1>1, <1>2, <1>3, <1>4, ToldFine
<1>6. selected[u] # None => view[u] = "library"
  BY <1>4 DEF Settled
<1>. QED  BY <1>1, <1>2, <1>3, <1>5, <1>6, RefreshTelling

LEMMA ReceiveTitleFine ==
  ASSUME CInv, NEW t \in Tabs, queue[t] # <<>>, queue[t][1].state # "sent",
         UNCHANGED <<store, place>>, ReceiveTitle(t, queue[t][1])
  PROVE  Typed' /\ \A u \in Tabs : Fine(u)'
<1>. DEFINE q == queue[t][1]
<1>0. DOMAIN detail = Tabs /\ DOMAIN snapshot = Tabs /\ DOMAIN missed = Tabs
  BY DEF CInv, Typed
<1>1. /\ q.kind = "title" /\ q.state = "served"
      /\ queue' = Told(Answered(t), Tabs \ {t})
      /\ detail' = IF q.shown THEN [detail EXCEPT ![t] = q.value] ELSE detail
      /\ UNCHANGED <<snapshot, page, missed>>
  BY DEF ReceiveTitle
<1>2. Typed'
  BY <1>0, <1>1, TypedStays DEF CInv
<1>3. view' = view /\ selected' = selected /\ Both' = Both /\ Db' = Db
  BY DEF place, Both, Db, store
<1>4. ASSUME NEW u \in Tabs, u # t
      PROVE  /\ Fine(u)' /\ (Telling(queue[u]) => Telling(queue'[u]))
             /\ (TellingOthers(queue[u]) => TellingOthers(queue'[u]))
  BY <1>1, <1>3, <1>4, OthersTold
<1>5. queue'[t] = Tail(queue[t])
  BY <1>1, HeadIs DEF Told
<1>6. Popped(queue[t], queue'[t])
  BY <1>5, HeadIs
<1>7. Settled(queue'[t], view[t], selected[t])
  BY <1>5, HeadIs
<1>8. Asks(t)'
  BY <1>3, <1>7 DEF Asks
<1>9. ~TellsAll(q) /\ ~Shows(q, {"settings"}) /\ ~Shows(q, {"list"}) /\ ~Shows(q, {"delete"})
  BY <1>1 DEF TellsAll, Shows
<1>10. Telling(queue[t]) => Telling(queue'[t])
  BY <1>6, <1>9, PoppedTelling
<1>11. Tells(t) => Tells(t)'
  BY <1>4, <1>10, TellsStays
<1>12. ASSUME Right(t)  PROVE Right(t)'
  <2>1. SettingsShow(queue'[t], view[t], snapshot[t], missed[t], Both)
    BY <1>6, <1>9, <1>12, PoppedOther DEF Right
  <2>2. ListShows(queue'[t], view[t], selected[t], page[t].items, missed[t], Db)
    BY <1>6, <1>9, <1>12, PoppedOther DEF Right
  <2>3. DetailShows(queue'[t], selected[t], detail'[t], missed[t], Db)
    <3>1. CASE ~q.shown
      <4>1. ~Writes(q) /\ detail' = detail
        BY <1>1, <3>1 DEF Writes
      <4>. QED  BY <1>6, <1>9, <1>12, <4>1, PoppedOther DEF Right
    <3>2. CASE q.shown
      <4>1. Writes(q) /\ detail'[t] = q.value
        BY <1>0, <1>1, <3>2 DEF Writes
      <4>2. 1 \in 1 .. Len(queue[t]) /\ 0 + 1 = 1
        BY <1>6 DEF Popped
      <4>3. selected[t] # None /\ ~DeletePending(queue[t]) =>
              LaterWrites(queue[t], 1) \/ DetailGood(q.value, selected[t], Db)
        BY <1>1, <1>12, <4>1, <4>2 DEF Right, DetailShows
      <4>4. LaterWrites(queue'[t], 0) <=> LaterWrites(queue[t], 0 + 1)
        BY <1>6, PoppedLaterWrites
      <4>5. selected[t] # None /\ ~DeletePending(queue[t]) =>
              LaterWrites(queue'[t], 0) \/ "detail" \in missed[t]
                \/ DetailGood(detail'[t], selected[t], Db)
        BY <4>1, <4>2, <4>3, <4>4
      <4>. QED  BY <1>6, <1>9, <1>12, <4>5, PoppedDetail DEF Right
    <3>. QED  BY <3>1, <3>2
  <2>. QED  BY <1>1, <1>3, <2>1, <2>2, <2>3 DEF Right
<1>13. Fine(t)'
  BY <1>8, <1>11, <1>12 DEF CInv, Fine
<1>. QED  BY <1>2, <1>4, <1>13

LEMMA PartsSettled ==
  ASSUME NEW s, NEW v, NEW sel, Settled(s, v, sel)
  PROVE  Ordered(s) /\ \A i \in 1 .. Len(s) : Fit(s[i])
BY DEF Settled

LEMMA ReceiveDeletedFine ==
  ASSUME CInv, NEW t \in Tabs, ReceiveDeleted(t)
  PROVE  Typed' /\ \A u \in Tabs : Fine(u)'
<1>. DEFINE q == queue[t][1]
            list == IF q.shown THEN <<Request("list", 0)>> ELSE <<>>
            told == Told(Answered(t), Tabs \ {t})
<1>0. /\ DOMAIN detail = Tabs /\ DOMAIN selected = Tabs /\ Typed
  BY DEF CInv, Typed
<1>1. /\ queue[t] # <<>> /\ q.state = "served" /\ q.kind = "delete"
      /\ selected' = [selected EXCEPT ![t] = IF q.shown THEN None ELSE @]
      /\ queue' = [told EXCEPT ![t] = @ \o list]
      /\ detail' = [detail EXCEPT ![t] = IF q.shown THEN <<>> ELSE @]
      /\ UNCHANGED <<store, snapshot, page, missed, view>>
  BY DEF ReceiveDeleted
<1>2. Typed'
  BY <1>0, <1>1 DEF Typed, store
<1>3. Both' = Both /\ Db' = Db
  BY <1>1 DEF Both, Db, store
<1>4. DOMAIN told = Tabs /\ told[t] = Tail(queue[t])
  BY <1>1, HeadIs DEF Told
<1>5. queue'[t] = Tail(queue[t]) \o list /\ \A u \in Tabs : u # t => queue'[u] = told[u]
  <2>. HIDE DEF told, list
  <2>. QED  BY <1>1, <1>4
<1>6. ASSUME NEW u \in Tabs, u # t
      PROVE  /\ Fine(u)' /\ (Telling(queue[u]) => Telling(queue'[u]))
             /\ (TellingOthers(queue[u]) => TellingOthers(queue'[u]))
  <2>1. view'[u] = view[u] /\ selected'[u] = selected[u]
    BY <1>0, <1>1, <1>6
  <2>. QED  BY <1>1, <1>5, <1>6, <2>1, OthersTold
<1>7. /\ Popped(queue[t], Tail(queue[t]))
      /\ Settled(Tail(queue[t]), view[t], selected[t])
  BY <1>1, HeadIs
<1>8. PICK S : Tail(queue[t]) \in Seq(S)
  <2>1. Tail(queue[t]) = Answered(t)[t]
    BY <1>1, HeadIs
  <2>. QED  BY <1>1, <2>1, HeadIs
<1>9. ~TellsAll(q) /\ ~Shows(q, {"settings"}) /\ ~Shows(q, {"list"}) /\ ~Writes(q)
  BY <1>1 DEF TellsAll, Shows, Writes
<1>10. Telling(queue[t]) => Telling(Tail(queue[t]))
  BY <1>7, <1>9, PoppedTelling
<1>11. CASE q.shown
  <2>1. Added(Tail(queue[t]), queue'[t], Request("list", 0))
    BY <1>5, <1>8, <1>11, ConcatAdded
  <2>2. selected'[t] = None /\ view'[t] = view[t] /\ snapshot'[t] = snapshot[t] /\ missed'[t] = missed[t]
    BY <1>0, <1>1, <1>11
  <2>3. /\ Request("list", 0).state = "sent" /\ Shows(Request("list", 0), {"list"})
        /\ Fit(Request("list", 0))
    BY NewRequest
  <2>4. Ordered(Tail(queue[t])) /\ \A i \in 1 .. Len(Tail(queue[t])) : Fit(Tail(queue[t])[i])
    BY <1>7, PartsSettled
  <2>5. Settled(queue'[t], view[t], None)
    BY <2>1, <2>3, <2>4, ListSettled
  <2>6. Asks(t)'
    BY <2>2, <2>5 DEF Asks
  <2>7. Telling(queue[t]) => Telling(queue'[t])
    BY <1>10, <2>1, AddedTelling
  <2>8. Tells(t) => Tells(t)'
    BY <1>6, <2>7, TellsStays
  <2>9. ASSUME Right(t)  PROVE Right(t)'
    <3>1. \A items, db : ListShows(queue'[t], view[t], None, items, missed[t], db)
      BY <2>1, <2>3, ListAskedLast
    <3>2. SettingsShow(queue[t], view[t], snapshot[t], missed[t], Both)
      BY <2>9 DEF Right
    <3>3. view[t] = "settings" => LaterShows(Tail(queue[t]), 0, {"settings"})
            \/ "settings" \in missed[t] \/ snapshot[t] = Both
      BY <1>7, <1>9, <3>2, HeadLater DEF SettingsShow
    <3>4. SettingsShow(Tail(queue[t]), view[t], snapshot[t], missed[t], Both)
      BY <1>7, <3>2, <3>3, PoppedSettings
    <3>5. SettingsShow(queue'[t], view[t], snapshot[t], missed[t], Both)
      BY <2>1, <2>3, <3>4, AddedSettings
    <3>6. \A d, db : DetailShows(queue'[t], None, d, missed[t], db)
      BY DEF DetailShows
    <3>. QED  BY <1>3, <2>2, <3>1, <3>5, <3>6 DEF Right
  <2>. QED  BY <1>2, <1>6, <2>6, <2>8, <2>9 DEF CInv, Fine
<1>12. CASE ~q.shown
  <2>1. queue'[t] = Tail(queue[t])
    BY <1>5, <1>8, <1>12, ConcatNothing
  <2>2. /\ selected'[t] = selected[t] /\ view'[t] = view[t] /\ snapshot'[t] = snapshot[t]
        /\ missed'[t] = missed[t] /\ detail'[t] = detail[t] /\ page'[t] = page[t]
    BY <1>0, <1>1, <1>12
  <2>3. Asks(t)'
    BY <1>7, <2>1, <2>2 DEF Asks
  <2>4. Tells(t) => Tells(t)'
    BY <1>6, <1>10, <2>1, TellsStays
  <2>5. ~Shows(q, {"delete"})
    BY <1>12 DEF Shows
  <2>6. Right(t) => Right(t)'
    BY <1>3, <1>7, <1>9, <2>1, <2>2, <2>5, PoppedOther DEF Right
  <2>. QED  BY <1>2, <1>6, <2>3, <2>4, <2>6 DEF CInv, Fine
<1>. QED  BY <1>11, <1>12

---------------------------------------------------------------------------
(* The user.                                                               *)

(* What a user does in one tab leaves the others as they were.             *)
LEMMA OwnStep ==
  ASSUME CInv, NEW t \in Tabs, UNCHANGED store,
         \A u \in Tabs : u # t =>
           /\ queue'[u] = queue[u] /\ view'[u] = view[u] /\ selected'[u] = selected[u]
           /\ snapshot'[u] = snapshot[u] /\ page'[u] = page[u] /\ detail'[u] = detail[u]
           /\ missed'[u] = missed[u],
         Telling(queue[t]) => Telling(queue'[t]),
         TellingOthers(queue[t]) => TellingOthers(queue'[t])
  PROVE  (\A u \in Tabs : u # t => Fine(u)') /\ (Tells(t) => Tells(t)')
<1>1. \A u \in Tabs : /\ Telling(queue[u]) => Telling(queue'[u])
                      /\ TellingOthers(queue[u]) => TellingOthers(queue'[u])
  OBVIOUS
<1>2. \A u \in Tabs : Tells(u) => Tells(u)'
  BY <1>1, TellsStays
<1>3. ASSUME NEW u \in Tabs, u # t  PROVE Fine(u)'
  <2>1. Fine(u) /\ (Tells(u) => Tells(u)')
    BY <1>2 DEF CInv
  <2>2. /\ queue'[u] = queue[u] /\ view'[u] = view[u] /\ selected'[u] = selected[u]
        /\ snapshot'[u] = snapshot[u] /\ page'[u] = page[u] /\ detail'[u] = detail[u]
        /\ missed'[u] = missed[u]
    BY <1>3
  <2>. QED  BY <2>1, <2>2, StaysFine
<1>. QED  BY <1>2, <1>3

LEMMA SentIs ==
  ASSUME CInv, NEW t \in Tabs, NEW x, Send(t, x)
  PROVE  /\ Added(queue[t], queue'[t], x) /\ \A u \in Tabs : u # t => queue'[u] = queue[u]
         /\ Telling(queue[t]) => Telling(queue'[t])
         /\ TellingOthers(queue[t]) => TellingOthers(queue'[t])
<1>1. DOMAIN queue = Tabs
  BY QueueIs DEF CInv
<1>2. PICK S : queue[t] \in Seq(S)
  BY QueueIs DEF CInv
<1>3. queue' = [queue EXCEPT ![t] = Append(queue[t], x)]
  BY DEF Send
<1>4. queue'[t] = Append(queue[t], x) /\ \A u \in Tabs : u # t => queue'[u] = queue[u]
  BY <1>1, <1>3
<1>5. Added(queue[t], queue'[t], x)
  BY <1>2, <1>4, AppendAdded
<1>. QED  BY <1>4, <1>5, AddedTelling

(* A change or a further page is asked for: nothing is served yet.         *)
LEMMA SendFine ==
  ASSUME CInv, NEW t \in Tabs, NEW kind, NEW arg, Send(t, Request(kind, arg)),
         kind \in {"list", "more"} => arg \in Nat,
         kind = "title" => arg = <<arg[1], arg[2]>>,
         kind # "detail", kind \in {"title", "delete"} => selected[t] # None,
         UNCHANGED <<store, place, snapshot, page, detail, missed>>
  PROVE  Typed' /\ \A u \in Tabs : Fine(u)'
<1>1. PICK x : x = Request(kind, arg)
  OBVIOUS
<1>2. x.state = "sent"
  BY <1>1 DEF Request
<1>3. /\ Added(queue[t], queue'[t], x) /\ \A u \in Tabs : u # t => queue'[u] = queue[u]
      /\ Telling(queue[t]) => Telling(queue'[t])
      /\ TellingOthers(queue[t]) => TellingOthers(queue'[t])
  BY <1>1, SentIs
<1>4. view' = view /\ selected' = selected /\ Both' = Both /\ Db' = Db
  BY DEF place, Both, Db, store
<1>5. (\A u \in Tabs : u # t => Fine(u)') /\ (Tells(t) => Tells(t)')
  BY <1>3, <1>4, OwnStep
<1>6. Typed'
  BY TypedStays DEF CInv, Typed
<1>7. Settled(queue[t], view[t], selected[t])
  BY DEF CInv, Fine, Asks
<1>8. Settled(queue'[t], view[t], selected[t])
  BY <1>1, <1>3, <1>7, RequestAdded
<1>9. ASSUME Right(t)  PROVE Right(t)'
  <2>1. SettingsShow(queue'[t], view[t], snapshot[t], missed[t], Both)
    BY <1>2, <1>3, <1>9, AddedSettings DEF Right
  <2>2. ListShows(queue'[t], view[t], selected[t], page[t].items, missed[t], Db)
    BY <1>2, <1>3, <1>9, AddedList DEF Right
  <2>3. DetailShows(queue'[t], selected[t], detail[t], missed[t], Db)
    BY <1>2, <1>3, <1>9, AddedDetail DEF Right
  <2>. QED  BY <1>4, <2>1, <2>2, <2>3 DEF Right
<1>10. Fine(t)'
  BY <1>4, <1>5, <1>8, <1>9 DEF CInv, Fine, Asks
<1>. QED  BY <1>5, <1>6, <1>10

LEMMA LoadMoreFine ==
  ASSUME CInv, NEW t \in Tabs, loadMore(t)
  PROVE  Typed' /\ \A u \in Tabs : Fine(u)'
<1>1. page[t].next \in Nat
  BY DEF CInv, Typed
<1>2. /\ Send(t, Request("more", page[t].next))
      /\ UNCHANGED <<store, place, snapshot, page, detail, missed>>
  BY DEF loadMore
<1>. QED  BY <1>1, <1>2, SendFine

LEMMA ChangeFine ==
  ASSUME CInv, NEW t \in Tabs, NEW v, Change(t, v)
  PROVE  Typed' /\ \A u \in Tabs : Fine(u)'
<1>1. ASSUME NEW form, save(t, form, v)
      PROVE  Typed' /\ \A u \in Tabs : Fine(u)'
  BY <1>1, SendFine DEF save, pane
<1>2. ASSUME NEW w, save(t, Sections, w)
      PROVE  Typed' /\ \A u \in Tabs : Fine(u)'
  BY <1>2, SendFine DEF save, pane
<1>3. ASSUME NEW c, NEW p, saveRetention(t, c, p)
      PROVE  Typed' /\ \A u \in Tabs : Fine(u)'
  BY <1>3, SendFine DEF saveRetention, pane
<1>4. ASSUME saveDetails(t, v)
      PROVE  Typed' /\ \A u \in Tabs : Fine(u)'
  <2>1. <<selected[t], v>> = <<<<selected[t], v>>[1], <<selected[t], v>>[2]>>
    OBVIOUS
  <2>. QED  BY <1>4, <2>1, SendFine DEF saveDetails, Opens, pane
<1>5. ASSUME deleteRecording(t)
      PROVE  Typed' /\ \A u \in Tabs : Fine(u)'
  BY <1>5, SendFine DEF deleteRecording, Opens, pane
<1>. QED  BY <1>1, <1>2, <1>3, <1>4, <1>5 DEF Change

LEMMA SelectFine ==
  ASSUME CInv, NEW t \in Tabs, NEW r, select(t, r)
  PROVE  Typed' /\ \A u \in Tabs : Fine(u)'
<1>. DEFINE x == Request("detail", r)
<1>0. Typed /\ DOMAIN selected = Tabs
  BY DEF CInv, Typed
<1>1. /\ view[t] = "library" /\ selected[t] = None
      /\ selected' = [selected EXCEPT ![t] = r] /\ Send(t, x)
      /\ UNCHANGED <<store, view, snapshot, page, detail, missed>>
  BY DEF select, pane
<1>2. Typed'
  BY <1>0, <1>1 DEF Typed, store
<1>3. x.state = "sent" /\ Shows(x, {"detail"}) /\ Fit(x) /\ x.arg = r
  BY NewRequest
<1>. HIDE DEF x
<1>4. /\ Added(queue[t], queue'[t], x) /\ \A u \in Tabs : u # t => queue'[u] = queue[u]
      /\ Telling(queue[t]) => Telling(queue'[t])
      /\ TellingOthers(queue[t]) => TellingOthers(queue'[t])
  BY <1>1, SentIs
<1>5. (\A u \in Tabs : u # t => Fine(u)') /\ (Tells(t) => Tells(t)')
  BY <1>0, <1>1, <1>4, OwnStep
<1>6. Settled(queue[t], "library", None)
  BY <1>1 DEF CInv, Fine, Asks
<1>7. Settled(queue'[t], "library", r)
  BY <1>3, <1>4, <1>6, DetailSettled
<1>8. /\ view'[t] = "library" /\ selected'[t] = r /\ page'[t] = page[t]
      /\ missed'[t] = missed[t] /\ detail'[t] = detail[t] /\ Db' = Db
  BY <1>0, <1>1 DEF Db, store
<1>9. ASSUME Right(t)  PROVE Right(t)'
  <2>1. ListShows(queue[t], "library", None, page[t].items, missed[t], Db)
    BY <1>1, <1>9 DEF Right
  <2>2. \A items : ItemsOk(items, None, Db) => ItemsOk(items, r, Db)
    BY DEF ItemsOk
  <2>3. ListShows(queue[t], "library", r, page[t].items, missed[t], Db)
    BY <2>1, <2>2 DEF ListShows
  <2>4. ListShows(queue'[t], "library", r, page[t].items, missed[t], Db)
    BY <1>3, <1>4, <2>3, AddedList
  <2>5. DetailShows(queue'[t], r, detail[t], missed[t], Db)
    BY <1>3, <1>4, DetailAskedLast
  <2>. QED  BY <1>8, <2>4, <2>5 DEF Right, SettingsShow
<1>10. Fine(t)'
  BY <1>5, <1>7, <1>8, <1>9 DEF CInv, Fine, Asks
<1>. QED  BY <1>2, <1>5, <1>10

LEMMA ReturnFine ==
  ASSUME CInv, NEW t \in Tabs, returnToList(t)
  PROVE  Typed' /\ \A u \in Tabs : Fine(u)'
<1>. DEFINE x == Request("list", 0)
<1>0. Typed /\ DOMAIN selected = Tabs /\ DOMAIN detail = Tabs
  BY DEF CInv, Typed
<1>1. /\ selected[t] # None /\ Send(t, x)
      /\ selected' = [selected EXCEPT ![t] = None]
      /\ detail' = [detail EXCEPT ![t] = <<>>]
      /\ UNCHANGED <<store, view, snapshot, page, missed>>
  BY DEF returnToList
<1>2. Typed'
  BY <1>0, <1>1 DEF Typed, store
<1>3. x.state = "sent" /\ Shows(x, {"list"}) /\ Fit(x)
  BY NewRequest
<1>. HIDE DEF x
<1>4. /\ Added(queue[t], queue'[t], x) /\ \A u \in Tabs : u # t => queue'[u] = queue[u]
      /\ Telling(queue[t]) => Telling(queue'[t])
      /\ TellingOthers(queue[t]) => TellingOthers(queue'[t])
  BY <1>1, SentIs
<1>5. \A u \in Tabs : u # t => Fine(u)'
  BY <1>0, <1>1, <1>4, OwnStep
<1>6. Settled(queue[t], view[t], selected[t])
  BY DEF CInv, Fine, Asks
<1>7. view[t] = "library" /\ Ordered(queue[t]) /\ \A i \in 1 .. Len(queue[t]) : Fit(queue[t][i])
  BY <1>1, <1>6 DEF Settled
<1>8. Settled(queue'[t], "library", None)
  BY <1>3, <1>4, <1>7, ListSettled
<1>9. view'[t] = "library" /\ selected'[t] = None
  BY <1>0, <1>1, <1>7
<1>10. \A items, miss, db : ListShows(queue'[t], "library", None, items, miss, db)
  BY <1>3, <1>4, ListAskedLast
<1>11. Right(t)'
  BY <1>9, <1>10 DEF Right, SettingsShow, DetailShows
<1>12. Fine(t)'
  BY <1>8, <1>9, <1>11 DEF Fine, Asks
<1>. QED  BY <1>2, <1>5, <1>12

(* The requests of a pane that goes.                                       *)
LEMMA LeftIs ==
  ASSUME CInv, NEW t \in Tabs
  PROVE  /\ \E S : Left(t) \in Seq(S)
         /\ Ordered(Left(t)) /\ \A i \in 1 .. Len(Left(t)) : Fit(Left(t)[i])
         /\ Telling(queue[t]) => Telling(Left(t))
         /\ TellingOthers(queue[t]) => TellingOthers(Left(t))
<1>. DEFINE s == queue[t]
            z == Left(t)
            Hidden(q) == [q EXCEPT !.shown = FALSE]
<1>1. Ordered(s) /\ \A i \in 1 .. Len(s) : Fit(s[i])
  BY PartsSettled DEF CInv, Fine, Asks
<1>2. PICK S : s \in Seq(S)
  BY QueueIs DEF CInv
<1>3. Len(s) \in Nat
  BY <1>2
<1>4. z = [i \in 1 .. Len(s) |-> Hidden(s[i])]
  BY DEF Left
<1>5. \A i \in 1 .. Len(s) :
        /\ Fit(Hidden(s[i])) /\ Hidden(s[i]).kind = s[i].kind /\ Hidden(s[i]).arg = s[i].arg
        /\ Hidden(s[i]).state = s[i].state
  BY <1>1 DEF Fit
<1>. HIDE DEF s, Hidden
<1>6. z \in Seq({Hidden(s[i]) : i \in 1 .. Len(s)}) /\ Len(z) = Len(s)
  BY <1>3, <1>4
<1>7. \A i \in 1 .. Len(s) : z[i] = Hidden(s[i])
  BY <1>4
<1>. HIDE DEF z
<1>8. Ordered(z)
  BY <1>1, <1>5, <1>6, <1>7 DEF Ordered
<1>9. \A i \in 1 .. Len(z) : Fit(z[i])
  BY <1>5, <1>6, <1>7
<1>10. /\ Telling(s) => Telling(z)
       /\ TellingOthers(s) => TellingOthers(z)
  BY <1>5, <1>6, <1>7 DEF Telling, TellingOthers, TellsAll, TellsOthers
<1>. QED  BY <1>6, <1>8, <1>9, <1>10 DEF s, z

LEMMA ShowViewFine ==
  ASSUME CInv, NEW t \in Tabs, NEW v, showView(t, v)
  PROVE  Typed' /\ \A u \in Tabs : Fine(u)'
<1>0. /\ Typed /\ DOMAIN queue = Tabs
  BY QueueIs DEF CInv
<1>1. /\ view' = [view EXCEPT ![t] = v] /\ selected' = [selected EXCEPT ![t] = None]
      /\ snapshot' = [snapshot EXCEPT ![t] = NoSnapshot]
      /\ page' = [page EXCEPT ![t] = EmptyPage] /\ detail' = [detail EXCEPT ![t] = <<>>]
      /\ missed' = [missed EXCEPT ![t] = {}]
      /\ queue' = [queue EXCEPT ![t] = Left(t) \o Refresh(v, None)]
      /\ UNCHANGED store
  BY DEF showView
<1>2. Typed'
  <2>1. DOMAIN EmptyPage = {"items", "next"} /\ EmptyPage.next \in Nat
    BY DEF EmptyPage, None
  <2>. QED  BY <1>0, <1>1, <2>1 DEF Typed, store
<1>3. PICK S : Left(t) \in Seq(S)
  BY LeftIs
<1>4. /\ view'[t] = v /\ selected'[t] = None
      /\ queue'[t] = Left(t) \o Refresh(v, None)
  BY <1>0, <1>1 DEF Typed
<1>5. /\ Telling(queue[t]) => Telling(queue'[t])
      /\ TellingOthers(queue[t]) => TellingOthers(queue'[t])
  BY <1>3, <1>4, LeftIs, RefreshTelling
<1>6. \A u \in Tabs : u # t =>
        /\ queue'[u] = queue[u] /\ view'[u] = view[u] /\ selected'[u] = selected[u]
        /\ snapshot'[u] = snapshot[u] /\ page'[u] = page[u] /\ detail'[u] = detail[u]
        /\ missed'[u] = missed[u]
  BY <1>0, <1>1 DEF Typed
<1>7. \A u \in Tabs : u # t => Fine(u)'
  BY <1>1, <1>5, <1>6, OwnStep
<1>8. Ordered(Left(t)) /\ \A i \in 1 .. Len(Left(t)) : Fit(Left(t)[i])
  BY LeftIs
<1>9. Fine(t)'
  <2>1. CASE v # "library"
    <3>1. Settled(Left(t), v, None)
      BY <1>8, <2>1, PlainSettled
    <3>. QED  BY <1>3, <1>4, <3>1, ToldFine
  <2>2. CASE v = "library"
    <3>1. Refresh(v, None) = <<Request("list", 0)>>
      BY <2>2 DEF Refresh
    <3>2. Added(Left(t), queue'[t], Request("list", 0))
      BY <1>3, <1>4, <3>1, ConcatAdded
    <3>3. /\ Request("list", 0).state = "sent" /\ Shows(Request("list", 0), {"list"})
          /\ Fit(Request("list", 0))
      BY NewRequest
    <3>4. Settled(queue'[t], v, None)
      BY <1>8, <3>2, <3>3, ListSettled
    <3>5. \A items, miss, db : ListShows(queue'[t], v, None, items, miss, db)
      BY <3>2, <3>3, ListAskedLast
    <3>6. Right(t)'
      BY <1>4, <2>2, <3>5 DEF Right, SettingsShow, DetailShows
    <3>. QED  BY <1>4, <3>4, <3>6 DEF Fine, Asks
  <2>. QED  BY <2>1, <2>2
<1>. QED  BY <1>2, <1>7, <1>9

LEMMA InitCInv == Init => CInv
<1> SUFFICES ASSUME Init  PROVE CInv
  OBVIOUS
<1>1. IInv
  BY InitIInv
<1>2. Typed
  BY DEF Init, Typed, EmptyPage, None
<1>3. ASSUME NEW t \in Tabs  PROVE Fine(t)
  <2>1. queue[t] = <<>> /\ view[t] = "dictation" /\ selected[t] = None
    BY DEF Init
  <2>2. Len(queue[t]) = 0
    BY <2>1, EmptySeq
  <2>3. \A i \in 1 .. Len(queue[t]) : FALSE
    BY <2>2
  <2>4. Settled(queue[t], view[t], selected[t])
    BY <2>1, <2>3 DEF Settled, Ordered, DetailAsked, ListAsked
  <2>5. Right(t)
    BY <2>1 DEF Right, SettingsShow, ListShows, DetailShows
  <2>. QED  BY <2>4, <2>5 DEF Fine, Asks
<1>. QED  BY <1>1, <1>2, <1>3 DEF CInv

LEMMA StepFine ==
  ASSUME CInv, [Next]_vars, ~overtaken'
  PROVE  Typed' /\ \A u \in Tabs : Fine(u)'
<1>1. ASSUME NEW t \in Tabs, Receive(t)
      PROVE  Typed' /\ \A u \in Tabs : Fine(u)'
  <2>1. queue[t] # <<>> /\ queue[t][1].state # "sent" /\ UNCHANGED <<store, place>>
    BY <1>1 DEF Receive
  <2>. QED
    BY <1>1, <2>1, ReceiveUnshownFine, ReceiveSettingsFine, ReceiveListFine,
       ReceiveDetailFine, ReceiveRefusalFine, ReceiveResetFine, ReceiveSavedFine,
       ReceiveTitleFine
    DEF Receive
<1>2. ASSUME NEW t \in Tabs, Move(t)
      PROVE  Typed' /\ \A u \in Tabs : Fine(u)'
  BY <1>2, ShowViewFine, SelectFine, ReturnFine, ChangeFine DEF Move
<1>3. ASSUME NEW t \in Tabs, TabStep(t)
      PROVE  Typed' /\ \A u \in Tabs : Fine(u)'
  BY <1>1, <1>2, <1>3, ServeFine, RefuseFine, ReceiveDeletedFine, LoadMoreFine
  DEF TabStep, Overtake
<1>4. ASSUME NEW r \in Recordings, GrowOld(r)
      PROVE  Typed' /\ \A u \in Tabs : Fine(u)'
  <2>1. /\ UNCHANGED <<settings, policy, title, pane, place, queue>>
        /\ rows' = rows /\ old' = old \cup {r}
    BY <1>4 DEF GrowOld
  <2>. QED  BY <2>1, SweptFine
<1>5. ASSUME NEW c \in Categories, sweepRetention(c)
      PROVE  Typed' /\ \A u \in Tabs : Fine(u)'
  <2>1. /\ UNCHANGED <<settings, policy, title, pane, place, queue>> /\ old' = old
        /\ rows' = {r \in rows : ~(r \in old /\ Category(r) = c)}
    BY <1>5 DEF sweepRetention
  <2>. QED  BY <2>1, SweptFine
<1>6. ASSUME UNCHANGED vars
      PROVE  Typed' /\ \A u \in Tabs : Fine(u)'
  <2>1. /\ UNCHANGED <<settings, policy, title, pane, place, queue>>
        /\ rows' = rows /\ old' = old
    BY <1>6 DEF vars, store
  <2>. QED  BY <2>1, SweptFine
<1>. QED  BY <1>3, <1>4, <1>5, <1>6 DEF Next

(* What has been overtaken stays so.                                       *)
LEMMA StepOvertaken ==
  ASSUME [Next]_vars, ~overtaken'
  PROVE  ~overtaken
<1>1. ASSUME NEW t \in Tabs, TabStep(t)  PROVE ~overtaken
  <2>1. CASE Serve(t) \/ Refuse(t) \/ Receive(t) \/ ReceiveDeleted(t) \/ loadMore(t)
    BY <2>1 DEF Serve, Refuse, Receive, ReceiveDeleted, loadMore, bounds
  <2>2. CASE Overtake(t)
    BY <2>2 DEF Overtake
  <2>3. CASE UNCHANGED overtaken
    BY <2>3
  <2>. QED  BY <1>1, <2>1, <2>2, <2>3 DEF TabStep
<1>2. CASE UNCHANGED bounds
  BY <1>2 DEF bounds
<1>. QED  BY <1>1, <1>2 DEF Next, GrowOld, sweepRetention, vars

(* With no request left nobody will be told, so every tab is right as is.  *)
LEMMA CurrentWhenQuiet ==
  ASSUME ~overtaken => CInv
  PROVE  ShownIsCurrent
<1>. SUFFICES ASSUME CInv, \A u \in Tabs : queue[u] = <<>>, NEW t \in Tabs
     PROVE  /\ view[t] = "settings" /\ "settings" \notin missed[t] =>
                 snapshot[t] = [settings |-> settings, retention |-> policy]
            /\ view[t] = "library" /\ "list" \notin missed[t] =>
                 \A i \in 1 .. Len(page[t].items) :
                   LET r == page[t].items[i][1] IN
                   /\ r \in rows \/ r \in old
                   /\ page[t].items[i][2] = title[r] \/ selected[t] # None \/ r \notin rows
            /\ Opens(t) /\ "detail" \notin missed[t] =>
                 \/ selected[t] \in old
                 \/ selected[t] \in rows /\ detail[t][2] = title[selected[t]]
  BY DEF ShownIsCurrent
<1>1. \A u \in Tabs : Len(queue[u]) = 0
  BY EmptySeq
<1>2. ~Tells(t)
  BY <1>1 DEF Tells, Telling, TellingOthers
<1>3. Right(t)
  BY <1>2 DEF CInv, Fine
<1>4. /\ \A K : ~LaterShows(queue[t], 0, K)
      /\ ~LaterWrites(queue[t], 0) /\ ~DeletePending(queue[t])
  BY <1>1 DEF LaterShows, LaterWrites, DeletePending
<1>5. view[t] = "settings" /\ "settings" \notin missed[t] => snapshot[t] = Both
  BY <1>3, <1>4 DEF Right, SettingsShow
<1>6. view[t] = "library" /\ "list" \notin missed[t] => ItemsOk(page[t].items, selected[t], Db)
  BY <1>3, <1>4 DEF Right, ListShows
<1>7. selected[t] # None /\ "detail" \notin missed[t] => DetailGood(detail[t], selected[t], Db)
  BY <1>3, <1>4 DEF Right, DetailShows
<1>8. view[t] = "library" /\ "list" \notin missed[t] =>
        \A i \in 1 .. Len(page[t].items) :
          LET r == page[t].items[i][1] IN
          /\ r \in rows \/ r \in old
          /\ page[t].items[i][2] = title[r] \/ selected[t] # None \/ r \notin rows
  BY <1>6 DEF ItemsOk, Db
<1>9. Opens(t) /\ "detail" \notin missed[t] =>
        \/ selected[t] \in old
        \/ selected[t] \in rows /\ detail[t][2] = title[selected[t]]
  BY <1>7 DEF Opens, DetailGood, Db
<1>. QED  BY <1>5, <1>8, <1>9 DEF Both

(* As long as no answer has overtaken another, a pane whose reads did not  *)
(* fail shows what the store holds when every request has been answered:   *)
(* the telling of App.tsx and invalidation.ts leaves no tab uninformed.    *)
(* SettingsPane's refresh and LibraryPane's loadList do not see to the     *)
(* order of the answers, and without it the statement is false.            *)
THEOREM QuietTabsAreCurrent == Spec => []ShownIsCurrent
<1>. DEFINE Inv == ~overtaken => CInv
<1>1. Init => Inv
  BY InitCInv
<1>2. Inv /\ [Next]_vars => Inv'
  <2>. SUFFICES ASSUME Inv, [Next]_vars, ~overtaken'  PROVE CInv'
    OBVIOUS
  <2>1. CInv
    BY StepOvertaken
  <2>2. IInv'
    BY <2>1, StepIInv DEF CInv
  <2>3. Typed' /\ \A u \in Tabs : Fine(u)'
    BY <2>1, StepFine
  <2>. QED  BY <2>2, <2>3 DEF CInv
<1>3. Inv => ShownIsCurrent
  BY CurrentWhenQuiet
<1>. QED  BY <1>1, <1>2, <1>3, PTL DEF Spec

=============================================================================
