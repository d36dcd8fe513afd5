----------------------------- MODULE Workspace ------------------------------
(***************************************************************************)
(* The web app's Library and Settings panes (web/src/LibraryPane.tsx,      *)
(* SettingsPane.tsx) in several tabs, over the server's routes (server.ts) *)
(* and the store behind them (library-store.ts).  A tab that changed       *)
(* something tells the others to read again (invalidation.ts), and the     *)
(* store sweeps what its retention policies let go.                        *)
(*                                                                         *)
(* A request is served at any time after it is sent.  A browser sends the  *)
(* requests of a tab over several connections and the handlers await       *)
(* before they read the store, so a request or its answer may overtake the *)
(* ones sent before it, and no pane looks whether an answer is stale but   *)
(* the detail view (Overtake).  A request that is refused or cannot reach  *)
(* the server changes nothing.  A settings form is one section with one    *)
(* value; a recording is its title.                                        *)
(***************************************************************************)
EXTENDS Naturals, Sequences, FiniteSets

CONSTANTS
  Tabs,
  Recordings,       (* 1 .. n, by the time they were made                   *)
  Meetings,         (* those that are meetings; the others are dictations   *)
  Sections,         (* of the settings, each with its own form              *)
  PageSize,
  MaxMoves          (* bound on what the users open, save or delete, and on *)
                    (* the requests that overtake others, taken together    *)

ASSUME WorkspaceAssumption ==
  /\ Recordings \in SUBSET (Nat \ {0}) /\ IsFiniteSet(Recordings)
  /\ Meetings \subseteq Recordings
  /\ PageSize \in Nat \ {0} /\ MaxMoves \in Nat

VARIABLES
  settings, policy, (* the store's workspace settings, retention policies   *)
  rows, title,      (* its recordings, and their titles                     *)
  old,              (* recordings older than a retention policy allows      *)
  lastSaved,        (* per section: the value of the last save served       *)
  view, selected,   (* per tab: what it shows                               *)
  snapshot,         (* per tab: the settings pane's snapshot, if any        *)
  page, loading,    (* per tab: the library list                            *)
  detail,           (* per tab: the recording read for the detail view      *)
  missed,           (* per tab: the reads that failed and were not repeated *)
  queue,            (* per tab: the requests it has sent                    *)
  overtaken,        (* has a request, or its answer, overtaken another?     *)
  moves

store == <<settings, policy, rows, title, old, lastSaved>>
pane == <<snapshot, page, loading, detail, missed>>
place == <<view, selected>>
bounds == <<overtaken, moves>>
vars == <<store, pane, place, queue, bounds>>

None == 0
Tell == 1
Categories == {"dictation", "meeting"}
(* A policy that sweeps after some time, or one that keeps what is there.  *)
Policies == {"days", "forever"}
Category(r) == IF r \in Meetings THEN "meeting" ELSE "dictation"
EmptyPage == [items |-> <<>>, next |-> None]
NoSnapshot == [settings |-> <<>>, retention |-> <<>>]

Init ==
  /\ settings = [s \in Sections |-> 0] /\ policy = [c \in Categories |-> "forever"]
  /\ rows = Recordings /\ title = [r \in Recordings |-> 0]
  /\ old = {}
  /\ lastSaved = [s \in Sections |-> 0]
  /\ view = [t \in Tabs |-> "dictation"] /\ selected = [t \in Tabs |-> None]
  /\ snapshot = [t \in Tabs |-> NoSnapshot]
  /\ page = [t \in Tabs |-> EmptyPage] /\ loading = {}
  /\ detail = [t \in Tabs |-> <<>>]
  /\ missed = [t \in Tabs |-> {}]
  /\ queue = [t \in Tabs |-> <<>>]
  /\ overtaken = FALSE /\ moves = 0

---------------------------------------------------------------------------
(* Requests.                                                               *)

Request(kind, arg) ==
  [kind |-> kind, arg |-> arg, shown |-> TRUE, state |-> "sent", value |-> <<>>]
Reads == {"settings", "list", "more", "detail"}

(* What a pane reads when it appears, and again when a tab tells it to.    *)
Refresh(v, r) ==
  CASE v = "settings" -> <<Request("settings", None)>>
    [] v = "library" /\ r = None -> <<Request("list", 0)>>
    [] v = "library" /\ r # None -> <<Request("list", 0), Request("detail", r)>>
    [] OTHER -> <<>>

(* invalidateWorkspace tells every tab, this one too; the Library tells    *)
(* only the others (broadcastWorkspaceChange).                             *)
Told(q, ts) ==
  [t \in Tabs |-> IF t \in ts THEN q[t] \o Refresh(view[t], selected[t]) ELSE q[t]]
LoadingWhenTold(ts) == loading \cup {t \in ts : view[t] = "library"}

Send(t, request) == queue' = [queue EXCEPT ![t] = Append(@, request)]
Answered(t) == [queue EXCEPT ![t] = Tail(@)]

---------------------------------------------------------------------------
(* The server.                                                             *)

(* list: newest first, one page, and where the next one starts.            *)
NthNewest(n) == CHOOSE r \in rows : Cardinality({x \in rows : x > r}) = n
Listed(offset) ==
  LET all == Cardinality(rows)
      to == IF offset + PageSize < all THEN offset + PageSize ELSE all
      Item(i) == LET r == NthNewest(offset + i - 1) IN <<r, title[r]>>
  IN IF offset > all THEN EmptyPage
     ELSE [items |-> [i \in 1 .. (to - offset) |-> Item(i)],
           next |-> IF to - offset = PageSize THEN offset + PageSize ELSE None]

(* open, and updateMetadata's answer: nothing for a removed recording.     *)
Opened(r) == IF r \in rows THEN <<r, title[r]>> ELSE <<>>

(* updateWorkspaceSettings: read, change and written back with no await.   *)
updateWorkspaceSettings(new) ==
  settings' = [s \in Sections |-> IF s \in DOMAIN new THEN new[s] ELSE settings[s]]

ServeRead(q) ==
  /\ q.kind \in Reads
  /\ UNCHANGED store

Value(q) ==
  CASE q.kind = "settings" -> [settings |-> settings, retention |-> policy]
    [] q.kind \in {"list", "more"} -> Listed(q.arg)
    [] q.kind = "detail" -> Opened(q.arg)
    [] q.kind = "save" -> settings'
    [] q.kind = "retention" -> policy'
    [] q.kind = "title" -> IF q.arg[1] \in rows THEN q.arg ELSE <<>>
    [] q.kind = "delete" -> <<>>

(* PATCH /bff/settings.                                                    *)
ServeSave(q) ==
  /\ q.kind = "save"
  /\ updateWorkspaceSettings(q.arg.sent)
  /\ lastSaved' = [s \in Sections |-> IF s \in q.arg.form THEN q.arg.value ELSE lastSaved[s]]
  /\ UNCHANGED <<policy, rows, title, old>>

(* PUT /bff/settings/retention.                                            *)
ServeRetention(q) ==
  /\ q.kind = "retention"
  /\ policy' = [policy EXCEPT ![q.arg[1]] = q.arg[2]]
  /\ UNCHANGED <<settings, rows, title, old, lastSaved>>

(* PATCH /bff/library/:id, which does nothing for a removed recording.     *)
ServeTitle(q) ==
  /\ q.kind = "title"
  /\ title' = IF q.arg[1] \in rows THEN [title EXCEPT ![q.arg[1]] = q.arg[2]] ELSE title
  /\ UNCHANGED <<settings, policy, rows, old, lastSaved>>

(* DELETE /bff/library/:id answers the same for a removed recording.       *)
ServeDelete(q) ==
  /\ q.kind = "delete" /\ rows' = rows \ {q.arg}
  /\ UNCHANGED <<settings, policy, title, old, lastSaved>>

Found(q) == q.kind \in {"detail", "title"} => Value(q) # <<>>

Serve(t) ==
  \E i \in 1 .. Len(queue[t]) :
    LET q == queue[t][i] IN
    /\ q.state = "sent" /\ \A j \in 1 .. (i - 1) : queue[t][j].state # "sent"
    /\ ServeRead(q) \/ ServeSave(q) \/ ServeRetention(q) \/ ServeTitle(q) \/ ServeDelete(q)
    /\ queue' = [queue EXCEPT ![t][i] =
                   IF Found(q) THEN [q EXCEPT !.state = "served", !.value = Value(q)]
                               ELSE [q EXCEPT !.state = "failed"]]
    /\ UNCHANGED <<pane, place, bounds>>

(* A request is refused, or the local server does not answer.              *)
Refuse(t) ==
  /\ queue[t] # <<>> /\ queue[t][1].state = "sent"
  /\ queue' = [queue EXCEPT ![t][1].state = "failed"]
  /\ UNCHANGED <<store, pane, place, bounds>>

(* A request goes past those sent before it: it is served, and answered,   *)
(* ahead of them.  A read of the detail view leaves the older ones unread. *)
Overtake(t) ==
  /\ overtaken' = TRUE
  /\ \E i \in 2 .. Len(queue[t]) :
       LET q == queue[t][i]
           Passed(p) == [p EXCEPT !.shown = @ /\ (q.shown /\ q.kind = "detail" => p.kind # "detail")]
       IN queue' = [queue EXCEPT ![t] =
            [j \in 1 .. Len(@) |-> IF j = 1 THEN q ELSE IF j <= i THEN Passed(@[j - 1]) ELSE @[j]]]
  /\ UNCHANGED <<store, pane, place>>

(* Time passes, and the sweeper removes what its policies let go, one      *)
(* category after the other: its policy is read as its rows are deleted.   *)
(* A policy that is set anew finds recordings already too old for it.      *)
GrowOld(r) ==
  /\ r \in rows \ old /\ policy[Category(r)] = "days" /\ old' = old \cup {r}
  /\ UNCHANGED <<settings, policy, rows, title, lastSaved, pane, place, queue,
                 bounds>>

sweepRetention(c) ==
  /\ policy[c] = "days"
  /\ \E r \in rows \cap old : Category(r) = c
  /\ rows' = {r \in rows : ~(r \in old /\ Category(r) = c)}
  /\ UNCHANGED <<settings, policy, title, old, lastSaved, pane, place, queue, bounds>>

---------------------------------------------------------------------------
(* What a tab does with an answer.                                         *)

Failed(t, kind) == missed' = [missed EXCEPT ![t] = @ \cup {kind}]
Succeeded(t, kind) == missed' = [missed EXCEPT ![t] = @ \ {kind}]

(* The read that follows a reset is told about once it is answered.        *)
TellsAfter(t, q) ==
  IF q.kind = "settings" /\ q.arg = Tell THEN Told(Answered(t), Tabs) ELSE Answered(t)
LoadingAfter(q) ==
  IF q.kind = "settings" /\ q.arg = Tell THEN LoadingWhenTold(Tabs) ELSE loading

(* A read of a pane that has gone changes nothing there.                   *)
ReceiveUnshown(t, q) ==
  /\ q.kind \in Reads /\ ~q.shown
  /\ queue' = TellsAfter(t, q) /\ loading' = LoadingAfter(q)
  /\ UNCHANGED <<snapshot, page, detail, missed>>

ReceiveSettings(t, q) ==
  /\ q.kind = "settings" /\ q.shown
  /\ queue' = TellsAfter(t, q) /\ loading' = LoadingAfter(q)
  /\ IF q.state = "served"
     THEN snapshot' = [snapshot EXCEPT ![t] = q.value] /\ Succeeded(t, "settings")
     ELSE Failed(t, "settings") /\ UNCHANGED snapshot
  /\ UNCHANGED <<page, detail>>

(* loadList replaces the list, or appends the next page to it.             *)
ReceiveList(t, q) ==
  /\ q.kind \in {"list", "more"} /\ q.shown /\ queue' = Answered(t)
  /\ loading' = loading \ {t}
  /\ IF q.state = "failed" THEN Failed(t, "list") /\ UNCHANGED page
     ELSE IF q.kind = "more"
     THEN /\ page' = [page EXCEPT ![t] =
                        [q.value EXCEPT !.items = page[t].items \o @]]
          /\ UNCHANGED missed
     ELSE page' = [page EXCEPT ![t] = q.value] /\ Succeeded(t, "list")
  /\ UNCHANGED <<snapshot, detail>>

(* The answer counts only for the newest read of the selected recording:   *)
(* the others were let go when it was sent.                                *)
Active(t, q) ==
  /\ q.shown /\ selected[t] = q.arg
  /\ \A i \in 2 .. Len(queue[t]) : queue[t][i].kind = "detail" => ~queue[t][i].shown

ReceiveDetail(t, q) ==
  /\ q.kind = "detail" /\ q.shown /\ queue' = Answered(t)
  /\ IF ~Active(t, q) THEN UNCHANGED <<detail, missed>>
     ELSE IF q.state = "served"
     THEN detail' = [detail EXCEPT ![t] = q.value] /\ Succeeded(t, "detail")
     ELSE Failed(t, "detail") /\ UNCHANGED detail
  /\ UNCHANGED <<snapshot, page, loading>>

(* A failed save is only reported.                                         *)
ReceiveRefusal(t, q) ==
  /\ q.kind \notin Reads /\ q.state = "failed" /\ queue' = Answered(t) /\ UNCHANGED pane

(* After a reset the tab reads the settings before it tells anyone.        *)
Resets(q) == q.kind = "save" /\ q.arg.form = Sections
ReceiveReset(t, q) ==
  /\ Resets(q) /\ q.state = "served"
  /\ LET read == [Request("settings", Tell) EXCEPT !.shown = q.shown] IN
     queue' = [queue EXCEPT ![t] = Append(Tail(@), read)]
  /\ UNCHANGED pane

(* Saved settings show, and every tab reads the settings again.            *)
ReceiveSaved(t, q) ==
  /\ q.kind \in {"save", "retention"} /\ ~Resets(q) /\ q.state = "served"
  /\ queue' = Told(Answered(t), Tabs) /\ loading' = LoadingWhenTold(Tabs)
  /\ snapshot' =
       IF ~q.shown \/ snapshot[t] = NoSnapshot THEN snapshot
       ELSE IF q.kind = "save" THEN [snapshot EXCEPT ![t].settings = q.value]
       ELSE [snapshot EXCEPT ![t].retention = q.value]
  /\ UNCHANGED <<page, detail, missed>>

(* A broadcast that was forgotten.                                         *)
ReceiveTitleQuietly(t, q) ==
  /\ q.kind = "title" /\ q.state = "served" /\ queue' = Answered(t)
  /\ detail' = IF q.shown THEN [detail EXCEPT ![t] = q.value] ELSE detail
  /\ UNCHANGED <<snapshot, page, loading, missed>>

(* A saved title shows at once, and the other tabs read again.             *)
ReceiveTitle(t, q) ==
  /\ q.kind = "title" /\ q.state = "served"
  /\ queue' = Told(Answered(t), Tabs \ {t}) /\ loading' = LoadingWhenTold(Tabs \ {t})
  /\ detail' = IF q.shown THEN [detail EXCEPT ![t] = q.value] ELSE detail
  /\ UNCHANGED <<snapshot, page, missed>>

Receive(t) ==
  /\ queue[t] # <<>> /\ queue[t][1].state # "sent"
  /\ LET q == queue[t][1] IN
     \/ ReceiveUnshown(t, q) \/ ReceiveSettings(t, q) \/ ReceiveList(t, q)
     \/ ReceiveDetail(t, q) \/ ReceiveRefusal(t, q) \/ ReceiveReset(t, q)
     \/ ReceiveSaved(t, q) \/ ReceiveTitle(t, q)
  /\ UNCHANGED <<store, place, bounds>>

(* After a deletion the tab goes back to the list and reads it.            *)
ReceiveDeleted(t) ==
  LET q == queue[t][1] IN
  /\ queue[t] # <<>> /\ q.state = "served" /\ q.kind = "delete"
  /\ selected' = [selected EXCEPT ![t] = IF q.shown THEN None ELSE @]
  /\ LET list == IF q.shown THEN <<Request("list", 0)>> ELSE <<>> IN
     queue' = [Told(Answered(t), Tabs \ {t}) EXCEPT ![t] = @ \o list]
  /\ loading' = LoadingWhenTold(Tabs \ {t}) \cup (IF q.shown THEN {t} ELSE {})
  /\ detail' = [detail EXCEPT ![t] = IF q.shown THEN <<>> ELSE @]
  /\ UNCHANGED <<store, snapshot, page, missed, view, bounds>>

---------------------------------------------------------------------------
(* The user.                                                               *)

(* A pane that goes leaves its requests unread.                            *)
Left(t) == [i \in 1 .. Len(queue[t]) |-> [queue[t][i] EXCEPT !.shown = FALSE]]

showView(t, v) ==
  /\ v # view[t]
  /\ view' = [view EXCEPT ![t] = v] /\ selected' = [selected EXCEPT ![t] = None]
  /\ snapshot' = [snapshot EXCEPT ![t] = NoSnapshot]
  /\ page' = [page EXCEPT ![t] = EmptyPage] /\ detail' = [detail EXCEPT ![t] = <<>>]
  /\ missed' = [missed EXCEPT ![t] = {}]
  /\ loading' = IF v = "library" THEN loading \cup {t} ELSE loading \ {t}
  /\ queue' = [queue EXCEPT ![t] = Left(t) \o Refresh(v, None)]
  /\ UNCHANGED store

select(t, r) ==
  /\ view[t] = "library" /\ selected[t] = None
  /\ \E i \in 1 .. Len(page[t].items) : page[t].items[i][1] = r
  /\ selected' = [selected EXCEPT ![t] = r]
  /\ Send(t, Request("detail", r))
  /\ UNCHANGED <<store, view, pane>>

returnToList(t) ==
  /\ selected[t] # None
  /\ selected' = [selected EXCEPT ![t] = None]
  /\ loading' = loading \cup {t}
  /\ detail' = [detail EXCEPT ![t] = <<>>]
  /\ Send(t, Request("list", 0))
  /\ UNCHANGED <<store, view, snapshot, page, missed>>

loadMore(t) ==
  /\ view[t] = "library" /\ selected[t] = None /\ page[t].next # None
  /\ t \notin loading /\ loading' = loading \cup {t}
  /\ Send(t, Request("more", page[t].next))
  /\ UNCHANGED <<store, place, snapshot, page, detail, missed, bounds>>

(* What a form sends: its own section.  A form that sent the snapshot it   *)
(* was filled from would be:                                               *)
WholeSnapshot(t, form, v) ==
  [s \in Sections |-> IF s \in form THEN v ELSE snapshot[t].settings[s]]

Sent(t, form, v) == [s \in form |-> v]

(* A section's form, or the reset of all of them.                          *)
save(t, form, v) ==
  /\ view[t] = "settings" /\ snapshot[t] # NoSnapshot
  /\ Send(t, Request("save", [form |-> form, value |-> v, sent |-> Sent(t, form, v)]))
  /\ UNCHANGED <<store, pane, place>>

saveRetention(t, c, p) ==
  /\ view[t] = "settings" /\ snapshot[t] # NoSnapshot
  /\ snapshot[t].retention[c] # p
  /\ Send(t, Request("retention", <<c, p>>))
  /\ UNCHANGED <<store, pane, place>>

Busy(t, kind) == \E i \in 1 .. Len(queue[t]) : queue[t][i].shown /\ queue[t][i].kind = kind
Opens(t) == selected[t] # None /\ detail[t] # <<>> /\ detail[t][1] = selected[t]

saveDetails(t, v) ==
  /\ Opens(t) /\ "detail" \notin missed[t] /\ ~Busy(t, "title")
  /\ Send(t, Request("title", <<selected[t], v>>))
  /\ UNCHANGED <<store, pane, place>>

deleteRecording(t) ==
  /\ Opens(t) /\ "detail" \notin missed[t] /\ ~Busy(t, "delete")
  /\ Send(t, Request("delete", selected[t]))
  /\ UNCHANGED <<store, pane, place>>

Change(t, v) ==
  \/ \E s \in Sections : save(t, {s}, v)
  \/ save(t, Sections, 0)
  \/ \E c \in Categories, p \in Policies : saveRetention(t, c, p)
  \/ saveDetails(t, v) \/ deleteRecording(t)

---------------------------------------------------------------------------
Move(t) ==
  \/ \E v \in {"dictation", "library", "settings"} : showView(t, v)
  \/ \E r \in Recordings : select(t, r)
  \/ returnToList(t)
  \/ Change(t, moves + 1)

TabStep(t) ==
  \/ Serve(t) \/ Refuse(t) \/ Receive(t) \/ ReceiveDeleted(t) \/ loadMore(t)
  \/ moves < MaxMoves /\ moves' = moves + 1 /\ (Overtake(t) \/ (Move(t) /\ UNCHANGED overtaken))

Next ==
  \/ \E t \in Tabs : TabStep(t)
  \/ \E r \in Recordings : GrowOld(r)
  \/ \E c \in Categories : sweepRetention(c)

Spec == Init /\ [][Next]_vars

---------------------------------------------------------------------------
(* A save of one section, in any tab, never undoes that of another one.    *)
NoLostUpdate == settings = lastSaved

(* Once every request is answered, a tab none of whose reads is still      *)
(* failed shows what the store holds: the changes of the other tabs arrive *)
(* and each pane that shows something older reads again.  It holds only as *)
(* long as no answer has overtaken another: an older answer of refresh or  *)
(* loadList, which look at nothing, then stays over the newer one.  What   *)
(* the sweeper removed may still show: it tells no tab.                    *)
ShownIsCurrent ==
  ~overtaken /\ (\A t \in Tabs : queue[t] = <<>>) => \A t \in Tabs :
    /\ view[t] = "settings" /\ "settings" \notin missed[t] =>
         snapshot[t] = [settings |-> settings, retention |-> policy]
    /\ view[t] = "library" /\ "list" \notin missed[t] =>
         \A i \in 1 .. Len(page[t].items) :
           LET r == page[t].items[i][1] IN
           /\ r \in rows \/ r \in old
           /\ page[t].items[i][2] = title[r] \/ selected[t] # None \/ r \notin rows
    /\ Opens(t) /\ "detail" \notin missed[t] =>
         selected[t] \in old \/ (selected[t] \in rows /\ detail[t][2] = title[selected[t]])
=============================================================================
