--------------------------- MODULE PageDelivery ----------------------------
(***************************************************************************)
(* How a transcript gets into the page it was dictated for                 *)
(* (lib/delivery/page-bridge.ts, delivery-session.ts, site-settings.ts and *)
(* the delivery functions of entrypoints/background.ts).  At Start a bridge*)
(* notes the focused field; while the recording runs the user types, moves *)
(* the caret, leaves the field or the page; at the end the text goes into  *)
(* the field that was noted, or nowhere.                                   *)
(*                                                                         *)
(* The page has one field of each kind.  A field's content is the sequence *)
(* of what was put into it: the user's pieces are 1, 2, ..., the text of   *)
(* recording r is Text(r).  One recording is delivered before the next one *)
(* starts, and one settings page switches the site.  Start finds the field *)
(* in one frame; of several frames with a focused field the code takes the *)
(* first.                                                                  *)
(***************************************************************************)
EXTENDS Naturals, Sequences, FiniteSets

CONSTANTS
  MaxTyped,         (* bound on the pieces the user types                   *)
  MaxRecordings,    (* bound on the recordings                              *)
  MaxGestures       (* bound on focus changes, caret moves and page changes *)

ASSUME DeliveryAssumption ==
  MaxTyped \in Nat /\ MaxRecordings \in Nat /\ MaxGestures \in Nat

(* A text control, one without a selection API, an editing host, a Quill   *)
(* editor, and a canvas that only looks like an editor.                    *)
TextControls == {"text", "email"}
Hosts == {"editable", "quill"}
Fields == TextControls \cup Hosts \cup {"canvas"}
None == "none"

VARIABLES
  doc,              (* the document in the frame                            *)
  content, caret,   (* per field: what it holds, its own selection          *)
  shape,            (* per field: open, readonly or gone                    *)
  focus,            (* the field with the focus                             *)
  selection,        (* the editing host the document's selection is in      *)
  bridge,           (* the page's note: target, and its caret at Start      *)
  marked,           (* the Quill editor carries the delivery attribute      *)
  site,             (* delivery is switched on for the site                 *)
  switching,        (* a switch that has read the list, not written it      *)
  phase,            (* of the worker's recording and delivery               *)
  session,          (* the worker's delivery session                        *)
  recording, typed, gestures,
  landed,           (* what arrived where                                   *)
  swallowed,        (* recordings whose text the page's own code refused    *)
  outcome,          (* per recording: what the worker knows of it           *)
  away, since       (* caret moved since Start; the first piece after Start *)

page == <<doc, content, caret, shape, focus, selection>>
worker == <<phase, session, recording, landed, swallowed, outcome>>
history == <<away, since>>
bounds == <<typed, gestures>>
vars == <<page, bridge, marked, site, switching, worker, history, bounds>>

Text(r) == MaxTyped + r
NoTarget == [target |-> None, caret |-> <<0, 0>>]
NoSession == [doc |-> 0, target |-> None]

Init ==
  /\ doc = 1 /\ content = [f \in Fields |-> <<>>] /\ caret = [f \in Fields |-> <<0, 0>>]
  /\ shape = [f \in Fields |-> "open"] /\ focus = None /\ selection = None
  /\ bridge = NoTarget /\ marked = FALSE
  /\ site = TRUE /\ switching = FALSE
  /\ phase = "idle" /\ session = NoSession /\ recording = 0
  /\ landed = {} /\ swallowed = {} /\ outcome = [r \in 1 .. MaxRecordings |-> "none"]
  /\ away = FALSE /\ since = 1
  /\ typed = 0 /\ gestures = 0

---------------------------------------------------------------------------
(* The user and the page.                                                  *)

Gesture == gestures < MaxGestures /\ gestures' = gestures + 1

Focus(f) ==
  /\ Gesture /\ f # focus /\ (f # None => shape[f] # "gone")
  /\ focus' = f /\ selection' = IF f \in Hosts THEN f ELSE None
  /\ away' = (away \/ (bridge.target \in Hosts /\ f # bridge.target))
  /\ UNCHANGED <<doc, content, caret, shape, bridge, marked, site, switching, worker,
                 since, typed>>

MoveCaret(s, e) ==
  /\ Gesture /\ focus # None /\ s <= e /\ e <= Len(content[focus])
  /\ caret' = [caret EXCEPT ![focus] = <<s, e>>]
  /\ away' = TRUE
  /\ UNCHANGED <<doc, content, shape, focus, selection, bridge, marked, site, switching,
                 worker, since, typed>>

(* content with the selection replaced by x.                               *)
Replaced(f, sel, x) ==
  SubSeq(content[f], 1, sel[1]) \o <<x>> \o SubSeq(content[f], sel[2] + 1, Len(content[f]))

(* A saved range moves with the document: a boundary in what is replaced   *)
(* falls to its start, one behind it shifts.                               *)
Shifted(b, sel) ==
  IF b <= sel[1] THEN b ELSE IF b <= sel[2] THEN sel[1] ELSE b + 1 - (sel[2] - sel[1])

Type ==
  /\ typed < MaxTyped /\ typed' = typed + 1
  /\ focus \in Fields \ {"canvas"} /\ shape[focus] = "open"
  /\ content' = [content EXCEPT ![focus] = Replaced(focus, caret[focus], typed + 1)]
  /\ caret' = [caret EXCEPT ![focus] = <<caret[focus][1] + 1, caret[focus][1] + 1>>]
  /\ bridge' = IF bridge.target = focus /\ focus \in Hosts
               THEN [bridge EXCEPT !.caret = [i \in 1 .. 2 |-> Shifted(@[i], caret[focus])]]
               ELSE bridge
  /\ UNCHANGED <<doc, shape, focus, selection, marked, site, switching, worker, history,
                 gestures>>

(* The page turns a field off or takes it away.                            *)
Lose(f) ==
  /\ Gesture /\ shape[f] = "open"
  /\ \E s \in {"gone"} \cup (IF f \in TextControls THEN {"readonly"} ELSE {}) :
       shape' = [shape EXCEPT ![f] = s]
  /\ focus' = IF focus = f THEN None ELSE focus
  /\ selection' = IF selection = f THEN None ELSE selection
  /\ UNCHANGED <<doc, content, caret, bridge, marked, site, switching, worker, history,
                 typed>>

(* Another document in the same frame.                                     *)
Navigate ==
  /\ Gesture /\ doc' = doc + 1
  /\ content' = [f \in Fields |-> <<>>] /\ caret' = [f \in Fields |-> <<0, 0>>]
  /\ shape' = [f \in Fields |-> "open"] /\ focus' = None /\ selection' = None
  /\ bridge' = NoTarget /\ marked' = FALSE
  /\ UNCHANGED <<site, switching, worker, history, typed>>

(* setDeliveryEnabled reads the list of switched-off sites and writes it.  *)
SwitchReads ==
  /\ Gesture /\ ~switching /\ switching' = TRUE
  /\ UNCHANGED <<page, bridge, marked, site, worker, history, typed>>

SwitchWrites ==
  /\ switching /\ switching' = FALSE /\ site' = ~site
  /\ UNCHANGED <<page, bridge, marked, worker, history, bounds>>

---------------------------------------------------------------------------
(* Start: installDeliveryBridge in the page, selectDeliverySession.        *)

(* The field the text may go to, if the focused one is such a field.       *)
Editable == focus \in TextControls \cup Hosts /\ shape[focus] = "open"

(* The caret a control tells of: one without a selection API stands at the *)
(* end of its value; a host without the document's selection has none.     *)
CaretAtStart ==
  IF focus = "email" THEN <<Len(content[focus]), Len(content[focus])>> ELSE caret[focus]

(* A bridge that was not told to forget the last field would be:           *)
updateTargetOnce ==
  /\ bridge' = IF bridge.target = None THEN [target |-> focus, caret |-> CaretAtStart]
                                       ELSE bridge
  /\ marked' = (bridge'.target = "quill")

updateTarget ==
  /\ bridge' = [target |-> focus, caret |-> CaretAtStart]
  /\ marked' = (focus = "quill")

prepareDeliveryTarget ==
  /\ phase = "idle" /\ recording < MaxRecordings /\ recording' = recording + 1
  /\ phase' = "recording" /\ away' = FALSE /\ since' = typed + 1
  /\ IF site /\ Editable
     THEN updateTarget /\ session' = [doc |-> doc, target |-> focus]
     ELSE session' = NoSession /\ UNCHANGED <<bridge, marked>>
  /\ UNCHANGED <<page, site, switching, landed, swallowed, outcome, bounds>>

---------------------------------------------------------------------------
(* The end: deliverTranscript.                                             *)

Outcome(o) == outcome' = [outcome EXCEPT ![recording] = o]
Lands(f) == landed' = landed \cup {<<recording, doc, f, Cardinality(landed)>>}

deliverTranscript ==
  /\ phase = "recording"
  /\ \/ session = NoSession /\ phase' = "idle" /\ Outcome("kept in the panel")
     \/ session # NoSession /\ ~site /\ phase' = "clear" /\ Outcome("site-disabled")
     \/ session # NoSession /\ site /\ Outcome("none")
        /\ phase' = IF session.target = "quill" THEN "quill" ELSE "message"
  /\ UNCHANGED <<page, bridge, marked, site, switching, session, recording, landed,
                 swallowed, history, bounds>>

(* Nothing was said.                                                       *)
NothingToDeliver ==
  /\ phase = "recording" /\ session # NoSession
  /\ phase' = "clear" /\ Outcome("empty")
  /\ UNCHANGED <<page, bridge, marked, site, switching, session, recording, landed,
                 swallowed, history, bounds>>

Insert(f, sel) ==
  /\ content' = [content EXCEPT ![f] = Replaced(f, sel, Text(recording))]
  /\ caret' = [caret EXCEPT ![f] = <<sel[1] + 1, sel[1] + 1>>]
  /\ Lands(f) /\ Outcome("inserted") /\ phase' = "clear" /\ UNCHANGED swallowed

(* The page's own code has the last word: it cancels beforeinput, or its   *)
(* Quill was switched off meanwhile and ignores the call.  Nothing goes in *)
(* and the bridge reports the text as inserted.                            *)
Swallow ==
  /\ swallowed' = swallowed \cup {recording}
  /\ Outcome("inserted") /\ phase' = "clear" /\ UNCHANGED <<content, caret, landed>>

(* Quill's own insertText, at its selection, which it keeps.               *)
deliverToQuill ==
  /\ phase = "quill" /\ marked /\ shape["quill"] = "open"
  /\ \/ LET at == caret["quill"][1] IN Insert("quill", <<at, at>>)
     \/ Swallow
  /\ focus' = "quill" /\ selection' = "quill"
  /\ UNCHANGED <<doc, shape, bridge, marked, site, switching, session, recording, history,
                 bounds>>

(* No marked editor in the frame's document, or Quill or the script fails. *)
QuillFails ==
  /\ phase = "quill" /\ phase' = "message"
  /\ UNCHANGED <<page, bridge, marked, site, switching, session, recording, landed, swallowed,
                 outcome, history, bounds>>

(* Where the caret is now; the caret saved at Start for a field that does  *)
(* not tell, kept within what the field holds.                             *)
Within(b, f) == IF b <= Len(content[f]) THEN b ELSE Len(content[f])
CaretSavedAtStart(f) == <<Within(bridge.caret[1], f), Within(bridge.caret[2], f)>>
CaretKeptFromStart(f) == CaretSavedAtStart(f)
CaretNow(f) ==
  IF f = "text" \/ selection = f THEN caret[f] ELSE CaretSavedAtStart(f)

(* The message goes to the document the field was in.                      *)
Reaches == session.doc = doc
Takes == Reaches /\ bridge.target # None /\ shape[bridge.target] = "open"

insertText ==
  /\ phase = "message" /\ Takes
  /\ \/ Insert(bridge.target, CaretNow(bridge.target))
     \/ bridge.target \in Hosts /\ Swallow
  /\ focus' = IF bridge.target \in Hosts THEN bridge.target ELSE focus
  /\ selection' = IF bridge.target \in Hosts THEN bridge.target ELSE selection
  /\ UNCHANGED <<doc, shape, bridge, marked, site, switching, session, recording, history,
                 bounds>>

TargetUnavailable ==
  /\ phase = "message" /\ ~Takes
  /\ phase' = "clear" /\ Outcome("target-unavailable")
  /\ UNCHANGED <<page, bridge, marked, site, switching, session, recording, landed,
                 swallowed, history, bounds>>

(* The page's status and its mark go, and so does the session.             *)
clearDeliverySession ==
  /\ phase = "clear" /\ phase' = "idle" /\ session' = NoSession
  /\ marked' = (marked /\ ~Reaches)
  /\ UNCHANGED <<page, bridge, site, switching, recording, landed, swallowed, outcome,
                 history, bounds>>

Deliver ==
  \/ prepareDeliveryTarget \/ deliverTranscript \/ NothingToDeliver \/ deliverToQuill
  \/ QuillFails \/ insertText \/ TargetUnavailable \/ clearDeliverySession

Next ==
  \/ \E f \in Fields \cup {None} : Focus(f)
  \/ \E s, e \in 0 .. MaxTyped + MaxRecordings : MoveCaret(s, e)
  \/ Type \/ Navigate \/ SwitchReads \/ SwitchWrites
  \/ \E f \in Fields : Lose(f)
  \/ Deliver

Spec == Init /\ [][Next]_vars

---------------------------------------------------------------------------
(* A transcript lands at most once; one that lands is reported as inserted,*)
(* and of those so reported only one that the page itself refused did not; *)
(* and it lands in the field and the document that had the focus when its  *)
(* recording started, whatever happened to the page since.                 *)
LandsOnceWhereItStarted ==
  /\ \A l, k \in landed : l[1] = k[1] => l = k
  /\ \A r \in 1 .. MaxRecordings : outcome[r] = "inserted" <=>
       r \in swallowed \/ \E l \in landed : l[1] = r
  /\ phase # "idle" => \A l \in landed :
       l[1] = recording => l[2] = session.doc /\ l[3] = session.target

(* What the user typed in the field while the recording ran stays before   *)
(* its result, as long as the caret was not moved; and a delivery takes    *)
(* away nothing the user has not selected.  An email input does not tell   *)
(* where its caret is: its result goes to the caret of Start, before what  *)
(* was typed since, and of it only the second is said.                     *)
ResultFollowsTyping ==
  [][\A l \in landed' \ landed :
       LET f == l[3]
           at == CHOOSE i \in 1 .. Len(content'[f]) : content'[f][i] = Text(recording)
       IN /\ ~away /\ f # "email" =>
               \A i \in 1 .. Len(content'[f]) :
                 content'[f][i] \in since .. MaxTyped => i < at
          /\ caret[f][1] = caret[f][2] /\ ~away => Len(content'[f]) = Len(content[f]) + 1]_vars
=============================================================================
