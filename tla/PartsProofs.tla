------------------------------ MODULE PartsProofs ---------------------------
(***************************************************************************)
(* Proofs about seven of the parts that share no state: PageDelivery for   *)
(* any number of pieces typed, recordings and moves of the focus, the caret*)
(* and the page; SessionMachine for any number of captures; ProxyClient for*)
(* any calls and token pairs; DictationCommands for any length of the      *)
(* window between two presses, and any number of presses and choices;      *)
(* PastedTranslation for any languages and any limit of a request, and the *)
(* cutting of a text for every text; RateLimit for any limit, window,      *)
(* number of windows kept and addresses; LibraryFiles for any recordings,  *)
(* sizes and limits of the archive.                                        *)
(***************************************************************************)
EXTENDS MCParts, SequenceTheorems, FiniteSetTheorems, WellFoundedInduction, TLAPS

---------------------------------------------------------------------------
(* The delivery: what the worker's session, the page's note and *)
(* the mark on the Quill editor know of each other.                        *)

Undelivered == {"recording", "quill", "message"}
Phases == Undelivered \cup {"idle", "clear"}

Types ==
  /\ doc \in Nat \ {0} /\ phase \in Phases
  /\ recording \in 0 .. MaxRecordings /\ (phase # "idle" => recording > 0)
  /\ DOMAIN outcome = 1 .. MaxRecordings
  /\ "target" \in DOMAIN bridge

(* The session belongs to the note, as long as the document is the one it  *)
(* was taken in; the mark stands only while both do.                       *)
Note ==
  /\ session.doc \in 0 .. doc /\ (session # NoSession => session.doc # 0)
  /\ phase = "idle" => session = NoSession
  /\ phase \in {"quill", "message"} => session.doc # 0
  /\ phase = "quill" => session.target = "quill"
  /\ session.doc = doc => bridge.target = session.target
  /\ marked => session.doc = doc

Landings ==
  /\ \A l \in landed : l[1] \in 1 .. recording
  /\ phase \in Undelivered => \A l \in landed : l[1] # recording
  /\ swallowed \subseteq 1 .. recording
  /\ phase \in Undelivered => recording \notin swallowed

DeliveryInv == Types /\ Note /\ Landings /\ LandsOnceWhereItStarted

LEMMA InitDeliveryInv == Init => DeliveryInv
<1> SUFFICES ASSUME Init  PROVE DeliveryInv
  OBVIOUS
<1>1. Types
  BY DeliveryAssumption DEF Init, Types, Phases, NoTarget
<1>2. Note
  BY DEF Init, Note, NoSession
<1>3. Landings /\ LandsOnceWhereItStarted
  BY DEF Init, Landings, LandsOnceWhereItStarted, Undelivered
<1>. QED  BY <1>1, <1>2, <1>3 DEF DeliveryInv

---------------------------------------------------------------------------
(* The user and the page.                                                  *)

(* A step that leaves the worker, the document and the mark, and the field *)
(* the page noted.                                                         *)
LEMMA PageKeeps ==
  ASSUME DeliveryInv, UNCHANGED <<worker, doc, marked>>,
         bridge'.target = bridge.target, "target" \in DOMAIN bridge'
  PROVE  DeliveryInv'
<1>1. Types'
  BY DEF DeliveryInv, Types, worker
<1>2. Note'
  BY DEF DeliveryInv, Note, worker
<1>3. Landings' /\ LandsOnceWhereItStarted'
  BY DEF DeliveryInv, Landings, LandsOnceWhereItStarted, worker
<1>. QED  BY <1>1, <1>2, <1>3 DEF DeliveryInv

LEMMA TypePreserves ==
  ASSUME DeliveryInv, Type
  PROVE  DeliveryInv'
<1>1. bridge'.target = bridge.target /\ "target" \in DOMAIN bridge'
  BY DEF DeliveryInv, Types, Type
<1>2. UNCHANGED <<worker, doc, marked>>
  BY DEF Type
<1>. QED  BY <1>1, <1>2, PageKeeps

LEMMA NavigatePreserves ==
  ASSUME DeliveryInv, Navigate
  PROVE  DeliveryInv'
<1>0. /\ doc' = doc + 1 /\ bridge' = NoTarget /\ marked' = FALSE
      /\ UNCHANGED <<phase, session, recording, landed, swallowed, outcome>>
  BY DEF Navigate, worker
<1>1. Types'
  BY <1>0 DEF DeliveryInv, Types, NoTarget
<1>2. Note'
  BY <1>0 DEF DeliveryInv, Types, Note
<1>3. Landings' /\ LandsOnceWhereItStarted'
  BY <1>0 DEF DeliveryInv, Landings, LandsOnceWhereItStarted
<1>. QED  BY <1>1, <1>2, <1>3 DEF DeliveryInv

---------------------------------------------------------------------------
(* The worker.                                                             *)

LEMMA StartPreserves ==
  ASSUME DeliveryInv, prepareDeliveryTarget
  PROVE  DeliveryInv'
<1>. USE DeliveryAssumption
<1>0. /\ phase = "idle" /\ recording < MaxRecordings /\ recording' = recording + 1
      /\ phase' = "recording" /\ UNCHANGED <<doc, landed, swallowed, outcome>>
  BY DEF prepareDeliveryTarget, page
<1>1. \/ /\ bridge' = [target |-> focus, caret |-> CaretAtStart]
         /\ marked' = (focus = "quill") /\ session' = [doc |-> doc, target |-> focus]
      \/ session' = NoSession /\ UNCHANGED <<bridge, marked>>
  BY DEF prepareDeliveryTarget, updateTarget
<1>2. Types'
  BY <1>0, <1>1 DEF DeliveryInv, Types, Phases, Undelivered
<1>3. Note'
  <2>1. ~marked
    BY <1>0 DEF DeliveryInv, Types, Note, NoSession
  <2>. QED  BY <1>0, <1>1, <2>1 DEF DeliveryInv, Types, Note, NoSession
<1>4. /\ \A l \in landed : l[1] \in 1 .. recording /\ l[1] # recording + 1
      /\ swallowed \subseteq 1 .. recording /\ recording + 1 \notin swallowed
  BY DEF DeliveryInv, Types, Landings
<1>5. Landings'
  BY <1>0, <1>4 DEF DeliveryInv, Types, Landings
<1>6. LandsOnceWhereItStarted'
  BY <1>0, <1>4 DEF DeliveryInv, LandsOnceWhereItStarted
<1>. QED  BY <1>2, <1>3, <1>5, <1>6 DEF DeliveryInv

(* Nothing lands: the worker notes another outcome for a recording that    *)
(* has none.                                                               *)
LEMMA NotesPreserves ==
  ASSUME DeliveryInv, phase \in Undelivered, phase' \in Phases \ {"recording"},
         NEW o, o # "inserted", Outcome(o),
         phase' = "idle" => session = NoSession,
         phase' \in {"quill", "message"} => session.doc # 0,
         phase' = "quill" => session.target = "quill",
         UNCHANGED <<doc, bridge, marked, session, recording, landed, swallowed>>
  PROVE  DeliveryInv'
<1>0. recording \in 1 .. MaxRecordings
  BY DeliveryAssumption DEF DeliveryInv, Types, Undelivered
<1>1. Types'
  BY DEF DeliveryInv, Types, Outcome, Undelivered
<1>2. Note'
  BY DEF DeliveryInv, Note
<1>3. Landings'
  BY DEF DeliveryInv, Landings
<1>4. recording \notin swallowed /\ \A l \in landed : l[1] # recording
  BY DEF DeliveryInv, Landings
<1>5. /\ outcome'[recording] = o
      /\ \A r \in (1 .. MaxRecordings) \ {recording} : outcome'[r] = outcome[r]
  BY <1>0 DEF DeliveryInv, Types, Outcome
<1>6. LandsOnceWhereItStarted'
  <2>1. ASSUME NEW r \in 1 .. MaxRecordings
        PROVE  outcome'[r] = "inserted" <=> r \in swallowed' \/ \E l \in landed' : l[1] = r
    BY <1>4, <1>5 DEF DeliveryInv, LandsOnceWhereItStarted
  <2>. QED  BY <1>4, <2>1 DEF DeliveryInv, LandsOnceWhereItStarted
<1>. QED  BY <1>1, <1>2, <1>3, <1>6 DEF DeliveryInv

(* The text lands, in the field that was noted.                            *)
LEMMA LandsPreserves ==
  ASSUME DeliveryInv, phase \in {"quill", "message"}, NEW f, NEW sel, Insert(f, sel),
         session.doc = doc, f = session.target,
         UNCHANGED <<doc, bridge, marked, session, recording>>
  PROVE  DeliveryInv'
<1>. DEFINE new == <<recording, doc, f, Cardinality(landed)>>
<1>0. /\ phase \in Undelivered /\ recording \in 1 .. MaxRecordings /\ phase' = "clear"
      /\ landed' = landed \cup {new} /\ outcome' = [outcome EXCEPT ![recording] = "inserted"]
      /\ swallowed' = swallowed
  BY DeliveryAssumption DEF DeliveryInv, Types, Undelivered, Insert, Lands, Outcome
<1>7. new[1] = recording /\ new[2] = doc /\ new[3] = f
  OBVIOUS
<1>. HIDE DEF new
<1>1. Types'
  BY <1>0 DEF DeliveryInv, Types, Phases
<1>2. Note'
  BY <1>0 DEF DeliveryInv, Note
<1>3. Landings'
  BY <1>0, <1>7 DEF DeliveryInv, Landings, Undelivered
<1>4. \A l \in landed : l[1] # recording
  BY <1>0 DEF DeliveryInv, Landings
<1>5. /\ outcome'[recording] = "inserted"
      /\ \A r \in (1 .. MaxRecordings) \ {recording} : outcome'[r] = outcome[r]
  BY <1>0 DEF DeliveryInv, Types
<1>6. LandsOnceWhereItStarted'
  <2>1. ASSUME NEW l \in landed', NEW k \in landed', l[1] = k[1]  PROVE l = k
    BY <1>0, <1>4, <1>7, <2>1 DEF DeliveryInv, LandsOnceWhereItStarted
  <2>2. ASSUME NEW r \in 1 .. MaxRecordings
        PROVE  outcome'[r] = "inserted" <=> r \in swallowed' \/ \E l \in landed' : l[1] = r
    <3>1. CASE r = recording
      BY <1>0, <1>5, <1>7, <3>1
    <3>2. CASE r # recording
      BY <1>0, <1>5, <1>7, <3>2 DEF DeliveryInv, LandsOnceWhereItStarted
    <3>. QED  BY <3>1, <3>2
  <2>3. ASSUME NEW l \in landed', l[1] = recording
        PROVE  l[2] = session.doc /\ l[3] = session.target
    BY <1>0, <1>4, <1>7, <2>3
  <2>. QED  BY <2>1, <2>2, <2>3 DEF LandsOnceWhereItStarted
<1>. QED  BY <1>1, <1>2, <1>3, <1>6 DEF DeliveryInv

(* The page refuses the text.                                              *)
LEMMA SwallowPreserves ==
  ASSUME DeliveryInv, phase \in {"quill", "message"}, Swallow,
         UNCHANGED <<doc, bridge, marked, session, recording>>
  PROVE  DeliveryInv'
<1>0. /\ phase \in Undelivered /\ recording \in 1 .. MaxRecordings /\ phase' = "clear"
      /\ landed' = landed /\ outcome' = [outcome EXCEPT ![recording] = "inserted"]
      /\ swallowed' = swallowed \cup {recording}
  BY DeliveryAssumption DEF DeliveryInv, Types, Undelivered, Swallow, Outcome
<1>1. Types'
  BY <1>0 DEF DeliveryInv, Types, Phases
<1>2. Note'
  BY <1>0 DEF DeliveryInv, Note
<1>3. Landings'
  BY <1>0 DEF DeliveryInv, Landings, Undelivered
<1>4. /\ outcome'[recording] = "inserted"
      /\ \A r \in (1 .. MaxRecordings) \ {recording} : outcome'[r] = outcome[r]
  BY <1>0 DEF DeliveryInv, Types
<1>5. LandsOnceWhereItStarted'
  BY <1>0, <1>4 DEF DeliveryInv, LandsOnceWhereItStarted
<1>. QED  BY <1>1, <1>2, <1>3, <1>5 DEF DeliveryInv

LEMMA ClearPreserves ==
  ASSUME DeliveryInv, clearDeliverySession
  PROVE  DeliveryInv'
<1>0. /\ phase = "clear" /\ phase' = "idle" /\ session' = NoSession
      /\ marked' = (marked /\ session.doc # doc)
      /\ UNCHANGED <<doc, bridge, recording, landed, swallowed, outcome>>
  BY DEF clearDeliverySession, page, Reaches
<1>1. Types'
  BY <1>0 DEF DeliveryInv, Types, Phases
<1>2. Note'
  <2>1. session'.doc = 0 /\ doc' \in Nat \ {0}
    BY <1>0 DEF DeliveryInv, Types, NoSession
  <2>2. ~marked'
    BY <1>0 DEF DeliveryInv, Note
  <2>. QED  BY <1>0, <2>1, <2>2 DEF Note
<1>3. Landings' /\ LandsOnceWhereItStarted'
  BY <1>0 DEF DeliveryInv, Landings, LandsOnceWhereItStarted, Undelivered
<1>. QED  BY <1>1, <1>2, <1>3 DEF DeliveryInv

---------------------------------------------------------------------------
(* Every step.                                                             *)

LEMMA DeliverPreserves ==
  ASSUME DeliveryInv, Deliver
  PROVE  DeliveryInv'
<1>. USE DEF Undelivered, Phases
<1>1. CASE prepareDeliveryTarget
  BY <1>1, StartPreserves
<1>2. CASE deliverTranscript
  <2>1. session # NoSession => session.doc # 0
    BY DEF DeliveryInv, Note
  <2>. QED  BY <1>2, <2>1, NotesPreserves, Zenon DEF deliverTranscript, page
<1>3. CASE NothingToDeliver
  BY <1>3, NotesPreserves DEF NothingToDeliver, page
<1>4. CASE deliverToQuill
  BY <1>4, LandsPreserves, SwallowPreserves DEF DeliveryInv, Note, deliverToQuill
<1>5. CASE QuillFails
  <2>1. /\ phase = "quill" /\ phase' = "message"
        /\ UNCHANGED <<doc, bridge, marked, session, recording, landed, swallowed, outcome>>
    BY <1>5 DEF QuillFails, page
  <2>. QED  BY <2>1 DEF DeliveryInv, Types, Note, Landings, LandsOnceWhereItStarted
<1>6. CASE insertText
  <2>1. session.doc = doc /\ bridge.target = session.target
    BY <1>6 DEF DeliveryInv, Note, insertText, Takes, Reaches
  <2>. QED  BY <1>6, <2>1, LandsPreserves, SwallowPreserves DEF insertText
<1>7. CASE TargetUnavailable
  BY <1>7, NotesPreserves DEF TargetUnavailable, page
<1>8. CASE clearDeliverySession
  BY <1>8, ClearPreserves
<1>. QED  BY <1>1, <1>2, <1>3, <1>4, <1>5, <1>6, <1>7, <1>8 DEF Deliver

LEMMA DeliveryNextInv ==
  ASSUME DeliveryInv, Next
  PROVE  DeliveryInv'
<1>1. "target" \in DOMAIN bridge
  BY DEF DeliveryInv, Types
<1>2. CASE \E f \in Fields \cup {None} : Focus(f)
  BY <1>1, <1>2, PageKeeps DEF Focus
<1>3. CASE \E s, e \in 0 .. MaxTyped + MaxRecordings : MoveCaret(s, e)
  BY <1>1, <1>3, PageKeeps DEF MoveCaret
<1>4. CASE \E f \in Fields : Lose(f)
  BY <1>1, <1>4, PageKeeps DEF Lose
<1>5. CASE SwitchReads \/ SwitchWrites
  BY <1>1, <1>5, PageKeeps DEF SwitchReads, SwitchWrites, page
<1>. QED
  BY <1>2, <1>3, <1>4, <1>5, TypePreserves, NavigatePreserves, DeliverPreserves DEF Next

---------------------------------------------------------------------------
(* Where a text lands among what was typed: the page itself, and the room  *)
(* the recording under way has in it.                                      *)

(* The page: what a field holds, its caret within, and where the focus and *)
(* the document's selection are.                                           *)
PageTypes ==
  /\ typed \in 0 .. MaxTyped /\ since \in Nat
  /\ content \in [Fields -> Seq(Nat)] /\ caret \in [Fields -> Nat \X Nat]
  /\ \A f \in Fields : caret[f][1] <= caret[f][2] /\ caret[f][2] <= Len(content[f])
  /\ focus \in Fields \cup {None} /\ selection = (IF focus \in Hosts THEN focus ELSE None)
  /\ DOMAIN shape = Fields
  /\ session # NoSession => session.target \in TextControls \cup Hosts

(* The note is a field with a range, which shifts with what is typed.      *)
NoteTypes ==
  /\ {"target", "caret"} \subseteq DOMAIN bridge
  /\ bridge.target \in Fields \cup {None}
  /\ bridge.caret[1] \in Nat /\ bridge.caret[2] \in Nat /\ bridge.caret[1] <= bridge.caret[2]

(* A field holds what the user typed so far, and the texts of recordings;  *)
(* the one under way has none yet.                                         *)
Pieces ==
  \A f \in Fields : \A i \in DOMAIN content[f] :
    \/ content[f][i] <= typed
    \/ /\ content[f][i] \in MaxTyped + 1 .. Text(recording)
       /\ phase \in Undelivered => content[f][i] # Text(recording)

(* As long as the caret stays, the field that was noted has all the user   *)
(* typed in it since Start before its caret; an editing host that still    *)
(* takes text still has the selection; and the caret kept for a control    *)
(* that does not tell of it selects nothing.                               *)
Awaited == phase \in Undelivered /\ session.doc = doc /\ ~away

TypedBefore ==
  Awaited =>
    /\ session.target # "email" =>
         \A i \in DOMAIN content[session.target] :
           content[session.target][i] \in since .. MaxTyped => i <= caret[session.target][1]
    /\ session.target \in Hosts /\ shape[session.target] = "open" => selection = session.target
    /\ session.target = "email" => bridge.caret[1] = bridge.caret[2]

FollowInv == PageTypes /\ Pieces /\ TypedBefore

---------------------------------------------------------------------------
(* Where the elements of a sequence are after a replacement.               *)
SplicedTo(s, z, a, b, x) ==
  /\ z \in Seq(Nat) /\ Len(z) = Len(s) + 1 - (b - a)
  /\ z[a + 1] = x
  /\ \A i \in 1 .. a : z[i] = s[i]
  /\ \A i \in a + 2 .. Len(z) : \E j \in b + 1 .. Len(s) : z[i] = s[j]

LEMMA Places ==
  ASSUME NEW s \in Seq(Nat)
  PROVE  DOMAIN s = 1 .. Len(s) /\ Len(s) \in Nat /\ DOMAIN s \subseteq Nat
<1>1. DOMAIN s = 1 .. Len(s) /\ Len(s) \in Nat
  BY LenProperties
<1>. QED  BY <1>1

LEMMA Joins ==
  ASSUME NEW p \in Seq(Nat), NEW q \in Seq(Nat)
  PROVE  /\ p \o q \in Seq(Nat) /\ Len(p \o q) = Len(p) + Len(q)
         /\ \A i \in 1 .. Len(p) : (p \o q)[i] = p[i]
         /\ \A i \in Len(p) + 1 .. Len(p) + Len(q) : (p \o q)[i] = q[i - Len(p)]
<1>1. Len(p) \in Nat /\ Len(q) \in Nat
  BY LenProperties
<1>2. p \o q \in Seq(Nat) /\ Len(p \o q) = Len(p) + Len(q)
  BY ConcatProperties
<1>3. ASSUME NEW i \in 1 .. Len(p)  PROVE (p \o q)[i] = p[i]
  <2>1. i \in 1 .. Len(p) + Len(q) /\ i <= Len(p)
    BY <1>1
  <2>. QED  BY <2>1, ConcatProperties
<1>4. ASSUME NEW i \in Len(p) + 1 .. Len(p) + Len(q)  PROVE (p \o q)[i] = q[i - Len(p)]
  <2>1. i \in 1 .. Len(p) + Len(q) /\ ~(i <= Len(p))
    BY <1>1
  <2>. QED  BY <2>1, ConcatProperties
<1>. QED  BY <1>2, <1>3, <1>4

LEMMA SplicedSeq ==
  ASSUME NEW s \in Seq(Nat), NEW a \in Nat, NEW b \in Nat, NEW x \in Nat, a <= b, b <= Len(s)
  PROVE  SplicedTo(s, SubSeq(s, 1, a) \o <<x>> \o SubSeq(s, b + 1, Len(s)), a, b, x)
<1>. DEFINE p == SubSeq(s, 1, a)
            q == SubSeq(s, b + 1, Len(s))
            m == p \o <<x>>
            z == m \o q
<1>6. Len(s) \in Nat
  BY LenProperties
<1>1. p \in Seq(Nat) /\ Len(p) = a /\ \A i \in 1 .. a : p[i] = s[i]
  <2>1. \A i \in 1 .. a : s[i] \in Nat
    BY <1>6
  <2>2. p \in Seq(Nat) /\ Len(p) = (IF 1 <= a THEN (a - 1) + 1 ELSE 0)
    BY <2>1, SubSeqProperties
  <2>3. \A i \in 1 .. (a - 1) + 1 : p[i] = s[(1 + i) - 1]
    BY <2>1, SubSeqProperties
  <2>. QED  BY <2>2, <2>3
<1>2. q \in Seq(Nat) /\ Len(q) = Len(s) - b /\ \A i \in 1 .. Len(s) - b : q[i] = s[b + i]
  <2>1. \A i \in b + 1 .. Len(s) : s[i] \in Nat
    BY <1>6
  <2>2. q \in Seq(Nat) /\ Len(q) = (IF b + 1 <= Len(s) THEN (Len(s) - (b + 1)) + 1 ELSE 0)
    BY <1>6, <2>1, SubSeqProperties
  <2>3. \A i \in 1 .. (Len(s) - (b + 1)) + 1 : q[i] = s[((b + 1) + i) - 1]
    BY <1>6, <2>1, SubSeqProperties
  <2>4. ASSUME NEW i \in 1 .. Len(s) - b  PROVE q[i] = s[b + i]
    <3>1. i \in 1 .. (Len(s) - (b + 1)) + 1 /\ ((b + 1) + i) - 1 = b + i
      BY <1>6
    <3>. QED  BY <2>3, <3>1
  <2>. QED  BY <1>6, <2>2, <2>4
<1>. HIDE DEF p, q
<1>3. <<x>> \in Seq(Nat) /\ Len(<<x>>) = 1 /\ <<x>>[1] = x
  OBVIOUS
<1>4. /\ m \in Seq(Nat) /\ Len(m) = a + 1
      /\ \A i \in 1 .. a : m[i] = p[i]
      /\ m[a + 1] = x
  <2>1. a + 1 \in Len(p) + 1 .. Len(p) + Len(<<x>>) /\ (a + 1) - Len(p) = 1
    BY <1>1, <1>3
  <2>2. m \in Seq(Nat) /\ Len(m) = Len(p) + Len(<<x>>) /\ \A i \in 1 .. Len(p) : m[i] = p[i]
    BY <1>1, <1>3, Joins
  <2>3. m[a + 1] = <<x>>[(a + 1) - Len(p)]
    BY <1>1, <1>3, <2>1, Joins
  <2>. QED  BY <1>1, <1>3, <2>1, <2>2, <2>3
<1>. HIDE DEF m
<1>5. /\ z \in Seq(Nat) /\ Len(z) = (a + 1) + (Len(s) - b)
      /\ \A i \in 1 .. a + 1 : z[i] = m[i]
      /\ \A i \in a + 2 .. (a + 1) + (Len(s) - b) : z[i] = q[i - (a + 1)]
  <2>1. (a + 1) + 1 = a + 2
    OBVIOUS
  <2>2. /\ z \in Seq(Nat) /\ Len(z) = Len(m) + Len(q)
        /\ \A i \in 1 .. Len(m) : z[i] = m[i]
        /\ \A i \in Len(m) + 1 .. Len(m) + Len(q) : z[i] = q[i - Len(m)]
    BY <1>2, <1>4, Joins
  <2>. QED  BY <1>2, <1>4, <2>1, <2>2
<1>. HIDE DEF z
<1>7. Len(z) = Len(s) + 1 - (b - a)
  BY <1>5, <1>6
<1>8. ASSUME NEW i \in 1 .. a  PROVE z[i] = s[i]
  <2>1. i \in 1 .. a + 1
    OBVIOUS
  <2>2. z[i] = m[i] /\ m[i] = p[i] /\ p[i] = s[i]
    BY <1>1, <1>4, <1>5, <2>1
  <2>. QED  BY <2>2
<1>9. z[a + 1] = x
  BY <1>4, <1>5
<1>10. ASSUME NEW i \in a + 2 .. Len(z)  PROVE \E j \in b + 1 .. Len(s) : z[i] = s[j]
  <2>1. i - (a + 1) \in 1 .. Len(s) - b
    BY <1>5, <1>6, <1>10
  <2>2. z[i] = q[i - (a + 1)]
    BY <1>5, <1>10
  <2>3. z[i] = s[b + (i - (a + 1))]
    BY <1>2, <2>1, <2>2
  <2>4. b + (i - (a + 1)) \in b + 1 .. Len(s)
    BY <1>6, <2>1
  <2>. QED  BY <2>3, <2>4
<1>11. z = SubSeq(s, 1, a) \o <<x>> \o SubSeq(s, b + 1, Len(s))
  BY DEF z, m, p, q
<1>12. SplicedTo(s, z, a, b, x)
  BY <1>5, <1>7, <1>8, <1>9, <1>10 DEF SplicedTo
<1>. QED  BY <1>11, <1>12

LEMMA ReplacedIsSpliced ==
  ASSUME NEW f \in Fields, PageTypes, NEW sel, NEW x \in Nat, sel[1] \in Nat, sel[2] \in Nat,
         sel[1] <= sel[2], sel[2] <= Len(content[f])
  PROVE  SplicedTo(content[f], Replaced(f, sel, x), sel[1], sel[2], x)
<1>1. content[f] \in Seq(Nat)
  BY DEF PageTypes
<1>. QED  BY <1>1, SplicedSeq DEF Replaced

---------------------------------------------------------------------------
LEMMA InitFollowInv == Init => FollowInv
<1> SUFFICES ASSUME Init  PROVE FollowInv
  OBVIOUS
<1>1. PageTypes
  <2>1. <<>> \in Seq(Nat) /\ Len(<<>>) = 0
    OBVIOUS
  <2>2. \A f \in Fields : content[f] = <<>> /\ caret[f] = <<0, 0>>
    BY DEF Init
  <2>3. content \in [Fields -> Seq(Nat)] /\ caret \in [Fields -> Nat \X Nat]
    BY <2>1 DEF Init
  <2>4. \A f \in Fields : caret[f][1] <= caret[f][2] /\ caret[f][2] <= Len(content[f])
    BY <2>1, <2>2
  <2>5. None \notin Hosts
    BY DEF None, Hosts
  <2>. QED  BY <2>3, <2>4, <2>5, DeliveryAssumption DEF Init, PageTypes
<1>2. Pieces
  <2>1. \A f \in Fields : content[f] = <<>>
    BY DEF Init
  <2>. QED  BY <2>1 DEF Pieces
<1>3. TypedBefore
  BY DEF Init, TypedBefore, Awaited, Undelivered
<1>. QED  BY <1>1, <1>2, <1>3 DEF FollowInv

(* A step of the worker that leaves the page as it is.                     *)
LEMMA WorkerFollows ==
  ASSUME FollowInv,
         UNCHANGED <<doc, content, caret, shape, focus, selection, bridge, since, away,
                     recording, typed>>,
         phase' \in Undelivered => phase \in Undelivered /\ session' = session,
         session' = session \/ session' = NoSession
  PROVE  FollowInv'
<1>1. PageTypes'
  BY DEF FollowInv, PageTypes
<1>2. Pieces'
  BY DEF FollowInv, Pieces, Text
<1>3. TypedBefore'
  BY DEF FollowInv, TypedBefore, Awaited
<1>. QED  BY <1>1, <1>2, <1>3 DEF FollowInv

LEMMA FocusFollows ==
  ASSUME DeliveryInv, FollowInv, NEW f \in Fields \cup {None}, Focus(f)
  PROVE  FollowInv'
<1>0. /\ focus' = f /\ selection' = (IF f \in Hosts THEN f ELSE None)
      /\ away' = (away \/ (bridge.target \in Hosts /\ f # bridge.target))
      /\ UNCHANGED <<doc, content, caret, shape, bridge, since, typed, phase, session, recording>>
  BY DEF Focus, worker
<1>1. PageTypes'
  BY <1>0 DEF FollowInv, PageTypes
<1>2. Pieces'
  BY <1>0 DEF FollowInv, Pieces, Text
<1>3. session.doc = doc => bridge.target = session.target
  BY DEF DeliveryInv, Note
<1>4. TypedBefore'
  <2>1. SUFFICES ASSUME Awaited'  PROVE TypedBefore'
    BY DEF TypedBefore
  <2>2. Awaited /\ ~away'
    BY <1>0, <2>1 DEF Awaited
  <2>3. session.target \in Hosts => f = session.target
    BY <1>0, <1>3, <2>2 DEF Awaited
  <2>4. session'.target \in Hosts => selection' = session'.target
    BY <1>0, <2>3
  <2>. QED  BY <1>0, <2>2, <2>4 DEF FollowInv, TypedBefore
<1>. QED  BY <1>1, <1>2, <1>4 DEF FollowInv

LEMMA MoveCaretFollows ==
  ASSUME FollowInv, NEW s \in Nat, NEW e \in Nat, MoveCaret(s, e)
  PROVE  FollowInv'
<1>0. /\ focus # None /\ s <= e /\ e <= Len(content[focus]) /\ away' = TRUE
      /\ caret' = [caret EXCEPT ![focus] = <<s, e>>]
      /\ UNCHANGED <<doc, content, shape, focus, selection, bridge, since, typed, phase,
                     session, recording>>
  BY DEF MoveCaret, worker
<1>1. PageTypes'
  <2>1. focus \in Fields /\ caret \in [Fields -> Nat \X Nat]
    BY <1>0 DEF FollowInv, PageTypes
  <2>2. <<s, e>> \in Nat \X Nat /\ <<s, e>>[1] = s /\ <<s, e>>[2] = e
    OBVIOUS
  <2>3. caret' \in [Fields -> Nat \X Nat]
    BY <1>0, <2>1, <2>2
  <2>4. ASSUME NEW f \in Fields
        PROVE  caret'[f][1] <= caret'[f][2] /\ caret'[f][2] <= Len(content[f])
    <3>1. CASE f = focus
      <4>1. caret'[f] = <<s, e>>
        BY <1>0, <2>1, <3>1
      <4>. QED  BY <1>0, <2>2, <3>1, <4>1
    <3>2. CASE f # focus
      <4>1. caret'[f] = caret[f]
        BY <1>0, <2>1, <3>2
      <4>. QED  BY <4>1 DEF FollowInv, PageTypes
    <3>. QED  BY <3>1, <3>2
  <2>. QED  BY <1>0, <2>3, <2>4 DEF FollowInv, PageTypes
<1>2. Pieces'
  BY <1>0 DEF FollowInv, Pieces, Text
<1>3. TypedBefore'
  BY <1>0 DEF TypedBefore, Awaited
<1>. QED  BY <1>1, <1>2, <1>3 DEF FollowInv

LEMMA LoseFollows ==
  ASSUME FollowInv, NEW f \in Fields, Lose(f)
  PROVE  FollowInv'
<1>0. /\ shape[f] = "open" /\ focus' = (IF focus = f THEN None ELSE focus)
      /\ selection' = (IF selection = f THEN None ELSE selection)
      /\ UNCHANGED <<doc, content, caret, bridge, since, typed, phase, session, recording, away>>
  BY DEF Lose, worker, history
<1>1. PICK s \in {"gone", "readonly"} : shape' = [shape EXCEPT ![f] = s]
  BY DEF Lose
<1>2. None \notin Fields /\ Hosts \subseteq Fields
  BY DEF None, Fields, Hosts, TextControls
<1>3. PageTypes'
  <2>1. selection' = (IF focus' \in Hosts THEN focus' ELSE None)
    BY <1>0, <1>2 DEF FollowInv, PageTypes
  <2>2. DOMAIN shape' = Fields
    BY <1>1 DEF FollowInv, PageTypes
  <2>. QED  BY <1>0, <2>1, <2>2 DEF FollowInv, PageTypes
<1>4. Pieces'
  BY <1>0 DEF FollowInv, Pieces, Text
<1>5. TypedBefore'
  <2>1. SUFFICES ASSUME Awaited'  PROVE TypedBefore'
    BY DEF TypedBefore
  <2>2. Awaited
    BY <1>0, <2>1 DEF Awaited
  <2>3. ASSUME session.target \in Hosts, shape'[session.target] = "open"
        PROVE  selection' = session.target
    <3>1. session.target # f /\ shape[session.target] = "open"
      BY <1>1, <1>2, <2>3 DEF FollowInv, PageTypes
    <3>. QED  BY <1>0, <2>2, <2>3, <3>1 DEF FollowInv, TypedBefore
  <2>. QED  BY <1>0, <2>2, <2>3 DEF FollowInv, TypedBefore
<1>. QED  BY <1>3, <1>4, <1>5 DEF FollowInv

LEMMA NavigateFollows ==
  ASSUME DeliveryInv, FollowInv, Navigate
  PROVE  FollowInv'
<1>0. /\ doc' = doc + 1 /\ focus' = None /\ selection' = None
      /\ content' = [f \in Fields |-> <<>>] /\ caret' = [f \in Fields |-> <<0, 0>>]
      /\ shape' = [f \in Fields |-> "open"]
      /\ UNCHANGED <<since, typed, phase, session, recording, away>>
  BY DEF Navigate, worker, history
<1>1. PageTypes'
  <2>1. <<>> \in Seq(Nat) /\ Len(<<>>) = 0
    OBVIOUS
  <2>2. \A f \in Fields : content'[f] = <<>> /\ caret'[f] = <<0, 0>>
    BY <1>0
  <2>3. content' \in [Fields -> Seq(Nat)] /\ caret' \in [Fields -> Nat \X Nat]
    BY <1>0, <2>1
  <2>4. \A f \in Fields : caret'[f][1] <= caret'[f][2] /\ caret'[f][2] <= Len(content'[f])
    BY <2>1, <2>2
  <2>5. None \notin Hosts
    BY DEF None, Hosts
  <2>. QED  BY <1>0, <2>3, <2>4, <2>5 DEF FollowInv, PageTypes
<1>2. Pieces'
  <2>1. \A f \in Fields : content'[f] = <<>>
    BY <1>0
  <2>. QED  BY <2>1 DEF Pieces
<1>3. TypedBefore'
  <2>1. session'.doc # doc'
    BY <1>0 DEF DeliveryInv, Note, Types
  <2>. QED  BY <2>1 DEF TypedBefore, Awaited
<1>. QED  BY <1>1, <1>2, <1>3 DEF FollowInv

LEMMA StartFollows ==
  ASSUME DeliveryInv, FollowInv, prepareDeliveryTarget
  PROVE  FollowInv'
<1>0. /\ recording' = recording + 1 /\ since' = typed + 1
      /\ UNCHANGED <<doc, content, caret, shape, focus, selection, typed>>
  BY DEF prepareDeliveryTarget, page, bounds
<1>1. \/ /\ bridge' = [target |-> focus, caret |-> CaretAtStart]
         /\ session' = [doc |-> doc, target |-> focus]
         /\ focus \in TextControls \cup Hosts
      \/ session' = NoSession /\ bridge' = bridge
  BY DEF prepareDeliveryTarget, updateTarget, Editable
<1>2. PageTypes'
  BY <1>0, <1>1 DEF FollowInv, PageTypes
<1>3. recording \in Nat /\ MaxTyped \in Nat /\ typed \in Nat /\ typed <= MaxTyped
  BY DeliveryAssumption DEF DeliveryInv, Types, FollowInv, PageTypes
<1>4. Pieces'
  <2>1. Text(recording') = Text(recording) + 1 /\ Text(recording) \in Nat
    BY <1>0, <1>3 DEF Text
  <2>2. Text(recording)' = Text(recording')
    BY DEF Text
  <2>3. ASSUME NEW f \in Fields, NEW i \in DOMAIN content[f]
        PROVE  \/ content[f][i] <= typed
               \/ /\ content[f][i] \in MaxTyped + 1 .. Text(recording')
                  /\ content[f][i] # Text(recording')
    BY <1>3, <2>1 DEF FollowInv, Pieces
  <2>. QED  BY <1>0, <2>2, <2>3 DEF Pieces
<1>5. TypedBefore'
  <2>1. SUFFICES ASSUME Awaited'  PROVE TypedBefore'
    BY DEF TypedBefore
  <2>2. session' # NoSession
    BY <1>0, <2>1 DEF Awaited, NoSession, DeliveryInv, Types
  <2>3. /\ bridge'.caret = CaretAtStart /\ session'.target = focus
        /\ focus \in TextControls \cup Hosts
    BY <1>1, <2>2
  <2>4. ASSUME NEW i \in DOMAIN content[focus]  PROVE content[focus][i] \notin since' .. MaxTyped
    <3>1. focus \in Fields
      BY <2>3 DEF Fields
    <3>2. content[focus][i] <= typed \/ content[focus][i] \in MaxTyped + 1 .. Text(recording)
      BY <3>1 DEF FollowInv, Pieces
    <3>. QED  BY <1>0, <1>3, <3>2 DEF Text
  <2>5. focus \in Hosts => selection' = focus
    BY <1>0 DEF FollowInv, PageTypes
  <2>6. focus = "email" => CaretAtStart[1] = CaretAtStart[2]
    BY DEF CaretAtStart
  <2>. QED  BY <1>0, <2>3, <2>4, <2>5, <2>6 DEF TypedBefore
<1>. QED  BY <1>2, <1>4, <1>5 DEF FollowInv

---------------------------------------------------------------------------
(* A field gets a piece in place of what is between two carets, and its    *)
(* caret behind it.                                                        *)
Gets(f, sel, x) ==
  /\ content' = [content EXCEPT ![f] = Replaced(f, sel, x)]
  /\ caret' = [caret EXCEPT ![f] = <<sel[1] + 1, sel[1] + 1>>]
  /\ sel[1] \in Nat /\ sel[2] \in Nat /\ sel[1] <= sel[2] /\ sel[2] <= Len(content[f])

LEMMA GetsPiece ==
  ASSUME PageTypes, NEW f \in Fields, NEW sel, NEW x \in Nat, Gets(f, sel, x)
  PROVE  /\ SplicedTo(content[f], content'[f], sel[1], sel[2], x)
         /\ caret'[f][1] = sel[1] + 1
         /\ \A g \in Fields \ {f} : content'[g] = content[g] /\ caret'[g] = caret[g]
         /\ content' \in [Fields -> Seq(Nat)] /\ caret' \in [Fields -> Nat \X Nat]
         /\ \A g \in Fields : caret'[g][1] <= caret'[g][2] /\ caret'[g][2] <= Len(content'[g])
<1>1. content \in [Fields -> Seq(Nat)] /\ caret \in [Fields -> Nat \X Nat]
  BY DEF PageTypes
<1>2. SplicedTo(content[f], Replaced(f, sel, x), sel[1], sel[2], x)
  BY ReplacedIsSpliced DEF Gets
<1>3. content'[f] = Replaced(f, sel, x) /\ caret'[f] = <<sel[1] + 1, sel[1] + 1>>
  BY <1>1 DEF Gets
<1>4. \A g \in Fields \ {f} : content'[g] = content[g] /\ caret'[g] = caret[g]
  BY <1>1 DEF Gets
<1>5. sel[1] + 1 \in Nat /\ Replaced(f, sel, x) \in Seq(Nat)
  <2>1. sel[1] \in Nat
    BY DEF Gets
  <2>2. Replaced(f, sel, x) \in Seq(Nat)
    BY <1>2 DEF SplicedTo
  <2>. QED  BY <2>1, <2>2
<1>6. content' \in [Fields -> Seq(Nat)]
  BY <1>1, <1>5 DEF Gets
<1>7. caret' \in [Fields -> Nat \X Nat]
  BY <1>1, <1>5 DEF Gets
<1>8. caret'[f][1] = sel[1] + 1 /\ caret'[f][2] = sel[1] + 1
  BY <1>3
<1>9. sel[1] + 1 <= Len(content'[f])
  <2>1. Len(content[f]) \in Nat
    BY <1>1, LenProperties
  <2>2. Len(content'[f]) = Len(content[f]) + 1 - (sel[2] - sel[1])
    BY <1>2, <1>3 DEF SplicedTo
  <2>. QED  BY <2>1, <2>2 DEF Gets
<1>10. ASSUME NEW g \in Fields
       PROVE  caret'[g][1] <= caret'[g][2] /\ caret'[g][2] <= Len(content'[g])
  <2>1. CASE g = f
    BY <1>5, <1>8, <1>9, <2>1
  <2>2. CASE g # f
    BY <1>4, <2>2 DEF PageTypes
  <2>. QED  BY <2>1, <2>2
<1>. QED  BY <1>2, <1>3, <1>4, <1>6, <1>7, <1>8, <1>10

(* Whatever was in the field, what it holds then was there, or is the new  *)
(* piece; and what was not behind the caret keeps its place.               *)
LEMMA SplicedElements ==
  ASSUME NEW s \in Seq(Nat), NEW z, NEW a \in Nat, NEW b \in Nat, NEW x \in Nat,
         SplicedTo(s, z, a, b, x), a <= b, b <= Len(s), NEW i \in DOMAIN z
  PROVE  \/ i \in DOMAIN s /\ i <= a /\ z[i] = s[i]
         \/ i = a + 1 /\ z[i] = x
         \/ \E j \in DOMAIN s : j > b /\ i > a + 1 /\ z[i] = s[j]
<1>1. i \in 1 .. Len(z) /\ DOMAIN s = 1 .. Len(s) /\ Len(s) \in Nat /\ Len(z) \in Nat
  <2>1. z \in Seq(Nat)
    BY DEF SplicedTo
  <2>. QED  BY <2>1, Places
<1>2. CASE i <= a
  BY <1>1, <1>2 DEF SplicedTo
<1>3. CASE i = a + 1
  BY <1>3 DEF SplicedTo
<1>4. CASE i > a + 1
  <2>1. i \in a + 2 .. Len(z)
    BY <1>1, <1>4
  <2>2. PICK j \in b + 1 .. Len(s) : z[i] = s[j]
    BY <2>1 DEF SplicedTo
  <2>3. j \in DOMAIN s /\ j > b
    BY <1>1, <2>2
  <2>. QED  BY <1>4, <2>2, <2>3
<1>. QED  BY <1>1, <1>2, <1>3, <1>4

LEMMA GetsElements ==
  ASSUME PageTypes, NEW f \in Fields, NEW sel, NEW x \in Nat, Gets(f, sel, x),
         NEW i \in DOMAIN content'[f]
  PROVE  \/ i \in DOMAIN content[f] /\ i <= sel[1] /\ content'[f][i] = content[f][i]
         \/ i = sel[1] + 1 /\ content'[f][i] = x
         \/ \E j \in DOMAIN content[f] :
              j > sel[2] /\ i > sel[1] + 1 /\ content'[f][i] = content[f][j]
<1>1. SUFFICES ASSUME NEW a \in Nat, NEW b \in Nat, a = sel[1], b = sel[2]
               PROVE  \/ i \in DOMAIN content[f] /\ i <= a /\ content'[f][i] = content[f][i]
                      \/ i = a + 1 /\ content'[f][i] = x
                      \/ \E j \in DOMAIN content[f] :
                           j > b /\ i > a + 1 /\ content'[f][i] = content[f][j]
  BY DEF Gets
<1>2. SplicedTo(content[f], content'[f], a, b, x)
  BY <1>1, GetsPiece
<1>3. content[f] \in Seq(Nat) /\ a <= b /\ b <= Len(content[f])
  BY <1>1 DEF Gets, PageTypes
<1>. QED  BY <1>2, <1>3, SplicedElements

LEMMA CaretIsRange ==
  ASSUME PageTypes, NEW f \in Fields
  PROVE  /\ caret[f][1] \in Nat /\ caret[f][2] \in Nat
         /\ caret[f][1] <= caret[f][2] /\ caret[f][2] <= Len(content[f])
         /\ content[f] \in Seq(Nat) /\ Len(content[f]) \in Nat
BY LenProperties DEF PageTypes

LEMMA TypeFollows ==
  ASSUME DeliveryInv, FollowInv, Type
  PROVE  FollowInv'
<1>. DEFINE sel == caret[focus]
<1>0. /\ typed < MaxTyped /\ typed' = typed + 1 /\ focus \in Fields
      /\ content' = [content EXCEPT ![focus] = Replaced(focus, sel, typed + 1)]
      /\ caret' = [caret EXCEPT ![focus] = <<sel[1] + 1, sel[1] + 1>>]
      /\ UNCHANGED <<doc, shape, focus, selection, phase, session, recording, away, since>>
  BY DEF Type, worker, history
<1>1. bridge.target = "email" => bridge' = bridge
  BY DEF Type, Hosts
<1>2. PageTypes /\ Pieces /\ TypedBefore
  BY DEF FollowInv
<1>3. typed \in Nat /\ typed + 1 \in Nat /\ typed + 1 <= MaxTyped /\ MaxTyped \in Nat
  BY <1>0, <1>2, DeliveryAssumption DEF PageTypes
<1>4. sel[1] \in Nat /\ sel[2] \in Nat /\ sel[1] <= sel[2] /\ sel[2] <= Len(content[focus])
  BY <1>0, <1>2, CaretIsRange
<1>5. Gets(focus, sel, typed + 1)
  BY <1>0, <1>4 DEF Gets
<1>. HIDE DEF sel
<1>6. /\ SplicedTo(content[focus], content'[focus], sel[1], sel[2], typed + 1)
      /\ caret'[focus][1] = sel[1] + 1
      /\ \A g \in Fields \ {focus} : content'[g] = content[g] /\ caret'[g] = caret[g]
      /\ content' \in [Fields -> Seq(Nat)] /\ caret' \in [Fields -> Nat \X Nat]
      /\ \A g \in Fields : caret'[g][1] <= caret'[g][2] /\ caret'[g][2] <= Len(content'[g])
  BY <1>0, <1>2, <1>3, <1>5, GetsPiece
<1>7. content[focus] \in Seq(Nat)
  BY <1>0, <1>2 DEF PageTypes
<1>8. PageTypes'
  BY <1>0, <1>2, <1>3, <1>6 DEF PageTypes
<1>9. ASSUME NEW i \in DOMAIN content'[focus]
      PROVE  \/ i \in DOMAIN content[focus] /\ i <= sel[1] /\ content'[focus][i] = content[focus][i]
             \/ i = sel[1] + 1 /\ content'[focus][i] = typed + 1
             \/ \E j \in DOMAIN content[focus] :
                  j > sel[2] /\ i > sel[1] + 1 /\ content'[focus][i] = content[focus][j]
  BY <1>0, <1>2, <1>3, <1>5, GetsElements
<1>10. Pieces'
  <2>1. ASSUME NEW f \in Fields, NEW i \in DOMAIN content'[f]
        PROVE  \/ content'[f][i] <= typed + 1
               \/ /\ content'[f][i] \in MaxTyped + 1 .. Text(recording)
                  /\ phase \in Undelivered => content'[f][i] # Text(recording)
    <3>1. \/ content'[f][i] = typed + 1
          \/ \E j \in DOMAIN content[f] : content'[f][i] = content[f][j]
      <4>1. CASE f = focus
        BY <1>9, <4>1
      <4>2. CASE f # focus
        BY <1>6, <4>2
      <4>. QED  BY <4>1, <4>2
    <3>2. CASE content'[f][i] = typed + 1
      BY <1>3, <3>2
    <3>3. ASSUME NEW j \in DOMAIN content[f], content'[f][i] = content[f][j]
          PROVE  \/ content'[f][i] <= typed + 1
                 \/ /\ content'[f][i] \in MaxTyped + 1 .. Text(recording)
                    /\ phase \in Undelivered => content'[f][i] # Text(recording)
      <4>1. content[f][j] \in Nat
        <5>1. content[f] \in Seq(Nat)
          BY <1>2 DEF PageTypes
        <5>. QED  BY <5>1
      <4>. QED  BY <1>2, <1>3, <3>3, <4>1 DEF Pieces
    <3>. QED  BY <3>1, <3>2, <3>3
  <2>2. Text(recording)' = Text(recording)
    BY <1>0 DEF Text
  <2>. QED  BY <1>0, <2>1, <2>2 DEF Pieces
<1>11. TypedBefore'
  <2>1. SUFFICES ASSUME Awaited'  PROVE TypedBefore'
    BY DEF TypedBefore
  <2>2. Awaited
    BY <1>0, <2>1 DEF Awaited
  <2>3. session # NoSession
    BY <2>2 DEF Awaited, DeliveryInv, Types, NoSession
  <2>4. session.target \in Fields /\ bridge.target = session.target
    BY <1>2, <2>2, <2>3 DEF PageTypes, Fields, Awaited, DeliveryInv, Note
  <2>5. ASSUME session.target # "email", NEW i \in DOMAIN content'[session.target],
               content'[session.target][i] \in since .. MaxTyped
        PROVE  i <= caret'[session.target][1]
    <3>1. \A j \in DOMAIN content[session.target] :
            content[session.target][j] \in since .. MaxTyped => j <= caret[session.target][1]
      BY <1>2, <2>2, <2>5 DEF TypedBefore
    <3>2. CASE session.target # focus
      BY <1>6, <2>4, <2>5, <3>1, <3>2
    <3>3. CASE session.target = focus
      <4>1. \A j \in DOMAIN content[focus] :
              content[focus][j] \in since .. MaxTyped => j <= sel[1]
        BY <3>1, <3>3 DEF sel
      <4>2. DOMAIN content[focus] \subseteq Nat /\ DOMAIN content'[focus] \subseteq Nat
        <5>1. content'[focus] \in Seq(Nat)
          BY <1>0, <1>6
        <5>. QED  BY <1>7, <5>1, Places
      <4>3. i \in DOMAIN content'[focus] /\ content'[focus][i] \in since .. MaxTyped
        BY <2>5, <3>3
      <4>4. ~ \E j \in DOMAIN content[focus] : j > sel[2] /\ content'[focus][i] = content[focus][j]
        BY <1>4, <4>1, <4>2, <4>3
      <4>5. i <= sel[1] + 1
        BY <1>4, <1>9, <4>2, <4>3, <4>4
      <4>. QED  BY <1>6, <3>3, <4>5
    <3>. QED  BY <3>2, <3>3
  <2>6. session'.target = session.target /\ since' = since /\ selection' = selection
        /\ shape' = shape
    BY <1>0
  <2>7. session.target = "email" => bridge'.caret[1] = bridge'.caret[2]
    BY <1>1, <1>2, <2>2, <2>4 DEF TypedBefore
  <2>. QED  BY <1>2, <2>2, <2>5, <2>6, <2>7 DEF TypedBefore
<1>. QED  BY <1>8, <1>10, <1>11 DEF FollowInv

---------------------------------------------------------------------------
(* The text lands behind what was typed, and takes away no more than is    *)
(* selected.                                                               *)
Follows(l) ==
  LET f == l[3]
      at == CHOOSE i \in 1 .. Len(content'[f]) : content'[f][i] = Text(recording)
  IN /\ ~away /\ f # "email" =>
          \A i \in 1 .. Len(content'[f]) :
            content'[f][i] \in since .. MaxTyped => i < at
     /\ caret[f][1] = caret[f][2] /\ ~away => Len(content'[f]) = Len(content[f]) + 1

LEMMA InsertFollows ==
  ASSUME DeliveryInv, FollowInv, phase \in Undelivered, NEW f \in Fields, NEW sel,
         Insert(f, sel),
         sel[1] \in Nat, sel[2] \in Nat, sel[1] <= sel[2], sel[2] <= Len(content[f]),
         ~away /\ f # "email" =>
           \A j \in DOMAIN content[f] : content[f][j] \in since .. MaxTyped => j <= sel[2],
         ~away /\ caret[f][1] = caret[f][2] => sel[1] = sel[2],
         NEW l \in landed' \ landed
  PROVE  Follows(l)
<1>1. l[3] = f
  BY DEF Insert, Lands
<1>2. PageTypes /\ Pieces
  BY DEF FollowInv
<1>3. recording \in Nat \ {0} /\ MaxTyped \in Nat /\ typed \in 0 .. MaxTyped
  BY <1>2, DeliveryAssumption DEF DeliveryInv, Types, PageTypes, Undelivered
<1>4. Text(recording) \in Nat /\ Text(recording) > MaxTyped
  BY <1>3 DEF Text
<1>5. Gets(f, sel, Text(recording))
  BY DEF Gets, Insert
<1>6. SplicedTo(content[f], content'[f], sel[1], sel[2], Text(recording))
  BY <1>2, <1>4, <1>5, GetsPiece
<1>7. /\ content[f] \in Seq(Nat) /\ Len(content[f]) \in Nat
      /\ content'[f] \in Seq(Nat) /\ Len(content'[f]) \in Nat
      /\ Len(content'[f]) = Len(content[f]) + 1 - (sel[2] - sel[1])
      /\ content'[f][sel[1] + 1] = Text(recording)
  BY <1>2, <1>6, LenProperties DEF PageTypes, SplicedTo
<1>8. sel[1] + 1 \in 1 .. Len(content'[f])
  <2>1. /\ Len(content[f]) \in Nat
        /\ Len(content'[f]) = Len(content[f]) + 1 - (sel[2] - sel[1])
    BY <1>7
  <2>. QED  BY <2>1
<1>9. ASSUME NEW j \in DOMAIN content[f]  PROVE content[f][j] # Text(recording)
  BY <1>2, <1>3, <1>4 DEF Pieces
<1>10. ASSUME NEW i \in 1 .. Len(content'[f])
       PROVE  \/ i \in DOMAIN content[f] /\ i <= sel[1] /\ content'[f][i] = content[f][i]
              \/ i = sel[1] + 1 /\ content'[f][i] = Text(recording)
              \/ \E j \in DOMAIN content[f] :
                   j > sel[2] /\ i > sel[1] + 1 /\ content'[f][i] = content[f][j]
  <2>1. i \in DOMAIN content'[f]
    <3>1. content'[f] \in Seq(Nat)
      BY <1>7
    <3>. QED  BY <3>1, Places
  <2>. QED  BY <1>2, <1>4, <1>5, <2>1, GetsElements
<1>. DEFINE at == CHOOSE i \in 1 .. Len(content'[f]) : content'[f][i] = Text(recording)
<1>11. at = sel[1] + 1
  <2>1. at \in 1 .. Len(content'[f]) /\ content'[f][at] = Text(recording)
    BY <1>7, <1>8
  <2>. HIDE DEF at
  <2>. QED  BY <1>9, <1>10, <2>1
<1>. HIDE DEF at
<1>12. ASSUME ~away, f # "email", NEW i \in 1 .. Len(content'[f]),
              content'[f][i] \in since .. MaxTyped
       PROVE  i < at
  <2>1. content'[f][i] # Text(recording)
    BY <1>3, <1>4, <1>12
  <2>2. DOMAIN content[f] \subseteq Nat
    BY <1>2, Places DEF PageTypes
  <2>3. ~ \E j \in DOMAIN content[f] : j > sel[2] /\ content'[f][i] = content[f][j]
    BY <1>12, <2>2
  <2>4. i <= sel[1]
    BY <1>10, <2>1, <2>3
  <2>. QED  BY <1>11, <2>4
<1>13. ASSUME caret[f][1] = caret[f][2], ~away  PROVE Len(content'[f]) = Len(content[f]) + 1
  BY <1>7, <1>13
<1>. QED  BY <1>1, <1>12, <1>13 DEF Follows, at

(* The text goes in, and nothing is awaited of that recording any more.    *)
LEMMA InsertKeeps ==
  ASSUME DeliveryInv, FollowInv, phase \in Undelivered, NEW f \in Fields, NEW sel,
         Insert(f, sel),
         sel[1] \in Nat, sel[2] \in Nat, sel[1] <= sel[2], sel[2] <= Len(content[f]),
         focus' \in Fields \cup {None},
         selection' = (IF focus' \in Hosts THEN focus' ELSE None),
         UNCHANGED <<shape, session, recording, since, typed>>
  PROVE  FollowInv'
<1>1. PageTypes /\ Pieces
  BY DEF FollowInv
<1>2. recording \in Nat \ {0} /\ MaxTyped \in Nat
  BY DeliveryAssumption DEF DeliveryInv, Types, Undelivered
<1>3. Text(recording) \in Nat /\ Text(recording) > MaxTyped /\ Text(recording)' = Text(recording)
  BY <1>2 DEF Text
<1>4. Gets(f, sel, Text(recording))
  BY DEF Gets, Insert
<1>5. phase' = "clear"
  BY DEF Insert
<1>6. /\ \A g \in Fields \ {f} : content'[g] = content[g]
      /\ content' \in [Fields -> Seq(Nat)] /\ caret' \in [Fields -> Nat \X Nat]
      /\ \A g \in Fields : caret'[g][1] <= caret'[g][2] /\ caret'[g][2] <= Len(content'[g])
  BY <1>1, <1>3, <1>4, GetsPiece
<1>7. PageTypes'
  BY <1>1, <1>6 DEF PageTypes
<1>8. Pieces'
  <2>1. ASSUME NEW g \in Fields, NEW i \in DOMAIN content'[g]
        PROVE  content'[g][i] <= typed \/ content'[g][i] \in MaxTyped + 1 .. Text(recording)
    <3>1. \/ content'[g][i] = Text(recording)
          \/ \E j \in DOMAIN content[g] : content'[g][i] = content[g][j]
      <4>1. CASE g = f
        BY <1>1, <1>3, <1>4, <4>1, GetsElements
      <4>2. CASE g # f
        BY <1>6, <4>2
      <4>. QED  BY <4>1, <4>2
    <3>2. Text(recording) \in MaxTyped + 1 .. Text(recording)
      BY <1>2, <1>3
    <3>. QED  BY <1>1, <3>1, <3>2 DEF Pieces
  <2>. QED  BY <1>3, <1>5, <2>1 DEF Pieces, Undelivered
<1>9. TypedBefore'
  BY <1>5 DEF TypedBefore, Awaited, Undelivered
<1>. QED  BY <1>7, <1>8, <1>9 DEF FollowInv

(* The page refuses it, and nothing is awaited any more either.            *)
LEMMA SwallowKeeps ==
  ASSUME FollowInv, Swallow,
         focus' \in Fields \cup {None},
         selection' = (IF focus' \in Hosts THEN focus' ELSE None),
         UNCHANGED <<shape, session, recording, since, typed>>
  PROVE  FollowInv'
<1>1. phase' = "clear" /\ UNCHANGED <<content, caret>>
  BY DEF Swallow
<1>2. PageTypes'
  BY <1>1 DEF FollowInv, PageTypes
<1>3. Pieces' /\ TypedBefore'
  BY <1>1 DEF FollowInv, Pieces, TypedBefore, Awaited, Undelivered, Text
<1>. QED  BY <1>2, <1>3 DEF FollowInv

(* Where the text goes in.                                                 *)
QuillAt == <<caret["quill"][1], caret["quill"][1]>>

LEMMA QuillPlace ==
  ASSUME DeliveryInv, FollowInv, deliverToQuill
  PROVE  /\ QuillAt[1] \in Nat /\ QuillAt[2] \in Nat /\ QuillAt[1] <= QuillAt[2]
         /\ QuillAt[2] <= Len(content["quill"]) /\ QuillAt[1] = QuillAt[2]
         /\ ~away => \A j \in DOMAIN content["quill"] :
              content["quill"][j] \in since .. MaxTyped => j <= QuillAt[2]
<1>1. "quill" \in Fields /\ QuillAt[1] = caret["quill"][1] /\ QuillAt[2] = caret["quill"][1]
  BY DEF Fields, Hosts, QuillAt
<1>2. phase = "quill" /\ marked
  BY DEF deliverToQuill
<1>3. session.target = "quill" /\ session.doc = doc /\ phase \in Undelivered
  BY <1>2 DEF DeliveryInv, Note, Undelivered
<1>4. PageTypes
  BY DEF FollowInv
<1>5. /\ caret["quill"][1] \in Nat /\ caret["quill"][2] \in Nat /\ Len(content["quill"]) \in Nat
      /\ caret["quill"][1] <= caret["quill"][2] /\ caret["quill"][2] <= Len(content["quill"])
  BY <1>1, <1>4, CaretIsRange
<1>6. ~away => \A j \in DOMAIN content["quill"] :
        content["quill"][j] \in since .. MaxTyped => j <= caret["quill"][1]
  BY <1>3 DEF FollowInv, TypedBefore, Awaited
<1>. QED  BY <1>1, <1>5, <1>6

LEMMA ShiftsInOrder ==
  ASSUME NEW b \in Nat, NEW c \in Nat, b <= c, NEW sel,
         sel[1] \in Nat, sel[2] \in Nat, sel[1] <= sel[2]
  PROVE  Shifted(b, sel) \in Nat /\ Shifted(c, sel) \in Nat /\ Shifted(b, sel) <= Shifted(c, sel)
BY DEF Shifted

LEMMA TypeNotes ==
  ASSUME PageTypes, NoteTypes, Type
  PROVE  NoteTypes'
<1>1. focus \in Fields
  BY DEF Type
<1>2. CASE bridge' = bridge
  BY <1>2 DEF NoteTypes
<1>3. CASE bridge' = [bridge EXCEPT !.caret = [i \in 1 .. 2 |-> Shifted(@[i], caret[focus])]]
  <2>1. bridge'.target = bridge.target /\ DOMAIN bridge' = DOMAIN bridge
    BY <1>3 DEF NoteTypes
  <2>2. bridge'.caret = [i \in 1 .. 2 |-> Shifted(bridge.caret[i], caret[focus])]
    BY <1>3 DEF NoteTypes
  <2>3. /\ bridge'.caret[1] = Shifted(bridge.caret[1], caret[focus])
        /\ bridge'.caret[2] = Shifted(bridge.caret[2], caret[focus])
    BY <2>2
  <2>4. /\ caret[focus][1] \in Nat /\ caret[focus][2] \in Nat
        /\ caret[focus][1] <= caret[focus][2]
    BY <1>1, CaretIsRange
  <2>5. /\ Shifted(bridge.caret[1], caret[focus]) \in Nat
        /\ Shifted(bridge.caret[2], caret[focus]) \in Nat
        /\ Shifted(bridge.caret[1], caret[focus]) <= Shifted(bridge.caret[2], caret[focus])
    BY <2>4, ShiftsInOrder DEF NoteTypes
  <2>. QED  BY <2>1, <2>3, <2>5 DEF NoteTypes
<1>. QED  BY <1>2, <1>3 DEF Type

LEMMA StartNotes ==
  ASSUME PageTypes, NoteTypes, prepareDeliveryTarget
  PROVE  NoteTypes'
<1>1. CASE bridge' = bridge
  BY <1>1 DEF NoteTypes
<1>2. CASE focus \in TextControls \cup Hosts /\ bridge' = [target |-> focus, caret |-> CaretAtStart]
  <2>1. focus \in Fields
    BY <1>2 DEF Fields
  <2>2. /\ caret[focus][1] \in Nat /\ caret[focus][2] \in Nat /\ Len(content[focus]) \in Nat
        /\ caret[focus][1] <= caret[focus][2]
    BY <2>1, CaretIsRange
  <2>3. CaretAtStart[1] \in Nat /\ CaretAtStart[2] \in Nat /\ CaretAtStart[1] <= CaretAtStart[2]
    BY <2>2 DEF CaretAtStart
  <2>. QED  BY <1>2, <2>1, <2>3 DEF NoteTypes
<1>. QED  BY <1>1, <1>2 DEF prepareDeliveryTarget, updateTarget, Editable

LEMMA NextNotes ==
  ASSUME PageTypes, NoteTypes, Next
  PROVE  NoteTypes'
<1>1. CASE UNCHANGED bridge
  BY <1>1 DEF NoteTypes
<1>2. CASE Navigate
  <2>1. bridge' = [target |-> None, caret |-> <<0, 0>>]
    BY <1>2 DEF Navigate, NoTarget
  <2>. QED  BY <2>1 DEF NoteTypes
<1>3. CASE Deliver
  <2>1. CASE prepareDeliveryTarget
    BY <2>1, StartNotes
  <2>2. CASE ~prepareDeliveryTarget
    <3>1. UNCHANGED bridge
      BY <1>3, <2>2, Zenon DEF Deliver, deliverTranscript, NothingToDeliver, deliverToQuill,
           QuillFails, insertText, TargetUnavailable, clearDeliverySession
    <3>. QED  BY <1>1, <3>1
  <2>. QED  BY <2>1, <2>2
<1>4. CASE Type
  BY <1>4, TypeNotes
<1>5. CASE \/ \E f \in Fields \cup {None} : Focus(f)
           \/ \E s, e \in 0 .. MaxTyped + MaxRecordings : MoveCaret(s, e)
           \/ SwitchReads \/ SwitchWrites \/ \E f \in Fields : Lose(f)
  <2>1. UNCHANGED bridge
    BY <1>5 DEF Focus, MoveCaret, SwitchReads, SwitchWrites, Lose
  <2>. QED  BY <1>1, <2>1
<1>. QED  BY <1>2, <1>3, <1>4, <1>5 DEF Next

LEMMA NotePlace ==
  ASSUME DeliveryInv, FollowInv, NoteTypes, insertText, NEW f, f = bridge.target, NEW sel,
         sel = CaretNow(f)
  PROVE  /\ f \in Fields
         /\ sel[1] \in Nat /\ sel[2] \in Nat /\ sel[1] <= sel[2] /\ sel[2] <= Len(content[f])
         /\ ~away /\ f # "email" =>
              \A j \in DOMAIN content[f] : content[f][j] \in since .. MaxTyped => j <= sel[2]
         /\ ~away /\ caret[f][1] = caret[f][2] => sel[1] = sel[2]
<1>1. f \in Fields /\ shape[f] = "open" /\ session.doc = doc /\ phase = "message"
  BY DEF NoteTypes, insertText, Takes, Reaches
<1>2. f = session.target /\ phase \in Undelivered
  BY <1>1 DEF DeliveryInv, Note, Undelivered
<1>3. PageTypes
  BY DEF FollowInv
<1>4. session.target \in TextControls \cup Hosts
  <2>1. session # NoSession
    BY <1>1 DEF DeliveryInv, Types, NoSession
  <2>. QED  BY <1>3, <2>1 DEF PageTypes
<1>5. /\ caret[f][1] \in Nat /\ caret[f][2] \in Nat /\ Len(content[f]) \in Nat
      /\ caret[f][1] <= caret[f][2] /\ caret[f][2] <= Len(content[f]) /\ content[f] \in Seq(Nat)
  BY <1>1, <1>3, CaretIsRange
<1>6. ~away => /\ f # "email" =>
                    \A j \in DOMAIN content[f] : content[f][j] \in since .. MaxTyped => j <= caret[f][1]
               /\ f \in Hosts => selection = f
               /\ f = "email" => bridge.caret[1] = bridge.caret[2]
  BY <1>1, <1>2 DEF FollowInv, TypedBefore, Awaited
<1>7. CASE f = "text" \/ selection = f
  <2>1. sel = caret[f] /\ f # "email"
    BY <1>3, <1>7 DEF CaretNow, PageTypes, Hosts, None
  <2>2. DOMAIN content[f] \subseteq Nat
    BY <1>1, <1>3, Places DEF PageTypes
  <2>. QED  BY <1>1, <1>5, <1>6, <2>1, <2>2, SMTT(30)
<1>8. CASE ~(f = "text" \/ selection = f)
  <2>1. sel = <<Within(bridge.caret[1], f), Within(bridge.caret[2], f)>>
    BY <1>8 DEF CaretNow, CaretSavedAtStart
  <2>2. sel[1] \in Nat /\ sel[2] \in Nat /\ sel[1] <= sel[2] /\ sel[2] <= Len(content[f])
    BY <1>5, <2>1 DEF Within, NoteTypes
  <2>3. ~away => f = "email"
    BY <1>2, <1>4, <1>6, <1>8 DEF TextControls
  <2>4. ~away => sel[1] = sel[2]
    BY <1>6, <2>1, <2>3
  <2>. QED  BY <1>1, <2>2, <2>3, <2>4
<1>. QED  BY <1>7, <1>8

LEMMA DeliverFollows ==
  ASSUME DeliveryInv, FollowInv, NoteTypes, Deliver
  PROVE  FollowInv'
<1>. USE DEF Undelivered
<1>1. CASE prepareDeliveryTarget
  BY <1>1, StartFollows
<1>2. CASE deliverTranscript \/ NothingToDeliver \/ QuillFails \/ TargetUnavailable
           \/ clearDeliverySession
  <2>1. /\ UNCHANGED <<doc, content, caret, shape, focus, selection, bridge, since, away,
                       recording, typed>>
        /\ phase' \in Undelivered => phase \in Undelivered /\ session' = session
        /\ session' = session \/ session' = NoSession
    BY <1>2, Zenon DEF deliverTranscript, NothingToDeliver, QuillFails, TargetUnavailable,
         clearDeliverySession, page, history, bounds
  <2>. QED  BY <2>1, WorkerFollows
<1>3. CASE deliverToQuill
  <2>1. "quill" \in Fields /\ "quill" \in Hosts
    BY DEF Fields, Hosts
  <2>2. /\ Insert("quill", QuillAt) \/ Swallow
        /\ focus' = "quill" /\ selection' = "quill"
        /\ UNCHANGED <<shape, session, recording, since, typed>> /\ phase \in Undelivered
    BY <1>3 DEF deliverToQuill, QuillAt, history, bounds
  <2>. QED  BY <1>3, <2>1, <2>2, QuillPlace, InsertKeeps, SwallowKeeps
<1>4. CASE insertText
  <2>1. /\ Insert(bridge.target, CaretNow(bridge.target)) \/ Swallow
        /\ focus' = (IF bridge.target \in Hosts THEN bridge.target ELSE focus)
        /\ selection' = (IF bridge.target \in Hosts THEN bridge.target ELSE selection)
        /\ UNCHANGED <<shape, session, recording, since, typed>> /\ phase \in Undelivered
    BY <1>4 DEF insertText, history, bounds
  <2>2. /\ focus' \in Fields \cup {None}
        /\ selection' = (IF focus' \in Hosts THEN focus' ELSE None)
    BY <2>1 DEF NoteTypes, FollowInv, PageTypes
  <2>. QED  BY <1>4, <2>1, <2>2, NotePlace, InsertKeeps, SwallowKeeps
<1>. QED  BY <1>1, <1>2, <1>3, <1>4 DEF Deliver

LEMMA FollowNextInv ==
  ASSUME DeliveryInv, FollowInv, NoteTypes, Next
  PROVE  FollowInv'
<1>1. ASSUME NEW s \in 0 .. MaxTyped + MaxRecordings, NEW e \in 0 .. MaxTyped + MaxRecordings,
             MoveCaret(s, e)
      PROVE  FollowInv'
  <2>1. s \in Nat /\ e \in Nat
    BY DeliveryAssumption
  <2>. QED  BY <1>1, <2>1, MoveCaretFollows
<1>2. CASE SwitchReads \/ SwitchWrites
  <2>1. UNCHANGED <<doc, content, caret, shape, focus, selection, bridge, since, away,
                    recording, typed, phase, session>>
    BY <1>2 DEF SwitchReads, SwitchWrites, page, worker, history, bounds
  <2>. QED  BY <2>1, WorkerFollows
<1>. QED
  BY <1>1, <1>2, FocusFollows, TypeFollows, NavigateFollows, LoseFollows, DeliverFollows DEF Next

(* A step that lands something is one of the two that insert.              *)
LEMMA StepFollows ==
  ASSUME DeliveryInv, FollowInv, NoteTypes, Next, NEW l \in landed' \ landed
  PROVE  Follows(l)
<1>1. deliverToQuill \/ insertText
  BY Zenon DEF Next, Deliver, Focus, MoveCaret, Type, Navigate, SwitchReads, SwitchWrites, Lose,
     prepareDeliveryTarget, deliverTranscript, NothingToDeliver, QuillFails, TargetUnavailable,
     clearDeliverySession, worker
<1>2. CASE deliverToQuill
  <2>1. "quill" \in Fields /\ Insert("quill", QuillAt) /\ phase \in Undelivered
    BY <1>2 DEF deliverToQuill, QuillAt, Swallow, Undelivered, Fields, Hosts
  <2>. QED  BY <1>2, <2>1, QuillPlace, InsertFollows
<1>3. CASE insertText
  <2>1. Insert(bridge.target, CaretNow(bridge.target)) /\ phase \in Undelivered
    BY <1>3 DEF insertText, Swallow, Undelivered
  <2>. QED  BY <1>3, <2>1, NotePlace, InsertFollows
<1>. QED  BY <1>1, <1>2, <1>3

---------------------------------------------------------------------------
(* The session machine.  The newest session is the only one that is active *)
(* or that can still be delivered: whatever was delivered is done, and not *)
(* newer than it.                                                          *)

SessionStages == {"none", "active", "stopping", "done", "failed"}

SessionOrder ==
  /\ sequence \in 0 .. MaxSessions /\ latestSessionId = sequence
  /\ activeSessionId \in {Machine!None, latestSessionId}
  /\ progress \in [Machine!Sessions -> SessionStages]
  /\ \A s \in Machine!Sessions :
       /\ progress[s] = "none" <=> s > sequence
       /\ progress[s] = "active" <=> s = activeSessionId

Deliveries ==
  /\ delivered \in Seq(Machine!Sessions)
  /\ \A i \in DOMAIN delivered : delivered[i] <= sequence

MachineInv == SessionOrder /\ Deliveries /\ Machine!MachineFollowsLatest


LEMMA MachineInitInv ==
  ASSUME Machine!Init
  PROVE  MachineInv
<1>1. SessionOrder
  BY PartsAssumption DEF Machine!Init, SessionOrder, SessionStages, Machine!None, Machine!Sessions
<1>2. delivered = <<>>
  BY DEF Machine!Init
<1>3. Deliveries
  BY <1>2 DEF Deliveries
<1>4. Machine!DeliveredInTurn
  <2>1. \A s \in Machine!Sessions : progress[s] # "done"
    BY DEF Machine!Init
  <2>. QED  BY <1>2, <2>1 DEF Machine!DeliveredInTurn
<1>5. Machine!ShowsLatest
  BY DEF Machine!Init, Machine!ShowsLatest
<1>. QED  BY <1>1, <1>3, <1>4, <1>5 DEF MachineInv, Machine!MachineFollowsLatest

(* A step that delivers nothing keeps what was delivered in turn, if every *)
(* session that was done still is and no other one that is the newest.     *)
LEMMA NothingDelivered ==
  ASSUME MachineInv, UNCHANGED delivered, sequence <= sequence', sequence' \in Nat,
         \A s \in Machine!Sessions : s <= sequence /\ progress[s] = "done" => progress'[s] = "done",
         \A s \in Machine!Sessions :
           progress'[s] = "done" /\ s = latestSessionId'
                => progress[s] = "done" /\ s = latestSessionId
  PROVE  Deliveries' /\ Machine!DeliveredInTurn'
<1>0. /\ delivered \in Seq(Machine!Sessions)
      /\ \A i \in DOMAIN delivered : delivered[i] \in Machine!Sessions /\ delivered[i] <= sequence
  BY DEF MachineInv, Deliveries
<1>1. sequence \in Nat /\ \A s \in Machine!Sessions : s \in Nat
  BY DEF MachineInv, SessionOrder, Machine!Sessions
<1>2. Deliveries'
  BY <1>0, <1>1 DEF Deliveries, Machine!Sessions
<1>3. Machine!DeliveredInTurn
  BY DEF MachineInv, Machine!MachineFollowsLatest
<1>4. \A i \in DOMAIN delivered : progress'[delivered[i]] = "done"
  BY <1>0, <1>3 DEF Machine!DeliveredInTurn
<1>5. Machine!DeliveredInTurn'
  BY <1>3, <1>4 DEF Machine!DeliveredInTurn, Machine!Sessions
<1>. QED  BY <1>2, <1>5

LEMMA MachineStarts ==
  ASSUME MachineInv, Machine!start
  PROVE  MachineInv'
<1>0. /\ activeSessionId = 0 /\ sequence < MaxSessions
      /\ sequence' = sequence + 1 /\ activeSessionId' = sequence' /\ latestSessionId' = sequence'
      /\ state' = "recording" /\ progress' = [progress EXCEPT ![sequence'] = "active"]
      /\ delivered' = delivered
  BY DEF Machine!start, Machine!None
<1>1. SessionOrder
  BY DEF MachineInv
<1>2. sequence' \in Machine!Sessions /\ progress[sequence'] = "none"
  BY <1>0, <1>1, PartsAssumption DEF SessionOrder, Machine!Sessions
<1>3. SessionOrder'
  <2>1. progress' \in [Machine!Sessions -> SessionStages]
    BY <1>0, <1>1 DEF SessionOrder, SessionStages
  <2>2. \A s \in Machine!Sessions : progress'[s] = IF s = sequence' THEN "active" ELSE progress[s]
    BY <1>0, <1>1, <1>2 DEF SessionOrder
  <2>3. \A s \in Machine!Sessions : /\ progress'[s] = "none" <=> s > sequence'
                                    /\ progress'[s] = "active" <=> s = activeSessionId'
    BY <1>0, <1>1, <2>2 DEF SessionOrder, Machine!Sessions
  <2>. QED  BY <1>0, <1>2, <2>1, <2>3 DEF SessionOrder, Machine!Sessions
<1>4. Deliveries' /\ Machine!DeliveredInTurn'
  <2>1. progress'[sequence'] = "active"
    BY <1>0, <1>1, <1>2 DEF SessionOrder
  <2>2. \A s \in Machine!Sessions : s <= sequence => progress'[s] = progress[s]
    BY <1>0, <1>1 DEF SessionOrder, Machine!Sessions
  <2>3. sequence <= sequence' /\ sequence' \in Nat
    BY <1>0, <1>1 DEF SessionOrder
  <2>. QED  BY <1>0, <2>1, <2>2, <2>3, NothingDelivered
<1>5. Machine!ShowsLatest'
  BY <1>0, <1>1, <1>2 DEF SessionOrder, Machine!ShowsLatest
<1>. QED  BY <1>3, <1>4, <1>5 DEF MachineInv, Machine!MachineFollowsLatest

LEMMA MachineStops ==
  ASSUME MachineInv, Machine!stop
  PROVE  MachineInv'
<1>0. /\ activeSessionId # 0 /\ progress' = [progress EXCEPT ![activeSessionId] = "stopping"]
      /\ activeSessionId' = 0 /\ state' = "processing"
      /\ UNCHANGED <<latestSessionId, sequence, delivered>>
  BY DEF Machine!stop, Machine!None, Machine!counters
<1>1. SessionOrder
  BY DEF MachineInv
<1>2. activeSessionId \in Machine!Sessions /\ activeSessionId = sequence
    /\ latestSessionId = sequence
  BY <1>0, <1>1 DEF SessionOrder, Machine!Sessions, Machine!None
<1>3. \A s \in Machine!Sessions :
        progress'[s] = IF s = activeSessionId THEN "stopping" ELSE progress[s]
  BY <1>0, <1>1 DEF SessionOrder
<1>4. SessionOrder'
  <2>1. progress' \in [Machine!Sessions -> SessionStages]
    BY <1>0, <1>1 DEF SessionOrder, SessionStages
  <2>2. \A s \in Machine!Sessions : /\ progress'[s] = "none" <=> s > sequence'
                                    /\ progress'[s] = "active" <=> s = activeSessionId'
    BY <1>0, <1>1, <1>2, <1>3 DEF SessionOrder, Machine!Sessions
  <2>. QED  BY <1>0, <1>1, <2>1, <2>2 DEF SessionOrder, Machine!None
<1>5. Deliveries' /\ Machine!DeliveredInTurn'
  <2>1. progress[activeSessionId] = "active"
    BY <1>1, <1>2 DEF SessionOrder
  <2>2. sequence <= sequence' /\ sequence' \in Nat
    BY <1>0, <1>1 DEF SessionOrder
  <2>. QED  BY <1>0, <1>2, <1>3, <2>1, <2>2, NothingDelivered
<1>6. Machine!ShowsLatest'
  BY <1>0, <1>2, <1>3 DEF Machine!ShowsLatest
<1>. QED  BY <1>4, <1>5, <1>6 DEF MachineInv, Machine!MachineFollowsLatest

(* The session that stops is no active one, and the newest one is current. *)
LEMMA StoppingIs ==
  ASSUME MachineInv, NEW s \in Machine!Sessions, progress[s] = "stopping"
  PROVE  /\ s <= sequence /\ s # activeSessionId
         /\ Machine!Current(s) <=> s = latestSessionId
         /\ s < sequence \/ s = latestSessionId
<1>1. SessionOrder
  BY DEF MachineInv
<1>2. s <= sequence /\ s # activeSessionId
  BY <1>1 DEF SessionOrder, Machine!Sessions
<1>. QED  BY <1>1, <1>2 DEF SessionOrder, Machine!Sessions, Machine!Current, Machine!None

(* One that stops is over: the order of the others stays.                  *)
LEMMA StageEnds ==
  ASSUME MachineInv, NEW s \in Machine!Sessions, progress[s] = "stopping",
         NEW e \in {"done", "failed"}, progress' = [progress EXCEPT ![s] = e],
         UNCHANGED <<activeSessionId, latestSessionId, sequence>>
  PROVE  /\ SessionOrder'
         /\ \A q \in Machine!Sessions : progress'[q] = IF q = s THEN e ELSE progress[q]
<1>1. SessionOrder
  BY DEF MachineInv
<1>2. \A q \in Machine!Sessions : progress'[q] = IF q = s THEN e ELSE progress[q]
  BY <1>1 DEF SessionOrder
<1>3. progress' \in [Machine!Sessions -> SessionStages]
  BY <1>1 DEF SessionOrder, SessionStages
<1>4. s <= sequence /\ s # activeSessionId
  BY StoppingIs
<1>5. \A q \in Machine!Sessions : /\ progress'[q] = "none" <=> q > sequence'
                                  /\ progress'[q] = "active" <=> q = activeSessionId'
  BY <1>1, <1>2, <1>4 DEF SessionOrder, Machine!Sessions
<1>. QED  BY <1>1, <1>2, <1>3, <1>5 DEF SessionOrder

LEMMA MachineDelivers ==
  ASSUME MachineInv, NEW s \in Machine!Sessions, Machine!StopFinishes(s)
  PROVE  MachineInv'
<1>0. /\ progress[s] = "stopping" /\ progress' = [progress EXCEPT ![s] = "done"]
      /\ IF Machine!Current(s) THEN delivered' = Append(delivered, s) /\ state' = "success"
                               ELSE UNCHANGED <<delivered, state>>
      /\ UNCHANGED <<activeSessionId, latestSessionId, sequence>>
  BY DEF Machine!StopFinishes, Machine!counters
<1>1. SessionOrder /\ sequence \in Nat /\ latestSessionId = sequence
  BY DEF MachineInv, SessionOrder
<1>2. SessionOrder' /\ \A q \in Machine!Sessions : progress'[q] =
        IF q = s THEN "done" ELSE progress[q]
  <2>. DEFINE e == "done"
  <2>1. e \in {"done", "failed"} /\ progress' = [progress EXCEPT ![s] = e]
    BY <1>0
  <2>. HIDE DEF e
  <2>2. SessionOrder' /\ \A q \in Machine!Sessions : progress'[q] = IF q = s THEN e ELSE progress[q]
    BY <1>0, <2>1, StageEnds
  <2>. QED  BY <2>2 DEF e
<1>3. s <= sequence /\ (Machine!Current(s) <=> s = latestSessionId)
  BY <1>0, StoppingIs
<1>4. CASE s # latestSessionId
  <2>1. UNCHANGED <<delivered, state>>
    BY <1>0, <1>3, <1>4
  <2>2. Deliveries' /\ Machine!DeliveredInTurn'
    BY <1>0, <1>1, <1>2, <1>4, <2>1, NothingDelivered
  <2>3. Machine!ShowsLatest'
    <3>1. Machine!ShowsLatest
      BY DEF MachineInv, Machine!MachineFollowsLatest
    <3>2. latestSessionId # 0 => latestSessionId \in Machine!Sessions
      BY <1>1 DEF SessionOrder, Machine!Sessions
    <3>3. latestSessionId # 0 => progress'[latestSessionId] = progress[latestSessionId]
      BY <1>2, <1>4, <3>2
    <3>. QED  BY <1>0, <2>1, <3>1, <3>3 DEF Machine!ShowsLatest, Machine!None
  <2>. QED  BY <1>2, <2>2, <2>3 DEF MachineInv, Machine!MachineFollowsLatest
<1>5. CASE s = latestSessionId
  <2>1. delivered' = Append(delivered, s) /\ state' = "success"
    BY <1>0, <1>3, <1>5
  <2>2. /\ delivered \in Seq(Machine!Sessions) /\ Machine!DeliveredInTurn
        /\ \A i \in DOMAIN delivered : delivered[i] <= sequence /\ delivered[i] \in Machine!Sessions
    BY DEF MachineInv, Deliveries, Machine!MachineFollowsLatest
  <2>3. \A i \in DOMAIN delivered : delivered[i] < s /\ progress'[delivered[i]] = "done"
    <3>1. \A i \in DOMAIN delivered : progress[delivered[i]] = "done"
      BY <2>2 DEF Machine!DeliveredInTurn
    <3>2. \A i \in DOMAIN delivered : delivered[i] # s
      BY <1>0, <3>1
    <3>. QED  BY <1>1, <1>2, <1>5, <2>2, <3>1, <3>2 DEF Machine!Sessions
  <2>4. /\ delivered' \in Seq(Machine!Sessions)
        /\ DOMAIN delivered = 1 .. Len(delivered) /\ Len(delivered) \in Nat
        /\ DOMAIN delivered' = 1 .. Len(delivered) + 1
        /\ \A i \in DOMAIN delivered' : delivered'[i] =
             IF i = Len(delivered) + 1 THEN s ELSE delivered[i]
    BY <2>1, <2>2
  <2>5. Deliveries'
    <3>1. \A i \in DOMAIN delivered' : delivered'[i] <= sequence
      BY <1>3, <2>2, <2>4
    <3>. QED  BY <1>0, <2>4, <3>1 DEF Deliveries, Machine!Sessions
  <2>6. Machine!DeliveredInTurn'
    <3>1. \A i, j \in DOMAIN delivered' : i < j => delivered'[i] < delivered'[j]
      <4>. SUFFICES ASSUME NEW i \in DOMAIN delivered', NEW j \in DOMAIN delivered', i < j
                    PROVE  delivered'[i] < delivered'[j]
        OBVIOUS
      <4>1. i \in DOMAIN delivered /\ delivered'[i] = delivered[i]
        BY <2>4
      <4>2. CASE j = Len(delivered) + 1
        BY <2>3, <2>4, <4>1, <4>2
      <4>3. CASE j # Len(delivered) + 1
        <5>1. j \in DOMAIN delivered /\ delivered'[j] = delivered[j]
          BY <2>4, <4>3
        <5>. QED  BY <2>2, <4>1, <5>1 DEF Machine!DeliveredInTurn
      <4>. QED  BY <4>2, <4>3
    <3>2. \A i \in DOMAIN delivered' : progress'[delivered'[i]] = "done"
      BY <1>2, <2>3, <2>4
    <3>3. delivered'[Len(delivered) + 1] = s /\ Len(delivered) + 1 \in DOMAIN delivered'
      BY <2>4
    <3>. QED  BY <1>0, <1>5, <3>1, <3>2, <3>3 DEF Machine!DeliveredInTurn, Machine!Sessions
  <2>7. Machine!ShowsLatest'
    BY <1>0, <1>2, <1>5, <2>1 DEF Machine!ShowsLatest
  <2>. QED  BY <1>2, <2>5, <2>6, <2>7 DEF MachineInv, Machine!MachineFollowsLatest
<1>. QED  BY <1>4, <1>5

LEMMA MachineFails ==
  ASSUME MachineInv, NEW s \in Machine!Sessions, Machine!StopFails(s)
  PROVE  MachineInv'
<1>0. /\ progress[s] = "stopping" /\ progress' = [progress EXCEPT ![s] = "failed"]
      /\ state' = IF Machine!Current(s) THEN "error" ELSE state
      /\ UNCHANGED <<activeSessionId, latestSessionId, sequence, delivered>>
  BY DEF Machine!StopFails, Machine!counters
<1>1. SessionOrder /\ sequence \in Nat /\ latestSessionId = sequence
  BY DEF MachineInv, SessionOrder
<1>2. SessionOrder' /\ \A q \in Machine!Sessions : progress'[q] =
        IF q = s THEN "failed" ELSE progress[q]
  <2>. DEFINE e == "failed"
  <2>1. e \in {"done", "failed"} /\ progress' = [progress EXCEPT ![s] = e]
    BY <1>0
  <2>. HIDE DEF e
  <2>2. SessionOrder' /\ \A q \in Machine!Sessions : progress'[q] = IF q = s THEN e ELSE progress[q]
    BY <1>0, <2>1, StageEnds
  <2>. QED  BY <2>2 DEF e
<1>3. Machine!Current(s) <=> s = latestSessionId
  BY <1>0, StoppingIs
<1>4. Deliveries' /\ Machine!DeliveredInTurn'
  BY <1>0, <1>1, <1>2, NothingDelivered
<1>5. Machine!ShowsLatest'
  <2>1. Machine!ShowsLatest
    BY DEF MachineInv, Machine!MachineFollowsLatest
  <2>2. latestSessionId # 0 => latestSessionId \in Machine!Sessions
    BY <1>1 DEF SessionOrder, Machine!Sessions
  <2>3. CASE s = latestSessionId
    BY <1>0, <1>2, <1>3, <2>3 DEF Machine!ShowsLatest
  <2>4. CASE s # latestSessionId
    <3>1. latestSessionId # 0 => progress'[latestSessionId] = progress[latestSessionId]
      BY <1>2, <2>2, <2>4
    <3>. QED  BY <1>0, <1>3, <2>1, <2>4, <3>1 DEF Machine!ShowsLatest, Machine!None
  <2>. QED  BY <2>3, <2>4
<1>. QED  BY <1>2, <1>4, <1>5 DEF MachineInv, Machine!MachineFollowsLatest

LEMMA MachineKept ==
  ASSUME MachineInv,
         UNCHANGED <<activeSessionId, latestSessionId, sequence, state, progress, delivered>>
  PROVE  MachineInv'
<1>1. SessionOrder' /\ Deliveries'
  BY DEF MachineInv, SessionOrder, Deliveries, Machine!Sessions
<1>2. Machine!ShowsLatest' /\ Machine!DeliveredInTurn'
  BY DEF MachineInv, Machine!MachineFollowsLatest, Machine!ShowsLatest,
         Machine!DeliveredInTurn, Machine!Sessions
<1>. QED  BY <1>1, <1>2 DEF MachineInv, Machine!MachineFollowsLatest

LEMMA MachineNextInv ==
  ASSUME MachineInv, Machine!Next
  PROVE  MachineInv'
<1>1. CASE Machine!start \/ Machine!stop
  BY <1>1, MachineStarts, MachineStops
<1>2. ASSUME NEW s \in Machine!Sessions, Machine!FinalizeSettles(s) \/ Machine!AudioStops(s)
      PROVE  MachineInv'
  BY <1>2, MachineKept DEF Machine!FinalizeSettles, Machine!AudioStops, Machine!counters
<1>3. ASSUME NEW s \in Machine!Sessions, Machine!StopFinishes(s) \/ Machine!StopFails(s)
      PROVE  MachineInv'
  BY <1>3, MachineDelivers, MachineFails
<1>4. ASSUME NEW task \in background, Machine!TaskSettles(task)
      PROVE  MachineInv'
  BY <1>4, MachineKept DEF Machine!TaskSettles, Machine!counters
<1>. QED  BY <1>1, <1>2, <1>3, <1>4 DEF Machine!Next

---------------------------------------------------------------------------
(* The proxy client.  A complete pair in the store is the newest one and   *)
(* was never presented with an answer; a logout that no refresh overtook   *)
(* leaves no refresh with a pair behind.                                   *)

Pairs == {Client!Nothing, Client!Partial} \cup 1 .. issued

Store ==
  /\ issued \in Nat /\ tokens \in {Client!Nothing, Client!Partial, issued}
  /\ spent \subseteq 1 .. issued /\ tokens \notin spent

Task ==
  \/ refreshTask = Client!NoTask
  \/ /\ refreshTask \in [phase : {"read", "sent"}, pair : Pairs]
     /\ refreshTask.pair \notin spent
     /\ refreshTask.phase = "sent" => refreshTask.pair > 0

LogoutInv ==
  /\ logout \in {"waited", "read"} /\ ~overtaken => refreshTask = Client!NoTask
  /\ logout = "over" /\ ~overtaken =>
       /\ tokens = Client!Nothing
       /\ \/ refreshTask = Client!NoTask
          \/ refreshTask.phase = "read" /\ refreshTask.pair = Client!Nothing

(* A pair that is not complete is only found by calls that go no further.  *)
Early == {"new", "session", "unauthenticated"}

Once(c, t) == Len(attempts[c]) <= 1 /\ (Len(attempts[c]) = 1 => attempts[c][1] = t)

Call(c) ==
  /\ read[c] \in Pairs
  /\ tokens = Client!Partial => call[c] \in Early /\ read[c] \in {Client!Nothing, Client!Partial}
  /\ read[c] = Client!Partial => call[c] \in Early
  /\ call[c] \in {"new", "session"} => Len(attempts[c]) = 0
  /\ call[c] \in {"compare", "refreshing", "refreshed"} =>
       held[c] \in 1 .. issued /\ Once(c, held[c])
  /\ call[c] = "compare" => read[c] = Client!Nothing \/ read[c] >= held[c]
  /\ call[c] = "refreshed" => read[c] > held[c]
  /\ call[c] = "sent" => Len(attempts[c]) # 0
  /\ attempts[c] \in Seq(1 .. issued)

Retried(c) ==
  Len(attempts[c]) <= 2 /\ (Len(attempts[c]) = 2 => attempts[c][1] < attempts[c][2])

ClientFields ==
  /\ DOMAIN call = Calls /\ DOMAIN read = Calls
  /\ DOMAIN held = Calls /\ DOMAIN attempts = Calls

ClientInv ==
  /\ ClientFields /\ Store /\ Task /\ LogoutInv
  /\ \A c \in Calls : Call(c) /\ Retried(c)

LEMMA KeptTogether == ClientInv => Client!TokensKeptTogether
<1> SUFFICES ASSUME ClientInv  PROVE Client!TokensKeptTogether
  OBVIOUS
<1>1. Client!RefreshJoined
  BY DEF ClientInv, Task, Client!RefreshJoined, Client!NoTask
<1>2. Client!RetriesNewer
  BY DEF ClientInv, Retried, Client!RetriesNewer
<1>3. Client!LoggedOut
  BY DEF ClientInv, LogoutInv, Client!LoggedOut
<1>. QED  BY <1>1, <1>2, <1>3 DEF Client!TokensKeptTogether

LEMMA ClientInitInv ==
  ASSUME Client!Init
  PROVE  ClientInv
<1>0. /\ tokens \in {Client!Nothing, Client!Partial, 1} /\ issued = 1 /\ spent = {}
      /\ refreshTask = Client!NoTask /\ logout = "none" /\ overtaken = FALSE
      /\ call = [c \in Calls |-> "new"] /\ read = [c \in Calls |-> Client!Nothing]
      /\ held = [c \in Calls |-> Client!Nothing] /\ attempts = [c \in Calls |-> <<>>]
  BY DEF Client!Init
<1>1. ClientFields /\ Store /\ Task /\ LogoutInv
  BY <1>0 DEF ClientFields, Store, Task, LogoutInv
<1>2. \A c \in Calls : Call(c)
  <2>1. <<>> \in Seq(1 .. issued)
    OBVIOUS
  <2>. QED  BY <1>0, <2>1 DEF Call, Once, Pairs, Early, Client!Nothing, Client!Partial
<1>3. \A c \in Calls : Retried(c)
  BY <1>0 DEF Retried
<1>. QED  BY <1>1, <1>2, <1>3 DEF ClientInv

---------------------------------------------------------------------------
(* One call moves on: the others, and what all share, stay.                *)

LEMMA CallMoves ==
  ASSUME ClientInv, NEW c \in Calls, ClientFields',
         issued' = issued, tokens' \in {tokens, Client!Nothing},
         \A x \in Calls \ {c} : /\ call'[x] = call[x] /\ read'[x] = read[x]
                                 /\ held'[x] = held[x] /\ attempts'[x] = attempts[x],
         Call(c)', Retried(c)'
  PROVE  \A x \in Calls : Call(x)' /\ Retried(x)'
<1>1. \A x \in Calls \ {c} : Call(x)'
  <2>. SUFFICES ASSUME NEW x \in Calls \ {c}  PROVE Call(x)'
    OBVIOUS
  <2>1. Call(x)
    BY DEF ClientInv
  <2>2. tokens' = Client!Partial => tokens = Client!Partial
    BY DEF Client!Nothing, Client!Partial
  <2>. QED  BY <2>1, <2>2 DEF Call, Pairs, Once
<1>2. \A x \in Calls \ {c} : Retried(x)'
  BY DEF ClientInv, Retried
<1>. QED  BY <1>1, <1>2

LEMMA SharedKept ==
  ASSUME ClientInv, ClientFields', UNCHANGED <<issued, refreshTask, spent, logout, overtaken>>,
         tokens' \in {tokens, Client!Nothing}
  PROVE  Store' /\ Task' /\ LogoutInv'
<1>1. Store'
  BY DEF ClientInv, Store, Client!Nothing
<1>2. Task'
  BY DEF ClientInv, Task, Pairs
<1>3. LogoutInv'
  BY DEF ClientInv, LogoutInv
<1>. QED  BY <1>1, <1>2, <1>3

LEMMA OneCallMoves ==
  ASSUME ClientInv, NEW c \in Calls, ClientFields',
         UNCHANGED <<issued, refreshTask, spent, logout, overtaken>>,
         tokens' \in {tokens, Client!Nothing},
         \A x \in Calls \ {c} : /\ call'[x] = call[x] /\ read'[x] = read[x]
                                 /\ held'[x] = held[x] /\ attempts'[x] = attempts[x],
         Call(c)', Retried(c)'
  PROVE  ClientInv'
<1>1. \A x \in Calls : Call(x)' /\ Retried(x)'
  BY CallMoves
<1>2. Store' /\ Task' /\ LogoutInv'
  BY SharedKept
<1>. QED  BY <1>1, <1>2 DEF ClientInv

LEMMA BeginInv ==
  ASSUME ClientInv, NEW c \in Calls, Client!Begin(c)
  PROVE  ClientInv'
<1>0. /\ call[c] = "new" /\ call' = [call EXCEPT ![c] = "session"]
      /\ read' = [read EXCEPT ![c] = tokens]
      /\ UNCHANGED <<tokens, issued, refreshTask, spent, held, attempts, logout, overtaken>>
  BY DEF Client!Begin, Client!Goes, Client!Reads
<1>1. ClientFields'
  BY <1>0 DEF ClientInv, ClientFields
<1>2. call'[c] = "session" /\ read'[c] = tokens
  BY <1>0 DEF ClientInv, ClientFields
<1>3. Call(c)'
  <2>1. Call(c) /\ tokens \in Pairs
    BY DEF ClientInv, Store, Pairs, Client!Nothing, Client!Partial
  <2>. QED  BY <1>0, <1>2, <2>1 DEF Call, Once, Pairs, Early, Client!Nothing, Client!Partial
<1>4. Retried(c)'
  BY <1>0 DEF ClientInv, Retried
<1>. QED  BY <1>0, <1>1, <1>3, <1>4, OneCallMoves

(* A call goes out with a pair, for the first or the second time.          *)
LEMMA SendInv ==
  ASSUME ClientInv, NEW c \in Calls, NEW t \in 1 .. issued,
         call' = [call EXCEPT ![c] = "sent"],
         attempts' = [attempts EXCEPT ![c] = Append(@, t)],
         Len(attempts[c]) <= 1, Len(attempts[c]) = 1 => attempts[c][1] < t,
         read[c] # Client!Partial, tokens # Client!Partial,
         UNCHANGED <<tokens, issued, refreshTask, spent, read, held, logout, overtaken>>
  PROVE  ClientInv'
<1>1. ClientFields'
  BY DEF ClientInv, ClientFields
<1>2. call'[c] = "sent" /\ attempts'[c] = Append(attempts[c], t)
  BY DEF ClientInv, ClientFields
<1>3. Call(c)
  BY DEF ClientInv
<1>4. /\ attempts'[c] \in Seq(1 .. issued) /\ Len(attempts'[c]) = Len(attempts[c]) + 1
      /\ Len(attempts[c]) \in Nat
      /\ \A i \in 1 .. Len(attempts[c]) : attempts'[c][i] = attempts[c][i]
      /\ attempts'[c][Len(attempts[c]) + 1] = t
  <2>. DEFINE q == attempts[c]
  <2>1. q \in Seq(1 .. issued) /\ attempts'[c] = Append(q, t)
    BY <1>2, <1>3 DEF Call
  <2>. HIDE DEF q
  <2>2. /\ Append(q, t) \in Seq(1 .. issued) /\ Len(Append(q, t)) = Len(q) + 1
        /\ Len(q) \in Nat /\ Append(q, t)[Len(q) + 1] = t
        /\ \A i \in 1 .. Len(q) : Append(q, t)[i] = q[i]
    BY <2>1
  <2>3. /\ attempts'[c] \in Seq(1 .. issued) /\ Len(attempts'[c]) = Len(q) + 1
        /\ Len(q) \in Nat /\ attempts'[c][Len(q) + 1] = t
        /\ \A i \in 1 .. Len(q) : attempts'[c][i] = q[i]
    BY <2>1, <2>2
  <2>. QED  BY <2>3 DEF q
<1>5. Call(c)'
  <2>1. read'[c] \in Pairs /\ Len(attempts'[c]) # 0
    BY <1>3, <1>4 DEF Call
  <2>. QED  BY <1>2, <1>4, <2>1 DEF Call, Pairs
<1>6. Retried(c)'
  <2>1. CASE Len(attempts[c]) = 0
    BY <1>4, <2>1 DEF Retried
  <2>2. CASE Len(attempts[c]) = 1
    <3>1. attempts'[c][1] = attempts[c][1] /\ attempts'[c][2] = t /\ Len(attempts'[c]) = 2
      BY <1>4, <2>2
    <3>. QED  BY <2>2, <3>1 DEF Retried
  <2>3. Len(attempts[c]) = 0 \/ Len(attempts[c]) = 1
    <3>1. \A n \in Nat : n <= 1 => n = 0 \/ n = 1
      OBVIOUS
    <3>. QED  BY <1>4, <3>1
  <2>. QED  BY <2>1, <2>2, <2>3
<1>. QED  BY <1>1, <1>5, <1>6, OneCallMoves

(* A call reads the store again to compare it with a pair it holds.        *)
LEMMA ReadsAgainInv ==
  ASSUME ClientInv, NEW c \in Calls, NEW t \in 1 .. issued,
         Client!ReadsAgain(c, t), Once(c, t), tokens # Client!Partial,
         UNCHANGED <<tokens, issued, refreshTask, spent, attempts, logout, overtaken>>
  PROVE  ClientInv'
<1>0. /\ call' = [call EXCEPT ![c] = "compare"] /\ held' = [held EXCEPT ![c] = t]
      /\ read' = [read EXCEPT ![c] = tokens]
  BY DEF Client!ReadsAgain, Client!Goes, Client!Reads
<1>1. ClientFields'
  BY <1>0 DEF ClientInv, ClientFields
<1>2. call'[c] = "compare" /\ read'[c] = tokens /\ held'[c] = t
  BY <1>0 DEF ClientInv, ClientFields
<1>3. tokens \in Pairs /\ (tokens = Client!Nothing \/ tokens >= t)
  BY DEF ClientInv, Store, Pairs, Client!Nothing, Client!Partial
<1>4. Call(c)'
  BY <1>2, <1>3 DEF ClientInv, Call, Pairs, Early, Once
<1>5. Retried(c)'
  BY DEF ClientInv, Retried
<1>. QED  BY <1>0, <1>1, <1>4, <1>5, OneCallMoves

(* A call is over, whatever the store holds then.                          *)
LEMMA CallEnds ==
  ASSUME ClientInv, NEW c \in Calls, NEW s \in {"over", "unauthenticated"},
         call' = [call EXCEPT ![c] = s], tokens' \in {tokens, Client!Nothing},
         s = "over" => call[c] = "sent",
         UNCHANGED <<issued, refreshTask, spent, read, held, attempts, logout, overtaken>>
  PROVE  ClientInv'
<1>1. ClientFields'
  BY DEF ClientInv, ClientFields
<1>2. call'[c] = s
  BY DEF ClientInv, ClientFields
<1>3. Call(c)'
  <2>1. Call(c)
    BY DEF ClientInv
  <2>2. tokens' = Client!Partial => tokens = Client!Partial
    BY DEF Client!Nothing, Client!Partial
  <2>. QED  BY <1>2, <2>1, <2>2 DEF Call, Once, Pairs, Early
<1>4. Retried(c)'
  BY DEF ClientInv, Retried
<1>. QED  BY <1>1, <1>3, <1>4, OneCallMoves

LEMMA CurrentTokensInv ==
  ASSUME ClientInv, NEW c \in Calls, Client!currentTokens(c)
  PROVE  ClientInv'
<1>0. call[c] = "session" /\ UNCHANGED <<issued, refreshTask, spent, logout, overtaken>>
  BY DEF Client!currentTokens
<1>1. Call(c)
  BY DEF ClientInv
<1>2. CASE ~Client!Complete(read[c])
  <2>1. /\ call' = [call EXCEPT ![c] = "unauthenticated"] /\ tokens' = Client!Nothing
        /\ UNCHANGED <<read, held, attempts>>
    BY <1>2 DEF Client!currentTokens, Client!Goes
  <2>. DEFINE s == "unauthenticated"
  <2>2. s \in {"over", "unauthenticated"} /\ call' = [call EXCEPT ![c] = s] /\ s # "over"
    BY <2>1
  <2>. HIDE DEF s
  <2>. QED  BY <1>0, <2>1, <2>2, CallEnds
<1>3. CASE Client!Complete(read[c])
  <2>1. read[c] \in 1 .. issued /\ tokens # Client!Partial /\ read[c] # Client!Partial
    BY <1>1, <1>3 DEF ClientInv, Store, Call, Pairs, Client!Complete, Client!Nothing, Client!Partial
  <2>2. Len(attempts[c]) = 0 /\ Once(c, read[c])
    BY <1>0, <1>1 DEF Call, Once
  <2>3. CASE Client!sendAuthorized(c, read[c]) /\ UNCHANGED <<tokens, read, held>>
    <3>1. /\ call' = [call EXCEPT ![c] = "sent"]
          /\ attempts' = [attempts EXCEPT ![c] = Append(@, read[c])]
      BY <2>3 DEF Client!sendAuthorized, Client!Goes
    <3>2. Len(attempts[c]) <= 1 /\ Len(attempts[c]) # 1
      BY <2>2
    <3>. QED  BY <1>0, <2>1, <2>3, <3>1, <3>2, SendInv
  <2>4. CASE Client!ReadsAgain(c, read[c]) /\ UNCHANGED <<tokens, attempts>>
    BY <1>0, <2>1, <2>2, <2>4, ReadsAgainInv
  <2>. QED  BY <1>3, <2>3, <2>4 DEF Client!currentTokens
<1>. QED  BY <1>2, <1>3

LEMMA AnsweredInv ==
  ASSUME ClientInv, NEW c \in Calls, Client!Answered(c)
  PROVE  ClientInv'
<1>0. /\ call[c] = "sent" /\ call' = [call EXCEPT ![c] = "over"]
      /\ UNCHANGED <<tokens, issued, refreshTask, spent, read, held, attempts, logout, overtaken>>
  BY DEF Client!Answered, Client!Goes
<1>. DEFINE s == "over"
<1>1. s \in {"over", "unauthenticated"} /\ call' = [call EXCEPT ![c] = s]
  BY <1>0
<1>. HIDE DEF s
<1>. QED  BY <1>0, <1>1, CallEnds

(* A call that has been sent carries a pair that was complete.             *)
LEMMA SentIs ==
  ASSUME ClientInv, NEW c \in Calls, call[c] = "sent"
  PROVE  /\ tokens # Client!Partial /\ read[c] # Client!Partial
         /\ Len(attempts[c]) = 1 => attempts[c][1] \in 1 .. issued /\ Once(c, attempts[c][1])
<1>1. Call(c)
  BY DEF ClientInv
<1>2. tokens # Client!Partial /\ read[c] # Client!Partial
  BY <1>1 DEF Call, Early
<1>3. attempts[c] \in Seq(1 .. issued)
  BY <1>1 DEF Call
<1>4. Len(attempts[c]) = 1 => attempts[c][1] \in 1 .. issued
  <2>. DEFINE q == attempts[c]
  <2>1. q \in Seq(1 .. issued)
    BY <1>3
  <2>. HIDE DEF q
  <2>2. ASSUME Len(q) = 1  PROVE q[1] \in 1 .. issued
    <3>1. 1 \in 1 .. Len(q)
      BY <2>2
    <3>. QED  BY <2>1, <3>1, ElementOfSeq
  <2>. QED  BY <2>2 DEF q
<1>5. Len(attempts[c]) = 1 => Once(c, attempts[c][1])
  <2>. DEFINE n == Len(attempts[c])
  <2>1. n = 1 => n <= 1
    OBVIOUS
  <2>. QED  BY <2>1 DEF Once
<1>. QED  BY <1>2, <1>4, <1>5

LEMMA UnauthorizedInv ==
  ASSUME ClientInv, NEW c \in Calls, Client!Unauthorized(c)
  PROVE  ClientInv'
<1>0. /\ call[c] = "sent"
      /\ UNCHANGED <<tokens, issued, refreshTask, spent, attempts, logout, overtaken>>
  BY DEF Client!Unauthorized
<1>1. CASE Len(attempts[c]) = 1
  <2>1. /\ attempts[c][1] \in 1 .. issued /\ Once(c, attempts[c][1])
        /\ tokens # Client!Partial
    BY <1>0, <1>1, SentIs
  <2>2. Client!ReadsAgain(c, attempts[c][1])
    BY <1>1 DEF Client!Unauthorized
  <2>. QED  BY <1>0, <2>1, <2>2, ReadsAgainInv
<1>2. CASE Len(attempts[c]) # 1
  <2>1. call' = [call EXCEPT ![c] = "unauthenticated"] /\ UNCHANGED <<read, held>>
    BY <1>2 DEF Client!Unauthorized, Client!Goes
  <2>. DEFINE s == "unauthenticated"
  <2>2. s \in {"over", "unauthenticated"} /\ call' = [call EXCEPT ![c] = s] /\ s # "over"
    BY <2>1
  <2>. HIDE DEF s
  <2>. QED  BY <1>0, <2>1, <2>2, CallEnds
<1>. QED  BY <1>1, <1>2

LEMMA TokensGoneInv ==
  ASSUME ClientInv, NEW c \in Calls, Client!TokensGone(c)
  PROVE  ClientInv'
<1>0. /\ call' = [call EXCEPT ![c] = "unauthenticated"]
      /\ UNCHANGED <<tokens, issued, refreshTask, spent, read, held, attempts, logout, overtaken>>
  BY DEF Client!TokensGone, Client!Goes
<1>. DEFINE s == "unauthenticated"
<1>1. s \in {"over", "unauthenticated"} /\ call' = [call EXCEPT ![c] = s] /\ s # "over"
  BY <1>0
<1>. HIDE DEF s
<1>. QED  BY <1>0, <1>1, CallEnds

LEMMA TokensNewerInv ==
  ASSUME ClientInv, NEW c \in Calls, Client!TokensNewer(c)
  PROVE  ClientInv'
<1>0. /\ call[c] = "compare" /\ read[c] \notin {Client!Nothing, held[c]}
      /\ call' = [call EXCEPT ![c] = "sent"]
      /\ attempts' = [attempts EXCEPT ![c] = Append(@, read[c])]
      /\ UNCHANGED <<tokens, issued, refreshTask, spent, read, held, logout, overtaken>>
  BY DEF Client!TokensNewer, Client!sendAuthorized, Client!Goes
<1>1. Call(c) /\ issued \in Nat
  BY DEF ClientInv, Store
<1>2. /\ held[c] \in 1 .. issued /\ Once(c, held[c])
      /\ tokens # Client!Partial /\ read[c] # Client!Partial
  BY <1>0, <1>1 DEF Call, Early
<1>3. read[c] \in 1 .. issued /\ held[c] < read[c]
  BY <1>0, <1>1, <1>2 DEF Call, Once, Pairs, Client!Nothing, Client!Partial
<1>. QED  BY <1>0, <1>2, <1>3, SendInv DEF Once

LEMMA SendAgainInv ==
  ASSUME ClientInv, NEW c \in Calls, Client!SendAgain(c)
  PROVE  ClientInv'
<1>0. /\ call[c] = "refreshed" /\ call' = [call EXCEPT ![c] = "sent"]
      /\ attempts' = [attempts EXCEPT ![c] = Append(@, read[c])]
      /\ UNCHANGED <<tokens, issued, refreshTask, spent, read, held, logout, overtaken>>
  BY DEF Client!SendAgain, Client!sendAuthorized, Client!Goes
<1>1. Call(c) /\ issued \in Nat
  BY DEF ClientInv, Store
<1>2. /\ held[c] \in 1 .. issued /\ Once(c, held[c])
      /\ tokens # Client!Partial /\ read[c] # Client!Partial
  BY <1>0, <1>1 DEF Call, Early
<1>3. read[c] \in 1 .. issued /\ held[c] < read[c]
  BY <1>0, <1>1, <1>2 DEF Call, Once, Pairs, Client!Nothing, Client!Partial
<1>. QED  BY <1>0, <1>2, <1>3, SendInv DEF Once

(* A refresh takes the pair that is in the store when it begins.           *)
LEMMA RefreshInv ==
  ASSUME ClientInv, NEW c \in Calls, Client!refresh(c)
  PROVE  ClientInv'
<1>0. /\ call[c] = "compare" /\ call' = [call EXCEPT ![c] = "refreshing"]
      /\ refreshTask' = IF refreshTask = Client!NoTask THEN [phase |-> "read", pair |-> tokens]
                                                      ELSE refreshTask
      /\ overtaken' = (overtaken \/ (refreshTask = Client!NoTask /\ logout \in {"waited", "read"}))
      /\ UNCHANGED <<tokens, issued, spent, read, held, attempts, logout>>
  BY DEF Client!refresh, Client!Goes, Client!PairToPresent
<1>1. ClientFields' /\ call'[c] = "refreshing"
  BY <1>0 DEF ClientInv, ClientFields
<1>2. Call(c)' /\ Retried(c)'
  BY <1>0, <1>1 DEF ClientInv, Call, Once, Retried, Pairs, Early
<1>3. \A x \in Calls : Call(x)' /\ Retried(x)'
  BY <1>0, <1>1, <1>2, CallMoves
<1>4. Store'
  BY <1>0 DEF ClientInv, Store
<1>5. Task'
  <2>1. CASE refreshTask = Client!NoTask
    <3>1. tokens \in Pairs /\ tokens \notin spent
      BY DEF ClientInv, Store, Pairs, Client!Nothing, Client!Partial
    <3>. QED  BY <1>0, <2>1, <3>1 DEF Task, Pairs
  <2>2. CASE refreshTask # Client!NoTask
    BY <1>0, <2>2 DEF ClientInv, Task, Pairs
  <2>. QED  BY <2>1, <2>2
<1>6. LogoutInv'
  <2>1. CASE refreshTask = Client!NoTask
    BY <1>0, <2>1 DEF ClientInv, LogoutInv
  <2>2. CASE refreshTask # Client!NoTask
    BY <1>0, <2>2 DEF ClientInv, LogoutInv
  <2>. QED  BY <2>1, <2>2
<1>. QED  BY <1>1, <1>3, <1>4, <1>5, <1>6 DEF ClientInv

---------------------------------------------------------------------------
(* The shared refresh.                                                     *)

(* A refresh that brings nothing new ends.                                 *)
LEMMA RefreshFails ==
  ASSUME ClientInv, NEW s \in {"over", "unauthenticated"}, Client!Settles(s, Client!Nothing),
         UNCHANGED issued, refreshTask # Client!NoTask,
         \/ tokens' = tokens /\ spent' = spent /\ refreshTask.phase = "sent"
         \/ tokens' = Client!Nothing /\ spent' \subseteq spent \cup {refreshTask.pair}
              /\ (spent' # spent => refreshTask.phase = "sent")
  PROVE  ClientInv'
<1>0. /\ refreshTask' = Client!NoTask
      /\ call' = [x \in Calls |-> IF call[x] = "refreshing" THEN s ELSE call[x]]
      /\ read' = [x \in Calls |-> IF call[x] = "refreshing" THEN Client!Nothing ELSE read[x]]
      /\ logout' = (IF logout = "waiting" THEN "waited" ELSE logout)
      /\ UNCHANGED <<held, attempts, overtaken>>
  BY DEF Client!Settles
<1>1. ClientFields' /\ Task'
  BY <1>0 DEF ClientInv, ClientFields, Task
<1>2. refreshTask.phase = "sent" => refreshTask.pair \in 1 .. issued
  BY DEF ClientInv, Task, Pairs, Client!NoTask, Client!Nothing, Client!Partial
<1>3. Store'
  <2>1. Store
    BY DEF ClientInv
  <2>2. CASE tokens' = tokens /\ spent' = spent
    BY <2>1, <2>2 DEF Store
  <2>3. CASE tokens' = Client!Nothing
    <3>1. spent' \subseteq 1 .. issued
      BY <1>2, <2>1 DEF Store
    <3>2. Client!Nothing \notin 1 .. issued
      BY DEF Client!Nothing
    <3>3. Client!Nothing \notin spent'
      BY <3>1, <3>2
    <3>. QED  BY <2>1, <2>3, <3>1, <3>3 DEF Store
  <2>. QED  BY <2>2, <2>3
<1>4. LogoutInv'
  <2>1. logout' = "over" => logout = "over"
    BY <1>0
  <2>2. logout' = "over" /\ ~overtaken' => tokens = Client!Nothing
    BY <1>0, <2>1 DEF ClientInv, LogoutInv
  <2>3. logout' = "over" /\ ~overtaken' => tokens' = Client!Nothing
    BY <2>2
  <2>. QED  BY <1>0, <2>3 DEF LogoutInv
<1>5. \A x \in Calls : Call(x)'
  <2>. SUFFICES ASSUME NEW x \in Calls  PROVE Call(x)'
    OBVIOUS
  <2>1. Call(x)
    BY DEF ClientInv
  <2>2. tokens' = Client!Partial => tokens = Client!Partial
    BY DEF Client!Nothing, Client!Partial
  <2>3. CASE call[x] = "refreshing"
    <3>1. call'[x] = s /\ read'[x] = Client!Nothing
      BY <1>0, <2>3
    <3>. QED  BY <1>0, <2>1, <2>2, <2>3, <3>1 DEF Call, Once, Pairs, Early,
         Client!Nothing, Client!Partial
  <2>4. CASE call[x] # "refreshing"
    <3>1. call'[x] = call[x] /\ read'[x] = read[x]
      BY <1>0, <2>4
    <3>. QED  BY <1>0, <2>1, <2>2, <3>1 DEF Call, Once, Pairs
  <2>. QED  BY <2>3, <2>4
<1>6. \A x \in Calls : Retried(x)'
  BY <1>0 DEF ClientInv, Retried
<1>. QED  BY <1>1, <1>3, <1>4, <1>5, <1>6 DEF ClientInv

LEMMA RefreshedInv ==
  ASSUME ClientInv, Client!Refreshed
  PROVE  ClientInv'
<1>0. /\ refreshTask.phase = "sent" /\ issued' = issued + 1 /\ tokens' = issued'
      /\ spent' = spent \cup {refreshTask.pair} /\ refreshTask' = Client!NoTask
      /\ call' = [x \in Calls |-> IF call[x] = "refreshing" THEN "refreshed" ELSE call[x]]
      /\ read' = [x \in Calls |-> IF call[x] = "refreshing" THEN issued' ELSE read[x]]
      /\ logout' = (IF logout = "waiting" THEN "waited" ELSE logout)
      /\ UNCHANGED <<held, attempts, overtaken>>
  BY DEF Client!Refreshed, Client!Settles
<1>1. ClientFields' /\ Task'
  BY <1>0 DEF ClientInv, ClientFields, Task
<1>2. /\ refreshTask # Client!NoTask /\ refreshTask.pair \in 1 .. issued
      /\ tokens \in {Client!Nothing, Client!Partial, issued}
      /\ issued \in Nat /\ spent \subseteq 1 .. issued
  BY <1>0 DEF ClientInv, Task, Store, Pairs, Client!NoTask, Client!Nothing, Client!Partial
<1>3. Store'
  <2>1. spent' \subseteq 1 .. issued
    BY <1>0, <1>2
  <2>2. issued + 1 \notin 1 .. issued /\ 1 .. issued \subseteq 1 .. issued + 1
    BY <1>2
  <2>3. issued' \in Nat /\ spent' \subseteq 1 .. issued' /\ tokens' \notin spent'
    BY <1>0, <1>2, <2>1, <2>2
  <2>. QED  BY <1>0, <2>3 DEF Store
<1>4. LogoutInv'
  <2>1. logout' = "over" => overtaken
    BY <1>0, <1>2 DEF ClientInv, LogoutInv
  <2>. QED  BY <1>0, <2>1 DEF LogoutInv
<1>5. \A x \in Calls : Call(x)'
  <2>. SUFFICES ASSUME NEW x \in Calls  PROVE Call(x)'
    OBVIOUS
  <2>1. Call(x) /\ attempts'[x] = attempts[x] /\ held'[x] = held[x]
    BY <1>0 DEF ClientInv
  <2>2. tokens' # Client!Partial
    BY <1>0, <1>2 DEF Client!Partial
  <2>3. attempts[x] \in Seq(1 .. issued')
    <3>1. \A q \in Seq(1 .. issued) : q \in Seq(1 .. issued + 1)
      BY <1>2
    <3>. QED  BY <1>0, <2>1, <3>1 DEF Call
  <2>4. CASE call[x] = "refreshing"
    <3>1. call'[x] = "refreshed" /\ read'[x] = issued + 1
      BY <1>0, <2>4
    <3>2. held[x] \in 1 .. issued /\ Once(x, held[x])
      BY <2>1, <2>4 DEF Call
    <3>. QED  BY <1>0, <1>2, <2>1, <2>2, <2>3, <3>1, <3>2
         DEF Call, Once, Pairs, Early, Client!Nothing, Client!Partial
  <2>5. CASE call[x] # "refreshing"
    <3>1. call'[x] = call[x] /\ read'[x] = read[x]
      BY <1>0, <2>5
    <3>2. 1 .. issued \subseteq 1 .. issued'
      BY <1>0, <1>2
    <3>. QED  BY <2>1, <2>2, <2>3, <3>1, <3>2 DEF Call, Once, Pairs
  <2>. QED  BY <2>4, <2>5
<1>6. \A x \in Calls : Retried(x)'
  BY <1>0 DEF ClientInv, Retried
<1>. QED  BY <1>1, <1>3, <1>4, <1>5, <1>6 DEF ClientInv

LEMMA TaskInv ==
  ASSUME ClientInv, Client!PresentToken \/ Client!NothingToPresent \/ Client!RefreshRefused
                    \/ Client!RefreshUnsent
  PROVE  ClientInv'
<1>1. CASE Client!PresentToken
  <2>0. /\ refreshTask.phase = "read" /\ refreshTask.pair > 0
        /\ refreshTask' = [refreshTask EXCEPT !.phase = "sent"]
        /\ UNCHANGED <<tokens, issued, spent, call, read, held, attempts, logout, overtaken>>
    BY <1>1 DEF Client!PresentToken, Client!Complete, Client!calls
  <2>1. refreshTask \in [phase : {"read", "sent"}, pair : Pairs] /\ refreshTask.pair \notin spent
    BY <2>0 DEF ClientInv, Task, Client!NoTask
  <2>2. /\ refreshTask' \in [phase : {"read", "sent"}, pair : Pairs]
        /\ refreshTask'.pair = refreshTask.pair /\ refreshTask'.phase = "sent"
    BY <2>0, <2>1
  <2>3. Task'
    BY <2>0, <2>1, <2>2 DEF Task, Pairs
  <2>4. LogoutInv'
    <3>1. refreshTask # Client!NoTask /\ refreshTask.pair # Client!Nothing
      BY <2>0 DEF Client!NoTask, Client!Nothing
    <3>. QED  BY <2>0, <3>1 DEF ClientInv, LogoutInv
  <2>5. ClientFields' /\ Store' /\ \A c \in Calls : Call(c)' /\ Retried(c)'
    BY <2>0 DEF ClientInv, ClientFields, Store, Call, Once, Retried, Pairs
  <2>. QED  BY <2>3, <2>4, <2>5 DEF ClientInv
<1>. DEFINE u == "unauthenticated"  o == "over"
<1>2. u \in {"over", "unauthenticated"} /\ o \in {"over", "unauthenticated"}
  OBVIOUS
<1>3. refreshTask.phase # "none" => refreshTask # Client!NoTask
  BY DEF Client!NoTask
<1>4. CASE Client!NothingToPresent
  <2>1. /\ Client!Settles(u, Client!Nothing) /\ refreshTask.phase = "read"
        /\ tokens' = Client!Nothing /\ UNCHANGED <<issued, spent>>
    BY <1>4 DEF Client!NothingToPresent
  <2>. HIDE DEF u, o
  <2>. QED  BY <1>2, <1>3, <2>1, RefreshFails
<1>5. CASE Client!RefreshRefused
  <2>1. /\ Client!Settles(u, Client!Nothing) /\ refreshTask.phase = "sent"
        /\ tokens' = Client!Nothing /\ spent' = spent \cup {refreshTask.pair} /\ UNCHANGED issued
    BY <1>5 DEF Client!RefreshRefused
  <2>. HIDE DEF u, o
  <2>. QED  BY <1>2, <1>3, <2>1, RefreshFails
<1>6. CASE Client!RefreshUnsent
  <2>1. /\ Client!Settles(o, Client!Nothing) /\ refreshTask.phase = "sent"
        /\ UNCHANGED <<tokens, issued, spent>>
    BY <1>6 DEF Client!RefreshUnsent
  <2>. HIDE DEF u, o
  <2>. QED  BY <1>2, <1>3, <2>1, RefreshFails
<1>. QED  BY <1>1, <1>4, <1>5, <1>6

LEMMA LogoutSteps ==
  ASSUME ClientInv, Client!LogoutBegins \/ Client!LogoutReads \/ Client!LogoutClears
  PROVE  ClientInv'
<1>0. /\ UNCHANGED <<issued, refreshTask, spent, call, read, held, attempts, overtaken>>
      /\ tokens' \in {tokens, Client!Nothing}
  BY DEF Client!LogoutBegins, Client!LogoutReads, Client!LogoutClears, Client!calls
<1>1. ClientFields' /\ Store' /\ Task'
  BY <1>0 DEF ClientInv, ClientFields, Store, Task, Pairs, Client!Nothing
<1>2. \A c \in Calls : Call(c)' /\ Retried(c)'
  <2>1. tokens' = Client!Partial => tokens = Client!Partial
    BY <1>0 DEF Client!Nothing, Client!Partial
  <2>. QED  BY <1>0, <2>1 DEF ClientInv, Call, Once, Retried, Pairs
<1>3. LogoutInv'
  <2>1. CASE Client!LogoutBegins
    BY <2>1 DEF ClientInv, LogoutInv, Client!LogoutBegins
  <2>2. CASE Client!LogoutReads
    BY <2>2, <1>0 DEF ClientInv, LogoutInv, Client!LogoutReads
  <2>3. CASE Client!LogoutClears
    BY <2>3, <1>0 DEF ClientInv, LogoutInv, Client!LogoutClears
  <2>. QED  BY <2>1, <2>2, <2>3
<1>. QED  BY <1>1, <1>2, <1>3 DEF ClientInv

LEMMA ClientNextInv ==
  ASSUME ClientInv, Client!Next
  PROVE  ClientInv'
<1>1. ASSUME NEW c \in Calls,
             \/ Client!Begin(c) \/ Client!currentTokens(c) \/ Client!Answered(c)
             \/ Client!Unauthorized(c) \/ Client!TokensGone(c) \/ Client!TokensNewer(c)
             \/ Client!refresh(c) \/ Client!SendAgain(c)
      PROVE  ClientInv'
  BY <1>1, BeginInv, CurrentTokensInv, AnsweredInv, UnauthorizedInv, TokensGoneInv,
     TokensNewerInv, RefreshInv, SendAgainInv
<1>2. CASE Client!Refreshed
  BY <1>2, RefreshedInv
<1>3. CASE Client!PresentToken \/ Client!NothingToPresent \/ Client!RefreshRefused
           \/ Client!RefreshUnsent
  BY <1>3, TaskInv
<1>4. CASE Client!LogoutBegins \/ Client!LogoutReads \/ Client!LogoutClears
  BY <1>4, LogoutSteps
<1>. QED  BY <1>1, <1>2, <1>3, <1>4 DEF Client!Next

LEMMA ClientKept ==
  ASSUME ClientInv,
         UNCHANGED <<tokens, issued, refreshTask, spent,
                      call, read, held, attempts, logout, overtaken>>
  PROVE  ClientInv'
<1>1. ClientFields' /\ Store' /\ Task' /\ LogoutInv'
  BY DEF ClientInv, ClientFields, Store, Task, LogoutInv, Pairs
<1>2. \A c \in Calls : Call(c)' /\ Retried(c)'
  BY DEF ClientInv, Call, Once, Retried, Pairs
<1>. QED  BY <1>1, <1>2 DEF ClientInv

---------------------------------------------------------------------------
(* The commands.  The open panel shows what the storage holds once all     *)
(* saves are written, and a press that still counts is the last one.       *)

Chosen ==
  {p \in [language : Commands!SpokenLanguages, target : Commands!TranslationTargets] :
     p.language # p.target}

PanelShows ==
  /\ panel \in [phase : {"closed", "loading", "open"}, chosen : Chosen]
  /\ saves \in Seq(Chosen)
  /\ panel.phase = "open" =>
       panel.chosen = IF saves = <<>> THEN Commands!parseRecordingPreferences(stored)
                                      ELSE saves[Len(saves)]

Presses ==
  /\ clock \in Nat
  /\ \A k \in 1 .. 3 : pressed[k] = Commands!None \/ pressed[k] \in 0 .. clock
  /\ pressed[1] <= pressed[2] /\ pressed[2] <= pressed[3]
  /\ \/ commandPress = Commands!NoPress /\ commandPressTimer = Commands!None
     \/ /\ commandPress \in [at : {pressed[3]}, count : 1 .. 2] /\ pressed[3] \in Nat
        /\ commandPressTimer = pressed[3] + Ticks
        /\ commandPress.count = 2 => pressed[2] \in Nat /\ pressed[3] - pressed[2] <= Ticks

(* What the dictation key asked for at t, and the presses since.           *)
VoiceAsked(t) == \A k \in 1 .. 3 : pressed[k] >= t \/ pressed[k] <= t - Ticks

MeetingAsked(t) ==
  /\ pressed[3] >= t /\ (pressed[3] = t => pressed[1] \in Nat)
  /\ \A k \in 1 .. 3 : pressed[k] \in Nat => t - pressed[k] <= 2 * Ticks

Start == [key : {"dictation", "command", "panel"}, mode : Commands!Modes,
          chosen : Chosen \cup {Commands!NoPreferences}, at : Nat \cup {Commands!None}]

StartAsked(a) ==
  /\ a.key = "panel" <=> a.chosen # Commands!NoPreferences
  /\ a.key = "dictation" =>
       /\ a.at \in 0 .. clock
       /\ IF a.mode = "voice" THEN VoiceAsked(a.at) ELSE MeetingAsked(a.at)

Asked == asked \in Seq(Start) /\ \A i \in DOMAIN asked : StartAsked(asked[i])

Started ==
  /\ started.target \in Commands!TranslationTargets \cup {""} /\ started.target # started.language
  /\ started.asShown = TRUE

CommandsInv == PanelShows /\ Presses /\ Asked /\ Started

LEMMA Parsed ==
  /\ \A p : Commands!parseRecordingPreferences(p) \in Chosen
  /\ \A p \in Chosen : Commands!parseRecordingPreferences(p) = p
  /\ Commands!Default \in Chosen /\ Commands!NoPreferences \notin Chosen
<1>. DEFINE L(p) == IF p.language \in Commands!SpokenLanguages THEN p.language ELSE "uk"
            T(p) == IF p.target \in Commands!TranslationTargets THEN p.target ELSE "en"
            U(p) == IF T(p) = L(p) THEN IF L(p) = "en" THEN "uk" ELSE "en" ELSE T(p)
<1>1. \A p : Commands!parseRecordingPreferences(p) = [language |-> L(p), target |-> U(p)]
  BY DEF Commands!parseRecordingPreferences, Commands!oneOf, Commands!otherTarget,
         Commands!Default, Commands!Preferences
<1>2. \A p : /\ L(p) \in Commands!SpokenLanguages /\ U(p) \in Commands!TranslationTargets
             /\ L(p) # U(p)
  BY Zenon DEF Commands!SpokenLanguages, Commands!TranslationTargets
<1>3. \A p \in Chosen : L(p) = p.language /\ U(p) = p.target
  BY DEF Chosen
<1>. HIDE DEF L, T, U
<1>4. \A p : Commands!parseRecordingPreferences(p) \in Chosen
  BY <1>1, <1>2 DEF Chosen
<1>5. \A p \in Chosen : Commands!parseRecordingPreferences(p) = p
  BY <1>1, <1>3 DEF Chosen
<1>6. Commands!Default \in Chosen /\ Commands!NoPreferences \notin Chosen
  BY DEF Chosen, Commands!Default, Commands!NoPreferences, Commands!Preferences,
         Commands!SpokenLanguages, Commands!TranslationTargets
<1>. QED  BY <1>4, <1>5, <1>6

LEMMA Switched ==
  ASSUME NEW p \in Chosen
  PROVE  /\ \A l \in Commands!SpokenLanguages : Commands!withSpokenLanguage(p, l) \in Chosen
         /\ \A l \in Commands!TranslationTargets : Commands!withTranslationTarget(p, l) \in Chosen
<1>1. \A l \in Commands!SpokenLanguages : Commands!withSpokenLanguage(p, l) \in Chosen
  BY Zenon DEF Chosen, Commands!withSpokenLanguage, Commands!oneOf, Commands!otherTarget,
         Commands!SpokenLanguages, Commands!TranslationTargets
<1>2. \A l \in Commands!TranslationTargets : Commands!withTranslationTarget(p, l) \in Chosen
  BY Zenon DEF Chosen, Commands!withTranslationTarget,
         Commands!SpokenLanguages, Commands!TranslationTargets
<1>. QED  BY <1>1, <1>2

(* What a start that was asked for would record.                           *)
LEMMA RecordingIs ==
  ASSUME PanelShows, NEW a \in Start, StartAsked(a)
  PROVE  /\ Commands!commandRecording(a).target \in Commands!TranslationTargets \cup {""}
         /\ Commands!commandRecording(a).target # Commands!commandRecording(a).language
         /\ Commands!commandRecording(a).asShown = TRUE
<1>. DEFINE p == IF a.chosen = Commands!NoPreferences
                 THEN Commands!parseRecordingPreferences(stored) ELSE a.chosen
            shown == panel.phase = "open" /\ saves = <<>> /\ a.key # "panel"
            target == IF a.mode = "translation" THEN p.target ELSE ""
            asShown == shown => p = panel.chosen
<1>1. p \in Chosen
  BY Parsed DEF Start
<1>2. shown => p = panel.chosen
  BY DEF PanelShows, StartAsked
<1>3. /\ p.language \in Commands!SpokenLanguages /\ p.target \in Commands!TranslationTargets
      /\ p.language # p.target
  BY <1>1 DEF Chosen
<1>4. Commands!commandRecording(a) =
        [language |-> p.language, target |-> target, asShown |-> asShown]
  BY DEF Commands!commandRecording
<1>. HIDE DEF p, shown
<1>5. asShown = TRUE
  BY <1>2
<1>. HIDE DEF asShown
<1>6. Commands!commandRecording(a).asShown = TRUE
  <2>1. Commands!commandRecording(a).asShown = asShown
    <3>. DEFINE v == asShown
    <3>1. Commands!commandRecording(a) = [language |-> p.language, target |-> target, asShown |-> v]
      BY <1>4, Zenon
    <3>2. [language |-> p.language, target |-> target, asShown |-> v].asShown = v
      <4>. HIDE DEF v
      <4>. QED  OBVIOUS
    <3>. QED  BY <3>1, <3>2, Zenon
  <2>. QED  BY <1>5, <2>1, Zenon
<1>7. target \in {p.target, ""} /\ p.language # ""
  BY <1>3, Zenon DEF Commands!SpokenLanguages
<1>. HIDE DEF target
<1>8. /\ Commands!commandRecording(a).language = p.language
      /\ Commands!commandRecording(a).target = target
  BY <1>4
<1>. QED  BY <1>3, <1>6, <1>7, <1>8, Zenon

LEMMA AsChosen == CommandsInv => Commands!CommandsAsChosen
<1> SUFFICES ASSUME CommandsInv  PROVE Commands!CommandsAsChosen
  OBVIOUS
<1>0. \A i \in DOMAIN asked : asked[i] \in Start /\ StartAsked(asked[i])
  BY DEF CommandsInv, Asked
<1>1. Commands!LanguagesApart
  <2>1. panel.chosen \in Chosen
    BY DEF CommandsInv, PanelShows
  <2>2. \A i \in DOMAIN asked :
          Commands!commandRecording(asked[i]).target # Commands!commandRecording(asked[i]).language
    BY <1>0, RecordingIs, Zenon DEF CommandsInv
  <2>. QED  BY <2>1, <2>2, Zenon DEF CommandsInv, Started, Chosen, Commands!LanguagesApart
<1>2. Commands!PressesCounted
  <2>. DEFINE Before(a) == {k \in 1 .. 3 : pressed[k] # Commands!None /\ pressed[k] <= a.at}
  <2>1. ASSUME NEW i \in DOMAIN asked, asked[i].key = "dictation"
        PROVE  IF asked[i].mode = "voice"
               THEN \A k \in Before(asked[i]) : pressed[k] = asked[i].at
                                     \/ pressed[k] <= asked[i].at - Ticks
               ELSE /\ pressed[3] = asked[i].at => Before(asked[i]) = 1 .. 3
                    /\ \A k \in Before(asked[i]) : asked[i].at - pressed[k] <= 2 * Ticks
    <3>. DEFINE t == asked[i].at
    <3>1. t \in Nat /\ (IF asked[i].mode = "voice" THEN VoiceAsked(t) ELSE MeetingAsked(t))
      BY <1>0, <2>1 DEF StartAsked
    <3>2. /\ \A k \in 1 .. 3 : pressed[k] \in Int /\ (pressed[k] # Commands!None => pressed[k] \in Nat)
          /\ pressed[1] <= pressed[2] /\ pressed[2] <= pressed[3]
      BY DEF CommandsInv, Presses, Commands!None
    <3>3. CASE asked[i].mode = "voice"
      <4>1. VoiceAsked(t)
        BY <3>1, <3>3
      <4>. HIDE DEF t
      <4>2. \A k \in 1 .. 3 : pressed[k] <= t => pressed[k] = t \/ pressed[k] <= t - Ticks
        BY <3>1, <3>2, <4>1 DEF VoiceAsked
      <4>. QED  BY <3>3, <4>2 DEF t
    <3>4. CASE asked[i].mode # "voice"
      <4>1. MeetingAsked(t)
        BY <3>1, <3>4
      <4>. HIDE DEF t
      <4>2. \A k \in 1 .. 3 : pressed[k] # Commands!None => t - pressed[k] <= 2 * Ticks
        BY <3>2, <4>1 DEF MeetingAsked
      <4>3. pressed[3] = t =>
              \A k \in 1 .. 3 : pressed[k] # Commands!None /\ pressed[k] <= t
        <5>1. pressed[3] = t => pressed[1] \in Nat /\ pressed[2] \in Nat /\ pressed[3] \in Nat
          BY <3>2, <4>1 DEF MeetingAsked
        <5>. QED  BY <3>1, <3>2, <5>1 DEF Commands!None
      <4>. QED  BY <3>4, <4>2, <4>3 DEF t
    <3>. QED  BY <3>3, <3>4
  <2>2. commandPress # Commands!NoPress <=> commandPressTimer # Commands!None
    BY PartsAssumption DEF CommandsInv, Presses, Commands!NoPress, Commands!None
  <2>. QED  BY <2>1, <2>2 DEF Commands!PressesCounted
<1>3. Commands!CommandsSpeakAsShown
  BY Zenon DEF CommandsInv, Started, Commands!CommandsSpeakAsShown
<1>. QED  BY <1>1, <1>2, <1>3 DEF Commands!CommandsAsChosen

LEMMA CommandsInitInv ==
  ASSUME Commands!Init
  PROVE  CommandsInv
<1>0. /\ clock = 0 /\ commandPress = Commands!NoPress /\ commandPressTimer = Commands!None
      /\ asked = <<>> /\ saves = <<>> /\ panel = [phase |-> "closed", chosen |-> Commands!Default]
      /\ pressed = <<Commands!None, Commands!None, Commands!None>>
      /\ started = Commands!NoRecording
  BY Zenon DEF Commands!Init
<1>1. PanelShows
  <2>1. saves \in Seq(Chosen)
    BY <1>0
  <2>. QED  BY <1>0, <2>1, Parsed DEF PanelShows
<1>2. Presses
  BY <1>0 DEF Presses, Commands!None
<1>3. Asked
  BY <1>0 DEF Asked
<1>4. Started
  BY <1>0, Zenon DEF Started, Commands!NoRecording
<1>. QED  BY <1>1, <1>2, <1>3, <1>4 DEF CommandsInv

---------------------------------------------------------------------------
(* The panel.                                                              *)

(* What the keys have asked for does not look at the panel.                *)
LEMMA KeysKept ==
  ASSUME CommandsInv,
         UNCHANGED <<clock, commandPress, commandPressTimer, pressed, asked, started>>, PanelShows'
  PROVE  CommandsInv'
<1>1. Presses'
  BY DEF CommandsInv, Presses
<1>2. Asked'
  BY DEF CommandsInv, Asked, StartAsked, VoiceAsked, MeetingAsked
<1>3. Started'
  BY Zenon DEF CommandsInv, Started
<1>. QED  BY <1>1, <1>2, <1>3 DEF CommandsInv

LEMMA LastSave ==
  ASSUME NEW p \in Chosen, NEW q \in Seq(Chosen)
  PROVE  /\ Append(q, p) \in Seq(Chosen) /\ Append(q, p) # <<>>
         /\ Append(q, p)[Len(Append(q, p))] = p
BY AppendProperties

LEMMA NextSave ==
  ASSUME NEW q \in Seq(Chosen), q # <<>>
  PROVE  /\ Head(q) \in Chosen /\ Tail(q) \in Seq(Chosen)
         /\ q[Len(q)] = IF Tail(q) = <<>> THEN Head(q) ELSE Tail(q)[Len(Tail(q))]
<1>1. /\ Head(q) = q[1] /\ q[1] \in Chosen /\ Tail(q) \in Seq(Chosen)
      /\ Len(q) \in Nat /\ Len(q) > 0 /\ Len(Tail(q)) = Len(q) - 1
      /\ \A i \in 1 .. Len(q) - 1 : Tail(q)[i] = q[i + 1]
  OBVIOUS
<1>2. CASE Len(q) = 1
  <2>1. Tail(q) = <<>>
    <3>1. Tail(q) \in Seq(Chosen) /\ Len(Tail(q)) = 0
      BY <1>1, <1>2
    <3>. QED  BY <3>1, EmptySeq
  <2>. QED  BY <1>1, <1>2, <2>1
<1>3. CASE Len(q) # 1
  <2>1. Len(Tail(q)) \in 1 .. Len(q) - 1
    BY <1>1, <1>3
  <2>2. Tail(q)[Len(Tail(q))] = q[Len(q)]
    <3>. DEFINE n == Len(Tail(q))
    <3>1. n \in 1 .. Len(q) - 1 /\ n + 1 = Len(q)
      BY <1>1, <2>1
    <3>. HIDE DEF n
    <3>2. Tail(q)[n] = q[n + 1]
      BY <1>1, <3>1
    <3>. QED  BY <3>1, <3>2 DEF n
  <2>3. Tail(q) # <<>>
    BY <1>1, <2>1, EmptySeq
  <2>. QED  BY <1>1, <2>2, <2>3
<1>. QED  BY <1>1, <1>2, <1>3

LEMMA PanelSteps ==
  ASSUME CommandsInv,
         \/ Commands!PanelOpens \/ Commands!PanelLoads \/ Commands!PanelCloses
         \/ Commands!UserChooses \/ Commands!saveRecordingPreferences
  PROVE  CommandsInv'
<1>0. /\ panel \in [phase : {"closed", "loading", "open"}, chosen : Chosen] /\ saves \in Seq(Chosen)
      /\ panel.chosen \in Chosen
  BY DEF CommandsInv, PanelShows
<1>1. UNCHANGED <<clock, commandPress, commandPressTimer, pressed, asked, started>>
  BY DEF Commands!PanelOpens, Commands!PanelLoads, Commands!PanelCloses, Commands!UserChooses,
         Commands!saveRecordingPreferences, Commands!keys
<1>2. CASE Commands!PanelOpens \/ Commands!PanelCloses
  <2>1. /\ panel' \in [phase : {"closed", "loading"}, chosen : {Commands!Default}]
        /\ saves' = saves
    BY <1>2 DEF Commands!PanelOpens, Commands!PanelCloses
  <2>2. PanelShows'
    BY <1>0, <2>1, Parsed DEF PanelShows
  <2>. QED  BY <1>1, <2>2, KeysKept
<1>3. CASE Commands!PanelLoads
  <2>. DEFINE p == Commands!parseRecordingPreferences(stored)
  <2>1. panel' = [phase |-> "open", chosen |-> p] /\ saves' = Append(saves, p)
    BY <1>3 DEF Commands!PanelLoads
  <2>2. p \in Chosen
    BY Parsed
  <2>. HIDE DEF p
  <2>3. PanelShows'
    BY <1>0, <2>1, <2>2, LastSave DEF PanelShows
  <2>. QED  BY <1>1, <2>3, KeysKept
<1>4. CASE Commands!UserChooses
  <2>1. PICK p \in Chosen : Commands!Choose(p)
    BY <1>0, <1>4, Switched DEF Commands!UserChooses
  <2>2. /\ panel' = [panel EXCEPT !.chosen = p] /\ stored' = stored
        /\ saves' = IF panel.phase = "open" /\ p # panel.chosen THEN Append(saves, p) ELSE saves
    BY <1>4, <2>1 DEF Commands!UserChooses, Commands!Choose
  <2>3. /\ panel' \in [phase : {"closed", "loading", "open"}, chosen : Chosen]
        /\ panel'.phase = panel.phase /\ panel'.chosen = p
    BY <1>0, <2>2
  <2>4. CASE panel.phase = "open" /\ p # panel.chosen
    <3>1. saves' = Append(saves, p)
      BY <2>2, <2>4
    <3>2. PanelShows'
      BY <1>0, <2>3, <3>1, LastSave DEF PanelShows
    <3>. QED  BY <1>1, <3>2, KeysKept
  <2>5. CASE ~(panel.phase = "open" /\ p # panel.chosen)
    <3>1. saves' = saves
      BY <2>2, <2>5
    <3>2. PanelShows'
      BY <1>0, <2>2, <2>3, <2>5, <3>1 DEF CommandsInv, PanelShows
    <3>. QED  BY <1>1, <3>2, KeysKept
  <2>. QED  BY <2>4, <2>5
<1>5. CASE Commands!saveRecordingPreferences
  <2>1. saves # <<>> /\ stored' = Head(saves) /\ saves' = Tail(saves) /\ panel' = panel
    BY <1>5 DEF Commands!saveRecordingPreferences
  <2>2. /\ Head(saves) \in Chosen /\ Tail(saves) \in Seq(Chosen)
        /\ saves[Len(saves)] = IF Tail(saves) = <<>> THEN Head(saves)
                           ELSE Tail(saves)[Len(Tail(saves))]
    BY <1>0, <2>1, NextSave
  <2>3. ASSUME panel.phase = "open"
        PROVE  panel.chosen = IF saves' = <<>> THEN Commands!parseRecordingPreferences(stored')
                                               ELSE saves'[Len(saves')]
    <3>1. panel.chosen = saves[Len(saves)]
      BY <2>1, <2>3 DEF CommandsInv, PanelShows
    <3>2. Commands!parseRecordingPreferences(Head(saves)) = Head(saves)
      BY <2>2, Parsed
    <3>. QED  BY <2>1, <2>2, <3>1, <3>2
  <2>4. PanelShows'
    BY <1>0, <2>1, <2>2, <2>3 DEF PanelShows
  <2>. QED  BY <1>1, <2>4, KeysKept
<1>. QED  BY <1>2, <1>3, <1>4, <1>5

---------------------------------------------------------------------------
(* The keys.                                                               *)

LEMMA PanelKept ==
  ASSUME CommandsInv, UNCHANGED <<stored, saves, panel>>
  PROVE  PanelShows'
BY DEF CommandsInv, PanelShows

LEMMA StartedKept ==
  ASSUME CommandsInv, UNCHANGED started
  PROVE  Started'
BY Zenon DEF CommandsInv, Started

(* The starts already asked for stay, whatever is asked for besides.       *)
LEMMA AskedGrows ==
  ASSUME CommandsInv, \A a \in Start : StartAsked(a) => StartAsked(a)',
         \/ asked' = asked
         \/ \E a \in Start : asked' = Append(asked, a) /\ StartAsked(a)'
  PROVE  Asked'
<1>0. asked \in Seq(Start) /\ \A i \in DOMAIN asked : asked[i] \in Start /\ StartAsked(asked[i])
  BY DEF CommandsInv, Asked
<1>1. CASE asked' = asked
  <2>1. \A i \in DOMAIN asked : StartAsked(asked[i])'
    BY <1>0, <1>1
  <2>. QED  BY <1>0, <1>1, <2>1 DEF Asked
<1>2. ASSUME NEW a \in Start, asked' = Append(asked, a), StartAsked(a)'
      PROVE  Asked'
  <2>1. /\ asked' \in Seq(Start) /\ Len(asked) \in Nat /\ DOMAIN asked = 1 .. Len(asked)
        /\ DOMAIN asked' = 1 .. Len(asked) + 1
        /\ \A i \in DOMAIN asked' : asked'[i] = IF i = Len(asked) + 1 THEN a ELSE asked[i]
    BY <1>0, <1>2
  <2>2. \A i \in DOMAIN asked' : StartAsked(asked[i])'
    <3>. SUFFICES ASSUME NEW i \in DOMAIN asked'  PROVE StartAsked(asked[i])'
      OBVIOUS
    <3>1. PICK x \in Start : x = asked'[i] /\ StartAsked(x)'
      <4>1. CASE i = Len(asked) + 1
        BY <1>2, <2>1, <4>1, Zenon
      <4>2. CASE i # Len(asked) + 1
        <5>1. i \in DOMAIN asked /\ asked'[i] = asked[i]
          BY <2>1, <4>2
        <5>2. PICK y \in Start : y = asked[i] /\ StartAsked(y)
          BY <1>0, <5>1
        <5>. QED  BY <5>1, <5>2
      <4>. QED  BY <4>1, <4>2, SMTT(30)
    <3>. QED  BY <3>1 DEF StartAsked
  <2>. QED  BY <2>1, <2>2 DEF Asked
<1>. QED  BY <1>1, <1>2

LEMMA SameKeys ==
  ASSUME CommandsInv, UNCHANGED pressed, clock <= clock', clock' \in Nat
  PROVE  \A a \in Start : StartAsked(a) => StartAsked(a)'
<1>1. \A t : (VoiceAsked(t) => VoiceAsked(t)') /\ (MeetingAsked(t) => MeetingAsked(t)')
  BY DEF VoiceAsked, MeetingAsked
<1>2. clock \in Nat
  BY DEF CommandsInv, Presses
<1>. QED  BY <1>1, <1>2 DEF StartAsked

(* A press pushes the third last one out, and is not before what was asked.*)
LEMMA PressShifts ==
  ASSUME CommandsInv, pressed' = <<pressed[2], pressed[3], clock>>, UNCHANGED clock
  PROVE  \A a \in Start : StartAsked(a) => StartAsked(a)'
<1>0. /\ clock \in Nat /\ pressed'[1] = pressed[2] /\ pressed'[2] = pressed[3] /\ pressed'[3] = clock
      /\ \A k \in 1 .. 3 : pressed[k] \in Int /\ pressed[k] <= clock
      /\ pressed[1] <= pressed[2] /\ pressed[2] <= pressed[3]
      /\ \A k \in 1 .. 3 : pressed[k] >= 0 => pressed[k] \in Nat
  BY DEF CommandsInv, Presses, Commands!None
<1>1. ASSUME NEW t \in 0 .. clock, VoiceAsked(t)
      PROVE  VoiceAsked(t)'
  BY <1>0, <1>1 DEF VoiceAsked
<1>2. ASSUME NEW t \in 0 .. clock, MeetingAsked(t)
      PROVE  MeetingAsked(t)'
  <2>1. clock >= t /\ t - clock <= 2 * Ticks
    BY <1>0, PartsAssumption
  <2>2. clock = t => pressed[2] \in Nat
    <3>1. clock = t => pressed[3] = t
      BY <1>0, <1>2 DEF MeetingAsked
    <3>. QED  BY <1>0, <1>2, <3>1 DEF MeetingAsked
  <2>3. \A k \in 1 .. 3 : pressed'[k] \in Nat => t - pressed'[k] <= 2 * Ticks
    <3>1. \A k \in 1 .. 3 : k = 1 \/ k = 2 \/ k = 3
      OBVIOUS
    <3>. QED  BY <1>0, <1>2, <2>1, <3>1 DEF MeetingAsked
  <2>. QED  BY <1>0, <2>1, <2>2, <2>3 DEF MeetingAsked
<1>. QED  BY <1>0, <1>1, <1>2 DEF StartAsked

LEMMA KeySteps ==
  ASSUME CommandsInv, Commands!handleDictationCommandPress
  PROVE  CommandsInv'
<1>. DEFINE next == Commands!nextCommandPress
<1>0. /\ pressed' = <<pressed[2], pressed[3], clock>>
      /\ UNCHANGED <<clock, stored, saves, panel, started>>
      /\ IF next.count >= 3
         THEN /\ commandPress' = Commands!NoPress /\ commandPressTimer' = Commands!None
              /\ asked' = Append(asked, [key |-> "dictation", mode |-> "meeting",
                                         chosen |-> Commands!NoPreferences, at |-> clock])
         ELSE /\ commandPress' = next /\ commandPressTimer' = clock + Ticks
              /\ UNCHANGED asked
  BY DEF Commands!handleDictationCommandPress, Commands!Ask, Commands!preferences
<1>1. /\ clock \in Nat /\ pressed'[1] = pressed[2] /\ pressed'[2] = pressed[3] /\ pressed'[3] = clock
      /\ \A k \in 1 .. 3 : pressed[k] = Commands!None \/ pressed[k] \in 0 .. clock
      /\ pressed[1] <= pressed[2] /\ pressed[2] <= pressed[3]
  BY <1>0 DEF CommandsInv, Presses
<1>2. PanelShows' /\ Started'
  BY <1>0, PanelKept, StartedKept
<1>3. \A x \in Start : StartAsked(x) => StartAsked(x)'
  BY <1>0, PressShifts
<1>4. /\ next.at = clock /\ next \in [at : {clock}, count : 1 .. 3]
      /\ next.count # 1 => clock - pressed[3] <= Ticks /\ pressed[3] \in Nat
      /\ next.count = 3 => pressed[3] - pressed[2] <= Ticks /\ pressed[2] \in Nat
  <2>1. CASE commandPress = Commands!NoPress
    BY <2>1 DEF Commands!nextCommandPress, Commands!NoPress
  <2>2. CASE commandPress # Commands!NoPress
    <3>1. /\ commandPress.at = pressed[3] /\ commandPress.count \in 1 .. 2 /\ pressed[3] \in Nat
          /\ commandPress.count = 2 => pressed[2] \in Nat /\ pressed[3] - pressed[2] <= Ticks
      BY <2>2 DEF CommandsInv, Presses
    <3>2. next = IF clock - pressed[3] <= Ticks THEN [at |-> clock, count |-> commandPress.count + 1]
                                                ELSE [at |-> clock, count |-> 1]
      BY <3>1 DEF Commands!nextCommandPress
    <3>. HIDE DEF next
    <3>. QED  BY <3>1, <3>2
  <2>. QED  BY <2>1, <2>2
<1>. HIDE DEF next
<1>5. /\ \A k \in 1 .. 3 : pressed'[k] = Commands!None \/ pressed'[k] \in 0 .. clock
      /\ pressed'[1] <= pressed'[2] /\ pressed'[2] <= pressed'[3]
  <2>1. \A k \in 1 .. 3 : k = 1 \/ k = 2 \/ k = 3
    OBVIOUS
  <2>. QED  BY <1>1, <2>1 DEF Commands!None
<1>6. CASE next.count >= 3
  <2>1. next.count = 3
    BY <1>4, <1>6
  <2>2. Presses'
    BY <1>0, <1>1, <1>5, <1>6 DEF Presses
  <2>3. PICK a \in Start : /\ asked' = Append(asked, a) /\ a.at = clock /\ a.key = "dictation"
                           /\ a.mode = "meeting" /\ a.chosen = Commands!NoPreferences
    <3>1. [key |-> "dictation", mode |-> "meeting", chosen |-> Commands!NoPreferences,
           at |-> clock] \in Start
      BY <1>1 DEF Start, Commands!Modes
    <3>. QED  BY <1>0, <1>6, <3>1
  <2>4. MeetingAsked(clock)'
    <3>1. \A k \in 1 .. 3 : k = 1 \/ k = 2 \/ k = 3
      OBVIOUS
    <3>2. \A k \in 1 .. 3 : pressed'[k] \in Nat => clock - pressed'[k] <= 2 * Ticks
      BY <1>1, <1>4, <2>1, <3>1, PartsAssumption
    <3>. QED  BY <1>0, <1>1, <1>4, <2>1, <3>2 DEF MeetingAsked
  <2>5. StartAsked(a)'
    <3>1. MeetingAsked(a.at)'
      BY <1>0, <2>3, <2>4 DEF MeetingAsked
    <3>. QED  BY <1>0, <1>1, <2>3, <3>1 DEF StartAsked
  <2>7. Asked'
    BY <1>3, <2>3, <2>5, AskedGrows
  <2>. QED  BY <1>2, <2>2, <2>7 DEF CommandsInv
<1>7. CASE ~(next.count >= 3)
  <2>1. next.count \in 1 .. 2
    BY <1>4, <1>7
  <2>2. Presses'
    <3>1. /\ commandPress' = next /\ commandPressTimer' = clock + Ticks
          /\ next \in [at : {clock}, count : 1 .. 2]
          /\ next.count = 2 => pressed[3] \in Nat /\ clock - pressed[3] <= Ticks
      BY <1>0, <1>4, <1>7, <2>1
    <3>. QED  BY <1>0, <1>1, <1>5, <3>1 DEF Presses
  <2>3. Asked'
    BY <1>0, <1>3, <1>7, AskedGrows
  <2>. QED  BY <1>2, <2>2, <2>3 DEF CommandsInv
<1>. QED  BY <1>6, <1>7

LEMMA TimerSteps ==
  ASSUME CommandsInv, Commands!CommandPressTimer
  PROVE  CommandsInv'
<1>0. /\ commandPressTimer # Commands!None /\ clock >= commandPressTimer
      /\ commandPress' = Commands!NoPress /\ commandPressTimer' = Commands!None
      /\ \/ asked' = asked
         \/ asked' = Append(asked, [key |-> "dictation", mode |-> "voice",
                                    chosen |-> Commands!NoPreferences, at |-> clock])
      /\ UNCHANGED <<clock, pressed, stored, saves, panel, started>>
  BY DEF Commands!CommandPressTimer, Commands!Ask, Commands!preferences
<1>1. Presses'
  BY <1>0 DEF CommandsInv, Presses
<1>2. VoiceAsked(clock)'
  <2>1. /\ clock \in Nat /\ commandPressTimer = pressed[3] + Ticks /\ pressed[3] \in Nat
        /\ \A k \in 1 .. 3 : pressed[k] = Commands!None \/ pressed[k] \in 0 .. clock
        /\ pressed[1] <= pressed[2] /\ pressed[2] <= pressed[3]
    BY <1>0 DEF CommandsInv, Presses
  <2>2. \A k \in 1 .. 3 : k = 1 \/ k = 2 \/ k = 3
    OBVIOUS
  <2>3. pressed[1] \in Int /\ pressed[2] \in Int
    BY <2>1 DEF Commands!None
  <2>4. pressed[3] <= clock - Ticks
    BY <1>0, <2>1, PartsAssumption
  <2>. QED  BY <1>0, <2>1, <2>2, <2>3, <2>4, PartsAssumption, SMTT(30) DEF VoiceAsked
<1>3. ASSUME asked' # asked
      PROVE  Asked'
  <2>0. clock \in Nat /\ clock <= clock'
    BY <1>0 DEF CommandsInv, Presses
  <2>1. PICK a \in Start : /\ asked' = Append(asked, a) /\ a.at = clock /\ a.key = "dictation"
                           /\ a.mode = "voice" /\ a.chosen = Commands!NoPreferences
    <3>1. [key |-> "dictation", mode |-> "voice", chosen |-> Commands!NoPreferences,
           at |-> clock] \in Start
      BY <2>0 DEF Start, Commands!Modes
    <3>. QED  BY <1>0, <1>3, <3>1
  <2>2. StartAsked(a)'
    <3>1. VoiceAsked(a.at)'
      BY <1>0, <1>2, <2>1 DEF VoiceAsked
    <3>. QED  BY <1>0, <2>0, <2>1, <3>1 DEF StartAsked
  <2>. QED  BY <1>0, <2>0, <2>1, <2>2, SameKeys, AskedGrows
<1>4. Asked'
  <2>1. CASE asked' = asked
    <3>1. clock \in Nat /\ clock <= clock'
      BY <1>0 DEF CommandsInv, Presses
    <3>. QED  BY <1>0, <2>1, <3>1, SameKeys, AskedGrows
  <2>. QED  BY <1>3, <2>1
<1>. QED  BY <1>0, <1>1, <1>4, PanelKept, StartedKept DEF CommandsInv

(* A start is asked for in another way.                                    *)
LEMMA AskSteps ==
  ASSUME CommandsInv, Commands!ModeCommand \/ Commands!PanelStarts
  PROVE  CommandsInv'
<1>0. UNCHANGED <<clock, commandPress, commandPressTimer, pressed, stored, saves, panel, started>>
  BY DEF Commands!ModeCommand, Commands!PanelStarts, Commands!preferences, Commands!keys
<1>1. PICK a \in Start : asked' = Append(asked, a) /\ StartAsked(a)'
  <2>1. CASE Commands!ModeCommand
    <3>1. PICK mode \in {"translation", "meeting"} :
            asked' = Append(asked, [key |-> "command", mode |-> mode,
                                    chosen |-> Commands!NoPreferences, at |-> Commands!None])
      BY <2>1 DEF Commands!ModeCommand, Commands!Ask
    <3>. DEFINE a == [key |-> "command", mode |-> mode, chosen |-> Commands!NoPreferences,
                      at |-> Commands!None]
    <3>2. a \in Start /\ a.key = "command" /\ a.chosen = Commands!NoPreferences
      BY DEF Start, Commands!Modes
    <3>. HIDE DEF a
    <3>3. StartAsked(a)'
      BY <3>2 DEF StartAsked
    <3>. QED  BY <3>1, <3>2, <3>3 DEF a
  <2>2. CASE Commands!PanelStarts
    <3>1. PICK mode \in Commands!Modes :
            asked' = Append(asked, [key |-> "panel", mode |-> mode,
                                    chosen |-> panel.chosen, at |-> Commands!None])
      BY <2>2 DEF Commands!PanelStarts, Commands!Ask
    <3>2. panel.chosen \in Chosen
      BY DEF CommandsInv, PanelShows
    <3>3. [key |-> "panel", mode |-> mode, chosen |-> panel.chosen, at |-> Commands!None] \in Start
      BY <3>2 DEF Start
    <3>4. PICK a \in Start : asked' = Append(asked, a) /\ a.key = "panel" /\ a.chosen = panel.chosen
      BY <3>1, <3>3
    <3>5. StartAsked(a)'
      BY <3>2, <3>4, Parsed DEF StartAsked
    <3>. QED  BY <3>4, <3>5
  <2>. QED  BY <2>1, <2>2
<1>2. Presses'
  BY <1>0 DEF CommandsInv, Presses
<1>3. Asked'
  <2>1. clock' \in Nat /\ clock <= clock'
    BY <1>0 DEF CommandsInv, Presses
  <2>. QED  BY <1>0, <1>1, <2>1, SameKeys, AskedGrows
<1>. QED  BY <1>0, <1>2, <1>3, PanelKept, StartedKept DEF CommandsInv

(* What is left when a start is taken from the ones asked for.             *)
Without(q, i) == SubSeq(q, 1, i - 1) \o SubSeq(q, i + 1, Len(q))

LEMMA RemovedIs ==
  ASSUME NEW S, NEW q \in Seq(S), NEW i \in DOMAIN q
  PROVE  /\ Without(q, i) \in Seq(S)
         /\ \A k \in DOMAIN Without(q, i) : \E j \in DOMAIN q :
              Without(q, i)[k] = q[j]
<1>. DEFINE u == SubSeq(q, 1, i - 1)  v == SubSeq(q, i + 1, Len(q))
<1>0. i \in 1 .. Len(q) /\ Len(q) \in Nat /\ DOMAIN q = 1 .. Len(q)
  OBVIOUS
<1>1. /\ u \in Seq(S) /\ Len(u) = i - 1 /\ \A k \in 1 .. i - 1 : u[k] = q[k]
  BY <1>0, SubSeqProperties
<1>2. /\ v \in Seq(S) /\ Len(v) = Len(q) - i /\ \A k \in 1 .. Len(q) - i : v[k] = q[i + k]
  BY <1>0, SubSeqProperties, SMTT(30)
<1>3. Without(q, i) = u \o v
  BY DEF Without
<1>. HIDE DEF u, v
<1>4. /\ u \o v \in Seq(S) /\ Len(u \o v) = Len(u) + Len(v)
      /\ \A k \in 1 .. Len(u) + Len(v) :
           (u \o v)[k] = IF k <= Len(u) THEN u[k] ELSE v[k - Len(u)]
  BY <1>1, <1>2, ConcatProperties
<1>5. DOMAIN (u \o v) = 1 .. Len(q) - 1
  <2>1. Len(u) + Len(v) = Len(q) - 1
    BY <1>0, <1>1, <1>2
  <2>. QED  BY <1>4, <2>1, LenProperties
<1>6. ASSUME NEW k \in 1 .. Len(q) - 1
      PROVE  \E j \in DOMAIN q : (u \o v)[k] = q[j]
  <2>1. CASE k <= i - 1
    <3>1. (u \o v)[k] = q[k] /\ k \in DOMAIN q
      BY <1>0, <1>1, <1>2, <1>4, <2>1
    <3>. QED  BY <3>1
  <2>2. CASE ~(k <= i - 1)
    <3>1. (u \o v)[k] = v[k - (i - 1)]
      <4>1. k \in 1 .. Len(u) + Len(v) /\ ~(k <= Len(u)) /\ Len(u) = i - 1
        BY <1>0, <1>1, <1>2, <2>2
      <4>. QED  BY <1>4, <4>1
    <3>2. k - (i - 1) \in 1 .. Len(q) - i
      BY <1>0, <2>2
    <3>3. v[k - (i - 1)] = q[i + (k - (i - 1))] /\ i + (k - (i - 1)) \in DOMAIN q
      BY <1>0, <1>2, <3>2
    <3>. QED  BY <3>1, <3>3
  <2>. QED  BY <2>1, <2>2
<1>. QED  BY <1>3, <1>4, <1>5, <1>6

LEMMA StartRecordingSteps ==
  ASSUME CommandsInv, NEW i \in DOMAIN asked, Commands!startRecording(i)
  PROVE  CommandsInv'
<1>0. /\ asked' = Without(asked, i)
      /\ UNCHANGED <<clock, commandPress, commandPressTimer, pressed, stored, saves, panel>>
      /\ started' = started \/ started' = Commands!commandRecording(asked[i])
  BY DEF Commands!startRecording, Commands!keys, Commands!preferences, Without
<1>1. asked \in Seq(Start) /\ \A j \in DOMAIN asked : asked[j] \in Start /\ StartAsked(asked[j])
  BY DEF CommandsInv, Asked
<1>2. Asked'
  <2>1. \A a \in Start : StartAsked(a) => StartAsked(a)'
    <3>1. clock' \in Nat /\ clock <= clock'
      BY <1>0 DEF CommandsInv, Presses
    <3>. QED  BY <1>0, <3>1, SameKeys
  <2>2. asked' \in Seq(Start) /\ \A k \in DOMAIN asked' :
            \E j \in DOMAIN asked : asked'[k] = asked[j]
    BY <1>0, <1>1, RemovedIs
  <2>. QED  BY <1>1, <2>1, <2>2 DEF Asked
<1>3. Started'
  <2>1. CASE started' = started
    BY <2>1, StartedKept
  <2>2. CASE started' = Commands!commandRecording(asked[i])
    <3>1. asked[i] \in Start /\ StartAsked(asked[i]) /\ PanelShows
      BY <1>1 DEF CommandsInv
    <3>. QED  BY <2>2, <3>1, RecordingIs, Zenon DEF Started
  <2>. QED  BY <1>0, <2>1, <2>2
<1>4. Presses'
  BY <1>0 DEF CommandsInv, Presses
<1>. QED  BY <1>0, <1>2, <1>3, <1>4, PanelKept DEF CommandsInv

LEMMA CommandsNextInv ==
  ASSUME CommandsInv, Commands!Next
  PROVE  CommandsInv'
<1>1. CASE Commands!StopRecording \/ Commands!Progress
  <2>1. UNCHANGED <<clock, commandPress, commandPressTimer, pressed, asked, started,
                    stored, saves, panel>>
    BY <1>1 DEF Commands!StopRecording, Commands!Progress, Commands!keys, Commands!preferences
  <2>. QED  BY <2>1, PanelKept, KeysKept
<1>2. CASE Commands!Tick
  <2>1. /\ clock' = clock + 1
        /\ UNCHANGED <<commandPress, commandPressTimer, pressed, asked, started, stored, saves, panel>>
    BY <1>2 DEF Commands!Tick, Commands!keys, Commands!preferences
  <2>2. Presses'
    BY <2>1 DEF CommandsInv, Presses
  <2>3. Asked'
    <3>1. clock' \in Nat /\ clock <= clock'
      BY <2>1 DEF CommandsInv, Presses
    <3>. QED  BY <2>1, <3>1, SameKeys, AskedGrows
  <2>. QED  BY <2>1, <2>2, <2>3, PanelKept, StartedKept DEF CommandsInv
<1>3. CASE \/ Commands!PanelOpens \/ Commands!PanelLoads \/ Commands!PanelCloses
           \/ Commands!UserChooses \/ Commands!saveRecordingPreferences
  BY <1>3, PanelSteps
<1>4. CASE Commands!handleDictationCommandPress \/ Commands!CommandPressTimer
  BY <1>4, KeySteps, TimerSteps
<1>5. CASE Commands!ModeCommand \/ Commands!PanelStarts
  BY <1>5, AskSteps
<1>6. ASSUME NEW i \in DOMAIN asked, Commands!startRecording(i)
      PROVE  CommandsInv'
  BY <1>6, StartRecordingSteps
<1>. QED  BY <1>1, <1>2, <1>3, <1>4, <1>5, <1>6 DEF Commands!Next

---------------------------------------------------------------------------
(* The translation of pasted text.  Sequences are joined by a recursive    *)
(* function, so that what is said of them is proved by induction: first    *)
(* over the numbers, then over sequences.                                  *)

(* Induction on a set of numbers: a smallest number outside it would have  *)
(* a predecessor in it.                                                    *)
LEMMA Inductive ==
  ASSUME NEW S, 0 \in S, \A n \in Nat : n \in S => n + 1 \in S
  PROVE  \A n \in Nat : n \in S
<1>. DEFINE R == OpToRel(<, Nat)
            T == Nat \ S
<1>1. IsWellFoundedOn(R, Nat)
  BY NatLessThanWellFounded, Zenon
<1>2. \A x, y \in Nat : x < y => <<x, y>> \in R
  BY DEF OpToRel
<1>. HIDE DEF R
<1>3. SUFFICES ASSUME T # {}  PROVE FALSE
  OBVIOUS
<1>4. PICK x \in T : \A y \in T : ~(<<y, x>> \in R)
  BY <1>1, <1>3, WFMin
<1>5. x # 0 /\ x - 1 \in Nat /\ x - 1 < x
  BY <1>4
<1>6. x - 1 \in S
  BY <1>2, <1>4, <1>5
<1>. QED  BY <1>4, <1>5, <1>6

(* FlattenSeq is the last of the sequences that join one after the other.  *)
Joining(ss, g, n) ==
  g = [i \in 1 .. n |-> IF i = 1 THEN ss[i] ELSE g[i - 1] \o ss[i]]

LEMMA JoiningExists ==
  ASSUME NEW ss, NEW n \in Nat
  PROVE  \E g : Joining(ss, g, n)
<1>. DEFINE S == {m \in Nat : \E g : Joining(ss, g, m)}
<1>1. 0 \in S
  <2>1. Joining(ss, [i \in 1 .. 0 |-> 0], 0)
    BY DEF Joining
  <2>. QED  BY <2>1
<1>2. ASSUME NEW m \in Nat, m \in S  PROVE m + 1 \in S
  <2>1. PICK g : Joining(ss, g, m)
    BY <1>2
  <2>. DEFINE h == [i \in 1 .. m + 1 |-> IF i \in 1 .. m THEN g[i]
                      ELSE IF i = 1 THEN ss[i] ELSE g[i - 1] \o ss[i]]
  <2>2. Joining(ss, h, m + 1)
    <3>1. \A i \in 1 .. m : g[i] = IF i = 1 THEN ss[i] ELSE g[i - 1] \o ss[i]
      BY <2>1 DEF Joining
    <3>2. ASSUME NEW i \in 1 .. m + 1  PROVE h[i] = IF i = 1 THEN ss[i] ELSE h[i - 1] \o ss[i]
      <4>1. i # 1 => i - 1 \in 1 .. m /\ h[i - 1] = g[i - 1]
        OBVIOUS
      <4>2. CASE i \in 1 .. m
        <5>1. h[i] = g[i]
          BY <4>2
        <5>. QED  BY <3>1, <4>1, <4>2, <5>1
      <4>3. CASE i \notin 1 .. m
        <5>1. h[i] = IF i = 1 THEN ss[i] ELSE g[i - 1] \o ss[i]
          BY <4>3
        <5>. QED  BY <4>1, <5>1
      <4>. QED  BY <4>2, <4>3
    <3>3. h = [i \in 1 .. m + 1 |-> h[i]]
      OBVIOUS
    <3>. HIDE DEF h
    <3>. QED  BY <3>2, <3>3 DEF Joining
  <2>. QED  BY <2>2
<1>. HIDE DEF S
<1>3. n \in S
  BY <1>1, <1>2, Inductive
<1>. QED  BY <1>3 DEF S

LEMMA FlattenIs ==
  ASSUME NEW ss, Len(ss) \in Nat \ {0}
  PROVE  \E g : Joining(ss, g, Len(ss)) /\ Paste!FlattenSeq(ss) = g[Len(ss)]
<1>. DEFINE f == CHOOSE g : Joining(ss, g, Len(ss))
<1>1. Joining(ss, f, Len(ss))
  BY JoiningExists
<1>2. Paste!FlattenSeq(ss) = f[Len(ss)]
  BY DEF Paste!FlattenSeq, Joining
<1>. QED  BY <1>1, <1>2

LEMMA Joined ==
  ASSUME NEW ss, NEW g, NEW n \in Nat, Joining(ss, g, n), NEW i \in 1 .. n
  PROVE  g[i] = IF i = 1 THEN ss[i] ELSE g[i - 1] \o ss[i]
BY DEF Joining

Alike(ss, tt, n) == \A i \in 1 .. n : ss[i] = tt[i]

LEMMA JoiningAgree ==
  ASSUME NEW ss, NEW tt, NEW g, NEW h, NEW n \in Nat, NEW m \in Nat, n <= m,
         Joining(ss, g, n), Joining(tt, h, m), Alike(ss, tt, n)
  PROVE  Alike(g, h, n)
<1>. DEFINE S == {i \in Nat : i \in 1 .. n => g[i] = h[i]}
<1>1. 0 \in S
  OBVIOUS
<1>2. ASSUME NEW i \in Nat, i \in S  PROVE i + 1 \in S
  <2>1. SUFFICES ASSUME i + 1 \in 1 .. n  PROVE g[i + 1] = h[i + 1]
    OBVIOUS
  <2>2. /\ g[i + 1] = IF i + 1 = 1 THEN ss[i + 1] ELSE g[(i + 1) - 1] \o ss[i + 1]
        /\ h[i + 1] = IF i + 1 = 1 THEN tt[i + 1] ELSE h[(i + 1) - 1] \o tt[i + 1]
    <3>1. i + 1 \in 1 .. m
      BY <2>1
    <3>. QED  BY <2>1, <3>1, Joined
  <2>3. (i + 1) - 1 = i /\ ss[i + 1] = tt[i + 1]
    BY <2>1 DEF Alike
  <2>4. i + 1 # 1 => g[i] = h[i]
    BY <1>2, <2>1
  <2>. QED  BY <2>2, <2>3, <2>4
<1>. HIDE DEF S
<1>3. \A i \in Nat : i \in S
  BY <1>1, <1>2, Inductive
<1>. QED  BY <1>3 DEF S, Alike

LEMMA FlattenEmpty == Paste!FlattenSeq(<<>>) = <<>>
BY DEF Paste!FlattenSeq

LEMMA FlattenType ==
  ASSUME NEW S, NEW ss \in Seq(Seq(S))
  PROVE  Paste!FlattenSeq(ss) \in Seq(S)
<1>1. Len(ss) \in Nat /\ \A i \in 1 .. Len(ss) : ss[i] \in Seq(S)
  BY LenProperties
<1>2. CASE Len(ss) = 0
  <2>1. ss = <<>> /\ <<>> \in Seq(S)
    BY <1>2, EmptySeq
  <2>. QED  BY <2>1, FlattenEmpty
<1>3. CASE Len(ss) # 0
  <2>1. PICK g : Joining(ss, g, Len(ss)) /\ Paste!FlattenSeq(ss) = g[Len(ss)]
    BY <1>1, <1>3, FlattenIs
  <2>. DEFINE T == {i \in Nat : i \in 1 .. Len(ss) => g[i] \in Seq(S)}
  <2>2. 0 \in T
    OBVIOUS
  <2>3. ASSUME NEW i \in Nat, i \in T  PROVE i + 1 \in T
    <3>1. SUFFICES ASSUME i + 1 \in 1 .. Len(ss)  PROVE g[i + 1] \in Seq(S)
      OBVIOUS
    <3>2. g[i + 1] = IF i + 1 = 1 THEN ss[i + 1] ELSE g[(i + 1) - 1] \o ss[i + 1]
      BY <1>1, <2>1, <3>1, Joined
    <3>3. (i + 1) - 1 = i /\ ss[i + 1] \in Seq(S)
      BY <1>1, <3>1
    <3>4. i + 1 # 1 => g[i] \in Seq(S)
      BY <1>1, <2>3, <3>1
    <3>5. i + 1 # 1 => g[i] \o ss[i + 1] \in Seq(S)
      BY <3>3, <3>4, ConcatProperties
    <3>. QED  BY <3>2, <3>3, <3>5
  <2>. HIDE DEF T
  <2>4. Len(ss) \in T
    BY <1>1, <2>2, <2>3, Inductive
  <2>5. Len(ss) \in 1 .. Len(ss)
    BY <1>1, <1>3
  <2>. QED  BY <2>1, <2>4, <2>5 DEF T
<1>. QED  BY <1>2, <1>3

LEMMA FlattenAppend ==
  ASSUME NEW S, NEW ss \in Seq(Seq(S)), NEW x \in Seq(S)
  PROVE  Paste!FlattenSeq(Append(ss, x)) = Paste!FlattenSeq(ss) \o x
<1>. DEFINE tt == Append(ss, x)
            n == Len(ss)
<1>1. n \in Nat
  BY LenProperties
<1>2. /\ Len(tt) = n + 1 /\ tt[n + 1] = x /\ \A i \in 1 .. n : tt[i] = ss[i]
  BY AppendProperties
<1>. HIDE DEF tt
<1>3. PICK h : Joining(tt, h, n + 1) /\ Paste!FlattenSeq(tt) = h[n + 1]
  <2>1. Len(tt) \in Nat \ {0}
    BY <1>1, <1>2
  <2>. QED  BY <1>2, <2>1, FlattenIs
<1>4. h[n + 1] = IF n + 1 = 1 THEN tt[n + 1] ELSE h[(n + 1) - 1] \o tt[n + 1]
  BY <1>1, <1>3, Joined
<1>5. CASE n = 0
  <2>1. ss = <<>>
    BY <1>5, EmptySeq
  <2>2. <<>> \o x = x
    BY ConcatEmptySeq
  <2>. QED  BY <1>2, <1>3, <1>4, <1>5, <2>1, <2>2, FlattenEmpty DEF tt
<1>6. CASE n # 0
  <2>1. PICK g : Joining(ss, g, n) /\ Paste!FlattenSeq(ss) = g[n]
    BY <1>1, <1>6, FlattenIs
  <2>2. \A i \in 1 .. n : g[i] = h[i]
    <3>1. n + 1 \in Nat /\ n <= n + 1 /\ Alike(ss, tt, n)
      BY <1>1, <1>2 DEF Alike
    <3>. HIDE DEF n
    <3>2. Alike(g, h, n)
      BY <1>1, <1>3, <2>1, <3>1, JoiningAgree
    <3>. QED  BY <3>2 DEF Alike
  <2>3. n \in 1 .. n /\ (n + 1) - 1 = n /\ n + 1 # 1
    BY <1>1, <1>6
  <2>4. h[n + 1] = g[n] \o x
    BY <1>2, <1>4, <2>2, <2>3
  <2>. QED  BY <1>3, <2>1, <2>4 DEF tt
<1>. QED  BY <1>5, <1>6

LEMMA InductiveSeq ==
  ASSUME NEW S, NEW T, <<>> \in T,
         \A s \in Seq(S), x \in S : s \in T => Append(s, x) \in T
  PROVE  \A s \in Seq(S) : s \in T
<1>. DEFINE N == {n \in Nat : \A s \in Seq(S) : Len(s) = n => s \in T}
<1>1. 0 \in N
  BY EmptySeq
<1>2. ASSUME NEW n \in Nat, n \in N  PROVE n + 1 \in N
  <2>1. SUFFICES ASSUME NEW s \in Seq(S), Len(s) = n + 1  PROVE s \in T
    OBVIOUS
  <2>2. s # <<>>
    BY <2>1, EmptySeq
  <2>3. PICK u \in Seq(S), x \in S : s = Append(u, x)
    BY <2>2, SequenceEmptyOrAppend
  <2>4. Len(s) = Len(u) + 1 /\ Len(u) \in Nat
    BY <2>3, AppendProperties, LenProperties
  <2>5. Len(u) = n
    BY <2>1, <2>4
  <2>6. u \in T
    BY <1>2, <2>5
  <2>. QED  BY <2>3, <2>6
<1>. HIDE DEF N
<1>3. \A n \in Nat : n \in N
  BY <1>1, <1>2, Inductive
<1>. QED  BY <1>3, LenProperties DEF N

LEMMA Assoc ==
  ASSUME NEW S
  PROVE  \A a, b, c \in Seq(S) : (a \o b) \o c = a \o (b \o c)
BY ConcatAssociative

\* Three sequences joined, in the two orders.
LEMMA AssocOf ==
  ASSUME NEW S, NEW a \in Seq(S), NEW b \in Seq(S), NEW c \in Seq(S)
  PROVE  (a \o b) \o c = a \o (b \o c)
BY Assoc

LEMMA AssocNested ==
  ASSUME NEW S, NEW a \in Seq(Seq(S)), NEW b \in Seq(Seq(S)), NEW c \in Seq(Seq(S))
  PROVE  (a \o b) \o c = a \o (b \o c)
BY ConcatAssociative, SMTT(30)

\* Appending to the second of two joined sequences of sequences appends to the whole.
LEMMA ConcatAppendNested ==
  ASSUME NEW S, NEW a \in Seq(Seq(S)), NEW b \in Seq(Seq(S)), NEW x \in Seq(S)
  PROVE  a \o Append(b, x) = Append(a \o b, x)
<1>1. a \o b \in Seq(Seq(S)) /\ <<x>> \in Seq(Seq(S))
  BY ConcatProperties
<1>2. Append(b, x) = b \o <<x>> /\ Append(a \o b, x) = (a \o b) \o <<x>>
  BY <1>1, AppendIsConcat
<1>. DEFINE y == <<x>>
<1>3. y \in Seq(Seq(S)) /\ Append(b, x) = b \o y /\ Append(a \o b, x) = (a \o b) \o y
  BY <1>1, <1>2
<1>. HIDE DEF y
<1>4. (a \o b) \o y = a \o (b \o y)
  BY <1>3, AssocNested, SMTT(30)
<1>. QED  BY <1>3, <1>4

LEMMA AppendPlaces ==
  ASSUME NEW S, NEW s \in Seq(S), NEW x \in S
  PROVE  /\ DOMAIN Append(s, x) = 1 .. Len(s) + 1
         /\ \A i \in 1 .. Len(s) : Append(s, x)[i] = s[i]
         /\ Append(s, x)[Len(s) + 1] = x
BY AppendProperties, LenProperties

LEMMA FlattenOne ==
  ASSUME NEW S, NEW x \in Seq(S)
  PROVE  Paste!FlattenSeq(<<x>>) = x
<1>1. <<>> \in Seq(Seq(S)) /\ Append(<<>>, x) = <<x>>
  BY EmptySeq
<1>2. Paste!FlattenSeq(<<x>>) = <<>> \o x
  BY <1>1, FlattenAppend, FlattenEmpty
<1>. QED  BY <1>2, ConcatEmptySeq

LEMMA FlattenConcat ==
  ASSUME NEW S, NEW ss \in Seq(Seq(S)), NEW tt \in Seq(Seq(S))
  PROVE  Paste!FlattenSeq(ss \o tt) = Paste!FlattenSeq(ss) \o Paste!FlattenSeq(tt)
<1>. DEFINE T == {u \in Seq(Seq(S)) :
                   Paste!FlattenSeq(ss \o u) = Paste!FlattenSeq(ss) \o Paste!FlattenSeq(u)}
<1>1. <<>> \in T
  <2>1. <<>> \in Seq(Seq(S)) /\ ss \o <<>> = ss
    BY EmptySeq, ConcatEmptySeq
  <2>2. Paste!FlattenSeq(ss) \o <<>> = Paste!FlattenSeq(ss)
    BY FlattenType, ConcatEmptySeq
  <2>. QED  BY <2>1, <2>2, FlattenEmpty
<1>2. ASSUME NEW u \in Seq(Seq(S)), NEW x \in Seq(S), u \in T  PROVE Append(u, x) \in T
  <2>1. Append(u, x) \in Seq(Seq(S)) /\ ss \o u \in Seq(Seq(S)) /\ <<x>> \in Seq(Seq(S))
    BY AppendProperties, ConcatProperties
  <2>2. ss \o Append(u, x) = Append(ss \o u, x)
    BY ConcatAppendNested
  <2>3. Paste!FlattenSeq(Append(ss \o u, x)) = Paste!FlattenSeq(ss \o u) \o x
    BY <2>1, FlattenAppend
  <2>4. Paste!FlattenSeq(Append(u, x)) = Paste!FlattenSeq(u) \o x
    BY FlattenAppend
  <2>5. (Paste!FlattenSeq(ss) \o Paste!FlattenSeq(u)) \o x
          = Paste!FlattenSeq(ss) \o (Paste!FlattenSeq(u) \o x)
    <3>. DEFINE p == Paste!FlattenSeq(ss)
                q == Paste!FlattenSeq(u)
    <3>1. p \in Seq(S) /\ q \in Seq(S)
      BY FlattenType
    <3>. HIDE DEF T, p, q
    <3>2. (p \o q) \o x = p \o (q \o x)
      BY <3>1, AssocOf
    <3>. QED  BY <3>2 DEF p, q
  <2>6. Paste!FlattenSeq(ss \o u) = Paste!FlattenSeq(ss) \o Paste!FlattenSeq(u)
    BY <1>2
  <2>7. Paste!FlattenSeq(ss \o Append(u, x)) = Paste!FlattenSeq(ss) \o Paste!FlattenSeq(Append(u, x))
    BY <2>2, <2>3, <2>4, <2>5, <2>6
  <2>. QED  BY <2>1, <2>7
<1>. HIDE DEF T
<1>3. tt \in T
  BY <1>1, <1>2, InductiveSeq
<1>. QED  BY <1>3 DEF T

Each(ss) == [i \in DOMAIN ss |-> Paste!FlattenSeq(ss[i])]

LEMMA FlattenFlatten ==
  ASSUME NEW S, NEW ss \in Seq(Seq(Seq(S)))
  PROVE  Paste!FlattenSeq(Paste!FlattenSeq(ss)) = Paste!FlattenSeq(Each(ss))
<1>. DEFINE T == {u \in Seq(Seq(Seq(S))) :
                   /\ Each(u) \in Seq(Seq(S))
                   /\ Paste!FlattenSeq(Paste!FlattenSeq(u)) = Paste!FlattenSeq(Each(u))}
<1>1. <<>> \in T
  <2>1. <<>> \in Seq(Seq(Seq(S))) /\ <<>> \in Seq(Seq(S)) /\ Each(<<>>) = <<>>
    BY EmptySeq DEF Each
  <2>. QED  BY <2>1, FlattenEmpty
<1>2. ASSUME NEW u \in Seq(Seq(Seq(S))), NEW x \in Seq(Seq(S)), u \in T
      PROVE  Append(u, x) \in T
  <2>1. Append(u, x) \in Seq(Seq(Seq(S))) /\ Paste!FlattenSeq(x) \in Seq(S)
    BY AppendProperties, FlattenType
  <2>2. Each(u) \in Seq(Seq(S)) /\ Append(Each(u), Paste!FlattenSeq(x)) \in Seq(Seq(S))
    BY <1>2, <2>1, AppendProperties
  <2>3. Each(Append(u, x)) = Append(Each(u), Paste!FlattenSeq(x))
    <3>1. /\ DOMAIN u = 1 .. Len(u) /\ Len(u) \in Nat
          /\ DOMAIN Append(u, x) = 1 .. Len(u) + 1
          /\ \A i \in 1 .. Len(u) : Append(u, x)[i] = u[i]
          /\ Append(u, x)[Len(u) + 1] = x
      BY <2>1, LenProperties, AppendProperties
    <3>2. DOMAIN Each(u) = 1 .. Len(u) /\ Len(Each(u)) = Len(u)
      <4>1. DOMAIN Each(u) = DOMAIN u
        BY DEF Each
      <4>2. DOMAIN Each(u) = 1 .. Len(Each(u)) /\ Len(Each(u)) \in Nat
        BY <2>2, LenProperties
      <4>. QED  BY <3>1, <4>1, <4>2
    <3>3. /\ DOMAIN Append(Each(u), Paste!FlattenSeq(x)) = 1 .. Len(u) + 1
          /\ \A i \in 1 .. Len(u) : Append(Each(u), Paste!FlattenSeq(x))[i] = Each(u)[i]
          /\ Append(Each(u), Paste!FlattenSeq(x))[Len(u) + 1] = Paste!FlattenSeq(x)
      BY <2>1, <2>2, <3>2, AppendPlaces, SMTT(30)
    <3>4. ASSUME NEW i \in 1 .. Len(u) + 1
          PROVE  Paste!FlattenSeq(Append(u, x)[i]) = Append(Each(u), Paste!FlattenSeq(x))[i]
      <4>1. CASE i = Len(u) + 1
        BY <3>1, <3>3, <4>1
      <4>2. CASE i # Len(u) + 1
        <5>1. i \in 1 .. Len(u)
          BY <3>1, <4>2
        <5>2. Each(u)[i] = Paste!FlattenSeq(u[i])
          BY <3>1, <5>1 DEF Each
        <5>. QED  BY <3>1, <3>3, <5>1, <5>2
      <4>. QED  BY <4>1, <4>2
    <3>5. Append(Each(u), Paste!FlattenSeq(x)) =
            [i \in 1 .. Len(u) + 1 |-> Append(Each(u), Paste!FlattenSeq(x))[i]]
      <4>1. Append(Each(u), Paste!FlattenSeq(x)) \in [1 .. Len(u) + 1 -> Seq(S)]
        BY <2>2, <3>3, LenProperties
      <4>. QED  BY <4>1
    <3>6. Each(Append(u, x)) = [i \in 1 .. Len(u) + 1 |-> Paste!FlattenSeq(Append(u, x)[i])]
      BY <3>1 DEF Each
    <3>. QED  BY <3>4, <3>5, <3>6
  <2>4. Paste!FlattenSeq(Append(u, x)) = Paste!FlattenSeq(u) \o x
    BY FlattenAppend
  <2>5. Paste!FlattenSeq(Paste!FlattenSeq(u) \o x)
          = Paste!FlattenSeq(Paste!FlattenSeq(u)) \o Paste!FlattenSeq(x)
    BY FlattenType, FlattenConcat, SMTT(30)
  <2>6. Paste!FlattenSeq(Append(Each(u), Paste!FlattenSeq(x)))
          = Paste!FlattenSeq(Each(u)) \o Paste!FlattenSeq(x)
    BY <2>1, <2>2, FlattenAppend
  <2>7. Paste!FlattenSeq(Paste!FlattenSeq(u)) = Paste!FlattenSeq(Each(u))
    BY <1>2
  <2>8. Paste!FlattenSeq(Paste!FlattenSeq(Append(u, x))) = Paste!FlattenSeq(Each(Append(u, x)))
    BY <2>3, <2>4, <2>5, <2>6, <2>7
  <2>. QED  BY <2>1, <2>2, <2>3, <2>8
<1>. HIDE DEF T
<1>3. ss \in T
  BY <1>1, <1>2, InductiveSeq
<1>. QED  BY <1>3 DEF T

(* How often P goes into L, rounded up, and what the multiples of P reach. *)
LEMMA RoundedUp ==
  ASSUME NEW P \in Nat \ {0}, NEW L \in Nat
  PROVE  /\ (L + P - 1) \div P \in Nat
         /\ L <= ((L + P - 1) \div P) * P
         /\ ((L + P - 1) \div P) * P <= L + P - 1
<1>. DEFINE a == L + P - 1
<1>1. a \in Nat
  OBVIOUS
<1>. HIDE DEF a
<1>2. a \div P \in Nat
  BY <1>1
<1>3. a = P * (a \div P) + (a % P) /\ a % P \in 0 .. P - 1
  BY <1>1
<1>4. P * (a \div P) = (a \div P) * P
  BY <1>2
<1>5. P * (a \div P) \in Nat
  BY <1>2
<1>. HIDE DEF a
<1>6. (a \div P) * P <= a /\ a <= (a \div P) * P + P - 1
  BY <1>1, <1>3, <1>4, <1>5
<1>7. (a \div P) * P \in Nat
  BY <1>4, <1>5
<1>8. L <= (a \div P) * P /\ (a \div P) * P <= L + P - 1
  BY <1>6, <1>7 DEF a
<1>. QED  BY <1>2, <1>8 DEF a

LEMMA Multiples ==
  ASSUME NEW P \in Nat \ {0}, NEW n \in Nat
  PROVE  /\ n * P \in Nat /\ 0 * P = 0 /\ (n + 1) * P = n * P + P
OBVIOUS

LEMMA MultiplesBelow ==
  ASSUME NEW P \in Nat \ {0}, NEW m \in Nat, NEW n \in Nat, m < n
  PROVE  m * P + P <= n * P
<1>. DEFINE S == {k \in Nat : m * P + P <= (m + 1 + k) * P}
<1>1. 0 \in S
  <2>1. (m + 1) * P = m * P + P /\ (m + 1) * P \in Nat
    BY Multiples
  <2>2. m + 1 + 0 = m + 1
    OBVIOUS
  <2>. QED  BY <2>1, <2>2
<1>2. ASSUME NEW k \in Nat, k \in S  PROVE k + 1 \in S
  <2>1. m + 1 + k \in Nat /\ m + 1 + (k + 1) = (m + 1 + k) + 1
    OBVIOUS
  <2>2. ((m + 1 + k) + 1) * P = (m + 1 + k) * P + P /\ (m + 1 + k) * P \in Nat
    BY <2>1, Multiples
  <2>3. m * P \in Nat
    BY Multiples
  <2>4. m * P + P <= (m + 1 + k) * P
    BY <1>2
  <2>5. m * P + P <= (m + 1 + (k + 1)) * P
    BY <2>1, <2>2, <2>3, <2>4
  <2>. QED  BY <2>5
<1>. HIDE DEF S
<1>3. n - m - 1 \in S
  <2>1. n - m - 1 \in Nat
    OBVIOUS
  <2>. QED  BY <1>1, <1>2, <2>1, Inductive
<1>4. m + 1 + (n - m - 1) = n
  OBVIOUS
<1>. QED  BY <1>3, <1>4 DEF S

Cuts(word) == (Len(word) + PartLimit - 1) \div PartLimit

Fitting(S) == {s \in Seq(S) : Len(s) <= PartLimit}

(* Where the n-th part of a word begins and ends.                          *)
LEMMA CutPlaces ==
  ASSUME NEW S, NEW w \in Seq(S), NEW n \in 1 .. Cuts(w)
  PROVE  LET low == (n - 1) * PartLimit  high == Paste!Least(n * PartLimit, Len(w))
         IN /\ low \in Nat /\ high \in low .. Len(w) /\ high - low <= PartLimit /\ low < Len(w)
            /\ n < Cuts(w) => high = n * PartLimit
            /\ n = Cuts(w) => high = Len(w)
<1>. DEFINE L == Len(w)
            P == PartLimit
            q == (L + P - 1) \div P
            low == (n - 1) * P
            high == Paste!Least(n * P, L)
<1>1. P \in Nat \ {0} /\ L \in Nat /\ Cuts(w) = q
  BY PartsAssumption, LenProperties DEF Cuts
<1>. HIDE DEF L, P
<1>2. q \in Nat /\ L <= q * P /\ q * P <= L + P - 1
  BY <1>1, RoundedUp
<1>. HIDE DEF q
<1>3. n \in Nat /\ n - 1 \in Nat /\ n - 1 < q /\ n <= q
  BY <1>1, <1>2
<1>4. low \in Nat /\ n * P = low + P
  <2>1. (n - 1) + 1 = n
    BY <1>3
  <2>2. (n - 1) * P \in Nat /\ ((n - 1) + 1) * P = (n - 1) * P + P
    BY <1>1, <1>3, Multiples
  <2>. QED  BY <2>1, <2>2
<1>5. q * P \in Nat
  BY <1>1, <1>2, Multiples
<1>6. low + P <= q * P
  BY <1>1, <1>2, <1>3, MultiplesBelow
<1>7. n < q => n * P + P <= q * P
  BY <1>1, <1>2, <1>3, MultiplesBelow
<1>8. n = q => L <= n * P
  BY <1>2
<1>. HIDE DEF low
<1>9. low < L
  BY <1>1, <1>2, <1>4, <1>5, <1>6
<1>10. n < q => n * P < L
  BY <1>1, <1>2, <1>4, <1>5, <1>7
<1>11. high = IF n * P <= L THEN n * P ELSE L
  BY DEF Paste!Least
<1>. HIDE DEF high
<1>12. /\ high \in low .. L /\ high - low <= P
  BY <1>1, <1>4, <1>9, <1>11
<1>13. (n < q => high = n * P) /\ (n = q => high = L)
  BY <1>1, <1>4, <1>8, <1>10, <1>11
<1>. QED  BY <1>1, <1>4, <1>9, <1>12, <1>13 DEF L, P, q, low, high

(* Cut or not, the parts of a word fit and are the word.                   *)
LEMMA SplitWhole ==
  ASSUME NEW S, NEW w \in Seq(S)
  PROVE  /\ Paste!splitOversizedWord(w) \in Seq(Fitting(S))
         /\ Paste!FlattenSeq(Paste!splitOversizedWord(w)) = w
<1>. DEFINE q == Cuts(w)
            parts == Paste!splitOversizedWord(w)
            low(n) == (n - 1) * PartLimit
            high(n) == Paste!Least(n * PartLimit, Len(w))
<1>1. PartLimit \in Nat \ {0} /\ Len(w) \in Nat /\ DOMAIN w = 1 .. Len(w)
      /\ \A i \in 1 .. Len(w) : w[i] \in S
  BY PartsAssumption, LenProperties
<1>2. q \in Nat /\ Len(w) <= q * PartLimit /\ q * PartLimit <= Len(w) + PartLimit - 1
  BY <1>1, RoundedUp DEF Cuts
<1>3. parts = [n \in 1 .. q |-> SubSeq(w, low(n) + 1, high(n))]
  BY DEF Paste!splitOversizedWord, Cuts
<1>. HIDE DEF parts, q
<1>4. ASSUME NEW n \in 1 .. q
      PROVE  /\ low(n) \in Nat /\ high(n) \in low(n) .. Len(w) /\ high(n) - low(n) <= PartLimit
             /\ low(n) < Len(w)
             /\ (n < q => high(n) = n * PartLimit) /\ (n = q => high(n) = Len(w))
  BY CutPlaces DEF q
<1>. HIDE DEF low, high
<1>5. ASSUME NEW n \in 1 .. q  PROVE SubSeq(w, low(n) + 1, high(n)) \in Fitting(S)
  <2>1. low(n) + 1 \in Int /\ high(n) \in Int /\ \A i \in low(n) + 1 .. high(n) : w[i] \in S
    BY <1>1, <1>4
  <2>2. /\ SubSeq(w, low(n) + 1, high(n)) \in Seq(S)
        /\ Len(SubSeq(w, low(n) + 1, high(n)))
             = IF low(n) + 1 <= high(n) THEN high(n) - (low(n) + 1) + 1 ELSE 0
    BY <2>1, SubSeqProperties
  <2>3. Len(SubSeq(w, low(n) + 1, high(n))) <= PartLimit
    BY <1>1, <1>4, <2>1, <2>2
  <2>. QED  BY <2>2, <2>3 DEF Fitting
<1>6. parts \in Seq(Fitting(S)) /\ Len(parts) = q
  <2>1. parts \in [1 .. q -> Fitting(S)]
    BY <1>3, <1>5
  <2>. QED  BY <1>2, <2>1
<1>7. Paste!FlattenSeq(parts) = w
  <2>1. CASE q = 0
    <3>1. Len(w) = 0
      <4>1. 0 * PartLimit = 0
        BY <1>1, Multiples
      <4>. QED  BY <1>1, <1>2, <2>1, <4>1
    <3>2. w = <<>> /\ parts = <<>>
      BY <1>6, <2>1, <3>1, EmptySeq
    <3>. QED  BY <3>2, FlattenEmpty
  <2>2. CASE q # 0
    <3>1. PICK g : Joining(parts, g, q) /\ Paste!FlattenSeq(parts) = g[q]
      BY <1>2, <1>6, <2>2, FlattenIs
    <3>. DEFINE T == {n \in Nat : n \in 1 .. q => g[n] = SubSeq(w, 1, high(n))}
    <3>2. 0 \in T
      OBVIOUS
    <3>3. ASSUME NEW n \in Nat, n \in T  PROVE n + 1 \in T
      <4>1. SUFFICES ASSUME n + 1 \in 1 .. q  PROVE g[n + 1] = SubSeq(w, 1, high(n + 1))
        OBVIOUS
      <4>2. g[n + 1] = IF n + 1 = 1 THEN parts[n + 1] ELSE g[(n + 1) - 1] \o parts[n + 1]
        BY <1>2, <3>1, <4>1, Joined
      <4>3. parts[n + 1] = SubSeq(w, low(n + 1) + 1, high(n + 1))
        BY <1>3, <4>1
      <4>4. (n + 1) - 1 = n /\ low(n + 1) = n * PartLimit
        BY DEF low
      <4>5. CASE n = 0
        <5>1. low(n + 1) + 1 = 1
          BY <1>1, <4>4, <4>5, Multiples
        <5>2. g[n + 1] = parts[n + 1]
          BY <4>2, <4>5
        <5>. QED  BY <4>3, <5>1, <5>2
      <4>6. CASE n # 0
        <5>1. n \in 1 .. q /\ n < q
          BY <1>2, <4>1, <4>6
        <5>2. g[n] = SubSeq(w, 1, high(n)) /\ high(n) = n * PartLimit
          BY <1>4, <3>3, <5>1
        <5>3. high(n) = low(n + 1)
          BY <4>4, <5>2
        <5>4. /\ low(n + 1) \in 0 .. Len(w) /\ high(n + 1) \in low(n + 1) .. Len(w)
          BY <1>1, <1>4, <4>1
        <5>5. SubSeq(w, 1, low(n + 1)) \o SubSeq(w, low(n + 1) + 1, high(n + 1))
                = SubSeq(w, 1, high(n + 1))
          <6>1. 1 \in 1 .. Len(w) + 1 /\ low(n + 1) \in 1 - 1 .. Len(w)
            BY <1>1, <5>4
          <6>. QED  BY <5>4, <6>1, ConcatAdjacentSubSeq
        <5>6. g[n + 1] = g[n] \o parts[n + 1]
          <6>1. n + 1 # 1 /\ (n + 1) - 1 = n
            BY <4>6
          <6>. QED  BY <4>2, <6>1
        <5>. QED  BY <4>3, <5>2, <5>3, <5>5, <5>6
      <4>. QED  BY <4>5, <4>6
    <3>. HIDE DEF T
    <3>4. q \in T
      BY <1>2, <3>2, <3>3, Inductive
    <3>5. g[q] = SubSeq(w, 1, high(q))
      BY <1>2, <2>2, <3>4 DEF T
    <3>6. high(q) = Len(w)
      BY <1>2, <1>4, <2>2
    <3>7. SubSeq(w, 1, Len(w)) = w
      BY SubSeqFull
    <3>. QED  BY <3>1, <3>5, <3>6, <3>7
  <2>. QED  BY <2>1, <2>2
<1>. QED  BY <1>6, <1>7 DEF parts

Words == [length : Nat, ends : BOOLEAN]
Characters == Nat \X Nat

(* The text as it was pasted: its words, each with its space.              *)
Spaced(words) == [i \in DOMAIN words |-> Paste!Word(words, i)]

LEMMA WordType ==
  ASSUME NEW words \in Seq(Words), NEW i \in 1 .. Len(words)
  PROVE  Paste!Word(words, i) \in Seq(Characters)
<1>1. words[i] \in Words /\ i \in Nat
  BY ElementOfSeq, LenProperties
<1>. DEFINE n == words[i].length
<1>2. n \in Nat
  BY <1>1 DEF Words
<1>. HIDE DEF n
<1>3. [k \in 1 .. n |-> <<i, k>>] \in Seq(Characters)
  <2>1. [k \in 1 .. n |-> <<i, k>>] \in [1 .. n -> Characters]
    BY <1>1, <1>2 DEF Characters
  <2>. QED  BY <1>2, <2>1
<1>4. Paste!SpaceIf(i < Len(words), i) \in Seq(Characters)
  <2>1. <<i, 0>> \in Characters
    BY <1>1 DEF Characters
  <2>2. <<<<i, 0>>>> \in Seq(Characters) /\ <<>> \in Seq(Characters)
    BY <2>1
  <2>. QED  BY <2>2 DEF Paste!SpaceIf
<1>5. Paste!Word(words, i) = [k \in 1 .. n |-> <<i, k>>] \o Paste!SpaceIf(i < Len(words), i)
  BY DEF Paste!Word, n
<1>. QED  BY <1>3, <1>4, <1>5, ConcatProperties

(* The pieces each fit, and together they are the text.                    *)
LEMMA PiecesWhole ==
  ASSUME NEW words \in Seq(Words)
  PROVE  /\ Paste!Pieces(words) \in Seq(Fitting(Characters))
         /\ Spaced(words) \in Seq(Seq(Characters))
         /\ Paste!FlattenSeq(Paste!Pieces(words)) = Paste!FlattenSeq(Spaced(words))
<1>. DEFINE cut == [i \in DOMAIN words |-> Paste!splitOversizedWord(Paste!Word(words, i))]
            n == Len(words)
<1>1. n \in Nat /\ DOMAIN words = 1 .. n
  BY LenProperties
<1>2. \A i \in 1 .. n : Paste!Word(words, i) \in Seq(Characters)
  BY WordType
<1>3. \A i \in 1 .. n :
        /\ Paste!splitOversizedWord(Paste!Word(words, i)) \in Seq(Fitting(Characters))
        /\ Paste!FlattenSeq(Paste!splitOversizedWord(Paste!Word(words, i))) = Paste!Word(words, i)
  BY <1>2, SplitWhole
<1>4. Spaced(words) \in Seq(Seq(Characters))
  <2>1. Spaced(words) \in [1 .. n -> Seq(Characters)]
    BY <1>1, <1>2 DEF Spaced
  <2>. QED  BY <1>1, <2>1
<1>5. cut \in Seq(Seq(Fitting(Characters))) /\ DOMAIN cut = 1 .. n
  <2>1. cut \in [1 .. n -> Seq(Fitting(Characters))]
    BY <1>1, <1>3
  <2>. QED  BY <1>1, <2>1
<1>6. Each(cut) = Spaced(words)
  <2>1. \A i \in 1 .. n : Paste!FlattenSeq(cut[i]) = Paste!Word(words, i)
    BY <1>1, <1>3
  <2>. HIDE DEF cut
  <2>. QED  BY <1>1, <1>5, <2>1 DEF Each, Spaced
<1>7. Paste!Pieces(words) = Paste!FlattenSeq(cut)
  BY DEF Paste!Pieces
<1>. HIDE DEF cut
<1>8. Paste!FlattenSeq(cut) \in Seq(Fitting(Characters))
  BY <1>5, FlattenType
<1>9. cut \in Seq(Seq(Seq(Characters)))
  <2>1. Fitting(Characters) \subseteq Seq(Characters)
    BY DEF Fitting
  <2>2. Seq(Fitting(Characters)) \subseteq Seq(Seq(Characters))
    BY <2>1, SeqMonotonic
  <2>. QED  BY <1>5, <2>2, SeqMonotonic
<1>10. Paste!FlattenSeq(Paste!FlattenSeq(cut)) = Paste!FlattenSeq(Each(cut))
  BY <1>9, FlattenFlatten, SMTT(30)
<1>. QED  BY <1>4, <1>6, <1>7, <1>8, <1>10

PartsCut == [text : Seq(Characters), gap : Seq(Characters)]

(* What was cut, with the space between the parts put back.                *)
Rejoined(chunks) == [i \in DOMAIN chunks |-> chunks[i].text \o chunks[i].gap]

LEMMA ChunkWhole ==
  ASSUME NEW joined \in Seq(Characters)
  PROVE  /\ Paste!Chunk(joined) \in PartsCut
         /\ Paste!Chunk(joined).text \o Paste!Chunk(joined).gap = joined
<1>. DEFINE n == Len(joined)
            b == Paste!Body(joined)
            m == Len(b)
<1>1. n \in Nat /\ \A i \in 1 .. n : joined[i] \in Characters
  BY LenProperties
<1>2. \E k \in 0 .. n : b = SubSeq(joined, 1, k) /\ Len(b) = k
  <2>1. \A k \in 0 .. n : Len(SubSeq(joined, 1, k)) = k
    <3>1. SUFFICES ASSUME NEW k \in 0 .. n  PROVE Len(SubSeq(joined, 1, k)) = k
      OBVIOUS
    <3>2. k \in Int /\ 1 \in Int /\ \A i \in 1 .. k : joined[i] \in Characters
      BY <1>1
    <3>3. Len(SubSeq(joined, 1, k)) = IF 1 <= k THEN k - 1 + 1 ELSE 0
      BY <3>2, SubSeqProperties
    <3>. QED  BY <1>1, <3>3
  <2>2. CASE joined # <<>> /\ Paste!Space(joined[Len(joined)])
    <3>1. b = SubSeq(joined, 1, n - 1)
      BY <2>2 DEF Paste!Body
    <3>2. n - 1 \in 0 .. n
      BY <1>1, <2>2, EmptySeq, SMTT(30)
    <3>. QED  BY <2>1, <3>1, <3>2
  <2>3. CASE ~(joined # <<>> /\ Paste!Space(joined[Len(joined)]))
    <3>1. b = joined
      BY <2>3 DEF Paste!Body
    <3>2. joined = SubSeq(joined, 1, n) /\ n \in 0 .. n
      BY <1>1, SubSeqFull
    <3>. QED  BY <2>1, <3>1, <3>2, Zenon
  <2>. QED  BY <2>2, <2>3
<1>. HIDE DEF b
<1>3. m \in 0 .. n /\ b = SubSeq(joined, 1, m)
  BY <1>2
<1>4. b \in Seq(Characters) /\ SubSeq(joined, m + 1, n) \in Seq(Characters)
  <2>1. /\ 1 \in Int /\ m \in Int /\ m + 1 \in Int /\ n \in Int
        /\ \A i \in 1 .. m : joined[i] \in Characters
        /\ \A i \in m + 1 .. n : joined[i] \in Characters
    BY <1>1, <1>3
  <2>2. SubSeq(joined, 1, m) \in Seq(Characters) /\ SubSeq(joined, m + 1, n) \in Seq(Characters)
    BY <2>1, SubSeqProperties
  <2>. QED  BY <1>3, <2>2
<1>5. Paste!Chunk(joined) = [text |-> b, gap |-> SubSeq(joined, m + 1, n)]
  BY DEF Paste!Chunk, b
<1>6. SubSeq(joined, 1, m) \o SubSeq(joined, m + 1, n) = SubSeq(joined, 1, n)
  <2>1. 1 \in 1 .. Len(joined) + 1 /\ m \in 1 - 1 .. Len(joined) /\ n \in m .. Len(joined)
    BY <1>1, <1>3
  <2>. QED  BY <2>1, ConcatAdjacentSubSeq
<1>7. SubSeq(joined, 1, n) = joined
  BY SubSeqFull
<1>8. Paste!Chunk(joined) \in PartsCut
  BY <1>4, <1>5 DEF PartsCut
<1>9. Paste!Chunk(joined).text = b /\ Paste!Chunk(joined).gap = SubSeq(joined, m + 1, n)
  BY <1>5
<1>. QED  BY <1>3, <1>6, <1>7, <1>8, <1>9, Zenon

LEMMA PartWhole ==
  ASSUME NEW c \in PartsCut
  PROVE  c.text \o c.gap \in Seq(Characters)
<1>1. c.text \in Seq(Characters) /\ c.gap \in Seq(Characters)
  BY DEF PartsCut
<1>. QED  BY <1>1, ConcatProperties

LEMMA RejoinedType ==
  ASSUME NEW chunks \in Seq(PartsCut)
  PROVE  /\ Rejoined(chunks) \in Seq(Seq(Characters)) /\ Len(Rejoined(chunks)) = Len(chunks)
         /\ \A i \in 1 .. Len(chunks) : Rejoined(chunks)[i] = chunks[i].text \o chunks[i].gap
<1>1. Len(chunks) \in Nat /\ DOMAIN chunks = 1 .. Len(chunks)
      /\ \A i \in 1 .. Len(chunks) : chunks[i] \in PartsCut
  BY LenProperties, ElementOfSeq
<1>2. \A i \in 1 .. Len(chunks) : chunks[i].text \o chunks[i].gap \in Seq(Characters)
  BY <1>1, PartWhole
<1>3. Rejoined(chunks) = [i \in 1 .. Len(chunks) |-> chunks[i].text \o chunks[i].gap]
  BY <1>1 DEF Rejoined
<1>4. Rejoined(chunks) \in [1 .. Len(chunks) -> Seq(Characters)]
  BY <1>2, <1>3
<1>5. Rejoined(chunks) \in Seq(Seq(Characters)) /\ Len(Rejoined(chunks)) = Len(chunks)
  BY <1>1, <1>4
<1>. QED  BY <1>3, <1>5

LEMMA RejoinedAppend ==
  ASSUME NEW chunks \in Seq(PartsCut), NEW c \in PartsCut
  PROVE  Rejoined(Append(chunks, c)) = Append(Rejoined(chunks), c.text \o c.gap)
<1>. DEFINE longer == Append(chunks, c)
            whole == c.text \o c.gap
            n == Len(chunks)
            old == Rejoined(chunks)
<1>1. /\ longer \in Seq(PartsCut) /\ Len(longer) = n + 1 /\ longer[n + 1] = c
      /\ \A i \in 1 .. n : longer[i] = chunks[i]
  BY AppendProperties
<1>2. whole \in Seq(Characters) /\ n \in Nat
  BY PartWhole, LenProperties
<1>3. /\ old \in Seq(Seq(Characters)) /\ Len(old) = n
      /\ \A i \in 1 .. n : old[i] = chunks[i].text \o chunks[i].gap
  BY RejoinedType
<1>. HIDE DEF longer, old, whole
<1>4. /\ Rejoined(longer) \in Seq(Seq(Characters)) /\ Len(Rejoined(longer)) = n + 1
      /\ \A i \in 1 .. n + 1 : Rejoined(longer)[i] = longer[i].text \o longer[i].gap
  BY <1>1, RejoinedType
<1>5. /\ Append(old, whole) \in Seq(Seq(Characters)) /\ Len(Append(old, whole)) = n + 1
      /\ Append(old, whole)[n + 1] = whole
      /\ \A i \in 1 .. n : Append(old, whole)[i] = old[i]
  BY <1>2, <1>3, AppendProperties
<1>6. ASSUME NEW i \in 1 .. n + 1  PROVE Rejoined(longer)[i] = Append(old, whole)[i]
  <2>1. CASE i = n + 1
    BY <1>1, <1>4, <1>5, <2>1 DEF whole
  <2>2. CASE i # n + 1
    <3>1. i \in 1 .. n
      BY <1>2, <2>2
    <3>. QED  BY <1>1, <1>3, <1>4, <1>5, <3>1
  <2>. QED  BY <2>1, <2>2
<1>7. Rejoined(longer) = Append(old, whole)
  BY <1>4, <1>5, <1>6, SeqEqual
<1>. QED  BY <1>7 DEF longer, old, whole

Collecting == [chunks : Seq(PartsCut), current : Seq(Seq(Characters)), lastSentenceEnd : Nat]

(* While a text is collected, every part fits, and what is cut so far with *)
(* what is still held is the text so far.                                  *)
SoFar(s, seen) ==
  /\ s \in Collecting /\ s.lastSentenceEnd <= Len(s.current)
  /\ Rejoined(s.chunks) \in Seq(Fitting(Characters))
  /\ Len(Paste!FlattenSeq(s.current)) <= PartLimit
  /\ Paste!FlattenSeq(Rejoined(s.chunks)) \o Paste!FlattenSeq(s.current) = seen

LEMMA Halves ==
  ASSUME NEW S, NEW ss \in Seq(S), NEW k \in 0 .. Len(ss)
  PROVE  /\ SubSeq(ss, 1, k) \in Seq(S) /\ SubSeq(ss, k + 1, Len(ss)) \in Seq(S)
         /\ SubSeq(ss, 1, k) \o SubSeq(ss, k + 1, Len(ss)) = ss
<1>1. Len(ss) \in Nat /\ \A i \in 1 .. Len(ss) : ss[i] \in S
  BY LenProperties
<1>2. /\ 1 \in Int /\ k \in Int /\ k + 1 \in Int /\ Len(ss) \in Int
      /\ \A i \in 1 .. k : ss[i] \in S
      /\ \A i \in k + 1 .. Len(ss) : ss[i] \in S
  BY <1>1
<1>3. SubSeq(ss, 1, k) \in Seq(S) /\ SubSeq(ss, k + 1, Len(ss)) \in Seq(S)
  BY <1>2, SubSeqProperties
<1>4. 1 \in 1 .. Len(ss) + 1 /\ k \in 1 - 1 .. Len(ss) /\ Len(ss) \in k .. Len(ss)
  BY <1>1
<1>5. SubSeq(ss, 1, k) \o SubSeq(ss, k + 1, Len(ss)) = SubSeq(ss, 1, Len(ss))
  BY <1>4, ConcatAdjacentSubSeq
<1>. QED  BY <1>3, <1>5, SubSeqFull

LEMMA FlushKeeps ==
  ASSUME NEW s, NEW seen, SoFar(s, seen), NEW k \in 0 .. Len(s.current)
  PROVE  SoFar(Paste!Flush(s, k), seen)
<1>. DEFINE front == SubSeq(s.current, 1, k)
            back == SubSeq(s.current, k + 1, Len(s.current))
            joined == Paste!FlattenSeq(front)
            rest == Paste!FlattenSeq(back)
            c == Paste!Chunk(joined)
            old == Rejoined(s.chunks)
            t == Paste!Flush(s, k)
<1>1. /\ s \in Collecting /\ s.chunks \in Seq(PartsCut) /\ s.current \in Seq(Seq(Characters))
      /\ old \in Seq(Fitting(Characters))
      /\ Len(Paste!FlattenSeq(s.current)) <= PartLimit
      /\ Paste!FlattenSeq(old) \o Paste!FlattenSeq(s.current) = seen
  BY DEF SoFar, Collecting
<1>2. /\ front \in Seq(Seq(Characters)) /\ back \in Seq(Seq(Characters))
      /\ front \o back = s.current
  BY <1>1, Halves
<1>3. t = [chunks |-> Append(s.chunks, c), current |-> back, lastSentenceEnd |-> 0]
  BY DEF Paste!Flush
<1>. HIDE DEF front, back
<1>4. Paste!FlattenSeq(s.current) = joined \o rest
  BY <1>2, FlattenConcat
<1>5. joined \in Seq(Characters) /\ rest \in Seq(Characters)
  BY <1>2, FlattenType
<1>. HIDE DEF joined, rest
<1>6. c \in PartsCut /\ c.text \o c.gap = joined
  BY <1>5, ChunkWhole
<1>. HIDE DEF c
<1>7. /\ Len(joined) \in Nat /\ Len(rest) \in Nat
      /\ Len(joined \o rest) = Len(joined) + Len(rest)
  BY <1>5, LenProperties, ConcatProperties
<1>8. Len(joined) <= PartLimit /\ Len(rest) <= PartLimit
  <2>1. PartLimit \in Nat
    BY PartsAssumption
  <2>2. Len(joined) + Len(rest) <= PartLimit
    BY <1>1, <1>4, <1>7
  <2>. QED  BY <1>7, <2>1, <2>2
<1>9. Rejoined(Append(s.chunks, c)) = Append(old, joined)
  BY <1>1, <1>6, RejoinedAppend
<1>10. Append(old, joined) \in Seq(Fitting(Characters))
  <2>1. joined \in Fitting(Characters)
    BY <1>5, <1>8 DEF Fitting
  <2>. QED  BY <1>1, <2>1, AppendProperties
<1>11. Paste!FlattenSeq(Append(old, joined)) \o rest = seen
  <2>1. old \in Seq(Seq(Characters))
    BY <1>1, RejoinedType
  <2>2. Paste!FlattenSeq(Append(old, joined)) = Paste!FlattenSeq(old) \o joined
    BY <1>5, <2>1, FlattenAppend
  <2>3. Paste!FlattenSeq(old) \in Seq(Characters)
    BY <2>1, FlattenType
  <2>4. (Paste!FlattenSeq(old) \o joined) \o rest = Paste!FlattenSeq(old) \o (joined \o rest)
    BY <1>5, <2>3, Assoc, SMTT(30)
  <2>. QED  BY <1>1, <1>4, <2>2, <2>4
<1>12. /\ Append(s.chunks, c) \in Seq(PartsCut)
  BY <1>1, <1>6, AppendProperties
<1>. HIDE DEF t, old
<1>13. /\ t \in Collecting /\ t.lastSentenceEnd <= Len(t.current)
       /\ t.chunks = Append(s.chunks, c) /\ t.current = back
  <2>1. 0 \in Nat /\ 0 <= Len(back)
    BY <1>2, LenProperties
  <2>. QED  BY <1>2, <1>3, <1>12, <2>1 DEF Collecting
<1>14. Rejoined(t.chunks) \in Seq(Fitting(Characters))
  BY <1>9, <1>10, <1>13
<1>15. Len(Paste!FlattenSeq(t.current)) <= PartLimit
  BY <1>8, <1>13 DEF rest
<1>16. Paste!FlattenSeq(Rejoined(t.chunks)) \o Paste!FlattenSeq(t.current) = seen
  BY <1>9, <1>11, <1>13 DEF rest
<1>. QED  BY <1>13, <1>14, <1>15, <1>16 DEF SoFar, t

FitsBehind(s, piece) ==
  s.current = <<>> \/ Len(Paste!FlattenSeq(s.current)) + Len(piece) <= PartLimit

LEMMA FitKeeps ==
  ASSUME NEW s, NEW seen, NEW piece \in Fitting(Characters), SoFar(s, seen)
  PROVE  SoFar(Paste!Fit(s, piece), seen) /\ FitsBehind(Paste!Fit(s, piece), piece)
<1>. DEFINE t == Paste!FitOnce(s, piece)
            u == Paste!Fit(s, piece)
<1>1. ASSUME NEW x, SoFar(x, seen)
      PROVE  /\ Len(x.current) \in Nat /\ x.current \in Seq(Seq(Characters))
             /\ x.lastSentenceEnd \in 0 .. Len(x.current)
             /\ Len(Paste!FlattenSeq(x.current)) \in Nat
  <2>1. x.current \in Seq(Seq(Characters)) /\ x.lastSentenceEnd \in Nat
        /\ x.lastSentenceEnd <= Len(x.current)
    BY <1>1 DEF SoFar, Collecting
  <2>2. Paste!FlattenSeq(x.current) \in Seq(Characters)
    BY <2>1, FlattenType
  <2>3. Len(x.current) \in Nat
    BY <2>1, LenProperties
  <2>4. Len(Paste!FlattenSeq(x.current)) \in Nat
    BY <2>2, LenProperties
  <2>. QED  BY <2>1, <2>3, <2>4
<1>2. SoFar(t, seen)
  <2>1. s.lastSentenceEnd \in 0 .. Len(s.current) /\ Len(s.current) \in 0 .. Len(s.current)
    BY <1>1
  <2>2. /\ SoFar(Paste!Flush(s, s.lastSentenceEnd), seen)
        /\ SoFar(Paste!Flush(s, Len(s.current)), seen)
    BY <2>1, FlushKeeps
  <2>3. t \in {s, Paste!Flush(s, s.lastSentenceEnd), Paste!Flush(s, Len(s.current))}
    BY DEF Paste!FitOnce
  <2>. QED  BY <2>2, <2>3
<1>3. u = IF t.current # <<>> /\ Len(Paste!FlattenSeq(t.current)) + Len(piece) > PartLimit
          THEN Paste!Flush(t, Len(t.current)) ELSE t
  BY DEF Paste!Fit
<1>. HIDE DEF t, u
<1>4. Len(t.current) \in Nat /\ Len(Paste!FlattenSeq(t.current)) \in Nat
  BY <1>1, <1>2
<1>5. Len(piece) \in Nat /\ PartLimit \in Nat
  BY PartsAssumption, LenProperties DEF Fitting
<1>6. CASE t.current # <<>> /\ Len(Paste!FlattenSeq(t.current)) + Len(piece) > PartLimit
  <2>1. u = Paste!Flush(t, Len(t.current))
    BY <1>3, <1>6
  <2>2. SoFar(u, seen)
    <3>1. Len(t.current) \in 0 .. Len(t.current)
      BY <1>4
    <3>. QED  BY <1>2, <2>1, <3>1, FlushKeeps
  <2>3. u.current = <<>>
    <3>1. u.current = SubSeq(t.current, Len(t.current) + 1, Len(t.current))
      BY <2>1 DEF Paste!Flush
    <3>2. /\ Len(t.current) + 1 \in Int /\ Len(t.current) \in Int
          /\ Len(t.current) < Len(t.current) + 1
      BY <1>4
    <3>3. SubSeq(t.current, Len(t.current) + 1, Len(t.current)) = <<>>
      BY <3>2, SubSeqEmpty
    <3>. QED  BY <3>1, <3>3
  <2>. QED  BY <2>2, <2>3 DEF FitsBehind, u
<1>7. CASE ~(t.current # <<>> /\ Len(Paste!FlattenSeq(t.current)) + Len(piece) > PartLimit)
  <2>1. u = t
    BY <1>3, <1>7
  <2>2. FitsBehind(t, piece)
    BY <1>4, <1>5, <1>7 DEF FitsBehind
  <2>. QED  BY <1>2, <2>1, <2>2 DEF u
<1>. QED  BY <1>6, <1>7

LEMMA CollectKeeps ==
  ASSUME NEW words, NEW s, NEW seen, NEW piece \in Fitting(Characters), SoFar(s, seen)
  PROVE  SoFar(Paste!Collect(words, s, piece), seen \o piece)
<1>. DEFINE t == Paste!Fit(s, piece)
            u == Paste!Collect(words, s, piece)
            kept == Paste!FlattenSeq(t.current)
            old == Rejoined(t.chunks)
<1>1. SoFar(t, seen) /\ FitsBehind(t, piece)
  BY FitKeeps
<1>2. u = [t EXCEPT !.current = Append(@, piece),
             !.lastSentenceEnd = IF Paste!SentenceEnd(words, piece) THEN Len(t.current) + 1 ELSE @]
  BY DEF Paste!Collect
<1>. HIDE DEF t, u
<1>3. piece \in Seq(Characters) /\ Len(piece) <= PartLimit
  BY DEF Fitting
<1>4. /\ t \in Collecting /\ t.current \in Seq(Seq(Characters)) /\ t.lastSentenceEnd \in Nat
      /\ t.lastSentenceEnd <= Len(t.current) /\ t.chunks \in Seq(PartsCut)
      /\ old \in Seq(Fitting(Characters))
      /\ Paste!FlattenSeq(old) \o kept = seen
  BY <1>1 DEF SoFar, Collecting
<1>5. /\ Append(t.current, piece) \in Seq(Seq(Characters)) /\ Len(t.current) \in Nat
      /\ Len(Append(t.current, piece)) = Len(t.current) + 1
  BY <1>3, <1>4, AppendProperties, LenProperties
<1>6. /\ u \in Collecting /\ u.current = Append(t.current, piece) /\ u.chunks = t.chunks
      /\ u.lastSentenceEnd \in {t.lastSentenceEnd, Len(t.current) + 1}
  <2>. DEFINE longer == Append(t.current, piece)
              last == IF Paste!SentenceEnd(words, piece) THEN Len(t.current) + 1
                      ELSE t.lastSentenceEnd
  <2>1. u = [t EXCEPT !.current = longer, !.lastSentenceEnd = last]
    BY <1>2
  <2>2. last \in {t.lastSentenceEnd, Len(t.current) + 1} /\ last \in Nat
    BY <1>4, <1>5
  <2>3. longer \in Seq(Seq(Characters))
    BY <1>5
  <2>. HIDE DEF longer, last
  <2>4. u \in Collecting /\ u.current = longer /\ u.chunks = t.chunks
        /\ u.lastSentenceEnd = last
    BY <1>4, <2>1, <2>2, <2>3 DEF Collecting
  <2>. QED  BY <2>2, <2>4 DEF longer
<1>7. u.lastSentenceEnd <= Len(u.current)
  BY <1>4, <1>5, <1>6
<1>8. Paste!FlattenSeq(Append(t.current, piece)) = kept \o piece
  BY <1>3, <1>4, FlattenAppend
<1>9. kept \in Seq(Characters) /\ Paste!FlattenSeq(old) \in Seq(Characters)
  <2>1. old \in Seq(Seq(Characters))
    BY <1>4, RejoinedType
  <2>. QED  BY <1>4, <2>1, FlattenType
<1>10. Len(kept \o piece) <= PartLimit
  <2>1. Len(kept \o piece) = Len(kept) + Len(piece) /\ Len(kept) \in Nat /\ Len(piece) \in Nat
    BY <1>3, <1>9, ConcatProperties, LenProperties
  <2>2. CASE t.current = <<>>
    <3>1. kept = <<>>
      BY <2>2, FlattenEmpty
    <3>2. <<>> \o piece = piece
      BY <1>3, ConcatEmptySeq
    <3>. QED  BY <1>3, <3>1, <3>2
  <2>3. CASE t.current # <<>>
    BY <1>1, <2>1, <2>3 DEF FitsBehind
  <2>. QED  BY <2>2, <2>3
<1>11. Paste!FlattenSeq(old) \o (kept \o piece) = seen \o piece
  <2>1. (Paste!FlattenSeq(old) \o kept) \o piece = Paste!FlattenSeq(old) \o (kept \o piece)
    BY <1>3, <1>9, Assoc
  <2>. QED  BY <1>4, <2>1
<1>. HIDE DEF kept
<1>12. /\ Rejoined(u.chunks) = old /\ Paste!FlattenSeq(u.current) = kept \o piece
  BY <1>6, <1>8
<1>. HIDE DEF old
<1>. QED  BY <1>4, <1>6, <1>7, <1>10, <1>11, <1>12 DEF SoFar, u

(* What is collected after each piece follows what was before it.          *)
CollectingIn(words, pieces, g, m) ==
  g = [n \in 0 .. m |->
         IF n = 0 THEN [chunks |-> <<>>, current |-> <<>>, lastSentenceEnd |-> 0]
         ELSE Paste!Collect(words, g[n - 1], pieces[n])]

LEMMA CollectingExists ==
  ASSUME NEW words, NEW pieces, NEW n \in Nat
  PROVE  \E g : CollectingIn(words, pieces, g, n)
<1>. DEFINE none == [chunks |-> <<>>, current |-> <<>>, lastSentenceEnd |-> 0]
            S == {m \in Nat : \E g : CollectingIn(words, pieces, g, m)}
<1>. HIDE DEF none
<1>1. 0 \in S
  <2>. DEFINE h == [i \in 0 .. 0 |-> none]
  <2>1. h = [i \in 0 .. 0 |-> IF i = 0 THEN none ELSE Paste!Collect(words, h[i - 1], pieces[i])]
    OBVIOUS
  <2>. HIDE DEF h
  <2>2. CollectingIn(words, pieces, h, 0)
    BY <2>1 DEF CollectingIn, none
  <2>. QED  BY <2>2
<1>2. ASSUME NEW m \in Nat, m \in S  PROVE m + 1 \in S
  <2>1. PICK g : CollectingIn(words, pieces, g, m)
    BY <1>2
  <2>. DEFINE next(f, i) == IF i = 0 THEN none ELSE Paste!Collect(words, f[i - 1], pieces[i])
              h == [i \in 0 .. m + 1 |-> IF i \in 0 .. m THEN g[i] ELSE next(g, i)]
  <2>2. CollectingIn(words, pieces, h, m + 1)
    <3>1. \A i \in 0 .. m : g[i] = next(g, i)
      BY <2>1 DEF CollectingIn, none
    <3>2. ASSUME NEW i \in 0 .. m + 1  PROVE h[i] = next(h, i)
      <4>1. i # 0 => i - 1 \in 0 .. m + 1 /\ i - 1 \in 0 .. m
        OBVIOUS
      <4>2. i # 0 => h[i - 1] = g[i - 1]
        BY <4>1
      <4>3. h[i] = IF i \in 0 .. m THEN g[i] ELSE next(g, i)
        OBVIOUS
      <4>. HIDE DEF h
      <4>4. next(h, i) = next(g, i)
        BY <4>2
      <4>. HIDE DEF next
      <4>5. h[i] = next(g, i)
        BY <3>1, <4>3
      <4>. QED  BY <4>4, <4>5
    <3>3. h = [i \in 0 .. m + 1 |-> h[i]]
      OBVIOUS
    <3>. HIDE DEF h
    <3>4. h = [i \in 0 .. m + 1 |-> next(h, i)]
      BY <3>2, <3>3
    <3>. QED  BY <3>4 DEF CollectingIn, none
  <2>. QED  BY <2>2
<1>. HIDE DEF S
<1>3. n \in S
  BY <1>1, <1>2, Inductive
<1>. QED  BY <1>3 DEF S

LEMMA CollectedIs ==
  ASSUME NEW words, NEW pieces, Len(pieces) \in Nat
  PROVE  \E g : /\ CollectingIn(words, pieces, g, Len(pieces))
                /\ Paste!Collected(words, pieces) = g[Len(pieces)]
<1>. DEFINE f == CHOOSE g : CollectingIn(words, pieces, g, Len(pieces))
<1>1. CollectingIn(words, pieces, f, Len(pieces))
  BY CollectingExists
<1>2. Paste!Collected(words, pieces) = f[Len(pieces)]
  BY DEF Paste!Collected, CollectingIn
<1>. QED  BY <1>1, <1>2

LEMMA CollectedWhole ==
  ASSUME NEW words, NEW pieces \in Seq(Fitting(Characters))
  PROVE  SoFar(Paste!Collected(words, pieces), Paste!FlattenSeq(pieces))
<1>. DEFINE m == Len(pieces)
            Seen(n) == Paste!FlattenSeq(SubSeq(pieces, 1, n))
            none == [chunks |-> <<>>, current |-> <<>>, lastSentenceEnd |-> 0]
<1>1. m \in Nat /\ \A i \in 1 .. m : pieces[i] \in Fitting(Characters)
  BY LenProperties
<1>2. PICK g : CollectingIn(words, pieces, g, m) /\ Paste!Collected(words, pieces) = g[m]
  BY <1>1, CollectedIs
<1>. HIDE DEF none
<1>3. \A n \in 0 .. m : g[n] = IF n = 0 THEN none ELSE Paste!Collect(words, g[n - 1], pieces[n])
  BY <1>2 DEF CollectingIn, none
<1>. DEFINE T == {n \in Nat : n \in 0 .. m => SoFar(g[n], Seen(n))}
<1>4. 0 \in T
  <2>1. g[0] = none
    BY <1>1, <1>3
  <2>2. Seen(0) = <<>>
    <3>1. SubSeq(pieces, 1, 0) = <<>>
      BY SubSeqEmpty
    <3>. QED  BY <3>1, FlattenEmpty
  <2>3. none \in Collecting /\ none.chunks = <<>> /\ none.current = <<>>
        /\ none.lastSentenceEnd = 0
    <3>1. <<>> \in Seq(PartsCut) /\ <<>> \in Seq(Seq(Characters))
      BY EmptySeq
    <3>. QED  BY <3>1 DEF none, Collecting
  <2>4. Rejoined(<<>>) = <<>> /\ <<>> \in Seq(Fitting(Characters)) /\ <<>> \in Seq(Characters)
    BY EmptySeq DEF Rejoined
  <2>5. Len(<<>>) = 0 /\ 0 <= PartLimit /\ <<>> \o <<>> = <<>>
    BY <2>4, EmptySeq, ConcatEmptySeq, PartsAssumption
  <2>6. SoFar(none, <<>>)
    <3>1. none \in Collecting /\ none.lastSentenceEnd <= Len(none.current)
      BY <2>3, <2>5
    <3>2. Rejoined(none.chunks) = <<>> /\ Paste!FlattenSeq(none.current) = <<>>
      BY <2>3, <2>4, FlattenEmpty
    <3>3. Rejoined(none.chunks) \in Seq(Fitting(Characters))
      BY <2>4, <3>2
    <3>4. Len(Paste!FlattenSeq(none.current)) <= PartLimit
      BY <2>5, <3>2
    <3>5. Paste!FlattenSeq(Rejoined(none.chunks)) \o Paste!FlattenSeq(none.current) = <<>>
      BY <2>5, <3>2, FlattenEmpty
    <3>. QED  BY <3>1, <3>3, <3>4, <3>5 DEF SoFar
  <2>. QED  BY <2>1, <2>2, <2>6
<1>5. ASSUME NEW n \in Nat, n \in T  PROVE n + 1 \in T
  <2>1. SUFFICES ASSUME n + 1 \in 0 .. m  PROVE SoFar(g[n + 1], Seen(n + 1))
    OBVIOUS
  <2>2. n \in 0 .. m /\ n + 1 \in 1 .. m /\ n + 1 # 0 /\ (n + 1) - 1 = n
    BY <1>1, <2>1
  <2>3. SoFar(g[n], Seen(n))
    BY <1>5, <2>2
  <2>4. g[n + 1] = Paste!Collect(words, g[n], pieces[n + 1])
    <3>1. g[n + 1] = IF n + 1 = 0 THEN none ELSE Paste!Collect(words, g[(n + 1) - 1], pieces[n + 1])
      BY <1>3, <2>1
    <3>. QED  BY <2>2, <3>1
  <2>5. pieces[n + 1] \in Fitting(Characters)
    BY <1>1, <2>2
  <2>6. Seen(n + 1) = Seen(n) \o pieces[n + 1]
    <3>1. SubSeq(pieces, 1, n + 1) = SubSeq(pieces, 1, (n + 1) - 1) \o <<pieces[n + 1]>>
      <4>1. 1 \in 1 .. Len(pieces) /\ n + 1 \in 1 .. Len(pieces)
        BY <1>1, <2>2
      <4>. QED  BY <4>1, SubSeqRecursiveSecond
    <3>2. SubSeq(pieces, 1, n) \in Seq(Seq(Characters))
      <4>1. \A i \in 1 .. n : pieces[i] \in Seq(Characters)
        BY <1>1, <2>2 DEF Fitting
      <4>2. 1 \in Int /\ n \in Int
        OBVIOUS
      <4>. QED  BY <4>1, <4>2, SubSeqProperties
    <3>3. pieces[n + 1] \in Seq(Characters)
      BY <2>5 DEF Fitting
    <3>4. SubSeq(pieces, 1, n + 1) = Append(SubSeq(pieces, 1, n), pieces[n + 1])
      BY <2>2, <3>1, <3>2, <3>3, AppendIsConcat
    <3>. QED  BY <3>2, <3>3, <3>4, FlattenAppend
  <2>. HIDE DEF Seen
  <2>7. SoFar(Paste!Collect(words, g[n], pieces[n + 1]), Seen(n) \o pieces[n + 1])
    BY <2>3, <2>5, CollectKeeps
  <2>. QED  BY <2>4, <2>6, <2>7
<1>. HIDE DEF T
<1>6. m \in T
  BY <1>1, <1>4, <1>5, Inductive
<1>7. SoFar(g[m], Seen(m))
  BY <1>1, <1>6 DEF T
<1>8. SubSeq(pieces, 1, m) = pieces
  BY SubSeqFull
<1>. QED  BY <1>2, <1>7, <1>8

(* However a text is cut: every part with the space behind it fits a       *)
(* request, and all of them together are the text, character by character. *)
THEOREM PastedTextCutWhole ==
  ASSUME NEW words \in Seq([length : Nat, ends : BOOLEAN])
  PROVE  LET chunks == Paste!translationChunks(words)
             whole == [i \in DOMAIN chunks |-> chunks[i].text \o chunks[i].gap]
         IN /\ chunks \in Seq(PartsCut)
            /\ \A i \in DOMAIN whole : Len(whole[i]) <= PartLimit
            /\ Paste!FlattenSeq(whole)
                 = Paste!FlattenSeq([i \in DOMAIN words |-> Paste!Word(words, i)])
<1>. DEFINE pieces == Paste!Pieces(words)
            all == Paste!Collected(words, pieces)
            chunks == Paste!translationChunks(words)
            text_ == Paste!FlattenSeq(Spaced(words))
<1>1. words \in Seq(Words)
  BY DEF Words
<1>2. pieces \in Seq(Fitting(Characters)) /\ Paste!FlattenSeq(pieces) = text_
  BY <1>1, PiecesWhole
<1>3. SoFar(all, text_)
  BY <1>2, CollectedWhole
<1>4. chunks = IF all.current = <<>> THEN all.chunks ELSE Paste!Flush(all, Len(all.current)).chunks
  BY DEF Paste!translationChunks
<1>. HIDE DEF chunks, all, pieces, text_
<1>5. \E s : SoFar(s, text_) /\ s.current = <<>> /\ chunks = s.chunks
  <2>1. CASE all.current = <<>>
    BY <1>3, <1>4, <2>1
  <2>2. CASE all.current # <<>>
    <3>. DEFINE s == Paste!Flush(all, Len(all.current))
    <3>1. all.current \in Seq(Seq(Characters))
      BY <1>3 DEF SoFar, Collecting
    <3>2. Len(all.current) \in 0 .. Len(all.current)
      BY <3>1, LenProperties
    <3>3. SoFar(s, text_)
      BY <1>3, <3>2, FlushKeeps
    <3>4. s.current = SubSeq(all.current, Len(all.current) + 1, Len(all.current))
      BY DEF Paste!Flush
    <3>5. SubSeq(all.current, Len(all.current) + 1, Len(all.current)) = <<>>
      <4>1. /\ Len(all.current) + 1 \in Int /\ Len(all.current) \in Int
            /\ Len(all.current) < Len(all.current) + 1
        BY <3>2
      <4>. QED  BY <4>1, SubSeqEmpty
    <3>6. chunks = s.chunks
      BY <1>4, <2>2
    <3>. HIDE DEF s
    <3>. QED  BY <3>3, <3>4, <3>5, <3>6
  <2>. QED  BY <2>1, <2>2
<1>6. PICK s : SoFar(s, text_) /\ s.current = <<>> /\ chunks = s.chunks
  BY <1>5
<1>7. /\ chunks \in Seq(PartsCut) /\ Rejoined(chunks) \in Seq(Fitting(Characters))
      /\ Paste!FlattenSeq(Rejoined(chunks)) \o Paste!FlattenSeq(<<>>) = text_
  BY <1>6 DEF SoFar, Collecting
<1>8. Paste!FlattenSeq(Rejoined(chunks)) = text_
  <2>1. Paste!FlattenSeq(Rejoined(chunks)) \in Seq(Characters)
    BY <1>7, RejoinedType, FlattenType
  <2>2. Paste!FlattenSeq(Rejoined(chunks)) \o <<>> = Paste!FlattenSeq(Rejoined(chunks))
    BY <2>1, ConcatEmptySeq
  <2>. QED  BY <1>7, <2>2, FlattenEmpty
<1>9. \A i \in DOMAIN Rejoined(chunks) : Len(Rejoined(chunks)[i]) <= PartLimit
  <2>1. DOMAIN Rejoined(chunks) = 1 .. Len(Rejoined(chunks))
    BY <1>7, LenProperties
  <2>2. \A i \in DOMAIN Rejoined(chunks) : Rejoined(chunks)[i] \in Fitting(Characters)
    BY <1>7, <2>1, ElementOfSeq
  <2>. QED  BY <2>2 DEF Fitting
<1>. QED  BY <1>7, <1>8, <1>9 DEF Rejoined, chunks, text_, Spaced

InPair(p, s) == [k \in DOMAIN s |-> <<p, s[k]>>]

Marked == Paste!Pairs \X Characters

Requests ==
  [text : Seq(Words), chunks : Seq(PartsCut), pair : Paste!Pairs, done : Nat,
   translated : Seq(Marked), bare : BOOLEAN]

(* A request whose answer so far is what its first parts say.              *)
Faithful ==
  {r \in Requests :
     /\ r.chunks = Paste!translationChunks(r.text)
     /\ r.done <= Len(r.chunks) /\ ~r.bare =>
          r.translated = InPair(r.pair, Paste!FlattenSeq(SubSeq(Rejoined(r.chunks), 1, r.done)))}

LEMMA InPairPlaces ==
  ASSUME NEW p \in Paste!Pairs
  PROVE  \A s \in Seq(Characters) :
           /\ InPair(p, s) \in Seq(Marked) /\ Len(InPair(p, s)) = Len(s)
           /\ \A k \in 1 .. Len(s) : InPair(p, s)[k] = <<p, s[k]>>
<1>. SUFFICES ASSUME NEW s \in Seq(Characters)
              PROVE  /\ InPair(p, s) \in Seq(Marked) /\ Len(InPair(p, s)) = Len(s)
                     /\ \A k \in 1 .. Len(s) : InPair(p, s)[k] = <<p, s[k]>>
  OBVIOUS
<1>1. Len(s) \in Nat /\ DOMAIN s = 1 .. Len(s) /\ \A k \in 1 .. Len(s) : s[k] \in Characters
  BY LenProperties
<1>2. InPair(p, s) = [k \in 1 .. Len(s) |-> <<p, s[k]>>]
  BY <1>1 DEF InPair
<1>3. InPair(p, s) \in [1 .. Len(s) -> Marked]
  BY <1>1, <1>2 DEF Marked
<1>4. InPair(p, s) \in Seq(Marked) /\ Len(InPair(p, s)) = Len(s)
  BY <1>1, <1>3
<1>. QED  BY <1>2, <1>4

LEMMA InPairConcat ==
  ASSUME NEW p \in Paste!Pairs, NEW s \in Seq(Characters), NEW t \in Seq(Characters)
  PROVE  InPair(p, s \o t) = InPair(p, s) \o InPair(p, t)
<1>. DEFINE u == s \o t
            a == InPair(p, s)
            b == InPair(p, t)
            both == InPair(p, u)
            each == a \o b
            m == Len(s)
            n == Len(t)
<1>0. \A x \in Seq(Characters) :
        /\ InPair(p, x) \in Seq(Marked) /\ Len(InPair(p, x)) = Len(x)
        /\ \A k \in 1 .. Len(x) : InPair(p, x)[k] = <<p, x[k]>>
  BY InPairPlaces
<1>1. /\ m \in Nat /\ n \in Nat /\ u \in Seq(Characters) /\ Len(u) = m + n
      /\ \A k \in 1 .. m + n : u[k] = IF k <= m THEN s[k] ELSE t[k - m]
  BY LenProperties, ConcatProperties
<1>. HIDE DEF u, m, n
<1>2. /\ both \in Seq(Marked) /\ Len(both) = Len(u)
      /\ \A k \in 1 .. Len(u) : both[k] = <<p, u[k]>>
  BY <1>0, <1>1
<1>3. /\ a \in Seq(Marked) /\ Len(a) = m
      /\ \A k \in 1 .. m : a[k] = <<p, s[k]>>
  BY <1>0 DEF m
<1>4. /\ b \in Seq(Marked) /\ Len(b) = n
      /\ \A k \in 1 .. n : b[k] = <<p, t[k]>>
  BY <1>0 DEF n
<1>. HIDE DEF a, b, both
<1>5. /\ each \in Seq(Marked) /\ Len(each) = Len(a) + Len(b)
      /\ \A k \in 1 .. Len(a) + Len(b) : each[k] = IF k <= Len(a) THEN a[k] ELSE b[k - Len(a)]
  BY <1>3, <1>4, ConcatProperties
<1>. HIDE DEF each
<1>6. ASSUME NEW k \in 1 .. m + n  PROVE both[k] = each[k]
  <2>1. CASE k <= m
    <3>1. k \in 1 .. m
      BY <1>1, <2>1
    <3>2. u[k] = s[k] /\ both[k] = <<p, u[k]>>
      BY <1>1, <1>2, <2>1
    <3>3. each[k] = a[k]
      BY <1>3, <1>4, <1>5, <2>1
    <3>. QED  BY <1>3, <3>1, <3>2, <3>3
  <2>2. CASE ~(k <= m)
    <3>1. k - m \in 1 .. n
      BY <1>1, <2>2
    <3>2. u[k] = t[k - m] /\ both[k] = <<p, u[k]>>
      BY <1>1, <1>2, <2>2
    <3>3. each[k] = b[k - m]
      BY <1>3, <1>4, <1>5, <2>2
    <3>. QED  BY <1>4, <3>1, <3>2, <3>3
  <2>. QED  BY <2>1, <2>2
<1>7. Len(both) = m + n /\ Len(each) = m + n
  BY <1>1, <1>2, <1>3, <1>4, <1>5
<1>8. both = each
  <2>1. Len(both) = Len(each) /\ \A k \in 1 .. Len(both) : both[k] = each[k]
    BY <1>6, <1>7
  <2>. QED  BY <1>2, <1>5, <2>1, SeqEqual
<1>. QED  BY <1>8 DEF both, each, u, a, b

LEMMA PrefixPlusOne ==
  ASSUME NEW S, NEW ss \in Seq(Seq(S)), NEW n \in Nat, n < Len(ss)
  PROVE  /\ SubSeq(ss, 1, n) \in Seq(Seq(S)) /\ ss[n + 1] \in Seq(S)
         /\ Paste!FlattenSeq(SubSeq(ss, 1, n + 1)) = Paste!FlattenSeq(SubSeq(ss, 1, n)) \o ss[n + 1]
<1>1. Len(ss) \in Nat /\ \A i \in 1 .. Len(ss) : ss[i] \in Seq(S)
  BY LenProperties
<1>2. n + 1 \in 1 .. Len(ss) /\ 1 \in 1 .. Len(ss) /\ (n + 1) - 1 = n
  BY <1>1
<1>3. ss[n + 1] \in Seq(S)
  BY <1>1, <1>2
<1>4. SubSeq(ss, 1, n) \in Seq(Seq(S))
  <2>1. 1 \in Int /\ n \in Int /\ \A i \in 1 .. n : ss[i] \in Seq(S)
    BY <1>1
  <2>. QED  BY <2>1, SubSeqProperties
<1>5. SubSeq(ss, 1, n + 1) = SubSeq(ss, 1, (n + 1) - 1) \o <<ss[n + 1]>>
  BY <1>2, SubSeqRecursiveSecond
<1>6. SubSeq(ss, 1, n + 1) = Append(SubSeq(ss, 1, n), ss[n + 1])
  BY <1>2, <1>3, <1>4, <1>5, AppendIsConcat
<1>. QED  BY <1>3, <1>4, <1>6, FlattenAppend

LEMMA NewFaithful ==
  ASSUME NEW words \in Seq(Words), NEW p \in Paste!Pairs
  PROVE  [text |-> words, chunks |-> Paste!translationChunks(words), pair |-> p, done |-> 0,
          translated |-> <<>>, bare |-> FALSE] \in Faithful
<1>. DEFINE cut == Paste!translationChunks(words)
            r == [text |-> words, chunks |-> cut, pair |-> p, done |-> 0,
                  translated |-> <<>>, bare |-> FALSE]
<1>1. cut \in Seq(PartsCut)
  BY PastedTextCutWhole DEF Words
<1>. HIDE DEF cut
<1>2. r \in Requests
  <2>1. <<>> \in Seq(Marked)
    BY EmptySeq
  <2>. QED  BY <1>1, <2>1 DEF Requests
<1>3. <<>> = InPair(p, Paste!FlattenSeq(SubSeq(Rejoined(cut), 1, 0)))
  <2>1. SubSeq(Rejoined(cut), 1, 0) = <<>>
    BY SubSeqEmpty
  <2>2. InPair(p, <<>>) = <<>>
    BY DEF InPair
  <2>. QED  BY <2>1, <2>2, FlattenEmpty
<1>4. /\ r.text = words /\ r.chunks = cut /\ r.pair = p /\ r.done = 0 /\ r.translated = <<>>
  OBVIOUS
<1>. HIDE DEF r
<1>5. r.chunks = Paste!translationChunks(r.text)
  BY <1>4 DEF cut
<1>6. r.translated = InPair(r.pair, Paste!FlattenSeq(SubSeq(Rejoined(r.chunks), 1, r.done)))
  BY <1>3, <1>4
<1>. QED  BY <1>2, <1>5, <1>6 DEF Faithful, r, cut

LEMMA EndedFaithful ==
  ASSUME NEW r \in Faithful
  PROVE  /\ [r EXCEPT !.done = Len(r.chunks) + 1] \in Faithful
         /\ [r EXCEPT !.done = Len(r.chunks) + 1].chunks = r.chunks
         /\ [r EXCEPT !.done = Len(r.chunks) + 1].done = Len(r.chunks) + 1
         /\ Len(r.chunks) \in Nat
<1>. DEFINE q == [r EXCEPT !.done = Len(r.chunks) + 1]
<1>1. r \in Requests /\ r.chunks = Paste!translationChunks(r.text)
  BY DEF Faithful
<1>2. Len(r.chunks) \in Nat
  <2>1. r.chunks \in Seq(PartsCut)
    BY <1>1 DEF Requests
  <2>. QED  BY <2>1, LenProperties
<1>3. q \in Requests /\ q.chunks = r.chunks /\ q.text = r.text /\ q.done = Len(r.chunks) + 1
  BY <1>1, <1>2 DEF Requests
<1>. HIDE DEF q
<1>4. ~(q.done <= Len(q.chunks))
  BY <1>2, <1>3
<1>5. q.chunks = Paste!translationChunks(q.text)
  BY <1>1, <1>3
<1>6. q \in Faithful
  BY <1>3, <1>4, <1>5 DEF Faithful
<1>. QED  BY <1>2, <1>3, <1>6 DEF q

Answered(r, b) ==
  LET c == r.chunks[r.done + 1]
  IN (r.translated \o (IF b THEN <<>> ELSE InPair(r.pair, c.text))) \o InPair(r.pair, c.gap)

LEMMA AnsweredFaithful ==
  ASSUME NEW r \in Faithful, r.done < Len(r.chunks), NEW b \in BOOLEAN
  PROVE  LET q == [r EXCEPT !.done = r.done + 1, !.bare = r.bare \/ b,
                     !.translated = Answered(r, b)]
         IN q \in Faithful /\ q.chunks = r.chunks /\ q.done = r.done + 1
<1>. DEFINE n == r.done
            p == r.pair
            c == r.chunks[n + 1]
            whole == Rejoined(r.chunks)
            before == Paste!FlattenSeq(SubSeq(whole, 1, n))
            said == IF b THEN <<>> ELSE InPair(p, c.text)
            gap == InPair(p, c.gap)
            longer == Answered(r, b)
            left == r.bare \/ b
            q == [r EXCEPT !.done = n + 1, !.bare = left, !.translated = longer]
<1>1. /\ r \in Requests /\ r.chunks = Paste!translationChunks(r.text)
      /\ n <= Len(r.chunks) /\ ~r.bare => r.translated = InPair(p, before)
  BY DEF Faithful
<1>2. /\ n \in Nat /\ p \in Paste!Pairs /\ r.chunks \in Seq(PartsCut) /\ r.bare \in BOOLEAN
      /\ r.translated \in Seq(Marked)
  BY <1>1 DEF Requests
<1>3. Len(r.chunks) \in Nat /\ n + 1 \in 1 .. Len(r.chunks)
  BY <1>2, LenProperties
<1>4. c \in PartsCut /\ c.text \in Seq(Characters) /\ c.gap \in Seq(Characters)
  <2>1. c \in PartsCut
    BY <1>2, <1>3, ElementOfSeq
  <2>. QED  BY <2>1 DEF PartsCut
<1>5. /\ whole \in Seq(Seq(Characters)) /\ Len(whole) = Len(r.chunks)
      /\ whole[n + 1] = c.text \o c.gap
  BY <1>2, <1>3, RejoinedType
<1>. HIDE DEF c, whole, before, said, gap, n, p, left, longer
<1>6. InPair(p, c.text) \in Seq(Marked) /\ gap \in Seq(Marked)
  BY <1>2, <1>4, InPairPlaces DEF gap
<1>7. said \in Seq(Marked)
  BY <1>6, EmptySeq DEF said
<1>8. longer \in Seq(Marked) /\ longer = (r.translated \o said) \o gap
  <2>2. longer = (r.translated \o said) \o gap
    BY DEF said, gap, p, n, c, longer, Answered
  <2>1. r.translated \o said \in Seq(Marked)
    BY <1>2, <1>7, ConcatProperties
  <2>. QED  BY <1>6, <2>1, <2>2, ConcatProperties
<1>10. /\ q \in Requests /\ q.chunks = r.chunks /\ q.text = r.text /\ q.done = n + 1
       /\ q.pair = p /\ q.translated = longer /\ q.bare = left
  <2>1. left \in BOOLEAN /\ n + 1 \in Nat
    BY <1>2 DEF left
  <2>. DEFINE next == n + 1
  <2>. HIDE DEF next
  <2>2. next \in Nat /\ q = [r EXCEPT !.done = next, !.bare = left, !.translated = longer]
    BY <2>1 DEF next
  <2>3. longer \in Seq(Marked)
    BY <1>8
  <2>. HIDE DEF q
  <2>4. /\ q \in Requests /\ q.chunks = r.chunks /\ q.text = r.text /\ q.done = next
        /\ q.pair = r.pair /\ q.translated = longer /\ q.bare = left
    BY <1>1, <2>1, <2>2, <2>3 DEF Requests
  <2>. QED  BY <2>4 DEF p, next
<1>. HIDE DEF q
<1>11. ASSUME ~q.bare
       PROVE  longer = InPair(p, Paste!FlattenSeq(SubSeq(whole, 1, n + 1)))
  <2>1. ~b /\ ~r.bare
    BY <1>10, <1>11 DEF left
  <2>2. r.translated = InPair(p, before) /\ said = InPair(p, c.text)
    BY <1>1, <1>2, <1>3, <2>1 DEF said
  <2>3. /\ before \in Seq(Characters)
        /\ Paste!FlattenSeq(SubSeq(whole, 1, n + 1)) = before \o (c.text \o c.gap)
    <3>1. n < Len(whole)
      BY <1>2, <1>3, <1>5
    <3>2. /\ SubSeq(whole, 1, n) \in Seq(Seq(Characters))
          /\ Paste!FlattenSeq(SubSeq(whole, 1, n + 1)) = before \o whole[n + 1]
      BY <1>2, <1>5, <3>1, PrefixPlusOne DEF before
    <3>. QED  BY <1>5, <3>2, FlattenType DEF before
  <2>4. InPair(p, c.text \o c.gap) = InPair(p, c.text) \o InPair(p, c.gap)
    BY <1>2, <1>4, InPairConcat
  <2>5. InPair(p, before \o (c.text \o c.gap)) = InPair(p, before) \o InPair(p, c.text \o c.gap)
    <3>1. c.text \o c.gap \in Seq(Characters)
      BY <1>4, PartWhole
    <3>. QED  BY <1>2, <2>3, <3>1, InPairConcat
  <2>6. (r.translated \o said) \o gap = r.translated \o (said \o gap)
    <3>1. \A x, y, z \in Seq(Marked) : (x \o y) \o z = x \o (y \o z)
      BY Assoc
    <3>. QED  BY <1>2, <1>6, <1>7, <3>1
  <2>. QED  BY <1>8, <2>2, <2>3, <2>4, <2>5, <2>6 DEF gap
<1>12. q \in Faithful
  <2>1. q.chunks = Paste!translationChunks(q.text)
    BY <1>1, <1>10
  <2>2. ~q.bare =>
          q.translated = InPair(q.pair, Paste!FlattenSeq(SubSeq(Rejoined(q.chunks), 1, q.done)))
    BY <1>10, <1>11 DEF whole
  <2>. QED  BY <1>10, <2>1, <2>2 DEF Faithful
<1>. QED  BY <1>10, <1>12 DEF n, left, longer, q

(* What a finished request says is its text, in its pair.                  *)
LEMMA FinishedWhole ==
  ASSUME NEW r \in Faithful, r.done = Len(r.chunks), ~r.bare
  PROVE  r.translated = InPair(r.pair, Paste!FlattenSeq(Spaced(r.text)))
<1>. DEFINE whole == Rejoined(r.chunks)
<1>1. /\ r \in Requests /\ r.chunks = Paste!translationChunks(r.text)
      /\ r.translated = InPair(r.pair, Paste!FlattenSeq(SubSeq(whole, 1, r.done)))
  <2>1. r \in Requests
    BY DEF Faithful
  <2>2. r.done <= Len(r.chunks)
    BY <2>1 DEF Requests
  <2>. QED  BY <2>2 DEF Faithful
<1>2. r.text \in Seq(Words) /\ r.chunks \in Seq(PartsCut) /\ r.done \in Nat
  BY <1>1 DEF Requests
<1>3. whole \in Seq(Seq(Characters)) /\ Len(whole) = r.done
  BY <1>2, RejoinedType
<1>4. SubSeq(whole, 1, r.done) = whole
  BY <1>3, SubSeqFull
<1>5. Paste!FlattenSeq(whole) = Paste!FlattenSeq(Spaced(r.text))
  BY <1>1, <1>2, PastedTextCutWhole DEF Rejoined, Spaced, Words
<1>. HIDE DEF whole
<1>. QED  BY <1>1, <1>4, <1>5

Change == [sent : Paste!Pairs, previous : Paste!Pairs, served : BOOLEAN]

(* The pair, the store and everything under way that may become one.       *)
PairsInv ==
  /\ pair \in Paste!Pairs /\ saved \in Paste!Pairs
  /\ queue \in Seq(Change) /\ reads \in Seq(Paste!Pairs)

Over(r) == r.done \notin 0 .. Len(r.chunks) - 1

(* One text at a time: all but the last are over.                          *)
ResultInv ==
  /\ translations \in Seq(Faithful)
  /\ \A n \in 1 .. Len(translations) - 1 : Over(translations[n])
  /\ result # <<>> =>
       /\ translations # <<>>
       /\ translations[Len(translations)].done = Len(translations[Len(translations)].chunks)
       /\ result = translations[Len(translations)].translated

PasteInv == PairsInv /\ ResultInv

LEMMA DefaultIsPair == Paste!Default \in Paste!Pairs
BY PartsAssumption DEF Paste!Default, Paste!Pairs

LEMMA PasteInitInv ==
  ASSUME Paste!Init
  PROVE  PasteInv
<1>1. /\ pair = Paste!Default /\ saved = Paste!Default /\ queue = <<>> /\ reads = <<>>
      /\ translations = <<>> /\ result = <<>>
  BY DEF Paste!Init, Paste!Nothing
<1>2. Paste!Default \in Paste!Pairs
  BY DefaultIsPair
<1>3. /\ queue \in Seq(Change) /\ reads \in Seq(Paste!Pairs) /\ translations \in Seq(Faithful)
      /\ Len(translations) = 0
  BY <1>1, EmptySeq
<1>4. PairsInv
  BY <1>1, <1>2, <1>3 DEF PairsInv
<1>5. ResultInv
  BY <1>1, <1>3 DEF ResultInv
<1>. QED  BY <1>4, <1>5 DEF PasteInv

LEMMA PairsKept ==
  ASSUME PairsInv, UNCHANGED Paste!settings
  PROVE  PairsInv'
BY DEF PairsInv, Paste!settings

LEMMA ResultKept ==
  ASSUME ResultInv, UNCHANGED <<translations, result>>
  PROVE  ResultInv'
BY DEF ResultInv

---------------------------------------------------------------------------
(* The pair.                                                               *)

LEMMA ChosenPairs ==
  ASSUME NEW l \in LanguagesPicked, pair \in Paste!Pairs
  PROVE  Paste!chooseSource(l) \in Paste!Pairs /\ Paste!chooseTarget(l) \in Paste!Pairs
BY DEF Paste!chooseSource, Paste!chooseTarget, Paste!Pairs

LEMMA ChangePairs ==
  ASSUME PairsInv, Paste!changeTranslationLanguages
  PROVE  PairsInv'
<1>. DEFINE new == [sent |-> pair', previous |-> pair, served |-> FALSE]
<1>1. pair' \in Paste!Pairs
  BY ChosenPairs DEF PairsInv, Paste!changeTranslationLanguages
<1>2. new \in Change
  BY <1>1 DEF PairsInv, Change
<1>3. queue' = Append(queue, new) /\ saved' = saved /\ reads' = reads
  BY DEF Paste!changeTranslationLanguages
<1>. HIDE DEF new
<1>. QED  BY <1>1, <1>2, <1>3, AppendProperties DEF PairsInv

LEMMA ServePairs ==
  ASSUME PairsInv, Paste!ServeChange
  PROVE  PairsInv'
<1>1. PICK n \in DOMAIN queue :
        saved' = queue[n].sent /\ queue' = [queue EXCEPT ![n].served = TRUE]
  BY DEF Paste!ServeChange
<1>. DEFINE new == [queue[n] EXCEPT !.served = TRUE]
<1>2. queue \in Seq(Change) /\ n \in 1 .. Len(queue)
  BY LenProperties DEF PairsInv
<1>3. queue[n] \in Change
  BY <1>2, ElementOfSeq
<1>4. new \in Change /\ queue[n].sent \in Paste!Pairs
  BY <1>3 DEF Change
<1>. DEFINE q == [queue EXCEPT ![n] = new]
<1>5. queue' = q
  BY <1>1
<1>. HIDE DEF new
<1>6. q \in Seq(Change)
  BY <1>2, <1>4, ExceptSeq
<1>. HIDE DEF q
<1>7. pair' = pair /\ reads' = reads
  BY DEF Paste!ServeChange
<1>. QED  BY <1>1, <1>4, <1>5, <1>6, <1>7 DEF PairsInv

LEMMA AnswerPairs ==
  ASSUME PairsInv, Paste!ChangeAnswered
  PROVE  PairsInv'
<1>1. PICK i \in DOMAIN queue :
        /\ queue' = Without(queue, i)
        /\ pair' \in {queue[i].sent, queue[i].previous}
  BY DEF Paste!ChangeAnswered, Paste!RemoveAt, Without
<1>2. queue \in Seq(Change) /\ i \in 1 .. Len(queue)
  BY LenProperties DEF PairsInv
<1>3. queue[i] \in Change
  BY <1>2, ElementOfSeq
<1>4. pair' \in Paste!Pairs
  BY <1>1, <1>3 DEF Change
<1>5. queue' \in Seq(Change)
  BY <1>1, <1>2, RemovedIs
<1>6. saved' = saved /\ reads' = reads
  BY DEF Paste!ChangeAnswered
<1>. QED  BY <1>4, <1>5, <1>6 DEF PairsInv

LEMMA ReadPairs ==
  ASSUME PairsInv,
         Paste!OtherTabSaves \/ Paste!ReadServed \/ Paste!ReadAnswered \/ Paste!ReadFails
  PROVE  PairsInv'
<1>1. CASE Paste!OtherTabSaves
  BY <1>1 DEF Paste!OtherTabSaves, PairsInv
<1>2. CASE Paste!ReadServed
  BY <1>2, AppendProperties DEF Paste!ReadServed, PairsInv
<1>3. CASE Paste!ReadAnswered
  <2>1. PICK i \in DOMAIN reads : pair' = reads[i] /\ reads' = Without(reads, i)
    BY <1>3 DEF Paste!ReadAnswered, Paste!RemoveAt, Without
  <2>2. reads \in Seq(Paste!Pairs) /\ i \in 1 .. Len(reads)
    BY LenProperties DEF PairsInv
  <2>3. pair' \in Paste!Pairs
    BY <2>1, <2>2, ElementOfSeq
  <2>4. reads' \in Seq(Paste!Pairs)
    BY <2>1, <2>2, RemovedIs
  <2>. QED  BY <1>3, <2>3, <2>4 DEF Paste!ReadAnswered, PairsInv
<1>4. CASE Paste!ReadFails
  BY <1>4, DefaultIsPair DEF Paste!ReadFails, PairsInv
<1>. QED  BY <1>1, <1>2, <1>3, <1>4

LEMMA TextsPasted == Texts \subseteq Seq(Words)
<1>1. \A n \in Nat, b \in BOOLEAN : W(n, b) \in Words
  BY DEF W, Words
<1>2. /\ W(1, TRUE) \in Words /\ W(3, FALSE) \in Words /\ W(1, FALSE) \in Words
      /\ W(4, FALSE) \in Words /\ W(6, FALSE) \in Words
  BY <1>1
<1>3. ASSUME NEW x \in Words, NEW y \in Words, NEW z \in Words
      PROVE  <<x>> \in Seq(Words) /\ <<x, y>> \in Seq(Words) /\ <<x, y, z>> \in Seq(Words)
  OBVIOUS
<1>4. /\ <<W(1, TRUE), W(1, TRUE), W(3, FALSE)>> \in Seq(Words)
      /\ <<W(1, FALSE), W(1, TRUE), W(1, FALSE)>> \in Seq(Words)
      /\ <<W(3, FALSE), W(1, TRUE), W(4, FALSE)>> \in Seq(Words)
  BY <1>2, <1>3
<1>5. <<W(6, FALSE), W(1, FALSE)>> \in Seq(Words) /\ <<W(4, FALSE)>> \in Seq(Words)
  BY <1>2, <1>3
<1>. QED  BY <1>4, <1>5 DEF Texts

LEMMA RequestSteps ==
  ASSUME PasteInv, Paste!translatePastedText
  PROVE  ResultInv'
<1>1. pair \in Paste!Pairs /\ translations \in Seq(Faithful)
  BY DEF PasteInv, PairsInv, ResultInv
<1>2. PICK words \in Texts :
        translations' = Append(translations,
          [text |-> words, chunks |-> Paste!translationChunks(words), pair |-> pair, done |-> 0,
           translated |-> <<>>, bare |-> FALSE])
  BY DEF Paste!translatePastedText
<1>3. result' = <<>>
  BY DEF Paste!translatePastedText, Paste!Nothing
<1>. DEFINE r == [text |-> words, chunks |-> Paste!translationChunks(words), pair |-> pair,
                  done |-> 0, translated |-> <<>>, bare |-> FALSE]
<1>4. r \in Faithful
  BY <1>1, TextsPasted, NewFaithful
<1>5. translations' = Append(translations, r)
  BY <1>2
<1>. HIDE DEF r
<1>6. translations' \in Seq(Faithful) /\ Len(translations') = Len(translations) + 1
  BY <1>1, <1>4, <1>5, AppendProperties
<1>7. ASSUME NEW n \in 1 .. Len(translations') - 1  PROVE Over(translations'[n])
  <2>1. n \in 1 .. Len(translations) /\ DOMAIN translations = 1 .. Len(translations)
    BY <1>1, <1>6, LenProperties
  <2>2. ~Paste!Waits(n)
    BY <2>1 DEF Paste!translatePastedText, Paste!Translating
  <2>3. Over(translations[n])
    BY <2>2, SMTT(30) DEF Paste!Waits, Paste!Chunks, Over
  <2>4. translations'[n] = translations[n]
    BY <1>1, <1>4, <1>5, <2>1, AppendProperties
  <2>. QED  BY <2>3, <2>4
<1>. QED  BY <1>3, <1>6, <1>7 DEF ResultInv

(* A request waiting for a part is the last.                               *)
LEMMA LastWaits ==
  ASSUME ResultInv, NEW n \in DOMAIN translations, Paste!Waits(n)
  PROVE  n = Len(translations)
<1>1. translations \in Seq(Faithful) /\ n \in 1 .. Len(translations) /\ Len(translations) \in Nat
  BY LenProperties DEF ResultInv
<1>2. ~Over(translations[n])
  BY SMTT(30) DEF Paste!Waits, Paste!Chunks, Over
<1>3. n \notin 1 .. Len(translations) - 1
  BY <1>2 DEF ResultInv
<1>. QED  BY <1>1, <1>3

(* The last request changes.                                               *)
LEMMA LastRequest ==
  ASSUME ResultInv, NEW q \in Faithful, translations # <<>>,
         translations' = [translations EXCEPT ![Len(translations)] = q]
  PROVE  /\ translations' \in Seq(Faithful) /\ translations' # <<>>
         /\ Len(translations') = Len(translations) /\ translations'[Len(translations)] = q
         /\ \A n \in 1 .. Len(translations') - 1 : Over(translations'[n])
<1>. DEFINE m == Len(translations)
            new == [translations EXCEPT ![m] = q]
<1>1. translations \in Seq(Faithful) /\ m \in Nat /\ m # 0
  BY EmptySeq, LenProperties DEF ResultInv
<1>2. m \in 1 .. m
  BY <1>1
<1>3. /\ new \in Seq(Faithful) /\ Len(new) = m
      /\ \A j \in 1 .. m : new[j] = IF j = m THEN q ELSE translations[j]
  BY <1>1, <1>2, ExceptSeq
<1>. HIDE DEF new
<1>4. translations' = new
  BY DEF new
<1>5. \A n \in 1 .. m - 1 : Over(translations[n])
  BY DEF ResultInv
<1>. HIDE DEF m
<1>6. \A n \in 1 .. m - 1 : new[n] = translations[n]
  BY <1>1, <1>3
<1>7. new # <<>>
  BY <1>1, <1>3, EmptySeq
<1>. QED  BY <1>2, <1>3, <1>4, <1>5, <1>6, <1>7 DEF m

LEMMA FailSteps ==
  ASSUME ResultInv, NEW n \in DOMAIN translations, Paste!PartFails(n)
  PROVE  ResultInv'
<1>. DEFINE r == translations[n]
            q == [r EXCEPT !.done = Len(r.chunks) + 1]
<1>1. r \in Faithful
  BY ElementOfSeq, LenProperties DEF ResultInv
<1>2. q \in Faithful /\ Len(r.chunks) \in Nat
  BY <1>1, EndedFaithful
<1>3. n = Len(translations) /\ translations # <<>>
  <2>1. Paste!Waits(n)
    BY DEF Paste!PartFails
  <2>2. translations # <<>>
    BY LenProperties, EmptySeq DEF ResultInv
  <2>. QED  BY <2>1, <2>2, LastWaits
<1>4. translations[Len(translations)].done # Len(translations[Len(translations)].chunks)
  BY <1>2, <1>3 DEF Paste!PartFails, Paste!Waits, Paste!Chunks
<1>5. translations' = [translations EXCEPT ![Len(translations)] = q] /\ result' = result
  BY <1>3 DEF Paste!PartFails, Paste!Chunks
<1>6. result = <<>>
  BY <1>4 DEF ResultInv
<1>. HIDE DEF q
<1>7. /\ translations' \in Seq(Faithful)
      /\ \A k \in 1 .. Len(translations') - 1 : Over(translations'[k])
  BY <1>2, <1>3, <1>5, LastRequest
<1>. QED  BY <1>5, <1>6, <1>7 DEF ResultInv

LEMMA PartSteps ==
  ASSUME ResultInv, NEW n \in DOMAIN translations, Paste!PartTranslated(n)
  PROVE  ResultInv'
<1>. DEFINE r == translations[n]
            c == r.chunks[r.done + 1]
<1>1. r \in Faithful /\ translations \in Seq(Faithful) /\ n \in 1 .. Len(translations)
      /\ Len(translations) \in Nat
  BY ElementOfSeq, LenProperties DEF ResultInv
<1>2. Len(r.chunks) \in Nat
  BY <1>1, EndedFaithful
<1>3. r.done < Len(r.chunks) /\ r.done \in Nat
  <2>1. Paste!Waits(n)
    BY DEF Paste!PartTranslated
  <2>2. r.done \in 0 .. Len(r.chunks) - 1
    BY <2>1, SMTT(30) DEF Paste!Waits, Paste!Chunks
  <2>. HIDE DEF r
  <2>. QED  BY <1>2, <2>2, SMTT(30)
<1>4. PICK b \in BOOLEAN :
        translations' = [translations EXCEPT ![n] =
          [r EXCEPT !.done = @ + 1, !.bare = @ \/ b,
                    !.translated = @ \o (IF b THEN <<>> ELSE InPair(r.pair, c.text))
                                     \o InPair(r.pair, c.gap)]]
  BY ZenonT(40) DEF Paste!PartTranslated, Paste!Chunks, Paste!PairOf, InPair
<1>5. result' = IF translations'[n].done = Len(r.chunks)
                THEN translations'[n].translated ELSE result
  BY Zenon DEF Paste!PartTranslated, Paste!Chunks
<1>6. n = Len(translations) /\ translations # <<>>
  <2>1. Paste!Waits(n)
    BY DEF Paste!PartTranslated
  <2>2. translations # <<>>
    BY <1>1, EmptySeq
  <2>. QED  BY <2>1, <2>2, LastWaits
<1>. DEFINE q == [r EXCEPT !.done = r.done + 1, !.bare = r.bare \/ b,
                    !.translated = Answered(r, b)]
<1>7. q \in Faithful /\ q.chunks = r.chunks /\ q.done = r.done + 1
  <2>1. r \in Faithful /\ r.done < Len(r.chunks)
    BY <1>1, <1>3
  <2>. HIDE DEF r
  <2>. QED  BY <2>1, AnsweredFaithful, Zenon
<1>8. translations' = [translations EXCEPT ![n] = q]
  BY <1>4 DEF Answered
<1>. HIDE DEF q
<1>9. /\ translations' \in Seq(Faithful) /\ translations' # <<>>
      /\ Len(translations') = n /\ translations'[n] = q
      /\ \A k \in 1 .. Len(translations') - 1 : Over(translations'[k])
  BY <1>6, <1>7, <1>8, LastRequest
<1>10. result = <<>>
  <2>1. r.done # Len(r.chunks)
    BY <1>2, <1>3
  <2>. QED  BY <1>6, <2>1 DEF ResultInv
<1>11. result' = IF q.done = Len(q.chunks) THEN q.translated ELSE <<>>
  BY <1>5, <1>7, <1>9, <1>10
<1>12. ASSUME result' # <<>>
       PROVE  /\ translations'[Len(translations')].done
                    = Len(translations'[Len(translations')].chunks)
              /\ result' = translations'[Len(translations')].translated
  BY <1>9, <1>11, <1>12
<1>. QED  BY <1>9, <1>12 DEF ResultInv

LEMMA PasteNextInv ==
  ASSUME PasteInv, Paste!Next
  PROVE  PasteInv'
<1>1. PairsInv /\ ResultInv
  BY DEF PasteInv
<1>2. CASE Paste!changeTranslationLanguages
  <2>1. UNCHANGED <<translations, result>>
    BY <1>2 DEF Paste!changeTranslationLanguages
  <2>. QED  BY <1>1, <1>2, <2>1, ChangePairs, ResultKept DEF PasteInv
<1>3. CASE Paste!ServeChange
  <2>1. UNCHANGED <<translations, result>>
    BY <1>3 DEF Paste!ServeChange
  <2>. QED  BY <1>1, <1>3, <2>1, ServePairs, ResultKept DEF PasteInv
<1>4. CASE Paste!ChangeAnswered
  <2>1. UNCHANGED <<translations, result>>
    BY <1>4 DEF Paste!ChangeAnswered
  <2>. QED  BY <1>1, <1>4, <2>1, AnswerPairs, ResultKept DEF PasteInv
<1>5. CASE Paste!translatePastedText
  <2>1. UNCHANGED Paste!settings
    BY <1>5 DEF Paste!translatePastedText
  <2>. QED  BY <1>1, <1>5, <2>1, PairsKept, RequestSteps DEF PasteInv
<1>6. ASSUME NEW n \in DOMAIN translations, Paste!PartTranslated(n)  PROVE PasteInv'
  <2>1. UNCHANGED Paste!settings
    BY <1>6 DEF Paste!PartTranslated
  <2>. QED  BY <1>1, <1>6, <2>1, PairsKept, PartSteps DEF PasteInv
<1>7. ASSUME NEW n \in DOMAIN translations, Paste!PartFails(n)  PROVE PasteInv'
  <2>1. UNCHANGED Paste!settings
    BY <1>7 DEF Paste!PartFails
  <2>. QED  BY <1>1, <1>7, <2>1, PairsKept, FailSteps DEF PasteInv
<1>8. CASE Paste!OtherTabSaves \/ Paste!ReadServed \/ Paste!ReadAnswered \/ Paste!ReadFails
  <2>1. UNCHANGED <<translations, result>>
    BY <1>8 DEF Paste!OtherTabSaves, Paste!ReadServed, Paste!ReadAnswered, Paste!ReadFails
  <2>. QED  BY <1>1, <1>8, <2>1, ReadPairs, ResultKept DEF PasteInv
<1>. QED  BY <1>2, <1>3, <1>4, <1>5, <1>6, <1>7, <1>8 DEF Paste!Next

LEMMA PasteKept ==
  ASSUME PasteInv, UNCHANGED paste_
  PROVE  PasteInv'
<1>1. UNCHANGED Paste!settings /\ UNCHANGED <<translations, result>>
  BY DEF paste_, Paste!settings
<1>. QED  BY <1>1, PairsKept, ResultKept DEF PasteInv

(* What the invariant says of the text shown, of the parts and of the pair.*)
LEMMA ToldWhole == PasteInv => Paste!PasteTranslated
<1>. SUFFICES ASSUME PasteInv  PROVE Paste!PasteTranslated
  OBVIOUS
<1>1. translations \in Seq(Faithful)
  BY DEF PasteInv, ResultInv
<1>2. \A n \in DOMAIN translations : translations[n] \in Faithful
  BY <1>1, LenProperties, ElementOfSeq
<1>3. ASSUME NEW r \in Faithful
      PROVE  r.text \in Seq(Words) /\ r.chunks = Paste!translationChunks(r.text)
  BY DEF Faithful, Requests
<1>4. Paste!PartsFit
  <2>1. ASSUME NEW n \in DOMAIN translations
        PROVE  LET words == translations[n].text
                   Whole == [i \in DOMAIN Paste!Chunks(n) |->
                               Paste!Chunks(n)[i].text \o Paste!Chunks(n)[i].gap]
               IN /\ \A i \in DOMAIN Whole : Len(Whole[i]) <= PartLimit
                  /\ Paste!FlattenSeq(Whole)
                       = Paste!FlattenSeq([i \in DOMAIN words |-> Paste!Word(words, i)])
    <3>. DEFINE words == translations[n].text
    <3>1. words \in Seq([length : Nat, ends : BOOLEAN])
          /\ Paste!Chunks(n) = Paste!translationChunks(words)
      BY <1>2, <1>3 DEF Paste!Chunks, Words
    <3>. HIDE DEF words
    <3>. QED  BY <3>1, PastedTextCutWhole DEF words
  <2>. QED  BY <2>1 DEF Paste!PartsFit
<1>5. Paste!ResultOfLastText
  <2>1. SUFFICES ASSUME result # <<>>
                 PROVE  LET r == translations[Len(translations)]
                        IN r.bare \/ result = InPair(r.pair, Paste!FlattenSeq(Spaced(r.text)))
    BY DEF Paste!ResultOfLastText, Paste!Nothing, InPair, Spaced
  <2>. DEFINE r == translations[Len(translations)]
  <2>2. /\ translations # <<>> /\ r.done = Len(r.chunks) /\ result = r.translated
    BY <2>1 DEF PasteInv, ResultInv
  <2>3. r \in Faithful
    <3>1. Len(translations) \in 1 .. Len(translations)
      BY <1>1, <2>2, EmptySeq, LenProperties
    <3>. QED  BY <1>1, <3>1, ElementOfSeq
  <2>. HIDE DEF r
  <2>4. ~r.bare => r.translated = InPair(r.pair, Paste!FlattenSeq(Spaced(r.text)))
    BY <2>2, <2>3, FinishedWhole
  <2>. QED  BY <2>2, <2>4 DEF r
<1>6. Paste!PairsApart
  <2>1. \A n \in DOMAIN translations : translations[n].pair \in Paste!Pairs
    BY <1>2 DEF Faithful, Requests
  <2>. QED  BY <2>1 DEF PasteInv, PairsInv, Paste!PairsApart
<1>. QED  BY <1>4, <1>5, <1>6 DEF Paste!PasteTranslated

---------------------------------------------------------------------------
(* The rate limit: what the windows the server holds know of the requests  *)
(* it let through.                                                         *)

RateWindows == [key : Rate!Clients, count : Nat, resetAt : Nat]

RateTypes ==
  /\ now \in Nat /\ windows \in Seq(RateWindows)
  /\ admitted \in [Rate!Clients -> Seq(Nat)]

(* Every admission ended before the window does; those before the window's *)
(* own were over a window's length earlier; those a whole limit before them*)
(* two.                                                                    *)
Accounts(w, a, limit, t) ==
  /\ w.count \in 1 .. limit /\ w.count <= Len(a) /\ w.resetAt <= t + Window
  /\ \A k \in DOMAIN a :
       /\ a[k] < w.resetAt
       /\ k + w.count <= Len(a) => a[k] + Window < w.resetAt
       /\ k + w.count + limit <= Len(a) => a[k] + 2 * Window < w.resetAt

(* Without a window a client may start afresh.                             *)
Afresh(a, limit, t) ==
  \A k \in DOMAIN a : a[k] < t /\ (k + limit <= Len(a) => a[k] + Window < t)

WellSpaced(a, limit) ==
  \A i, j \in DOMAIN a : j = i + 2 * limit => a[j] > a[i] + Window

(* The same for all windows of a client in a set of windows.               *)
Accounted(ws, p, a, t) ==
  /\ \A w \in ws : w.key = p => Accounts(w, a, Rate!rateLimitFor(p[1]), t)
  /\ (\A w \in ws : w.key # p) => Afresh(a, Rate!rateLimitFor(p[1]), t)
  /\ WellSpaced(a, Rate!rateLimitFor(p[1]))

RateInv ==
  /\ RateTypes
  /\ \A p \in Rate!Clients \ dropped : Accounted(Range(windows), p, admitted[p], now)

LEMMA AppendedAre ==
  ASSUME NEW A, NEW ws \in Seq(A), NEW w \in A
  PROVE  Range(Append(ws, w)) = Range(ws) \cup {w}
<1>. DEFINE v == Append(ws, w)
            m == Len(ws)
<1>1. /\ v \in Seq(A) /\ m \in Nat /\ DOMAIN ws = 1 .. m /\ DOMAIN v = 1 .. m + 1
      /\ (\A i \in 1 .. m : v[i] = ws[i]) /\ v[m + 1] = w
  BY AppendProperties, LenProperties
<1>2. 1 .. m + 1 = (1 .. m) \cup {m + 1}
  BY <1>1
<1>. HIDE DEF v, m
<1>3. Range(v) = {v[i] : i \in 1 .. m} \cup {v[m + 1]}
  BY <1>1, <1>2 DEF Range
<1>4. Range(ws) = {v[i] : i \in 1 .. m}
  BY <1>1 DEF Range
<1>. QED  BY <1>1, <1>3, <1>4 DEF v

(* The windows that are not over, one after the other.                     *)
KeptIn(ws, t, g, m) ==
  g = [n \in 0 .. m |-> IF n = 0 THEN <<>>
                        ELSE IF ws[n].resetAt > t THEN Append(g[n - 1], ws[n]) ELSE g[n - 1]]

LEMMA KeptExists ==
  ASSUME NEW ws, NEW t, NEW n \in Nat
  PROVE  \E g : KeptIn(ws, t, g, n)
<1>. DEFINE S == {m \in Nat : \E g : KeptIn(ws, t, g, m)}
            next(f, i) == IF i = 0 THEN <<>>
                          ELSE IF ws[i].resetAt > t THEN Append(f[i - 1], ws[i]) ELSE f[i - 1]
<1>1. 0 \in S
  <2>. DEFINE h == [i \in 0 .. 0 |-> <<>>]
  <2>1. h = [i \in 0 .. 0 |-> next(h, i)]
    OBVIOUS
  <2>. HIDE DEF h
  <2>2. KeptIn(ws, t, h, 0)
    BY <2>1 DEF KeptIn
  <2>. QED  BY <2>2
<1>2. ASSUME NEW m \in Nat, m \in S  PROVE m + 1 \in S
  <2>1. PICK g : KeptIn(ws, t, g, m)
    BY <1>2
  <2>. DEFINE h == [i \in 0 .. m + 1 |-> IF i \in 0 .. m THEN g[i] ELSE next(g, i)]
  <2>2. \A i \in 0 .. m : g[i] = next(g, i)
    BY <2>1 DEF KeptIn
  <2>3. ASSUME NEW i \in 0 .. m + 1  PROVE h[i] = next(h, i)
    <3>1. i # 0 => i - 1 \in 0 .. m + 1 /\ i - 1 \in 0 .. m
      OBVIOUS
    <3>2. i # 0 => h[i - 1] = g[i - 1]
      BY <3>1
    <3>3. h[i] = IF i \in 0 .. m THEN g[i] ELSE next(g, i)
      OBVIOUS
    <3>. HIDE DEF h
    <3>4. next(h, i) = next(g, i)
      BY <3>2
    <3>. HIDE DEF next
    <3>. QED  BY <2>2, <3>3, <3>4
  <2>4. h = [i \in 0 .. m + 1 |-> h[i]]
    OBVIOUS
  <2>. HIDE DEF h
  <2>. HIDE DEF next
  <2>5. h = [i \in 0 .. m + 1 |-> next(h, i)]
    BY <2>3, <2>4
  <2>6. KeptIn(ws, t, h, m + 1)
    BY <2>5 DEF KeptIn, next
  <2>. QED  BY <2>6
<1>. HIDE DEF S
<1>3. n \in S
  BY <1>1, <1>2, Inductive
<1>. QED  BY <1>3 DEF S

LEMMA KeptAre ==
  ASSUME NEW A, NEW ws \in Seq(A), NEW t, NEW g, KeptIn(ws, t, g, Len(ws))
  PROVE  /\ g[Len(ws)] \in Seq(A)
         /\ \A w : w \in Range(g[Len(ws)]) <=> w \in Range(ws) /\ w.resetAt > t
<1>. DEFINE m == Len(ws)
            Some(n) == {w \in {ws[i] : i \in 1 .. n} : w.resetAt > t}
            T == {n \in Nat : n \in 0 .. m => g[n] \in Seq(A) /\ Range(g[n]) = Some(n)}
<1>1. m \in Nat /\ (\A i \in 1 .. m : ws[i] \in A) /\ DOMAIN ws = 1 .. m
  BY LenProperties
<1>2. \A n \in 0 .. m : g[n] = IF n = 0 THEN <<>>
                        ELSE IF ws[n].resetAt > t THEN Append(g[n - 1], ws[n]) ELSE g[n - 1]
  BY DEF KeptIn
<1>3. 0 \in T
  <2>1. g[0] = <<>>
    BY <1>1, <1>2
  <2>2. <<>> \in Seq(A) /\ Range(<<>>) = {}
    BY EmptySeq DEF Range
  <2>3. Some(0) = {}
    OBVIOUS
  <2>. QED  BY <2>1, <2>2, <2>3
<1>4. ASSUME NEW n \in Nat, n \in T  PROVE n + 1 \in T
  <2>1. SUFFICES ASSUME n + 1 \in 0 .. m
                 PROVE  g[n + 1] \in Seq(A) /\ Range(g[n + 1]) = Some(n + 1)
    OBVIOUS
  <2>2. n \in 0 .. m /\ n + 1 \in 1 .. m /\ n + 1 # 0 /\ (n + 1) - 1 = n
    BY <1>1, <2>1
  <2>3. g[n] \in Seq(A) /\ Range(g[n]) = Some(n)
    BY <1>4, <2>2
  <2>4. g[n + 1] = IF ws[n + 1].resetAt > t THEN Append(g[n], ws[n + 1]) ELSE g[n]
    <3>1. g[n + 1] = IF n + 1 = 0 THEN <<>>
                     ELSE IF ws[n + 1].resetAt > t THEN Append(g[(n + 1) - 1], ws[n + 1])
                     ELSE g[(n + 1) - 1]
      BY <1>2, <2>1
    <3>. QED  BY <2>2, <3>1
  <2>5. ws[n + 1] \in A
    BY <1>1, <2>2
  <2>6. {ws[i] : i \in 1 .. n + 1} = {ws[i] : i \in 1 .. n} \cup {ws[n + 1]}
    <3>1. 1 .. n + 1 = (1 .. n) \cup {n + 1}
      OBVIOUS
    <3>. QED  BY <3>1
  <2>7. Some(n + 1) = IF ws[n + 1].resetAt > t THEN Some(n) \cup {ws[n + 1]} ELSE Some(n)
    BY <2>6
  <2>8. /\ Append(g[n], ws[n + 1]) \in Seq(A)
        /\ Range(Append(g[n], ws[n + 1])) = Range(g[n]) \cup {ws[n + 1]}
    BY <2>3, <2>5, AppendProperties, AppendedAre
  <2>. HIDE DEF Some
  <2>. QED  BY <2>3, <2>4, <2>7, <2>8
<1>. HIDE DEF T
<1>5. m \in T
  BY <1>1, <1>3, <1>4, Inductive
<1>6. g[m] \in Seq(A) /\ Range(g[m]) = Some(m)
  BY <1>1, <1>5 DEF T
<1>7. Range(ws) = {ws[i] : i \in 1 .. m}
  BY <1>1 DEF Range
<1>. QED  BY <1>6, <1>7

LEMMA LiveAre ==
  ASSUME RateTypes
  PROVE  /\ Rate!Live \in Seq(RateWindows)
         /\ \A w : w \in Range(Rate!Live) <=> w \in Range(windows) /\ w.resetAt > now
<1>. DEFINE f == CHOOSE g : KeptIn(windows, now, g, Len(windows))
<1>1. windows \in Seq(RateWindows) /\ Len(windows) \in Nat
  BY LenProperties DEF RateTypes
<1>2. KeptIn(windows, now, f, Len(windows))
  BY <1>1, KeptExists
<1>3. Rate!Live = f[Len(windows)]
  BY DEF Rate!Live, KeptIn
<1>. HIDE DEF f
<1>. QED  BY <1>1, <1>2, <1>3, KeptAre

(* What a request finds: windows that are not over; the others are over, or*)
(* were given up.                                                          *)
LEMMA RoomAre ==
  ASSUME RateTypes
  PROVE  /\ Rate!Room \in Seq(RateWindows)
         /\ \A w \in Range(Rate!Room) : w \in Range(windows) /\ w.resetAt > now
         /\ \A w \in Range(windows) :
              w.key \in Rate!Keys(Rate!Room) \/ w.resetAt <= now
              \/ w.key \in Rate!Keys(Rate!Live) \ Rate!Keys(Rate!Room)
<1>1. /\ Rate!Live \in Seq(RateWindows)
      /\ \A w : w \in Range(Rate!Live) <=> w \in Range(windows) /\ w.resetAt > now
  BY LiveAre
<1>2. Rate!Room \in Seq(RateWindows) /\ Range(Rate!Room) \subseteq Range(Rate!Live)
  <2>1. CASE Len(Rate!Live) >= MaxWindows
    <3>1. MaxWindows \in Nat \ {0} /\ Len(Rate!Live) \in Nat
      BY <1>1, PartsAssumption, LenProperties
    <3>2. Rate!Live # <<>>
      BY <2>1, <3>1, EmptySeq
    <3>3. Rate!Room = Tail(Rate!Live)
      BY <2>1 DEF Rate!Room
    <3>4. Tail(Rate!Live) \in Seq(RateWindows) /\ Len(Tail(Rate!Live)) = Len(Rate!Live) - 1
          /\ \A i \in 1 .. Len(Tail(Rate!Live)) : Tail(Rate!Live)[i] = Rate!Live[i + 1]
      BY <1>1, <3>2, HeadTailProperties
    <3>5. DOMAIN Rate!Live = 1 .. Len(Rate!Live)
          /\ DOMAIN Tail(Rate!Live) = 1 .. Len(Tail(Rate!Live))
      BY <1>1, <3>4, LenProperties
    <3>6. \A i \in DOMAIN Tail(Rate!Live) : i + 1 \in DOMAIN Rate!Live
      BY <3>1, <3>4, <3>5
    <3>. QED  BY <3>3, <3>4, <3>5, <3>6 DEF Range
  <2>2. CASE ~(Len(Rate!Live) >= MaxWindows)
    BY <1>1, <2>2 DEF Rate!Room
  <2>. QED  BY <2>1, <2>2
<1>3. \A w \in Range(windows) : w.resetAt \in Nat
  <2>1. Range(windows) \subseteq RateWindows
    BY RangeOfSeq DEF RateTypes
  <2>. QED  BY <2>1 DEF RateWindows
<1>4. \A w \in Range(Rate!Live) : w.key \in Rate!Keys(Rate!Live)
  BY DEF Rate!Keys, Rate!Range, Range
<1>5. now \in Nat
  BY DEF RateTypes
<1>. QED  BY <1>1, <1>2, <1>3, <1>4, <1>5

(* A client that is not given up is accounted for in what a request finds. *)
LEMMA RoomAccounts ==
  ASSUME RateInv, NEW p \in Rate!Clients,
         p \notin dropped \cup (Rate!Keys(Rate!Live) \ Rate!Keys(Rate!Room))
  PROVE  Accounted(Range(Rate!Room), p, admitted[p], now)
<1>. DEFINE a == admitted[p]
            limit == Rate!rateLimitFor(p[1])
<1>1. RateTypes /\ Accounted(Range(windows), p, a, now)
  BY DEF RateInv
<1>2. WellSpaced(a, limit)
  BY <1>1 DEF Accounted
<1>3. \A w \in Range(Rate!Room) : w.key = p => Accounts(w, a, limit, now)
  BY <1>1, RoomAre DEF Accounted
<1>4. ASSUME \A w \in Range(Rate!Room) : w.key # p  PROVE Afresh(a, limit, now)
  <2>1. p \notin Rate!Keys(Rate!Room)
    BY <1>4 DEF Rate!Keys, Rate!Range, Range
  <2>2. CASE \A w \in Range(windows) : w.key # p
    BY <1>1, <2>2 DEF Accounted
  <2>3. ASSUME NEW w \in Range(windows), w.key = p  PROVE Afresh(a, limit, now)
    <3>1. w.resetAt <= now
      BY <1>1, <2>1, <2>3, RoomAre
    <3>2. Accounts(w, a, limit, now)
      BY <1>1, <2>3 DEF Accounted
    <3>3. w.resetAt \in Nat /\ now \in Nat /\ a \in Seq(Nat) /\ Len(a) \in Nat
      <4>1. w \in RateWindows
        BY <1>1, <2>3, RangeEquality DEF RateTypes
      <4>2. a \in Seq(Nat)
        BY <1>1 DEF RateTypes
      <4>. QED  BY <1>1, <4>1, <4>2, LenProperties DEF RateTypes, RateWindows
    <3>4. \A k \in DOMAIN a : k \in Nat /\ a[k] \in Nat
      BY <3>3, LenProperties
    <3>5. limit \in Nat /\ Window \in Nat
      BY PartsAssumption DEF Rate!rateLimitFor
    <3>. HIDE DEF a, limit
    <3>6. ASSUME NEW k \in DOMAIN a
          PROVE  a[k] < now /\ (k + limit <= Len(a) => a[k] + Window < now)
      <4>1. /\ w.count \in 1 .. limit /\ a[k] < w.resetAt
            /\ k + w.count <= Len(a) => a[k] + Window < w.resetAt
        BY <3>2 DEF Accounts
      <4>2. k \in Nat /\ a[k] \in Nat
        BY <3>4
      <4>. QED  BY <3>1, <3>3, <3>5, <4>1, <4>2
    <3>. QED  BY <3>6 DEF Afresh
  <2>. QED  BY <2>2, <2>3
<1>. QED  BY <1>2, <1>3, <1>4 DEF Accounted

(* One more admission, now, at least a window behind the one twice the     *)
(* limit before it.                                                        *)
LEMMA OneMoreSpaced ==
  ASSUME NEW a \in Seq(Nat), NEW limit \in Nat \ {0}, NEW t \in Nat, WellSpaced(a, limit),
         \A k \in DOMAIN a : k + 2 * limit = Len(a) + 1 => a[k] + Window < t
  PROVE  WellSpaced(Append(a, t), limit)
<1>. DEFINE b == Append(a, t)
            n == Len(a)
<1>1. n \in Nat /\ DOMAIN a = 1 .. n /\ DOMAIN b = 1 .. n + 1
      /\ (\A i \in 1 .. n : b[i] = a[i]) /\ b[n + 1] = t
  BY AppendProperties, LenProperties
<1>2. Window \in Nat /\ \A i \in 1 .. n : a[i] \in Nat
  BY <1>1, PartsAssumption, LenProperties
<1>. HIDE DEF b
<1>3. ASSUME NEW i \in DOMAIN b, NEW j \in DOMAIN b, j = i + 2 * limit
      PROVE  b[j] > b[i] + Window
  <2>1. i \in 1 .. n /\ j \in 1 .. n + 1
    BY <1>1, <1>3
  <2>2. CASE j = n + 1
    <3>1. a[i] + Window < t
      BY <1>1, <1>3, <2>1, <2>2
    <3>. QED  BY <1>1, <1>2, <2>1, <2>2, <3>1
  <2>3. CASE j # n + 1
    <3>1. j \in 1 .. n /\ j \in DOMAIN a /\ i \in DOMAIN a
      BY <1>1, <2>1, <2>3
    <3>2. a[j] > a[i] + Window
      BY <1>3, <3>1 DEF WellSpaced
    <3>. QED  BY <1>1, <2>1, <3>1, <3>2
  <2>. QED  BY <2>2, <2>3
<1>. QED  BY <1>3 DEF WellSpaced, b

LEMMA OpensAccount ==
  ASSUME NEW a \in Seq(Nat), NEW limit \in Nat \ {0}, NEW t \in Nat, Afresh(a, limit, t),
         WellSpaced(a, limit), NEW w, w.count = 1, w.resetAt = t + Window
  PROVE  Accounts(w, Append(a, t), limit, t) /\ WellSpaced(Append(a, t), limit)
<1>. DEFINE b == Append(a, t)
            n == Len(a)
<1>1. n \in Nat /\ DOMAIN a = 1 .. n /\ DOMAIN b = 1 .. n + 1 /\ Len(b) = n + 1
      /\ (\A i \in 1 .. n : b[i] = a[i]) /\ b[n + 1] = t
  BY AppendProperties, LenProperties
<1>2. Window \in Nat \ {0} /\ \A i \in 1 .. n : a[i] \in Nat
  BY <1>1, PartsAssumption, LenProperties
<1>3. \A k \in 1 .. n : a[k] < t /\ (k + limit <= n => a[k] + Window < t)
  BY <1>1 DEF Afresh
<1>4. WellSpaced(b, limit)
  <2>1. ASSUME NEW k \in DOMAIN a, k + 2 * limit = n + 1  PROVE a[k] + Window < t
    <3>1. k \in 1 .. n /\ k + limit <= n
      BY <1>1, <2>1
    <3>. QED  BY <1>3, <3>1
  <2>. QED  BY <2>1, OneMoreSpaced
<1>. HIDE DEF b, n
<1>5. ASSUME NEW k \in 1 .. n + 1
      PROVE  /\ b[k] < w.resetAt
             /\ k + w.count <= n + 1 => b[k] + Window < w.resetAt
             /\ k + w.count + limit <= n + 1 => b[k] + 2 * Window < w.resetAt
  <2>1. CASE k = n + 1
    BY <1>1, <1>2, <2>1
  <2>2. CASE k # n + 1
    <3>1. k \in 1 .. n /\ b[k] = a[k] /\ a[k] \in Nat
      BY <1>1, <1>2, <2>2
    <3>2. a[k] < t /\ (k + limit <= n => a[k] + Window < t)
      BY <1>3, <3>1
    <3>. QED  BY <1>1, <1>2, <3>1, <3>2
  <2>. QED  BY <2>1, <2>2
<1>6. w.count \in 1 .. limit /\ w.count <= Len(b) /\ w.resetAt <= t + Window
  BY <1>1, <1>2
<1>7. Accounts(w, b, limit, t)
  BY <1>1, <1>5, <1>6 DEF Accounts
<1>. QED  BY <1>4, <1>7 DEF b

LEMMA CountsAccount ==
  ASSUME NEW a \in Seq(Nat), NEW limit \in Nat \ {0}, NEW t \in Nat, WellSpaced(a, limit),
         NEW w \in RateWindows, NEW v, Accounts(w, a, limit, t), w.count < limit,
         w.resetAt > t, v.count = w.count + 1, v.resetAt = w.resetAt
  PROVE  Accounts(v, Append(a, t), limit, t) /\ WellSpaced(Append(a, t), limit)
<1>. DEFINE b == Append(a, t)
            n == Len(a)
            c == w.count
            r == w.resetAt
<1>1. n \in Nat /\ DOMAIN a = 1 .. n /\ DOMAIN b = 1 .. n + 1 /\ Len(b) = n + 1
      /\ (\A i \in 1 .. n : b[i] = a[i]) /\ b[n + 1] = t
  BY AppendProperties, LenProperties
<1>2. Window \in Nat \ {0} /\ \A i \in 1 .. n : a[i] \in Nat
  BY <1>1, PartsAssumption, LenProperties
<1>3. c \in Nat /\ r \in Nat
  BY DEF RateWindows
<1>4. /\ c \in 1 .. limit /\ c <= n /\ r <= t + Window /\ c < limit /\ r > t
      /\ v.count = c + 1 /\ v.resetAt = r
      /\ \A k \in 1 .. n :
           /\ a[k] < r
           /\ k + c <= n => a[k] + Window < r
           /\ k + c + limit <= n => a[k] + 2 * Window < r
  BY <1>1 DEF Accounts
<1>5. WellSpaced(b, limit)
  <2>1. ASSUME NEW k \in DOMAIN a, k + 2 * limit = n + 1  PROVE a[k] + Window < t
    <3>. HIDE DEF n, c, r
    <3>1. k \in 1 .. n /\ k + c + limit <= n
      BY <1>1, <1>3, <1>4, <2>1
    <3>2. a[k] + 2 * Window < r /\ a[k] \in Nat
      BY <1>2, <1>4, <3>1
    <3>. QED  BY <1>2, <1>3, <1>4, <3>2
  <2>. QED  BY <2>1, OneMoreSpaced
<1>. HIDE DEF b, n, c, r
<1>6. ASSUME NEW k \in 1 .. n + 1
      PROVE  /\ b[k] < v.resetAt
             /\ k + v.count <= n + 1 => b[k] + Window < v.resetAt
             /\ k + v.count + limit <= n + 1 => b[k] + 2 * Window < v.resetAt
  <2>1. CASE k = n + 1
    BY <1>1, <1>2, <1>3, <1>4, <2>1
  <2>2. CASE k # n + 1
    <3>1. k \in 1 .. n /\ b[k] = a[k] /\ a[k] \in Nat
      BY <1>1, <1>2, <2>2
    <3>2. /\ a[k] < r
          /\ k + c <= n => a[k] + Window < r
          /\ k + c + limit <= n => a[k] + 2 * Window < r
      BY <1>4, <3>1
    <3>3. /\ v.resetAt = r /\ v.count = c + 1
          /\ k + v.count <= n + 1 => k + c <= n
          /\ k + v.count + limit <= n + 1 => k + c + limit <= n
      BY <1>1, <1>3, <1>4
    <3>. QED  BY <3>1, <3>2, <3>3
  <2>. QED  BY <2>1, <2>2
<1>7. v.count \in 1 .. limit /\ v.count <= Len(b) /\ v.resetAt <= t + Window
  BY <1>1, <1>2, <1>3, <1>4
<1>8. Accounts(v, b, limit, t)
  BY <1>1, <1>6, <1>7 DEF Accounts
<1>. QED  BY <1>5, <1>8 DEF b

LEMMA RateInitInv == Rate!Init => RateInv
<1>. SUFFICES ASSUME Rate!Init  PROVE RateInv
  OBVIOUS
<1>1. now = 1 /\ windows = <<>> /\ dropped = {}
      /\ admitted = [p \in Rate!Clients |-> <<>>]
  BY DEF Rate!Init
<1>2. <<>> \in Seq(RateWindows) /\ <<>> \in Seq(Nat) /\ Range(<<>>) = {} /\ DOMAIN <<>> = {}
  <2>1. <<>> \in Seq(RateWindows) /\ <<>> \in Seq(Nat)
    BY EmptySeq
  <2>2. DOMAIN <<>> = {}
    OBVIOUS
  <2>. QED  BY <2>1, <2>2 DEF Range
<1>3. RateTypes
  BY <1>1, <1>2 DEF RateTypes
<1>4. ASSUME NEW p \in Rate!Clients  PROVE Accounted(Range(windows), p, admitted[p], now)
  <2>1. Range(windows) = {} /\ DOMAIN admitted[p] = {}
    BY <1>1, <1>2
  <2>. QED  BY <2>1 DEF Accounted, Afresh, WellSpaced
<1>. QED  BY <1>3, <1>4 DEF RateInv

LEMMA TickInv == RateInv /\ Rate!Tick => RateInv'
<1>. SUFFICES ASSUME RateInv, Rate!Tick  PROVE RateInv'
  OBVIOUS
<1>1. RateTypes /\ now' = now + 1 /\ UNCHANGED <<windows, admitted, dropped>>
  BY DEF RateInv, Rate!Tick
<1>2. RateTypes'
  BY <1>1 DEF RateTypes
<1>3. ASSUME NEW p \in Rate!Clients \ dropped
      PROVE  Accounted(Range(windows), p, admitted[p], now + 1)
  <2>. DEFINE a == admitted[p]
              limit == Rate!rateLimitFor(p[1])
  <2>1. Accounted(Range(windows), p, a, now)
    BY <1>3 DEF RateInv
  <2>2. a \in Seq(Nat) /\ now \in Nat /\ Window \in Nat /\ Range(windows) \subseteq RateWindows
    BY <1>1, PartsAssumption, RangeOfSeq DEF RateTypes
  <2>3. \A k \in DOMAIN a : a[k] \in Nat
    BY <2>2, LenProperties
  <2>. HIDE DEF a, limit
  <2>4. ASSUME NEW w \in Range(windows), Accounts(w, a, limit, now)
        PROVE  Accounts(w, a, limit, now + 1)
    <3>1. w.resetAt \in Nat
      BY <2>2 DEF RateWindows
    <3>2. w.resetAt <= now + Window => w.resetAt <= (now + 1) + Window
      BY <2>2, <3>1
    <3>. QED  BY <2>4, <3>2 DEF Accounts
  <2>5. ASSUME Afresh(a, limit, now)  PROVE Afresh(a, limit, now + 1)
    <3>1. ASSUME NEW k \in DOMAIN a
          PROVE  a[k] < now + 1 /\ (k + limit <= Len(a) => a[k] + Window < now + 1)
      <4>1. a[k] < now /\ (k + limit <= Len(a) => a[k] + Window < now)
        BY <2>5 DEF Afresh
      <4>. QED  BY <2>2, <2>3, <4>1
    <3>. QED  BY <3>1 DEF Afresh
  <2>. QED  BY <2>1, <2>4, <2>5 DEF Accounted, a, limit
<1>. QED  BY <1>1, <1>2, <1>3 DEF RateInv

LEMMA LimitedInv ==
  ASSUME RateInv, NEW p \in Rate!Clients, Rate!Limited(p)
  PROVE  RateInv'
<1>1. /\ RateTypes /\ windows' = Rate!Room /\ UNCHANGED <<now, admitted>>
      /\ dropped' = dropped \cup (Rate!Keys(Rate!Live) \ Rate!Keys(Rate!Room))
  BY DEF RateInv, Rate!Limited, Rate!Dropped
<1>2. RateTypes'
  BY <1>1, RoomAre DEF RateTypes
<1>3. \A q \in Rate!Clients \ dropped' : Accounted(Range(Rate!Room), q, admitted[q], now)
  BY <1>1, RoomAccounts
<1>. QED  BY <1>1, <1>2, <1>3 DEF RateInv

(* Whose admissions a request that is let through leaves as they are.      *)
LEMMA LetAre ==
  ASSUME RateTypes, NEW p \in Rate!Clients, Rate!Let(p)
  PROVE  /\ admitted' \in [Rate!Clients -> Seq(Nat)]
         /\ \A q \in Rate!Clients \ dropped' :
              admitted'[q] = IF q = p THEN Append(admitted[q], now) ELSE admitted[q]
<1>1. \A q \in Rate!Clients :
        /\ admitted'[q] = IF q \in dropped' THEN <<>>
                          ELSE IF q = p THEN Append(admitted[q], now) ELSE admitted[q]
        /\ admitted'[q] \in Seq(Nat)
  <2>. TAKE q \in Rate!Clients
  <2>1. admitted[q] \in Seq(Nat) /\ now \in Nat
    BY DEF RateTypes
  <2>2. Append(admitted[q], now) \in Seq(Nat) /\ <<>> \in Seq(Nat)
    BY <2>1, AppendProperties, EmptySeq
  <2>3. admitted'[q] = IF q \in dropped' THEN <<>>
                       ELSE IF q = p THEN Append(admitted[q], now) ELSE admitted[q]
    BY DEF Rate!Let
  <2>. QED  BY <2>1, <2>2, <2>3
<1>2. admitted' = [q \in Rate!Clients |-> admitted'[q]]
  BY DEF Rate!Let
<1>. QED  BY <1>1, <1>2

LEMMA RateOpensInv ==
  ASSUME RateInv, NEW p \in Rate!Clients, Rate!Opens(p)
  PROVE  RateInv'
<1>. DEFINE w == [key |-> p, count |-> 1, resetAt |-> now + Window]
<1>1. /\ RateTypes /\ UNCHANGED now /\ Rate!Let(p) /\ p \notin Rate!Keys(Rate!Room)
      /\ windows' = Append(Rate!Room, w)
      /\ dropped' = dropped \cup (Rate!Keys(Rate!Live) \ Rate!Keys(Rate!Room))
  BY DEF RateInv, Rate!Opens, Rate!Dropped
<1>2. w \in RateWindows /\ w.key = p /\ w.count = 1 /\ w.resetAt = now + Window
  BY <1>1, PartsAssumption DEF RateTypes, RateWindows
<1>. HIDE DEF w
<1>3. Rate!Room \in Seq(RateWindows)
  BY <1>1, RoomAre
<1>4. /\ windows' \in Seq(RateWindows)
      /\ Range(windows') = Range(Rate!Room) \cup {w}
  BY <1>1, <1>2, <1>3, AppendProperties, AppendedAre
<1>5. RateTypes'
  BY <1>1, <1>4, LetAre DEF RateTypes
<1>6. ASSUME NEW q \in Rate!Clients \ dropped'
      PROVE  Accounted(Range(windows'), q, admitted'[q], now)
  <2>1. Accounted(Range(Rate!Room), q, admitted[q], now)
    BY <1>1, RoomAccounts
  <2>2. CASE q = p
    <3>. DEFINE a == admitted[p]
                limit == Rate!rateLimitFor(p[1])
    <3>1. a \in Seq(Nat) /\ now \in Nat
      BY <1>1 DEF RateTypes
    <3>2. limit \in Nat \ {0}
      BY PartsAssumption DEF Rate!rateLimitFor
    <3>3. \A v \in Range(Rate!Room) : v.key # p
      BY <1>1 DEF Rate!Keys, Rate!Range, Range
    <3>4. Afresh(a, limit, now) /\ WellSpaced(a, limit)
      BY <2>1, <2>2, <3>3 DEF Accounted
    <3>5. admitted'[q] = Append(a, now)
      BY <1>1, <2>2, LetAre
    <3>. HIDE DEF a, limit
    <3>6. Accounts(w, Append(a, now), limit, now) /\ WellSpaced(Append(a, now), limit)
      BY <1>2, <3>1, <3>2, <3>4, OpensAccount
    <3>. QED  BY <1>2, <1>4, <2>2, <3>3, <3>5, <3>6 DEF Accounted, limit
  <2>3. CASE q # p
    <3>1. admitted'[q] = admitted[q]
      BY <1>1, <2>3, LetAre
    <3>2. \A v \in Range(windows') : v.key = q => v \in Range(Rate!Room)
      BY <1>2, <1>4, <2>3
    <3>3. Range(Rate!Room) \subseteq Range(windows')
      BY <1>4
    <3>. QED  BY <2>1, <3>1, <3>2, <3>3 DEF Accounted
  <2>. QED  BY <2>2, <2>3
<1>. QED  BY <1>1, <1>5, <1>6 DEF RateInv

LEMMA RateCountsInv ==
  ASSUME RateInv, NEW p \in Rate!Clients, Rate!Counts(p)
  PROVE  RateInv'
<1>. DEFINE m == Rate!Mine(p)
            v == Rate!Counted(p)
            room == Rate!Room
<1>1. /\ RateTypes /\ UNCHANGED now /\ Rate!Let(p) /\ p \in Rate!Keys(room)
      /\ m.count < Rate!rateLimitFor(p[1])
      /\ windows' = [i \in DOMAIN room |-> IF room[i].key = p THEN v ELSE room[i]]
      /\ dropped' = dropped \cup (Rate!Keys(Rate!Live) \ Rate!Keys(room))
  BY DEF RateInv, Rate!Counts, Rate!Dropped
<1>2. /\ room \in Seq(RateWindows) /\ Range(room) \subseteq RateWindows
      /\ \A w \in Range(room) : w.resetAt > now
  BY <1>1, RoomAre, RangeOfSeq
<1>3. m \in Range(room) /\ m.key = p
  <2>1. \E w \in Range(room) : w.key = p
    BY <1>1 DEF Rate!Keys, Rate!Range, Range
  <2>. QED  BY <2>1 DEF Rate!Mine, Rate!Range, Range
<1>4. m \in RateWindows
  BY <1>2, <1>3
<1>5. v = [m EXCEPT !.count = @ + 1]
  BY DEF Rate!Counted
<1>. HIDE DEF m, v
<1>6. /\ v \in RateWindows /\ v.key = p /\ v.count = m.count + 1 /\ v.resetAt = m.resetAt
  BY <1>3, <1>4, <1>5 DEF RateWindows
<1>. HIDE DEF room
<1>7. windows' \in Seq(RateWindows)
  <2>1. DOMAIN room = 1 .. Len(room) /\ Len(room) \in Nat
        /\ \A i \in 1 .. Len(room) : room[i] \in RateWindows
    BY <1>2, LenProperties
  <2>2. windows' = [i \in 1 .. Len(room) |-> IF room[i].key = p THEN v ELSE room[i]]
    BY <1>1, <2>1
  <2>3. \A i \in 1 .. Len(room) : (IF room[i].key = p THEN v ELSE room[i]) \in RateWindows
    BY <1>6, <2>1
  <2>. QED  BY <2>1, <2>2, <2>3, IsASeq
<1>8. /\ \A w \in Range(windows') : w = v \/ (w.key # p /\ w \in Range(room))
      /\ \A w \in Range(room) : w.key # p => w \in Range(windows')
      /\ v \in Range(windows')
  <2>1. DOMAIN windows' = DOMAIN room
        /\ \A i \in DOMAIN room : windows'[i] = IF room[i].key = p THEN v ELSE room[i]
    BY <1>1
  <2>2. PICK i \in DOMAIN room : room[i] = m
    BY <1>3 DEF Range
  <2>3. windows'[i] = v
    BY <1>3, <2>1, <2>2
  <2>. QED  BY <2>1, <2>2, <2>3 DEF Range
<1>9. RateTypes'
  BY <1>1, <1>7, LetAre DEF RateTypes
<1>10. ASSUME NEW q \in Rate!Clients \ dropped'
       PROVE  Accounted(Range(windows'), q, admitted'[q], now)
  <2>1. Accounted(Range(room), q, admitted[q], now)
    BY <1>1, RoomAccounts DEF room
  <2>2. CASE q = p
    <3>. DEFINE a == admitted[p]
                limit == Rate!rateLimitFor(p[1])
    <3>1. a \in Seq(Nat) /\ now \in Nat
      BY <1>1 DEF RateTypes
    <3>2. limit \in Nat \ {0}
      BY PartsAssumption DEF Rate!rateLimitFor
    <3>3. Accounts(m, a, limit, now) /\ WellSpaced(a, limit) /\ m.count < limit /\ m.resetAt > now
      BY <1>1, <1>2, <1>3, <2>1, <2>2 DEF Accounted
    <3>4. admitted'[q] = Append(a, now)
      BY <1>1, <2>2, LetAre
    <3>. HIDE DEF a, limit
    <3>5. Accounts(v, Append(a, now), limit, now) /\ WellSpaced(Append(a, now), limit)
      BY <1>4, <1>6, <3>1, <3>2, <3>3, CountsAccount
    <3>6. \A w \in Range(windows') : w.key = p => w = v
      BY <1>8
    <3>. QED  BY <1>6, <1>8, <2>2, <3>4, <3>5, <3>6 DEF Accounted, limit
  <2>3. CASE q # p
    <3>1. admitted'[q] = admitted[q]
      BY <1>1, <2>3, LetAre
    <3>2. \A w \in Range(windows') : w.key = q => w \in Range(room)
      BY <1>6, <1>8, <2>3
    <3>3. \A w \in Range(room) : w.key = q => w \in Range(windows')
      BY <1>8, <2>3
    <3>. QED  BY <2>1, <3>1, <3>2, <3>3 DEF Accounted
  <2>. QED  BY <2>2, <2>3
<1>. QED  BY <1>1, <1>9, <1>10 DEF RateInv

LEMMA RateKeeps ==
  ASSUME RateInv, Rate!Next \/ UNCHANGED rate_
  PROVE  RateInv'
<1>1. ASSUME UNCHANGED rate_  PROVE RateInv'
  BY <1>1 DEF rate_, RateInv, RateTypes
<1>2. ASSUME Rate!Next  PROVE RateInv'
  BY <1>2, TickInv, RateOpensInv, RateCountsInv, LimitedInv DEF Rate!Next
<1>. QED  BY <1>1, <1>2

LEMMA RateSpaced == RateInv => Rate!AtMostTwiceTheLimit
  BY DEF RateInv, Accounted, WellSpaced, Rate!AtMostTwiceTheLimit

---------------------------------------------------------------------------
(* What the Library hands out: one recording, whole, in part or as captions*)

LEMMA RangeParsed ==
  ASSUME NEW range \in Files!Ranges, NEW n \in Nat, range.first # Files!None
  PROVE  LET bytes == Files!parseRange(range, n)
         IN /\ bytes = Files!Invalid /\ range.kind = "bytes" =>
                 \/ range.first >= n
                 \/ range.last # Files!None /\ range.last < range.first
            /\ bytes # Files!Invalid =>
                 /\ bytes[1] = range.first /\ bytes[2] < n
                 /\ range.last = Files!None => bytes[2] = n - 1
                 /\ range.last # Files!None => bytes[2] = Files!Least(range.last, n - 1)
<1>1. /\ range.kind \in {"none", "malformed", "bytes"}
      /\ range.first \in Nat /\ (range.last # Files!None => range.last \in Nat)
      /\ range.kind # "none"
  BY PartsAssumption DEF Files!Ranges, Files!None
<1>2. CASE Files!parseRange(range, n) = Files!Invalid
  <2>1. ASSUME range.kind = "bytes"
        PROVE  Files!LastByte(range, n) < Files!FirstByte(range, n)
               \/ Files!FirstByte(range, n) >= n
    BY <1>2, <2>1 DEF Files!parseRange, Files!Invalid
  <2>. QED  BY <1>1, <1>2, <2>1 DEF Files!LastByte, Files!FirstByte, Files!None
<1>3. CASE Files!parseRange(range, n) # Files!Invalid
  <2>1. /\ ~(Files!LastByte(range, n) < Files!FirstByte(range, n))
        /\ ~(Files!FirstByte(range, n) >= n)
        /\ Files!parseRange(range, n)
             = <<Files!FirstByte(range, n), Files!CutOff(Files!LastByte(range, n), n)>>
    BY <1>1, <1>3 DEF Files!parseRange
  <2>. QED  BY <1>1, <1>3, <2>1
            DEF Files!LastByte, Files!FirstByte, Files!CutOff, Files!Least, Files!None
<1>. QED  BY <1>2, <1>3

(* What a range without a first byte gets.                                 *)
LEMMA SuffixParsed ==
  ASSUME NEW range \in Files!Ranges, NEW n \in Nat, range.kind = "bytes",
         range.first = Files!None, range.last # Files!None
  PROVE  LET bytes == Files!parseRange(range, n)
         IN /\ bytes = Files!Invalid => 2 * range.last < n \/ n = 0
            /\ bytes # Files!Invalid =>
                 /\ bytes[1] = n - Files!Least(range.last, n) /\ bytes[2] < n
                 /\ bytes[2] = n - 1 <=> range.last >= n - 1
<1>1. range.last \in Nat
  BY PartsAssumption DEF Files!Ranges, Files!None
<1>2. /\ Files!FirstByte(range, n) = n - Files!Least(range.last, n)
      /\ Files!LastByte(range, n) = range.last
  BY DEF Files!FirstByte, Files!LastByte
<1>3. CASE Files!parseRange(range, n) = Files!Invalid
  <2>1. Files!LastByte(range, n) < Files!FirstByte(range, n) \/ Files!FirstByte(range, n) >= n
    BY <1>3 DEF Files!parseRange, Files!Invalid
  <2>. QED  BY <1>1, <1>2, <1>3, <2>1 DEF Files!Least
<1>4. CASE Files!parseRange(range, n) # Files!Invalid
  <2>1. /\ ~(Files!LastByte(range, n) < Files!FirstByte(range, n))
        /\ ~(Files!FirstByte(range, n) >= n)
        /\ Files!parseRange(range, n)
             = <<Files!FirstByte(range, n), Files!CutOff(Files!LastByte(range, n), n)>>
    BY <1>4 DEF Files!parseRange
  <2>. QED  BY <1>1, <1>2, <1>4, <2>1 DEF Files!CutOff, Files!Least
<1>. QED  BY <1>3, <1>4

(* A time as it is written reads back as itself.                           *)
LEMMA TimeReadsBack ==
  ASSUME NEW ms \in Nat
  PROVE  Files!Milliseconds(Files!vttTimestamp(ms)) = ms
<1>. DEFINE h == ms \div 3600000
            a == ms % 3600000
            b == ms % 60000
            c == ms % 1000
<1>1. ms = 3600000 * h + a /\ a \in Nat /\ h \in Nat
  BY SMT
<1>2. ms = 60000 * (ms \div 60000) + b /\ b \in Nat /\ b < 60000 /\ ms \div 60000 \in Nat
  BY SMT
<1>3. a = 60000 * (a \div 60000) + (a % 60000) /\ a % 60000 \in Nat /\ a % 60000 < 60000
      /\ a \div 60000 \in Nat
  BY <1>1, SMT
<1>4. ms = 1000 * (ms \div 1000) + c /\ c \in Nat /\ c < 1000 /\ ms \div 1000 \in Nat
  BY SMT
<1>5. b = 1000 * (b \div 1000) + (b % 1000) /\ b % 1000 \in Nat /\ b % 1000 < 1000
      /\ b \div 1000 \in Nat
  BY <1>2, SMT
<1>6. a % 60000 = b
  BY <1>1, <1>2, <1>3, SMT
<1>7. b % 1000 = c
  BY <1>2, <1>4, <1>5, SMT
<1>8. Files!vttTimestamp(ms) = <<h, a \div 60000, b \div 1000, c>>
  BY SMT DEF Files!vttTimestamp
<1>. DEFINE q == a \div 60000
            r == b \div 1000
<1>. HIDE DEF h, a, b, c
<1>9. Files!Milliseconds(Files!vttTimestamp(ms)) = 3600000 * h + 60000 * q + 1000 * r + c
  BY <1>8, SMT DEF Files!Milliseconds
<1>10. ms = 3600000 * h + a /\ a = 60000 * q + b /\ b = 1000 * r + c
  BY <1>1, <1>3, <1>5, <1>6, <1>7
<1>11. q \in Nat /\ r \in Nat /\ h \in Nat /\ a \in Nat /\ b \in Nat /\ c \in Nat
  BY <1>1, <1>2, <1>3, <1>4, <1>5
<1>. HIDE DEF q, r
<1>. QED  BY <1>9, <1>10, <1>11, SMT

CaptionsOf(d, out_) ==
  \A i \in DOMAIN out_ :
    Files!CaptionTrue(out_[i])
    /\ (d.segments # <<>> => Files!CaptionOf(out_[i], d.segments[i]))

LEMMA CaptionsAnswered ==
  ASSUME NEW d \in Files!Descriptions, Files!parseLibraryRecording(d)
  PROVE  CaptionsOf(d, Files!captionsVtt(d.segments, d.duration))
<1>. DEFINE told == Files!captionsVtt(d.segments, d.duration)
            segments == d.segments
<1>1. /\ d.duration \in Int /\ d.duration >= 0
      /\ segments = <<>> \/ \E s \in Files!Segments : segments = <<s>>
  BY PartsAssumption DEF Files!Descriptions, Files!parseLibraryRecording
<1>2. CASE segments = <<>>
  <2>1. told = <<<<Files!vttTimestamp(0), Files!vttTimestamp(Files!Most(d.duration * 1000, 1))>>>>
    BY <1>2 DEF Files!captionsVtt
  <2>2. Files!Most(d.duration * 1000, 1) \in Nat /\ Files!Most(d.duration * 1000, 1) >= 1
    BY <1>1 DEF Files!Most
  <2>. DEFINE cue == <<Files!vttTimestamp(0), Files!vttTimestamp(Files!Most(d.duration * 1000, 1))>>
  <2>3. /\ Files!Milliseconds(cue[1]) = 0
        /\ Files!Milliseconds(cue[2]) = Files!Most(d.duration * 1000, 1)
    BY <2>2, TimeReadsBack
  <2>4. Files!CaptionTrue(cue)
    BY <2>2, <2>3, SMT DEF Files!CaptionTrue
  <2>5. told = <<cue>>
    BY <2>1
  <2>. HIDE DEF cue, told
  <2>. QED  BY <1>2, <2>4, <2>5 DEF CaptionsOf, told
<1>3. CASE segments # <<>>
  <2>1. PICK s \in Files!Segments : segments = <<s>>
    BY <1>1, <1>3
  <2>2. Files!SegmentAllowed(s)
    BY <2>1 DEF Files!parseLibraryRecording, Files!parseTranscriptSegments
  <2>3. s[1] \in Nat /\ s[2] \in Nat /\ s[2] >= s[1]
    BY <2>2, PartsAssumption DEF Files!Segments, Files!SegmentAllowed
  <2>. DEFINE later == Files!Most(s[2], s[1] + 1)
              cue == <<Files!vttTimestamp(s[1]), Files!vttTimestamp(later)>>
  <2>4. told = <<cue>>
    BY <2>1 DEF Files!captionsVtt
  <2>5. /\ later \in Nat /\ later > s[1]
        /\ later = s[2] \/ (s[1] = s[2] /\ later = s[2] + 1)
    BY <2>3 DEF Files!Most
  <2>. HIDE DEF later
  <2>6. Files!Milliseconds(cue[1]) = s[1] /\ Files!Milliseconds(cue[2]) = later
    BY <2>3, <2>5, TimeReadsBack
  <2>. HIDE DEF cue, told
  <2>7. Files!CaptionTrue(cue) /\ Files!CaptionOf(cue, s)
    BY <2>3, <2>5, <2>6 DEF Files!CaptionTrue, Files!CaptionOf
  <2>. QED  BY <2>1, <2>4, <2>7 DEF CaptionsOf, told
<1>. QED  BY <1>2, <1>3

---------------------------------------------------------------------------
(* The recordings under the readers: what is gone was removed.             *)

RecordingsInv ==
  /\ size \in [RecordingsListed -> Nat] /\ rows = RecordingsListed \ removed
  /\ versions \in [RecordingsListed -> Nat]
  /\ DOMAIN get = {"phase", "of", "range", "code", "bytes"}
  /\ get.phase = "open" => get.of \in files \cup removed

MediaInv == RecordingsInv /\ Files!MediaTrue

LEMMA MediaInitInv == Files!Init => MediaInv
<1>. SUFFICES ASSUME Files!Init  PROVE MediaInv
  OBVIOUS
<1>1. RecordingsInv
  <2>1. /\ size \in [RecordingsListed -> Sizes] /\ rows = RecordingsListed /\ removed = {}
        /\ versions \in [RecordingsListed -> 1 .. 2]
    BY DEF Files!Init
  <2>2. size \in [RecordingsListed -> Nat] /\ versions \in [RecordingsListed -> Nat]
    <3>1. Sizes \subseteq Nat /\ 1 .. 2 \subseteq Nat
      BY PartsAssumption
    <3>2. \A r \in RecordingsListed : size[r] \in Nat /\ versions[r] \in Nat
      BY <2>1, <3>1
    <3>. QED  BY <2>1, <3>2
  <2>3. DOMAIN get = {"phase", "of", "range", "code", "bytes"} /\ get.phase = "idle"
    BY DEF Files!Init
  <2>. QED  BY <2>1, <2>2, <2>3 DEF RecordingsInv
<1>2. get.phase = "idle" /\ get.code = 0 /\ cues = <<>>
  BY DEF Files!Init
<1>. QED  BY <1>1, <1>2
          DEF MediaInv, Files!MediaTrue, Files!RangeAnswered, Files!SuffixAnswered, Files!CaptionsTrue

LEMMA MediaKept ==
  ASSUME MediaInv, removed \subseteq removed', UNCHANGED <<size, get, cues>>, RecordingsInv'
  PROVE  MediaInv'
<1>1. Files!CaptionsTrue'
  BY DEF MediaInv, Files!MediaTrue, Files!CaptionsTrue
<1>2. Files!RangeAnswered'
  BY DEF MediaInv, Files!MediaTrue, Files!RangeAnswered, Files!SuffixAnswered
<1>. QED  BY <1>1, <1>2 DEF MediaInv, Files!MediaTrue

LEMMA MediaRequestedInv == MediaInv /\ Files!MediaRequested => MediaInv'
<1>. SUFFICES ASSUME MediaInv, Files!MediaRequested  PROVE MediaInv'
  OBVIOUS
<1>1. UNCHANGED <<rows, files, size, versions, removed, cues>>
  BY DEF Files!MediaRequested, Files!store
<1>2. PICK r \in RecordingsListed, range \in Files!Ranges :
        LET bytes == Files!parseRange(range, size[r])
        IN get' = IF ~Files!HasMedia(r)
                  THEN [get EXCEPT !.phase = "done", !.of = r, !.code = 404]
                  ELSE IF bytes = Files!Invalid
                  THEN [get EXCEPT !.phase = "done", !.of = r, !.range = range, !.code = 416]
                  ELSE [phase |-> "open", of |-> r, range |-> range, bytes |-> bytes,
                        code |-> IF range.kind = "none" THEN 200 ELSE 206]
  BY DEF Files!MediaRequested
<1>3. /\ DOMAIN get = {"phase", "of", "range", "code", "bytes"}
      /\ size \in [RecordingsListed -> Nat]
  BY DEF MediaInv, RecordingsInv
<1>. DEFINE bytes == Files!parseRange(range, size[r])
<1>4. RecordingsInv' /\ Files!RangeAnswered'
  <2>1. CASE ~Files!HasMedia(r)
    <3>1. get' = [get EXCEPT !.phase = "done", !.of = r, !.code = 404]
      BY <1>2, <2>1
    <3>2. /\ get'.phase = "done" /\ get'.code = 404
          /\ DOMAIN get' = {"phase", "of", "range", "code", "bytes"}
      BY <1>3, <3>1
    <3>. QED  BY <1>1, <3>2 DEF MediaInv, RecordingsInv, Files!RangeAnswered, Files!SuffixAnswered
  <2>2. CASE Files!HasMedia(r) /\ bytes = Files!Invalid
    <3>1. get' = [get EXCEPT !.phase = "done", !.of = r, !.range = range, !.code = 416]
      BY <1>2, <2>2
    <3>2. /\ get'.phase = "done" /\ get'.code = 416 /\ get'.range = range /\ get'.of = r
          /\ DOMAIN get' = {"phase", "of", "range", "code", "bytes"}
      BY <1>3, <3>1
    <3>3. range.kind = "bytes" /\ range.first # Files!None =>
            \/ range.first >= size[r]
            \/ range.last # Files!None /\ range.last < range.first
      BY <1>3, <2>2, RangeParsed
    <3>4. range.kind = "bytes" /\ range.first = Files!None /\ range.last # Files!None =>
            2 * range.last < size[r] \/ size[r] = 0
      BY <1>3, <2>2, SuffixParsed
    <3>. QED  BY <1>1, <3>2, <3>3, <3>4 DEF MediaInv, RecordingsInv, Files!RangeAnswered, Files!SuffixAnswered
  <2>3. CASE Files!HasMedia(r) /\ bytes # Files!Invalid
    <3>1. get' = [phase |-> "open", of |-> r, range |-> range, bytes |-> bytes,
                  code |-> IF range.kind = "none" THEN 200 ELSE 206]
      BY <1>2, <2>3
    <3>. HIDE DEF bytes
    <3>2. /\ get'.phase = "open" /\ get'.range = range /\ get'.of = r /\ get'.bytes = bytes
          /\ DOMAIN get' = {"phase", "of", "range", "code", "bytes"}
          /\ get'.code \in {200, 206}
      BY <3>1
    <3>3. r \in files
      BY <2>3 DEF Files!HasMedia
    <3>4. range.first # Files!None =>
            /\ bytes[1] = range.first /\ bytes[2] < size[r]
            /\ range.last = Files!None => bytes[2] = size[r] - 1
            /\ range.last # Files!None => bytes[2] = Files!Least(range.last, size[r] - 1)
      BY <1>3, <2>3, RangeParsed DEF bytes
    <3>5. range.kind = "bytes" /\ range.first = Files!None /\ range.last # Files!None =>
            /\ bytes[1] = size[r] - Files!Least(range.last, size[r]) /\ bytes[2] < size[r]
            /\ bytes[2] = size[r] - 1 <=> range.last >= size[r] - 1
      BY <1>3, <2>3, SuffixParsed DEF bytes
    <3>. QED  BY <1>1, <3>2, <3>3, <3>4, <3>5 DEF MediaInv, RecordingsInv, Files!RangeAnswered, Files!SuffixAnswered
  <2>. QED  BY <2>1, <2>2, <2>3
<1>5. Files!CaptionsTrue'
  BY <1>1 DEF MediaInv, Files!MediaTrue, Files!CaptionsTrue
<1>. QED  BY <1>4, <1>5 DEF MediaInv, Files!MediaTrue

LEMMA MediaStreamsInv == MediaInv /\ Files!MediaStreams => MediaInv'
<1>. SUFFICES ASSUME MediaInv, Files!MediaStreams  PROVE MediaInv'
  OBVIOUS
<1>1. /\ UNCHANGED <<rows, files, size, versions, removed, cues>> /\ get.phase = "open"
      /\ get' = [get EXCEPT !.phase = IF get.of \in files THEN "done" ELSE "broken"]
  BY DEF Files!MediaStreams, Files!store
<1>2. DOMAIN get = {"phase", "of", "range", "code", "bytes"} /\ get.of \in files \cup removed
  BY <1>1 DEF MediaInv, RecordingsInv
<1>3. /\ get'.code = get.code /\ get'.range = get.range /\ get'.of = get.of
      /\ get'.bytes = get.bytes /\ DOMAIN get' = DOMAIN get
      /\ get'.phase \in {"done", "broken"} /\ (get'.phase = "broken" => get.of \notin files)
  BY <1>1, <1>2
<1>4. RecordingsInv'
  BY <1>1, <1>3 DEF MediaInv, RecordingsInv
<1>5. Files!RangeAnswered'
  BY <1>1, <1>2, <1>3 DEF MediaInv, Files!MediaTrue, Files!RangeAnswered, Files!SuffixAnswered
<1>6. Files!CaptionsTrue'
  BY <1>1 DEF MediaInv, Files!MediaTrue, Files!CaptionsTrue
<1>. QED  BY <1>4, <1>5, <1>6 DEF MediaInv, Files!MediaTrue

LEMMA CaptionsAskedInv == MediaInv /\ Files!CaptionsAsked => MediaInv'
<1>. SUFFICES ASSUME MediaInv, Files!CaptionsAsked  PROVE MediaInv'
  OBVIOUS
<1>1. UNCHANGED <<rows, files, size, versions, removed, get>>
  BY DEF Files!CaptionsAsked, Files!store
<1>2. RecordingsInv' /\ Files!RangeAnswered'
  BY <1>1 DEF MediaInv, RecordingsInv, Files!MediaTrue, Files!RangeAnswered, Files!SuffixAnswered
<1>3. PICK d \in Files!Descriptions :
        cues' = <<d, IF Files!parseLibraryRecording(d)
                     THEN Files!captionsVtt(d.segments, d.duration) ELSE <<>>>>
  BY DEF Files!CaptionsAsked
<1>. DEFINE told == IF Files!parseLibraryRecording(d)
                    THEN Files!captionsVtt(d.segments, d.duration) ELSE <<>>
<1>4. CaptionsOf(d, told)
  <2>1. CASE Files!parseLibraryRecording(d)
    BY <2>1, CaptionsAnswered
  <2>2. CASE ~Files!parseLibraryRecording(d)
    <3>1. told = <<>> /\ DOMAIN <<>> = {}
      BY <2>2
    <3>. QED  BY <3>1 DEF CaptionsOf
  <2>. QED  BY <2>1, <2>2
<1>. HIDE DEF told
<1>5. cues' = <<d, told>>
  BY <1>3 DEF told
<1>6. Files!CaptionsTrue'
  BY <1>4, <1>5 DEF CaptionsOf, Files!CaptionsTrue
<1>. QED  BY <1>2, <1>6 DEF MediaInv, Files!MediaTrue

LEMMA RemovalInv ==
  ASSUME MediaInv, NEW r \in RecordingsListed, Files!RemoveRow(r) \/ Files!RemoveFile(r)
  PROVE  MediaInv'
<1>1. /\ UNCHANGED <<size, versions, get, cues>> /\ removed \subseteq removed'
      /\ rows' = RecordingsListed \ removed' /\ files \subseteq files' \cup removed'
  <2>1. CASE Files!RemoveRow(r)
    BY <2>1 DEF Files!RemoveRow, MediaInv, RecordingsInv
  <2>2. CASE Files!RemoveFile(r)
    BY <2>2 DEF Files!RemoveFile, MediaInv, RecordingsInv
  <2>. QED  BY <2>1, <2>2
<1>2. RecordingsInv'
  BY <1>1 DEF MediaInv, RecordingsInv
<1>. QED  BY <1>1, <1>2, MediaKept

---------------------------------------------------------------------------
(* The archive: what the pieces written so far are.                        *)

Numbered == Nat \X Nat
ZipPieces ==
  [kind : {"local", "data", "descriptor", "central", "footer"}, name : Numbered,
   bytes : Nat \ {0}, noted : Seq(Nat)]
Entries == [name : Numbered, offset : Nat, size : Nat]

Lengths(s) == [j \in DOMAIN s |-> s[j].bytes]
DataLengths(s, name) ==
  [i \in DOMAIN s |-> IF s[i].kind = "data" /\ s[i].name = name THEN s[i].bytes ELSE 0]
Begins(s, i) == Files!Total(Lengths(s), i - 1)
DataOf(s, name) == Files!Total(DataLengths(s, name), Len(s))
Of(s, kind) == {i \in DOMAIN s : s[i].kind = kind}
Headed(s) == {s[i].name : i \in Of(s, "local")}

(* An entry noted where its header is, with the size of its data.          *)
Indexed(s, c, i) ==
  \E k \in DOMAIN c :
    c[k].name = s[i].name /\ c[k].offset = Begins(s, i) /\ c[k].size = DataOf(s, s[i].name)

Based(s, c) ==
  /\ \A i \in Of(s, "data") : s[i].name \in Headed(s)
  /\ \A k \in DOMAIN c : c[k].name \in Headed(s)
  /\ IsFiniteSet(Of(s, "local"))

(* Between two entries, and within one.                                    *)
Closed(s, c) ==
  /\ Based(s, c) /\ Cardinality(Of(s, "local")) = Len(c)
  /\ \A i \in Of(s, "local") : Indexed(s, c, i)
Opened(s, c, name, at, data) ==
  /\ Based(s, c) /\ Cardinality(Of(s, "local")) = Len(c) + 1
  /\ name \in Headed(s) /\ DataOf(s, name) = data
  /\ \A k \in DOMAIN c : c[k].name # name
  /\ \A i \in Of(s, "local") : Indexed(s, c, i) \/ (s[i].name = name /\ Begins(s, i) = at)

(* The first n headers of the central directory begin at start, behind all *)
(* else.                                                                   *)
Directory(s, c, n, start) ==
  /\ IsFiniteSet(Of(s, "central")) /\ Cardinality(Of(s, "central")) = n
  /\ \A k \in 1 .. n : \E i \in Of(s, "central") :
       s[i].name = c[k].name /\ s[i].noted = <<c[k].offset, c[k].size>>
  /\ \A i \in DOMAIN s :
       IF s[i].kind = "central" THEN Begins(s, i) >= start ELSE Begins(s, i) + s[i].bytes <= start
  /\ Of(s, "footer") = {}

ArchiveTypes ==
  /\ out \in Seq(ZipPieces)
  /\ zip \in [phase : {"idle", "write", "next", "media", "open", "read", "central", "ended",
                       "destroyed"},
              left : SUBSET RecordingsListed, entries : Seq(Numbered),
              audio : RecordingsListed \cup {Files!None}, central : Seq(Entries),
              offset : Nat, at : Nat, data : Nat, start : Nat, headers : Nat]

Laid ==
  zip.phase \notin {"destroyed", "ended"} =>
    /\ zip.offset = Begins(out, Len(out) + 1)
    /\ IF zip.phase \in {"open", "read"}
       THEN /\ Opened(out, zip.central, Files!AudioName(zip.audio), zip.at, zip.data)
            /\ zip.data < zip.offset
       ELSE Closed(out, zip.central)
    /\ IF zip.phase = "central"
       THEN /\ zip.start <= zip.offset /\ zip.headers <= Len(zip.central)
            /\ Directory(out, zip.central, zip.headers, zip.start)
       ELSE zip.headers = 0 /\ Directory(out, zip.central, 0, zip.offset)

(* No name is used twice: those of recordings that are left are not yet.   *)
FreshNames ==
  /\ \A n \in Headed(out) : n[1] \notin zip.left
  /\ \A i \in DOMAIN zip.entries :
       /\ zip.entries[i] \notin Headed(out)
       /\ zip.audio # Files!None => zip.entries[i] # Files!AudioName(zip.audio)
       /\ zip.phase # "media" => zip.entries[i][1] \notin zip.left
       /\ \A j \in DOMAIN zip.entries : i # j => zip.entries[i] # zip.entries[j]
  /\ zip.audio # Files!None =>
       zip.audio \notin zip.left
       /\ (zip.phase = "write" => Files!AudioName(zip.audio) \notin Headed(out))

(* What is left to write at each stage.                                    *)
Unlisted == zip.phase = "idle" \/ (zip.phase = "write" /\ Len(zip.entries) + Len(zip.central) <= 1)

Progress ==
  /\ zip.phase = "idle" => zip.entries = <<>> /\ out = <<>> /\ zip.central = <<>>
  /\ zip.phase \in {"next", "open", "read", "central", "ended"} => zip.entries = <<>>
  /\ zip.phase \in {"next", "media", "central", "ended"} => zip.audio = Files!None
  /\ zip.phase \in {"open", "read"} => zip.audio # Files!None /\ Len(zip.central) >= 2
  /\ zip.audio # Files!None => zip.audio \in files \cup removed
  /\ zip.phase = "media" =>
       /\ zip.left # {}
       /\ zip.entries = [i \in 1 .. versions[Files!Oldest] + 2 |-> <<Files!Oldest, i>>]
  /\ Unlisted => /\ zip.left = {} /\ zip.audio = Files!None
                 /\ Headed(out) \subseteq {Files!README}
                 /\ \A i \in DOMAIN zip.entries : zip.entries[i] = Files!README
  /\ zip.phase \in {"central", "ended"} => zip.left = {}

(* Every recording that is not removed is left, or written or about to be. *)
NamesNoted == {zip.central[k].name : k \in DOMAIN zip.central}
Gathered(r) ==
  /\ \A n \in Files!TextNames(r) :
       n \in NamesNoted \/ \E i \in DOMAIN zip.entries : zip.entries[i] = n
  /\ r \in files => Files!AudioName(r) \in NamesNoted \/ zip.audio = r

(* What a reader of the archive relies on, of its pieces.                  *)
Readable(s) ==
  LET footer == s[Len(s)].noted
  IN /\ Of(s, "footer") = {Len(s)}
     /\ footer[1] = Cardinality(Of(s, "local")) /\ footer[1] = Cardinality(Of(s, "central"))
     /\ footer[2] + footer[3] = Begins(s, Len(s))
     /\ \A i \in 1 .. Len(s) - 1 : Begins(s, i) >= footer[3] <=> i \in Of(s, "central")
     /\ \A i \in Of(s, "local") : \E k \in Of(s, "central") :
          s[k].name = s[i].name /\ s[k].noted = <<Begins(s, i), DataOf(s, s[i].name)>>

ArchiveInv ==
  /\ ArchiveTypes /\ Laid /\ FreshNames /\ Progress
  /\ zip.phase # "destroyed" /\ ~Unlisted =>
       \A r \in RecordingsListed \ removed : r \in zip.left \/ Gathered(r)
  /\ zip.phase = "destroyed" => removed # {} \/ ~Files!MayAdd
  /\ zip.phase = "ended" => Readable(out)

---------------------------------------------------------------------------
(* Sums of lengths.                                                        *)

TotalIn(lengths, g, n) ==
  g = [i \in 0 .. n |-> IF i = 0 THEN 0 ELSE g[i - 1] + lengths[i]]

LEMMA TotalExists ==
  ASSUME NEW f, NEW n \in Nat
  PROVE  \E g : TotalIn(f, g, n)
<1>. DEFINE S == {m \in Nat : \E g : TotalIn(f, g, m)}
            next(g, i) == IF i = 0 THEN 0 ELSE g[i - 1] + f[i]
<1>1. 0 \in S
  <2>. DEFINE h == [i \in 0 .. 0 |-> 0]
  <2>1. h = [i \in 0 .. 0 |-> next(h, i)]
    OBVIOUS
  <2>. HIDE DEF h
  <2>2. TotalIn(f, h, 0)
    BY <2>1 DEF TotalIn
  <2>. QED  BY <2>2
<1>2. ASSUME NEW m \in Nat, m \in S  PROVE m + 1 \in S
  <2>1. PICK g : TotalIn(f, g, m)
    BY <1>2
  <2>. DEFINE h == [i \in 0 .. m + 1 |-> IF i \in 0 .. m THEN g[i] ELSE next(g, i)]
  <2>2. \A i \in 0 .. m : g[i] = next(g, i)
    BY <2>1 DEF TotalIn
  <2>3. ASSUME NEW i \in 0 .. m + 1  PROVE h[i] = next(h, i)
    <3>1. i # 0 => i - 1 \in 0 .. m + 1 /\ i - 1 \in 0 .. m
      OBVIOUS
    <3>2. i # 0 => h[i - 1] = g[i - 1]
      BY <3>1
    <3>3. h[i] = IF i \in 0 .. m THEN g[i] ELSE next(g, i)
      OBVIOUS
    <3>. HIDE DEF h
    <3>4. next(h, i) = next(g, i)
      BY <3>2
    <3>. HIDE DEF next
    <3>. QED  BY <2>2, <3>3, <3>4
  <2>4. h = [i \in 0 .. m + 1 |-> h[i]]
    OBVIOUS
  <2>. HIDE DEF h
  <2>. HIDE DEF next
  <2>5. h = [i \in 0 .. m + 1 |-> next(h, i)]
    BY <2>3, <2>4
  <2>6. TotalIn(f, h, m + 1)
    BY <2>5 DEF TotalIn, next
  <2>. QED  BY <2>6
<1>. HIDE DEF S
<1>3. n \in S
  BY <1>1, <1>2, Inductive
<1>. QED  BY <1>3 DEF S

LEMMA TotalIs ==
  ASSUME NEW f, NEW n \in Nat
  PROVE  \E g : TotalIn(f, g, n) /\ Files!Total(f, n) = g[n]
<1>. DEFINE h == CHOOSE g : TotalIn(f, g, n)
<1>1. TotalIn(f, h, n)
  BY TotalExists
<1>2. Files!Total(f, n) = h[n]
  BY DEF Files!Total, TotalIn
<1>. QED  BY <1>1, <1>2

SameUpTo(f, e, n) == \A i \in 1 .. n : f[i] = e[i]

LEMMA TotalsAgree ==
  ASSUME NEW f, NEW e, NEW n \in Nat, SameUpTo(f, e, n),
         NEW m \in Nat, n <= m, NEW g, NEW h, TotalIn(f, g, n), TotalIn(e, h, m)
  PROVE  \A i \in 0 .. n : g[i] = h[i]
<1>. DEFINE S == {i \in Nat : i \in 0 .. n => g[i] = h[i]}
<1>1. /\ \A i \in 0 .. n : g[i] = IF i = 0 THEN 0 ELSE g[i - 1] + f[i]
      /\ \A i \in 0 .. m : h[i] = IF i = 0 THEN 0 ELSE h[i - 1] + e[i]
  BY DEF TotalIn
<1>2. 0 \in S
  BY <1>1
<1>3. ASSUME NEW i \in Nat, i \in S  PROVE i + 1 \in S
  <2>1. SUFFICES ASSUME i + 1 \in 0 .. n  PROVE g[i + 1] = h[i + 1]
    OBVIOUS
  <2>2. /\ i \in 0 .. n /\ i + 1 \in 1 .. n /\ i + 1 \in 0 .. m /\ i + 1 # 0
        /\ (i + 1) - 1 = i
    BY <2>1
  <2>3. g[i] = h[i] /\ f[i + 1] = e[i + 1]
    BY <1>3, <2>2 DEF SameUpTo
  <2>4. g[i + 1] = g[(i + 1) - 1] + f[i + 1] /\ h[i + 1] = h[(i + 1) - 1] + e[i + 1]
    BY <1>1, <2>1, <2>2
  <2>. QED  BY <2>2, <2>3, <2>4
<1>. HIDE DEF S
<1>4. \A i \in Nat : i \in S
  BY <1>2, <1>3, Inductive
<1>. QED  BY <1>4 DEF S

LEMMA TotalSame ==
  ASSUME NEW f, NEW e, NEW n \in Nat, SameUpTo(f, e, n)
  PROVE  Files!Total(f, n) = Files!Total(e, n)
<1>1. PICK g : TotalIn(f, g, n) /\ Files!Total(f, n) = g[n]
  BY TotalIs
<1>2. PICK h : TotalIn(e, h, n) /\ Files!Total(e, n) = h[n]
  BY TotalIs
<1>3. \A i \in 0 .. n : g[i] = h[i]
  BY <1>1, <1>2, TotalsAgree
<1>. QED  BY <1>1, <1>2, <1>3

LEMMA TotalOneMore ==
  ASSUME NEW f, NEW n \in Nat
  PROVE  /\ Files!Total(f, 0) = 0
         /\ Files!Total(f, n + 1) = Files!Total(f, n) + f[n + 1]
<1>1. PICK g : TotalIn(f, g, n) /\ Files!Total(f, n) = g[n]
  BY TotalIs
<1>2. PICK h : TotalIn(f, h, n + 1) /\ Files!Total(f, n + 1) = h[n + 1]
  BY TotalIs
<1>3. g[n] = h[n]
  <2>1. n + 1 \in Nat /\ n <= n + 1 /\ SameUpTo(f, f, n)
    BY DEF SameUpTo
  <2>2. \A i \in 0 .. n : g[i] = h[i]
    BY <1>1, <1>2, <2>1, TotalsAgree
  <2>. QED  BY <2>2
<1>4. h[n + 1] = h[n] + f[n + 1]
  <2>1. \A i \in 0 .. n + 1 : h[i] = IF i = 0 THEN 0 ELSE h[i - 1] + f[i]
    BY <1>2 DEF TotalIn
  <2>2. n + 1 \in 0 .. n + 1 /\ n + 1 # 0 /\ (n + 1) - 1 = n
    OBVIOUS
  <2>3. h[n + 1] = h[(n + 1) - 1] + f[n + 1]
    BY <2>1, <2>2
  <2>. QED  BY <2>2, <2>3
<1>5. Files!Total(f, 0) = 0
  <2>1. PICK k : TotalIn(f, k, 0) /\ Files!Total(f, 0) = k[0]
    BY TotalIs
  <2>2. \A i \in 0 .. 0 : k[i] = IF i = 0 THEN 0 ELSE k[i - 1] + f[i]
    BY <2>1 DEF TotalIn
  <2>. QED  BY <2>1, <2>2
<1>. QED  BY <1>1, <1>2, <1>3, <1>4, <1>5

LEMMA TotalType ==
  ASSUME NEW f, NEW n \in Nat, \A i \in 1 .. n : f[i] \in Nat
  PROVE  Files!Total(f, n) \in Nat
<1>. DEFINE S == {i \in Nat : i \in 0 .. n => Files!Total(f, i) \in Nat}
<1>1. 0 \in S
  BY TotalOneMore
<1>2. ASSUME NEW i \in Nat, i \in S  PROVE i + 1 \in S
  <2>1. Files!Total(f, i + 1) = Files!Total(f, i) + f[i + 1]
    BY TotalOneMore
  <2>2. i + 1 \in 0 .. n => i \in 0 .. n /\ i + 1 \in 1 .. n
    OBVIOUS
  <2>. QED  BY <1>2, <2>1, <2>2
<1>. HIDE DEF S
<1>3. n \in S
  BY <1>1, <1>2, Inductive
<1>. QED  BY <1>3 DEF S

LEMMA TotalOfNothing ==
  ASSUME NEW f, NEW n \in Nat, \A i \in 1 .. n : f[i] = 0
  PROVE  Files!Total(f, n) = 0
<1>. DEFINE S == {i \in Nat : i \in 0 .. n => Files!Total(f, i) = 0}
<1>1. 0 \in S
  BY TotalOneMore
<1>2. ASSUME NEW i \in Nat, i \in S  PROVE i + 1 \in S
  <2>1. Files!Total(f, i + 1) = Files!Total(f, i) + f[i + 1]
    BY TotalOneMore
  <2>2. i + 1 \in 0 .. n => i \in 0 .. n /\ i + 1 \in 1 .. n
    OBVIOUS
  <2>. QED  BY <1>2, <2>1, <2>2
<1>. HIDE DEF S
<1>3. n \in S
  BY <1>1, <1>2, Inductive
<1>. QED  BY <1>3 DEF S

---------------------------------------------------------------------------
(* One piece more.                                                         *)

LEMMA OneMorePiece ==
  ASSUME NEW s \in Seq(ZipPieces), NEW p \in ZipPieces
  PROVE  /\ Append(s, p) \in Seq(ZipPieces) /\ Len(s) \in Nat
         /\ Len(Append(s, p)) = Len(s) + 1
         /\ DOMAIN s = 1 .. Len(s) /\ DOMAIN Append(s, p) = 1 .. Len(s) + 1
         /\ \A i \in 1 .. Len(s) : Append(s, p)[i] = s[i]
         /\ Append(s, p)[Len(s) + 1] = p
  BY AppendProperties, LenProperties

LEMMA LengthsAre ==
  ASSUME NEW s \in Seq(ZipPieces), NEW name, NEW i \in 1 .. Len(s)
  PROVE  /\ Lengths(s)[i] = s[i].bytes /\ Lengths(s)[i] \in Nat \ {0} /\ s[i] \in ZipPieces
         /\ DataLengths(s, name)[i]
              = IF s[i].kind = "data" /\ s[i].name = name THEN s[i].bytes ELSE 0
         /\ DataLengths(s, name)[i] \in Nat
<1>1. i \in DOMAIN s /\ s[i] \in ZipPieces
  BY LenProperties
<1>2. s[i].bytes \in Nat \ {0}
  BY <1>1 DEF ZipPieces
<1>3. Lengths(s)[i] = s[i].bytes
      /\ DataLengths(s, name)[i]
           = IF s[i].kind = "data" /\ s[i].name = name THEN s[i].bytes ELSE 0
  BY <1>1 DEF Lengths, DataLengths
<1>. QED  BY <1>1, <1>2, <1>3

LEMMA BeginsSame ==
  ASSUME NEW s \in Seq(ZipPieces), NEW p \in ZipPieces, NEW i \in 1 .. Len(s) + 1
  PROVE  Begins(Append(s, p), i) = Begins(s, i) /\ Begins(s, i) \in Nat
<1>. DEFINE t == Append(s, p)
            n == i - 1
<1>1. /\ t \in Seq(ZipPieces) /\ Len(s) \in Nat /\ Len(t) = Len(s) + 1
      /\ \A j \in 1 .. Len(s) : t[j] = s[j]
  BY OneMorePiece
<1>2. n \in Nat /\ 1 .. n \subseteq 1 .. Len(s) /\ 1 .. n \subseteq 1 .. Len(t)
  BY <1>1
<1>. HIDE DEF t, n
<1>3. \A j \in 1 .. n : Lengths(s)[j] = s[j].bytes /\ Lengths(t)[j] = t[j].bytes
                        /\ Lengths(s)[j] \in Nat
  BY <1>1, <1>2, LengthsAre
<1>4. SameUpTo(Lengths(t), Lengths(s), n)
  BY <1>1, <1>2, <1>3 DEF SameUpTo
<1>5. Files!Total(Lengths(t), n) = Files!Total(Lengths(s), n)
  BY <1>2, <1>4, TotalSame
<1>6. Files!Total(Lengths(s), n) \in Nat
  BY <1>2, <1>3, TotalType
<1>. QED  BY <1>5, <1>6 DEF Begins, t, n

LEMMA BeginsNext ==
  ASSUME NEW s \in Seq(ZipPieces), NEW p \in ZipPieces
  PROVE  Begins(Append(s, p), Len(s) + 2) = Begins(s, Len(s) + 1) + p.bytes
<1>. DEFINE t == Append(s, p)
            n == Len(s)
<1>1. /\ t \in Seq(ZipPieces) /\ n \in Nat /\ Len(t) = n + 1 /\ t[n + 1] = p
  BY OneMorePiece
<1>2. n + 1 \in 1 .. n + 1 /\ n + 1 \in 1 .. Len(t)
  BY <1>1
<1>3. Begins(t, n + 1) = Begins(s, n + 1)
  BY <1>2, BeginsSame
<1>. HIDE DEF t, n
<1>4. Lengths(t)[n + 1] = p.bytes
  BY <1>1, <1>2, LengthsAre
<1>5. Files!Total(Lengths(t), n + 1) = Files!Total(Lengths(t), n) + Lengths(t)[n + 1]
  BY <1>1, TotalOneMore
<1>6. (n + 1) - 1 = n /\ (n + 2) - 1 = n + 1
  BY <1>1
<1>7. Begins(t, n + 2) = Files!Total(Lengths(t), n + 1)
      /\ Begins(t, n + 1) = Files!Total(Lengths(t), n)
  BY <1>6 DEF Begins
<1>. QED  BY <1>3, <1>4, <1>5, <1>7 DEF t, n

LEMMA DataNext ==
  ASSUME NEW s \in Seq(ZipPieces), NEW p \in ZipPieces, NEW name
  PROVE  /\ DataOf(s, name) \in Nat
         /\ DataOf(Append(s, p), name)
              = IF p.kind = "data" /\ p.name = name THEN DataOf(s, name) + p.bytes
                ELSE DataOf(s, name)
<1>. DEFINE t == Append(s, p)
            n == Len(s)
            f == DataLengths(s, name)
            g == DataLengths(t, name)
<1>1. /\ t \in Seq(ZipPieces) /\ n \in Nat /\ Len(t) = n + 1 /\ t[n + 1] = p
      /\ \A j \in 1 .. n : t[j] = s[j]
  BY OneMorePiece
<1>2. \A j \in 1 .. n : j \in 1 .. n + 1
  BY <1>1
<1>3. \A j \in 1 .. n : f[j] \in Nat
        /\ f[j] = IF s[j].kind = "data" /\ s[j].name = name THEN s[j].bytes ELSE 0
  BY LengthsAre
<1>. HIDE DEF t, n
<1>4. \A j \in 1 .. n + 1 :
        g[j] = IF t[j].kind = "data" /\ t[j].name = name THEN t[j].bytes ELSE 0
  BY <1>1, LengthsAre
<1>. HIDE DEF f, g
<1>5. SameUpTo(g, f, n)
  BY <1>1, <1>2, <1>3, <1>4 DEF SameUpTo
<1>6. Files!Total(g, n) = Files!Total(f, n)
  BY <1>1, <1>5, TotalSame
<1>7. Files!Total(f, n) \in Nat
  BY <1>1, <1>3, TotalType
<1>8. Files!Total(g, n + 1) = Files!Total(g, n) + g[n + 1]
  BY <1>1, TotalOneMore
<1>9. n + 1 \in 1 .. n + 1
  BY <1>1
<1>10. g[n + 1] = IF p.kind = "data" /\ p.name = name THEN p.bytes ELSE 0
  BY <1>1, <1>4, <1>9
<1>11. DataOf(s, name) = Files!Total(f, n) /\ DataOf(t, name) = Files!Total(g, n + 1)
  BY <1>1 DEF DataOf, f, g, n
<1>. HIDE DEF DataOf
<1>12. DataOf(s, name) \in Nat
  BY <1>7, <1>11
<1>. QED  BY <1>6, <1>8, <1>10, <1>11, <1>12 DEF t

(* An entry of which nothing is out has no data yet.                       *)
LEMMA NoDataYet ==
  ASSUME NEW s \in Seq(ZipPieces), NEW name, \A i \in Of(s, "data") : s[i].name # name
  PROVE  DataOf(s, name) = 0
<1>1. Len(s) \in Nat /\ DOMAIN s = 1 .. Len(s)
  BY LenProperties
<1>2. \A i \in 1 .. Len(s) : DataLengths(s, name)[i] = 0
  BY <1>1, LengthsAre DEF Of
<1>. QED  BY <1>1, <1>2, TotalOfNothing DEF DataOf

LEMMA OfNext ==
  ASSUME NEW s \in Seq(ZipPieces), NEW p \in ZipPieces, NEW kind
  PROVE  /\ Of(Append(s, p), kind) = IF p.kind = kind THEN Of(s, kind) \cup {Len(s) + 1}
                                     ELSE Of(s, kind)
         /\ Of(s, kind) \subseteq 1 .. Len(s) /\ Len(s) + 1 \notin Of(s, kind)
<1>. DEFINE t == Append(s, p)
            n == Len(s)
<1>1. /\ n \in Nat /\ DOMAIN s = 1 .. n /\ DOMAIN t = 1 .. n + 1 /\ t[n + 1] = p
      /\ \A j \in 1 .. n : t[j] = s[j]
  BY OneMorePiece
<1>2. 1 .. n + 1 = (1 .. n) \cup {n + 1} /\ n + 1 \notin 1 .. n
  BY <1>1
<1>. HIDE DEF t, n
<1>3. Of(t, kind) = IF p.kind = kind THEN Of(s, kind) \cup {n + 1} ELSE Of(s, kind)
  BY <1>1, <1>2 DEF Of
<1>4. Of(s, kind) \subseteq 1 .. n
  BY <1>1 DEF Of
<1>. QED  BY <1>2, <1>3, <1>4 DEF t, n

LEMMA HeadedNext ==
  ASSUME NEW s \in Seq(ZipPieces), NEW p \in ZipPieces
  PROVE  Headed(Append(s, p)) = IF p.kind = "local" THEN Headed(s) \cup {p.name} ELSE Headed(s)
<1>. DEFINE t == Append(s, p)
            n == Len(s)
<1>1. t[n + 1] = p /\ \A j \in 1 .. n : t[j] = s[j]
  BY OneMorePiece
<1>2. /\ Of(t, "local") = IF p.kind = "local" THEN Of(s, "local") \cup {n + 1}
                          ELSE Of(s, "local")
      /\ Of(s, "local") \subseteq 1 .. n
  BY OfNext
<1>. HIDE DEF t, n
<1>3. \A i \in Of(s, "local") : t[i] = s[i]
  BY <1>1, <1>2
<1>. QED  BY <1>1, <1>2, <1>3 DEF Headed, t

---------------------------------------------------------------------------
(* How the entries come into the archive.                                  *)

Longer(c, d) == \A k \in DOMAIN c : k \in DOMAIN d /\ d[k] = c[k]

LEMMA IndexedKept ==
  ASSUME NEW s \in Seq(ZipPieces), NEW p \in ZipPieces, NEW c, NEW d, Longer(c, d),
         NEW i \in Of(s, "local"), Indexed(s, c, i), p.kind = "data" => p.name # s[i].name
  PROVE  Indexed(Append(s, p), d, i)
<1>. DEFINE t == Append(s, p)
<1>1. PICK k \in DOMAIN c : /\ c[k].name = s[i].name /\ c[k].offset = Begins(s, i)
                            /\ c[k].size = DataOf(s, s[i].name)
  BY DEF Indexed
<1>2. k \in DOMAIN d /\ d[k] = c[k]
  BY <1>1 DEF Longer
<1>3. i \in 1 .. Len(s) /\ i \in 1 .. Len(s) + 1
  BY OfNext, OneMorePiece
<1>4. t[i] = s[i]
  BY <1>3, OneMorePiece
<1>5. Begins(t, i) = Begins(s, i)
  BY <1>3, BeginsSame
<1>6. DataOf(t, s[i].name) = DataOf(s, s[i].name)
  BY DataNext
<1>. HIDE DEF t
<1>. QED  BY <1>1, <1>2, <1>4, <1>5, <1>6 DEF Indexed, t

LEMMA BasedKept ==
  ASSUME NEW s \in Seq(ZipPieces), NEW p \in ZipPieces, NEW c, NEW d, Based(s, c),
         p.kind = "data" => p.name \in Headed(s),
         NEW e, p.kind = "local" => e = p.name, p.kind # "local" => e \in Headed(s),
         \A k \in DOMAIN d : (k \in DOMAIN c /\ d[k] = c[k]) \/ d[k].name = e
  PROVE  Based(Append(s, p), d)
<1>. DEFINE t == Append(s, p)
            n == Len(s)
<1>1. t[n + 1] = p /\ \A j \in 1 .. n : t[j] = s[j]
  BY OneMorePiece
<1>2. Headed(t) = IF p.kind = "local" THEN Headed(s) \cup {p.name} ELSE Headed(s)
  BY HeadedNext
<1>3. /\ Of(t, "data") = IF p.kind = "data" THEN Of(s, "data") \cup {n + 1} ELSE Of(s, "data")
      /\ Of(s, "data") \subseteq 1 .. n
  BY OfNext
<1>4. Of(t, "local") = IF p.kind = "local" THEN Of(s, "local") \cup {n + 1}
                       ELSE Of(s, "local")
  BY OfNext
<1>. HIDE DEF t, n
<1>5. \A i \in Of(t, "data") : t[i].name \in Headed(t)
  BY <1>1, <1>2, <1>3 DEF Based
<1>6. \A k \in DOMAIN d : d[k].name \in Headed(t)
  BY <1>2 DEF Based
<1>7. IsFiniteSet(Of(t, "local"))
  BY <1>4, FS_AddElement DEF Based
<1>. QED  BY <1>5, <1>6, <1>7 DEF Based, t

LEMMA LocalsCounted ==
  ASSUME NEW s \in Seq(ZipPieces), NEW p \in ZipPieces, NEW kind, IsFiniteSet(Of(s, kind))
  PROVE  /\ IsFiniteSet(Of(Append(s, p), kind)) /\ Cardinality(Of(s, kind)) \in Nat
         /\ Cardinality(Of(Append(s, p), kind))
              = IF p.kind = kind THEN Cardinality(Of(s, kind)) + 1 ELSE Cardinality(Of(s, kind))
<1>1. /\ Of(Append(s, p), kind) = IF p.kind = kind THEN Of(s, kind) \cup {Len(s) + 1}
                                  ELSE Of(s, kind)
      /\ Len(s) + 1 \notin Of(s, kind)
  BY OfNext
<1>2. /\ IsFiniteSet(Of(s, kind) \cup {Len(s) + 1})
      /\ Cardinality(Of(s, kind) \cup {Len(s) + 1}) = Cardinality(Of(s, kind)) + 1
  BY <1>1, FS_AddElement
<1>3. Cardinality(Of(s, kind)) \in Nat
  BY FS_CardinalityType
<1>. QED  BY <1>1, <1>2, <1>3

(* A header opens an entry whose name is new.                              *)
LEMMA HeaderOpens ==
  ASSUME NEW s \in Seq(ZipPieces), NEW p \in ZipPieces, NEW c \in Seq(Entries), Closed(s, c),
         p.kind = "local", p.name \notin Headed(s)
  PROVE  Opened(Append(s, p), c, p.name, Begins(s, Len(s) + 1), 0)
<1>. DEFINE t == Append(s, p)
            n == Len(s)
<1>1. Based(s, c) /\ IsFiniteSet(Of(s, "local")) /\ Cardinality(Of(s, "local")) = Len(c)
  BY DEF Closed, Based
<1>2. n \in Nat /\ t[n + 1] = p /\ \A j \in 1 .. n : t[j] = s[j]
  BY OneMorePiece
<1>3. Based(t, c)
  BY <1>1, BasedKept
<1>4. Cardinality(Of(t, "local")) = Len(c) + 1
  BY <1>1, LocalsCounted
<1>5. p.name \in Headed(t)
  BY HeadedNext
<1>6. DataOf(t, p.name) = 0
  <2>1. \A i \in Of(s, "data") : s[i].name # p.name
    BY <1>1 DEF Based
  <2>2. DataOf(s, p.name) = 0
    BY <2>1, NoDataYet
  <2>. QED  BY <2>2, DataNext
<1>7. \A k \in DOMAIN c : c[k].name # p.name
  BY <1>1 DEF Based
<1>8. ASSUME NEW i \in Of(t, "local")
      PROVE  Indexed(t, c, i) \/ (t[i].name = p.name /\ Begins(t, i) = Begins(s, n + 1))
  <2>1. i \in Of(s, "local") \/ i = n + 1
    BY OfNext
  <2>2. CASE i \in Of(s, "local")
    <3>1. Indexed(s, c, i)
      BY <2>2 DEF Closed
    <3>2. Longer(c, c)
      BY DEF Longer
    <3>. QED  BY <2>2, <3>1, <3>2, IndexedKept
  <2>3. CASE i = n + 1
    <3>1. n + 1 \in 1 .. Len(s) + 1
      BY <1>2
    <3>2. Begins(t, n + 1) = Begins(s, n + 1)
      BY <3>1, BeginsSame
    <3>. QED  BY <1>2, <2>3, <3>2
  <2>. QED  BY <2>1, <2>2, <2>3
<1>. HIDE DEF t, n
<1>. QED  BY <1>3, <1>4, <1>5, <1>6, <1>7, <1>8 DEF Opened, t, n

(* Its data follow.                                                        *)
LEMMA DataGoOn ==
  ASSUME NEW s \in Seq(ZipPieces), NEW p \in ZipPieces, NEW c \in Seq(Entries), NEW name, NEW at,
         NEW data, Opened(s, c, name, at, data), p.kind = "data", p.name = name
  PROVE  Opened(Append(s, p), c, name, at, data + p.bytes)
<1>. DEFINE t == Append(s, p)
            n == Len(s)
<1>1. /\ Based(s, c) /\ IsFiniteSet(Of(s, "local")) /\ Cardinality(Of(s, "local")) = Len(c) + 1
      /\ name \in Headed(s) /\ DataOf(s, name) = data /\ \A k \in DOMAIN c : c[k].name # name
  BY DEF Opened, Based
<1>2. n \in Nat /\ t[n + 1] = p /\ \A j \in 1 .. n : t[j] = s[j]
  BY OneMorePiece
<1>3. Based(t, c)
  BY <1>1, BasedKept
<1>4. Cardinality(Of(t, "local")) = Len(c) + 1
  BY <1>1, LocalsCounted
<1>5. name \in Headed(t)
  BY <1>1, HeadedNext
<1>6. DataOf(t, name) = data + p.bytes
  BY <1>1, DataNext
<1>7. ASSUME NEW i \in Of(t, "local")
      PROVE  Indexed(t, c, i) \/ (t[i].name = name /\ Begins(t, i) = at)
  <2>1. i \in Of(s, "local") /\ i \in 1 .. n
    BY OfNext
  <2>2. t[i] = s[i] /\ i \in 1 .. n + 1
    BY <1>2, <2>1
  <2>3. CASE Indexed(s, c, i)
    <3>1. PICK k \in DOMAIN c : c[k].name = s[i].name
      BY <2>3 DEF Indexed
    <3>2. s[i].name # p.name
      BY <1>1, <3>1
    <3>3. Longer(c, c)
      BY DEF Longer
    <3>. QED  BY <2>1, <2>3, <3>2, <3>3, IndexedKept
  <2>4. CASE s[i].name = name /\ Begins(s, i) = at
    BY <2>2, <2>4, BeginsSame
  <2>. QED  BY <2>1, <2>3, <2>4 DEF Opened
<1>. HIDE DEF t, n
<1>. QED  BY <1>1, <1>3, <1>4, <1>5, <1>6, <1>7 DEF Opened, t

(* The descriptor closes it, and it is noted.                              *)
LEMMA DescriptorCloses ==
  ASSUME NEW s \in Seq(ZipPieces), NEW p \in ZipPieces, NEW c \in Seq(Entries), NEW e \in Entries,
         Opened(s, c, e.name, e.offset, e.size), p.kind = "descriptor"
  PROVE  Closed(Append(s, p), Append(c, e))
<1>. DEFINE t == Append(s, p)
            n == Len(s)
            d == Append(c, e)
<1>1. /\ Based(s, c) /\ IsFiniteSet(Of(s, "local")) /\ Cardinality(Of(s, "local")) = Len(c) + 1
      /\ e.name \in Headed(s) /\ DataOf(s, e.name) = e.size
  BY DEF Opened, Based
<1>2. n \in Nat /\ t[n + 1] = p /\ \A j \in 1 .. n : t[j] = s[j]
  BY OneMorePiece
<1>3. /\ Len(c) \in Nat /\ DOMAIN c = 1 .. Len(c) /\ DOMAIN d = 1 .. Len(c) + 1
      /\ Len(d) = Len(c) + 1 /\ (\A k \in 1 .. Len(c) : d[k] = c[k]) /\ d[Len(c) + 1] = e
  BY AppendProperties, LenProperties
<1>. HIDE DEF d
<1>4. /\ \A k \in DOMAIN d : (k \in DOMAIN c /\ d[k] = c[k]) \/ d[k] = e
      /\ Longer(c, d) /\ Len(c) + 1 \in DOMAIN d
  BY <1>3 DEF Longer
<1>5. Based(t, d)
  <2>1. \A k \in DOMAIN d : (k \in DOMAIN c /\ d[k] = c[k]) \/ d[k].name = e.name
    BY <1>4
  <2>. QED  BY <1>1, <2>1, BasedKept
<1>6. Cardinality(Of(t, "local")) = Len(d)
  BY <1>1, <1>3, LocalsCounted
<1>7. ASSUME NEW i \in Of(t, "local")  PROVE Indexed(t, d, i)
  <2>1. i \in Of(s, "local") /\ i \in 1 .. n
    BY OfNext
  <2>2. t[i] = s[i] /\ i \in 1 .. n + 1
    BY <1>2, <2>1
  <2>3. CASE Indexed(s, c, i)
    BY <1>4, <2>1, <2>3, IndexedKept
  <2>4. CASE s[i].name = e.name /\ Begins(s, i) = e.offset
    <3>1. Begins(t, i) = e.offset
      BY <2>2, <2>4, BeginsSame
    <3>2. DataOf(t, e.name) = e.size
      BY <1>1, DataNext
    <3>. HIDE DEF t
    <3>. QED  BY <1>3, <1>4, <2>2, <2>4, <3>1, <3>2 DEF Indexed
  <2>. QED  BY <2>1, <2>3, <2>4 DEF Opened
<1>. HIDE DEF t, n
<1>. QED  BY <1>5, <1>6, <1>7 DEF Closed, t, d

(* The central directory and the footer come behind.                       *)
LEMMA ClosedKept ==
  ASSUME NEW s \in Seq(ZipPieces), NEW p \in ZipPieces, NEW c \in Seq(Entries), Closed(s, c),
         p.kind \in {"central", "footer"}
  PROVE  Closed(Append(s, p), c)
<1>. DEFINE t == Append(s, p)
<1>1. Based(s, c) /\ IsFiniteSet(Of(s, "local")) /\ Cardinality(Of(s, "local")) = Len(c)
  BY DEF Closed, Based
<1>2. Based(t, c)
  <2>1. CASE DOMAIN c = {}
    <3>1. Of(t, "data") = Of(s, "data") /\ Of(t, "local") = Of(s, "local")
          /\ Headed(t) = Headed(s) /\ Of(s, "data") \subseteq 1 .. Len(s)
      BY OfNext, HeadedNext
    <3>2. \A i \in Of(s, "data") : t[i] = s[i]
      BY <3>1, OneMorePiece
    <3>. QED  BY <1>1, <2>1, <3>1, <3>2 DEF Based
  <2>2. ASSUME NEW k \in DOMAIN c  PROVE Based(t, c)
    <3>1. c[k].name \in Headed(s)
      BY <1>1, <2>2 DEF Based
    <3>. QED  BY <1>1, <3>1, BasedKept
  <2>. QED  BY <2>1, <2>2
<1>3. Cardinality(Of(t, "local")) = Len(c)
  BY <1>1, LocalsCounted
<1>4. ASSUME NEW i \in Of(t, "local")  PROVE Indexed(t, c, i)
  <2>1. i \in Of(s, "local")
    BY OfNext
  <2>2. Indexed(s, c, i)
    BY <2>1 DEF Closed
  <2>3. Longer(c, c)
    BY DEF Longer
  <2>. QED  BY <2>1, <2>2, <2>3, IndexedKept
<1>. HIDE DEF t
<1>. QED  BY <1>2, <1>3, <1>4 DEF Closed, t

---------------------------------------------------------------------------
(* The central directory behind them.                                      *)

LEMMA DirectoryMoves ==
  ASSUME NEW s \in Seq(ZipPieces), NEW p \in ZipPieces, NEW c, NEW d, NEW e,
         e = Begins(s, Len(s) + 1), Directory(s, c, 0, e), p.kind \notin {"central", "footer"}
  PROVE  Directory(Append(s, p), d, 0, e + p.bytes)
<1>. DEFINE t == Append(s, p)
            n == Len(s)
<1>1. /\ n \in Nat /\ DOMAIN s = 1 .. n /\ DOMAIN t = 1 .. n + 1 /\ t[n + 1] = p
      /\ \A j \in 1 .. n : t[j] = s[j]
  BY OneMorePiece
<1>2. p.bytes \in Nat
  BY DEF ZipPieces
<1>3. n + 1 \in 1 .. Len(s) + 1
  BY <1>1
<1>4. Begins(t, n + 1) = e /\ e \in Nat
  BY <1>3, BeginsSame
<1>5. Of(t, "central") = Of(s, "central") /\ Of(t, "footer") = Of(s, "footer")
  BY OfNext
<1>6. IsFiniteSet(Of(s, "central")) /\ Cardinality(Of(s, "central")) = 0 /\ Of(s, "footer") = {}
  BY DEF Directory
<1>7. Of(s, "central") = {}
  BY <1>6, FS_EmptySet
<1>8. ASSUME NEW i \in 1 .. n
      PROVE  t[i].kind # "central" /\ Begins(t, i) + t[i].bytes <= e + p.bytes
  <2>1. i \in DOMAIN s /\ t[i] = s[i] /\ i \in 1 .. Len(s) + 1
    BY <1>1
  <2>2. s[i].kind # "central"
    BY <1>7, <2>1 DEF Of
  <2>3. Begins(s, i) + s[i].bytes <= e
    BY <2>1, <2>2 DEF Directory
  <2>4. Begins(t, i) = Begins(s, i) /\ Begins(s, i) \in Nat
    BY <2>1, BeginsSame
  <2>5. s[i].bytes \in Nat
    BY LengthsAre
  <2>. QED  BY <1>2, <1>4, <2>1, <2>2, <2>3, <2>4, <2>5
<1>. HIDE DEF t, n
<1>9. ASSUME NEW i \in DOMAIN t
      PROVE  t[i].kind # "central" /\ Begins(t, i) + t[i].bytes <= e + p.bytes
  <2>1. CASE i = n + 1
    BY <1>1, <1>2, <1>4, <2>1
  <2>2. CASE i \in 1 .. n
    BY <1>8, <2>2
  <2>. QED  BY <1>1, <2>1, <2>2
<1>. QED  BY <1>5, <1>6, <1>9 DEF Directory, t

LEMMA DirectoryGrows ==
  ASSUME NEW s \in Seq(ZipPieces), NEW p \in ZipPieces, NEW c, NEW n \in Nat, NEW start \in Nat,
         Directory(s, c, n, start), start <= Begins(s, Len(s) + 1), p.kind = "central",
         p.name = c[n + 1].name, p.noted = <<c[n + 1].offset, c[n + 1].size>>
  PROVE  Directory(Append(s, p), c, n + 1, start)
<1>. DEFINE t == Append(s, p)
            m == Len(s)
<1>1. /\ m \in Nat /\ DOMAIN s = 1 .. m /\ DOMAIN t = 1 .. m + 1 /\ t[m + 1] = p
      /\ \A j \in 1 .. m : t[j] = s[j]
  BY OneMorePiece
<1>2. m + 1 \in 1 .. Len(s) + 1
  BY <1>1
<1>3. Begins(t, m + 1) = Begins(s, m + 1)
  BY <1>2, BeginsSame
<1>4. /\ Of(t, "central") = Of(s, "central") \cup {m + 1} /\ Of(t, "footer") = {}
      /\ Of(s, "central") \subseteq 1 .. m
  BY OfNext DEF Directory
<1>5. IsFiniteSet(Of(t, "central")) /\ Cardinality(Of(t, "central")) = n + 1
  BY LocalsCounted DEF Directory
<1>6. ASSUME NEW i \in 1 .. m
      PROVE  IF t[i].kind = "central" THEN Begins(t, i) >= start
             ELSE Begins(t, i) + t[i].bytes <= start
  <2>1. i \in DOMAIN s /\ t[i] = s[i] /\ i \in 1 .. Len(s) + 1
    BY <1>1
  <2>2. Begins(t, i) = Begins(s, i)
    BY <2>1, BeginsSame
  <2>. HIDE DEF t
  <2>. QED  BY <2>1, <2>2 DEF Directory
<1>7. ASSUME NEW k \in 1 .. n + 1
      PROVE  \E i \in Of(t, "central") :
               t[i].name = c[k].name /\ t[i].noted = <<c[k].offset, c[k].size>>
  <2>1. CASE k = n + 1
    <3>1. m + 1 \in Of(t, "central") /\ t[m + 1] = p
      BY <1>1, <1>4
    <3>. HIDE DEF t, m
    <3>. QED  BY <2>1, <3>1
  <2>2. CASE k \in 1 .. n
    <3>1. PICK i \in Of(s, "central") :
            s[i].name = c[k].name /\ s[i].noted = <<c[k].offset, c[k].size>>
      BY <2>2 DEF Directory
    <3>2. i \in Of(t, "central") /\ t[i] = s[i]
      BY <1>1, <1>4
    <3>. HIDE DEF t
    <3>. QED  BY <3>1, <3>2
  <2>3. k = n + 1 \/ k \in 1 .. n
    OBVIOUS
  <2>. QED  BY <2>1, <2>2, <2>3
<1>. HIDE DEF t, m
<1>8. ASSUME NEW i \in DOMAIN t
      PROVE  IF t[i].kind = "central" THEN Begins(t, i) >= start
             ELSE Begins(t, i) + t[i].bytes <= start
  <2>1. CASE i = m + 1
    BY <1>1, <1>3, <2>1 DEF m
  <2>2. CASE i \in 1 .. m
    BY <1>6, <2>2
  <2>. QED  BY <1>1, <2>1, <2>2
<1>. QED  BY <1>4, <1>5, <1>7, <1>8 DEF Directory, t

(* The footer makes the archive readable.                                  *)
LEMMA FooterReads ==
  ASSUME NEW s \in Seq(ZipPieces), NEW p \in ZipPieces, NEW c \in Seq(Entries), NEW start \in Nat,
         NEW e, e = Begins(s, Len(s) + 1), Closed(s, c), Directory(s, c, Len(c), start),
         p.kind = "footer", p.noted = <<Len(c), e - start, start>>
  PROVE  Readable(Append(s, p))
<1>. DEFINE t == Append(s, p)
            n == Len(s)
<1>1. /\ n \in Nat /\ DOMAIN s = 1 .. n /\ Len(t) = n + 1 /\ t[n + 1] = p
      /\ \A j \in 1 .. n : t[j] = s[j]
  BY OneMorePiece
<1>2. n + 1 \in 1 .. Len(s) + 1
  BY <1>1
<1>3. Begins(t, n + 1) = e /\ e \in Nat
  BY <1>2, BeginsSame
<1>4. /\ Of(t, "footer") = {n + 1} /\ Of(t, "central") = Of(s, "central")
      /\ Of(t, "local") = Of(s, "local") /\ Of(s, "central") \subseteq 1 .. n
      /\ Of(s, "local") \subseteq 1 .. n
  BY OfNext DEF Directory
<1>5. /\ Cardinality(Of(s, "local")) = Len(c) /\ Cardinality(Of(s, "central")) = Len(c)
      /\ Len(c) \in Nat /\ DOMAIN c = 1 .. Len(c)
  BY LenProperties DEF Closed, Directory
<1>6. ASSUME NEW i \in 1 .. n  PROVE Begins(t, i) >= start <=> i \in Of(s, "central")
  <2>1. i \in DOMAIN s /\ i \in 1 .. Len(s) + 1
    BY <1>1
  <2>2. Begins(t, i) = Begins(s, i) /\ Begins(s, i) \in Nat
    BY <2>1, BeginsSame
  <2>3. s[i].bytes \in Nat \ {0}
    BY LengthsAre
  <2>4. CASE s[i].kind = "central"
    BY <2>1, <2>2, <2>4 DEF Directory, Of
  <2>5. CASE s[i].kind # "central"
    <3>1. Begins(s, i) + s[i].bytes <= start
      BY <2>1, <2>5 DEF Directory
    <3>2. i \notin Of(s, "central")
      BY <2>5 DEF Of
    <3>. QED  BY <2>2, <2>3, <3>1, <3>2
  <2>. QED  BY <2>4, <2>5
<1>7. ASSUME NEW i \in Of(s, "local")
      PROVE  \E k \in Of(s, "central") :
               t[k].name = t[i].name /\ t[k].noted = <<Begins(t, i), DataOf(t, t[i].name)>>
  <2>1. i \in 1 .. n /\ i \in 1 .. Len(s) + 1 /\ t[i] = s[i]
    BY <1>1, <1>4
  <2>2. PICK k \in DOMAIN c : /\ c[k].name = s[i].name /\ c[k].offset = Begins(s, i)
                              /\ c[k].size = DataOf(s, s[i].name)
    BY DEF Closed, Indexed
  <2>3. PICK j \in Of(s, "central") :
          s[j].name = c[k].name /\ s[j].noted = <<c[k].offset, c[k].size>>
    BY <1>5 DEF Directory
  <2>4. t[j] = s[j]
    BY <1>1, <1>4
  <2>5. Begins(t, i) = Begins(s, i)
    BY <2>1, BeginsSame
  <2>6. DataOf(t, s[i].name) = DataOf(s, s[i].name)
    BY DataNext
  <2>. HIDE DEF t
  <2>. QED  BY <2>1, <2>2, <2>3, <2>4, <2>5, <2>6
<1>. HIDE DEF t, n
<1>8. p.noted[1] = Len(c) /\ p.noted[2] + p.noted[3] = e /\ p.noted[3] = start
  BY <1>3
<1>9. (n + 1) - 1 = n
  BY <1>1
<1>10. \A i \in Of(t, "local") : \E k \in Of(t, "central") :
         t[k].name = t[i].name /\ t[k].noted = <<Begins(t, i), DataOf(t, t[i].name)>>
  BY <1>4, <1>7
<1>11. \A i \in 1 .. Len(t) - 1 : Begins(t, i) >= p.noted[3] <=> i \in Of(t, "central")
  BY <1>1, <1>4, <1>6, <1>8, <1>9
<1>. QED  BY <1>1, <1>3, <1>4, <1>5, <1>8, <1>10, <1>11 DEF Readable, t

LEMMA ReadableIs == out \in Seq(ZipPieces) /\ Readable(out) => Files!ArchiveReadable
<1>. SUFFICES ASSUME out \in Seq(ZipPieces), Readable(out)  PROVE Files!ArchiveReadable
  OBVIOUS
<1>1. \A i : Files!Offset(i) = Begins(out, i)
  BY DEF Files!Offset, Begins, Lengths
<1>2. \A name : Files!DataBytes(name) = DataOf(out, name)
  BY DEF Files!DataBytes, DataOf, DataLengths
<1>3. \A S : Files!Cardinality(S) = Cardinality(S)
  BY DEF Files!Cardinality, Cardinality
<1>. QED  BY <1>1, <1>2, <1>3 DEF Readable, Of, Files!ArchiveReadable

LEMMA OldestIs == zip.left # {} /\ zip.left \subseteq RecordingsListed => Files!Oldest \in zip.left
<1>. SUFFICES ASSUME zip.left # {}, zip.left \subseteq RecordingsListed
              PROVE  Files!Oldest \in zip.left
  OBVIOUS
<1>1. zip.left \subseteq Nat
  BY PartsAssumption
<1>. DEFINE S == {n \in Nat : \A r \in zip.left : r <= n => \E o \in zip.left :
                                \A q \in zip.left : o <= q}
<1>2. 0 \in S
  <2>1. ASSUME NEW r \in zip.left, r <= 0  PROVE \A q \in zip.left : r <= q
    BY <1>1, <2>1
  <2>. QED  BY <2>1
<1>3. ASSUME NEW n \in Nat, n \in S  PROVE n + 1 \in S
  <2>1. SUFFICES ASSUME NEW r \in zip.left, r <= n + 1
                 PROVE  \E o \in zip.left : \A q \in zip.left : o <= q
    OBVIOUS
  <2>2. CASE \E q \in zip.left : q <= n
    BY <1>3, <2>2
  <2>3. CASE \A q \in zip.left : ~(q <= n)
    <3>1. \A q \in zip.left : r <= q
      BY <1>1, <2>1, <2>3
    <3>. QED  BY <3>1
  <2>. QED  BY <2>2, <2>3
<1>. HIDE DEF S
<1>4. \A n \in Nat : n \in S
  BY <1>2, <1>3, Inductive
<1>5. PICK r \in zip.left : TRUE
  OBVIOUS
<1>6. r \in S /\ r <= r
  BY <1>1, <1>4
<1>7. \E o \in zip.left : \A q \in zip.left : o <= q
  BY <1>6 DEF S
<1>. QED  BY <1>7 DEF Files!Oldest

---------------------------------------------------------------------------
(* The pieces written, and a whole entry at once.                          *)

LEMMA PieceTypes ==
  ASSUME NEW name \in Numbered, NEW n \in Nat \ {0}
  PROVE  /\ Files!Local(name) \in ZipPieces /\ Files!Local(name).kind = "local"
         /\ Files!Local(name).name = name /\ Files!Local(name).bytes = 38
         /\ Files!Data(name, n) \in ZipPieces /\ Files!Data(name, n).kind = "data"
         /\ Files!Data(name, n).name = name /\ Files!Data(name, n).bytes = n
<1>1. <<>> \in Seq(Nat) /\ 30 + 8 \in Nat \ {0} /\ 30 + 8 = 38
  OBVIOUS
<1>. QED  BY <1>1 DEF Files!Local, Files!Data, Files!Piece, Files!NameBytes, ZipPieces

LEMMA DescriptorType ==
  ASSUME NEW name \in Numbered, NEW n \in Nat
  PROVE  /\ Files!Descriptor(name, n) \in ZipPieces /\ Files!Descriptor(name, n).bytes = 16
         /\ Files!Descriptor(name, n).kind = "descriptor"
<1>1. <<n>> \in Seq(Nat) /\ 16 \in Nat \ {0}
  OBVIOUS
<1>. QED  BY <1>1 DEF Files!Descriptor, Files!Piece, ZipPieces

LEMMA CentralType ==
  ASSUME NEW e \in Entries
  PROVE  /\ Files!Central(e) \in ZipPieces /\ Files!Central(e).kind = "central"
         /\ Files!Central(e).bytes = 54 /\ Files!Central(e).name = e.name
         /\ Files!Central(e).noted = <<e.offset, e.size>>
<1>1. e.name \in Numbered /\ e.offset \in Nat /\ e.size \in Nat
  BY DEF Entries
<1>2. <<e.offset, e.size>> \in Seq(Nat) /\ 46 + 8 \in Nat \ {0} /\ 46 + 8 = 54
  BY <1>1
<1>. QED  BY <1>1, <1>2 DEF Files!Central, Files!Piece, Files!NameBytes, ZipPieces

LEMMA FooterType ==
  ASSUME NEW a \in Nat, NEW b \in Nat, NEW c \in Nat
  PROVE  /\ Files!Footer(a, b, c) \in ZipPieces /\ Files!Footer(a, b, c).kind = "footer"
         /\ Files!Footer(a, b, c).noted = <<a, b, c>>
<1>1. <<a, b, c>> \in Seq(Nat) /\ <<0, 0>> \in Numbered /\ 22 \in Nat \ {0}
  BY DEF Numbered
<1>. QED  BY <1>1 DEF Files!Footer, Files!Piece, Files!README, ZipPieces

LEMMA NotedType ==
  ASSUME NEW name \in Numbered, NEW at \in Nat, NEW n \in Nat
  PROVE  /\ Files!Noted(name, at, n) \in Entries /\ Files!Noted(name, at, n).name = name
         /\ Files!Noted(name, at, n).offset = at /\ Files!Noted(name, at, n).size = n
  BY DEF Files!Noted, Entries

(* Where the next piece begins.                                            *)
LEMMA NextBegins ==
  ASSUME NEW s \in Seq(ZipPieces), NEW p \in ZipPieces
  PROVE  /\ Append(s, p) \in Seq(ZipPieces) /\ Begins(s, Len(s) + 1) \in Nat
         /\ Begins(Append(s, p), Len(Append(s, p)) + 1) = Begins(s, Len(s) + 1) + p.bytes
<1>1. Append(s, p) \in Seq(ZipPieces) /\ Len(s) \in Nat /\ Len(Append(s, p)) = Len(s) + 1
  BY OneMorePiece
<1>2. Len(s) + 1 \in 1 .. Len(s) + 1 /\ (Len(s) + 1) + 1 = Len(s) + 2
  BY <1>1
<1>3. Begins(s, Len(s) + 1) \in Nat
  BY <1>2, BeginsSame
<1>. QED  BY <1>1, <1>2, <1>3, BeginsNext

WithEntry(s, name, n) ==
  Append(Append(Append(s, Files!Local(name)), Files!Data(name, n)), Files!Descriptor(name, n))
WholeEntry(s, c, name, n, t, d) ==
  LET e == Begins(s, Len(s) + 1) + 38 + n + 16
  IN /\ t \in Seq(ZipPieces) /\ d \in Seq(Entries) /\ Headed(t) = Headed(s) \cup {name}
     /\ Closed(t, d) /\ Begins(t, Len(t) + 1) = e /\ Directory(t, d, 0, e)

LEMMA EntryWritten ==
  ASSUME NEW s \in Seq(ZipPieces), NEW c \in Seq(Entries), NEW name \in Numbered,
         Closed(s, c), Directory(s, c, 0, Begins(s, Len(s) + 1)),
         name \notin Headed(s), NEW n \in Nat \ {0}
  PROVE  WholeEntry(s, c, name, n, WithEntry(s, name, n),
               Append(c, Files!Noted(name, Begins(s, Len(s) + 1), n)))
<1>. DEFINE e == Begins(s, Len(s) + 1)
            t == WithEntry(s, name, n)
            d == Append(c, Files!Noted(name, e, n))
            p == Files!Local(name)
            q == Files!Data(name, n)
            r == Files!Descriptor(name, n)
            s1 == Append(s, p)
            s2 == Append(s1, q)
            x == Files!Noted(name, e, n)
<1>1. /\ p \in ZipPieces /\ p.kind = "local" /\ p.name = name /\ p.bytes = 38
      /\ q \in ZipPieces /\ q.kind = "data" /\ q.name = name /\ q.bytes = n
  BY PieceTypes
<1>2. r \in ZipPieces /\ r.kind = "descriptor" /\ r.bytes = 16
  BY DescriptorType
<1>3. e \in Nat
  BY <1>1, NextBegins DEF e
<1>4. x \in Entries /\ x.name = name /\ x.offset = e /\ x.size = n
  BY <1>3, NotedType
<1>. HIDE DEF p, q, r, x, e
<1>5. s1 \in Seq(ZipPieces) /\ Begins(s1, Len(s1) + 1) = e + 38
  BY <1>1, NextBegins DEF e
<1>6. Opened(s1, c, name, e, 0) /\ Directory(s1, c, 0, e + 38) /\ Headed(s1) = Headed(s) \cup {name}
  <2>1. Opened(s1, c, name, e, 0)
    BY <1>1, HeaderOpens DEF e
  <2>2. Directory(s1, c, 0, e + 38)
    BY <1>1, DirectoryMoves DEF e
  <2>3. Headed(s1) = Headed(s) \cup {name}
    BY <1>1, HeadedNext
  <2>. QED  BY <2>1, <2>2, <2>3
<1>. HIDE DEF s1
<1>7. s2 \in Seq(ZipPieces) /\ Begins(s2, Len(s2) + 1) = e + 38 + n
  BY <1>1, <1>5, NextBegins
<1>8. Opened(s2, c, name, e, n) /\ Directory(s2, c, 0, e + 38 + n) /\ Headed(s2) = Headed(s1)
  <2>1. Opened(s2, c, name, e, 0 + n)
    BY <1>1, <1>5, <1>6, DataGoOn
  <2>2. Directory(s2, c, 0, e + 38 + n)
    BY <1>1, <1>5, <1>6, DirectoryMoves
  <2>3. Headed(s2) = Headed(s1)
    BY <1>1, <1>5, HeadedNext
  <2>. QED  BY <2>1, <2>2, <2>3
<1>. HIDE DEF s2
<1>9. t = Append(s2, r) /\ d = Append(c, x)
  BY DEF s2, s1, p, q, r, x, WithEntry
<1>. HIDE DEF t, d
<1>10. t \in Seq(ZipPieces) /\ Begins(t, Len(t) + 1) = e + 38 + n + 16
  BY <1>2, <1>7, <1>9, NextBegins
<1>11. Closed(t, d)
  BY <1>2, <1>4, <1>7, <1>8, <1>9, DescriptorCloses
<1>12. Directory(t, d, 0, e + 38 + n + 16)
  BY <1>2, <1>7, <1>8, <1>9, DirectoryMoves
<1>13. Headed(t) = Headed(s2)
  BY <1>2, <1>7, <1>9, HeadedNext
<1>14. d \in Seq(Entries)
  BY <1>4, <1>9, AppendProperties
<1>15. Headed(t) = Headed(s) \cup {name}
  BY <1>6, <1>8, <1>13
<1>. QED  BY <1>10, <1>11, <1>12, <1>14, <1>15 DEF WholeEntry, t, d, e

---------------------------------------------------------------------------
(* The steps of the export.  In all of them the store stays.               *)

LEMMA ArchiveInitInv == Files!Init => ArchiveInv
<1>. SUFFICES ASSUME Files!Init  PROVE ArchiveInv
  OBVIOUS
<1>1. /\ zip = [phase |-> "idle", left |-> {}, entries |-> <<>>, audio |-> Files!None,
                central |-> <<>>, offset |-> 0, at |-> 0, data |-> 0, start |-> 0,
                headers |-> 0]
      /\ out = <<>>
  BY DEF Files!Init
<1>2. ArchiveTypes
  <2>1. /\ <<>> \in Seq(ZipPieces) /\ <<>> \in Seq(Numbered) /\ <<>> \in Seq(Entries)
        /\ {} \in SUBSET RecordingsListed /\ 0 \in Nat
        /\ Files!None \in RecordingsListed \cup {Files!None}
    OBVIOUS
  <2>. QED  BY <1>1, <2>1 DEF ArchiveTypes
<1>3. Len(out) = 0 /\ DOMAIN out = {} /\ Len(zip.central) = 0 /\ DOMAIN zip.central = {}
  BY <1>1
<1>4. \A kind : Of(out, kind) = {}
  BY <1>3 DEF Of
<1>5. IsFiniteSet({}) /\ Cardinality({}) = 0
  BY FS_EmptySet
<1>6. Headed(out) = {}
  BY <1>4 DEF Headed
<1>7. Closed(out, zip.central)
  BY <1>3, <1>4, <1>5 DEF Closed, Based
<1>8. Directory(out, zip.central, 0, 0)
  <2>1. 1 .. 0 = {}
    OBVIOUS
  <2>. QED  BY <1>3, <1>4, <1>5, <2>1 DEF Directory
<1>9. Begins(out, Len(out) + 1) = 0
  <2>1. (0 + 1) - 1 = 0
    OBVIOUS
  <2>2. Files!Total(Lengths(out), 0) = 0
    BY TotalOneMore
  <2>. QED  BY <1>3, <2>1, <2>2 DEF Begins
<1>10. /\ zip.phase = "idle" /\ zip.left = {} /\ zip.entries = <<>> /\ zip.audio = Files!None
       /\ zip.offset = 0 /\ zip.headers = 0 /\ DOMAIN zip.entries = {} /\ zip.central = <<>>
  BY <1>1
<1>11. Laid
  BY <1>7, <1>8, <1>9, <1>10 DEF Laid
<1>12. FreshNames
  BY <1>6, <1>10 DEF FreshNames
<1>13. Unlisted
  BY <1>10 DEF Unlisted
<1>14. Progress
  BY <1>1, <1>6, <1>10 DEF Progress
<1>. QED  BY <1>2, <1>10, <1>11, <1>12, <1>13, <1>14 DEF ArchiveInv

(* What happens to the store, and the other requests, keep it.             *)
LEMMA ArchiveKept ==
  ASSUME ArchiveInv, UNCHANGED <<versions, zip, out>>, files' \subseteq files,
         removed \subseteq removed', files \subseteq files' \cup removed'
  PROVE  ArchiveInv'
<1>1. ArchiveTypes' /\ Laid' /\ FreshNames'
  BY DEF ArchiveInv, ArchiveTypes, Laid, FreshNames
<1>2. zip'.phase = "ended" => Readable(out)'
  BY DEF ArchiveInv
<1>3. (Unlisted <=> Unlisted') /\ (Files!MayAdd <=> Files!MayAdd') /\ Files!Oldest' = Files!Oldest
  BY DEF Unlisted, Files!MayAdd, Files!Oldest
<1>4. Progress'
  BY <1>3 DEF ArchiveInv, Progress
<1>5. ASSUME NEW r  PROVE Gathered(r) => Gathered(r)'
  BY DEF Gathered, NamesNoted, Files!TextNames, Files!AudioName
<1>6. zip'.phase # "destroyed" /\ ~Unlisted' =>
        \A r \in RecordingsListed \ removed' : r \in zip'.left \/ Gathered(r)'
  BY <1>3, <1>5 DEF ArchiveInv
<1>7. zip'.phase = "destroyed" => removed' # {} \/ ~Files!MayAdd'
  BY <1>3 DEF ArchiveInv
<1>. QED  BY <1>1, <1>2, <1>4, <1>6, <1>7 DEF ArchiveInv

LEMMA DestroyedInv ==
  ASSUME ArchiveInv, Files!Destroyed, UNCHANGED <<route, Files!store>>,
         removed # {} \/ ~Files!MayAdd, zip.phase \in {"write", "open", "read", "central"}
  PROVE  ArchiveInv'
<1>1. out' = out /\ zip' = [zip EXCEPT !.phase = "destroyed"] /\ UNCHANGED <<files, removed>>
  BY DEF Files!Destroyed, Files!store
<1>2. /\ zip'.phase = "destroyed" /\ zip'.left = zip.left /\ zip'.entries = zip.entries
      /\ zip'.audio = zip.audio /\ zip'.central = zip.central /\ zip'.offset = zip.offset
  BY <1>1 DEF ArchiveInv, ArchiveTypes
<1>3. ArchiveTypes'
  BY <1>1 DEF ArchiveInv, ArchiveTypes
<1>4. Laid'
  BY <1>2 DEF Laid
<1>5. FreshNames'
  BY <1>1, <1>2 DEF ArchiveInv, FreshNames
<1>6. Progress'
  BY <1>1, <1>2 DEF ArchiveInv, Progress, Unlisted
<1>7. ~Files!MayAdd => ~Files!MayAdd'
  BY <1>2 DEF Files!MayAdd
<1>. QED  BY <1>1, <1>2, <1>3, <1>4, <1>5, <1>6, <1>7 DEF ArchiveInv

LEMMA GatheredKept ==
  ASSUME UNCHANGED <<versions, files>>, NEW r, Gathered(r), NamesNoted \subseteq NamesNoted',
         \A i \in DOMAIN zip.entries :
           \/ zip.entries[i] \in NamesNoted'
           \/ \E j \in DOMAIN zip'.entries : zip'.entries[j] = zip.entries[i],
         zip.audio = r => Files!AudioName(r) \in NamesNoted' \/ zip'.audio = r
  PROVE  Gathered(r)'
<1>1. Files!TextNames(r)' = Files!TextNames(r) /\ files' = files
  BY DEF Files!TextNames
<1>2. ASSUME NEW n \in Files!TextNames(r)
      PROVE  n \in NamesNoted' \/ \E i \in DOMAIN zip'.entries : zip'.entries[i] = n
  BY <1>2 DEF Gathered
<1>3. r \in files => Files!AudioName(r) \in NamesNoted' \/ zip'.audio = r
  BY DEF Gathered
<1>. QED  BY <1>1, <1>2, <1>3 DEF Gathered, Files!AudioName

LEMMA ExportStartsInv ==
  ArchiveInv /\ RecordingsInv /\ Files!ExportStarts => ArchiveInv'
<1>. SUFFICES ASSUME ArchiveInv, RecordingsInv, Files!ExportStarts  PROVE ArchiveInv'
  OBVIOUS
<1>1. /\ zip.phase = "idle" /\ zip' = [zip EXCEPT !.phase = "write", !.entries = <<<<0, 0>>>>]
      /\ UNCHANGED <<out, files, removed, versions>>
  BY DEF Files!ExportStarts, Files!store, Files!README
<1>2. ArchiveTypes /\ Laid /\ Progress /\ Unlisted
  BY <1>1 DEF ArchiveInv, Unlisted
<1>3. /\ out = <<>> /\ zip.central = <<>> /\ zip.left = {} /\ zip.audio = Files!None
  BY <1>1, <1>2 DEF Progress
<1>4. ArchiveTypes'
  <2>1. <<0, 0>> \in Numbered
    BY DEF Numbered
  <2>2. <<<<0, 0>>>> \in Seq(Numbered)
    BY <2>1
  <2>. QED  BY <1>1, <1>2, <2>2 DEF ArchiveTypes
<1>5. /\ zip'.phase = "write" /\ zip'.left = {} /\ zip'.entries = <<<<0, 0>>>>
      /\ zip'.audio = Files!None /\ zip'.central = zip.central /\ zip'.offset = zip.offset
      /\ zip'.headers = zip.headers
  BY <1>1, <1>2, <1>3 DEF ArchiveTypes
<1>6. Laid'
  BY <1>1, <1>2, <1>5 DEF Laid
<1>7. Headed(out) = {}
  BY <1>3 DEF Headed, Of
<1>8. DOMAIN zip'.entries = {1} /\ zip'.entries[1] = <<0, 0>>
  BY <1>5
<1>9. FreshNames'
  BY <1>1, <1>5, <1>7, <1>8 DEF FreshNames
<1>10. Unlisted'
  BY <1>3, <1>5 DEF Unlisted
<1>11. Progress'
  BY <1>1, <1>5, <1>7, <1>8 DEF Progress, Files!README
<1>. QED  BY <1>4, <1>5, <1>6, <1>9, <1>10, <1>11 DEF ArchiveInv

LEMMA ListRecordingsInv ==
  ArchiveInv /\ RecordingsInv /\ Files!ListRecordings => ArchiveInv'
<1>. SUFFICES ASSUME ArchiveInv, RecordingsInv, Files!ListRecordings  PROVE ArchiveInv'
  OBVIOUS
<1>1. /\ zip.phase = "write" /\ zip' = [zip EXCEPT !.phase = "next", !.left = rows]
      /\ zip.entries = <<>> /\ zip.audio = Files!None /\ Len(zip.central) = 1
      /\ UNCHANGED <<out, files, removed, versions>>
  BY DEF Files!ListRecordings, Files!store
<1>2. ArchiveTypes /\ Laid /\ Progress /\ Unlisted
  BY <1>1 DEF ArchiveInv, Unlisted
<1>3. rows = RecordingsListed \ removed
  BY DEF RecordingsInv
<1>4. ArchiveTypes'
  BY <1>1, <1>2, <1>3 DEF ArchiveTypes
<1>5. /\ zip'.phase = "next" /\ zip'.left = rows /\ zip'.entries = <<>>
      /\ zip'.audio = Files!None /\ zip'.central = zip.central /\ zip'.offset = zip.offset
      /\ zip'.headers = zip.headers
  BY <1>1, <1>2 DEF ArchiveTypes
<1>6. Laid'
  BY <1>1, <1>2, <1>5 DEF Laid
<1>7. Headed(out) \subseteq {<<0, 0>>}
  BY <1>2 DEF Progress, Files!README
<1>8. 0 \notin rows
  BY <1>3, PartsAssumption
<1>9. FreshNames'
  BY <1>1, <1>5, <1>7, <1>8 DEF FreshNames
<1>10. ~Unlisted'
  BY <1>5 DEF Unlisted
<1>11. Progress'
  BY <1>5, <1>10 DEF Progress
<1>. QED  BY <1>1, <1>3, <1>4, <1>5, <1>6, <1>9, <1>11 DEF ArchiveInv

LEMMA NextRecordingInv ==
  ArchiveInv /\ RecordingsInv /\ Files!NextRecording => ArchiveInv'
<1>. SUFFICES ASSUME ArchiveInv, RecordingsInv, Files!NextRecording  PROVE ArchiveInv'
  OBVIOUS
<1>1. /\ zip.phase = "write" /\ zip' = [zip EXCEPT !.phase = "next"]
      /\ zip.entries = <<>> /\ zip.audio = Files!None /\ Len(zip.central) > 1
      /\ UNCHANGED <<out, files, removed, versions>>
  BY DEF Files!NextRecording, Files!store
<1>2. ArchiveTypes /\ Laid /\ Progress /\ FreshNames
  BY DEF ArchiveInv
<1>3. ~Unlisted
  <2>1. zip.central \in Seq(Entries)
    BY <1>2 DEF ArchiveTypes
  <2>2. Len(zip.central) \in Nat /\ Len(<<>>) = 0
    BY <2>1, LenProperties
  <2>. QED  BY <1>1, <2>2 DEF Unlisted
<1>4. ArchiveTypes'
  BY <1>1, <1>2 DEF ArchiveTypes
<1>5. /\ zip'.phase = "next" /\ zip'.left = zip.left /\ zip'.entries = <<>>
      /\ zip'.audio = Files!None /\ zip'.central = zip.central /\ zip'.offset = zip.offset
      /\ zip'.headers = zip.headers
  BY <1>1, <1>2 DEF ArchiveTypes
<1>6. Laid'
  BY <1>1, <1>2, <1>5 DEF Laid
<1>7. FreshNames'
  BY <1>1, <1>2, <1>5 DEF FreshNames
<1>8. ~Unlisted'
  BY <1>5 DEF Unlisted
<1>9. Progress'
  BY <1>5, <1>8 DEF Progress
<1>10. ASSUME NEW r \in RecordingsListed \ removed  PROVE r \in zip'.left \/ Gathered(r)'
  <2>1. r \in zip.left \/ Gathered(r)
    BY <1>1, <1>3 DEF ArchiveInv
  <2>2. NamesNoted' = NamesNoted
    BY <1>5 DEF NamesNoted
  <2>3. DOMAIN zip.entries = {}
    BY <1>1
  <2>4. Gathered(r) => Gathered(r)'
    BY <1>1, <1>5, <2>2, <2>3, GatheredKept
  <2>. QED  BY <1>5, <2>1, <2>4
<1>. QED  BY <1>1, <1>4, <1>5, <1>6, <1>7, <1>9, <1>10 DEF ArchiveInv

(* The texts of a recording that is there still.                           *)
LEMMA OpenRecordingInv ==
  ArchiveInv /\ RecordingsInv /\ Files!OpenRecording => ArchiveInv'
<1>. SUFFICES ASSUME ArchiveInv, RecordingsInv, Files!OpenRecording  PROVE ArchiveInv'
  OBVIOUS
<1>. DEFINE o == Files!Oldest
            n == versions[o] + 2
            texts == [i \in 1 .. n |-> <<o, i>>]
<1>1. /\ zip.phase = "next" /\ zip.left # {} /\ UNCHANGED <<out, files, removed, versions>>
      /\ zip' = IF o \in rows THEN [zip EXCEPT !.phase = "media", !.entries = texts]
                ELSE [zip EXCEPT !.left = @ \ {o}]
  BY DEF Files!OpenRecording, Files!store
<1>2. ArchiveTypes /\ Laid /\ Progress /\ FreshNames /\ ~Unlisted
  BY <1>1 DEF ArchiveInv, Unlisted
<1>3. zip.left \subseteq RecordingsListed
  BY <1>2 DEF ArchiveTypes
<1>4. o \in zip.left
  BY <1>1, <1>3, OldestIs
<1>5. o \in RecordingsListed /\ o \in Nat /\ n \in Nat
  <2>1. o \in RecordingsListed /\ RecordingsListed \subseteq Nat
    BY <1>3, <1>4, PartsAssumption
  <2>2. versions[o] \in Nat
    BY <2>1 DEF RecordingsInv
  <2>. QED  BY <2>1, <2>2
<1>6. zip.entries = <<>> /\ zip.audio = Files!None
  BY <1>1, <1>2 DEF Progress
<1>7. DOMAIN zip.entries = {}
  BY <1>6
<1>8. CASE o \in rows
  <2>1. zip' = [zip EXCEPT !.phase = "media", !.entries = texts]
    BY <1>1, <1>8
  <2>2. DOMAIN texts = 1 .. n /\ \A i \in 1 .. n : texts[i] = <<o, i>> /\ texts[i] \in Numbered
    BY <1>5 DEF Numbered
  <2>3. texts \in Seq(Numbered)
    BY <1>5, <2>2 DEF Numbered
  <2>. HIDE DEF texts
  <2>4. ArchiveTypes'
    BY <1>1, <1>2, <2>1, <2>3 DEF ArchiveTypes
  <2>5. /\ zip'.phase = "media" /\ zip'.left = zip.left /\ zip'.entries = texts
        /\ zip'.audio = Files!None /\ zip'.central = zip.central /\ zip'.offset = zip.offset
        /\ zip'.headers = zip.headers
    BY <1>2, <1>6, <2>1 DEF ArchiveTypes
  <2>6. Laid'
    BY <1>1, <1>2, <2>5 DEF Laid
  <2>7. \A m \in Headed(out) : m[1] \notin zip.left
    BY <1>2 DEF FreshNames
  <2>8. ASSUME NEW i \in 1 .. n
        PROVE  /\ texts[i] \notin Headed(out)
               /\ \A j \in 1 .. n : i # j => texts[i] # texts[j]
    BY <1>4, <2>2, <2>7
  <2>9. FreshNames'
    BY <1>1, <2>2, <2>5, <2>7, <2>8 DEF FreshNames
  <2>10. ~Unlisted'
    BY <2>5 DEF Unlisted
  <2>11. o = Files!Oldest'
    BY <2>5 DEF Files!Oldest
  <2>12. texts = [i \in 1 .. versions'[Files!Oldest'] + 2 |-> <<Files!Oldest', i>>]
    BY <1>1, <2>11 DEF texts
  <2>13. Progress'
    <3>. HIDE DEF o, n
    <3>. QED  BY <1>1, <2>5, <2>10, <2>12 DEF Progress
  <2>14. ASSUME NEW r \in RecordingsListed \ removed  PROVE r \in zip'.left \/ Gathered(r)'
    <3>1. r \in zip.left \/ Gathered(r)
      BY <1>1, <1>2 DEF ArchiveInv
    <3>2. NamesNoted' = NamesNoted
      BY <2>5 DEF NamesNoted
    <3>3. Gathered(r) => Gathered(r)'
      BY <1>1, <1>6, <1>7, <2>5, <3>2, GatheredKept
    <3>. QED  BY <2>5, <3>1, <3>3
  <2>. QED  BY <1>1, <2>4, <2>5, <2>6, <2>9, <2>13, <2>14 DEF ArchiveInv
<1>9. CASE o \notin rows
  <2>1. zip' = [zip EXCEPT !.left = @ \ {o}]
    BY <1>1, <1>9
  <2>2. ArchiveTypes'
    BY <1>1, <1>2, <2>1 DEF ArchiveTypes
  <2>3. /\ zip'.phase = "next" /\ zip'.left = zip.left \ {o} /\ zip'.entries = <<>>
        /\ zip'.audio = Files!None /\ zip'.central = zip.central /\ zip'.offset = zip.offset
        /\ zip'.headers = zip.headers
    BY <1>1, <1>2, <1>6, <2>1 DEF ArchiveTypes
  <2>4. Laid'
    BY <1>1, <1>2, <2>3 DEF Laid
  <2>5. FreshNames'
    BY <1>1, <1>2, <1>6, <2>3 DEF FreshNames
  <2>6. ~Unlisted'
    BY <2>3 DEF Unlisted
  <2>7. Progress'
    BY <2>3, <2>6 DEF Progress
  <2>8. ASSUME NEW r \in RecordingsListed \ removed  PROVE r \in zip'.left \/ Gathered(r)'
    <3>1. r \in zip.left \/ Gathered(r)
      BY <1>1, <1>2 DEF ArchiveInv
    <3>2. NamesNoted' = NamesNoted
      BY <2>3 DEF NamesNoted
    <3>3. Gathered(r) => Gathered(r)'
      BY <1>1, <1>6, <1>7, <2>3, <3>2, GatheredKept
    <3>4. r # o
      BY <1>5, <1>9 DEF RecordingsInv
    <3>. QED  BY <2>3, <3>1, <3>3, <3>4
  <2>. QED  BY <1>1, <2>2, <2>3, <2>4, <2>5, <2>7, <2>8 DEF ArchiveInv
<1>. QED  BY <1>8, <1>9

(* Then its audio, if there is any.                                        *)
LEMMA FindMediaInv ==
  ArchiveInv /\ RecordingsInv /\ Files!FindMedia => ArchiveInv'
<1>. SUFFICES ASSUME ArchiveInv, RecordingsInv, Files!FindMedia  PROVE ArchiveInv'
  OBVIOUS
<1>. DEFINE o == Files!Oldest
            n == versions[o] + 2
            audio_ == IF Files!HasMedia(o) THEN o ELSE Files!None
<1>1. /\ zip.phase = "media" /\ UNCHANGED <<out, files, removed, versions>>
      /\ zip' = [zip EXCEPT !.phase = "write", !.left = @ \ {o}, !.audio = audio_]
  BY DEF Files!FindMedia, Files!store
<1>2. ArchiveTypes /\ Laid /\ Progress /\ FreshNames /\ ~Unlisted
  BY <1>1 DEF ArchiveInv, Unlisted
<1>3. zip.left # {} /\ zip.left \subseteq RecordingsListed
  BY <1>1, <1>2 DEF ArchiveTypes, Progress
<1>4. o \in zip.left
  BY <1>3, OldestIs
<1>5. o \in RecordingsListed /\ o \in Nat /\ versions[o] \in Nat /\ n \in Nat /\ n >= 2
  <2>1. o \in RecordingsListed /\ RecordingsListed \subseteq Nat
    BY <1>3, <1>4, PartsAssumption
  <2>2. versions[o] \in Nat
    BY <2>1 DEF RecordingsInv
  <2>. QED  BY <2>1, <2>2
<1>6. zip.entries = [i \in 1 .. n |-> <<o, i>>] /\ zip.audio = Files!None
  BY <1>1, <1>2 DEF Progress
<1>7. /\ DOMAIN zip.entries = 1 .. n /\ \A i \in 1 .. n : zip.entries[i] = <<o, i>>
      /\ zip.entries \in Seq(Numbered)
  BY <1>2, <1>6 DEF ArchiveTypes
<1>8. Len(zip.entries) = n
  BY <1>5, <1>7, LenProperties
<1>9. ArchiveTypes'
  <2>1. audio_ \in RecordingsListed \cup {Files!None}
    BY <1>5
  <2>. HIDE DEF audio_
  <2>. QED  BY <1>1, <1>2, <2>1 DEF ArchiveTypes
<1>10. /\ zip'.phase = "write" /\ zip'.left = zip.left \ {o} /\ zip'.entries = zip.entries
       /\ zip'.audio = audio_ /\ zip'.central = zip.central /\ zip'.offset = zip.offset
       /\ zip'.headers = zip.headers
  <2>. HIDE DEF audio_
  <2>. QED  BY <1>1, <1>2 DEF ArchiveTypes
<1>11. Laid'
  BY <1>1, <1>2, <1>10 DEF Laid
<1>12. Files!AudioName(o) = <<o, 0>>
  BY DEF Files!AudioName
<1>13. audio_ # Files!None => audio_ = o
  OBVIOUS
<1>14. FreshNames'
  <2>1. \A m \in Headed(out) : m[1] \notin zip'.left
    BY <1>2, <1>10 DEF FreshNames
  <2>2. ASSUME NEW i \in DOMAIN zip.entries
        PROVE  /\ zip.entries[i] \notin Headed(out) /\ zip.entries[i][1] \notin zip'.left
               /\ zip.entries[i] # Files!AudioName(o)
               /\ \A j \in DOMAIN zip.entries : i # j => zip.entries[i] # zip.entries[j]
    <3>1. i \in 1 .. n /\ zip.entries[i] = <<o, i>> /\ i # 0
      BY <1>5, <1>7
    <3>2. zip.entries[i][1] \notin zip'.left /\ zip.entries[i] # Files!AudioName(o)
      BY <1>10, <1>12, <3>1
    <3>3. /\ zip.entries[i] \notin Headed(out)
          /\ \A j \in DOMAIN zip.entries : i # j => zip.entries[i] # zip.entries[j]
      BY <1>2 DEF FreshNames
    <3>. QED  BY <3>2, <3>3
  <2>3. o \notin zip'.left /\ Files!AudioName(o) \notin Headed(out)
    <3>1. Files!AudioName(o)[1] = o
      BY <1>12
    <3>. QED  BY <1>2, <1>4, <1>10, <3>1 DEF FreshNames
  <2>. HIDE DEF audio_, o, n
  <2>. QED  BY <1>1, <1>10, <1>13, <2>1, <2>2, <2>3 DEF FreshNames
<1>15. ~Unlisted'
  <2>1. Len(zip.central) \in Nat
    BY <1>2, LenProperties DEF ArchiveTypes
  <2>. HIDE DEF n, o, audio_
  <2>2. ~(Len(zip.entries) + Len(zip.central) <= 1)
    BY <1>5, <1>8, <2>1
  <2>. QED  BY <1>10, <2>2 DEF Unlisted
<1>16. audio_ # Files!None => audio_ \in files
  BY DEF Files!HasMedia
<1>17. Progress'
  <2>. HIDE DEF audio_
  <2>. QED  BY <1>1, <1>10, <1>15, <1>16 DEF Progress
<1>18. ASSUME NEW r \in RecordingsListed \ removed  PROVE r \in zip'.left \/ Gathered(r)'
  <2>1. r \in zip.left \/ Gathered(r)
    BY <1>1, <1>2 DEF ArchiveInv
  <2>2. NamesNoted' = NamesNoted
    BY <1>10 DEF NamesNoted
  <2>3. CASE r = o
    <3>1. r \in files' => audio_ = r
      BY <1>1, <2>3 DEF Files!HasMedia, RecordingsInv
    <3>2. ASSUME NEW m \in Files!TextNames(r)'
          PROVE  \E i \in DOMAIN zip'.entries : zip'.entries[i] = m
      <4>1. PICK i \in 1 .. n : m = <<o, i>>
        BY <1>1, <2>3, <3>2 DEF Files!TextNames
      <4>. QED  BY <1>7, <1>10, <4>1
    <3>. HIDE DEF audio_
    <3>. QED  BY <1>10, <3>1, <3>2 DEF Gathered
  <2>4. CASE Gathered(r)
    <3>1. r # Files!None
      BY PartsAssumption DEF Files!None
    <3>2. Gathered(r)'
      BY <1>1, <1>6, <1>10, <2>2, <2>4, <3>1, GatheredKept
    <3>. QED  BY <3>2
  <2>. QED  BY <1>10, <2>1, <2>3, <2>4
<1>. QED  BY <1>1, <1>9, <1>10, <1>11, <1>14, <1>17, <1>18 DEF ArchiveInv

(* One entry whose source is in memory.                                    *)
LEMMA WriteEntryInv ==
  ArchiveInv /\ RecordingsInv /\ Files!WriteEntry => ArchiveInv'
<1>. SUFFICES ASSUME ArchiveInv, RecordingsInv, Files!WriteEntry  PROVE ArchiveInv'
  OBVIOUS
<1>. DEFINE name == Head(zip.entries)
            x == Files!Noted(name, zip.offset, 4)
<1>1. /\ zip.phase = "write" /\ zip.entries # <<>> /\ UNCHANGED <<route, Files!store>>
      /\ UNCHANGED <<files, removed, versions>>
  BY DEF Files!WriteEntry, Files!store
<1>2. ArchiveTypes /\ Laid /\ Progress /\ FreshNames
  BY DEF ArchiveInv
<1>3. CASE ~Files!MayAdd
  <2>1. Files!Destroyed
    BY <1>3 DEF Files!WriteEntry
  <2>. QED  BY <1>1, <1>3, <2>1, DestroyedInv
<1>4. CASE Files!MayAdd
  <2>1. /\ out' = Append(Append(Append(out, Files!Local(name)), Files!Data(name, 4)),
                         Files!Descriptor(name, 4))
        /\ zip' = [zip EXCEPT !.entries = Tail(@),
             !.offset = @ + Files!Local(name).bytes + Files!Data(name, 4).bytes
                          + Files!Descriptor(name, 4).bytes,
             !.central = Append(@, x)]
    BY <1>4 DEF Files!WriteEntry, Files!EntryOffset, Files!TextBytes
  <2>2. zip.entries \in Seq(Numbered) /\ zip.central \in Seq(Entries) /\ out \in Seq(ZipPieces)
        /\ zip.offset \in Nat
    BY <1>2 DEF ArchiveTypes
  <2>3. /\ name \in Numbered /\ name = zip.entries[1] /\ Len(zip.entries) \in Nat \ {0}
        /\ Tail(zip.entries) \in Seq(Numbered) /\ DOMAIN zip.entries = 1 .. Len(zip.entries)
        /\ Len(Tail(zip.entries)) = Len(zip.entries) - 1
        /\ DOMAIN Tail(zip.entries) = 1 .. Len(zip.entries) - 1
        /\ \A i \in 1 .. Len(zip.entries) - 1 : Tail(zip.entries)[i] = zip.entries[i + 1]
    BY <1>1, <2>2, HeadTailProperties, EmptySeq, LenProperties
  <2>4. 1 \in DOMAIN zip.entries
    BY <2>3
  <2>5. Files!Local(name).bytes = 38 /\ Files!Data(name, 4).bytes = 4
    <3>1. 4 \in Nat \ {0}
      OBVIOUS
    <3>. HIDE DEF name
    <3>. QED  BY <2>3, <3>1, PieceTypes
  <2>6. Files!Descriptor(name, 4).bytes = 16
    <3>. HIDE DEF name
    <3>. QED  BY <2>3, DescriptorType
  <2>7. x \in Entries /\ x.name = name
    <3>. HIDE DEF name
    <3>. QED  BY <2>2, <2>3, NotedType
  <2>8. name \notin Headed(out)
    BY <1>2, <2>3, <2>4 DEF FreshNames
  <2>9. /\ zip.offset = Begins(out, Len(out) + 1) /\ Closed(out, zip.central)
        /\ Directory(out, zip.central, 0, zip.offset) /\ zip.headers = 0
    BY <1>1, <1>2 DEF Laid
  <2>10. zip' = [zip EXCEPT !.entries = Tail(@), !.offset = zip.offset + 38 + 4 + 16,
                            !.central = Append(@, x)]
    BY <1>2, <2>1, <2>5, <2>6
  <2>. HIDE DEF name
  <2>11. /\ out' \in Seq(ZipPieces) /\ Append(zip.central, x) \in Seq(Entries)
         /\ Headed(out') = Headed(out) \cup {name} /\ Closed(out', Append(zip.central, x))
         /\ Begins(out', Len(out') + 1) = zip.offset + 38 + 4 + 16
         /\ Directory(out', Append(zip.central, x), 0, zip.offset + 38 + 4 + 16)
    <3>1. 4 \in Nat \ {0}
      OBVIOUS
    <3>2. out' = WithEntry(out, name, 4)
      BY <2>1 DEF WithEntry
    <3>3. x = Files!Noted(name, Begins(out, Len(out) + 1), 4)
      BY <2>9
    <3>. HIDE DEF x
    <3>4. name \in Numbered /\ Directory(out, zip.central, 0, Begins(out, Len(out) + 1))
      BY <2>3, <2>9
    <3>5. WholeEntry(out, zip.central, name, 4, out', Append(zip.central, x))
      BY <2>2, <2>8, <2>9, <3>1, <3>2, <3>3, <3>4, EntryWritten
    <3>. QED  BY <2>9, <3>5 DEF WholeEntry
  <2>. HIDE DEF x
  <2>12. ArchiveTypes'
    <3>1. zip.offset + 38 + 4 + 16 \in Nat
      BY <2>2
    <3>2. Tail(zip.entries) \in Seq(Numbered)
      BY <2>3
    <3>. QED  BY <1>2, <2>10, <2>11, <3>1, <3>2 DEF ArchiveTypes
  <2>13. /\ zip'.phase = "write" /\ zip'.left = zip.left /\ zip'.entries = Tail(zip.entries)
         /\ zip'.audio = zip.audio /\ zip'.central = Append(zip.central, x)
         /\ zip'.offset = zip.offset + 38 + 4 + 16 /\ zip'.headers = 0
    BY <1>1, <1>2, <2>9, <2>10 DEF ArchiveTypes
  <2>14. Laid'
    BY <2>11, <2>13 DEF Laid
  <2>15. /\ DOMAIN zip'.entries = 1 .. Len(zip.entries) - 1
         /\ \A i \in DOMAIN zip'.entries :
              i + 1 \in DOMAIN zip.entries /\ i + 1 # 1 /\ zip'.entries[i] = zip.entries[i + 1]
    BY <2>3, <2>13
  <2>16. FreshNames'
    <3>1. \A n \in Headed(out') : n[1] \notin zip'.left
      BY <1>1, <1>2, <2>3, <2>4, <2>11, <2>13 DEF FreshNames
    <3>2. ASSUME NEW i \in DOMAIN zip'.entries
          PROVE  /\ zip'.entries[i] \notin Headed(out')
                 /\ zip'.audio # Files!None => zip'.entries[i] # Files!AudioName(zip'.audio)
                 /\ zip'.entries[i][1] \notin zip'.left
      <4>1. i + 1 \in DOMAIN zip.entries /\ i + 1 # 1 /\ zip'.entries[i] = zip.entries[i + 1]
        BY <2>15
      <4>. QED  BY <1>1, <1>2, <2>3, <2>4, <2>11, <2>13, <4>1 DEF FreshNames
    <3>3. ASSUME NEW i \in DOMAIN zip'.entries, NEW j \in DOMAIN zip'.entries, i # j
          PROVE  zip'.entries[i] # zip'.entries[j]
      <4>1. i + 1 # j + 1
        BY <2>15, <3>3
      <4>. QED  BY <1>2, <2>15, <4>1 DEF FreshNames
    <3>4. zip'.audio # Files!None =>
            zip'.audio \notin zip'.left /\ Files!AudioName(zip'.audio) \notin Headed(out')
      BY <1>1, <1>2, <2>3, <2>4, <2>11, <2>13 DEF FreshNames
    <3>. QED  BY <2>13, <3>1, <3>2, <3>3, <3>4 DEF FreshNames, Files!AudioName
  <2>17. Unlisted' <=> Unlisted
    <3>1. /\ Len(zip'.entries) = Len(zip.entries) - 1 /\ Len(zip'.central) = Len(zip.central) + 1
          /\ Len(zip.central) \in Nat
      BY <2>2, <2>3, <2>7, <2>13, AppendProperties, LenProperties
    <3>2. Len(zip.entries) \in Nat
      BY <2>3
    <3>3. \A a, b \in Nat : (a - 1) + (b + 1) = a + b
      OBVIOUS
    <3>4. Len(zip'.entries) + Len(zip'.central) = Len(zip.entries) + Len(zip.central)
      BY <3>1, <3>2, <3>3
    <3>. QED  BY <1>1, <2>13, <3>4 DEF Unlisted
  <2>18. Progress'
    <3>1. Unlisted' => /\ zip'.left = {} /\ zip'.audio = Files!None
                       /\ Headed(out') \subseteq {Files!README}
                       /\ \A i \in DOMAIN zip'.entries : zip'.entries[i] = Files!README
      <4>1. SUFFICES ASSUME Unlisted
                     PROVE  /\ zip'.left = {} /\ zip'.audio = Files!None
                            /\ Headed(out') \subseteq {Files!README}
                            /\ \A i \in DOMAIN zip'.entries : zip'.entries[i] = Files!README
        BY <2>17
      <4>2. /\ zip.left = {} /\ zip.audio = Files!None /\ Headed(out) \subseteq {Files!README}
            /\ \A i \in DOMAIN zip.entries : zip.entries[i] = Files!README
        BY <1>2, <4>1 DEF Progress
      <4>3. name = Files!README
        BY <2>3, <2>4, <4>2
      <4>4. zip'.left = {} /\ zip'.audio = Files!None
        BY <2>13, <4>2
      <4>5. Headed(out') \subseteq {Files!README}
        BY <2>11, <4>2, <4>3
      <4>6. \A i \in DOMAIN zip'.entries : zip'.entries[i] = Files!README
        BY <2>15, <4>2
      <4>. QED  BY <4>4, <4>5, <4>6
    <3>2. Files!README' = Files!README
      BY DEF Files!README
    <3>3. zip.audio # Files!None => zip.audio \in files \cup removed
      BY <1>2 DEF Progress
    <3>4. zip'.audio # Files!None => zip'.audio \in files' \cup removed'
      BY <1>1, <2>13, <3>3
    <3>5. zip'.phase = "write"
      BY <2>13
    <3>. QED  BY <3>1, <3>4, <3>5 DEF Progress
  <2>19. ASSUME ~Unlisted', NEW r \in RecordingsListed \ removed
         PROVE  r \in zip'.left \/ Gathered(r)'
    <3>1. r \in zip.left \/ Gathered(r)
      BY <1>1, <2>17, <2>19 DEF ArchiveInv
    <3>2. /\ Len(zip.central) + 1 \in DOMAIN zip'.central
          /\ zip'.central[Len(zip.central) + 1] = x
          /\ \A k \in DOMAIN zip.central :
               k \in DOMAIN zip'.central /\ zip'.central[k] = zip.central[k]
      BY <2>2, <2>7, <2>13, AppendProperties, LenProperties
    <3>3. name \in NamesNoted' /\ NamesNoted \subseteq NamesNoted'
      BY <2>7, <3>2 DEF NamesNoted
    <3>4. ASSUME NEW i \in DOMAIN zip.entries
          PROVE  \/ zip.entries[i] \in NamesNoted'
                 \/ \E j \in DOMAIN zip'.entries : zip'.entries[j] = zip.entries[i]
      <4>1. CASE i = 1
        BY <2>3, <3>3, <4>1
      <4>2. CASE i # 1
        <5>1. i - 1 \in 1 .. Len(zip.entries) - 1 /\ (i - 1) + 1 = i
          BY <2>3, <4>2
        <5>2. i - 1 \in DOMAIN zip'.entries
          BY <2>15, <5>1
        <5>3. zip'.entries[i - 1] = zip.entries[(i - 1) + 1]
          BY <2>15, <5>2
        <5>. QED  BY <5>1, <5>2, <5>3
      <4>. QED  BY <4>1, <4>2
    <3>5. Gathered(r) => Gathered(r)'
      BY <1>1, <2>13, <3>3, <3>4, GatheredKept
    <3>. QED  BY <2>13, <3>1, <3>5
  <2>. QED  BY <1>1, <2>12, <2>13, <2>14, <2>16, <2>18, <2>19 DEF ArchiveInv
<1>. QED  BY <1>3, <1>4

LEMMA EntriesEndInv ==
  ArchiveInv /\ RecordingsInv /\ Files!EntriesEnd => ArchiveInv'
<1>. SUFFICES ASSUME ArchiveInv, RecordingsInv, Files!EntriesEnd  PROVE ArchiveInv'
  OBVIOUS
<1>1. /\ zip.phase = "next" /\ zip.left = {} /\ UNCHANGED <<out, files, removed, versions>>
      /\ zip' = [zip EXCEPT !.phase = "central", !.start = zip.offset]
  BY DEF Files!EntriesEnd, Files!store
<1>2. ArchiveTypes /\ Laid /\ Progress /\ FreshNames /\ ~Unlisted
  BY <1>1 DEF ArchiveInv, Unlisted
<1>3. ArchiveTypes'
  BY <1>1, <1>2 DEF ArchiveTypes
<1>4. /\ zip'.phase = "central" /\ zip'.left = {} /\ zip'.entries = zip.entries
      /\ zip'.audio = zip.audio /\ zip'.central = zip.central /\ zip'.offset = zip.offset
      /\ zip'.headers = zip.headers /\ zip'.start = zip.offset
  BY <1>1, <1>2 DEF ArchiveTypes
<1>5. zip.entries = <<>> /\ zip.audio = Files!None
  BY <1>1, <1>2 DEF Progress
<1>6. Laid'
  <2>1. /\ zip.offset = Begins(out, Len(out) + 1) /\ Closed(out, zip.central)
        /\ Directory(out, zip.central, 0, zip.offset) /\ zip.headers = 0
    BY <1>1, <1>2 DEF Laid
  <2>2. zip.offset <= zip.offset /\ 0 <= Len(zip.central)
    BY <1>2, LenProperties DEF ArchiveTypes
  <2>. QED  BY <1>1, <1>4, <2>1, <2>2 DEF Laid
<1>7. FreshNames'
  BY <1>1, <1>2, <1>4, <1>5 DEF FreshNames
<1>8. ~Unlisted'
  BY <1>4 DEF Unlisted
<1>9. Progress'
  BY <1>4, <1>5, <1>8 DEF Progress
<1>10. ASSUME NEW r \in RecordingsListed \ removed  PROVE r \in zip'.left \/ Gathered(r)'
  <2>1. r \in zip.left \/ Gathered(r)
    BY <1>1, <1>2 DEF ArchiveInv
  <2>2. NamesNoted' = NamesNoted
    BY <1>4 DEF NamesNoted
  <2>3. Gathered(r) => Gathered(r)'
    BY <1>1, <1>4, <2>2, GatheredKept
  <2>. QED  BY <1>1, <2>1, <2>3
<1>. QED  BY <1>1, <1>3, <1>4, <1>6, <1>7, <1>9, <1>10 DEF ArchiveInv

(* The header of the audio, then the file is opened.                       *)
LEMMA WriteAudioHeaderInv ==
  ArchiveInv /\ RecordingsInv /\ Files!WriteAudioHeader => ArchiveInv'
<1>. SUFFICES ASSUME ArchiveInv, RecordingsInv, Files!WriteAudioHeader  PROVE ArchiveInv'
  OBVIOUS
<1>. DEFINE name == Files!AudioName(zip.audio)
            p == Files!Local(name)
<1>1. /\ zip.phase = "write" /\ zip.entries = <<>> /\ zip.audio # Files!None
      /\ UNCHANGED <<route, Files!store>> /\ UNCHANGED <<files, removed, versions>>
  BY DEF Files!WriteAudioHeader, Files!store
<1>2. ArchiveTypes /\ Laid /\ Progress /\ FreshNames
  BY DEF ArchiveInv
<1>3. CASE ~Files!MayAdd
  <2>1. Files!Destroyed
    BY <1>3 DEF Files!WriteAudioHeader
  <2>. QED  BY <1>1, <1>3, <2>1, DestroyedInv
<1>4. CASE Files!MayAdd
  <2>1. /\ out' = Append(out, p)
        /\ zip' = [zip EXCEPT !.phase = "open", !.data = 0, !.at = zip.offset,
                              !.offset = @ + p.bytes]
    BY <1>4 DEF Files!WriteAudioHeader, Files!EntryOffset
  <2>2. /\ zip.central \in Seq(Entries) /\ out \in Seq(ZipPieces) /\ zip.offset \in Nat
        /\ zip.audio \in RecordingsListed /\ zip.left \subseteq RecordingsListed
    BY <1>1, <1>2 DEF ArchiveTypes
  <2>3. name \in Numbered /\ name[1] = zip.audio
    BY <2>2, PartsAssumption DEF Files!AudioName, Numbered
  <2>. HIDE DEF name
  <2>4. p \in ZipPieces /\ p.kind = "local" /\ p.name = name /\ p.bytes = 38
    BY <2>3, PieceTypes
  <2>. HIDE DEF p
  <2>5. name \notin Headed(out) /\ zip.audio \notin zip.left
    BY <1>1, <1>2 DEF FreshNames, name
  <2>6. /\ zip.offset = Begins(out, Len(out) + 1) /\ Closed(out, zip.central)
        /\ Directory(out, zip.central, 0, zip.offset) /\ zip.headers = 0
    BY <1>1, <1>2 DEF Laid
  <2>7. Headed(out') = Headed(out) \cup {name}
    BY <2>1, <2>2, <2>4, HeadedNext
  <2>8. out' \in Seq(ZipPieces) /\ Begins(out', Len(out') + 1) = zip.offset + 38
    BY <2>1, <2>2, <2>4, <2>6, NextBegins
  <2>9. Opened(out', zip.central, name, zip.offset, 0)
    BY <2>1, <2>2, <2>4, <2>5, <2>6, HeaderOpens
  <2>10. Directory(out', zip.central, 0, zip.offset + 38)
    BY <2>1, <2>2, <2>4, <2>6, DirectoryMoves
  <2>11. zip' = [zip EXCEPT !.phase = "open", !.data = 0, !.at = zip.offset,
                            !.offset = zip.offset + 38]
    BY <1>2, <2>1, <2>4
  <2>12. ArchiveTypes'
    <3>1. zip.offset + 38 \in Nat
      BY <2>2
    <3>. QED  BY <1>2, <2>2, <2>8, <2>11, <3>1 DEF ArchiveTypes
  <2>13. /\ zip'.phase = "open" /\ zip'.left = zip.left /\ zip'.entries = <<>>
         /\ zip'.audio = zip.audio /\ zip'.central = zip.central /\ zip'.data = 0
         /\ zip'.at = zip.offset /\ zip'.offset = zip.offset + 38 /\ zip'.headers = 0
    BY <1>1, <1>2, <2>6, <2>11 DEF ArchiveTypes
  <2>14. Files!AudioName(zip'.audio) = name
    BY <2>13 DEF name
  <2>15. Laid'
    <3>1. 0 < zip.offset + 38
      BY <2>2
    <3>. QED  BY <2>8, <2>9, <2>10, <2>13, <2>14, <3>1 DEF Laid, Files!AudioName
  <2>16. FreshNames'
    <3>1. \A n \in Headed(out') : n[1] \notin zip'.left
      BY <1>2, <2>3, <2>5, <2>7, <2>13 DEF FreshNames
    <3>2. DOMAIN zip'.entries = {}
      BY <2>13
    <3>. QED  BY <2>5, <2>13, <3>1, <3>2 DEF FreshNames
  <2>17. ~Unlisted' /\ ~Unlisted
    BY <1>1, <1>2, <2>13 DEF Unlisted, Progress
  <2>18. Len(zip.central) >= 2
    <3>1. Len(zip.entries) = 0 /\ Len(zip.central) \in Nat
      BY <1>1, <2>2, LenProperties
    <3>2. ~(0 + Len(zip.central) <= 1)
      BY <1>1, <2>17, <3>1 DEF Unlisted
    <3>. QED  BY <3>1, <3>2
  <2>19. Progress'
    <3>1. zip'.audio \in files' \cup removed' /\ zip'.audio # Files!None
      BY <1>1, <1>2, <2>13 DEF Progress
    <3>. QED  BY <2>13, <2>17, <2>18, <3>1 DEF Progress
  <2>20. ASSUME NEW r \in RecordingsListed \ removed  PROVE r \in zip'.left \/ Gathered(r)'
    <3>1. r \in zip.left \/ Gathered(r)
      BY <1>1, <2>17 DEF ArchiveInv
    <3>2. NamesNoted' = NamesNoted /\ DOMAIN zip.entries = {}
      BY <1>1, <2>13 DEF NamesNoted
    <3>3. Gathered(r) => Gathered(r)'
      BY <1>1, <2>13, <3>2, GatheredKept
    <3>. QED  BY <2>13, <3>1, <3>3
  <2>. QED  BY <1>1, <2>12, <2>13, <2>15, <2>16, <2>19, <2>20 DEF ArchiveInv
<1>. QED  BY <1>3, <1>4

LEMMA OpenAudioInv ==
  ArchiveInv /\ RecordingsInv /\ Files!OpenAudio => ArchiveInv'
<1>. SUFFICES ASSUME ArchiveInv, RecordingsInv, Files!OpenAudio  PROVE ArchiveInv'
  OBVIOUS
<1>1. /\ zip.phase = "open" /\ UNCHANGED <<route, Files!store>>
      /\ UNCHANGED <<files, removed, versions>>
  BY DEF Files!OpenAudio, Files!store
<1>2. ArchiveTypes /\ Laid /\ Progress /\ FreshNames /\ ~Unlisted
  BY <1>1 DEF ArchiveInv, Unlisted
<1>3. zip.audio # Files!None /\ zip.audio \in files \cup removed
  BY <1>1, <1>2 DEF Progress
<1>4. CASE zip.audio \notin files
  <2>1. Files!Destroyed
    BY <1>4 DEF Files!OpenAudio
  <2>2. removed # {}
    BY <1>3, <1>4
  <2>. QED  BY <1>1, <2>1, <2>2, DestroyedInv
<1>5. CASE zip.audio \in files
  <2>1. zip' = [zip EXCEPT !.phase = "read"] /\ out' = out
    BY <1>5 DEF Files!OpenAudio
  <2>2. ArchiveTypes'
    BY <1>2, <2>1 DEF ArchiveTypes
  <2>3. /\ zip'.phase = "read" /\ zip'.left = zip.left /\ zip'.entries = zip.entries
        /\ zip'.audio = zip.audio /\ zip'.central = zip.central /\ zip'.data = zip.data
        /\ zip'.at = zip.at /\ zip'.offset = zip.offset /\ zip'.headers = zip.headers
    BY <1>2, <2>1 DEF ArchiveTypes
  <2>4. Laid'
    BY <1>1, <1>2, <2>1, <2>3 DEF Laid, Files!AudioName
  <2>5. FreshNames'
    BY <1>1, <1>2, <2>1, <2>3 DEF FreshNames
  <2>6. ~Unlisted'
    BY <2>3 DEF Unlisted
  <2>7. Progress'
    BY <1>1, <1>2, <2>3, <2>6 DEF Progress
  <2>8. ASSUME NEW r \in RecordingsListed \ removed  PROVE r \in zip'.left \/ Gathered(r)'
    <3>1. r \in zip.left \/ Gathered(r)
      BY <1>1, <1>2 DEF ArchiveInv
    <3>2. NamesNoted' = NamesNoted
      BY <2>3 DEF NamesNoted
    <3>3. Gathered(r) => Gathered(r)'
      BY <1>1, <2>3, <3>2, GatheredKept
    <3>. QED  BY <2>3, <3>1, <3>3
  <2>. QED  BY <1>1, <2>2, <2>3, <2>4, <2>5, <2>7, <2>8 DEF ArchiveInv
<1>. QED  BY <1>4, <1>5

LEMMA ReadAudioInv ==
  ArchiveInv /\ RecordingsInv /\ Files!ReadAudio => ArchiveInv'
<1>. SUFFICES ASSUME ArchiveInv, RecordingsInv, Files!ReadAudio  PROVE ArchiveInv'
  OBVIOUS
<1>. DEFINE name == Files!AudioName(zip.audio)
            p == Files!Data(name, 1)
<1>1. /\ zip.phase = "read" /\ UNCHANGED <<route, Files!store>>
      /\ UNCHANGED <<files, removed, versions>>
  BY DEF Files!ReadAudio, Files!store
<1>2. ArchiveTypes /\ Laid /\ Progress /\ FreshNames /\ ~Unlisted
  BY <1>1 DEF ArchiveInv, Unlisted
<1>3. /\ zip.offset \in Nat /\ zip.data \in Nat /\ zip.central \in Seq(Entries)
      /\ out \in Seq(ZipPieces)
  BY <1>2 DEF ArchiveTypes
<1>4. /\ zip.offset = Begins(out, Len(out) + 1) /\ zip.data < zip.offset
      /\ Opened(out, zip.central, name, zip.at, zip.data)
      /\ Directory(out, zip.central, 0, zip.offset) /\ zip.headers = 0
  BY <1>1, <1>2 DEF Laid
<1>5. CASE ~(zip.data + 1 <= ZipMaximum)
  <2>1. Files!Destroyed
    BY <1>5 DEF Files!ReadAudio
  <2>2. ~(zip.offset <= ZipMaximum)
    BY <1>3, <1>4, <1>5, PartsAssumption
  <2>. QED  BY <1>1, <2>1, <2>2, DestroyedInv DEF Files!MayAdd
<1>6. CASE zip.data + 1 <= ZipMaximum
  <2>1. /\ out' = Append(out, p)
        /\ zip' = [zip EXCEPT !.data = zip.data + 1, !.offset = zip.offset + 1]
    BY <1>6 DEF Files!ReadAudio
  <2>2. zip.audio \in RecordingsListed
    BY <1>1, <1>2 DEF ArchiveTypes, Progress
  <2>3. name \in Numbered
    BY <2>2, PartsAssumption DEF Files!AudioName, Numbered
  <2>. HIDE DEF name
  <2>4. p \in ZipPieces /\ p.kind = "data" /\ p.name = name /\ p.bytes = 1
    <3>1. 1 \in Nat \ {0}
      OBVIOUS
    <3>. QED  BY <2>3, <3>1, PieceTypes
  <2>. HIDE DEF p
  <2>5. Headed(out') = Headed(out)
    BY <1>3, <2>1, <2>4, HeadedNext
  <2>6. out' \in Seq(ZipPieces) /\ Begins(out', Len(out') + 1) = zip.offset + 1
    BY <1>3, <1>4, <2>1, <2>4, NextBegins
  <2>7. Opened(out', zip.central, name, zip.at, zip.data + 1)
    BY <1>3, <1>4, <2>1, <2>4, DataGoOn
  <2>8. Directory(out', zip.central, 0, zip.offset + 1)
    BY <1>3, <1>4, <2>1, <2>4, DirectoryMoves
  <2>9. ArchiveTypes'
    <3>1. zip.offset + 1 \in Nat /\ zip.data + 1 \in Nat
      BY <1>3
    <3>. QED  BY <1>2, <2>1, <2>6, <3>1 DEF ArchiveTypes
  <2>10. /\ zip'.phase = "read" /\ zip'.left = zip.left /\ zip'.entries = zip.entries
         /\ zip'.audio = zip.audio /\ zip'.central = zip.central /\ zip'.data = zip.data + 1
         /\ zip'.at = zip.at /\ zip'.offset = zip.offset + 1 /\ zip'.headers = 0
    BY <1>1, <1>2, <1>4, <2>1 DEF ArchiveTypes
  <2>11. Files!AudioName(zip'.audio) = name
    BY <2>10 DEF name
  <2>12. Laid'
    <3>1. zip.data + 1 < zip.offset + 1
      BY <1>3, <1>4
    <3>. QED  BY <2>6, <2>7, <2>8, <2>10, <2>11, <3>1 DEF Laid, Files!AudioName
  <2>13. FreshNames'
    BY <1>1, <1>2, <2>5, <2>10 DEF FreshNames
  <2>14. ~Unlisted'
    BY <2>10 DEF Unlisted
  <2>15. Progress'
    BY <1>1, <1>2, <2>10, <2>14 DEF Progress
  <2>16. ASSUME NEW r \in RecordingsListed \ removed  PROVE r \in zip'.left \/ Gathered(r)'
    <3>1. r \in zip.left \/ Gathered(r)
      BY <1>1, <1>2 DEF ArchiveInv
    <3>2. NamesNoted' = NamesNoted
      BY <2>10 DEF NamesNoted
    <3>3. Gathered(r) => Gathered(r)'
      BY <1>1, <2>10, <3>2, GatheredKept
    <3>. QED  BY <2>10, <3>1, <3>3
  <2>. QED  BY <1>1, <2>9, <2>10, <2>12, <2>13, <2>15, <2>16 DEF ArchiveInv
<1>. QED  BY <1>5, <1>6

LEMMA AudioEndsInv ==
  ArchiveInv /\ RecordingsInv /\ Files!AudioEnds => ArchiveInv'
<1>. SUFFICES ASSUME ArchiveInv, RecordingsInv, Files!AudioEnds  PROVE ArchiveInv'
  OBVIOUS
<1>. DEFINE name == Files!AudioName(zip.audio)
            p == Files!Descriptor(name, zip.data)
            x == Files!Noted(name, zip.at, zip.data)
<1>1. /\ zip.phase = "read" /\ UNCHANGED <<files, removed, versions>> /\ out' = Append(out, p)
      /\ zip' = [zip EXCEPT !.phase = "write", !.audio = Files!None, !.offset = @ + p.bytes,
                            !.central = Append(@, x)]
  BY DEF Files!AudioEnds, Files!store
<1>2. ArchiveTypes /\ Laid /\ Progress /\ FreshNames /\ ~Unlisted
  BY <1>1 DEF ArchiveInv, Unlisted
<1>3. /\ zip.offset \in Nat /\ zip.data \in Nat /\ zip.at \in Nat /\ zip.central \in Seq(Entries)
      /\ out \in Seq(ZipPieces)
  BY <1>2 DEF ArchiveTypes
<1>4. /\ zip.offset = Begins(out, Len(out) + 1)
      /\ Opened(out, zip.central, name, zip.at, zip.data)
      /\ Directory(out, zip.central, 0, zip.offset) /\ zip.headers = 0
  BY <1>1, <1>2 DEF Laid
<1>5. zip.audio \in RecordingsListed /\ Len(zip.central) >= 2 /\ zip.entries = <<>>
  BY <1>1, <1>2 DEF ArchiveTypes, Progress
<1>6. name \in Numbered
  BY <1>5, PartsAssumption DEF Files!AudioName, Numbered
<1>. HIDE DEF name
<1>7. p \in ZipPieces /\ p.kind = "descriptor" /\ p.bytes = 16
  BY <1>3, <1>6, DescriptorType
<1>8. x \in Entries /\ x.name = name /\ x.offset = zip.at /\ x.size = zip.data
  BY <1>3, <1>6, NotedType
<1>. HIDE DEF p, x
<1>9. Headed(out') = Headed(out)
  BY <1>1, <1>3, <1>7, HeadedNext
<1>10. out' \in Seq(ZipPieces) /\ Begins(out', Len(out') + 1) = zip.offset + 16
  BY <1>1, <1>3, <1>4, <1>7, NextBegins
<1>11. Closed(out', Append(zip.central, x))
  BY <1>1, <1>3, <1>4, <1>7, <1>8, DescriptorCloses
<1>12. Directory(out', Append(zip.central, x), 0, zip.offset + 16)
  BY <1>1, <1>3, <1>4, <1>7, DirectoryMoves
<1>13. /\ Append(zip.central, x) \in Seq(Entries) /\ Len(zip.central) \in Nat
       /\ Len(Append(zip.central, x)) = Len(zip.central) + 1
       /\ Append(zip.central, x)[Len(zip.central) + 1] = x
       /\ Len(zip.central) + 1 \in DOMAIN Append(zip.central, x)
       /\ \A k \in DOMAIN zip.central : k \in DOMAIN Append(zip.central, x)
                                        /\ Append(zip.central, x)[k] = zip.central[k]
  BY <1>3, <1>8, AppendProperties, LenProperties
<1>14. zip' = [zip EXCEPT !.phase = "write", !.audio = Files!None, !.offset = zip.offset + 16,
                          !.central = Append(zip.central, x)]
  BY <1>1, <1>2, <1>7 DEF ArchiveTypes
<1>15. ArchiveTypes'
  <2>1. zip.offset + 16 \in Nat
    BY <1>3
  <2>. QED  BY <1>2, <1>10, <1>13, <1>14, <2>1 DEF ArchiveTypes
<1>16. /\ zip'.phase = "write" /\ zip'.left = zip.left /\ zip'.entries = <<>>
       /\ zip'.audio = Files!None /\ zip'.central = Append(zip.central, x)
       /\ zip'.offset = zip.offset + 16 /\ zip'.headers = 0
  BY <1>2, <1>4, <1>5, <1>14 DEF ArchiveTypes
<1>17. Laid'
  BY <1>10, <1>11, <1>12, <1>16 DEF Laid
<1>18. FreshNames'
  BY <1>2, <1>9, <1>16 DEF FreshNames
<1>19. ~Unlisted'
  <2>1. Len(zip'.entries) = 0 /\ Len(zip'.central) = Len(zip.central) + 1
    BY <1>13, <1>16
  <2>2. ~(0 + (Len(zip.central) + 1) <= 1)
    BY <1>5, <1>13
  <2>. QED  BY <1>16, <2>1, <2>2 DEF Unlisted
<1>20. Progress'
  BY <1>16, <1>19 DEF Progress
<1>21. ASSUME NEW r \in RecordingsListed \ removed  PROVE r \in zip'.left \/ Gathered(r)'
  <2>1. r \in zip.left \/ Gathered(r)
    BY <1>1, <1>2 DEF ArchiveInv
  <2>2. NamesNoted \subseteq NamesNoted' /\ name \in NamesNoted'
    BY <1>8, <1>13, <1>16 DEF NamesNoted
  <2>3. zip.audio = r => Files!AudioName(r) \in NamesNoted'
    BY <2>2 DEF name
  <2>4. DOMAIN zip.entries = {}
    BY <1>5
  <2>5. Gathered(r) => Gathered(r)'
    BY <1>1, <2>2, <2>3, <2>4, GatheredKept
  <2>. QED  BY <1>16, <2>1, <2>5
<1>. QED  BY <1>1, <1>15, <1>16, <1>17, <1>18, <1>20, <1>21 DEF ArchiveInv

(* The central directory, and the footer.                                  *)
LEMMA WriteCentralInv ==
  ArchiveInv /\ RecordingsInv /\ Files!WriteCentral => ArchiveInv'
<1>. SUFFICES ASSUME ArchiveInv, RecordingsInv, Files!WriteCentral  PROVE ArchiveInv'
  OBVIOUS
<1>. DEFINE x == zip.central[zip.headers + 1]
            p == Files!Central(x)
<1>1. /\ zip.phase = "central" /\ UNCHANGED <<files, removed, versions>>
      /\ zip.headers < Len(zip.central) /\ out' = Append(out, p)
      /\ zip' = [zip EXCEPT !.headers = @ + 1, !.offset = @ + p.bytes]
  BY DEF Files!WriteCentral, Files!store
<1>2. ArchiveTypes /\ Laid /\ Progress /\ FreshNames /\ ~Unlisted
  BY <1>1 DEF ArchiveInv, Unlisted
<1>3. /\ zip.offset \in Nat /\ zip.start \in Nat /\ zip.headers \in Nat
      /\ zip.central \in Seq(Entries) /\ out \in Seq(ZipPieces)
  BY <1>2 DEF ArchiveTypes
<1>4. /\ zip.offset = Begins(out, Len(out) + 1) /\ Closed(out, zip.central)
      /\ zip.start <= zip.offset /\ Directory(out, zip.central, zip.headers, zip.start)
  BY <1>1, <1>2 DEF Laid
<1>5. x \in Entries
  <2>1. Len(zip.central) \in Nat /\ DOMAIN zip.central = 1 .. Len(zip.central)
    BY <1>3, LenProperties
  <2>2. zip.headers + 1 \in DOMAIN zip.central
    BY <1>1, <1>3, <2>1
  <2>. QED  BY <1>3, <2>2, ElementOfSeq, LenProperties
<1>6. /\ p \in ZipPieces /\ p.kind = "central" /\ p.bytes = 54 /\ p.name = x.name
      /\ p.noted = <<x.offset, x.size>>
  <2>. HIDE DEF x
  <2>. QED  BY <1>5, CentralType
<1>. HIDE DEF p
<1>7. Headed(out') = Headed(out)
  BY <1>1, <1>3, <1>6, HeadedNext
<1>8. out' \in Seq(ZipPieces) /\ Begins(out', Len(out') + 1) = zip.offset + 54
  BY <1>1, <1>3, <1>4, <1>6, NextBegins
<1>9. Closed(out', zip.central)
  BY <1>1, <1>3, <1>4, <1>6, ClosedKept
<1>10. Directory(out', zip.central, zip.headers + 1, zip.start)
  BY <1>1, <1>3, <1>4, <1>6, DirectoryGrows
<1>11. zip' = [zip EXCEPT !.headers = zip.headers + 1, !.offset = zip.offset + 54]
  BY <1>1, <1>2, <1>6 DEF ArchiveTypes
<1>12. ArchiveTypes'
  <2>1. zip.offset + 54 \in Nat /\ zip.headers + 1 \in Nat
    BY <1>3
  <2>. QED  BY <1>2, <1>8, <1>11, <2>1 DEF ArchiveTypes
<1>13. /\ zip'.phase = "central" /\ zip'.left = zip.left /\ zip'.entries = zip.entries
       /\ zip'.audio = zip.audio /\ zip'.central = zip.central /\ zip'.start = zip.start
       /\ zip'.offset = zip.offset + 54 /\ zip'.headers = zip.headers + 1
  BY <1>1, <1>2, <1>11 DEF ArchiveTypes
<1>14. Laid'
  <2>1. zip.start <= zip.offset + 54 /\ zip.headers + 1 <= Len(zip.central)
    BY <1>1, <1>3, <1>4, LenProperties
  <2>. QED  BY <1>8, <1>9, <1>10, <1>13, <2>1 DEF Laid
<1>15. FreshNames'
  BY <1>1, <1>2, <1>7, <1>13 DEF FreshNames
<1>16. ~Unlisted'
  BY <1>13 DEF Unlisted
<1>17. Progress'
  BY <1>1, <1>2, <1>13, <1>16 DEF Progress
<1>18. ASSUME NEW r \in RecordingsListed \ removed  PROVE r \in zip'.left \/ Gathered(r)'
  <2>1. r \in zip.left \/ Gathered(r)
    BY <1>1, <1>2 DEF ArchiveInv
  <2>2. NamesNoted' = NamesNoted
    BY <1>13 DEF NamesNoted
  <2>3. Gathered(r) => Gathered(r)'
    BY <1>1, <1>13, <2>2, GatheredKept
  <2>. QED  BY <1>13, <2>1, <2>3
<1>. QED  BY <1>1, <1>12, <1>13, <1>14, <1>15, <1>17, <1>18 DEF ArchiveInv

LEMMA WriteFooterInv ==
  ArchiveInv /\ RecordingsInv /\ Files!WriteFooter => ArchiveInv'
<1>. SUFFICES ASSUME ArchiveInv, RecordingsInv, Files!WriteFooter  PROVE ArchiveInv'
  OBVIOUS
<1>. DEFINE p == Files!Footer(zip.headers, zip.offset - zip.start, zip.start)
<1>1. /\ zip.phase = "central" /\ UNCHANGED <<route, Files!store>>
      /\ UNCHANGED <<files, removed, versions>> /\ zip.headers = Len(zip.central)
  BY DEF Files!WriteFooter, Files!store
<1>2. ArchiveTypes /\ Laid /\ Progress /\ FreshNames /\ ~Unlisted
  BY <1>1 DEF ArchiveInv, Unlisted
<1>3. /\ zip.offset \in Nat /\ zip.start \in Nat /\ zip.headers \in Nat
      /\ zip.central \in Seq(Entries) /\ out \in Seq(ZipPieces)
  BY <1>2 DEF ArchiveTypes
<1>4. /\ zip.offset = Begins(out, Len(out) + 1) /\ Closed(out, zip.central)
      /\ zip.start <= zip.offset /\ Directory(out, zip.central, Len(zip.central), zip.start)
  BY <1>1, <1>2 DEF Laid
<1>5. CASE ~(zip.start <= ZipMaximum /\ zip.offset - zip.start <= ZipMaximum)
  <2>1. Files!Destroyed
    BY <1>5 DEF Files!WriteFooter
  <2>2. ~(zip.offset <= ZipMaximum)
    BY <1>3, <1>4, <1>5, PartsAssumption
  <2>. QED  BY <1>1, <2>1, <2>2, DestroyedInv DEF Files!MayAdd
<1>6. CASE zip.start <= ZipMaximum /\ zip.offset - zip.start <= ZipMaximum
  <2>1. out' = Append(out, p) /\ zip' = [zip EXCEPT !.phase = "ended"]
    BY <1>6 DEF Files!WriteFooter
  <2>2. /\ p \in ZipPieces /\ p.kind = "footer"
        /\ p.noted = <<Len(zip.central), zip.offset - zip.start, zip.start>>
    <3>1. PICK b \in Nat : b = zip.offset - zip.start
      BY <1>3, <1>4
    <3>2. p = Files!Footer(zip.headers, b, zip.start)
      BY <3>1
    <3>. HIDE DEF p
    <3>3. p \in ZipPieces /\ p.kind = "footer" /\ p.noted = <<zip.headers, b, zip.start>>
      BY <1>3, <3>1, <3>2, FooterType
    <3>. QED  BY <1>1, <3>1, <3>3
  <2>. HIDE DEF p
  <2>3. Readable(out')
    BY <1>3, <1>4, <2>1, <2>2, FooterReads
  <2>4. Headed(out') = Headed(out)
    BY <1>3, <2>1, <2>2, HeadedNext
  <2>5. out' \in Seq(ZipPieces)
    BY <1>3, <2>1, <2>2, NextBegins
  <2>6. ArchiveTypes'
    BY <1>2, <2>1, <2>5 DEF ArchiveTypes
  <2>7. /\ zip'.phase = "ended" /\ zip'.left = zip.left /\ zip'.entries = zip.entries
        /\ zip'.audio = zip.audio /\ zip'.central = zip.central
    BY <1>2, <2>1 DEF ArchiveTypes
  <2>8. Laid'
    BY <2>7 DEF Laid
  <2>9. FreshNames'
    BY <1>1, <1>2, <2>4, <2>7 DEF FreshNames
  <2>10. ~Unlisted'
    BY <2>7 DEF Unlisted
  <2>11. Progress'
    BY <1>1, <1>2, <2>7, <2>10 DEF Progress
  <2>12. ASSUME NEW r \in RecordingsListed \ removed  PROVE r \in zip'.left \/ Gathered(r)'
    <3>1. r \in zip.left \/ Gathered(r)
      BY <1>1, <1>2 DEF ArchiveInv
    <3>2. NamesNoted' = NamesNoted
      BY <2>7 DEF NamesNoted
    <3>3. Gathered(r) => Gathered(r)'
      BY <1>1, <2>7, <3>2, GatheredKept
    <3>. QED  BY <2>7, <3>1, <3>3
  <2>. QED  BY <1>1, <2>3, <2>6, <2>7, <2>8, <2>9, <2>11, <2>12 DEF ArchiveInv
<1>. QED  BY <1>5, <1>6

---------------------------------------------------------------------------
(* Both sides of the Library's files.                                      *)

FilesInv == MediaInv /\ ArchiveInv

LEMMA FilesInitInv == Files!Init => FilesInv
  BY MediaInitInv, ArchiveInitInv DEF FilesInv

LEMMA ExportInv == FilesInv /\ Files!Export => FilesInv'
<1>. SUFFICES ASSUME FilesInv, Files!Export  PROVE FilesInv'
  OBVIOUS
<1>1. ArchiveInv'
  BY ExportStartsInv, WriteEntryInv, ListRecordingsInv, OpenRecordingInv, FindMediaInv,
     NextRecordingInv, WriteAudioHeaderInv, OpenAudioInv, ReadAudioInv, AudioEndsInv,
     EntriesEndInv, WriteCentralInv, WriteFooterInv
     DEF Files!Export, FilesInv, MediaInv
<1>2. UNCHANGED <<rows, files, size, versions, removed, get, cues>>
  BY DEF Files!Export, Files!ExportStarts, Files!WriteEntry, Files!ListRecordings,
         Files!OpenRecording, Files!FindMedia, Files!NextRecording, Files!WriteAudioHeader,
         Files!OpenAudio, Files!ReadAudio, Files!AudioEnds, Files!EntriesEnd,
         Files!WriteCentral, Files!WriteFooter, Files!store
<1>3. RecordingsInv' /\ removed \subseteq removed'
  BY <1>2 DEF FilesInv, MediaInv, RecordingsInv
<1>4. MediaInv'
  BY <1>2, <1>3, MediaKept DEF FilesInv
<1>. QED  BY <1>1, <1>4 DEF FilesInv

LEMMA FilesStep ==
  ASSUME FilesInv, Files!Next \/ UNCHANGED files_
  PROVE  FilesInv'
<1>1. ASSUME UNCHANGED files_  PROVE FilesInv'
  <2>1. UNCHANGED <<rows, files, size, versions, removed, get, cues, zip, out>>
    BY <1>1 DEF files_
  <2>2. RecordingsInv' /\ removed \subseteq removed' /\ files' \subseteq files
        /\ files \subseteq files' \cup removed'
    BY <2>1 DEF FilesInv, MediaInv, RecordingsInv
  <2>3. MediaInv'
    BY <2>1, <2>2, MediaKept DEF FilesInv
  <2>4. ArchiveInv'
    BY <2>1, <2>2, ArchiveKept DEF FilesInv
  <2>. QED  BY <2>3, <2>4 DEF FilesInv
<1>2. ASSUME NEW r \in RecordingsListed, Files!RemoveRow(r) \/ Files!RemoveFile(r)
      PROVE  FilesInv'
  <2>1. MediaInv'
    BY <1>2, RemovalInv DEF FilesInv
  <2>2. /\ UNCHANGED <<versions, zip, out>> /\ files' \subseteq files
        /\ removed \subseteq removed' /\ files \subseteq files' \cup removed'
    <3>1. CASE Files!RemoveRow(r)
      BY <3>1 DEF Files!RemoveRow
    <3>2. CASE Files!RemoveFile(r)
      BY <3>2 DEF Files!RemoveFile, FilesInv, MediaInv, RecordingsInv
    <3>. QED  BY <1>2, <3>1, <3>2
  <2>3. ArchiveInv'
    BY <2>2, ArchiveKept DEF FilesInv
  <2>. QED  BY <2>1, <2>3 DEF FilesInv
<1>3. ASSUME Files!MediaRequested \/ Files!MediaStreams \/ Files!CaptionsAsked
      PROVE  FilesInv'
  <2>1. MediaInv'
    BY <1>3, MediaRequestedInv, MediaStreamsInv, CaptionsAskedInv DEF FilesInv
  <2>2. UNCHANGED <<versions, zip, out, files, removed>>
    BY <1>3 DEF Files!MediaRequested, Files!MediaStreams, Files!CaptionsAsked, Files!store
  <2>3. ArchiveInv'
    BY <2>2, ArchiveKept DEF FilesInv
  <2>. QED  BY <2>1, <2>3 DEF FilesInv
<1>. QED  BY <1>1, <1>2, <1>3, ExportInv DEF Files!Next

(* A finished archive lists everything that was not removed.               *)
LEMMA ArchiveIsWhole == ArchiveInv => Files!ArchiveWhole
<1>. SUFFICES ASSUME ArchiveInv  PROVE Files!ArchiveWhole
  OBVIOUS
<1>1. Files!ArchiveReadable
  <2>1. CASE zip.phase = "ended"
    BY <2>1, ReadableIs DEF ArchiveInv, ArchiveTypes
  <2>2. CASE zip.phase # "ended"
    BY <2>2 DEF Files!ArchiveReadable
  <2>. QED  BY <2>1, <2>2
<1>2. ASSUME zip.phase = "ended", NEW r \in RecordingsListed \ removed
      PROVE  /\ Files!TextNames(r) \subseteq NamesNoted
             /\ r \in files => Files!AudioName(r) \in NamesNoted
  <2>1. zip.left = {} /\ zip.entries = <<>> /\ zip.audio = Files!None
    BY <1>2 DEF ArchiveInv, Progress
  <2>2. Gathered(r)
    BY <1>2, <2>1 DEF ArchiveInv, Unlisted
  <2>3. DOMAIN zip.entries = {} /\ r # Files!None
    BY <2>1, PartsAssumption DEF Files!None
  <2>. QED  BY <2>1, <2>2, <2>3 DEF Gathered
<1>3. Files!ArchiveComplete
  BY <1>2 DEF ArchiveInv, Files!ArchiveComplete, NamesNoted
<1>. QED  BY <1>1, <1>3 DEF Files!ArchiveWhole

---------------------------------------------------------------------------
(* The parts.  A behaviour is one of them, so that the invariants of the   *)
(* others say nothing in it; that of the delivery holds in all.            *)

PartsInv ==
  /\ DeliveryInv /\ FollowInv /\ NoteTypes
  /\ topic = "machine" => MachineInv
  /\ topic = "client" => ClientInv
  /\ topic = "commands" => CommandsInv
  /\ topic = "paste" => PasteInv
  /\ topic = "rate" => RateInv
  /\ topic = "files" => FilesInv

LEMMA PartsInitInv == PartInit => PartsInv
<1> SUFFICES ASSUME PartInit  PROVE PartsInv
  OBVIOUS
<1>1. DeliveryInv /\ FollowInv /\ NoteTypes
  <2>1. NoteTypes
    BY DEF PartInit, Init, NoteTypes, NoTarget
  <2>. QED  BY <2>1, InitDeliveryInv, InitFollowInv DEF PartInit
<1>2. CASE topic = "machine"
  BY <1>1, <1>2, MachineInitInv DEF PartInit, PartsInv
<1>3. CASE topic = "client"
  BY <1>1, <1>3, ClientInitInv DEF PartInit, PartsInv
<1>4. CASE topic = "commands"
  BY <1>1, <1>4, CommandsInitInv DEF PartInit, PartsInv
<1>5. CASE topic = "paste"
  BY <1>1, <1>5, PasteInitInv DEF PartInit, PartsInv
<1>6. CASE topic = "rate"
  BY <1>1, <1>6, RateInitInv DEF PartInit, PartsInv
<1>7. CASE topic = "files"
  BY <1>1, <1>7, FilesInitInv DEF PartInit, PartsInv
<1>. QED  BY <1>1, <1>2, <1>3, <1>4, <1>5, <1>6, <1>7 DEF PartsInv

(* A step of one part, or none.                                            *)
LEMMA PartsStep ==
  ASSUME PartsInv, UNCHANGED topic,
         Next \/ UNCHANGED vars,
         topic = "machine" => Machine!Next \/ UNCHANGED machine_,
         topic = "client" => Client!Next \/ UNCHANGED client_,
         topic = "commands" => Commands!Next \/ UNCHANGED commands_,
         topic = "paste" => Paste!Next \/ UNCHANGED paste_,
         topic = "rate" => Rate!Next \/ UNCHANGED rate_,
         topic = "files" => Files!Next \/ UNCHANGED files_
  PROVE  PartsInv'
<1>1. DeliveryInv' /\ FollowInv' /\ NoteTypes'
  <2>1. CASE Next
    <3>1. DeliveryInv /\ FollowInv /\ NoteTypes /\ PageTypes
      BY DEF PartsInv, FollowInv
    <3>. QED  BY <2>1, <3>1, DeliveryNextInv, FollowNextInv, NextNotes
  <2>2. CASE UNCHANGED vars
    <3>1. DeliveryInv /\ "target" \in DOMAIN bridge /\ FollowInv /\ NoteTypes
      BY DEF PartsInv, DeliveryInv, Types
    <3>2. /\ UNCHANGED <<doc, content, caret, shape, focus, selection, bridge, since, away,
                        recording, typed, phase, session, marked>>
          /\ UNCHANGED worker
      BY <2>2 DEF vars, page, worker, history, bounds
    <3>3. NoteTypes'
      BY <3>1, <3>2 DEF NoteTypes
    <3>. QED  BY <3>1, <3>2, <3>3, PageKeeps, WorkerFollows
  <2>. QED  BY <2>1, <2>2
<1>2. ASSUME topic = "machine"  PROVE MachineInv'
  <2>1. MachineInv
    BY <1>2 DEF PartsInv
  <2>. QED  BY <1>2, <2>1, MachineNextInv, MachineKept DEF machine_
<1>3. ASSUME topic = "client"  PROVE ClientInv'
  <2>1. ClientInv
    BY <1>3 DEF PartsInv
  <2>. QED  BY <1>3, <2>1, ClientNextInv, ClientKept DEF client_
<1>4. ASSUME topic = "commands"  PROVE CommandsInv'
  <2>1. CommandsInv
    BY <1>4 DEF PartsInv
  <2>2. CASE UNCHANGED commands_
    BY <2>1, <2>2, PanelKept, KeysKept DEF commands_
  <2>. QED  BY <1>4, <2>1, <2>2, CommandsNextInv
<1>5. ASSUME topic = "paste"  PROVE PasteInv'
  <2>1. PasteInv
    BY <1>5 DEF PartsInv
  <2>. QED  BY <1>5, <2>1, PasteNextInv, PasteKept
<1>6. ASSUME topic = "rate"  PROVE RateInv'
  <2>1. RateInv
    BY <1>6 DEF PartsInv
  <2>. QED  BY <1>6, <2>1, RateKeeps
<1>7. ASSUME topic = "files"  PROVE FilesInv'
  <2>1. FilesInv
    BY <1>7 DEF PartsInv
  <2>. QED  BY <1>7, <2>1, FilesStep
<1>. QED  BY <1>1, <1>2, <1>3, <1>4, <1>5, <1>6, <1>7 DEF PartsInv

(* What holds of the parts at every moment.                                *)
THEOREM PartsInvariant == PartSpec => []PartsInv
<1>1. ASSUME PartsInv, PartNext  PROVE PartsInv'
  BY <1>1, PartsStep DEF PartNext
<1>2. ASSUME PartsInv,
             UNCHANGED <<topic, vars, files_, settings_,
                          rate_, commands_, paste_, machine_, client_>>
      PROVE  PartsInv'
  BY <1>2, PartsStep
<1>. QED  BY <1>1, <1>2, PartsInitInv, PTL DEF PartSpec

(* A transcript lands at most once, only in the field and the document that*)
(* had the focus at Start, whether Quill's own API or the page's note puts *)
(* it there, and is then reported as inserted; what is so reported and did *)
(* not land was refused by the page's own code.                            *)
THEOREM LandsWhereItStarted == PartSpec => []LandsOnceWhereItStarted
<1>1. PartsInv => LandsOnceWhereItStarted
  BY DEF PartsInv, DeliveryInv
<1>. QED  BY <1>1, PartsInvariant, PTL

(* What the user typed in the field while the recording ran stays before   *)
(* its result as long as the caret was not moved, in any field but an email*)
(* input, whose caret the page cannot read, and by whichever of the two    *)
(* ways the text goes in; a delivery takes away nothing not selected.      *)
THEOREM LandsBehindTyping == PartSpec => ResultFollowsTyping
<1>1. PartsInv /\ [PartNext]_<<topic, vars, files_, settings_, rate_, commands_, paste_,
                             machine_, client_>>
        => [\A l \in landed' \ landed :
              LET f == l[3]
                  at == CHOOSE i \in 1 .. Len(content'[f]) : content'[f][i] = Text(recording)
              IN /\ ~away /\ f # "email" =>
                      \A i \in 1 .. Len(content'[f]) :
                        content'[f][i] \in since .. MaxTyped => i < at
                 /\ caret[f][1] = caret[f][2] /\ ~away
                      => Len(content'[f]) = Len(content[f]) + 1]_vars
  <2> SUFFICES ASSUME PartsInv,
                      [PartNext]_<<topic, vars, files_, settings_, rate_, commands_, paste_,
                                   machine_, client_>>,
                      vars' # vars, NEW l \in landed' \ landed
               PROVE  Follows(l)
    BY DEF Follows
  <2>1. Next
    BY DEF PartNext
  <2>. QED  BY <2>1, StepFollows DEF PartsInv
<1>. QED  BY <1>1, PartsInvariant, PTL DEF PartSpec, ResultFollowsTyping

(* The session machine of the core shows and delivers the newest session,  *)
(* however many stops are under way; its client of the proxy presents no   *)
(* refresh token again that was answered, sends a call again only with     *)
(* newer tokens, and a logout that no refresh overtook lasts.              *)
THEOREM CoreInStep == PartSpec => []CoreKeepsInStep
<1>1. PartsInv => CoreKeepsInStep
  BY KeptTogether DEF PartsInv, MachineInv, CoreKeepsInStep
<1>. QED  BY <1>1, PartsInvariant, PTL

(* The extension records in the languages that were chosen, never from a   *)
(* language into itself, and counts the presses of its dictation key as    *)
(* they were made, for any length of the window between two presses.       *)
THEOREM RecordsAsChosen == PartSpec => []CommandsAsChosen
<1>1. PartsInv => CommandsAsChosen
  BY AsChosen DEF PartsInv, CommandsAsChosen
<1>. QED  BY <1>1, PartsInvariant, PTL

(* Whatever is pasted is cut into parts that fit and are the text; what is *)
(* shown is the whole of the text asked for last, in its order and in the  *)
(* languages shown when it was asked, and neither the pair nor that of a   *)
(* text under way is one language twice, whichever writer of the pair came *)
(* last: for any languages, any limit and any number of requests.          *)
THEOREM TranslatesAsPasted == PartSpec => []PasteTranslated
<1>1. PartsInv => PasteTranslated
  BY ToldWhole DEF PartsInv, PasteTranslated
<1>. QED  BY <1>1, PartsInvariant, PTL

(* A client whose window the server never gave up gets at most twice its   *)
(* limit of requests through in any stretch as long as a window, for any   *)
(* addresses, limit, length and number of windows, and for all time.       *)
THEOREM RequestsLimited == PartSpec => []RateKept
<1>1. PartsInv => RateKept
  BY RateSpaced DEF PartsInv, RateKept
<1>. QED  BY <1>1, PartsInvariant, PTL

(* Whatever recordings are removed while it is written, a finished archive *)
(* is read from its footer: the central directory begins where it says, and*)
(* finds every entry at its header with the size of what follows; it holds *)
(* every recording that was not removed; and it breaks off only for a      *)
(* removal or at the limits of the format.  For any recordings, sizes and  *)
(* limits.                                                                 *)
THEOREM ArchiveIsOne == PartSpec => []ArchiveWhole
<1>1. PartsInv => ArchiveWhole
  BY ArchiveIsWhole DEF PartsInv, FilesInv, ArchiveWhole
<1>. QED  BY <1>1, PartsInvariant, PTL

(* The answer for a range with a first byte is the bytes asked for, within *)
(* the file, and one for the last N bytes is what SuffixAnswered tells,    *)
(* seldom them; captions last, and their times read back as those of the   *)
(* segment, at any moment.                                                 *)
THEOREM MediaAsAsked == PartSpec => []MediaTrue
<1>1. PartsInv => MediaTrue
  BY DEF PartsInv, FilesInv, MediaInv, MediaTrue
<1>. QED  BY <1>1, PartsInvariant, PTL
=============================================================================
