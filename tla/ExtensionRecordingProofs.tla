----------------------- MODULE ExtensionRecordingProofs -----------------------
(***************************************************************************)
(* Proofs about ExtensionRecording for any number of recordings, logouts   *)
(* and restarts: what the microphone and the texts do behind the worker's  *)
(* back.  They assume that Logout does not come while a start opens the    *)
(* offscreen document; the start then goes on behind an idle worker, and   *)
(* none of the three properties proved here holds any more.                *)
(***************************************************************************)
EXTENDS ExtensionRecording, SequenceTheorems, FiniteSetTheorems, TLAPS

---------------------------------------------------------------------------
(* The inductive invariant.  That the worker shows itself at work while    *)
(* the document exists is not inductive alone: a page may answer so late   *)
(* that another recording is on its way, and would end it, were persisted  *)
(* not empty from the moment a start has voided the last results; a start  *)
(* that waited for the microphone must be the one the state speaks of,     *)
(* unless it was discarded meanwhile.                                      *)

(* The stages of a recording the offscreen document holds, and those in    *)
(* which its text has not been reported.                                   *)
Busy == Capturing \cup Working \cup {"discarding"}
Unreported == {"new", "asked"} \cup Capturing \cup (Working \ {"reported"})

(* A start that has voided the results of the last recording.              *)
Forwarded == {"page", "microphone", "document", "stream"}

Worker == [state : States, inFlight : BOOLEAN, generation : Nat,
           completed : SUBSET Sources, persisted : SUBSET Sources]

Panel == [open : BOOLEAN, loaded : BOOLEAN, view : States,
          final : Seq(Recordings)]

Types ==
  /\ bg \in Worker
  /\ start \in [at : {"none", "session"} \cup Forwarded,
                rec : Recordings \cup {None}, generation : Nat]
  /\ field \in Recordings \cup {None}
  /\ doc \in BOOLEAN
  /\ stage \in [Recordings -> Stages]
  /\ panel \in Panel
  /\ draft \in Seq(Recordings)
  /\ deliveries \subseteq [rec : Recordings, into : Recordings]
  /\ typed \in [Recordings -> Seq(Recordings)]
  /\ discarding \in {"no", "capture", "session"}

(* The start under way.                                                    *)
Starts ==
  /\ bg.inFlight <=> start.at # "none"
  /\ start.at # "none" => start.rec \in Recordings /\ stage[start.rec] = "asked"
  /\ start.generation <= bg.generation
  /\ start.at \in Forwarded => bg.persisted = {}
  /\ start.at = "microphone" => bg.state = "starting" \/ Discarded
  /\ start.at \in {"document", "stream"} => bg.state = "starting" /\ ~Discarded

(* The offscreen document, and what the worker and the panel show.         *)
Document ==
  /\ doc => bg.state \in {"starting", "recording", "processing"}
  /\ doc /\ start.at # "none" => start.at = "stream"
  /\ bg.state = "recording" => doc
  /\ panel.open /\ panel.view = "recording" => bg.state = "recording"

Discarding ==
  discarding = "capture" =>
    /\ doc /\ start.at = "none" /\ bg.persisted = {}
    /\ \A r \in Recordings : stage[r] \notin Capturing \cup Working

Recording(r) ==
  /\ stage[r] = "asked" => start.at # "none" /\ start.rec = r
  /\ stage[r] \in Busy => doc /\ start.at = "none"

OneBusy == \A r, q \in Recordings : stage[r] \in Busy /\ stage[q] \in Busy => r = q

CaptureInv ==
  /\ Types /\ Starts /\ Document /\ Discarding /\ OneBusy
  /\ \A r \in Recordings : Recording(r)

---------------------------------------------------------------------------
(* What the operators of the model do to the worker and the panel.         *)

LEMMA BecomesIs ==
  ASSUME NEW b \in Worker, NEW s \in States
  PROVE  /\ Becomes(b, s) \in Worker
         /\ Becomes(b, s).state = s
         /\ Becomes(b, s).inFlight = b.inFlight
         /\ Becomes(b, s).generation = b.generation
         /\ Becomes(b, s).persisted = b.persisted
BY DEF Worker, Becomes

LEMMA NoResultsIs ==
  ASSUME NEW b \in Worker
  PROVE  /\ NoResults(b) \in Worker
         /\ NoResults(b).state = b.state
         /\ NoResults(b).inFlight = b.inFlight
         /\ NoResults(b).generation = b.generation
         /\ NoResults(b).persisted = {}
BY DEF Worker, NoResults

LEMMA ReleasedIs ==
  ASSUME NEW b \in Worker
  PROVE  /\ Released(b) \in Worker
         /\ Released(b).state = b.state
         /\ Released(b).inFlight = FALSE
         /\ Released(b).generation = b.generation
         /\ Released(b).persisted = b.persisted
BY DEF Worker, Released

LEMMA DiscardIs ==
  ASSUME NEW b \in Worker
  PROVE  /\ Discard(b) \in Worker
         /\ Discard(b).state = b.state
         /\ Discard(b).inFlight = b.inFlight
         /\ Discard(b).generation = b.generation + 1
         /\ Discard(b).persisted = b.persisted
BY DEF Worker, Discard

(* A result completes a recording only if its files are already there.     *)
LEMMA CompletedIs ==
  ASSUME NEW b \in Worker, NEW src \in Sources
  PROVE  /\ Completed(b, src) \in Worker
         /\ Completed(b, src).state = b.state
         /\ Completed(b, src).inFlight = b.inFlight
         /\ Completed(b, src).generation = b.generation
         /\ Completed(b, src).persisted \subseteq b.persisted
         /\ Completed(b, src).completed = {} => b.persisted # {}
BY DEF Worker, Completed

LEMMA PersistedIs ==
  ASSUME NEW b \in Worker, NEW src \in Sources
  PROVE  /\ Persisted(b, src) \in Worker
         /\ Persisted(b, src).state = b.state
         /\ Persisted(b, src).inFlight = b.inFlight
         /\ Persisted(b, src).generation = b.generation
BY DEF Worker, Persisted

LEMMA MirroredIs ==
  ASSUME NEW p \in Panel, NEW s \in States
  PROVE  /\ Mirrored(p, s) \in Panel
         /\ Mirrored(p, s).open = p.open
         /\ Mirrored(p, s).loaded = p.loaded
         /\ Mirrored(p, s).final = p.final
         /\ Mirrored(p, s).open => Mirrored(p, s).view = s
BY DEF Panel, Mirrored

LEMMA AppendedIs ==
  ASSUME NEW p \in Panel, NEW r \in Recordings
  PROVE  /\ Appended(p, r) \in Panel
         /\ Appended(p, r).open = p.open
         /\ Appended(p, r).loaded = p.loaded
         /\ Appended(p, r).view = p.view
         /\ Appended(p, r).final = IF p.open THEN Append(p.final, r) ELSE p.final
<1>1. Append(p.final, r) \in Seq(Recordings)
  BY DEF Panel
<1>. QED  BY <1>1 DEF Panel, Appended

LEMMA ForgottenIs ==
  ASSUME NEW p \in Panel
  PROVE  /\ [p EXCEPT !.final = <<>>] \in Panel
         /\ [p EXCEPT !.final = <<>>].open = p.open
         /\ [p EXCEPT !.final = <<>>].loaded = p.loaded
         /\ [p EXCEPT !.final = <<>>].view = p.view
         /\ [p EXCEPT !.final = <<>>].final = <<>>
<1>1. <<>> \in Seq(Recordings)
  OBVIOUS
<1>. QED  BY <1>1 DEF Panel

LEMMA SourceIs == \A r : Source(r) \in Sources
BY DEF Source, Sources

LEMMA StageNames ==
  /\ Busy \subseteq Stages /\ "new" \notin Busy /\ "asked" \notin Busy
  /\ "failed" \notin Busy /\ "done" \notin Busy /\ "killed" \notin Busy
  /\ "failed" \notin Unreported /\ "done" \notin Unreported
  /\ "killed" \notin Unreported /\ "discarding" \notin Unreported
  /\ Capturing \cup Working \subseteq Busy /\ "asked" \in Unreported
  /\ "discarding" \notin Capturing \cup Working /\ "discarding" \in Busy
  /\ {"failed", "done", "killed", "asked", "new"} \subseteq Stages
BY DEF Busy, Unreported, Stages, Capturing, Working

(* Nothing is under way in a document that closed.                         *)
LEMMA KilledIs ==
  ASSUME NEW st \in [Recordings -> Stages]
  PROVE  /\ Killed(st) \in [Recordings -> Stages]
         /\ \A r \in Recordings :
              Killed(st)[r] = IF st[r] \in Busy THEN "killed" ELSE st[r]
BY DEF Killed, Busy, Stages

---------------------------------------------------------------------------
(* How stages go on.  Only CaptureRequested makes a recording busy, and    *)
(* only StartRequested asks for one.                                       *)

Progress ==
  /\ stage' \in [Recordings -> Stages]
  /\ \A r \in Recordings :
       /\ stage'[r] \in Busy => stage[r] \in Busy
       /\ stage'[r] \in Capturing \cup Working => stage[r] \in Capturing \cup Working
       /\ stage'[r] = "asked" => stage[r] = "asked"
       /\ stage'[r] \in Unreported => stage[r] \in Unreported

AskedKept == \A r \in Recordings : stage[r] = "asked" => stage'[r] = "asked"

LEMMA SameStage ==
  ASSUME CaptureInv, stage' = stage  PROVE Progress /\ AskedKept
BY DEF CaptureInv, Types, Progress, AskedKept

(* One recording goes on.                                                  *)
LEMMA GoesOn ==
  ASSUME CaptureInv, NEW r \in Recordings, NEW s \in Stages,
         stage' = [stage EXCEPT ![r] = s],
         s \in Busy => stage[r] \in Busy,
         s \in Capturing \cup Working => stage[r] \in Capturing \cup Working,
         s = "asked" => stage[r] = "asked",
         s \in Unreported => stage[r] \in Unreported
  PROVE  Progress /\ (stage[r] # "asked" => AskedKept)
BY DEF CaptureInv, Types, Progress, AskedKept

(* The document closes.                                                    *)
Moved(st) ==
  \A q \in Recordings : \/ st[q] = stage[q]
                        \/ st[q] \in {"failed", "done"}
                        \/ st[q] = "reported" /\ stage[q] = "reporting"

LEMMA ClosedProgress ==
  ASSUME CaptureInv, NEW st \in [Recordings -> Stages], Moved(st), CloseOffscreen(st)
  PROVE  /\ Progress /\ doc' = FALSE
         /\ \A q \in Recordings : stage'[q] \notin Busy
         /\ \A q \in Recordings : st[q] = "asked" => stage'[q] = "asked"
<1>1. \A q \in Recordings : stage'[q] = IF st[q] \in Busy THEN "killed" ELSE st[q]
  BY KilledIs DEF CloseOffscreen
<1>2. stage' \in [Recordings -> Stages]
  BY KilledIs DEF CloseOffscreen
<1>3. \A q \in Recordings : (stage'[q] = stage[q] /\ stage'[q] \notin Busy)
                            \/ stage'[q] \in {"failed", "done", "killed"}
  <2>1. "reported" \in Busy
    BY DEF Busy, Working
  <2>. QED  BY <1>1, <2>1 DEF Moved
<1>4. \A q \in Recordings : stage'[q] \notin Busy
  BY <1>3, StageNames
<1>5. Progress
  <2>1. {"failed", "done", "killed"} \cap (Busy \cup Unreported \cup {"asked"}) = {}
    BY StageNames
  <2>2. Capturing \cup Working \subseteq Busy
    BY StageNames
  <2>. QED  BY <1>2, <1>3, <2>1, <2>2 DEF Progress
<1>6. \A q \in Recordings : st[q] = "asked" => stage'[q] = "asked"
  BY <1>1, StageNames
<1>. QED  BY <1>4, <1>5, <1>6 DEF CloseOffscreen

LEMMA MovedProgress ==
  ASSUME CaptureInv, NEW st \in [Recordings -> Stages], Moved(st), stage' = st
  PROVE  Progress
<1>1. {"failed", "done"} \cap (Busy \cup Unreported \cup {"asked"}) = {}
  BY StageNames
<1>2. {"reported", "reporting"} \subseteq Busy \cap Working
  BY DEF Busy, Working
<1>3. "reported" \notin Unreported
  BY DEF Unreported, Capturing
<1>4. \A q \in Recordings : st[q] = stage[q] \/ st[q] \in {"failed", "done"}
                            \/ (st[q] = "reported" /\ stage[q] = "reporting")
  BY DEF Moved
<1>5. Capturing \cup Working \subseteq Busy
  BY StageNames
<1>. QED  BY <1>1, <1>2, <1>3, <1>4, <1>5 DEF Progress

LEMMA OneBusyKept ==
  ASSUME CaptureInv, Progress  PROVE OneBusy'
BY DEF CaptureInv, OneBusy, Progress

(* A step that asks for nothing leaves the invariant of each recording     *)
(* true if the start it belongs to goes on, and the document is there.     *)
LEMMA StepPreserves ==
  ASSUME CaptureInv, Progress, Types', Starts', Document', Discarding',
         \A r \in Recordings : stage'[r] \in Busy => doc' /\ start'.at = "none",
         \A r \in Recordings : stage'[r] = "asked" => start'.at # "none" /\ start'.rec = r
  PROVE  CaptureInv'
BY OneBusyKept DEF CaptureInv, Recording

LEMMA Facts ==
  ASSUME CaptureInv
  PROVE  /\ bg \in Worker /\ bg.state \in States /\ bg.generation \in Nat /\ bg.inFlight \in BOOLEAN
         /\ panel \in Panel /\ panel.final \in Seq(Recordings) /\ draft \in Seq(Recordings)
         /\ start.generation \in Nat /\ start.rec \in Recordings \cup {None}
         /\ start \in [at : {"none", "session"} \cup Forwarded,
                       rec : Recordings \cup {None}, generation : Nat]
         /\ stage \in [Recordings -> Stages]
         /\ typed \in [Recordings -> Seq(Recordings)]
         /\ deliveries \subseteq [rec : Recordings, into : Recordings]
         /\ field \in Recordings \cup {None} /\ doc \in BOOLEAN
         /\ discarding \in {"no", "capture", "session"}
BY DEF CaptureInv, Types, Worker, Panel

---------------------------------------------------------------------------
(* A step of which the worker and the panel see nothing.                   *)
LEMMA QuietPreserves ==
  ASSUME CaptureInv, Progress, AskedKept, bgUnchanged,
         UNCHANGED <<start, doc>>, discarding' \in {discarding, "no"}
  PROVE  CaptureInv'
<1>1. Types'
  BY DEF CaptureInv, Types, Progress, bgUnchanged, pages
<1>2. Starts'
  BY DEF CaptureInv, Starts, Discarded, bgUnchanged, AskedKept
<1>3. Document'
  BY DEF CaptureInv, Document, bgUnchanged
<1>4. Discarding'
  BY DEF CaptureInv, Discarding, bgUnchanged, Progress
<1>5. \A r \in Recordings : stage'[r] \in Busy => doc' /\ start'.at = "none"
  BY DEF CaptureInv, Recording, Progress
<1>6. \A r \in Recordings : stage'[r] = "asked" => start'.at # "none" /\ start'.rec = r
  BY DEF CaptureInv, Recording, Progress
<1>. QED  BY <1>1, <1>2, <1>3, <1>4, <1>5, <1>6, StepPreserves

(* Without a start under way, what closes the document, or leaves it as it *)
(* is and shows it as running, keeps the invariant.                        *)
LEMMA NoStartPreserves ==
  ASSUME CaptureInv, Progress, start.at = "none", start' = start,
         bg' \in Worker, panel' \in Panel, draft' \in Seq(Recordings),
         field' \in Recordings \cup {None}, doc' \in BOOLEAN,
         deliveries' \subseteq [rec : Recordings, into : Recordings],
         typed' \in [Recordings -> Seq(Recordings)],
         discarding' \in {"no", "capture", "session"},
         bg'.inFlight = bg.inFlight, bg'.generation \in {bg.generation, bg.generation + 1},
         Document', Discarding',
         doc' \/ \A r \in Recordings : stage'[r] \notin Busy
  PROVE  CaptureInv'
<1>1. Types'
  BY DEF CaptureInv, Types, Progress
<1>2. Starts'
  <2>1. start.generation <= bg'.generation
    BY Facts DEF CaptureInv, Starts
  <2>. QED  BY <2>1 DEF CaptureInv, Starts, Forwarded
<1>3. \A r \in Recordings : stage'[r] # "asked"
  BY DEF CaptureInv, Recording, Progress
<1>. QED  BY <1>1, <1>2, <1>3, StepPreserves

LEMMA BusyNoStart ==
  ASSUME CaptureInv, NEW r \in Recordings, stage[r] \in Busy
  PROVE  doc /\ start.at = "none"
BY DEF CaptureInv, Recording

LEMMA ClosedDocument ==
  ASSUME doc' = FALSE, bg'.state # "recording",
         panel'.open => panel'.view = bg'.state
  PROVE  Document'
BY DEF Document

LEMMA NotDiscarding ==
  ASSUME CaptureInv, NEW r \in Recordings, stage[r] \in Capturing \cup Working
  PROVE  discarding # "capture"
BY DEF CaptureInv, Discarding

---------------------------------------------------------------------------
(* The offscreen document.                                                 *)

LEMMA FailsPreserves ==
  ASSUME CaptureInv, NEW r \in Recordings, stage[r] \in Capturing \cup Working,
         NEW s \in {"failed", "done"}, Fails([stage EXCEPT ![r] = s]),
         UNCHANGED <<start, discarding, draft, pages>>
  PROVE  CaptureInv'
<1>. DEFINE st == [stage EXCEPT ![r] = s]
<1>0. stage[r] \in Busy /\ doc /\ start.at = "none"
  BY StageNames, BusyNoStart
<1>1. st \in [Recordings -> Stages] /\ Moved(st)
  BY Facts, StageNames DEF Moved
<1>2. Fails(st)
  OBVIOUS
<1>. HIDE DEF st
<1>3. CloseOffscreen(st)
  BY <1>2 DEF Fails
<1>4. Progress /\ doc' = FALSE /\ \A q \in Recordings : stage'[q] \notin Busy
  BY <1>1, <1>3, ClosedProgress
<1>5. /\ bg' = Becomes(NoResults(bg), "error") /\ panel' = Mirrored(panel, "error")
      /\ field' = None /\ "error" \in States
  BY <1>2 DEF Fails, SaveField, States
<1>6. bg' \in Worker /\ bg'.state = "error" /\ bg'.inFlight = bg.inFlight
      /\ bg'.generation = bg.generation
  BY <1>5, Facts, BecomesIs, NoResultsIs
<1>7. panel' \in Panel /\ (panel'.open => panel'.view = "error")
  BY <1>5, Facts, MirroredIs
<1>8. Document'
  BY <1>4, <1>6, <1>7, ClosedDocument
<1>9. Discarding'
  BY NotDiscarding DEF Discarding
<1>. QED
  BY <1>0, <1>4, <1>5, <1>6, <1>7, <1>8, <1>9, Facts, NoStartPreserves DEF pages

(* Nothing is awaited any more, or the result is only noted.  The document *)
(* never closes behind a start that has its microphone.                    *)
LEMMA ConcludePreserves ==
  ASSUME CaptureInv, NEW b \in Worker, NEW p \in Panel, NEW finished \in BOOLEAN,
         NEW st \in [Recordings -> Stages], Conclude(b, p, finished, st), Moved(st),
         \A q \in Recordings : stage[q] = "asked" => st[q] = "asked",
         b.state = bg.state, b.inFlight = bg.inFlight, b.generation = bg.generation,
         p.open = panel.open, p.view = panel.view,
         finished => start.at \notin Forwarded /\ discarding # "capture",
         start.at \in Forwarded \/ discarding = "capture" => b.persisted = {},
         field' \in Recordings \cup {None}, draft' \in Seq(Recordings),
         deliveries' \subseteq [rec : Recordings, into : Recordings],
         typed' \in [Recordings -> Seq(Recordings)], UNCHANGED <<start, discarding>>
  PROVE  CaptureInv'
<1>1. CASE finished
  <2>1. bg' = Becomes(b, "success") /\ panel' = Mirrored(p, "success")
        /\ CloseOffscreen(st) /\ "success" \in States
    BY <1>1 DEF Conclude, States
  <2>2. /\ Progress /\ doc' = FALSE /\ \A q \in Recordings : stage'[q] \notin Busy
        /\ \A q \in Recordings : stage[q] = "asked" => stage'[q] = "asked"
    BY <2>1, ClosedProgress
  <2>3. bg' \in Worker /\ bg'.state = "success" /\ bg'.inFlight = bg.inFlight
        /\ bg'.generation = bg.generation /\ bg'.persisted = b.persisted
    BY <2>1, BecomesIs
  <2>4. panel' \in Panel /\ (panel'.open => panel'.view = "success")
    BY <2>1, MirroredIs
  <2>5. Document'
    BY <2>2, <2>3, <2>4, ClosedDocument
  <2>6. Discarding'
    BY <1>1 DEF Discarding
  <2>7. Types'
    BY <2>2, <2>3, <2>4 DEF CaptureInv, Types, Progress
  <2>8. Starts'
    BY <1>1, <2>2, <2>3 DEF CaptureInv, Starts, Forwarded
  <2>9. \A q \in Recordings : stage'[q] = "asked" => start'.at # "none" /\ start'.rec = q
    BY <2>2 DEF CaptureInv, Recording, Progress
  <2>. QED  BY <2>2, <2>5, <2>6, <2>7, <2>8, <2>9, StepPreserves
<1>2. CASE ~finished
  <2>1. bg' = b /\ panel' = p /\ stage' = st /\ doc' = doc
    BY <1>2 DEF Conclude
  <2>2. /\ Progress /\ \A q \in Recordings : stage[q] = "asked" => stage'[q] = "asked"
    BY <2>1, MovedProgress
  <2>3. Types'
    BY <2>1, <2>2 DEF CaptureInv, Types, Progress
  <2>4. Starts'
    BY <2>1, <2>2 DEF CaptureInv, Starts, Discarded
  <2>5. Document'
    BY <2>1 DEF CaptureInv, Document
  <2>6. Discarding'
    BY <2>1, <2>2 DEF CaptureInv, Discarding, Progress
  <2>7. \A q \in Recordings : stage'[q] = "asked" => start'.at # "none" /\ start'.rec = q
    BY <2>2 DEF CaptureInv, Recording, Progress
  <2>8. \A q \in Recordings : stage'[q] \in Busy => doc' /\ start'.at = "none"
    BY <2>1, <2>2 DEF CaptureInv, Recording, Progress
  <2>. QED  BY <2>2, <2>3, <2>4, <2>5, <2>6, <2>7, <2>8, StepPreserves
<1>. QED  BY <1>1, <1>2

LEMMA OffscreenPreserves ==
  ASSUME CaptureInv, NEW r \in Recordings, OffscreenSteps(r)
  PROVE  CaptureInv'
<1>. USE DEF browser, account
<1>0. stage \in [Recordings -> Stages]
  BY Facts
<1>1. CASE ScratchStarts(r)
  BY <1>1, SameStage, QuietPreserves DEF ScratchStarts
<1>2. CASE CaptureOpens(r)
  <2>1. Progress /\ AskedKept
    BY <1>0, <1>2 DEF CaptureOpens, Live, Progress, AskedKept, Stages, Busy, Capturing,
       Working, Unreported
  <2>2. stage[r] \in Busy /\ stage[r] \in Capturing \cup Working
    BY <1>2, StageNames DEF CaptureOpens, Capturing
  <2>3. doc /\ start.at = "none" /\ discarding # "capture"
    BY <2>2, BusyNoStart, NotDiscarding
  <2>4. CASE bg.state = "starting"
    <3>1. bg' = Becomes(bg, "recording") /\ panel' = Mirrored(panel, "recording")
          /\ "recording" \in States
      BY <1>2, <2>4 DEF CaptureOpens, SetState, States
    <3>2. bg' \in Worker /\ bg'.state = "recording" /\ bg'.inFlight = bg.inFlight
          /\ bg'.generation = bg.generation
      BY <3>1, Facts, BecomesIs
    <3>3. panel' \in Panel
      BY <3>1, Facts, MirroredIs
    <3>4. UNCHANGED <<start, doc, draft, field, deliveries, typed, discarding>>
      BY <1>2 DEF CaptureOpens, pages
    <3>5. Document'
      BY <2>3, <3>2, <3>4 DEF Document
    <3>6. Discarding'
      BY <2>3, <3>4 DEF Discarding
    <3>. QED
      BY <2>1, <2>3, <3>2, <3>3, <3>4, <3>5, <3>6, Facts, NoStartPreserves
  <2>5. CASE bg.state # "starting"
    <3>1. bgUnchanged /\ UNCHANGED <<start, doc, discarding>>
      BY <1>2, <2>5 DEF CaptureOpens, bgUnchanged
    <3>. QED  BY <2>1, <3>1, QuietPreserves
  <2>. QED  BY <2>4, <2>5
<1>3. CASE CaptureFails(r)
  <2>1. stage[r] \in Capturing \cup Working
    BY <1>3 DEF CaptureFails, Capturing
  <2>. QED  BY <1>3, <2>1, FailsPreserves DEF CaptureFails
<1>4. CASE TabStreamEnds(r)
  <2>1. Progress /\ AskedKept
    BY <1>0, <1>4 DEF TabStreamEnds, Collect, Progress, AskedKept, Stages, Busy, Capturing,
       Working, Unreported
  <2>. QED  BY <1>4, <2>1, QuietPreserves DEF TabStreamEnds
<1>5. CASE Collected(r)
  <2>1. Progress /\ AskedKept
    BY <1>0, <1>5 DEF Collected, Progress, AskedKept, Stages, Busy, Capturing,
       Working, Unreported
  <2>. QED  BY <1>5, <2>1, QuietPreserves DEF Collected
<1>6. CASE CollectFails(r)
  <2>1. stage[r] \in Capturing \cup Working
    BY <1>6 DEF CollectFails, Working
  <2>. QED  BY <1>6, <2>1, FailsPreserves DEF CollectFails
<1>7. CASE Transcribed(r)
  <2>1. Progress /\ AskedKept
    BY <1>0, <1>7 DEF Transcribed, Progress, AskedKept, Stages, Busy, Capturing,
       Working, Unreported
  <2>. QED  BY <1>7, <2>1, QuietPreserves DEF Transcribed
<1>8. CASE Saved(r)
  <2>1. Progress /\ AskedKept
    BY <1>0, <1>8 DEF Saved, Progress, AskedKept, Stages, Busy, Capturing,
       Working, Unreported
  <2>. QED  BY <1>8, <2>1, QuietPreserves DEF Saved
<1>9. CASE PipelineDiscarded(r)
  <2>1. Progress /\ AskedKept
    BY <1>0, <1>9 DEF PipelineDiscarded, Progress, AskedKept, Stages, Busy, Capturing,
       Working, Unreported
  <2>. QED  BY <1>9, <2>1, QuietPreserves DEF PipelineDiscarded
<1>10. CASE ReportTranscript(r)
  <2>. DEFINE st == [stage EXCEPT ![r] = "reported"]
  <2>1. stage[r] = "reporting" /\ stage[r] \in Busy /\ stage[r] \in Capturing \cup Working
    BY <1>10 DEF ReportTranscript, Busy, Working
  <2>2. doc /\ start.at = "none" /\ discarding # "capture"
    BY <2>1, BusyNoStart, NotDiscarding
  <2>3. st \in [Recordings -> Stages] /\ Moved(st)
        /\ \A q \in Recordings : stage[q] = "asked" => st[q] = "asked"
    BY <1>0, <2>1 DEF Moved, Stages, Working
  <2>4. UNCHANGED <<start, discarding, field>>
    BY <1>10 DEF ReportTranscript
  <2>5. CASE FinishDelivery(r, st) /\ UNCHANGED pages
    <3>. DEFINE b == Completed(bg, Source(r))
    <3>1. Conclude(b, Appended(panel, r), b.completed = {}, st)
      BY <2>5 DEF FinishDelivery
    <3>2. b \in Worker /\ b.state = bg.state /\ b.inFlight = bg.inFlight
          /\ b.generation = bg.generation
      BY Facts, SourceIs, CompletedIs
    <3>3. Appended(panel, r) \in Panel /\ Appended(panel, r).open = panel.open
          /\ Appended(panel, r).view = panel.view
          /\ Appended(panel, r).final \in Seq(Recordings)
      BY Facts, AppendedIs DEF Panel
    <3>4. draft' \in Seq(Recordings)
      BY <2>5, Facts, AppendProperties DEF FinishDelivery, Stored
    <3>. HIDE DEF b, st
    <3>. QED
      BY <2>2, <2>3, <2>4, <2>5, <3>1, <3>2, <3>3, <3>4, Facts, ConcludePreserves
      DEF Forwarded, pages
  <2>6. CASE stage' = st /\ UNCHANGED <<bg, panel, draft, doc, typed>> /\ SavedField # None
             /\ deliveries' = deliveries \cup {[rec |-> r, into |-> SavedField]}
    <3>1. deliveries' \subseteq [rec : Recordings, into : Recordings]
      BY <2>6, Facts DEF SavedField
    <3>2. Conclude(bg, panel, FALSE, st)
      BY <2>6 DEF Conclude
    <3>3. panel.final \in Seq(Recordings)
      BY Facts
    <3>. HIDE DEF st
    <3>. QED
      BY <2>2, <2>3, <2>4, <2>6, <3>1, <3>2, Facts, ConcludePreserves DEF Forwarded
  <2>. QED  BY <1>10, <2>5, <2>6 DEF ReportTranscript
<1>11. CASE ReportEnd(r)
  <2>. DEFINE st == [stage EXCEPT ![r] = "done"]
              b == Persisted(bg, Source(r))
  <2>1. stage[r] \in Busy /\ stage[r] \in Capturing \cup Working
    BY <1>11 DEF ReportEnd, Busy, Working
  <2>2. doc /\ start.at = "none" /\ discarding # "capture"
    BY <2>1, BusyNoStart, NotDiscarding
  <2>3. st \in [Recordings -> Stages] /\ Moved(st)
        /\ \A q \in Recordings : stage[q] = "asked" => st[q] = "asked"
    BY <1>0, <2>1, StageNames DEF Moved
  <2>4. UNCHANGED <<start, discarding, draft, pages>>
    BY <1>11 DEF ReportEnd
  <2>5. CASE Fails(st)
    BY <2>1, <2>4, <2>5, FailsPreserves
  <2>6. CASE Conclude(b, panel, b.completed \cup b.persisted = {}, st) /\ UNCHANGED field
    <3>1. b \in Worker /\ b.state = bg.state /\ b.inFlight = bg.inFlight
          /\ b.generation = bg.generation
      BY Facts, SourceIs, PersistedIs
    <3>. HIDE DEF b, st
    <3>. QED
      BY <2>2, <2>3, <2>4, <2>6, <3>1, Facts, ConcludePreserves DEF Forwarded, pages
  <2>. QED  BY <1>11, <2>5, <2>6 DEF ReportEnd
<1>. QED
  BY <1>1, <1>2, <1>3, <1>4, <1>5, <1>6, <1>7, <1>8, <1>9, <1>10, <1>11 DEF OffscreenSteps

---------------------------------------------------------------------------
(* Starting.                                                               *)

(* While a start is under way nothing is busy, and before it has opened    *)
(* its document there is none.                                             *)
LEMMA WhileStarting ==
  ASSUME CaptureInv, start.at # "none"
  PROVE  /\ \A r \in Recordings : stage[r] \notin Busy
         /\ start.at # "stream" => ~doc
         /\ discarding # "capture" /\ bg.inFlight
         /\ start.rec \in Recordings /\ stage[start.rec] = "asked"
BY DEF CaptureInv, Recording, Document, Discarding, Starts

LEMMA CanStartIs ==
  ASSUME CaptureInv, CanStart
  PROVE  /\ start.at = "none" /\ ~doc /\ discarding # "capture"
         /\ \A r \in Recordings : stage[r] \notin Busy /\ stage[r] # "asked"
BY DEF CaptureInv, Recording, Document, Discarding, Starts, CanStart

LEMMA StartRequestedPreserves ==
  ASSUME CaptureInv, StartRequested
  PROVE  CaptureInv'
<1>1. PICK r \in Recordings :
        /\ CanStart /\ bg' = [bg EXCEPT !.inFlight = TRUE]
        /\ start' = [at |-> "session", rec |-> r, generation |-> bg.generation]
        /\ stage' = [stage EXCEPT ![r] = "asked"]
        /\ UNCHANGED <<field, doc, pages, panel, draft, account>>
  BY DEF StartRequested
<1>2. /\ start.at = "none" /\ ~doc /\ discarding # "capture"
      /\ \A q \in Recordings : stage[q] \notin Busy /\ stage[q] # "asked"
  BY <1>1, CanStartIs
<1>3. bg' \in Worker /\ bg'.inFlight = TRUE /\ bg'.generation = bg.generation
      /\ bg'.state = bg.state
  BY <1>1, Facts DEF Worker
<1>4. /\ stage' \in [Recordings -> Stages] /\ stage'[r] = "asked"
      /\ \A q \in Recordings \ {r} : stage'[q] = stage[q]
  BY <1>1, Facts, StageNames
<1>5. Types'
  BY <1>1, <1>3, <1>4, Facts DEF CaptureInv, Types, pages, account
<1>6. Starts'
  BY <1>1, <1>3, <1>4, Facts DEF Starts, Forwarded
<1>7. Document'
  BY <1>1, <1>2, <1>3 DEF CaptureInv, Document
<1>8. Discarding'
  BY <1>1, <1>2 DEF Discarding, account
<1>9. \A q \in Recordings : stage'[q] \notin Busy
  BY <1>2, <1>4, StageNames
<1>10. OneBusy' /\ \A q \in Recordings : Recording(q)'
  BY <1>1, <1>2, <1>4, <1>9 DEF OneBusy, Recording
<1>. QED  BY <1>5, <1>6, <1>7, <1>8, <1>10 DEF CaptureInv

LEMMA SameLanguagePreserves ==
  ASSUME CaptureInv, SameLanguage
  PROVE  CaptureInv'
<1>1. /\ start.at = "none" /\ ~doc /\ discarding # "capture"
      /\ \A r \in Recordings : stage[r] \notin Busy /\ stage[r] # "asked"
  BY CanStartIs DEF SameLanguage
<1>2. /\ bg' = Becomes(bg, "error") /\ panel' = Mirrored(panel, "error") /\ "error" \in States
      /\ UNCHANGED <<start, field, doc, stage, pages, draft, discarding>>
  BY DEF SameLanguage, SetState, States, capture, account
<1>3. bg' \in Worker /\ bg'.state = "error" /\ bg'.inFlight = bg.inFlight
      /\ bg'.generation = bg.generation
  BY <1>2, Facts, BecomesIs
<1>4. panel' \in Panel /\ (panel'.open => panel'.view = "error")
  BY <1>2, Facts, MirroredIs
<1>5. Document'
  BY <1>1, <1>2, <1>3, <1>4, Facts, ClosedDocument
<1>6. Discarding'
  BY <1>1, <1>2 DEF Discarding
<1>7. Progress
  BY <1>2, SameStage
<1>. QED
  BY <1>1, <1>2, <1>3, <1>4, <1>5, <1>6, <1>7, Facts, NoStartPreserves DEF pages

(* A start is over.                                                        *)
LEMMA StartEnds ==
  ASSUME CaptureInv, start.at # "none", start' = NoStart, Progress,
         stage'[start.rec] # "asked",
         bg' \in Worker, bg'.inFlight = FALSE, panel' \in Panel, Document',
         field' \in Recordings \cup {None}, doc' \in BOOLEAN,
         UNCHANGED <<pages, draft, discarding>>
  PROVE  CaptureInv'
<1>1. /\ \A r \in Recordings : stage[r] \notin Busy
      /\ discarding # "capture"
  BY WhileStarting
<1>2. Types'
  BY Facts DEF Types, Progress, NoStart, pages
<1>3. Starts'
  <2>1. bg'.generation \in Nat
    BY DEF Worker
  <2>. QED  BY <2>1 DEF Starts, NoStart, Forwarded
<1>4. Discarding'
  BY <1>1 DEF Discarding
<1>5. \A r \in Recordings : stage'[r] \notin Busy
  BY <1>1 DEF Progress
<1>6. \A r \in Recordings : stage'[r] # "asked"
  BY DEF CaptureInv, Recording, Progress
<1>. QED  BY <1>2, <1>3, <1>4, <1>5, <1>6, StepPreserves

LEMMA GivesUp ==
  ASSUME CaptureInv, start.at # "none", stage' = [stage EXCEPT ![start.rec] = "failed"]
  PROVE  Progress /\ stage'[start.rec] # "asked"
BY WhileStarting, GoesOn, Facts, StageNames

LEMMA SessionMissingPreserves ==
  ASSUME CaptureInv, SessionMissing
  PROVE  CaptureInv'
<1>1. /\ start.at = "session" /\ bg' = Released(Becomes(bg, "idle"))
      /\ panel' = Mirrored(panel, "idle") /\ GiveUp(stage) /\ "idle" \in States
      /\ UNCHANGED <<field, doc, pages, draft, discarding>>
  BY DEF SessionMissing, States, account
<1>2. bg' \in Worker /\ bg'.state = "idle" /\ bg'.inFlight = FALSE
  <2>1. Becomes(bg, "idle") \in Worker /\ Becomes(bg, "idle").state = "idle"
    BY <1>1, Facts, BecomesIs
  <2>. QED  BY <1>1, <2>1, ReleasedIs
<1>3. panel' \in Panel /\ (panel'.open => panel'.view = "idle")
  BY <1>1, Facts, MirroredIs
<1>4. doc' = FALSE
  BY <1>1, WhileStarting, Facts
<1>5. Document'
  BY <1>2, <1>3, <1>4, ClosedDocument
<1>6. Progress /\ stage'[start.rec] # "asked" /\ start' = NoStart
  BY <1>1, GivesUp DEF GiveUp
<1>. QED  BY <1>1, <1>2, <1>3, <1>4, <1>5, <1>6, Facts, StartEnds

(* A start goes on.                                                        *)
LEMMA StartGoesOn ==
  ASSUME CaptureInv, start.at # "none",
         NEW a \in Forwarded, start' = [start EXCEPT !.at = a],
         bg' \in Worker, bg'.inFlight, bg'.generation = bg.generation, bg'.persisted = {},
         a = "microphone" => bg'.state = "starting" \/ Discarded,
         a \in {"document", "stream"} => bg'.state = "starting" /\ ~Discarded,
         panel' \in Panel, Document', field' \in Recordings \cup {None}, doc' \in BOOLEAN,
         UNCHANGED <<stage, pages, draft, discarding>>
  PROVE  CaptureInv'
<1>1. /\ start'.at = a /\ start'.rec = start.rec /\ start'.generation = start.generation
      /\ start' \in [at : {"none", "session"} \cup Forwarded,
                     rec : Recordings \cup {None}, generation : Nat]
      /\ a # "none"
  BY DEF CaptureInv, Types, Forwarded
<1>2. /\ \A r \in Recordings : stage[r] \notin Busy
      /\ discarding # "capture"
  BY WhileStarting
<1>3. Types'
  BY <1>1, Facts DEF Types, pages
<1>4. Starts'
  BY <1>1 DEF CaptureInv, Starts, Discarded
<1>5. Discarding'
  BY <1>2 DEF Discarding
<1>6. Progress
  BY SameStage
<1>7. \A r \in Recordings : stage'[r] = "asked" => start'.at # "none" /\ start'.rec = r
  BY <1>1 DEF CaptureInv, Recording
<1>8. \A r \in Recordings : stage'[r] \notin Busy
  BY <1>2
<1>. QED  BY <1>3, <1>4, <1>5, <1>6, <1>7, <1>8, StepPreserves

LEMMA AskMicrophonePreserves ==
  ASSUME CaptureInv, start.at \in {"session", "page"}, NEW b \in Worker, AskMicrophone(b),
         b.inFlight, b.generation = bg.generation, b.persisted = {},
         field' \in Recordings \cup {None}, UNCHANGED <<doc, pages, draft, discarding>>
  PROVE  CaptureInv'
<1>0. start.at # "none" /\ doc' = FALSE /\ "starting" \in States
  BY WhileStarting, Facts DEF States
<1>1. panel' = Mirrored(panel, "starting")
  BY DEF AskMicrophone
<1>2. panel' \in Panel /\ (panel'.open => panel'.view = "starting")
  BY <1>0, <1>1, Facts, MirroredIs
<1>3. Becomes(b, "starting") \in Worker /\ Becomes(b, "starting").state = "starting"
      /\ Becomes(b, "starting").inFlight = b.inFlight
      /\ Becomes(b, "starting").generation = bg.generation
      /\ Becomes(b, "starting").persisted = {}
  BY <1>0, BecomesIs
<1>4. CASE bg' = Becomes(b, "starting") /\ start' = [start EXCEPT !.at = "microphone"]
           /\ UNCHANGED stage
  <2>1. Document'
    BY <1>0, <1>2, <1>3, <1>4, ClosedDocument
  <2>. QED  BY <1>0, <1>2, <1>3, <1>4, <2>1, Facts, StartGoesOn DEF Forwarded
<1>5. CASE bg' = Released(Becomes(b, "starting")) /\ GiveUp(stage)
  <2>1. bg' \in Worker /\ bg'.state = "starting" /\ bg'.inFlight = FALSE
    BY <1>3, <1>5, ReleasedIs
  <2>2. Document'
    BY <1>0, <1>2, <2>1, ClosedDocument
  <2>3. Progress /\ stage'[start.rec] # "asked" /\ start' = NoStart
    BY <1>0, <1>5, GivesUp DEF GiveUp
  <2>. QED  BY <1>0, <1>2, <2>1, <2>2, <2>3, Facts, StartEnds
<1>6. CASE bg' = Becomes(b, "starting") /\ start' = [start EXCEPT !.at = "document"]
           /\ UNCHANGED stage /\ ~Discarded
  <2>1. Document'
    BY <1>0, <1>2, <1>3, <1>6, ClosedDocument
  <2>. QED  BY <1>0, <1>2, <1>3, <1>6, <2>1, Facts, StartGoesOn DEF Forwarded
<1>. QED  BY <1>4, <1>5, <1>6 DEF AskMicrophone

LEMMA SessionKnownPreserves ==
  ASSUME CaptureInv, SessionKnown
  PROVE  CaptureInv'
<1>1. /\ start.at = "session" /\ field' = None
      /\ UNCHANGED <<doc, pages, draft, discarding>>
  BY DEF SessionKnown, SaveField, account
<1>2. NoResults(bg) \in Worker /\ NoResults(bg).inFlight
      /\ NoResults(bg).generation = bg.generation /\ NoResults(bg).persisted = {}
      /\ NoResults(bg).state = bg.state
  BY <1>1, Facts, WhileStarting, NoResultsIs
<1>3. CASE AskMicrophone(NoResults(bg))
  BY <1>1, <1>2, <1>3, AskMicrophonePreserves
<1>4. CASE /\ start' = [start EXCEPT !.at = "page"]
           /\ bg' = NoResults(bg) /\ UNCHANGED <<panel, micTab, stage>>
  <2>1. Document'
    BY <1>1, <1>2, <1>4, WhileStarting DEF CaptureInv, Document
  <2>. QED  BY <1>1, <1>2, <1>4, <2>1, Facts, StartGoesOn DEF Forwarded
<1>. QED  BY <1>3, <1>4 DEF SessionKnown

LEMMA PagePreparedPreserves ==
  ASSUME CaptureInv, PagePrepared
  PROVE  CaptureInv'
<1>1. /\ start.at = "page" /\ AskMicrophone(bg) /\ UNCHANGED <<doc, pages, draft, discarding>>
      /\ field' \in {None, start.rec}
  BY DEF PagePrepared, SaveField, account
<1>2. bg.inFlight /\ bg.persisted = {}
  BY <1>1, WhileStarting DEF CaptureInv, Starts, Forwarded
<1>. QED  BY <1>1, <1>2, Facts, WhileStarting, AskMicrophonePreserves

LEMMA MicrophoneAnsweredPreserves ==
  ASSUME CaptureInv, MicrophoneAnswered
  PROVE  CaptureInv'
<1>1. /\ start.at = "microphone"
      /\ UNCHANGED <<field, doc, pages, panel, draft, discarding>>
  BY DEF MicrophoneAnswered, account
<1>2. doc' = FALSE /\ bg.inFlight
  BY <1>1, WhileStarting, Facts
<1>3. CASE Discarded /\ GiveUp(stage) /\ bg' = Released(bg)
  <2>1. bg' \in Worker /\ bg'.state = bg.state /\ bg'.inFlight = FALSE
    BY <1>3, Facts, ReleasedIs
  <2>2. Document'
    BY <1>1, <1>2, <2>1 DEF CaptureInv, Document
  <2>3. Progress /\ stage'[start.rec] # "asked" /\ start' = NoStart
    BY <1>1, <1>3, GivesUp DEF GiveUp
  <2>. QED  BY <1>1, <1>2, <2>1, <2>2, <2>3, Facts, StartEnds
<1>4. CASE ~Discarded /\ start' = [start EXCEPT !.at = "document"] /\ UNCHANGED <<bg, stage>>
  <2>1. Document'
    BY <1>1, <1>2, <1>4 DEF CaptureInv, Document
  <2>2. bg.state = "starting" /\ bg.persisted = {}
    BY <1>1, <1>4 DEF CaptureInv, Starts, Forwarded
  <2>. QED  BY <1>1, <1>2, <1>4, <2>1, <2>2, Facts, StartGoesOn DEF Forwarded
<1>. QED  BY <1>3, <1>4 DEF MicrophoneAnswered

LEMMA DocumentCreatedPreserves ==
  ASSUME CaptureInv, DocumentCreated
  PROVE  CaptureInv'
<1>1. /\ start.at = "document" /\ doc' = TRUE /\ start' = [start EXCEPT !.at = "stream"]
      /\ UNCHANGED <<bg, field, stage, pages, panel, draft, discarding>>
  BY DEF DocumentCreated, account
<1>2. bg.state = "starting" /\ ~Discarded /\ bg.persisted = {} /\ bg.inFlight
  BY <1>1, WhileStarting DEF CaptureInv, Starts, Forwarded
<1>3. start'.at = "stream"
  BY <1>1 DEF CaptureInv, Types
<1>4. Document'
  BY <1>1, <1>2, <1>3 DEF CaptureInv, Document
<1>. QED  BY <1>1, <1>2, <1>4, Facts, StartGoesOn DEF Forwarded

LEMMA CaptureRequestedPreserves ==
  ASSUME CaptureInv, CaptureRequested
  PROVE  CaptureInv'
<1>1. /\ start.at = "stream" /\ doc /\ bg' = Released(bg) /\ start' = NoStart
      /\ stage' = [stage EXCEPT ![start.rec] = "opening"]
      /\ UNCHANGED <<field, doc, pages, panel, draft, discarding>>
  BY DEF CaptureRequested, account
<1>2. /\ \A r \in Recordings : stage[r] \notin Busy
      /\ discarding # "capture" /\ start.rec \in Recordings
  BY <1>1, WhileStarting
<1>3. bg' \in Worker /\ bg'.inFlight = FALSE /\ bg'.state = bg.state
  BY <1>1, Facts, ReleasedIs
<1>4. /\ stage' \in [Recordings -> Stages] /\ stage'[start.rec] = "opening"
      /\ \A r \in Recordings \ {start.rec} : stage'[r] = stage[r]
  BY <1>1, <1>2, Facts DEF Stages, Capturing
<1>5. Types'
  BY <1>1, <1>3, <1>4, Facts DEF Types, NoStart, pages
<1>6. Starts'
  <2>1. bg'.generation \in Nat
    BY <1>3 DEF Worker
  <2>. QED  BY <1>1, <1>3, <2>1 DEF Starts, NoStart, Forwarded
<1>7. Document'
  BY <1>1, <1>3 DEF CaptureInv, Document, NoStart
<1>8. Discarding'
  BY <1>1, <1>2 DEF Discarding
<1>9. \A r \in Recordings : (stage'[r] \in Busy => r = start.rec) /\ stage'[r] # "asked"
  BY <1>2, <1>4 DEF CaptureInv, Recording
<1>10. OneBusy' /\ \A r \in Recordings : Recording(r)'
  BY <1>1, <1>9 DEF OneBusy, Recording, NoStart
<1>. QED  BY <1>5, <1>6, <1>7, <1>8, <1>10 DEF CaptureInv

LEMMA StartFailsPreserves ==
  ASSUME CaptureInv, StartFails
  PROVE  CaptureInv'
<1>. DEFINE st == [stage EXCEPT ![start.rec] = "failed"]
<1>1. /\ start.at # "none" /\ start' = NoStart /\ UNCHANGED <<pages, draft, discarding>>
  BY DEF StartFails, account
<1>2. CASE /\ Discarded /\ bg' = Released(bg) /\ stage' = st
           /\ UNCHANGED <<field, panel, doc>>
  <2>1. bg' \in Worker /\ bg'.inFlight = FALSE /\ bg'.state = bg.state
    BY <1>2, Facts, ReleasedIs
  <2>2. Progress /\ stage'[start.rec] # "asked"
    BY <1>1, <1>2, GivesUp
  <2>3. ~doc
    <3>1. start.at # "stream"
      BY <1>2 DEF CaptureInv, Starts
    <3>. QED  BY <1>1, <3>1, WhileStarting
  <2>4. Document'
    BY <1>2, <2>1, <2>3 DEF CaptureInv, Document
  <2>. QED  BY <1>1, <1>2, <2>1, <2>2, <2>4, Facts, StartEnds
<1>3. CASE /\ bg' = Released(Becomes(bg, "error")) /\ panel' = Mirrored(panel, "error")
           /\ SaveField(None) /\ CloseOffscreen(st)
  <2>0. "error" \in States /\ field' = None
    BY <1>3 DEF States, SaveField
  <2>1. bg' \in Worker /\ bg'.inFlight = FALSE /\ bg'.state = "error"
    <3>1. Becomes(bg, "error") \in Worker /\ Becomes(bg, "error").state = "error"
      BY <2>0, Facts, BecomesIs
    <3>. QED  BY <1>3, <3>1, ReleasedIs
  <2>2. panel' \in Panel /\ (panel'.open => panel'.view = "error")
    BY <1>3, <2>0, Facts, MirroredIs
  <2>3. st \in [Recordings -> Stages] /\ Moved(st) /\ st[start.rec] = "failed"
    BY <1>1, Facts, WhileStarting, StageNames DEF Moved
  <2>4. stage'[start.rec] # "asked"
    BY <1>1, <1>3, <2>3, WhileStarting, KilledIs DEF CloseOffscreen
  <2>. HIDE DEF st
  <2>5. Progress /\ doc' = FALSE
    BY <1>3, <2>3, ClosedProgress
  <2>6. Document'
    BY <2>1, <2>2, <2>5, ClosedDocument
  <2>. QED  BY <1>1, <2>0, <2>1, <2>2, <2>4, <2>5, <2>6, Facts, StartEnds
<1>. QED  BY <1>2, <1>3 DEF StartFails

---------------------------------------------------------------------------
(* Stopping, a page's answer, Logout.                                      *)

LEMMA StopRecordingPreserves ==
  ASSUME CaptureInv, StopRecording
  PROVE  CaptureInv'
<1>1. bg.state = "recording" /\ doc
  BY DEF StopRecording, CaptureInv, Document
<1>2. start.at = "none"
  BY <1>1 DEF CaptureInv, Document, Starts
<1>3. /\ bg' = Becomes(bg, "processing") /\ panel' = Mirrored(panel, "processing")
      /\ stage' = Collect(stage) /\ "processing" \in States
      /\ UNCHANGED <<start, field, doc, pages, draft, discarding>>
  BY <1>1 DEF StopRecording, SetState, States, account
<1>4. bg' \in Worker /\ bg'.state = "processing" /\ bg'.inFlight = bg.inFlight
      /\ bg'.generation = bg.generation /\ bg'.persisted = bg.persisted
  BY <1>3, Facts, BecomesIs
<1>5. panel' \in Panel /\ (panel'.open => panel'.view = "processing")
  BY <1>3, Facts, MirroredIs
<1>6. Progress
  BY <1>3, Facts DEF Collect, Progress, Stages, Busy, Capturing, Working, Unreported
<1>7. Document'
  BY <1>2, <1>3, <1>4, <1>5 DEF Document
<1>8. Discarding'
  BY <1>3, <1>4, <1>6 DEF CaptureInv, Discarding, Progress
<1>. QED
  BY <1>1, <1>2, <1>3, <1>4, <1>5, <1>6, <1>7, <1>8, Facts, NoStartPreserves DEF pages

(* However late a page answers, it ends nothing that was started since.    *)
LEMMA PageAnswersPreserves ==
  ASSUME CaptureInv, PageAnswers
  PROVE  CaptureInv'
<1>1. PICK d \in deliveries, accepted \in BOOLEAN :
        /\ deliveries' = deliveries \ {d}
        /\ typed' = IF accepted
                    THEN [typed EXCEPT ![d.rec] = Append(@, d.into)] ELSE typed
        /\ field' = None /\ FinishDelivery(d.rec, stage)
        /\ UNCHANGED <<start, discarding>>
  BY DEF PageAnswers, SaveField, browser, account
<1>. DEFINE b == Completed(bg, Source(d.rec))
<1>2. d.rec \in Recordings
  BY Facts
<1>3. Conclude(b, Appended(panel, d.rec), b.completed = {}, stage)
  BY <1>1 DEF FinishDelivery
<1>4. b \in Worker /\ b.state = bg.state /\ b.inFlight = bg.inFlight
      /\ b.generation = bg.generation /\ b.persisted \subseteq bg.persisted
      /\ (b.completed = {} => bg.persisted # {})
  BY Facts, SourceIs, CompletedIs
<1>5. Appended(panel, d.rec) \in Panel /\ Appended(panel, d.rec).open = panel.open
      /\ Appended(panel, d.rec).view = panel.view
      /\ Appended(panel, d.rec).final \in Seq(Recordings)
  BY <1>2, Facts, AppendedIs DEF Panel
<1>6. draft' \in Seq(Recordings)
  BY <1>1, <1>2, Facts, AppendProperties DEF FinishDelivery, Stored
<1>7. typed' \in [Recordings -> Seq(Recordings)]
  <2>1. d.into \in Recordings
    BY Facts
  <2>. QED  BY <1>1, <1>2, <2>1, Facts, AppendProperties
<1>8. stage \in [Recordings -> Stages] /\ Moved(stage)
  BY Facts DEF Moved
<1>9. start.at \in Forwarded \/ discarding = "capture" => bg.persisted = {}
  BY DEF CaptureInv, Starts, Discarding
<1>10. deliveries' \subseteq [rec : Recordings, into : Recordings]
  BY <1>1, Facts
<1>. HIDE DEF b
<1>. QED
  BY <1>1, <1>3, <1>4, <1>5, <1>6, <1>7, <1>8, <1>9, <1>10, ConcludePreserves

LEMMA LogoutRequestedPreserves ==
  ASSUME CaptureInv, LogoutRequested
  PROVE  CaptureInv'
<1>1. PICK r \in Recordings : stage[r] = "live"
  BY DEF LogoutRequested, Live
<1>2. stage[r] \in Busy /\ doc /\ start.at = "none"
  BY <1>1, BusyNoStart DEF Busy, Capturing
<1>3. /\ bg' = NoResults(Discard(bg)) /\ draft' = <<>>
      /\ panel' = [panel EXCEPT !.final = <<>>] /\ discarding' = "capture"
      /\ stage' = [q \in Recordings |-> IF stage[q] = "live" THEN "discarding" ELSE stage[q]]
      /\ UNCHANGED <<start, field, doc, pages>>
  BY DEF LogoutRequested, ForgetTranscript, Live
<1>4. bg' \in Worker /\ bg'.state = bg.state /\ bg'.inFlight = bg.inFlight
      /\ bg'.generation = bg.generation + 1 /\ bg'.persisted = {}
  BY <1>3, Facts, DiscardIs, NoResultsIs
<1>5. panel' \in Panel /\ panel'.open = panel.open /\ panel'.view = panel.view
  BY <1>3, Facts, ForgottenIs
<1>6. Progress
  BY <1>3, Facts DEF Progress, Stages, Busy, Capturing, Working, Unreported
<1>7. Document'
  BY <1>3, <1>4, <1>5 DEF CaptureInv, Document
<1>8. Discarding'
  <2>1. \A q \in Recordings : stage[q] \in Busy => q = r
    BY <1>2 DEF CaptureInv, OneBusy
  <2>2. \A q \in Recordings : stage'[q] \notin Capturing \cup Working
    BY <1>1, <1>3, <2>1, StageNames
  <2>. QED  BY <1>2, <1>3, <1>4, <2>2 DEF Discarding
<1>. QED
  BY <1>2, <1>3, <1>4, <1>5, <1>6, <1>7, <1>8, Facts, NoStartPreserves DEF pages

LEMMA LogoutWithoutCapturePreserves ==
  ASSUME CaptureInv, ~LogoutRacesStart, LogoutWithoutCapture
  PROVE  CaptureInv'
<1>1. /\ start.at \notin {"document", "stream"} /\ discarding' = "session"
      /\ UNCHANGED <<start, pages>>
  BY DEF LogoutWithoutCapture, MayLogOut
<1>2. Discarding'
  BY <1>1 DEF Discarding
<1>3. Discard(bg) \in Worker /\ Discard(bg).state = bg.state
      /\ Discard(bg).inFlight = bg.inFlight /\ Discard(bg).generation = bg.generation + 1
      /\ Discard(bg).persisted = bg.persisted
  BY Facts, DiscardIs
<1>0. <<>> \in Seq(Recordings)
  OBVIOUS
<1>4. start.generation <= bg.generation + 1 /\ start.generation # bg.generation + 1
  BY Facts DEF CaptureInv, Starts
<1>5. CASE /\ bg' = Becomes(NoResults(Discard(bg)), "idle")
           /\ panel' = [panel EXCEPT !.final = <<>>, !.view = "idle"]
           /\ draft' = <<>> /\ SaveField(None) /\ CloseOffscreen(stage)
  <2>1. NoResults(Discard(bg)) \in Worker /\ NoResults(Discard(bg)).persisted = {}
        /\ NoResults(Discard(bg)).inFlight = bg.inFlight
        /\ NoResults(Discard(bg)).generation = bg.generation + 1
    BY <1>3, NoResultsIs
  <2>2. bg' \in Worker /\ bg'.state = "idle" /\ bg'.persisted = {}
        /\ bg'.inFlight = bg.inFlight /\ bg'.generation = bg.generation + 1
    <3>1. "idle" \in States
      BY DEF States
    <3>. QED  BY <1>5, <2>1, <3>1, BecomesIs
  <2>3. panel' \in Panel /\ panel'.view = "idle"
    <3>1. <<>> \in Seq(Recordings) /\ "idle" \in States
      BY DEF States
    <3>. QED  BY <1>5, <3>1, Facts DEF Panel
  <2>4. /\ Progress /\ doc' = FALSE /\ \A q \in Recordings : stage'[q] \notin Busy
        /\ \A q \in Recordings : stage[q] = "asked" => stage'[q] = "asked"
    <3>1. stage \in [Recordings -> Stages] /\ Moved(stage)
      BY Facts DEF Moved
    <3>. QED  BY <1>5, <3>1, ClosedProgress
  <2>5. Document'
    BY <2>2, <2>3, <2>4, ClosedDocument
  <2>6. Types'
    BY <1>0, <1>1, <1>5, <2>2, <2>3, <2>4, Facts DEF Types, Progress, SaveField, pages
  <2>7. Starts'
    <3>1. start'.generation <= bg'.generation /\ start'.generation # bg'.generation
      BY <1>1, <1>4, <2>2
    <3>2. start'.at \notin {"document", "stream"}
      BY <1>1
    <3>3. start'.at # "none" => start'.rec \in Recordings /\ stage'[start'.rec] = "asked"
      BY <1>1, <2>4 DEF CaptureInv, Starts
    <3>4. bg'.inFlight <=> start'.at # "none"
      BY <1>1, <2>2 DEF CaptureInv, Starts
    <3>. QED  BY <2>2, <3>1, <3>2, <3>3, <3>4 DEF Starts, Discarded
  <2>8. \A q \in Recordings : stage'[q] = "asked" => start'.at # "none" /\ start'.rec = q
    BY <1>1, <2>4 DEF CaptureInv, Recording, Progress
  <2>. QED  BY <1>2, <2>4, <2>5, <2>6, <2>7, <2>8, StepPreserves
<1>6. CASE bg' = Discard(bg) /\ ForgetTranscript /\ UNCHANGED <<field, doc, stage>>
  <2>1. panel' \in Panel /\ panel'.open = panel.open /\ panel'.view = panel.view
    BY <1>6, Facts, ForgottenIs DEF ForgetTranscript
  <2>2. Types'
    BY <1>0, <1>1, <1>3, <1>6, <2>1, Facts DEF Types, ForgetTranscript, pages
  <2>3. Starts'
    <3>1. start'.generation <= bg'.generation /\ start'.generation # bg'.generation
      BY <1>1, <1>3, <1>4, <1>6
    <3>2. start'.at \notin {"document", "stream"}
      BY <1>1
    <3>3. start'.at # "none" => start'.rec \in Recordings /\ stage'[start'.rec] = "asked"
      BY <1>1, <1>6 DEF CaptureInv, Starts
    <3>4. /\ bg'.inFlight <=> start'.at # "none"
          /\ start'.at \in Forwarded => bg'.persisted = {}
      BY <1>1, <1>3, <1>6 DEF CaptureInv, Starts
    <3>. QED  BY <3>1, <3>2, <3>3, <3>4 DEF Starts, Discarded
  <2>4. Document'
    BY <1>1, <1>3, <1>6, <2>1 DEF CaptureInv, Document
  <2>5. Progress
    BY <1>6, SameStage
  <2>6. \A q \in Recordings : stage'[q] = "asked" => start'.at # "none" /\ start'.rec = q
    BY <1>1, <1>6 DEF CaptureInv, Recording
  <2>7. \A q \in Recordings : stage'[q] \in Busy => doc' /\ start'.at = "none"
    BY <1>1, <1>6 DEF CaptureInv, Recording
  <2>. QED  BY <1>2, <2>2, <2>3, <2>4, <2>5, <2>6, <2>7, StepPreserves
<1>. QED  BY <1>5, <1>6 DEF LogoutWithoutCapture

LEMMA DiscardEndsPreserves ==
  ASSUME CaptureInv, DiscardEnds
  PROVE  CaptureInv'
<1>1. /\ discarding = "capture" /\ discarding' = "session" /\ "idle" \in States
      /\ bg' = Becomes(bg, "idle") /\ panel' = Mirrored(panel, "idle") /\ field' = None
      /\ CloseOffscreen(stage) /\ UNCHANGED <<start, pages, draft>>
  BY DEF DiscardEnds, SetState, SaveField, States
<1>2. start.at = "none"
  BY <1>1 DEF CaptureInv, Discarding
<1>3. bg' \in Worker /\ bg'.state = "idle" /\ bg'.inFlight = bg.inFlight
      /\ bg'.generation = bg.generation
  BY <1>1, Facts, BecomesIs
<1>4. panel' \in Panel /\ (panel'.open => panel'.view = "idle")
  BY <1>1, Facts, MirroredIs
<1>5. Progress /\ doc' = FALSE /\ \A q \in Recordings : stage'[q] \notin Busy
  <2>1. stage \in [Recordings -> Stages] /\ Moved(stage)
    BY Facts DEF Moved
  <2>. QED  BY <1>1, <2>1, ClosedProgress
<1>6. Document'
  BY <1>3, <1>4, <1>5, ClosedDocument
<1>7. Discarding'
  BY <1>1 DEF Discarding
<1>. QED
  BY <1>1, <1>2, <1>3, <1>4, <1>5, <1>6, <1>7, Facts, NoStartPreserves DEF pages

---------------------------------------------------------------------------
(* The panel, and a restart.                                               *)

LEMMA PanelPreserves ==
  ASSUME CaptureInv, panel' \in Panel, draft' \in Seq(Recordings),
         panel'.open /\ panel'.view = "recording" => bg.state = "recording",
         UNCHANGED <<bg, start, field, doc, stage, pages, discarding>>
  PROVE  CaptureInv'
<1>1. Types'
  BY Facts DEF Types, pages
<1>2. Starts' /\ Discarding' /\ OneBusy' /\ \A r \in Recordings : Recording(r)'
  BY DEF CaptureInv, Starts, Discarded, Discarding, OneBusy, Recording
<1>3. Document'
  BY DEF CaptureInv, Document
<1>. QED  BY <1>1, <1>2, <1>3 DEF CaptureInv

LEMMA PanelOpensOrCloses ==
  ASSUME CaptureInv, PanelOpens \/ PanelCloses
  PROVE  CaptureInv'
<1>1. panel'.view = "idle" /\ UNCHANGED <<bg, start, field, doc, stage, pages, draft, discarding>>
  BY DEF PanelOpens, PanelCloses, capture, account
<1>2. panel' \in Panel
  <2>1. <<>> \in Seq(Recordings) /\ "idle" \in States
    BY DEF States
  <2>2. \A e \in Seq(Recordings), o \in BOOLEAN :
          [open |-> o, loaded |-> FALSE, view |-> "idle", final |-> e] \in Panel
    BY <2>1 DEF Panel
  <2>. QED  BY <2>1, <2>2 DEF PanelOpens, PanelCloses
<1>. QED  BY <1>1, <1>2, Facts, PanelPreserves

LEMMA PanelLoadsPreserves ==
  ASSUME CaptureInv, PanelLoads
  PROVE  CaptureInv'
<1>. DEFINE all == draft \o panel.final
<1>1. /\ panel' = [panel EXCEPT !.loaded = TRUE, !.final = all,
                    !.view = IF Running(bg.state) THEN bg.state ELSE @]
      /\ draft' \in {draft, all}
      /\ UNCHANGED <<bg, start, field, doc, stage, pages, discarding>>
  BY DEF PanelLoads, capture, account
<1>2. all \in Seq(Recordings)
  BY Facts, ConcatProperties
<1>. HIDE DEF all
<1>3. panel' \in Panel
  BY <1>1, <1>2, Facts DEF Panel
<1>4. panel'.open /\ panel'.view = "recording" => bg.state = "recording"
  BY <1>1, Facts DEF CaptureInv, Document, Panel
<1>. QED  BY <1>1, <1>2, <1>3, <1>4, Facts, PanelPreserves

(* What the worker forgot it finds again in the document.                  *)
LEMMA RestartPreserves ==
  ASSUME CaptureInv, Restart
  PROVE  CaptureInv'
<1>1. /\ bg'.state = (IF doc THEN "recording" ELSE "idle") /\ ~bg'.inFlight
      /\ bg'.generation = 0 /\ start' = NoStart
      /\ stage' = [r \in Recordings |-> IF stage[r] = "asked" THEN "failed" ELSE stage[r]]
      /\ deliveries' = {} /\ discarding' = "no"
      /\ UNCHANGED <<field, doc, typed, panel, draft>>
  BY DEF Restart
<1>2. bg' \in Worker
  BY DEF Restart, Worker, States
<1>3. stage' \in [Recordings -> Stages] /\ \A r \in Recordings : stage'[r] # "asked"
  BY <1>1, Facts, StageNames
<1>4. \A r \in Recordings : stage'[r] \in Busy => stage[r] \in Busy
  BY <1>1, StageNames
<1>5. Types'
  BY <1>1, <1>2, <1>3, Facts DEF Types, NoStart
<1>6. Starts'
  BY <1>1 DEF Starts, NoStart, Forwarded
<1>7. Document'
  BY <1>1 DEF CaptureInv, Document, NoStart
<1>8. Discarding'
  BY <1>1 DEF Discarding
<1>9. OneBusy'
  BY <1>4 DEF CaptureInv, OneBusy
<1>10. \A r \in Recordings : Recording(r)'
  BY <1>1, <1>3, <1>4 DEF CaptureInv, Recording, NoStart
<1>. QED  BY <1>5, <1>6, <1>7, <1>8, <1>9, <1>10 DEF CaptureInv

---------------------------------------------------------------------------
(* Every step.                                                             *)

LEMMA InitCaptureInv == Init => CaptureInv
<1> SUFFICES ASSUME Init  PROVE CaptureInv
  OBVIOUS
<1>1. Types
  <2>1. <<>> \in Seq(Recordings) /\ "idle" \in States /\ "new" \in Stages
    BY DEF States, Stages
  <2>2. panel \in Panel
    <3>1. \A e \in Seq(Recordings) :
            [open |-> TRUE, loaded |-> TRUE, view |-> "idle", final |-> e] \in Panel
      BY <2>1 DEF Panel
    <3>. QED  BY <2>1, <3>1 DEF Init
  <2>3. bg \in Worker
    BY <2>1 DEF Init, Worker
  <2>4. typed \in [Recordings -> Seq(Recordings)] /\ draft \in Seq(Recordings)
    BY <2>1 DEF Init
  <2>. QED  BY <2>1, <2>2, <2>3, <2>4 DEF Init, Types, NoStart
<1>2. Starts /\ Document /\ Discarding
  BY DEF Init, Starts, NoStart, Forwarded, Document, Discarding
<1>3. OneBusy /\ \A r \in Recordings : Recording(r)
  BY StageNames DEF Init, OneBusy, Recording
<1>. QED  BY <1>1, <1>2, <1>3 DEF CaptureInv

LEMMA WorkerStepPreserves ==
  ASSUME ~LogoutRacesStart, CaptureInv, ServiceWorkerSteps
  PROVE  CaptureInv'
<1>1. CASE LogoutEnds
  BY <1>1, SameStage, QuietPreserves DEF LogoutEnds, bgUnchanged, capture
<1>. QED
  BY <1>1, StartRequestedPreserves, SameLanguagePreserves, SessionMissingPreserves,
     SessionKnownPreserves, PagePreparedPreserves, MicrophoneAnsweredPreserves,
     DocumentCreatedPreserves, CaptureRequestedPreserves, StartFailsPreserves,
     StopRecordingPreserves, PageAnswersPreserves, LogoutRequestedPreserves,
     LogoutWithoutCapturePreserves, DiscardEndsPreserves
  DEF ServiceWorkerSteps

LEMMA NextCaptureInv ==
  ASSUME ~LogoutRacesStart, CaptureInv, [Next]_vars
  PROVE  CaptureInv'
<1>1. CASE MicrophoneGranted \/ TabClosedByUser \/ WebSignsOutOrIn
  BY <1>1, SameStage, QuietPreserves
  DEF MicrophoneGranted, TabClosedByUser, WebSignsOutOrIn, bgUnchanged, capture, account
<1>2. CASE UNCHANGED vars
  BY <1>2, SameStage, QuietPreserves DEF vars, bgUnchanged, capture, account
<1>. QED
  BY <1>1, <1>2, WorkerStepPreserves, OffscreenPreserves, PanelOpensOrCloses,
     PanelLoadsPreserves, RestartPreserves
  DEF Next

(* The invariant holds whenever Logout keeps clear of the moment in which  *)
(* a start opens the offscreen document.                                   *)
THEOREM CaptureInvariant ==
  ASSUME ~LogoutRacesStart
  PROVE  Spec => []CaptureInv
BY InitCaptureInv, NextCaptureInv, PTL DEF Spec

(* Whatever starts, stops, fails, is discarded or restarts: while the      *)
(* microphone is open the extension shows that it is at work.              *)
THEOREM NothingHidden ==
  ASSUME ~LogoutRacesStart
  PROVE  Spec => []NoHiddenCapture
<1>1. CaptureInv => NoHiddenCapture
  BY StageNames DEF CaptureInv, Recording, Document, NoHiddenCapture
<1>. QED  BY <1>1, CaptureInvariant, PTL

(* No second recording reaches for the microphone while one has it, and    *)
(* startInFlight keeps starts out exactly as long as one is under way.     *)
THEOREM OneAtATime ==
  ASSUME ~LogoutRacesStart
  PROVE  Spec => []OneCapture
<1>1. CaptureInv => OneCapture
  <2> SUFFICES ASSUME CaptureInv  PROVE OneCapture
    OBVIOUS
  <2>. DEFINE S == {r \in Recordings : stage[r] \in Capturing \cup {"asked", "discarding"}}
  <2>1. \A r, q \in S : r = q
    <3>1. \A r \in S : stage[r] = "asked" \/ stage[r] \in Busy
      BY DEF Busy
    <3>. QED  BY <3>1 DEF CaptureInv, Recording, OneBusy
  <2>2. Cardinality(S) <= 1
    <3>1. CASE S = {}
      BY <3>1, FS_EmptySet
    <3>2. CASE S # {}
      <4>1. PICK r \in S : S = {r}
        BY <2>1, <3>2
      <4>2. Cardinality({r}) = 1
        BY FS_Singleton
      <4>. QED  BY <4>1, <4>2
    <3>. QED  BY <3>1, <3>2
  <2>. QED  BY <2>2 DEF CaptureInv, Starts, OneCapture
<1>. QED  BY <1>1, CaptureInvariant, PTL

---------------------------------------------------------------------------
(* Where the texts are.                                                    *)

(* A text has reached no page and is not in the panel.                     *)
Lacks(s, r) == \A i \in DOMAIN s : s[i] # r

Nowhere(r) == typed[r] = <<>> /\ Lacks(panel.final, r) /\ Lacks(draft, r)

(* A text is nowhere before its recording reports it; the field that is    *)
(* saved meanwhile was chosen for it.                                      *)
Text(r) ==
  /\ typed[r] \in {<<>>, <<r>>}
  /\ stage[r] \in Unreported => Nowhere(r)
  /\ stage[r] \in Busy => field \in {None, r}

(* A text on its way to its page is still nowhere.                         *)
Delivery(d) ==
  /\ d.into = d.rec /\ Nowhere(d.rec)
  /\ stage[d.rec] \notin Unreported

TextInv ==
  /\ start.at \in Forwarded => field \in {None, start.rec}
  /\ \A r \in Recordings : Text(r)
  /\ \A d \in deliveries : Delivery(d)
  /\ IsInjective(panel.final) /\ IsInjective(draft)
  /\ panel.open /\ ~panel.loaded =>
       \A i \in DOMAIN draft : Lacks(panel.final, draft[i])

LEMMA AppendedOnce ==
  ASSUME NEW s \in Seq(Recordings), NEW r \in Recordings
  PROVE  /\ \A q : Lacks(Append(s, r), q) <=> Lacks(s, q) /\ q # r
         /\ IsInjective(s) /\ Lacks(s, r) => IsInjective(Append(s, r))
<1>1. /\ Len(s) \in Nat /\ DOMAIN s = 1 .. Len(s)
      /\ DOMAIN Append(s, r) = 1 .. Len(s) + 1
      /\ Append(s, r)[Len(s) + 1] = r
      /\ \A i \in 1 .. Len(s) : Append(s, r)[i] = s[i]
  BY AppendProperties, LenProperties
<1>2. \A i \in 1 .. Len(s) + 1 : i = Len(s) + 1 \/ i \in 1 .. Len(s)
  BY <1>1
<1>3. \A i \in 1 .. Len(s) : i \in 1 .. Len(s) + 1
  BY <1>1
<1>4. Len(s) + 1 \in 1 .. Len(s) + 1
  BY <1>1
<1>. QED  BY <1>1, <1>2, <1>3, <1>4 DEF Lacks, IsInjective

LEMMA JoinedOnce ==
  ASSUME NEW s \in Seq(Recordings), NEW t \in Seq(Recordings)
  PROVE  /\ \A q : Lacks(s \o t, q) <=> Lacks(s, q) /\ Lacks(t, q)
         /\ /\ IsInjective(s) /\ IsInjective(t)
            /\ \A i \in DOMAIN s : Lacks(t, s[i])
            => IsInjective(s \o t)
<1>1. /\ Len(s) \in Nat /\ DOMAIN s = 1 .. Len(s)
      /\ Len(t) \in Nat /\ DOMAIN t = 1 .. Len(t)
      /\ DOMAIN (s \o t) = 1 .. Len(s) + Len(t)
  BY ConcatProperties, LenProperties
<1>2. \A i \in 1 .. Len(s) : i \in DOMAIN (s \o t) /\ (s \o t)[i] = s[i]
  BY <1>1, ConcatProperties
<1>3. \A i \in 1 .. Len(t) : Len(s) + i \in DOMAIN (s \o t) /\ (s \o t)[Len(s) + i] = t[i]
  <2>1. ASSUME NEW i \in 1 .. Len(t)
        PROVE  Len(s) + i \in DOMAIN (s \o t) /\ (s \o t)[Len(s) + i] = t[i]
    <3>1. /\ Len(s) + i \in 1 .. Len(s) + Len(t)
          /\ ~(Len(s) + i <= Len(s)) /\ (Len(s) + i) - Len(s) = i
      BY <1>1
    <3>. QED  BY <1>1, <3>1, ConcatProperties
  <2>. QED  BY <2>1
<1>4. \A i \in DOMAIN (s \o t) :
        i \in DOMAIN s \/ \E j \in DOMAIN t : i = Len(s) + j
  <2>1. ASSUME NEW i \in 1 .. Len(s) + Len(t), i \notin 1 .. Len(s)
        PROVE  i - Len(s) \in 1 .. Len(t) /\ i = Len(s) + (i - Len(s))
    BY <1>1, <2>1
  <2>. QED  BY <1>1, <2>1
<1>5. \A q : Lacks(s \o t, q) <=> Lacks(s, q) /\ Lacks(t, q)
  BY <1>1, <1>2, <1>3, <1>4 DEF Lacks
<1>6. ASSUME IsInjective(s), IsInjective(t), \A i \in DOMAIN s : Lacks(t, s[i])
      PROVE  IsInjective(s \o t)
  <2> SUFFICES ASSUME NEW i \in DOMAIN (s \o t), NEW j \in DOMAIN (s \o t),
                      (s \o t)[i] = (s \o t)[j]
               PROVE  i = j
    BY DEF IsInjective
  <2>1. CASE i \in DOMAIN s /\ j \in DOMAIN s
    BY <1>1, <1>2, <1>6, <2>1 DEF IsInjective
  <2>2. CASE \E k \in DOMAIN t : i = Len(s) + k
    <3>1. PICK k \in DOMAIN t : i = Len(s) + k
      BY <2>2
    <3>2. ASSUME j \in DOMAIN s  PROVE FALSE
      BY <1>1, <1>2, <1>3, <1>6, <3>1, <3>2 DEF Lacks
    <3>3. PICK l \in DOMAIN t : j = Len(s) + l
      BY <1>4, <3>2
    <3>4. t[k] = t[l]
      BY <1>1, <1>3, <3>1, <3>3
    <3>. QED  BY <1>6, <3>1, <3>3, <3>4 DEF IsInjective
  <2>3. CASE i \in DOMAIN s /\ \E l \in DOMAIN t : j = Len(s) + l
    BY <1>1, <1>2, <1>3, <1>6, <2>3 DEF Lacks
  <2>. QED  BY <1>4, <2>1, <2>2, <2>3
<1>. QED  BY <1>5, <1>6

(* No text comes or goes.                                                  *)
LEMMA TextsStay ==
  ASSUME CaptureInv, TextInv,
         \A r \in Recordings : stage'[r] \in Unreported => stage[r] \in Unreported,
         \A r \in Recordings : stage'[r] \in Busy => field' \in {None, r},
         start'.at \in Forwarded => field' \in {None, start'.rec},
         deliveries' \subseteq deliveries, UNCHANGED <<typed, draft>>,
         panel'.final = panel.final, panel'.open = panel.open, panel'.loaded = panel.loaded
  PROVE  TextInv'
<1>1. \A r \in Recordings : Nowhere(r)' <=> Nowhere(r)
  BY DEF Nowhere
<1>2. ASSUME NEW r \in Recordings  PROVE Text(r)'
  BY <1>1 DEF TextInv, Text
<1>3. ASSUME NEW d \in deliveries'  PROVE Delivery(d)'
  BY <1>1, Facts DEF TextInv, Delivery
<1>. QED  BY <1>2, <1>3 DEF TextInv

LEMMA TextsQuiet ==
  ASSUME CaptureInv, TextInv, Progress, field' \in {field, None},
         start'.at \in Forwarded =>
           field' = None \/ (start.at \in Forwarded /\ start'.rec = start.rec),
         deliveries' \subseteq deliveries, UNCHANGED <<typed, draft>>,
         panel'.final = panel.final, panel'.open = panel.open, panel'.loaded = panel.loaded
  PROVE  TextInv'
<1>1. \A r \in Recordings : stage'[r] \in Busy => field' \in {None, r}
  BY DEF TextInv, Text, Progress
<1>2. \A r \in Recordings : stage'[r] \in Unreported => stage[r] \in Unreported
  BY DEF Progress
<1>3. start'.at \in Forwarded => field' \in {None, start'.rec}
  BY DEF TextInv
<1>. QED  BY <1>1, <1>2, <1>3, TextsStay

(* The panel's transcript is forgotten.                                    *)
LEMMA TextsForgotten ==
  ASSUME CaptureInv, TextInv, Progress, field' \in {field, None},
         UNCHANGED <<start, pages>>,
         draft' = <<>>, panel'.final = <<>>
  PROVE  TextInv'
<1>0. typed' = typed /\ deliveries' = deliveries
  BY DEF pages
<1>1. \A q : Lacks(<<>>, q)
  BY DEF Lacks
<1>2. \A r \in Recordings : Nowhere(r) => Nowhere(r)'
  BY <1>0, <1>1 DEF Nowhere
<1>3. ASSUME NEW r \in Recordings  PROVE Text(r)'
  BY <1>0, <1>2 DEF TextInv, Text, Progress
<1>4. ASSUME NEW d \in deliveries'  PROVE Delivery(d)'
  BY <1>0, <1>2, Facts DEF TextInv, Delivery, Progress
<1>5. IsInjective(<<>>)
  BY DEF IsInjective
<1>. QED  BY <1>1, <1>3, <1>4, <1>5 DEF TextInv

(* A text that was in no transcript joins the panel's, and may have come   *)
(* from its page.                                                          *)
LEMMA TextArrives ==
  ASSUME CaptureInv, TextInv, Progress, field' \in {field, None}, start' = start,
         NEW r \in Recordings, stage'[r] \notin Unreported, Nowhere(r),
         deliveries' \subseteq deliveries, \A d \in deliveries' : d.rec # r,
         \A q \in Recordings \ {r} : typed'[q] = typed[q], typed'[r] \in {<<>>, <<r>>},
         panel'.final = IF panel.open THEN Append(panel.final, r) ELSE panel.final,
         panel'.open = panel.open, panel'.loaded = panel.loaded, draft' = Stored(panel, r)
  PROVE  TextInv'
<1>1. panel.final \in Seq(Recordings) /\ draft \in Seq(Recordings)
      /\ Lacks(panel.final, r) /\ Lacks(draft, r)
      /\ IsInjective(panel.final) /\ IsInjective(draft)
  BY Facts DEF Nowhere, TextInv
<1>2. draft' = IF panel.open /\ panel.loaded THEN Append(panel.final, r) ELSE draft
  BY DEF Stored
<1>3. /\ IsInjective(panel'.final) /\ IsInjective(draft')
      /\ \A q : q # r /\ Lacks(panel.final, q) => Lacks(panel'.final, q)
      /\ \A q : q # r /\ Lacks(panel.final, q) /\ Lacks(draft, q) => Lacks(draft', q)
  BY <1>1, <1>2, AppendedOnce
<1>4. \A q \in Recordings \ {r} : Nowhere(q) => Nowhere(q)'
  BY <1>3 DEF Nowhere
<1>5. ASSUME NEW q \in Recordings  PROVE Text(q)'
  <2>1. stage'[q] \in Busy => field' \in {None, q}
    BY DEF TextInv, Text, Progress
  <2>2. stage'[q] \in Unreported => q # r /\ Nowhere(q)
    BY DEF TextInv, Text, Progress
  <2>3. typed'[q] \in {<<>>, <<q>>}
    BY DEF TextInv, Text
  <2>. QED  BY <1>4, <2>1, <2>2, <2>3 DEF Text
<1>6. ASSUME NEW d \in deliveries'  PROVE Delivery(d)'
  <2>1. d \in deliveries /\ d.rec \in Recordings \ {r}
    BY Facts
  <2>. QED  BY <1>4, <2>1 DEF TextInv, Delivery, Progress
<1>7. panel'.open /\ ~panel'.loaded =>
        \A i \in DOMAIN draft' : Lacks(panel'.final, draft'[i])
  <2>1. ASSUME panel.open, ~panel.loaded, NEW i \in DOMAIN draft
        PROVE  Lacks(panel'.final, draft[i])
    BY <1>1, <1>3, <2>1 DEF TextInv, Lacks
  <2>. QED  BY <1>2, <2>1
<1>8. start'.at \in Forwarded => field' \in {None, start'.rec}
  BY DEF TextInv
<1>. QED  BY <1>3, <1>5, <1>6, <1>7, <1>8 DEF TextInv

(* What the messages do to stages and panel.                               *)
LEMMA FailsIs ==
  ASSUME CaptureInv, NEW r \in Recordings, NEW s \in {"failed", "done"},
         Fails([stage EXCEPT ![r] = s])
  PROVE  Progress /\ field' = None /\ panel'.final = panel.final
         /\ panel'.open = panel.open /\ panel'.loaded = panel.loaded
<1>. DEFINE st == [stage EXCEPT ![r] = s]
<1>1. st \in [Recordings -> Stages] /\ Moved(st)
  BY Facts, StageNames DEF Moved
<1>2. Fails(st)
  OBVIOUS
<1>. HIDE DEF st
<1>3. Progress
  BY <1>1, <1>2, ClosedProgress DEF Fails
<1>4. panel' = Mirrored(panel, "error") /\ "error" \in States /\ field' = None
  BY <1>2 DEF Fails, States, SaveField
<1>. QED  BY <1>3, <1>4, Facts, MirroredIs

LEMMA ConcludeIs ==
  ASSUME CaptureInv, NEW b, NEW p \in Panel, NEW finished \in BOOLEAN,
         NEW st \in [Recordings -> Stages], Conclude(b, p, finished, st), Moved(st)
  PROVE  /\ Progress /\ panel'.final = p.final
         /\ panel'.open = p.open /\ panel'.loaded = p.loaded
         /\ \A r \in Recordings : st[r] \notin Unreported => stage'[r] \notin Unreported
<1>1. CASE finished
  <2>1. panel' = Mirrored(p, "success") /\ CloseOffscreen(st) /\ "success" \in States
    BY <1>1 DEF Conclude, States
  <2>2. \A r \in Recordings : st[r] \notin Unreported => stage'[r] \notin Unreported
    BY <2>1, KilledIs, StageNames DEF CloseOffscreen
  <2>. QED  BY <2>1, <2>2, ClosedProgress, MirroredIs
<1>2. CASE ~finished
  <2>1. panel' = p /\ stage' = st
    BY <1>2 DEF Conclude
  <2>. QED  BY <2>1, MovedProgress
<1>. QED  BY <1>1, <1>2

(* A page's answer, or a report with no field to deliver to.               *)
LEMMA DeliveryFinishes ==
  ASSUME CaptureInv, TextInv, NEW r \in Recordings, NEW st \in [Recordings -> Stages],
         Moved(st), st[r] \notin Unreported, FinishDelivery(r, st), Nowhere(r),
         field' \in {field, None}, start' = start,
         deliveries' \subseteq deliveries, \A d \in deliveries' : d.rec # r,
         \A q \in Recordings \ {r} : typed'[q] = typed[q], typed'[r] \in {<<>>, <<r>>}
  PROVE  TextInv'
<1>. DEFINE b == Completed(bg, Source(r))
            p == Appended(panel, r)
<1>1. p \in Panel /\ p.open = panel.open /\ p.loaded = panel.loaded
      /\ p.final = IF panel.open THEN Append(panel.final, r) ELSE panel.final
  BY Facts, AppendedIs
<1>2. Conclude(b, p, b.completed = {}, st) /\ draft' = Stored(panel, r)
  BY DEF FinishDelivery
<1>. HIDE DEF b, p
<1>3. Progress /\ panel'.final = p.final /\ panel'.open = p.open /\ panel'.loaded = p.loaded
      /\ stage'[r] \notin Unreported
  BY <1>1, <1>2, ConcludeIs
<1>. QED  BY <1>1, <1>2, <1>3, TextArrives

LEMMA OffscreenTexts ==
  ASSUME CaptureInv, TextInv, NEW r \in Recordings, OffscreenSteps(r)
  PROVE  TextInv'
<1>0. stage \in [Recordings -> Stages] /\ panel \in Panel
  BY Facts
<1>1. CASE Progress /\ UNCHANGED <<start, field, panel, draft, pages>>
  BY <1>1, TextsQuiet DEF pages, TextInv
<1>2. CASE ScratchStarts(r)
  BY <1>1, <1>2, SameStage DEF ScratchStarts, bgUnchanged, browser
<1>3. CASE CaptureOpens(r)
  <2>1. Progress
    BY <1>0, <1>3 DEF CaptureOpens, Live, Progress, Stages, Busy, Capturing, Working,
       Unreported
  <2>2. UNCHANGED <<start, field, draft, pages>>
    BY <1>3 DEF CaptureOpens, browser
  <2>3. panel' = panel \/ panel' = Mirrored(panel, "recording")
    BY <1>3 DEF CaptureOpens, SetState
  <2>4. panel'.final = panel.final /\ panel'.open = panel.open /\ panel'.loaded = panel.loaded
    BY <1>0, <2>3, MirroredIs DEF States
  <2>. QED  BY <2>1, <2>2, <2>4, TextsQuiet DEF pages
<1>4. CASE Fails([stage EXCEPT ![r] = "failed"]) /\ UNCHANGED <<start, draft, pages>>
  BY <1>4, FailsIs, TextsQuiet DEF pages
<1>5. CASE CaptureFails(r) \/ CollectFails(r)
  BY <1>4, <1>5 DEF CaptureFails, CollectFails, browser
<1>6. CASE TabStreamEnds(r)
  <2>1. Progress
    BY <1>0, <1>6 DEF TabStreamEnds, Collect, Progress, Stages, Busy, Capturing, Working,
       Unreported
  <2>. QED  BY <1>1, <1>6, <2>1 DEF TabStreamEnds, bgUnchanged, browser
<1>7. CASE Collected(r)
  <2>1. Progress
    BY <1>0, <1>7 DEF Collected, Progress, Stages, Busy, Capturing, Working, Unreported
  <2>. QED  BY <1>1, <1>7, <2>1 DEF Collected, bgUnchanged, browser
<1>8. CASE Transcribed(r)
  <2>1. Progress
    BY <1>0, <1>8 DEF Transcribed, Progress, Stages, Busy, Capturing, Working, Unreported
  <2>. QED  BY <1>1, <1>8, <2>1 DEF Transcribed, bgUnchanged, browser
<1>9. CASE Saved(r)
  <2>1. Progress
    BY <1>0, <1>9 DEF Saved, Progress, Stages, Busy, Capturing, Working, Unreported
  <2>. QED  BY <1>1, <1>9, <2>1 DEF Saved, bgUnchanged, browser
<1>10. CASE PipelineDiscarded(r)
  <2>1. Progress
    BY <1>0, <1>10 DEF PipelineDiscarded, Progress, Stages, Busy, Capturing, Working,
       Unreported
  <2>. QED  BY <1>1, <1>10, <2>1 DEF PipelineDiscarded, bgUnchanged, browser
<1>11. CASE ReportTranscript(r)
  <2>. DEFINE st == [stage EXCEPT ![r] = "reported"]
  <2>1. stage[r] = "reporting" /\ UNCHANGED <<start, field>>
    BY <1>11 DEF ReportTranscript, browser
  <2>2. Nowhere(r) /\ field \in {None, r}
    BY <2>1 DEF TextInv, Text, Unreported, Busy, Working
  <2>3. \A d \in deliveries : d.rec # r
    BY <2>1 DEF TextInv, Delivery, Unreported, Working
  <2>4. st \in [Recordings -> Stages] /\ Moved(st) /\ st[r] = "reported"
    BY <1>0, <2>1 DEF Moved, Stages, Working
  <2>5. "reported" \notin Unreported
    BY DEF Unreported, Capturing
  <2>6. CASE FinishDelivery(r, st) /\ UNCHANGED pages
    <3>1. typed' = typed /\ deliveries' = deliveries /\ typed[r] \in {<<>>, <<r>>}
      BY <2>6 DEF pages, TextInv, Text
    <3>2. st[r] \notin Unreported
      BY <2>4, <2>5
    <3>. HIDE DEF st
    <3>. QED
      BY <2>1, <2>2, <2>3, <2>4, <2>6, <3>1, <3>2, DeliveryFinishes
  <2>7. CASE stage' = st /\ UNCHANGED <<bg, panel, draft, doc, typed>> /\ SavedField # None
             /\ deliveries' = deliveries \cup {[rec |-> r, into |-> SavedField]}
    <3>1. deliveries' = deliveries \cup {[rec |-> r, into |-> r]}
      BY <2>2, <2>7 DEF SavedField
    <3>2. Progress /\ stage'[r] = "reported"
      BY <2>4, <2>7, MovedProgress
    <3>3. \A q \in Recordings : Nowhere(q)' <=> Nowhere(q)
      BY <2>7 DEF Nowhere
    <3>4. ASSUME NEW q \in Recordings  PROVE Text(q)'
      BY <2>1, <2>7, <3>2, <3>3 DEF TextInv, Text, Progress
    <3>5. ASSUME NEW d \in deliveries'  PROVE Delivery(d)'
      <4>1. CASE d \in deliveries
        BY <3>2, <3>3, <4>1, Facts DEF TextInv, Delivery, Progress
      <4>2. CASE d = [rec |-> r, into |-> r]
        BY <2>2, <2>5, <3>2, <3>3, <4>2 DEF Delivery
      <4>. QED  BY <3>1, <4>1, <4>2
    <3>. QED  BY <2>1, <2>7, <3>4, <3>5 DEF TextInv
  <2>. QED  BY <1>11, <2>6, <2>7 DEF ReportTranscript
<1>12. CASE ReportEnd(r)
  <2>. DEFINE st == [stage EXCEPT ![r] = "done"]
              b == Persisted(bg, Source(r))
  <2>1. UNCHANGED <<start, draft, pages>>
    BY <1>12 DEF ReportEnd, browser
  <2>2. CASE Fails(st)
    BY <2>1, <2>2, FailsIs, TextsQuiet DEF pages
  <2>3. CASE Conclude(b, panel, b.completed \cup b.persisted = {}, st) /\ UNCHANGED field
    <3>1. st \in [Recordings -> Stages] /\ Moved(st)
      BY <1>0, StageNames DEF Moved
    <3>. HIDE DEF st, b
    <3>2. Progress /\ panel'.final = panel.final /\ panel'.open = panel.open
          /\ panel'.loaded = panel.loaded
      BY <1>0, <2>3, <3>1, ConcludeIs
    <3>. QED  BY <2>1, <2>3, <3>2, TextsQuiet DEF pages
  <2>. QED  BY <1>12, <2>2, <2>3 DEF ReportEnd
<1>. QED
  BY <1>2, <1>3, <1>5, <1>6, <1>7, <1>8, <1>9, <1>10, <1>11, <1>12 DEF OffscreenSteps

LEMMA SetStateTexts ==
  ASSUME CaptureInv, NEW s \in States, panel' = Mirrored(panel, s)
  PROVE  panel'.final = panel.final /\ panel'.open = panel.open /\ panel'.loaded = panel.loaded
BY Facts, MirroredIs

LEMMA StartRequestedTexts ==
  ASSUME CaptureInv, TextInv, StartRequested
  PROVE  TextInv'
<1>1. PICK r \in Recordings :
        /\ stage[r] = "new" /\ stage' = [stage EXCEPT ![r] = "asked"]
        /\ start' = [at |-> "session", rec |-> r, generation |-> bg.generation]
        /\ UNCHANGED <<field, pages, panel, draft>>
  BY DEF StartRequested
<1>2. \A q \in Recordings : stage'[q] \in Unreported => stage[q] \in Unreported
  BY <1>1, Facts DEF Unreported
<1>3. \A q \in Recordings : stage'[q] \in Busy => stage[q] \in Busy
  BY <1>1, Facts, StageNames
<1>4. \A q \in Recordings : stage'[q] \in Busy => field' \in {None, q}
  BY <1>1, <1>3 DEF TextInv, Text
<1>5. start'.at \notin Forwarded
  BY <1>1 DEF Forwarded
<1>. QED  BY <1>1, <1>2, <1>4, <1>5, TextsStay DEF pages

LEMMA AskMicrophoneTexts ==
  ASSUME CaptureInv, TextInv, start.at # "none", NEW b, AskMicrophone(b),
         field' \in {None, start.rec}, UNCHANGED <<pages, draft>>
  PROVE  TextInv'
<1>1. panel' = Mirrored(panel, "starting") /\ "starting" \in States
  BY DEF AskMicrophone, States
<1>2. Progress /\ (start' = NoStart \/ start'.rec = start.rec)
  <2>1. \A a : [start EXCEPT !.at = a].rec = start.rec
    BY Facts
  <2>. QED  BY <2>1, GivesUp, SameStage DEF AskMicrophone, GiveUp
<1>3. start'.at \in Forwarded => start'.rec = start.rec
  BY <1>2 DEF NoStart, Forwarded
<1>4. \A r \in Recordings : stage'[r] \notin Busy
  BY <1>2, WhileStarting DEF Progress
<1>5. \A r \in Recordings : stage'[r] \in Unreported => stage[r] \in Unreported
  BY <1>2 DEF Progress
<1>. QED  BY <1>1, <1>3, <1>4, <1>5, SetStateTexts, TextsStay DEF pages

LEMMA StartTexts ==
  ASSUME CaptureInv, TextInv,
         \/ SessionMissing \/ SessionKnown \/ PagePrepared \/ MicrophoneAnswered
         \/ DocumentCreated \/ StartFails
  PROVE  TextInv'
<1>. USE DEF pages
<1>1. \A a : [start EXCEPT !.at = a].rec = start.rec
  BY Facts
<1>2. CASE SessionMissing
  <2>1. panel' = Mirrored(panel, "idle") /\ "idle" \in States
        /\ UNCHANGED <<field, pages, draft>>
    BY <1>2 DEF SessionMissing, States
  <2>2. Progress /\ start' = NoStart
    BY <1>2, GivesUp DEF SessionMissing, GiveUp
  <2>. QED  BY <2>1, <2>2, SetStateTexts, TextsQuiet DEF NoStart, Forwarded
<1>3. CASE SessionKnown
  <2>1. start.at # "none" /\ field' = None /\ UNCHANGED <<pages, draft>>
    BY <1>3 DEF SessionKnown, SaveField
  <2>2. CASE AskMicrophone(NoResults(bg))
    BY <2>1, <2>2, AskMicrophoneTexts
  <2>3. CASE UNCHANGED <<panel, micTab, stage>>
    BY <2>1, <2>3, SameStage, TextsQuiet
  <2>. QED  BY <1>3, <2>2, <2>3 DEF SessionKnown
<1>4. CASE PagePrepared
  BY <1>4, AskMicrophoneTexts DEF PagePrepared, SaveField
<1>5. CASE MicrophoneAnswered
  <2>1. start.at = "microphone" /\ UNCHANGED <<field, pages, panel, draft>>
    BY <1>5 DEF MicrophoneAnswered
  <2>2. CASE GiveUp(stage)
    BY <2>1, <2>2, GivesUp, TextsQuiet DEF GiveUp, NoStart, Forwarded
  <2>3. CASE start' = [start EXCEPT !.at = "document"] /\ UNCHANGED stage
    BY <1>1, <2>1, <2>3, SameStage, TextsQuiet DEF Forwarded
  <2>. QED  BY <1>5, <2>2, <2>3 DEF MicrophoneAnswered
<1>6. CASE DocumentCreated
  <2>1. /\ start.at = "document" /\ start' = [start EXCEPT !.at = "stream"]
        /\ UNCHANGED <<field, stage, pages, panel, draft>>
    BY <1>6 DEF DocumentCreated
  <2>. QED  BY <1>1, <2>1, SameStage, TextsQuiet DEF Forwarded
<1>7. CASE StartFails
  <2>. DEFINE st == [stage EXCEPT ![start.rec] = "failed"]
  <2>1. start' = NoStart /\ start.at # "none" /\ UNCHANGED <<pages, draft>>
    BY <1>7 DEF StartFails
  <2>2. CASE stage' = st /\ UNCHANGED <<field, panel, doc>>
    BY <2>1, <2>2, GivesUp, TextsQuiet DEF NoStart, Forwarded
  <2>3. CASE panel' = Mirrored(panel, "error") /\ SaveField(None) /\ CloseOffscreen(st)
    <3>1. st \in [Recordings -> Stages] /\ Moved(st)
      BY Facts, StageNames DEF Moved
    <3>. HIDE DEF st
    <3>2. Progress /\ "error" \in States
      BY <2>3, <3>1, ClosedProgress DEF States
    <3>. QED
      BY <2>1, <2>3, <3>2, SetStateTexts, TextsQuiet DEF NoStart, Forwarded, SaveField
  <2>. QED  BY <1>7, <2>2, <2>3 DEF StartFails
<1>. QED  BY <1>2, <1>3, <1>4, <1>5, <1>6, <1>7

LEMMA CaptureRequestedTexts ==
  ASSUME CaptureInv, TextInv, CaptureRequested
  PROVE  TextInv'
<1>1. /\ start.at = "stream" /\ start' = NoStart
      /\ stage' = [stage EXCEPT ![start.rec] = "opening"]
      /\ UNCHANGED <<field, pages, panel, draft>>
  BY DEF CaptureRequested
<1>2. /\ \A r \in Recordings : stage[r] \notin Busy
      /\ start.rec \in Recordings /\ stage[start.rec] = "asked"
  BY <1>1, WhileStarting
<1>3. \A r \in Recordings : stage'[r] \in Unreported => stage[r] \in Unreported
  BY <1>1, <1>2, Facts, StageNames
<1>4. field' \in {None, start.rec}
  BY <1>1 DEF TextInv, Forwarded
<1>5. \A r \in Recordings : stage'[r] \in Busy => field' \in {None, r}
  BY <1>1, <1>2, <1>4, Facts
<1>. QED  BY <1>1, <1>3, <1>5, TextsStay DEF NoStart, Forwarded, pages

LEMMA LaterTexts ==
  ASSUME CaptureInv, TextInv,
         \/ SameLanguage \/ StopRecording \/ PageAnswers \/ LogoutRequested
         \/ LogoutWithoutCapture \/ DiscardEnds \/ LogoutEnds
  PROVE  TextInv'
<1>0. stage \in [Recordings -> Stages] /\ Moved(stage)
  BY Facts DEF Moved
<1>1. ASSUME Progress, field' \in {field, None}, UNCHANGED <<start, pages, draft>>,
             NEW s \in States, panel' = Mirrored(panel, s)
      PROVE  TextInv'
  <2>1. start'.at \in Forwarded => field' = None \/ (start.at \in Forwarded /\ start'.rec = start.rec)
    BY <1>1
  <2>. QED  BY <1>1, <2>1, SetStateTexts, TextsQuiet DEF pages
<1>2. CASE SameLanguage
  BY <1>1, <1>2, SameStage DEF SameLanguage, SetState, capture, States
<1>3. CASE StopRecording
  <2>1. stage' \in {stage, Collect(stage)} /\ field' \in {field, None}
        /\ UNCHANGED <<start, pages, draft>>
    BY <1>3 DEF StopRecording, SaveField
  <2>2. Progress
    BY <1>0, <2>1 DEF Collect, Progress, Stages, Busy, Capturing, Working, Unreported
  <2>3. \E s \in States : panel' = Mirrored(panel, s)
    BY <1>3 DEF StopRecording, SetState, States
  <2>. QED  BY <1>1, <2>1, <2>2, <2>3
<1>4. CASE PageAnswers
  <2>1. PICK d \in deliveries, accepted \in BOOLEAN :
          /\ deliveries' = deliveries \ {d}
          /\ typed' = IF accepted
                      THEN [typed EXCEPT ![d.rec] = Append(@, d.into)] ELSE typed
          /\ field' = None /\ FinishDelivery(d.rec, stage) /\ start' = start
    BY <1>4 DEF PageAnswers, SaveField, browser
  <2>2. d.rec \in Recordings /\ d.into = d.rec /\ Nowhere(d.rec)
        /\ stage[d.rec] \notin Unreported
    BY Facts DEF TextInv, Delivery
  <2>3. \A e \in deliveries' : e.rec # d.rec
    <3>1. ASSUME NEW e \in deliveries', e.rec = d.rec  PROVE FALSE
      <4>1. e \in deliveries /\ e # d /\ e.into = e.rec
        BY <2>1 DEF TextInv, Delivery
      <4>2. e = [rec |-> e.rec, into |-> e.into] /\ d = [rec |-> d.rec, into |-> d.into]
        BY <4>1, Facts
      <4>. QED  BY <2>2, <3>1, <4>1, <4>2
    <3>. QED  BY <3>1
  <2>4. \A q \in Recordings \ {d.rec} : typed'[q] = typed[q]
    BY <2>1, Facts
  <2>5. typed'[d.rec] \in {<<>>, <<d.rec>>}
    <3>1. typed[d.rec] = <<>> /\ Append(<<>>, d.rec) = <<d.rec>>
      BY <2>2 DEF Nowhere
    <3>. QED  BY <2>1, <2>2, <3>1, Facts
  <2>. QED  BY <1>0, <2>1, <2>2, <2>3, <2>4, <2>5, DeliveryFinishes
<1>5. CASE LogoutRequested
  <2>1. /\ draft' = <<>> /\ panel' = [panel EXCEPT !.final = <<>>]
        /\ stage' = [q \in Recordings |-> IF stage[q] = "live" THEN "discarding" ELSE stage[q]]
        /\ UNCHANGED <<start, field, pages>>
    BY <1>5 DEF LogoutRequested, ForgetTranscript, Live
  <2>2. Progress
    BY <1>0, <2>1 DEF Progress, Stages, Busy, Capturing, Working, Unreported
  <2>3. panel'.final = <<>>
    BY <2>1, Facts, ForgottenIs
  <2>. QED  BY <2>1, <2>2, <2>3, TextsForgotten
<1>6. CASE LogoutWithoutCapture
  <2>1. draft' = <<>> /\ UNCHANGED <<start, pages>> /\ field' \in {field, None}
    BY <1>6 DEF LogoutWithoutCapture, ForgetTranscript, SaveField
  <2>2. panel'.final = <<>>
    BY <1>6, Facts DEF LogoutWithoutCapture, ForgetTranscript, Panel
  <2>3. Progress
    BY <1>0, <1>6, ClosedProgress, SameStage DEF LogoutWithoutCapture
  <2>. QED  BY <2>1, <2>2, <2>3, TextsForgotten
<1>7. CASE DiscardEnds
  BY <1>0, <1>1, <1>7, ClosedProgress DEF DiscardEnds, SetState, SaveField, States
<1>8. CASE LogoutEnds
  BY <1>8, SameStage, TextsQuiet DEF LogoutEnds, capture, pages
<1>. QED  BY <1>2, <1>3, <1>4, <1>5, <1>6, <1>7, <1>8

LEMMA PanelTexts ==
  ASSUME CaptureInv, TextInv, PanelOpens \/ PanelLoads \/ PanelCloses
  PROVE  TextInv'
<1>0. UNCHANGED <<start, field, stage, typed, deliveries>>
  BY DEF PanelOpens, PanelLoads, PanelCloses, capture, pages
<1>1. ASSUME \A r \in Recordings : Lacks(panel.final, r) /\ Lacks(draft, r) =>
               Lacks(panel'.final, r) /\ Lacks(draft', r),
             IsInjective(panel'.final), IsInjective(draft'),
             panel'.open /\ ~panel'.loaded =>
               \A i \in DOMAIN draft' : Lacks(panel'.final, draft'[i])
      PROVE  TextInv'
  <2>1. \A r \in Recordings : Nowhere(r) => Nowhere(r)'
    BY <1>0, <1>1 DEF Nowhere
  <2>2. ASSUME NEW r \in Recordings  PROVE Text(r)'
    BY <1>0, <2>1 DEF TextInv, Text
  <2>3. ASSUME NEW d \in deliveries'  PROVE Delivery(d)'
    BY <1>0, <2>1, Facts DEF TextInv, Delivery
  <2>. QED  BY <1>0, <1>1, <2>2, <2>3 DEF TextInv
<1>2. CASE PanelOpens \/ PanelCloses
  <2>1. panel'.final = <<>> /\ draft' = draft
    BY <1>2 DEF PanelOpens, PanelCloses
  <2>2. IsInjective(<<>>) /\ \A q : Lacks(<<>>, q)
    BY DEF IsInjective, Lacks
  <2>. QED  BY <1>1, <2>1, <2>2 DEF TextInv
<1>3. CASE PanelLoads
  <2>. DEFINE all == draft \o panel.final
  <2>1. panel.open /\ ~panel.loaded /\ panel'.final = all /\ panel'.loaded
        /\ draft' \in {draft, all}
    BY <1>3, Facts DEF PanelLoads, Panel
  <2>2. draft \in Seq(Recordings) /\ panel.final \in Seq(Recordings)
    BY Facts
  <2>3. IsInjective(draft) /\ IsInjective(panel.final)
        /\ \A i \in DOMAIN draft : Lacks(panel.final, draft[i])
    BY <2>1 DEF TextInv
  <2>4. IsInjective(all) /\ \A q : Lacks(all, q) <=> Lacks(draft, q) /\ Lacks(panel.final, q)
    BY <2>2, <2>3, JoinedOnce
  <2>. HIDE DEF all
  <2>. QED  BY <1>1, <2>1, <2>3, <2>4
<1>. QED  BY <1>2, <1>3

LEMMA RestartTexts ==
  ASSUME CaptureInv, TextInv, Restart
  PROVE  TextInv'
<1>1. /\ start' = NoStart /\ deliveries' = {} /\ UNCHANGED <<field, typed, panel, draft>>
      /\ stage' = [r \in Recordings |-> IF stage[r] = "asked" THEN "failed" ELSE stage[r]]
  BY DEF Restart
<1>2. Progress
  BY <1>1, Facts, StageNames DEF Progress
<1>. QED  BY <1>1, <1>2, TextsQuiet DEF NoStart, Forwarded

LEMMA NextTextInv ==
  ASSUME CaptureInv, TextInv, [Next]_vars
  PROVE  TextInv'
<1>1. CASE MicrophoneGranted \/ TabClosedByUser \/ WebSignsOutOrIn
  <2>1. UNCHANGED <<start, field, stage, typed, deliveries, draft, panel>>
    BY <1>1 DEF MicrophoneGranted, TabClosedByUser, WebSignsOutOrIn, capture, pages
  <2>. QED  BY <2>1, SameStage, TextsQuiet DEF TextInv
<1>2. CASE UNCHANGED vars
  <2>1. UNCHANGED <<start, field, stage, typed, deliveries, draft, panel>>
    BY <1>2 DEF vars, capture, pages
  <2>. QED  BY <2>1, SameStage, TextsQuiet DEF TextInv
<1>. QED
  BY <1>1, <1>2, StartRequestedTexts, StartTexts, CaptureRequestedTexts, LaterTexts,
     OffscreenTexts, PanelTexts, RestartTexts
  DEF Next, ServiceWorkerSteps

(* A text that was not reported yet, or is on its way to its page, is      *)
(* nowhere else, and the saved field is that of the recording under way.   *)
THEOREM TextInvariant ==
  ASSUME ~LogoutRacesStart
  PROVE  Spec => []TextInv
<1>1. Init => TextInv
  <2> SUFFICES ASSUME Init  PROVE TextInv
    OBVIOUS
  <2>1. \A r \in Recordings : Text(r)
    BY StageNames DEF Init, Text, Nowhere, Lacks
  <2>2. start.at \notin Forwarded
    BY DEF Init, NoStart, Forwarded
  <2>3. IsInjective(panel.final) /\ IsInjective(draft)
    BY DEF Init, IsInjective
  <2>. QED  BY <2>1, <2>2, <2>3 DEF Init, TextInv
<1>. QED  BY <1>1, NextTextInv, CaptureInvariant, PTL DEF Spec

(* However stops, restarts and late answers of pages fall together, a text *)
(* is typed at most once, into its own field, and joins the transcript     *)
(* once.                                                                   *)
THEOREM ResultOnce ==
  ASSUME ~LogoutRacesStart
  PROVE  Spec => []ResultOnceAndInItsOwnField
<1>1. TextInv => ResultOnceAndInItsOwnField
  BY DEF TextInv, Text, ResultOnceAndInItsOwnField
<1>. QED  BY <1>1, TextInvariant, PTL

=============================================================================
