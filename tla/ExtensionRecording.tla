------------------------- MODULE ExtensionRecording -------------------------
(***************************************************************************)
(* A recording made with the browser extension: the service worker         *)
(* (entrypoints/background.ts) that starts, stops and discards it, the     *)
(* offscreen document (entrypoints/offscreen/main.ts) that captures and    *)
(* transcribes it, the side panel that mirrors its state and collects the  *)
(* transcripts, and the page field its text is typed into.                 *)
(*                                                                         *)
(* Waiting for the network, a page, the user, the microphone, a recorder   *)
(* or the scratch files ends an action.  Messages between the extension's  *)
(* own parts and chrome.storage are taken to be faster than these: a       *)
(* message is heard in the action that sends it.  Streamed tokens, badges, *)
(* languages and logs are left out; translation is recorded as voice.      *)
(***************************************************************************)
EXTENDS Integers, Sequences, FiniteSets, SequencesExt

CONSTANTS
  Recordings,      (* starts that are accepted: 1 .. n                      *)
  MaxLogouts,      (* bound on the uses of the panel's Logout               *)
  MaxRestarts,     (* bound on the restarts of the service worker           *)
  LogoutRacesStart (* may Logout come while a start opens the offscreen     *)
                   (* document?                                             *)

ASSUME ExtensionAssumption ==
  /\ Recordings \in SUBSET (Nat \ {0})
  /\ MaxLogouts \in Nat /\ MaxRestarts \in Nat /\ LogoutRacesStart \in BOOLEAN

VARIABLES
  bg,              (* state of the service worker, lost when it restarts    *)
  start,           (* the start under way                                   *)
  field,           (* the recording whose page field is saved, 0 for none   *)
  granted, micTab, (* the stored microphone grant, the permission tab       *)
  doc,             (* does the offscreen document exist?                    *)
  stage, mode,                      (* per recording: progress, its kind    *)
  partial, heard, failed,           (* cut short, transcribed, went wrong   *)
  scratch, library,                 (* recordings with scratch audio, saved *)
  deliveries, typed,                (* texts on their way, typed into pages *)
  panel, draft,                     (* the side panel, its stored transcript *)
  session, discarding,              (* the BFF session, a Logout under way  *)
  logouts, restarts

results == <<partial, heard, failed, scratch, library>>
capture == <<doc, stage, mode, results>>
pages == <<deliveries, typed>>
account == <<session, discarding, logouts>>
vars == <<bg, start, field, granted, micTab, capture, pages, panel, draft,
          account, restarts>>

None == 0
States == {"idle", "starting", "recording", "processing", "success", "error"}
Sources == {"mic", "tab"}
Capturing == {"opening", "live", "orphaned"}     (* the microphone is open  *)
Working == {"collecting", "transcribing", "saving", "reporting", "reported"}
Stages == {"new", "asked", "done", "failed", "killed", "discarding"}
            \cup Capturing \cup Working

Source(r) == IF mode[r] = "meeting" THEN "tab" ELSE "mic"
Live(r) == stage[r] = "live"
NoStart == [at |-> "none", rec |-> None, generation |-> 0]

Init ==
  /\ bg = [state |-> "idle", inFlight |-> FALSE, generation |-> 0,
           completed |-> {}, persisted |-> {}]
  /\ start = NoStart
  /\ field = None /\ granted = FALSE /\ micTab = FALSE
  /\ doc = FALSE
  /\ stage = [r \in Recordings |-> "new"]
  /\ mode = [r \in Recordings |-> "voice"]
  /\ partial = {} /\ heard = {} /\ failed = {} /\ scratch = {} /\ library = {}
  /\ deliveries = {} /\ typed = [r \in Recordings |-> <<>>]
  /\ panel = [open |-> TRUE, loaded |-> TRUE, view |-> "idle", final |-> <<>>]
  /\ draft = <<>>
  /\ session = "in" /\ discarding = "no" /\ logouts = 0 /\ restarts = 0

---------------------------------------------------------------------------
(* What the parts tell each other.                                         *)

(* setState: the panel mirrors it while it is open.                        *)
Becomes(b, s) == [b EXCEPT !.state = s]
Mirrored(p, s) == IF p.open THEN [p EXCEPT !.view = s] ELSE p
SetState(s) == bg' = Becomes(bg, s) /\ panel' = Mirrored(panel, s)

(* The delivery session is kept in chrome.storage too, so that it outlives *)
(* the service worker.                                                     *)
SaveField(f) == field' = f
SavedField == field

NoResults(b) == [b EXCEPT !.completed = {}, !.persisted = {}]

(* closeOffscreen: what the document was doing ends with it.               *)
Killed(st) ==
  [r \in Recordings |->
     IF st[r] \in Capturing \cup Working \cup {"discarding"}
     THEN "killed" ELSE st[r]]
CloseOffscreen(st) == doc' = FALSE /\ stage' = Killed(st)

(* capture-error, and a start that fails: the results are void.            *)
Fails(st) ==
  /\ bg' = Becomes(NoResults(bg), "error")
  /\ panel' = Mirrored(panel, "error")
  /\ SaveField(None)
  /\ CloseOffscreen(st)

(* The panel appends a result to the transcript and, once loaded, stores it.*)
Appended(p, r) ==
  IF p.open THEN [p EXCEPT !.final = Append(@, r)] ELSE p
Stored(p, r) == IF p.open /\ p.loaded THEN Append(p.final, r) ELSE draft

(* capture-complete after its delivery: a result meets its persisted twin. *)
Completed(b, src) ==
  IF src \in b.persisted
  THEN [b EXCEPT !.completed = @ \ {src}, !.persisted = @ \ {src}]
  ELSE [b EXCEPT !.completed = @ \cup {src}]

(* capture-persisted.                                                      *)
Persisted(b, src) ==
  IF src \in b.completed THEN [b EXCEPT !.completed = @ \ {src}]
                         ELSE [b EXCEPT !.persisted = @ \cup {src}]

(* Once nothing is awaited any more the recording has succeeded.           *)
Conclude(b, p, finished, st) ==
  IF finished
  THEN /\ bg' = Becomes(b, "success") /\ panel' = Mirrored(p, "success")
       /\ CloseOffscreen(st)
  ELSE bg' = b /\ panel' = p /\ stage' = st /\ UNCHANGED doc

---------------------------------------------------------------------------
(* Starting: startRecording, from the panel, a shortcut or a third press.  *)

(* Mutation: only the state keeps a second start away.                     *)
CanStartByState == bg.state \in {"idle", "success", "error"}

CanStart == ~bg.inFlight /\ bg.state \in {"idle", "success", "error"}

(* The finally of startRecording.                                          *)
Released(b) == [b EXCEPT !.inFlight = FALSE]

StartRequested ==
  \E r \in Recordings, m \in {"voice", "meeting"} :
    /\ stage[r] = "new" /\ \A q \in Recordings : q < r => stage[q] # "new"
    /\ CanStart
    /\ bg' = [bg EXCEPT !.inFlight = TRUE]
    /\ mode' = [mode EXCEPT ![r] = m]
    /\ start' = [at |-> "session", rec |-> r, generation |-> bg.generation]
    /\ stage' = [stage EXCEPT ![r] = "asked"]
    /\ UNCHANGED <<field, granted, micTab, doc, results, pages, panel, draft,
                   account, restarts>>

(* The same language on both sides of a translation is refused at once.    *)
SameLanguage ==
  /\ CanStart
  /\ SetState("error")
  /\ UNCHANGED <<start, field, granted, micTab, capture, pages, draft,
                 account, restarts>>

Discarded == start.generation # bg.generation
GiveUp(st) == start' = NoStart /\ stage' = [st EXCEPT ![start.rec] = "failed"]

(* The session is gone: the panel offers sign-in again.                    *)
SessionMissing ==
  /\ start.at = "session" /\ session # "in"
  /\ bg' = Released(Becomes(bg, "idle"))
  /\ panel' = Mirrored(panel, "idle")
  /\ GiveUp(stage)
  /\ UNCHANGED <<field, granted, micTab, doc, mode, results, pages, draft,
                 account, restarts>>

(* Where a start that reached the microphone goes on: it waits for the     *)
(* grant, or, the grant being stored, looks whether it was discarded.      *)
AskMicrophone(b) ==
  /\ panel' = Mirrored(panel, "starting")
  /\ CASE ~granted ->
            /\ bg' = Becomes(b, "starting")
            /\ start' = [start EXCEPT !.at = "microphone"]
            /\ micTab' = TRUE /\ UNCHANGED stage
       [] granted /\ Discarded ->
            /\ bg' = Released(Becomes(b, "starting"))
            /\ GiveUp(stage) /\ UNCHANGED micTab
       [] OTHER ->
            /\ bg' = Becomes(b, "starting")
            /\ start' = [start EXCEPT !.at = "document"]
            /\ UNCHANGED <<micTab, stage>>

(* Signed in; a meeting has no field, other modes look for one in the page.*)
SessionKnown ==
  /\ start.at = "session" /\ session = "in"
  /\ SaveField(None)
  /\ IF mode[start.rec] = "meeting"
     THEN AskMicrophone(NoResults(bg))
     ELSE /\ start' = [start EXCEPT !.at = "page"]
          /\ bg' = NoResults(bg) /\ UNCHANGED <<panel, micTab, stage>>
  /\ UNCHANGED <<granted, doc, mode, results, pages, draft, account, restarts>>

(* prepareDeliveryTarget: the page has a field, or has none to type into.  *)
PagePrepared ==
  /\ start.at = "page"
  /\ \E f \in {None, start.rec} : SaveField(f)
  /\ AskMicrophone(bg)
  /\ UNCHANGED <<granted, doc, mode, results, pages, draft, account, restarts>>

(* The permission page records a grant and closes; closing it proves nothing.*)
MicrophoneGranted ==
  /\ micTab /\ granted' = TRUE
  /\ UNCHANGED <<bg, start, field, micTab, capture, pages, panel, draft,
                 account, restarts>>

TabClosedByUser ==
  /\ micTab /\ micTab' = FALSE
  /\ UNCHANGED <<bg, start, field, granted, capture, pages, panel, draft,
                 account, restarts>>

MicrophoneAnswered ==
  /\ start.at = "microphone" /\ ~micTab /\ granted
  /\ IF Discarded THEN GiveUp(stage) /\ bg' = Released(bg)
     ELSE start' = [start EXCEPT !.at = "document"] /\ UNCHANGED <<bg, stage>>
  /\ UNCHANGED <<field, granted, micTab, doc, mode, results, pages, panel,
                 draft, account, restarts>>

DocumentCreated ==
  /\ start.at = "document"
  /\ doc' = TRUE
  /\ start' = [start EXCEPT !.at = "stream"]
  /\ UNCHANGED <<bg, field, granted, micTab, stage, mode, results, pages,
                 panel, draft, account, restarts>>

(* start-capture; a document that was closed meanwhile hears nothing.      *)
CaptureRequested ==
  /\ start.at = "stream" /\ doc
  /\ bg' = Released(bg)
  /\ start' = NoStart
  /\ stage' = [stage EXCEPT ![start.rec] = "opening"]
  /\ UNCHANGED <<field, granted, micTab, doc, mode, results, pages, panel,
                 draft, account, restarts>>

(* The catch of startRecording: no session answer, no grant, no tab to     *)
(* capture, no document.                                                   *)
StartFails ==
  /\ \/ start.at \in {"session", "document", "stream"}
     \/ start.at = "microphone" /\ ~micTab /\ ~granted
  /\ start' = NoStart
  /\ LET st == [stage EXCEPT ![start.rec] = "failed"] IN
     IF Discarded
     THEN /\ bg' = Released(bg) /\ stage' = st
          /\ UNCHANGED <<field, panel, doc>>
     ELSE /\ bg' = Released(Becomes(bg, "error"))
          /\ panel' = Mirrored(panel, "error")
          /\ SaveField(None) /\ CloseOffscreen(st)
  /\ UNCHANGED <<granted, micTab, mode, results, pages, draft, account,
                 restarts>>

---------------------------------------------------------------------------
(* Stopping: stopRecording, by a shortcut or from the panel.               *)

(* Mutation: what a stop takes stays there for the next.                   *)
CollectAgain(st) ==
  [r \in Recordings |->
     IF st[r] \in {"live"} \cup Working THEN "collecting" ELSE st[r]]

(* stopCapture takes every pipeline, so that no stop takes one twice.      *)
Collect(st) ==
  [r \in Recordings |-> IF st[r] = "live" THEN "collecting" ELSE st[r]]

StopRecording ==
  /\ bg.state = "recording" \/ (panel.open /\ panel.view = "recording")
  /\ IF doc
     THEN SetState("processing") /\ stage' = Collect(stage) /\ UNCHANGED field
     ELSE SetState("idle") /\ SaveField(None) /\ UNCHANGED stage
  /\ UNCHANGED <<start, granted, micTab, doc, mode, results, pages, draft,
                 account, restarts>>

---------------------------------------------------------------------------
(* The offscreen document.                                                 *)

bgUnchanged == UNCHANGED <<bg, field, panel, draft, pages>>
browser == <<start, granted, micTab, mode, account, restarts>>

(* createPipeline: scratch storage first, then stream, worklet, recorder.  *)
ScratchStarts(r) ==
  /\ stage[r] = "opening" /\ r \notin scratch
  /\ scratch' = scratch \cup {r}
  /\ bgUnchanged
  /\ UNCHANGED <<browser, doc, stage, partial, heard, failed, library>>

(* capture-ready.  The new pipeline takes the place of any other, which    *)
(* nothing stops any more.                                                 *)
CaptureOpens(r) ==
  /\ stage[r] = "opening" /\ r \in scratch
  /\ stage' = [q \in Recordings |-> IF q = r THEN "live"
                                    ELSE IF Live(q) THEN "orphaned"
                                    ELSE stage[q]]
  /\ IF bg.state = "starting" THEN SetState("recording")
     ELSE UNCHANGED <<bg, panel>>
  /\ UNCHANGED <<browser, field, draft, pages, doc, results>>

(* A blocked microphone voids the stored grant; scratch files stay behind. *)
CaptureFails(r) ==
  /\ stage[r] = "opening"
  /\ Fails([stage EXCEPT ![r] = "failed"])
  /\ granted' \in {granted, FALSE}
  /\ UNCHANGED <<start, micTab, mode, account, restarts, draft, pages,
                 results>>

(* The recorded tab is closed: what is live then is kept as partial.       *)
TabStreamEnds(r) ==
  /\ stage[r] \in {"live", "orphaned"} /\ mode[r] = "meeting"
  /\ partial' = partial \cup {r} \cup {q \in Recordings : Live(q)}
  /\ stage' = Collect(stage)
  /\ stage' # stage
  /\ bgUnchanged
  /\ UNCHANGED <<browser, doc, heard, failed, scratch, library>>

Collected(r) ==
  /\ stage[r] = "collecting"
  /\ stage' = [stage EXCEPT ![r] = "transcribing"]
  /\ bgUnchanged
  /\ UNCHANGED <<browser, doc, results>>

(* The recorder or the scratch files fail: no result, and capture-error.   *)
CollectFails(r) ==
  /\ stage[r] = "collecting"
  /\ Fails([stage EXCEPT ![r] = "failed"])
  /\ UNCHANGED <<browser, draft, pages, results>>

(* The realtime result, else the uploaded audio's; a meeting is uploaded   *)
(* for its speakers too, and may fail there with its text at hand.         *)
Transcribed(r) ==
  /\ stage[r] = "transcribing"
  /\ \/ heard' = heard \cup {r} /\ UNCHANGED failed
     \/ failed' = failed \cup {r} /\ UNCHANGED heard
     \/ /\ mode[r] = "meeting"
        /\ heard' = heard \cup {r} /\ failed' = failed \cup {r}
  /\ stage' = [stage EXCEPT ![r] = "saving"]
  /\ bgUnchanged
  /\ UNCHANGED <<browser, doc, partial, scratch, library>>

(* saveExtensionRecording, then discard: either may fail.                  *)
Saved(r) ==
  /\ stage[r] = "saving"
  /\ \/ /\ library' = library \cup {r} /\ scratch' = scratch \ {r}
        /\ UNCHANGED failed
     \/ /\ library' \in {library, library \cup {r}}
        /\ failed' = failed \cup {r} /\ UNCHANGED scratch
  /\ stage' = [stage EXCEPT ![r] = "reporting"]
  /\ bgUnchanged
  /\ UNCHANGED <<browser, doc, partial, heard>>

(* The end of deliverTranscript and the rest of the capture-complete case. *)
FinishDelivery(r, st) ==
  LET b == Completed(bg, Source(r)) IN
  /\ Conclude(b, Appended(panel, r), b.completed = {}, st)
  /\ draft' = Stored(panel, r)

(* capture-complete, sent for a transcript whether it was saved or not.    *)
ReportTranscript(r) ==
  /\ stage[r] = "reporting" /\ r \in heard
  /\ LET st == [stage EXCEPT ![r] = "reported"] IN
     IF SavedField = None
     THEN FinishDelivery(r, st) /\ UNCHANGED pages
     ELSE /\ deliveries' = deliveries \cup {[rec |-> r, into |-> SavedField]}
          /\ stage' = st
          /\ UNCHANGED <<bg, panel, draft, doc, typed>>
  /\ UNCHANGED <<browser, field, results>>

(* capture-persisted, or capture-error when any of it went wrong.          *)
ReportEnd(r) ==
  /\ \/ stage[r] = "reported"
     \/ stage[r] = "reporting" /\ r \notin heard
  /\ LET b == Persisted(bg, Source(r))
         st == [stage EXCEPT ![r] = "done"]
     IN IF r \notin failed
        THEN /\ Conclude(b, panel, b.completed \cup b.persisted = {}, st)
             /\ UNCHANGED field
        ELSE Fails(st)
  /\ UNCHANGED <<browser, draft, pages, results>>

---------------------------------------------------------------------------
(* Delivery into the page: deliverTranscript.                              *)

(* The page types the text or refuses it (site disabled, field gone); then *)
(* the field is forgotten, whichever start chose it, and the panel is told.*)
PageAnswers ==
  \E d \in deliveries, accepted \in BOOLEAN :
    /\ deliveries' = deliveries \ {d}
    /\ typed' = IF accepted
                THEN [typed EXCEPT ![d.rec] = Append(@, d.into)] ELSE typed
    /\ SaveField(None)
    /\ FinishDelivery(d.rec, stage)
    /\ UNCHANGED <<browser, results>>

---------------------------------------------------------------------------
(* Logout: signOutRequest, discardRecording, discardCapture.               *)

MayLogOut ==
  /\ panel.open /\ panel.loaded /\ session = "in" /\ discarding = "no"
  /\ logouts < MaxLogouts
  /\ LogoutRacesStart \/ start.at \notin {"document", "stream"}

(* Mutation: a start that waits for the microphone is not told.            *)
DiscardQuietly(b) == b

Discard(b) == [b EXCEPT !.generation = @ + 1]

ForgetTranscript == draft' = <<>> /\ panel' = [panel EXCEPT !.final = <<>>]

(* The panel forgets its transcript; what captures is told to close.       *)
LogoutRequested ==
  /\ MayLogOut
  /\ \E r \in Recordings : Live(r)
  /\ logouts' = logouts + 1 /\ discarding' = "capture"
  /\ ForgetTranscript
  /\ bg' = NoResults(Discard(bg)) /\ micTab' = FALSE
  /\ stage' = [r \in Recordings |->
                 IF Live(r) THEN "discarding" ELSE stage[r]]
  /\ UNCHANGED <<start, field, granted, doc, mode, results, pages, session,
                 restarts>>

(* With no pipeline to discard there is nothing to wait for: the document  *)
(* closes, a start that waits for the microphone is over, and one that has *)
(* not come that far goes on for now.                                      *)
LogoutWithoutCapture ==
  /\ MayLogOut
  /\ \A r \in Recordings : ~Live(r)
  /\ logouts' = logouts + 1 /\ discarding' = "session"
  /\ IF doc \/ bg.state = "starting"
     THEN /\ bg' = Becomes(NoResults(Discard(bg)), "idle")
          /\ panel' = [panel EXCEPT !.final = <<>>, !.view = "idle"]
          /\ draft' = <<>>
          /\ SaveField(None) /\ micTab' = FALSE
          /\ CloseOffscreen(stage)
     ELSE /\ bg' = Discard(bg) /\ ForgetTranscript
          /\ UNCHANGED <<field, micTab, doc, stage>>
  /\ UNCHANGED <<start, granted, mode, results, pages, session, restarts>>

(* A pipeline stops without a result; its scratch files may stay.          *)
PipelineDiscarded(r) ==
  /\ stage[r] = "discarding"
  /\ stage' = [stage EXCEPT ![r] = "killed"]
  /\ scratch' \in {scratch, scratch \ {r}}
  /\ bgUnchanged
  /\ UNCHANGED <<browser, doc, partial, heard, failed, library>>

(* forceClose is answered, or the document has gone meanwhile.             *)
DiscardEnds ==
  /\ discarding = "capture"
  /\ \A r \in Recordings : stage[r] # "discarding"
  /\ SetState("idle") /\ SaveField(None) /\ CloseOffscreen(stage)
  /\ discarding' = "session"
  /\ UNCHANGED <<start, granted, micTab, mode, results, pages, draft, session,
                 logouts, restarts>>

LogoutEnds ==
  /\ discarding = "session"
  /\ discarding' = "no" /\ session' = "out"
  /\ UNCHANGED <<bg, start, field, granted, micTab, capture, pages, panel,
                 draft, logouts, restarts>>

---------------------------------------------------------------------------
(* The side panel opens, loads its stored transcript, closes.              *)

Running(s) == s \in {"starting", "recording", "processing"}

PanelOpens ==
  /\ ~panel.open
  /\ panel' = [open |-> TRUE, loaded |-> FALSE, view |-> "idle",
               final |-> <<>>]
  /\ UNCHANGED <<bg, start, field, granted, micTab, capture, pages, draft,
                 account, restarts>>

(* Results that came while it loaded follow the stored ones.  The result   *)
(* is stored again only if loading changed the text.                       *)
PanelLoads ==
  /\ panel.open /\ ~panel.loaded
  /\ LET all == draft \o panel.final IN
     /\ panel' = [panel EXCEPT !.loaded = TRUE, !.final = all,
                    !.view = IF Running(bg.state) THEN bg.state ELSE @]
     /\ draft' = IF draft = <<>> THEN draft ELSE all
  /\ UNCHANGED <<bg, start, field, granted, micTab, capture, pages, account,
                 restarts>>

PanelCloses ==
  /\ panel.open
  /\ panel' = [open |-> FALSE, loaded |-> FALSE, view |-> "idle",
               final |-> <<>>]
  /\ UNCHANGED <<bg, start, field, granted, micTab, capture, pages, draft,
                 account, restarts>>

---------------------------------------------------------------------------
(* Around the extension.                                                   *)

(* The web app signs the account out or in, without telling the extension. *)
WebSignsOutOrIn ==
  /\ session' = IF session = "in" THEN "ended" ELSE "in"
  /\ UNCHANGED <<bg, start, field, granted, micTab, capture, pages, panel,
                 draft, discarding, logouts, restarts>>

(* The service worker restarts: its variables and whatever it awaited are  *)
(* lost, a document that exists means recording.  The permission tab, now  *)
(* unwatched, may still record a grant.                                    *)
Restart ==
  /\ restarts < MaxRestarts
  /\ restarts' = restarts + 1
  /\ bg' = [state |-> IF doc THEN "recording" ELSE "idle", inFlight |-> FALSE,
            generation |-> 0, completed |-> {}, persisted |-> {}]
  /\ start' = NoStart
  /\ stage' = [r \in Recordings |->
                 IF stage[r] = "asked" THEN "failed" ELSE stage[r]]
  /\ deliveries' = {} /\ discarding' = "no"
  /\ micTab' = FALSE /\ granted' \in {granted, granted \/ micTab}
  /\ UNCHANGED <<field, doc, mode, results, typed, panel, draft, session,
                 logouts>>

ServiceWorkerSteps ==
  \/ StartRequested \/ SameLanguage \/ SessionMissing \/ SessionKnown
  \/ PagePrepared \/ MicrophoneAnswered \/ DocumentCreated
  \/ CaptureRequested \/ StartFails \/ StopRecording \/ PageAnswers
  \/ LogoutRequested \/ LogoutWithoutCapture \/ DiscardEnds \/ LogoutEnds

OffscreenSteps(r) ==
  \/ ScratchStarts(r) \/ CaptureOpens(r) \/ CaptureFails(r)
  \/ TabStreamEnds(r) \/ Collected(r) \/ CollectFails(r) \/ Transcribed(r)
  \/ Saved(r) \/ ReportTranscript(r) \/ ReportEnd(r) \/ PipelineDiscarded(r)

Next ==
  \/ ServiceWorkerSteps
  \/ \E r \in Recordings : OffscreenSteps(r)
  \/ MicrophoneGranted \/ TabClosedByUser
  \/ PanelOpens \/ PanelLoads \/ PanelCloses
  \/ WebSignsOutOrIn \/ Restart

Spec == Init /\ [][Next]_vars

---------------------------------------------------------------------------
(* Properties.                                                             *)

(* The microphone is never open behind an extension that shows itself idle *)
(* or done, whatever starts, stops, fails, is discarded or restarts.       *)
NoHiddenCapture ==
  (\E r \in Recordings : stage[r] \in Capturing)
    => bg.state \in {"starting", "recording", "processing"}

(* At most one recording is on its way to, or holds, the microphone, so    *)
(* that none can be replaced by the next and run on with nobody to stop it.*)
(* startInFlight, which keeps the next start out, does so no longer than   *)
(* one is under way, however that ends.                                    *)
OneCapture ==
  /\ Cardinality({r \in Recordings :
                    stage[r] \in Capturing \cup {"asked", "discarding"}}) <= 1
  /\ bg.inFlight <=> start.at # "none"

(* However stops coincide (shortcut, panel, closed tab) and whatever comes *)
(* between a result and the page's answer, a text is typed at most once    *)
(* and only into the field that was chosen for it, and it joins the        *)
(* panel's transcript once, also when the panel is reopened meanwhile.     *)
ResultOnceAndInItsOwnField ==
  /\ \A r \in Recordings : typed[r] \in {<<>>, <<r>>}
  /\ IsInjective(panel.final) /\ IsInjective(draft)

(* "Logout ends the recording too" (background.ts): once the session is    *)
(* logged out, nothing captures.                                           *)
LogoutEndsRecording ==
  session = "out" => \A r \in Recordings : stage[r] \notin Capturing

(* "Logout: nothing from this session stays in the panel or in storage"    *)
(* (useTranscript.ts).                                                     *)
LogoutLeavesNoTranscript ==
  session = "out" => panel.final = <<>> /\ draft = <<>>
=============================================================================
