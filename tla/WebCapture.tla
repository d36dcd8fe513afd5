----------------------------- MODULE WebCapture -----------------------------
(***************************************************************************)
(* Dictation in the web app's tabs (web/src/App.tsx): the tabs share one   *)
(* recording lock (recording-lock.ts), one directory of scratch audio that *)
(* outlives them (scratch-storage.ts and its worker), the Library of the   *)
(* server, and the saved interface language, which a tab reads again       *)
(* whenever another one changes the workspace.                             *)
(*                                                                         *)
(* An action ends where the code waits for the network, the microphone,    *)
(* the recorder or the scratch files.  One commit of React's state is      *)
(* taken to follow its cause at once.  Levels, statuses, focus and the     *)
(* floating panel are left out.                                            *)
(***************************************************************************)
EXTENDS Naturals, Sequences, FiniteSets, SequencesExt

CONSTANTS
  Tabs,
  NoTab,
  Recordings,         (* starts that get the lock: 1 .. n                   *)
  MaxTurns,           (* bound on the turns: uses of Hold, sign-outs and    *)
                      (* changes of the saved language                      *)
  MaxOpens,           (* bound on page loads, reloads included, and turns   *)
  MaxFrames,          (* bound on pieces of audio written, and turns        *)
  CleanupRaces        (* may a clean-up that frees the lock run beside a    *)
                      (* recording of its tab that needs it?  A change of   *)
                      (* language while one starts, is cancelled or is      *)
                      (* finished; the second discard of a failed start     *)
                      (* beside the next start                              *)

ASSUME WebCaptureAssumption ==
  /\ NoTab \notin Tabs /\ Recordings \in SUBSET (Nat \ {0})
  /\ {MaxOpens, MaxTurns, MaxFrames} \subseteq Nat
  /\ CleanupRaces \in BOOLEAN

VARIABLES
  page,               (* per tab: closed, signed out or signed in           *)
  signingOut,         (* the tabs whose sign-out is with the server         *)
  language, saved,    (* each tab's interface language, and the saved one   *)
  reading,            (* the tabs that are reading the settings             *)
  captureRef,         (* per tab: the active capture, 0 for none            *)
  holding, stopWhenReady,  (* tabs: is Hold pressed, was it let go early?   *)
  lock,               (* the tab that holds the recording lock              *)
  stage, owner,       (* per recording: where it is, and in which tab       *)
  catching,           (* the failed starts whose files are being discarded  *)
  scratch,            (* per recording: its scratch files; whether a tab    *)
                      (* recovered them before it was over (early)          *)
  saving,             (* per recording: the save that follows its text      *)
  recovering,         (* per tab: recordings to recover, how much of each   *)
                      (* was there, and what is next                        *)
  library,            (* the recordings saved, each with how much of it     *)
  document,           (* per tab: the recordings whose text was inserted    *)
  abandoned,          (* recordings given up, and by whom                   *)
  opens, turns

tabs == <<page, signingOut, opens>>
tongues == <<language, saved, reading>>
hold == <<holding, stopWhenReady>>
outcome == <<library, document, abandoned>>
capturing == <<captureRef, lock, stage, owner, catching>>
vars == <<tabs, tongues, hold, capturing, scratch, saving, recovering, outcome,
          turns>>

None == 0
Starting == {"opening", "pipeline"}
Finishing == {"stopping", "realtime", "completing", "uploading", "discarding"}
Ended == {"new", "done"}

(* What is left of a start that failed after its capture became the tab's  *)
(* active one: active still, and then finished or cancelled.  Its          *)
(* microphone is closed.                                                   *)
Leftover == {"broken", "clearing", "dropping"}

Mine(t) == {r \in Recordings : owner[r] = t}

(* What a tab has under way, the clean-up of a failed start included.      *)
Of(t) == {r \in Mine(t) : r \in catching \/ stage[r] \notin Ended \cup {"broken"}}
Sending(t) == \E r \in Mine(t) : stage[r] \in Finishing \cup {"clearing"}
Idle(t) == \A r \in Mine(t) : stage[r] \in Starting \cup Ended \cup {"broken", "dropping"}

Init ==
  /\ page = [t \in Tabs |-> "closed"] /\ signingOut = {} /\ opens = 0 /\ turns = 0
  /\ language = [t \in Tabs |-> "en"] /\ saved = "en" /\ reading = {}
  /\ captureRef = [t \in Tabs |-> None] /\ holding = {} /\ stopWhenReady = {}
  /\ lock = NoTab
  /\ stage = [r \in Recordings |-> "new"] /\ owner = [r \in Recordings |-> NoTab]
  /\ catching = {}
  /\ scratch = [r \in Recordings |->
       [files |-> FALSE, open |-> NoTab, pcm |-> 0, webm |-> FALSE, early |-> FALSE]]
  /\ saving = [r \in Recordings |-> "no"]
  /\ recovering = [t \in Tabs |-> {}]
  /\ library = {} /\ document = [t \in Tabs |-> <<>>] /\ abandoned = {}

---------------------------------------------------------------------------
(* Shared steps.                                                           *)

Goes(r, s) == stage' = [stage EXCEPT ![r] = s]

(* Plausible bugs stand before the definition they replace.  A lock that   *)
(* is not exclusive:                                                       *)
AcquireShared(t) == lock' = t

(* acquireRecordingLock answers at once: the lock is free, or refused.     *)
acquireRecordingLock(t) == lock = NoTab /\ lock' = t

(* Only the lock the tab holds now can be given back.                      *)
releaseRecordingLock(t) == lock' = IF lock = t THEN NoTab ELSE lock

(* The worker of tab t removes a recording.  It closes the files it has    *)
(* open itself; files open in another tab's worker cannot be removed, and  *)
(* the failure is ignored.                                                 *)
removeCapture(sc, t, rs) ==
  [r \in Recordings |->
     IF r \in rs /\ sc[r].open \in {NoTab, t}
     THEN [sc[r] EXCEPT !.files = FALSE, !.open = NoTab] ELSE sc[r]]

(* complete: the files are closed, and one of the two streams must hold    *)
(* audio.                                                                  *)
Completes(r) == scratch[r].open = owner[r] /\ (scratch[r].webm \/ scratch[r].pcm # 0)
Closed(r) == scratch' = [scratch EXCEPT ![r].open =
                           IF @ = owner[r] THEN NoTab ELSE @]

(* invalidateWorkspace: every signed-in tab reads the settings again.  A   *)
(* tab in English that can only be told English is left out.               *)
Reads(us, to) ==
  reading' = reading \cup {u \in us : to # "en" \/ language[u] # "en"}
SignedIn == {t \in Tabs : page[t] = "in"}

---------------------------------------------------------------------------
(* Starting.  A second start of the same tab is refused the lock, as is    *)
(* that of another tab.                                                    *)

CanStart(t) == page[t] # "closed" /\ captureRef[t] = None /\ ~Sending(t)

NextRecording(r) == stage[r] = "new" /\ \A q \in Recordings : q < r => stage[q] # "new"

startCapture(t, r) ==
  /\ CanStart(t) /\ NextRecording(r)
  /\ CleanupRaces \/ \A q \in Mine(t) : stage[q] # "dropping"
  /\ acquireRecordingLock(t)
  /\ Goes(r, "opening")
  /\ owner' = [owner EXCEPT ![r] = t]
  /\ UNCHANGED <<captureRef, catching, scratch, saving, recovering, outcome, tabs, tongues>>

(* Start, Stop's toggle while idle, or the shortcut, signed in or not.     *)
Start(t, r) == startCapture(t, r) /\ UNCHANGED hold

(* Hold is pressed.                                                        *)
startHoldCapture(t) ==
  /\ CanStart(t) /\ Idle(t) /\ t \notin holding
  /\ holding' = holding \cup {t} /\ UNCHANGED stopWhenReady
  /\ \/ \E r \in Recordings : startCapture(t, r)
     \/ /\ lock # NoTab
        /\ UNCHANGED <<capturing, scratch, saving, recovering, outcome, tabs, tongues>>

(* The microphone has opened and then the scratch files.                   *)
ScratchStarts(r) ==
  /\ stage[r] = "opening" /\ Goes(r, "pipeline")
  /\ scratch' = [scratch EXCEPT ![r] = [@ EXCEPT !.files = TRUE, !.open = owner[r]]]
  /\ UNCHANGED <<captureRef, lock, owner, catching, saving, recovering, outcome, tabs,
                 tongues, hold>>

(* The capture is active and the recorder starts.  If Hold was let go      *)
(* meanwhile it stops at once.                                             *)
CaptureBegins(r) ==
  LET t == owner[r] IN
  /\ stage[r] = "pipeline"
  /\ stopWhenReady' = stopWhenReady \ {t} /\ UNCHANGED holding
  /\ IF t \in stopWhenReady
     THEN captureRef' = [captureRef EXCEPT ![t] = None] /\ Goes(r, "stopping")
     ELSE captureRef' = [captureRef EXCEPT ![t] = r] /\ Goes(r, "recording")
  /\ UNCHANGED <<lock, owner, catching, scratch, saving, recovering, outcome, tabs, tongues>>

(* No microphone, no scratch files, no pipeline: what was opened is closed.*)
(* A recorder that does not start fails when the capture is active already,*)
(* and it stays the active one.                                            *)
StartFails(r) ==
  /\ stage[r] \in Starting /\ catching' = catching \cup {r}
  /\ \/ Goes(r, "done") /\ UNCHANGED captureRef
     \/ /\ stage[r] = "pipeline" /\ Goes(r, "broken")
        /\ captureRef' = [captureRef EXCEPT ![owner[r]] = r]
  /\ UNCHANGED <<lock, owner, scratch, saving, recovering, outcome, tabs, tongues, hold>>

StartFailed(r) ==
  LET t == owner[r] IN
  /\ r \in catching /\ catching' = catching \ {r}
  /\ scratch' = removeCapture(scratch, t, {r})
  /\ releaseRecordingLock(t)
  /\ holding' = holding \ {t} /\ stopWhenReady' = stopWhenReady \ {t}
  /\ UNCHANGED <<captureRef, stage, owner, saving, recovering, outcome, tabs, tongues>>

(* How much was written, frames and recorder's streams.                    *)
Written ==
  Cardinality({f \in Recordings \X (1 .. MaxFrames) : f[2] <= scratch[f[1]].pcm})
    + Cardinality({r \in Recordings : scratch[r].webm})

(* A frame is written to the PCM stream.  A stream whose first write fails *)
(* takes no more and stays empty: the recorder's, webm, has the audio.     *)
Frame(r) ==
  /\ stage[r] \in {"recording", "cancelling", "stopping", "realtime"}
  /\ scratch[r].open = owner[r] /\ ~scratch[r].webm /\ Written + turns < MaxFrames
  /\ \/ scratch' = [scratch EXCEPT ![r].pcm = @ + 1]
     \/ scratch[r].pcm = 0 /\ scratch' = [scratch EXCEPT ![r].webm = TRUE]
  /\ UNCHANGED <<capturing, saving, recovering, outcome, tabs, tongues, hold>>

---------------------------------------------------------------------------
(* Cancelling.                                                             *)

(* cancelCapture, by Escape, by Cancel, or as the clean-up of an effect    *)
(* when the language of the page changes.                                  *)
cancelCapture(t, by) ==
  /\ holding' = holding \ {t} /\ stopWhenReady' = stopWhenReady \ {t}
  /\ IF captureRef[t] = None
     THEN releaseRecordingLock(t) /\ UNCHANGED <<captureRef, stage, abandoned>>
     ELSE /\ IF stage[captureRef[t]] = "broken"
             THEN Goes(captureRef[t], "dropping") /\ UNCHANGED abandoned
             ELSE /\ Goes(captureRef[t], "cancelling")
                  /\ abandoned' = abandoned \cup {<<captureRef[t], by>>}
          /\ captureRef' = [captureRef EXCEPT ![t] = None]
          /\ UNCHANGED lock

Cancel(t) ==
  /\ captureRef[t] # None
  /\ cancelCapture(t, "user")
  /\ UNCHANGED <<owner, catching, scratch, saving, recovering, library, document, tabs, tongues>>

Cancelled(r) ==
  LET t == owner[r] IN
  /\ stage[r] = "cancelling" /\ Goes(r, "done")
  /\ scratch' = removeCapture(scratch, t, {r})
  /\ releaseRecordingLock(t)
  /\ UNCHANGED <<captureRef, owner, catching, saving, recovering, outcome, tabs, tongues, hold>>

---------------------------------------------------------------------------
(* Finishing.                                                              *)

FinishTwice(t) == Goes(captureRef[t], "stopping") /\ UNCHANGED captureRef

finishCapture(t) ==
  /\ Goes(captureRef[t], IF stage[captureRef[t]] = "broken" THEN "clearing" ELSE "stopping")
  /\ captureRef' = [captureRef EXCEPT ![t] = None]

(* Stop, or the shortcut.                                                  *)
Stop(t) ==
  /\ captureRef[t] # None
  /\ finishCapture(t)
  /\ stopWhenReady' = stopWhenReady \ {t} /\ UNCHANGED holding
  /\ UNCHANGED <<lock, owner, catching, scratch, saving, recovering, outcome, tabs, tongues>>

(* Hold is let go, perhaps before the capture is active.                   *)
stopHoldCapture(t) ==
  /\ t \in holding /\ holding' = holding \ {t}
  /\ IF captureRef[t] # None
     THEN finishCapture(t) /\ stopWhenReady' = stopWhenReady \ {t}
     ELSE stopWhenReady' = stopWhenReady \cup {t} /\ UNCHANGED <<captureRef, stage>>
  /\ UNCHANGED <<lock, owner, catching, scratch, saving, recovering, outcome, tabs, tongues>>

(* The recorder has stopped.  Without speech the audio is discarded.       *)
RecorderStops(r) ==
  /\ stage[r] = "stopping"
  /\ \/ /\ Goes(r, "discarding") /\ abandoned' = abandoned \cup {<<r, "silence">>}
     \/ Goes(r, "realtime") /\ UNCHANGED abandoned
  /\ UNCHANGED <<captureRef, lock, owner, catching, scratch, saving, recovering, library,
                 document, tabs, tongues, hold>>

(* A path that forgets the lock.                                           *)
FinallyKeepsLock(r) ==
  Goes(r, "done") /\ UNCHANGED <<lock, captureRef, owner, catching, tabs, hold>>

(* What every path of finishCapture ends with.                             *)
Finally(r) ==
  /\ Goes(r, "done")
  /\ releaseRecordingLock(owner[r])
  /\ UNCHANGED <<captureRef, owner, catching, tabs, hold>>

(* The text goes into the document, and the audio is saved behind it.      *)
TextArrives(r) ==
  LET t == owner[r] IN
  /\ document' = [document EXCEPT ![t] = Append(@, r)]
  /\ saving' = [saving EXCEPT ![r] = "completing"]
  /\ Finally(r)

(* The live session's text, within its budget; else the audio is uploaded. *)
RealtimeText(r) ==
  /\ stage[r] = "realtime" /\ TextArrives(r)
  /\ UNCHANGED <<scratch, recovering, library, abandoned, tongues>>

RealtimeFallback(r) ==
  /\ stage[r] = "realtime" /\ Goes(r, "completing")
  /\ UNCHANGED <<captureRef, lock, owner, catching, scratch, saving, recovering, outcome,
                 tabs, tongues, hold>>

ScratchCompletes(r) ==
  /\ stage[r] = "completing" /\ Closed(r)
  /\ IF Completes(r)
     THEN Goes(r, "uploading") /\ UNCHANGED <<captureRef, lock, owner, catching, tabs, hold>>
     ELSE Finally(r)
  /\ UNCHANGED <<saving, recovering, outcome, tongues>>

UploadText(r) ==
  /\ stage[r] = "uploading" /\ TextArrives(r)
  /\ UNCHANGED <<scratch, recovering, library, abandoned, tongues>>

(* No text, an error, or the time limit: the scratch audio is kept.        *)
UploadFails(r) ==
  /\ stage[r] = "uploading" /\ Finally(r)
  /\ UNCHANGED <<scratch, saving, recovering, outcome, tongues>>

(* An abort signal that the request was not given.                         *)
CancelUnheard(r) ==
  /\ stage[r] = "uploading" /\ captureRef[owner[r]] = None
  /\ abandoned' = abandoned \cup {<<r, "user">>}
  /\ UNCHANGED <<capturing, scratch, saving, recovering, library,
                 document, tabs, tongues, hold>>

cancelTranscription(r) ==
  /\ stage[r] = "uploading" /\ captureRef[owner[r]] = None
  /\ Goes(r, "discarding") /\ abandoned' = abandoned \cup {<<r, "user">>}
  /\ UNCHANGED <<captureRef, lock, owner, catching, scratch, saving, recovering, library,
                 document, tabs, tongues, hold>>

Discarded(r) ==
  /\ stage[r] = "discarding" /\ Finally(r)
  /\ scratch' = removeCapture(scratch, owner[r], {r})
  /\ UNCHANGED <<saving, recovering, outcome, tongues>>

(* Finished or cancelled, what a failed start left is discarded again.  The*)
(* worker answers this discard after that of the failed start.             *)
Cleared(r) ==
  /\ stage[r] \in {"clearing", "dropping"} /\ r \notin catching /\ Finally(r)
  /\ scratch' = removeCapture(scratch, owner[r], {r})
  /\ UNCHANGED <<saving, recovering, outcome, tongues>>

---------------------------------------------------------------------------
(* The save behind the text, which nothing waits for.                      *)

SaveCompletes(r) ==
  /\ saving[r] = "completing"
  /\ IF scratch[r].open = owner[r]
     THEN /\ Closed(r)
          /\ saving' = [saving EXCEPT ![r] =
                          IF Completes(r) THEN "posting" ELSE "no"]
     ELSE saving' = [saving EXCEPT ![r] = "posting"] /\ UNCHANGED scratch
  /\ UNCHANGED <<capturing, recovering, outcome, tabs, tongues, hold>>

(* All that was written of a recording.                                    *)
Whole(r) == <<r, scratch[r].pcm>>

(* A refused save taken for a success.                                     *)
SaveUnchecked(r) ==
  /\ saving[r] = "posting" /\ saving' = [saving EXCEPT ![r] = "discarding"]
  /\ library' \in {library, library \cup {Whole(r)}}
  /\ UNCHANGED <<capturing, scratch, recovering, document, abandoned, tabs,
                 tongues, hold>>

(* saveToLibrary sends the files as they are, and may also fail after the  *)
(* server has saved.                                                       *)
saveToLibrary(r) ==
  /\ saving[r] = "posting"
  /\ \E done \in {FALSE, scratch[r].files}, answer \in {"discarding", "no"} :
       /\ answer = "discarding" => done
       /\ library' = IF done THEN library \cup {Whole(r)} ELSE library
       /\ saving' = [saving EXCEPT ![r] = answer]
  /\ UNCHANGED <<capturing, scratch, recovering, document, abandoned, tabs,
                 tongues, hold>>

SaveDiscards(r) ==
  /\ saving[r] = "discarding"
  /\ saving' = [saving EXCEPT ![r] = "no"]
  /\ scratch' = removeCapture(scratch, owner[r], {r})
  /\ Reads(SignedIn, saved)
  /\ UNCHANGED <<capturing, recovering, outcome, tabs, language, saved, hold>>

---------------------------------------------------------------------------
(* Recovery, once per sign-in: every manifest of the directory is taken    *)
(* for an interrupted recording, and of each as much as its PCM stream     *)
(* holds by then; those whose PCM stream is empty are removed.  The order  *)
(* of the random ids is any order.                                         *)

Manifests == {r \in Recordings : scratch[r].files /\ scratch[r].pcm # 0}
Recoverable == {<<r, scratch[r].pcm, "save">> : r \in Manifests}
Recovered ==
  [r \in Recordings |-> [scratch[r] EXCEPT !.early = @ \/ (r \in Manifests /\ stage[r] # "done")]]
Empty == {r \in Recordings : scratch[r].files /\ scratch[r].pcm = 0 /\ scratch[r].open = NoTab}

recover(t) ==
  /\ recovering' = [recovering EXCEPT ![t] = @ \cup Recoverable]
  /\ scratch' = removeCapture(Recovered, t, Empty)

RecoverySaves(t) ==
  /\ \A item \in recovering[t] : item[3] = "save"
  /\ \E item \in recovering[t], done \in BOOLEAN, next \in {"discard", "none"} :
       /\ next = "discard" => done
       /\ library' = IF done THEN library \cup {<<item[1], item[2]>>} ELSE library
       /\ recovering' = [recovering EXCEPT ![t] = (@ \ {item}) \cup
            (IF next = "discard" THEN {<<item[1], item[2], "discard">>} ELSE {})]
  /\ UNCHANGED <<capturing, scratch, saving, document, abandoned, tabs, tongues, hold>>

(* The last one tells the tabs, this one included.                         *)
RecoveryDiscards(t) ==
  /\ \E item \in recovering[t] :
       /\ item[3] = "discard"
       /\ recovering' = [recovering EXCEPT ![t] = @ \ {item}]
       /\ scratch' = removeCapture(scratch, t, {item[1]})
  /\ Reads(SignedIn, saved)
  /\ UNCHANGED <<capturing, saving, outcome, tabs, language, saved, hold>>

---------------------------------------------------------------------------
(* The page and its language.                                              *)

(* setUiLocale: a new language renews cancelCapture, and the old one runs  *)
(* as the clean-up of its effect.                                          *)
setUiLocale(t, to) ==
  /\ language' = [language EXCEPT ![t] = to]
  /\ IF to = language[t]
     THEN UNCHANGED <<hold, captureRef, stage, abandoned, lock>>
     ELSE /\ CleanupRaces \/ \A r \in Of(t) : stage[r] = "recording"
          /\ cancelCapture(t, "language")

(* The settings arrive, or cannot be read and English is shown.            *)
SettingsArrive(t) ==
  /\ t \in reading /\ reading' = reading \ {t}
  /\ \E to \in {saved, "en"} : setUiLocale(t, to)
  /\ UNCHANGED <<saved, owner, catching, scratch, saving, recovering, library,
                 document, tabs>>

(* Settings are reached only while nothing is recorded or transcribed.     *)
SaveLanguage(t) ==
  /\ page[t] = "in" /\ Idle(t)
  /\ \E to \in {"en", "uk"} \ {saved} :
       saved' = to /\ setUiLocale(t, to) /\ Reads(SignedIn, to)
  /\ UNCHANGED <<owner, catching, scratch, saving, recovering, library, document, tabs>>

SignsIn(t) ==
  /\ page' = [page EXCEPT ![t] = "in"]
  /\ Reads({t}, saved)
  /\ recover(t)

Open(t) ==
  /\ page[t] = "closed" /\ opens + turns < MaxOpens /\ opens' = opens + 1
  /\ \/ SignsIn(t)
     \/ /\ page' = [page EXCEPT ![t] = "out"]
        /\ UNCHANGED <<reading, recovering, scratch>>
  /\ UNCHANGED <<signingOut, language, saved, hold, capturing,
                 saving, outcome>>

SignIn(t) ==
  /\ page[t] = "out" /\ SignsIn(t)
  /\ UNCHANGED <<signingOut, opens, language, saved, hold,
                 capturing, saving, outcome>>

SignOut(t) ==
  /\ page[t] = "in" /\ Idle(t) /\ t \notin signingOut
  /\ signingOut' = signingOut \cup {t}
  /\ UNCHANGED <<page, opens, tongues, hold, capturing, scratch, saving, recovering,
                 outcome>>

(* A recording begun while the server was answering goes on.               *)
SignedOut(t) ==
  /\ t \in signingOut /\ signingOut' = signingOut \ {t}
  /\ page' = [page EXCEPT ![t] = "out"]
  /\ setUiLocale(t, "en")
  /\ UNCHANGED <<opens, saved, reading, owner, catching, scratch, saving,
                 recovering, library, document>>

(* The tab is closed, reloaded or crashes at any point.  The browser frees *)
(* its lock and its files; the worker and the promises are gone.           *)
Close(t) ==
  /\ page[t] # "closed" /\ page' = [page EXCEPT ![t] = "closed"]
  /\ signingOut' = signingOut \ {t} /\ reading' = reading \ {t}
  /\ language' = [language EXCEPT ![t] = "en"]
  /\ holding' = holding \ {t} /\ stopWhenReady' = stopWhenReady \ {t}
  /\ captureRef' = [captureRef EXCEPT ![t] = None]
  /\ releaseRecordingLock(t)
  /\ stage' = [r \in Recordings |-> IF r \in Mine(t) THEN "done" ELSE stage[r]]
  /\ catching' = catching \ Mine(t)
  /\ saving' = [r \in Recordings |->
                  IF r \in Mine(t) THEN "no" ELSE saving[r]]
  /\ scratch' = [r \in Recordings |->
                   IF scratch[r].open = t THEN [scratch[r] EXCEPT !.open = NoTab]
                                          ELSE scratch[r]]
  /\ recovering' = [recovering EXCEPT ![t] = {}]
  /\ UNCHANGED <<opens, saved, owner, outcome>>

---------------------------------------------------------------------------
RecordingStep(r) ==
  \/ ScratchStarts(r) \/ CaptureBegins(r)
  \/ StartFails(r) \/ StartFailed(r) \/ Frame(r) \/ Cancelled(r) \/ Cleared(r)
  \/ RecorderStops(r) \/ RealtimeText(r) \/ RealtimeFallback(r)
  \/ UploadText(r) \/ UploadFails(r) \/ cancelTranscription(r) \/ Discarded(r)
  \/ ScratchCompletes(r) \/ SaveCompletes(r) \/ saveToLibrary(r) \/ SaveDiscards(r)

TabStep(t) ==
  \/ stopHoldCapture(t) \/ Stop(t) \/ Cancel(t) \/ SettingsArrive(t)
  \/ Open(t) \/ SignIn(t) \/ SignedOut(t) \/ Close(t)
  \/ RecoverySaves(t) \/ RecoveryDiscards(t)
  \/ \E r \in Recordings : Start(t, r)

Turn(t) == startHoldCapture(t) \/ SaveLanguage(t) \/ SignOut(t)

Next ==
  \/ (\E r \in Recordings : RecordingStep(r)) /\ UNCHANGED turns
  \/ (\E t \in Tabs : TabStep(t)) /\ UNCHANGED turns
  \/ /\ turns < MaxTurns /\ turns' = turns + 1
     /\ opens + turns < MaxOpens /\ Written + turns < MaxFrames
     /\ \E t \in Tabs : Turn(t)

Spec == Init /\ [][Next]_vars

---------------------------------------------------------------------------
Abandoned(r, by) == <<r, by>> \in abandoned
GivenUp(r) == \E by \in {"user", "silence", "language"} : Abandoned(r, by)

(* A microphone is open from its request until the capture is released.    *)
Microphone(r) == stage[r] \in Starting \cup {"recording", "cancelling"} \cup Finishing

(* Two recordings never have a microphone open at the same time, in one tab*)
(* or in two ("Recording is active in another tab."), and what a tab's     *)
(* controls stop or cancel is the one it records, or what a failed start   *)
(* left.  Only as long as no clean-up races (CleanupRaces): a change of    *)
(* language frees the lock of a recording that starts or is being finished.*)
OneCapture ==
  /\ Cardinality({r \in Recordings : Microphone(r)}) <= 1
  /\ \A t \in Tabs : captureRef[t] # None =>
       stage[captureRef[t]] \in {"recording", "broken"} /\ owner[captureRef[t]] = t

(* The lock is held only by a tab that still has a recording under way, so *)
(* that however one ends "the next dictation works", in every tab, and     *)
(* whatever clean-ups race.                                                *)
LockFreed == \A t \in Tabs : lock = t => Of(t) # {}

(* Audio that has reached the PCM file is there, or all of it in the       *)
(* Library, unless the recording was abandoned: through failed saves,      *)
(* closed tabs, and a second tab that recovers what the first one left.    *)
(* The exception is a recording that a second tab recovers while the first *)
(* one is still making it: recover takes it for an interrupted one, and    *)
(* what the Library has for certain is the part written by then.           *)
PartSaved(r) == \E n \in 1 .. scratch[r].pcm : <<r, n>> \in library
InLibrary(r) == Whole(r) \in library \/ (scratch[r].early /\ PartSaved(r))

AudioKept ==
  \A r \in Recordings : scratch[r].pcm # 0 => scratch[r].files \/ InLibrary(r) \/ GivenUp(r)

(* A text enters the document once, of the tab it was dictated in, and     *)
(* that of an abandoned recording never does.                              *)
TextOnce ==
  \A t \in Tabs : \A i \in 1 .. Len(document[t]) :
    LET r == document[t][i] IN
    /\ owner[r] = t /\ \A j \in 1 .. (i - 1) : document[t][j] # r
    /\ \A by \in {"user", "silence", "language"} : ~Abandoned(r, by)

(* Only the user, or silence, makes the app throw away what it heard.      *)
OnlyTheUserAbandons == \A r \in Recordings : ~Abandoned(r, "language")
=============================================================================
