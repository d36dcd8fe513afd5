-------------------------- MODULE WebCaptureProofs --------------------------
(***************************************************************************)
(* Proofs about WebCapture for any tabs and any number of recordings: who  *)
(* holds the recording lock and whose microphone is open meanwhile, and    *)
(* what becomes of the text and of the audio.  That one microphone is open *)
(* assumes that no clean-up runs beside a recording of its tab that needs  *)
(* the lock (CleanupRaces = FALSE), such as a change of language, which    *)
(* frees it.  The others assume nothing of the kind.                       *)
(***************************************************************************)
EXTENDS WebCapture, FiniteSetTheorems, SequenceTheorems, TLAPS

---------------------------------------------------------------------------
(* The lock: its inductive invariant.  Whatever has a microphone open, or  *)
(* still discards the files of a failed start, holds the lock for its tab; *)
(* that two of one tab never share it is because a tab starts nothing      *)
(* while one of its own is active, finished, or cleared away.              *)

(* The stages in which a recording must hold the lock.                     *)
Taking == Starting \cup {"recording", "cancelling"} \cup Finishing
Activated == {"recording", "broken"}
Stages == Ended \cup Taking \cup Leftover

Live(r) == stage[r] \notin Ended \/ r \in catching
Busy(r) == stage[r] \in Taking \/ r \in catching

Types ==
  /\ stage \in [Recordings -> Stages]
  /\ owner \in [Recordings -> Tabs \cup {NoTab}]
  /\ captureRef \in [Tabs -> Recordings \cup {None}]
  /\ lock \in Tabs \cup {NoTab}

Recording(r) ==
  /\ Live(r) => owner[r] \in Tabs
  /\ Busy(r) => lock = owner[r]
  /\ r \in catching => stage[r] \in {"done"} \cup Leftover
  /\ stage[r] \in Activated => captureRef[owner[r]] = r

Tab(t) ==
  /\ captureRef[t] # None =>
       stage[captureRef[t]] \in Activated /\ owner[captureRef[t]] = t
  /\ lock = t => \E r \in Recordings :
       owner[r] = t /\ Live(r) /\ (stage[r] = "broken" => r \in catching)

OnePerTab ==
  \A r, q \in Recordings : Live(r) /\ Live(q) /\ owner[r] = owner[q] => r = q

IInv ==
  /\ Types /\ OnePerTab
  /\ \A r \in Recordings : Recording(r)
  /\ \A t \in Tabs : Tab(t)

LEMMA StageNames ==
  /\ Starting \subseteq Taking /\ Finishing \subseteq Taking
  /\ Taking \cap Ended = {} /\ Taking \cap Leftover = {} /\ Leftover \cap Ended = {}
  /\ Activated \cap Ended = {} /\ "recording" \in Taking /\ "cancelling" \in Taking
  /\ Activated \cap (Starting \cup Finishing \cup {"cancelling", "clearing", "dropping"}) = {}
BY DEF Taking, Activated, Starting, Finishing, Ended, Leftover

LEMMA InitIInv == Init => IInv
<1> SUFFICES ASSUME Init  PROVE IInv
  OBVIOUS
<1>1. Types
  BY DEF Init, Types, Stages, Ended
<1>2. OnePerTab
  BY DEF Init, OnePerTab, Live, Ended
<1>3. \A r \in Recordings : Recording(r)
  BY DEF Init, Recording, Live, Busy, Ended, Taking, Starting, Finishing, Activated
<1>4. \A t \in Tabs : Tab(t)
  BY WebCaptureAssumption DEF Init, Tab
<1>. QED  BY <1>1, <1>2, <1>3, <1>4 DEF IInv

---------------------------------------------------------------------------
(* What a step can do to the lock and the stages.                          *)

(* Nothing.                                                                *)
LEMMA CapturingKept ==
  ASSUME IInv, UNCHANGED capturing
  PROVE  IInv'
BY DEF IInv, Types, OnePerTab, Recording, Live, Busy, Tab, capturing

(* A recording whose microphone is open goes on, neither into nor out of   *)
(* the recording itself.                                                   *)
LEMMA MovesPreserves ==
  ASSUME IInv, NEW r \in Recordings, NEW s \in Taking \ {"recording"}, Goes(r, s),
         stage[r] \in Taking \ {"recording"}, UNCHANGED <<captureRef, lock, owner, catching>>
  PROVE  IInv'
<1>0. /\ stage \in [Recordings -> Stages] /\ s \notin Ended \cup Activated
      /\ stage[r] \notin Ended \cup Activated /\ r \notin catching
  BY StageNames DEF IInv, Types, Recording, Activated, Ended, Leftover
<1>1. /\ stage' \in [Recordings -> Stages] /\ stage'[r] = s
      /\ \A q \in Recordings \ {r} : stage'[q] = stage[q]
  BY <1>0 DEF Goes, Stages
<1>2. \A q \in Recordings : /\ Live(q)' <=> Live(q)
                            /\ Busy(q)' <=> Busy(q)
  BY <1>0, <1>1 DEF Live, Busy
<1>3. \A q \in Recordings : \A a \in Activated : stage'[q] = a <=> stage[q] = a
  BY <1>0, <1>1
<1>4. Types'
  BY <1>1 DEF IInv, Types
<1>5. OnePerTab'
  BY <1>2 DEF IInv, OnePerTab
<1>6. ASSUME NEW q \in Recordings  PROVE Recording(q)'
  BY <1>0, <1>1, <1>2, <1>3 DEF IInv, Recording
<1>7. ASSUME NEW t \in Tabs  PROVE Tab(t)'
  <2>1. captureRef[t] # None => captureRef[t] \in Recordings
    BY DEF IInv, Types
  <2>. QED  BY <1>2, <1>3, <2>1 DEF IInv, Tab, Activated
<1>. QED  BY <1>4, <1>5, <1>6, <1>7 DEF IInv

(* A recording, or what a failed start left, ends and gives the lock back, *)
(* if its tab has it.                                                      *)
LEMMA EndsPreserves ==
  ASSUME IInv, NEW r \in Recordings, Goes(r, "done"),
         \/ stage[r] \in Taking \ {"recording"}
         \/ stage[r] \in {"clearing", "dropping"} /\ r \notin catching,
         releaseRecordingLock(owner[r]), UNCHANGED <<captureRef, owner, catching>>
  PROVE  IInv'
<1>0. /\ stage \in [Recordings -> Stages] /\ Live(r) /\ owner[r] \in Tabs
      /\ r \notin catching /\ stage[r] \notin Activated
  BY StageNames DEF IInv, Types, Recording, Live, Activated, Ended, Leftover
<1>1. /\ stage' \in [Recordings -> Stages] /\ stage'[r] = "done"
      /\ \A q \in Recordings \ {r} : stage'[q] = stage[q]
  BY <1>0 DEF Goes, Stages, Ended
<1>2. \A q \in Recordings : /\ Live(q)' <=> q # r /\ Live(q)
                            /\ Busy(q)' <=> q # r /\ Busy(q)
  BY <1>0, <1>1, StageNames DEF Live, Busy, Ended
<1>3. \A q \in Recordings : Live(q)' => owner[q] # owner[r]
  BY <1>0, <1>2 DEF IInv, OnePerTab
<1>4. lock' = IF lock = owner[r] THEN NoTab ELSE lock
  BY DEF releaseRecordingLock
<1>5. Types'
  BY <1>1, <1>4 DEF IInv, Types
<1>6. OnePerTab'
  BY <1>2 DEF IInv, OnePerTab
<1>7. ASSUME NEW q \in Recordings  PROVE Recording(q)'
  <2>1. Busy(q)' => lock' = owner'[q]
    <3>1. Busy(q)' => Live(q)' /\ lock = owner[q]
      BY <1>2, StageNames DEF IInv, Recording, Busy, Live
    <3>. QED  BY <1>3, <1>4, <3>1
  <2>2. stage'[q] \in Activated => stage'[q] = stage[q]
    BY <1>1, StageNames DEF Ended
  <2>. QED  BY <1>0, <1>1, <1>2, <2>1, <2>2 DEF IInv, Recording
<1>8. ASSUME NEW t \in Tabs  PROVE Tab(t)'
  <2>1. captureRef[t] # None => captureRef[t] \in Recordings /\ captureRef[t] # r
    BY <1>0 DEF IInv, Types, Tab
  <2>2. lock' = t => t # owner[r] /\ lock = t
    BY <1>0, <1>4, WebCaptureAssumption
  <2>. QED  BY <1>1, <1>2, <2>1, <2>2 DEF IInv, Tab
<1>. QED  BY <1>5, <1>6, <1>7, <1>8 DEF IInv

---------------------------------------------------------------------------
(* Starting.                                                               *)

LEMMA StartPreserves ==
  ASSUME ~CleanupRaces, IInv, NEW t \in Tabs, NEW r \in Recordings, startCapture(t, r)
  PROVE  IInv'
<1>0. /\ stage \in [Recordings -> Stages] /\ owner \in [Recordings -> Tabs \cup {NoTab}]
      /\ stage[r] = "new" /\ lock = NoTab /\ lock' = t /\ captureRef' = captureRef
      /\ captureRef[t] = None /\ ~Sending(t) /\ catching' = catching
  BY DEF IInv, Types, startCapture, NextRecording, acquireRecordingLock, CanStart
<1>1. /\ stage' \in [Recordings -> Stages] /\ stage'[r] = "opening"
      /\ \A q \in Recordings \ {r} : stage'[q] = stage[q]
  BY <1>0 DEF startCapture, Goes, Stages, Taking, Starting
<1>2. /\ owner' \in [Recordings -> Tabs \cup {NoTab}] /\ owner'[r] = t
      /\ \A q \in Recordings \ {r} : owner'[q] = owner[q]
  BY <1>0 DEF startCapture
<1>3. \A q \in Recordings : ~Busy(q)
  <2>1. ASSUME NEW q \in Recordings, Busy(q)  PROVE FALSE
    <3>1. Live(q)
      BY <2>1, StageNames DEF Busy, Live
    <3>2. owner[q] \in Tabs /\ lock = owner[q]
      BY <2>1, <3>1 DEF IInv, Recording
    <3>. QED  BY <1>0, <3>2, WebCaptureAssumption
  <2>. QED  BY <2>1
<1>4. \A q \in Recordings : owner[q] = t => ~Live(q)
  <2>1. ASSUME NEW q \in Recordings, owner[q] = t, Live(q)  PROVE FALSE
    <3>1. stage[q] \in Leftover /\ q \in Mine(t)
      BY <1>0, <1>3, <2>1 DEF Stages, Live, Busy, Mine
    <3>2. stage[q] # "broken"
      BY <1>0, <2>1, WebCaptureAssumption DEF IInv, Recording, Activated, None
    <3>3. stage[q] # "clearing" /\ stage[q] # "dropping"
      BY <1>0, <3>1 DEF Sending, startCapture
    <3>. QED  BY <3>1, <3>2, <3>3 DEF Leftover
  <2>. QED  BY <2>1
<1>5. Types'
  BY <1>0, <1>1, <1>2 DEF IInv, Types
<1>6. /\ Live(r)' /\ Busy(r)' /\ r \notin catching
      /\ \A q \in Recordings \ {r} : /\ Live(q)' <=> Live(q)
                                     /\ Busy(q)' <=> Busy(q)
  BY <1>0, <1>1, <1>3 DEF Live, Busy, Ended, Taking, Starting
<1>7. OnePerTab'
  BY <1>2, <1>4, <1>6 DEF IInv, OnePerTab
<1>8. ASSUME NEW q \in Recordings  PROVE Recording(q)'
  <2>1. CASE q = r
    BY <1>0, <1>1, <1>2, <1>6, <2>1 DEF Recording, Activated
  <2>2. CASE q # r
    BY <1>0, <1>1, <1>2, <1>3, <1>6, <2>2 DEF IInv, Recording
  <2>. QED  BY <2>1, <2>2
<1>9. ASSUME NEW u \in Tabs  PROVE Tab(u)'
  <2>1. captureRef[u] # None => captureRef[u] \in Recordings \ {r}
    BY <1>0 DEF IInv, Types, Tab, Activated
  <2>2. captureRef'[u] # None =>
          stage'[captureRef'[u]] \in Activated /\ owner'[captureRef'[u]] = u
    BY <1>0, <1>1, <1>2, <2>1 DEF IInv, Tab
  <2>3. lock' = u => owner'[r] = u /\ Live(r)' /\ stage'[r] # "broken"
    BY <1>0, <1>1, <1>2, <1>6
  <2>. QED  BY <2>2, <2>3 DEF Tab
<1>. QED  BY <1>5, <1>7, <1>8, <1>9 DEF IInv

(* A recording that is not active yet has no other one in its tab.         *)
LEMMA NoneActive ==
  ASSUME IInv, NEW r \in Recordings, stage[r] \notin Ended \cup Activated
  PROVE  owner[r] \in Tabs /\ captureRef[owner[r]] = None
<1>1. owner[r] \in Tabs
  BY DEF IInv, Recording, Live
<1>2. ASSUME captureRef[owner[r]] # None  PROVE FALSE
  <2>1. captureRef[owner[r]] \in Recordings
    BY <1>1, <1>2 DEF IInv, Types
  <2>2. /\ stage[captureRef[owner[r]]] \in Activated
        /\ owner[captureRef[owner[r]]] = owner[r]
    BY <1>1, <1>2 DEF IInv, Tab
  <2>3. captureRef[owner[r]] = r
    BY <2>1, <2>2, StageNames DEF IInv, OnePerTab, Live
  <2>. QED  BY <2>2, <2>3
<1>. QED  BY <1>1, <1>2

(* A recording becomes the active one of its tab, begun or broken.         *)
LEMMA BecomesActivePreserves ==
  ASSUME IInv, NEW r \in Recordings, stage[r] = "pipeline",
         NEW s \in Activated, Goes(r, s),
         captureRef' = [captureRef EXCEPT ![owner[r]] = r],
         IF s = "broken" THEN catching' = catching \cup {r} ELSE UNCHANGED catching,
         UNCHANGED <<lock, owner>>
  PROVE  IInv'
<1>0. /\ stage \in [Recordings -> Stages] /\ captureRef \in [Tabs -> Recordings \cup {None}]
      /\ r \notin catching /\ s \in Stages /\ s \notin Ended
  BY DEF IInv, Types, Recording, Activated, Stages, Taking, Leftover, Ended
<1>1. stage[r] \in Taking /\ stage[r] \notin Ended \cup Activated
  BY DEF Taking, Starting, Ended, Activated
<1>2. owner[r] \in Tabs /\ captureRef[owner[r]] = None /\ lock = owner[r]
  BY <1>1, NoneActive DEF IInv, Recording, Busy
<1>3. /\ stage' \in [Recordings -> Stages] /\ stage'[r] = s
      /\ \A q \in Recordings \ {r} : stage'[q] = stage[q]
  BY <1>0 DEF Goes
<1>4. /\ captureRef' \in [Tabs -> Recordings \cup {None}] /\ captureRef'[owner[r]] = r
      /\ \A t \in Tabs \ {owner[r]} : captureRef'[t] = captureRef[t]
  BY <1>0, <1>2
<1>5. /\ \A q \in Recordings \ {r} : q \in catching' <=> q \in catching
      /\ r \in catching' <=> s = "broken"
  BY <1>0
<1>6. \A q \in Recordings : /\ Live(q)' <=> Live(q)
                            /\ Busy(q)' <=> Busy(q)
  BY <1>0, <1>1, <1>3, <1>5 DEF Live, Busy, Activated, Taking
<1>7. Types'
  BY <1>3, <1>4 DEF IInv, Types
<1>8. OnePerTab'
  BY <1>6 DEF IInv, OnePerTab
<1>9. ASSUME NEW q \in Recordings  PROVE Recording(q)'
  <2>1. CASE q = r
    BY <1>2, <1>3, <1>4, <1>5, <2>1 DEF Recording, Leftover
  <2>2. CASE q # r
    <3>1. stage'[q] = stage[q] /\ (q \in catching' <=> q \in catching)
      BY <1>3, <1>5, <2>2
    <3>2. stage[q] \in Activated => owner[q] \in Tabs \ {owner[r]}
      BY <1>1, <2>2, StageNames DEF IInv, OnePerTab, Recording, Live
    <3>. QED  BY <1>4, <1>6, <3>1, <3>2 DEF IInv, Recording
  <2>. QED  BY <2>1, <2>2
<1>10. ASSUME NEW t \in Tabs  PROVE Tab(t)'
  <2>1. CASE t = owner[r]
    BY <1>1, <1>3, <1>4, <1>5, <1>6, <2>1 DEF Tab, Live
  <2>2. CASE t # owner[r]
    <3>1. captureRef'[t] = captureRef[t] /\ lock # t
      BY <1>2, <1>4, <2>2
    <3>2. captureRef[t] # None => captureRef[t] \in Recordings \ {r}
      BY <2>2 DEF IInv, Types, Tab
    <3>. QED  BY <1>3, <3>1, <3>2 DEF IInv, Tab
  <2>. QED  BY <2>1, <2>2
<1>. QED  BY <1>7, <1>8, <1>9, <1>10 DEF IInv

LEMMA CaptureBeginsPreserves ==
  ASSUME IInv, NEW r \in Recordings, CaptureBegins(r)
  PROVE  IInv'
<1>0. /\ stage[r] = "pipeline" /\ UNCHANGED <<lock, owner, catching>>
      /\ captureRef \in [Tabs -> Recordings \cup {None}]
  BY DEF IInv, Types, CaptureBegins
<1>1. captureRef[owner[r]] = None
  BY <1>0, NoneActive DEF Ended, Activated
<1>2. CASE captureRef' = [captureRef EXCEPT ![owner[r]] = None] /\ Goes(r, "stopping")
  <2>1. captureRef' = captureRef
    BY <1>0, <1>1, <1>2
  <2>. QED  BY <1>0, <1>2, <2>1, MovesPreserves DEF Taking, Starting, Finishing
<1>3. CASE captureRef' = [captureRef EXCEPT ![owner[r]] = r] /\ Goes(r, "recording")
  BY <1>0, <1>3, BecomesActivePreserves DEF Activated
<1>. QED  BY <1>2, <1>3 DEF CaptureBegins

(* A start fails, and keeps the lock until its files are discarded.        *)
LEMMA StartFailsPreserves ==
  ASSUME IInv, NEW r \in Recordings, StartFails(r)
  PROVE  IInv'
<1>0. /\ stage[r] \in Starting /\ catching' = catching \cup {r} /\ UNCHANGED <<lock, owner>>
      /\ stage \in [Recordings -> Stages]
  BY DEF IInv, Types, StartFails
<1>1. CASE Goes(r, "broken") /\ stage[r] = "pipeline"
           /\ captureRef' = [captureRef EXCEPT ![owner[r]] = r]
  BY <1>0, <1>1, BecomesActivePreserves DEF Activated
<1>2. CASE Goes(r, "done") /\ UNCHANGED captureRef
  <2>1. stage[r] \in Taking /\ stage[r] \notin Ended \cup Activated
    BY <1>0 DEF Starting, Taking, Ended, Activated
  <2>2. /\ stage' \in [Recordings -> Stages] /\ stage'[r] = "done"
        /\ \A q \in Recordings \ {r} : stage'[q] = stage[q]
    BY <1>0, <1>2 DEF Goes, Stages, Ended
  <2>3. \A q \in Recordings : /\ Live(q)' <=> Live(q)
                              /\ Busy(q)' <=> Busy(q)
                              /\ stage'[q] \in Activated => stage'[q] = stage[q]
    BY <1>0, <2>1, <2>2 DEF Live, Busy, Activated
  <2>4. Types'
    BY <1>0, <1>2, <2>2 DEF IInv, Types
  <2>5. OnePerTab'
    BY <1>0, <2>3 DEF IInv, OnePerTab
  <2>6. ASSUME NEW q \in Recordings  PROVE Recording(q)'
    BY <1>0, <1>2, <2>2, <2>3 DEF IInv, Recording
  <2>7. ASSUME NEW t \in Tabs  PROVE Tab(t)'
    <3>1. captureRef[t] # None => captureRef[t] \in Recordings \ {r}
      BY <2>1 DEF IInv, Types, Tab
    <3>. QED  BY <1>0, <1>2, <2>2, <2>3, <3>1 DEF IInv, Tab
  <2>. QED  BY <2>4, <2>5, <2>6, <2>7 DEF IInv
<1>. QED  BY <1>1, <1>2 DEF StartFails

LEMMA StartFailedPreserves ==
  ASSUME IInv, NEW r \in Recordings, StartFailed(r)
  PROVE  IInv'
<1>0. /\ r \in catching /\ catching' = catching \ {r} /\ UNCHANGED <<captureRef, stage, owner>>
      /\ lock' = (IF lock = owner[r] THEN NoTab ELSE lock)
      /\ owner[r] \in Tabs /\ lock = owner[r] /\ stage[r] \in {"done"} \cup Leftover
  BY DEF StartFailed, releaseRecordingLock, IInv, Recording, Live, Busy
<1>1. \A q \in Recordings : /\ Live(q)' => Live(q)
                            /\ Busy(q)' => q # r /\ Busy(q)
  BY <1>0, StageNames DEF Live, Busy, Ended
<1>2. \A q \in Recordings : ~Busy(q)'
  <2>1. ASSUME NEW q \in Recordings, Busy(q)'  PROVE FALSE
    <3>1. q # r /\ Busy(q) /\ Live(q) /\ Live(r)
      BY <1>0, <1>1, <2>1, StageNames DEF Busy, Live
    <3>2. owner[q] = owner[r]
      BY <1>0, <3>1 DEF IInv, Recording
    <3>. QED  BY <3>1, <3>2 DEF IInv, OnePerTab
  <2>. QED  BY <2>1
<1>3. Types'
  BY <1>0 DEF IInv, Types
<1>4. OnePerTab'
  BY <1>0, <1>1 DEF IInv, OnePerTab
<1>5. ASSUME NEW q \in Recordings  PROVE Recording(q)'
  BY <1>0, <1>1, <1>2 DEF IInv, Recording
<1>6. ASSUME NEW t \in Tabs  PROVE Tab(t)'
  BY <1>0, WebCaptureAssumption DEF IInv, Tab
<1>. QED  BY <1>3, <1>4, <1>5, <1>6 DEF IInv

---------------------------------------------------------------------------
(* Stopping and cancelling the active recording, or what is left of one.   *)

LEMMA LeavesActivePreserves ==
  ASSUME IInv, NEW t \in Tabs, captureRef[t] # None,
         NEW s, Goes(captureRef[t], s), captureRef' = [captureRef EXCEPT ![t] = None],
         IF stage[captureRef[t]] = "broken" THEN s \in {"clearing", "dropping"}
                                            ELSE s \in {"stopping", "cancelling"},
         UNCHANGED <<lock, owner, catching>>
  PROVE  IInv'
<1>1. PICK r \in Recordings : r = captureRef[t] /\ owner[r] = t /\ stage[r] \in Activated
  BY DEF IInv, Types, Tab
<1>2. /\ s \in Stages /\ s \notin Ended \cup Activated
      /\ s \in Taking <=> stage[r] \in Taking
      /\ stage[r] = "broken" => s \in Leftover
  BY <1>1 DEF Stages, Taking, Starting, Finishing, Ended, Activated, Leftover
<1>3. /\ stage' \in [Recordings -> Stages] /\ stage'[r] = s
      /\ \A q \in Recordings \ {r} : stage'[q] = stage[q]
  BY <1>1, <1>2 DEF Goes, IInv, Types
<1>4. /\ captureRef' \in [Tabs -> Recordings \cup {None}] /\ captureRef'[t] = None
      /\ \A u \in Tabs \ {t} : captureRef'[u] = captureRef[u]
  BY DEF IInv, Types
<1>5. \A q \in Recordings : /\ Live(q)' <=> Live(q)
                            /\ Busy(q)' <=> Busy(q)
  BY <1>1, <1>2, <1>3, StageNames DEF Live, Busy
<1>6. Types'
  BY <1>3, <1>4 DEF IInv, Types
<1>7. OnePerTab'
  BY <1>5 DEF IInv, OnePerTab
<1>8. ASSUME NEW q \in Recordings  PROVE Recording(q)'
  <2>1. CASE q = r
    <3>1. r \in catching => stage[r] = "broken"
      BY <1>1 DEF IInv, Recording, Activated, Leftover
    <3>. QED  BY <1>1, <1>2, <1>3, <1>5, <2>1, <3>1 DEF IInv, Recording
  <2>2. CASE q # r
    <3>1. stage'[q] = stage[q]
      BY <1>3, <2>2
    <3>2. stage[q] \in Activated => owner[q] \in Tabs \ {t}
      BY <1>1, <2>2, StageNames DEF IInv, OnePerTab, Recording, Live
    <3>. QED  BY <1>4, <1>5, <3>1, <3>2 DEF IInv, Recording
  <2>. QED  BY <2>1, <2>2
<1>9. ASSUME NEW u \in Tabs  PROVE Tab(u)'
  <2>1. ASSUME lock' = u
        PROVE  \E q \in Recordings : owner'[q] = u /\ Live(q)'
                                     /\ (stage'[q] = "broken" => q \in catching')
    <3>1. PICK q \in Recordings : owner[q] = u /\ Live(q)
                                  /\ (stage[q] = "broken" => q \in catching)
      BY <2>1 DEF IInv, Tab
    <3>2. stage'[q] = "broken" => stage[q] = "broken"
      BY <1>2, <1>3 DEF Activated
    <3>. QED  BY <1>5, <3>1, <3>2
  <2>2. CASE u = t
    BY <1>4, <2>1, <2>2 DEF Tab
  <2>3. CASE u # t
    <3>1. captureRef'[u] = captureRef[u]
      BY <1>4, <2>3
    <3>2. captureRef[u] # None => captureRef[u] \in Recordings \ {r}
      BY <1>1, <2>3 DEF IInv, Types, Tab
    <3>. QED  BY <1>3, <2>1, <3>1, <3>2 DEF IInv, Tab
  <2>. QED  BY <2>2, <2>3
<1>. QED  BY <1>6, <1>7, <1>8, <1>9 DEF IInv

LEMMA CancelActivePreserves ==
  ASSUME IInv, NEW t \in Tabs, NEW by, captureRef[t] # None, cancelCapture(t, by),
         UNCHANGED <<owner, catching>>
  PROVE  IInv'
<1>1. CASE stage[captureRef[t]] = "broken"
  BY <1>1, LeavesActivePreserves DEF cancelCapture
<1>2. CASE stage[captureRef[t]] # "broken"
  BY <1>2, LeavesActivePreserves DEF cancelCapture
<1>. QED  BY <1>1, <1>2

LEMMA FinishPreserves ==
  ASSUME IInv, NEW t \in Tabs, captureRef[t] # None, finishCapture(t),
         UNCHANGED <<lock, owner, catching>>
  PROVE  IInv'
<1>1. CASE stage[captureRef[t]] = "broken"
  BY <1>1, LeavesActivePreserves DEF finishCapture
<1>2. CASE stage[captureRef[t]] # "broken"
  BY <1>2, LeavesActivePreserves DEF finishCapture
<1>. QED  BY <1>1, <1>2

(* A change of language that finds nothing active finds nothing that needs *)
(* the lock either, and gives nothing back.                                *)
LEMMA LocalePreserves ==
  ASSUME ~CleanupRaces, IInv, NEW t \in Tabs, NEW to, setUiLocale(t, to),
         UNCHANGED <<owner, catching>>
  PROVE  IInv'
<1>1. CASE to = language[t]
  BY <1>1, CapturingKept DEF setUiLocale, capturing
<1>2. CASE to # language[t] /\ captureRef[t] # None
  BY <1>2, CancelActivePreserves DEF setUiLocale
<1>3. CASE to # language[t] /\ captureRef[t] = None
  <2>1. /\ \A r \in Of(t) : stage[r] = "recording"
        /\ lock' = (IF lock = t THEN NoTab ELSE lock) /\ UNCHANGED <<captureRef, stage>>
    BY <1>3 DEF setUiLocale, cancelCapture, releaseRecordingLock
  <2>2. ASSUME lock = t  PROVE FALSE
    <3>1. PICK r \in Recordings : owner[r] = t /\ Live(r)
                                  /\ (stage[r] = "broken" => r \in catching)
      BY <2>2 DEF IInv, Tab
    <3>2. r \in Of(t)
      BY <3>1 DEF Of, Mine, Live
    <3>3. stage[r] = "recording"
      BY <2>1, <3>2
    <3>. QED  BY <1>3, <3>1, <3>3, WebCaptureAssumption DEF IInv, Recording, Activated, None
  <2>. QED  BY <2>1, <2>2, CapturingKept DEF capturing
<1>. QED  BY <1>1, <1>2, <1>3

---------------------------------------------------------------------------
(* A tab is closed.                                                        *)

LEMMA ClosePreserves ==
  ASSUME IInv, NEW t \in Tabs, Close(t)
  PROVE  IInv'
<1>0. /\ stage \in [Recordings -> Stages] /\ captureRef \in [Tabs -> Recordings \cup {None}]
      /\ owner' = owner /\ lock' = IF lock = t THEN NoTab ELSE lock
  BY DEF IInv, Types, Close, releaseRecordingLock
<1>1. /\ stage' \in [Recordings -> Stages]
      /\ \A q \in Recordings : owner[q] = t => stage'[q] = "done" /\ q \notin catching'
      /\ \A q \in Recordings : owner[q] # t =>
           stage'[q] = stage[q] /\ (q \in catching' <=> q \in catching)
  BY <1>0 DEF Close, Mine, Stages, Ended
<1>2. /\ captureRef' \in [Tabs -> Recordings \cup {None}] /\ captureRef'[t] = None
      /\ \A u \in Tabs \ {t} : captureRef'[u] = captureRef[u]
  BY <1>0 DEF Close
<1>3. \A q \in Recordings : /\ Live(q)' <=> owner[q] # t /\ Live(q)
                            /\ Busy(q)' <=> owner[q] # t /\ Busy(q)
  BY <1>1, StageNames DEF Live, Busy, Ended
<1>4. Types'
  BY <1>0, <1>1, <1>2 DEF IInv, Types
<1>5. OnePerTab'
  BY <1>0, <1>3 DEF IInv, OnePerTab
<1>6. ASSUME NEW q \in Recordings  PROVE Recording(q)'
  <2>1. CASE owner[q] = t
    BY <1>1, <1>3, <2>1, StageNames DEF Recording, Ended
  <2>2. CASE owner[q] # t
    <3>1. stage[q] \in Activated => owner[q] \in Tabs \ {t}
      BY <2>2, StageNames DEF IInv, Recording, Live
    <3>. QED  BY <1>0, <1>1, <1>2, <1>3, <2>2, <3>1 DEF IInv, Recording
  <2>. QED  BY <2>1, <2>2
<1>7. ASSUME NEW u \in Tabs  PROVE Tab(u)'
  <2>1. lock' = u => lock = u /\ u # t
    BY <1>0, WebCaptureAssumption
  <2>2. lock' = u => \E q \in Recordings : owner'[q] = u /\ Live(q)'
                                           /\ (stage'[q] = "broken" => q \in catching')
    BY <1>0, <1>1, <1>3, <2>1 DEF IInv, Tab
  <2>3. captureRef'[u] # None => u # t /\ captureRef'[u] = captureRef[u]
    BY <1>2
  <2>4. captureRef'[u] # None =>
          stage'[captureRef'[u]] \in Activated /\ owner'[captureRef'[u]] = u
    <3>1. captureRef[u] # None => captureRef[u] \in Recordings
      BY DEF IInv, Types
    <3>. QED  BY <1>0, <1>1, <2>3, <3>1 DEF IInv, Tab
  <2>. QED  BY <2>2, <2>4 DEF Tab
<1>. QED  BY <1>4, <1>5, <1>6, <1>7 DEF IInv

---------------------------------------------------------------------------
(* Every step.                                                             *)

LEMMA RecordingStepPreserves ==
  ASSUME IInv, NEW r \in Recordings, RecordingStep(r)
  PROVE  IInv'
<1>. USE DEF Starting, Finishing, Taking
<1>1. CASE ScratchStarts(r)
  BY <1>1, MovesPreserves DEF ScratchStarts
<1>2. CASE CaptureBegins(r)
  BY <1>2, CaptureBeginsPreserves
<1>3. CASE StartFails(r) \/ StartFailed(r)
  BY <1>3, StartFailsPreserves, StartFailedPreserves
<1>4. CASE Frame(r) \/ SaveCompletes(r) \/ saveToLibrary(r) \/ SaveDiscards(r)
  BY <1>4, CapturingKept DEF Frame, SaveCompletes, saveToLibrary, SaveDiscards
<1>5. CASE Cancelled(r)
  BY <1>5, EndsPreserves DEF Cancelled
<1>6. CASE Cleared(r)
  BY <1>6, EndsPreserves DEF Cleared, Finally
<1>7. CASE RecorderStops(r)
  BY <1>7, MovesPreserves DEF RecorderStops
<1>8. CASE RealtimeText(r) \/ UploadText(r)
  BY <1>8, EndsPreserves DEF RealtimeText, UploadText, TextArrives, Finally
<1>9. CASE RealtimeFallback(r)
  BY <1>9, MovesPreserves DEF RealtimeFallback
<1>10. CASE UploadFails(r) \/ Discarded(r)
  BY <1>10, EndsPreserves DEF UploadFails, Discarded, Finally
<1>11. CASE cancelTranscription(r)
  BY <1>11, MovesPreserves DEF cancelTranscription
<1>12. CASE ScratchCompletes(r)
  <2>1. CASE Completes(r)
    BY <1>12, <2>1, MovesPreserves DEF ScratchCompletes
  <2>2. CASE ~Completes(r)
    BY <1>12, <2>2, EndsPreserves DEF ScratchCompletes, Finally
  <2>. QED  BY <2>1, <2>2
<1>. QED
  BY <1>1, <1>2, <1>3, <1>4, <1>5, <1>6, <1>7, <1>8, <1>9, <1>10, <1>11, <1>12
  DEF RecordingStep

LEMMA TabStepPreserves ==
  ASSUME ~CleanupRaces, IInv, NEW t \in Tabs, TabStep(t)
  PROVE  IInv'
<1>1. CASE stopHoldCapture(t)
  <2>1. CASE captureRef[t] # None
    BY <1>1, <2>1, FinishPreserves DEF stopHoldCapture
  <2>2. CASE captureRef[t] = None
    BY <1>1, <2>2, CapturingKept DEF stopHoldCapture, capturing
  <2>. QED  BY <2>1, <2>2
<1>2. CASE Stop(t)
  BY <1>2, FinishPreserves DEF Stop
<1>3. CASE Cancel(t)
  BY <1>3, CancelActivePreserves DEF Cancel
<1>4. CASE SettingsArrive(t)
  <2>1. PICK to \in {saved, "en"} : setUiLocale(t, to)
    BY <1>4 DEF SettingsArrive
  <2>2. UNCHANGED <<owner, catching>>
    BY <1>4 DEF SettingsArrive
  <2>. QED  BY <2>1, <2>2, LocalePreserves
<1>5. CASE Open(t) \/ SignIn(t)
  BY <1>5, CapturingKept DEF Open, SignIn
<1>6. CASE SignedOut(t)
  BY <1>6, LocalePreserves DEF SignedOut
<1>7. CASE Close(t)
  BY <1>7, ClosePreserves
<1>8. CASE \E r \in Recordings : Start(t, r)
  BY <1>8, StartPreserves DEF Start
<1>9. CASE RecoverySaves(t) \/ RecoveryDiscards(t)
  BY <1>9, CapturingKept DEF RecoverySaves, RecoveryDiscards
<1>. QED  BY <1>1, <1>2, <1>3, <1>4, <1>5, <1>6, <1>7, <1>8, <1>9 DEF TabStep

LEMMA TurnPreserves ==
  ASSUME ~CleanupRaces, IInv, NEW t \in Tabs, Turn(t)
  PROVE  IInv'
<1>1. CASE startHoldCapture(t)
  BY <1>1, StartPreserves, CapturingKept DEF startHoldCapture
<1>2. CASE SaveLanguage(t)
  <2>1. PICK to \in {"en", "uk"} \ {saved} : setUiLocale(t, to)
    BY <1>2 DEF SaveLanguage
  <2>2. UNCHANGED <<owner, catching>>
    BY <1>2 DEF SaveLanguage
  <2>. QED  BY <2>1, <2>2, LocalePreserves
<1>3. CASE SignOut(t)
  BY <1>3, CapturingKept DEF SignOut
<1>. QED  BY <1>1, <1>2, <1>3 DEF Turn

(* The invariant holds whenever no clean-up races a recording.             *)
THEOREM CaptureInvariant ==
  ASSUME ~CleanupRaces
  PROVE  Spec => []IInv
<1>1. Init => IInv
  BY InitIInv
<1>2. IInv /\ [Next]_vars => IInv'
  <2>1. ASSUME IInv, Next  PROVE IInv'
    BY <2>1, RecordingStepPreserves, TabStepPreserves, TurnPreserves DEF Next
  <2>2. ASSUME IInv, UNCHANGED vars  PROVE IInv'
    BY <2>2, CapturingKept DEF vars
  <2>. QED  BY <2>1, <2>2
<1>. QED  BY <1>1, <1>2, PTL DEF Spec

(* Two recordings never have a microphone open at the same time, in one    *)
(* tab or in two, from the request until the tracks are released; what is  *)
(* active in a tab is its own.  acquireRecordingLock is exclusive, and no  *)
(* path of another recording, nor of a start that failed after its capture *)
(* had become active, gives the lock of this one back.                     *)
THEOREM OneAtATime ==
  ASSUME ~CleanupRaces
  PROVE  Spec => []OneCapture
<1>1. IInv => OneCapture
  <2> SUFFICES ASSUME IInv  PROVE OneCapture
    OBVIOUS
  <2>. DEFINE S == {r \in Recordings : Microphone(r)}
  <2>1. \A r, q \in S : r = q
    <3>1. \A r \in S : r \in Recordings /\ Busy(r) /\ Live(r)
      BY StageNames DEF Microphone, Busy, Live, Taking
    <3>. QED  BY <3>1 DEF IInv, Recording, OnePerTab
  <2>2. Cardinality(S) <= 1
    <3>1. CASE S = {}
      BY <3>1, FS_EmptySet
    <3>2. CASE S # {}
      <4>1. PICK r \in S : S = {r}
        BY <2>1, <3>2
      <4>. QED  BY <4>1, FS_Singleton
    <3>. QED  BY <3>1, <3>2
  <2>. QED  BY <2>2 DEF IInv, Tab, Activated, OneCapture
<1>. QED  BY <1>1, CaptureInvariant, PTL

---------------------------------------------------------------------------
(* The text.  These invariants need nothing of the lock, and hold whatever *)
(* the language does: a recording whose text is in a document is over, and *)
(* was not given up; what is given up is cancelled, discarded, and over.   *)

Over == {"cancelling", "discarding", "done"}

Entered(r) == stage[r] = "done" /\ \A a \in abandoned : a[1] # r

Entries(t) ==
  /\ document[t] \in Seq(Recordings)
  /\ \A i \in 1 .. Len(document[t]) :
       /\ owner[document[t][i]] = t /\ Entered(document[t][i])
       /\ \A j \in 1 .. (i - 1) : document[t][j] # document[t][i]

TextTypes ==
  /\ stage \in [Recordings -> Stages]
  /\ owner \in [Recordings -> Tabs \cup {NoTab}]
  /\ captureRef \in [Tabs -> Recordings \cup {None}]
  /\ DOMAIN document = Tabs

Active(t) ==
  captureRef[t] # None => stage[captureRef[t]] \in Activated /\ owner[captureRef[t]] = t

Underway(r) == stage[r] \notin Ended => owner[r] \in Tabs

TextInv ==
  /\ TextTypes
  /\ \A r \in Recordings : Underway(r)
  /\ \A t \in Tabs : Active(t) /\ Entries(t)
  /\ \A a \in abandoned : a[1] \in Recordings /\ stage[a[1]] \in Over

LEMMA InitTextInv == Init => TextInv
<1> SUFFICES ASSUME Init  PROVE TextInv
  OBVIOUS
<1>1. TextTypes
  BY DEF Init, TextTypes, Stages, Ended
<1>2. \A r \in Recordings : Underway(r)
  BY DEF Init, Underway, Ended
<1>3. ASSUME NEW t \in Tabs  PROVE Active(t) /\ Entries(t)
  <2>1. document[t] = <<>> /\ captureRef[t] = None
    BY <1>3 DEF Init
  <2>2. <<>> \in Seq(Recordings) /\ Len(<<>>) = 0
    OBVIOUS
  <2>. QED  BY <2>1, <2>2 DEF Active, Entries
<1>. QED  BY <1>1, <1>2, <1>3 DEF Init, TextInv

(* Documents that no step touches stay as they are, if what was entered    *)
(* still is.                                                               *)
LEMMA EntriesKept ==
  ASSUME TextInv, NEW t \in Tabs, document'[t] = document[t],
         \A r \in Recordings : Entered(r) => Entered(r)' /\ owner'[r] = owner[r]
  PROVE  Entries(t)'
<1>1. Entries(t)
  BY DEF TextInv
<1>2. \A i \in 1 .. Len(document[t]) : document[t][i] \in Recordings
  BY <1>1, ElementOfSeq DEF Entries
<1>. QED  BY <1>1, <1>2 DEF Entries

LEMMA TextKept ==
  ASSUME TextInv, UNCHANGED <<stage, owner, captureRef, document, abandoned>>
  PROVE  TextInv'
<1>1. TextTypes'
  BY DEF TextInv, TextTypes
<1>2. \A r \in Recordings : Underway(r)'
  BY DEF TextInv, Underway
<1>3. ASSUME NEW t \in Tabs  PROVE Active(t)' /\ Entries(t)'
  BY EntriesKept DEF TextInv, Active, Entered
<1>. QED  BY <1>1, <1>2, <1>3 DEF TextInv

(* A recording that is not the active one goes on, and is given up only    *)
(* with the step to a stage where that shows.                              *)
LEMMA TextMovesAway ==
  ASSUME TextInv, NEW r \in Recordings, NEW s \in Stages \ {"new"}, Goes(r, s),
         stage[r] \notin Ended \cup Activated,
         stage[r] \in Over => s \in Over,
         \A a \in abandoned' : a \in abandoned \/ (a[1] = r /\ s \in Over),
         captureRef' \in [Tabs -> Recordings \cup {None}],
         \A t \in Tabs : captureRef'[t] \in {None, captureRef[t]},
         UNCHANGED <<owner, document>>
  PROVE  TextInv'
<1>1. /\ stage' \in [Recordings -> Stages] /\ stage'[r] = s
      /\ \A q \in Recordings \ {r} : stage'[q] = stage[q]
  BY DEF TextInv, TextTypes, Goes
<1>2. TextTypes'
  BY <1>1 DEF TextInv, TextTypes
<1>3. \A q \in Recordings : Underway(q)'
  BY <1>1 DEF TextInv, Underway
<1>4. ASSUME NEW t \in Tabs  PROVE Active(t)'
  <2>1. captureRef[t] # None => captureRef[t] \in Recordings \ {r}
    BY DEF TextInv, TextTypes, Active
  <2>. QED  BY <1>1, <2>1 DEF TextInv, Active
<1>5. ASSUME NEW q \in Recordings, Entered(q)  PROVE Entered(q)'
  <2>1. q # r
    BY <1>5 DEF Entered, Ended
  <2>. QED  BY <1>1, <1>5, <2>1 DEF Entered
<1>6. ASSUME NEW a \in abandoned'  PROVE a[1] \in Recordings /\ stage'[a[1]] \in Over
  <2>1. CASE a[1] = r
    <3>1. s \in Over
      BY <1>6, <2>1 DEF TextInv
    <3>. QED  BY <1>1, <2>1, <3>1
  <2>2. CASE a[1] # r
    BY <1>1, <1>6, <2>2 DEF TextInv
  <2>. QED  BY <2>1, <2>2
<1>7. ASSUME NEW t \in Tabs  PROVE Entries(t)'
  BY <1>5, <1>7, EntriesKept
<1>. QED  BY <1>2, <1>3, <1>4, <1>6, <1>7 DEF TextInv

LEMMA TextMoves ==
  ASSUME TextInv, NEW r \in Recordings, NEW s \in Stages \ {"new"}, Goes(r, s),
         stage[r] \notin Ended \cup Activated,
         stage[r] \in Over => s \in Over,
         \A a \in abandoned' : a \in abandoned \/ (a[1] = r /\ s \in Over),
         UNCHANGED <<captureRef, owner, document>>
  PROVE  TextInv'
BY TextMovesAway DEF TextInv, TextTypes

(* The text of a recording goes into the document of its tab, and the      *)
(* recording is over.                                                      *)
LEMMA TextEnters ==
  ASSUME TextInv, NEW r \in Recordings, stage[r] \in {"realtime", "uploading"},
         TextArrives(r), UNCHANGED abandoned
  PROVE  TextInv'
<1>1. stage[r] \notin Ended \cup Activated /\ stage[r] \notin Over
  BY DEF Ended, Activated, Over
<1>2. PICK t \in Tabs : t = owner[r]
  BY <1>1 DEF TextInv, Underway
<1>3. PICK d \in Seq(Recordings) : d = document[t]
  BY DEF TextInv, Entries
<1>4. PICK e \in Seq(Recordings) : e = Append(d, r)
  BY AppendProperties
<1>5. /\ Len(e) = Len(d) + 1 /\ Len(d) \in Nat /\ e[Len(d) + 1] = r
      /\ \A i \in 1 .. Len(d) : e[i] = d[i]
  BY <1>4, AppendProperties
<1>6. /\ document'[t] = e /\ \A u \in Tabs \ {t} : document'[u] = document[u]
      /\ UNCHANGED <<captureRef, owner>> /\ DOMAIN document' = Tabs
  BY <1>2, <1>3, <1>4 DEF TextInv, TextTypes, TextArrives, Finally
<1>7. /\ stage' \in [Recordings -> Stages] /\ stage'[r] = "done"
      /\ \A q \in Recordings \ {r} : stage'[q] = stage[q]
  BY DEF TextInv, TextTypes, TextArrives, Finally, Goes, Stages, Ended
<1>8. TextTypes'
  BY <1>6, <1>7 DEF TextInv, TextTypes
<1>9. \A q \in Recordings : Underway(q)'
  BY <1>6, <1>7 DEF TextInv, Underway, Ended
<1>10. ASSUME NEW u \in Tabs  PROVE Active(u)'
  <2>1. captureRef[u] # None => captureRef[u] \in Recordings \ {r}
    BY <1>1 DEF TextInv, TextTypes, Active
  <2>. QED  BY <1>6, <1>7, <2>1 DEF TextInv, Active
<1>11. ASSUME NEW q \in Recordings, Entered(q)  PROVE q # r /\ Entered(q)'
  <2>1. q # r
    BY <1>1, <1>11 DEF Entered, Ended
  <2>. QED  BY <1>7, <1>11, <2>1 DEF Entered
<1>12. Entered(r)'
  BY <1>1, <1>7 DEF TextInv, Entered
<1>13. ASSUME NEW i \in 1 .. Len(d)
       PROVE  /\ d[i] \in Recordings /\ owner[d[i]] = t /\ Entered(d[i])
              /\ \A j \in 1 .. (i - 1) : d[j] # d[i]
  BY <1>3, ElementOfSeq DEF TextInv, Entries
<1>14. ASSUME NEW i \in 1 .. Len(e)
       PROVE  /\ owner'[e[i]] = t /\ Entered(e[i])'
              /\ \A j \in 1 .. (i - 1) : e[j] # e[i]
  <2>1. CASE i = Len(d) + 1
    <3>1. e[i] = r
      BY <1>5, <2>1
    <3>2. \A j \in 1 .. (i - 1) : e[j] = d[j] /\ j \in 1 .. Len(d)
      BY <1>5, <2>1
    <3>3. \A j \in 1 .. Len(d) : d[j] # r
      BY <1>11, <1>13
    <3>. QED  BY <1>2, <1>6, <1>12, <3>1, <3>2, <3>3
  <2>2. CASE i # Len(d) + 1
    <3>1. i \in 1 .. Len(d) /\ e[i] = d[i]
      BY <1>5, <2>2
    <3>2. \A j \in 1 .. (i - 1) : e[j] = d[j]
      BY <1>5, <3>1
    <3>3. d[i] \in Recordings /\ owner[d[i]] = t /\ Entered(d[i])
          /\ \A j \in 1 .. (i - 1) : d[j] # d[i]
      BY <1>13, <3>1
    <3>4. Entered(d[i])'
      BY <1>11, <3>3
    <3>. QED  BY <1>6, <3>1, <3>2, <3>3, <3>4
  <2>. QED  BY <2>1, <2>2
<1>15. ASSUME NEW u \in Tabs  PROVE Entries(u)'
  <2>1. CASE u # t
    BY <1>6, <1>11, <2>1, EntriesKept
  <2>2. CASE u = t
    BY <1>6, <1>14, <2>2 DEF Entries
  <2>. QED  BY <2>1, <2>2
<1>16. ASSUME NEW a \in abandoned'  PROVE a[1] \in Recordings /\ stage'[a[1]] \in Over
  BY <1>7, <1>16 DEF TextInv, Over
<1>. QED  BY <1>8, <1>9, <1>10, <1>15, <1>16 DEF TextInv

LEMMA StartKeepsText ==
  ASSUME TextInv, NEW t \in Tabs, NEW r \in Recordings, startCapture(t, r)
  PROVE  TextInv'
<1>1. /\ stage[r] = "new" /\ stage' = [stage EXCEPT ![r] = "opening"]
      /\ owner' = [owner EXCEPT ![r] = t]
      /\ UNCHANGED <<captureRef, document, abandoned>>
  BY DEF startCapture, NextRecording, Goes, outcome
<1>2. /\ stage' \in [Recordings -> Stages] /\ stage'[r] = "opening"
      /\ \A q \in Recordings \ {r} : stage'[q] = stage[q]
  BY <1>1 DEF TextInv, TextTypes, Stages, Taking, Starting
<1>3. /\ owner' \in [Recordings -> Tabs \cup {NoTab}] /\ owner'[r] = t
      /\ \A q \in Recordings \ {r} : owner'[q] = owner[q]
  BY <1>1 DEF TextInv, TextTypes
<1>4. TextTypes'
  BY <1>1, <1>2, <1>3 DEF TextInv, TextTypes
<1>5. \A q \in Recordings : Underway(q)'
  BY <1>2, <1>3 DEF TextInv, Underway
<1>6. ASSUME NEW u \in Tabs  PROVE Active(u)'
  <2>1. captureRef[u] # None => captureRef[u] \in Recordings \ {r}
    BY <1>1 DEF TextInv, TextTypes, Active, Activated
  <2>. QED  BY <1>1, <1>2, <1>3, <2>1 DEF TextInv, Active
<1>7. ASSUME NEW q \in Recordings, Entered(q)  PROVE Entered(q)' /\ owner'[q] = owner[q]
  <2>1. q # r
    BY <1>1, <1>7 DEF Entered
  <2>. QED  BY <1>1, <1>2, <1>3, <1>7, <2>1 DEF Entered
<1>8. ASSUME NEW u \in Tabs  PROVE Entries(u)'
  BY <1>1, <1>7, EntriesKept
<1>9. ASSUME NEW a \in abandoned'  PROVE a[1] \in Recordings /\ stage'[a[1]] \in Over
  <2>1. a[1] # r
    BY <1>1, <1>9 DEF TextInv, Over
  <2>. QED  BY <1>1, <1>2, <1>9, <2>1 DEF TextInv
<1>. QED  BY <1>4, <1>5, <1>6, <1>8, <1>9 DEF TextInv

(* The recording of a tab becomes its active one.                          *)
LEMMA BecomesActiveKeepsText ==
  ASSUME TextInv, NEW r \in Recordings, stage[r] = "pipeline",
         NEW s \in Activated, Goes(r, s),
         captureRef' = [captureRef EXCEPT ![owner[r]] = r],
         UNCHANGED <<owner, document, abandoned>>
  PROVE  TextInv'
<1>1. /\ stage' \in [Recordings -> Stages] /\ stage'[r] = s
      /\ \A q \in Recordings \ {r} : stage'[q] = stage[q]
  BY DEF TextInv, TextTypes, Goes, Stages, Taking, Activated, Leftover
<1>2. PICK t \in Tabs : t = owner[r]
  BY DEF TextInv, Underway, Ended
<1>3. /\ captureRef' \in [Tabs -> Recordings \cup {None}] /\ captureRef'[t] = r
      /\ \A u \in Tabs \ {t} : captureRef'[u] = captureRef[u]
  BY <1>2 DEF TextInv, TextTypes
<1>4. TextTypes'
  BY <1>1, <1>3 DEF TextInv, TextTypes
<1>5. \A q \in Recordings : Underway(q)'
  BY <1>1, <1>2 DEF TextInv, Underway
<1>6. ASSUME NEW u \in Tabs  PROVE Active(u)'
  <2>1. CASE u = t
    BY <1>1, <1>2, <1>3, <2>1 DEF Active
  <2>2. CASE u # t
    <3>1. captureRef[u] # None => captureRef[u] \in Recordings \ {r}
      BY DEF TextInv, TextTypes, Active, Activated
    <3>. QED  BY <1>1, <1>3, <2>2, <3>1 DEF TextInv, Active
  <2>. QED  BY <2>1, <2>2
<1>7. ASSUME NEW q \in Recordings, Entered(q)  PROVE Entered(q)'
  <2>1. q # r
    BY <1>7 DEF Entered
  <2>. QED  BY <1>1, <1>7, <2>1 DEF Entered
<1>8. ASSUME NEW u \in Tabs  PROVE Entries(u)'
  BY <1>7, EntriesKept
<1>9. ASSUME NEW a \in abandoned'  PROVE a[1] \in Recordings /\ stage'[a[1]] \in Over
  <2>1. a[1] # r
    BY <1>9 DEF TextInv, Over
  <2>. QED  BY <1>1, <1>9, <2>1 DEF TextInv
<1>. QED  BY <1>4, <1>5, <1>6, <1>8, <1>9 DEF TextInv

(* The active recording of a tab is stopped, or cancelled and given up;    *)
(* what is left of one is cleared away.                                    *)
LEMMA LeavesActiveKeepsText ==
  ASSUME TextInv, NEW t \in Tabs, captureRef[t] # None,
         NEW s \in {"stopping", "cancelling", "clearing", "dropping"},
         Goes(captureRef[t], s), captureRef' = [captureRef EXCEPT ![t] = None],
         \A a \in abandoned' : a \in abandoned \/ (a[1] = captureRef[t] /\ s = "cancelling"),
         UNCHANGED <<owner, document>>
  PROVE  TextInv'
<1>1. PICK r \in Recordings : r = captureRef[t] /\ stage[r] \in Activated /\ owner[r] = t
  BY DEF TextInv, TextTypes, Active
<1>2. /\ stage' \in [Recordings -> Stages] /\ stage'[r] = s
      /\ \A q \in Recordings \ {r} : stage'[q] = stage[q]
  BY <1>1 DEF TextInv, TextTypes, Goes, Stages, Taking, Finishing, Leftover
<1>3. /\ captureRef' \in [Tabs -> Recordings \cup {None}] /\ captureRef'[t] = None
      /\ \A u \in Tabs \ {t} : captureRef'[u] = captureRef[u]
  BY DEF TextInv, TextTypes
<1>4. TextTypes'
  BY <1>2, <1>3 DEF TextInv, TextTypes
<1>5. \A q \in Recordings : Underway(q)'
  BY <1>1, <1>2, StageNames DEF TextInv, Underway
<1>6. ASSUME NEW u \in Tabs  PROVE Active(u)'
  <2>1. CASE u = t
    BY <1>3, <2>1 DEF Active
  <2>2. CASE u # t
    <3>1. captureRef[u] # None => captureRef[u] \in Recordings \ {r}
      BY <1>1, <2>2 DEF TextInv, TextTypes, Active
    <3>. QED  BY <1>2, <1>3, <2>2, <3>1 DEF TextInv, Active
  <2>. QED  BY <2>1, <2>2
<1>7. ASSUME NEW q \in Recordings, Entered(q)  PROVE Entered(q)'
  <2>1. q # r
    BY <1>1, <1>7 DEF Entered, Activated
  <2>. QED  BY <1>1, <1>2, <1>7, <2>1 DEF Entered
<1>8. ASSUME NEW u \in Tabs  PROVE Entries(u)'
  BY <1>7, EntriesKept
<1>9. ASSUME NEW a \in abandoned'  PROVE a[1] \in Recordings /\ stage'[a[1]] \in Over
  <2>1. CASE a \in abandoned
    <3>1. a[1] \in Recordings \ {r}
      BY <1>1, <2>1 DEF TextInv, Over, Activated
    <3>. QED  BY <1>2, <2>1, <3>1 DEF TextInv
  <2>2. CASE a \notin abandoned
    BY <1>1, <1>2, <1>9, <2>2 DEF Over
  <2>. QED  BY <2>1, <2>2
<1>. QED  BY <1>4, <1>5, <1>6, <1>8, <1>9 DEF TextInv

LEMMA CancelKeepsText ==
  ASSUME TextInv, NEW t \in Tabs, NEW by, cancelCapture(t, by), UNCHANGED <<owner, document>>
  PROVE  TextInv'
<1>1. CASE captureRef[t] = None
  BY <1>1, TextKept DEF cancelCapture
<1>2. CASE captureRef[t] # None /\ stage[captureRef[t]] = "broken"
  BY <1>2, LeavesActiveKeepsText DEF cancelCapture
<1>3. CASE captureRef[t] # None /\ stage[captureRef[t]] # "broken"
  <2>1. \A a \in abandoned' : a \in abandoned \/ a[1] = captureRef[t]
    BY <1>3 DEF cancelCapture
  <2>. QED  BY <1>3, <2>1, LeavesActiveKeepsText DEF cancelCapture
<1>. QED  BY <1>1, <1>2, <1>3

LEMMA FinishKeepsText ==
  ASSUME TextInv, NEW t \in Tabs, captureRef[t] # None, finishCapture(t),
         UNCHANGED <<owner, document, abandoned>>
  PROVE  TextInv'
<1>1. CASE stage[captureRef[t]] = "broken"
  BY <1>1, LeavesActiveKeepsText DEF finishCapture
<1>2. CASE stage[captureRef[t]] # "broken"
  BY <1>2, LeavesActiveKeepsText DEF finishCapture
<1>. QED  BY <1>1, <1>2

LEMMA LocaleKeepsText ==
  ASSUME TextInv, NEW t \in Tabs, NEW to, setUiLocale(t, to), UNCHANGED <<owner, document>>
  PROVE  TextInv'
<1>1. CASE to = language[t]
  BY <1>1, TextKept DEF setUiLocale
<1>2. CASE to # language[t]
  BY <1>2, CancelKeepsText DEF setUiLocale
<1>. QED  BY <1>1, <1>2

(* The recordings of a tab that is closed are over, in whatever stage.     *)
LEMMA CloseKeepsText ==
  ASSUME TextInv, NEW t \in Tabs, Close(t)
  PROVE  TextInv'
<1>1. UNCHANGED <<owner, document, abandoned>>
  BY DEF Close, outcome
<1>2. /\ stage' \in [Recordings -> Stages]
      /\ \A q \in Recordings : owner[q] = t => stage'[q] = "done"
      /\ \A q \in Recordings : owner[q] # t => stage'[q] = stage[q]
  BY DEF TextInv, TextTypes, Close, Mine, Stages, Ended
<1>3. /\ captureRef' \in [Tabs -> Recordings \cup {None}] /\ captureRef'[t] = None
      /\ \A u \in Tabs \ {t} : captureRef'[u] = captureRef[u]
  BY DEF TextInv, TextTypes, Close
<1>4. TextTypes'
  BY <1>1, <1>2, <1>3 DEF TextInv, TextTypes
<1>5. \A q \in Recordings : Underway(q)'
  BY <1>1, <1>2 DEF TextInv, Underway, Ended
<1>6. ASSUME NEW u \in Tabs  PROVE Active(u)'
  <2>1. CASE u = t
    BY <1>3, <2>1 DEF Active
  <2>2. CASE u # t
    <3>1. captureRef[u] # None => captureRef[u] \in Recordings /\ owner[captureRef[u]] = u
      BY DEF TextInv, TextTypes, Active
    <3>. QED  BY <1>1, <1>2, <1>3, <2>2, <3>1 DEF TextInv, Active
  <2>. QED  BY <2>1, <2>2
<1>7. ASSUME NEW q \in Recordings, Entered(q)  PROVE Entered(q)'
  BY <1>1, <1>2, <1>7 DEF Entered
<1>8. ASSUME NEW u \in Tabs  PROVE Entries(u)'
  BY <1>1, <1>7, EntriesKept
<1>9. ASSUME NEW a \in abandoned'  PROVE a[1] \in Recordings /\ stage'[a[1]] \in Over
  <2>1. a[1] \in Recordings /\ stage[a[1]] \in Over
    BY <1>1, <1>9 DEF TextInv
  <2>. QED  BY <1>2, <2>1 DEF Over
<1>. QED  BY <1>4, <1>5, <1>6, <1>8, <1>9 DEF TextInv

LEMMA RecordingStepKeepsText ==
  ASSUME TextInv, NEW r \in Recordings, RecordingStep(r)
  PROVE  TextInv'
<1>. USE DEF Starting, Finishing, Taking, Leftover, Activated, Stages, Ended, Over
<1>1. CASE ScratchStarts(r)
  BY <1>1, TextMoves DEF ScratchStarts, outcome
<1>3. CASE StartFails(r)
  <2>1. stage[r] \in Starting /\ UNCHANGED <<owner, document, abandoned>>
    BY <1>3 DEF StartFails, outcome
  <2>2. CASE Goes(r, "done") /\ UNCHANGED captureRef
    BY <2>1, <2>2, TextMoves
  <2>3. CASE /\ stage[r] = "pipeline" /\ Goes(r, "broken")
             /\ captureRef' = [captureRef EXCEPT ![owner[r]] = r]
    BY <2>1, <2>3, BecomesActiveKeepsText
  <2>. QED  BY <1>3, <2>2, <2>3 DEF StartFails
<1>2. CASE CaptureBegins(r)
  <2>1. /\ stage[r] = "pipeline" /\ UNCHANGED <<owner, document, abandoned>>
    BY <1>2 DEF CaptureBegins, outcome
  <2>2. CASE captureRef' = [captureRef EXCEPT ![owner[r]] = r] /\ Goes(r, "recording")
    BY <2>1, <2>2, BecomesActiveKeepsText
  <2>3. CASE captureRef' = [captureRef EXCEPT ![owner[r]] = None] /\ Goes(r, "stopping")
    <3>1. /\ captureRef' \in [Tabs -> Recordings \cup {None}]
          /\ \A t \in Tabs : captureRef'[t] \in {None, captureRef[t]}
      BY <2>3 DEF TextInv, TextTypes
    <3>. QED  BY <2>1, <2>3, <3>1, TextMovesAway
  <2>. QED  BY <1>2, <2>2, <2>3 DEF CaptureBegins
<1>4. CASE Cancelled(r)
  BY <1>4, TextMoves DEF Cancelled, outcome
<1>5. CASE Frame(r) \/ saveToLibrary(r) \/ SaveDiscards(r)
  BY <1>5, TextKept DEF Frame, saveToLibrary, SaveDiscards, capturing, outcome
<1>6. CASE StartFailed(r) \/ SaveCompletes(r)
  BY <1>6, TextKept DEF StartFailed, SaveCompletes, capturing, outcome
<1>7. CASE RecorderStops(r)
  BY <1>7, TextMoves DEF RecorderStops
<1>8. CASE RealtimeText(r) \/ UploadText(r)
  BY <1>8, TextEnters DEF RealtimeText, UploadText
<1>9. CASE RealtimeFallback(r)
  BY <1>9, TextMoves DEF RealtimeFallback, outcome
<1>10. CASE UploadFails(r) \/ Discarded(r) \/ Cleared(r)
  BY <1>10, TextMoves DEF UploadFails, Discarded, Cleared, Finally, outcome
<1>11. CASE cancelTranscription(r)
  BY <1>11, TextMoves DEF cancelTranscription
<1>12. CASE ScratchCompletes(r)
  <2>1. stage[r] = "completing" /\ UNCHANGED <<owner, captureRef, document, abandoned>>
    BY <1>12 DEF ScratchCompletes, Finally, outcome
  <2>2. Goes(r, "uploading") \/ Goes(r, "done")
    BY <1>12 DEF ScratchCompletes, Finally
  <2>. QED  BY <2>1, <2>2, TextMoves
<1>. QED
  BY <1>1, <1>2, <1>3, <1>4, <1>5, <1>6, <1>7, <1>8, <1>9, <1>10, <1>11, <1>12
  DEF RecordingStep

LEMMA TabStepKeepsText ==
  ASSUME TextInv, NEW t \in Tabs, TabStep(t)
  PROVE  TextInv'
<1>1. CASE stopHoldCapture(t)
  <2>1. CASE captureRef[t] # None
    BY <1>1, <2>1, FinishKeepsText DEF stopHoldCapture, outcome
  <2>2. CASE captureRef[t] = None
    BY <1>1, <2>2, TextKept DEF stopHoldCapture, outcome
  <2>. QED  BY <2>1, <2>2
<1>2. CASE Stop(t)
  BY <1>2, FinishKeepsText DEF Stop, outcome
<1>3. CASE Cancel(t)
  BY <1>3, CancelKeepsText DEF Cancel
<1>4. CASE SettingsArrive(t)
  BY <1>4, LocaleKeepsText DEF SettingsArrive
<1>5. CASE Open(t) \/ SignIn(t)
  BY <1>5, TextKept DEF Open, SignIn, capturing, outcome
<1>6. CASE SignedOut(t)
  BY <1>6, LocaleKeepsText DEF SignedOut
<1>7. CASE Close(t)
  BY <1>7, CloseKeepsText
<1>8. CASE \E r \in Recordings : Start(t, r)
  BY <1>8, StartKeepsText DEF Start
<1>9. CASE RecoverySaves(t) \/ RecoveryDiscards(t)
  BY <1>9, TextKept DEF RecoverySaves, RecoveryDiscards, capturing, outcome
<1>. QED  BY <1>1, <1>2, <1>3, <1>4, <1>5, <1>6, <1>7, <1>8, <1>9 DEF TabStep

LEMMA TurnKeepsText ==
  ASSUME TextInv, NEW t \in Tabs, Turn(t)
  PROVE  TextInv'
<1>1. CASE startHoldCapture(t)
  BY <1>1, StartKeepsText, TextKept DEF startHoldCapture, capturing, outcome
<1>2. CASE SaveLanguage(t)
  BY <1>2, LocaleKeepsText DEF SaveLanguage
<1>3. CASE SignOut(t)
  BY <1>3, TextKept DEF SignOut, capturing, outcome
<1>. QED  BY <1>1, <1>2, <1>3 DEF Turn

(* What is in the documents, and what was given up, at every moment.       *)
THEOREM TextInvariant == Spec => []TextInv
<1>1. Init => TextInv
  BY InitTextInv
<1>2. TextInv /\ [Next]_vars => TextInv'
  <2>1. ASSUME TextInv, Next  PROVE TextInv'
    BY <2>1, RecordingStepKeepsText, TabStepKeepsText, TurnKeepsText DEF Next
  <2>2. ASSUME TextInv, UNCHANGED vars  PROVE TextInv'
    BY <2>2, TextKept DEF vars, capturing, outcome
  <2>. QED  BY <2>1, <2>2
<1>. QED  BY <1>1, <1>2, PTL DEF Spec

(* A text enters the document once, of the tab it was dictated in, and     *)
(* that of a recording that was cancelled, found silent or given up while  *)
(* it was transcribed never does, whatever the language does meanwhile.    *)
THEOREM TextEntersOnce == Spec => []TextOnce
<1>1. TextInv => TextOnce
  <2> SUFFICES ASSUME TextInv, NEW t \in Tabs, NEW i \in 1 .. Len(document[t])
               PROVE  /\ owner[document[t][i]] = t
                      /\ \A j \in 1 .. (i - 1) : document[t][j] # document[t][i]
                      /\ \A by \in {"user", "silence", "language"} :
                           ~Abandoned(document[t][i], by)
    BY DEF TextOnce
  <2>1. Entries(t)
    BY DEF TextInv
  <2>2. \A a \in abandoned : a[1] # document[t][i]
    BY <2>1 DEF Entries, Entered
  <2>3. ASSUME NEW by, Abandoned(document[t][i], by)  PROVE FALSE
    BY <2>2, <2>3 DEF Abandoned
  <2>. QED  BY <2>1, <2>3 DEF Entries
<1>. QED  BY <1>1, TextInvariant, PTL

---------------------------------------------------------------------------
(* The lock comes back, whether clean-ups race or not: what a tab has under*)
(* way stays so until it gives back the lock its tab may have.             *)

Pending(r) == r \in catching \/ stage[r] \notin Ended \cup {"broken"}

(* A tab that keeps the lock keeps what accounts for it, and one that gets *)
(* it has something that does.                                             *)
LEMMA StillAccounted ==
  ASSUME LockFreed,
         \A t \in Tabs : lock' = t /\ lock # t =>
           \E q \in Recordings : owner'[q] = t /\ Pending(q)',
         \A t \in Tabs : \A q \in Recordings :
           lock' = t /\ lock = t /\ owner[q] = t /\ Pending(q) =>
             owner'[q] = t /\ Pending(q)'
  PROVE  LockFreed'
<1> SUFFICES ASSUME NEW t \in Tabs, lock' = t
             PROVE  \E q \in Recordings : owner'[q] = t /\ Pending(q)'
  BY DEF LockFreed, Of, Mine, Pending
<1>1. lock = t => \E q \in Recordings : owner[q] = t /\ Pending(q)
  BY DEF LockFreed, Of, Mine, Pending
<1>. QED  BY <1>1

(* Nothing ends, and nobody gets the lock.                                 *)
LEMMA NothingEnds ==
  ASSUME LockFreed, UNCHANGED <<stage, owner>>, catching' = catching,
         lock' \in {lock, NoTab}
  PROVE  LockFreed'
BY StillAccounted, WebCaptureAssumption DEF Pending

(* A recording goes on, or fails with its files still to be discarded.     *)
LEMMA GoesOn ==
  ASSUME TextInv, LockFreed, NEW r \in Recordings, NEW s, Goes(r, s),
         s \notin Ended \cup {"broken"} \/ r \in catching', catching \subseteq catching',
         UNCHANGED <<owner, lock>>
  PROVE  LockFreed'
<1>1. /\ stage'[r] = s
      /\ \A q \in Recordings \ {r} : stage'[q] = stage[q]
  BY DEF TextInv, TextTypes, Goes
<1>2. \A q \in Recordings : Pending(q) => Pending(q)'
  BY <1>1 DEF Pending
<1>. QED  BY <1>2, StillAccounted

(* A recording ends and gives the lock back.                               *)
LEMMA GivesBack ==
  ASSUME LockFreed, NEW r \in Recordings, releaseRecordingLock(owner[r]),
         \A q \in Recordings \ {r} : stage'[q] = stage[q] /\ (q \in catching => q \in catching'),
         owner' = owner
  PROVE  LockFreed'
<1>1. \A t \in Tabs : lock' = t => lock = t /\ owner[r] # t
  BY WebCaptureAssumption DEF releaseRecordingLock
<1>2. \A q \in Recordings \ {r} : Pending(q) => Pending(q)'
  BY DEF Pending
<1>. QED  BY <1>1, <1>2, StillAccounted

LEMMA EndGivesBack ==
  ASSUME TextInv, LockFreed, NEW r \in Recordings, Goes(r, "done"),
         releaseRecordingLock(owner[r]), UNCHANGED <<owner, catching>>
  PROVE  LockFreed'
<1>1. \A q \in Recordings \ {r} : stage'[q] = stage[q]
  BY DEF TextInv, TextTypes, Goes
<1>. QED  BY <1>1, GivesBack

LEMMA StartTakes ==
  ASSUME TextInv, LockFreed, NEW t \in Tabs, NEW r \in Recordings, startCapture(t, r)
  PROVE  LockFreed'
<1>1. lock = NoTab /\ lock' = t /\ stage'[r] = "opening" /\ owner'[r] = t
  BY DEF startCapture, acquireRecordingLock, TextInv, TextTypes, Goes
<1>2. Pending(r)'
  BY <1>1 DEF Pending, Ended
<1>. QED  BY <1>1, <1>2, StillAccounted, WebCaptureAssumption

LEMMA CancelGivesBack ==
  ASSUME TextInv, LockFreed, NEW t \in Tabs, NEW by, cancelCapture(t, by),
         UNCHANGED <<owner, catching>>
  PROVE  LockFreed'
<1>1. CASE captureRef[t] = None
  BY <1>1, NothingEnds DEF cancelCapture, releaseRecordingLock
<1>2. CASE captureRef[t] # None
  <2>1. captureRef[t] \in Recordings /\ lock' = lock
    BY <1>2 DEF TextInv, TextTypes, cancelCapture
  <2>2. PICK s \in {"dropping", "cancelling"} : Goes(captureRef[t], s)
    BY <1>2 DEF cancelCapture
  <2>. QED  BY <2>1, <2>2, GoesOn DEF Ended
<1>. QED  BY <1>1, <1>2

LEMMA FinishGoesOn ==
  ASSUME TextInv, LockFreed, NEW t \in Tabs, captureRef[t] # None, finishCapture(t),
         UNCHANGED <<owner, catching, lock>>
  PROVE  LockFreed'
<1>1. captureRef[t] \in Recordings
  BY DEF TextInv, TextTypes
<1>2. PICK s \in {"clearing", "stopping"} : Goes(captureRef[t], s)
  BY DEF finishCapture
<1>. QED  BY <1>1, <1>2, GoesOn DEF Ended

LEMMA LocaleGivesBack ==
  ASSUME TextInv, LockFreed, NEW t \in Tabs, NEW to, setUiLocale(t, to),
         UNCHANGED <<owner, catching>>
  PROVE  LockFreed'
<1>1. CASE to = language[t]
  BY <1>1, NothingEnds DEF setUiLocale
<1>2. CASE to # language[t]
  BY <1>2, CancelGivesBack DEF setUiLocale
<1>. QED  BY <1>1, <1>2

LEMMA CloseGivesBack ==
  ASSUME LockFreed, NEW t \in Tabs, Close(t)
  PROVE  LockFreed'
<1>1. \A u \in Tabs : lock' = u => lock = u /\ u # t
  BY WebCaptureAssumption DEF Close, releaseRecordingLock
<1>2. \A q \in Recordings : owner[q] # t =>
        stage'[q] = stage[q] /\ (q \in catching => q \in catching')
  BY DEF Close, Mine
<1>3. owner' = owner
  BY DEF Close
<1>4. \A q \in Recordings : owner[q] # t /\ Pending(q) => Pending(q)'
  BY <1>2 DEF Pending
<1>. QED  BY <1>1, <1>3, <1>4, StillAccounted

LEMMA RecordingStepAccounts ==
  ASSUME TextInv, LockFreed, NEW r \in Recordings, RecordingStep(r)
  PROVE  LockFreed'
<1>1. CASE ScratchStarts(r)
  BY <1>1, GoesOn DEF ScratchStarts, Ended
<1>2. CASE CaptureBegins(r)
  BY <1>2, GoesOn DEF CaptureBegins, Ended
<1>3. CASE StartFails(r)
  <2>1. r \in catching' /\ catching \subseteq catching' /\ UNCHANGED <<owner, lock>>
    BY <1>3 DEF StartFails
  <2>2. PICK s \in {"done", "broken"} : Goes(r, s)
    BY <1>3 DEF StartFails
  <2>. QED  BY <2>1, <2>2, GoesOn
<1>4. CASE StartFailed(r)
  BY <1>4, GivesBack DEF StartFailed
<1>5. CASE Frame(r) \/ SaveCompletes(r) \/ saveToLibrary(r) \/ SaveDiscards(r)
  BY <1>5, NothingEnds DEF Frame, SaveCompletes, saveToLibrary, SaveDiscards, capturing
<1>6. CASE Cancelled(r)
  BY <1>6, EndGivesBack DEF Cancelled
<1>7. CASE Cleared(r) \/ UploadFails(r) \/ Discarded(r)
  BY <1>7, EndGivesBack DEF Cleared, UploadFails, Discarded, Finally
<1>8. CASE RealtimeText(r) \/ UploadText(r)
  BY <1>8, EndGivesBack DEF RealtimeText, UploadText, TextArrives, Finally
<1>9. CASE RecorderStops(r) \/ RealtimeFallback(r) \/ cancelTranscription(r)
  <2>1. UNCHANGED <<owner, lock, catching>>
    BY <1>9 DEF RecorderStops, RealtimeFallback, cancelTranscription
  <2>2. PICK s \in {"discarding", "realtime", "completing"} : Goes(r, s)
    BY <1>9 DEF RecorderStops, RealtimeFallback, cancelTranscription
  <2>. QED  BY <2>1, <2>2, GoesOn DEF Ended
<1>10. CASE ScratchCompletes(r)
  <2>1. CASE Completes(r)
    BY <1>10, <2>1, GoesOn DEF ScratchCompletes, Ended
  <2>2. CASE ~Completes(r)
    BY <1>10, <2>2, EndGivesBack DEF ScratchCompletes, Finally
  <2>. QED  BY <2>1, <2>2
<1>. QED
  BY <1>1, <1>2, <1>3, <1>4, <1>5, <1>6, <1>7, <1>8, <1>9, <1>10 DEF RecordingStep

LEMMA TabStepAccounts ==
  ASSUME TextInv, LockFreed, NEW t \in Tabs, TabStep(t)
  PROVE  LockFreed'
<1>1. CASE stopHoldCapture(t)
  <2>1. CASE captureRef[t] # None
    BY <1>1, <2>1, FinishGoesOn DEF stopHoldCapture
  <2>2. CASE captureRef[t] = None
    BY <1>1, <2>2, NothingEnds DEF stopHoldCapture
  <2>. QED  BY <2>1, <2>2
<1>2. CASE Stop(t)
  BY <1>2, FinishGoesOn DEF Stop
<1>3. CASE Cancel(t)
  BY <1>3, CancelGivesBack DEF Cancel
<1>4. CASE SettingsArrive(t)
  <2>1. PICK to \in {saved, "en"} : setUiLocale(t, to)
    BY <1>4 DEF SettingsArrive
  <2>2. UNCHANGED <<owner, catching>>
    BY <1>4 DEF SettingsArrive
  <2>. QED  BY <2>1, <2>2, LocaleGivesBack
<1>5. CASE Open(t) \/ SignIn(t) \/ RecoverySaves(t) \/ RecoveryDiscards(t)
  BY <1>5, NothingEnds DEF Open, SignIn, RecoverySaves, RecoveryDiscards, capturing
<1>6. CASE SignedOut(t)
  BY <1>6, LocaleGivesBack DEF SignedOut
<1>7. CASE Close(t)
  BY <1>7, CloseGivesBack
<1>8. CASE \E r \in Recordings : Start(t, r)
  BY <1>8, StartTakes DEF Start
<1>. QED  BY <1>1, <1>2, <1>3, <1>4, <1>5, <1>6, <1>7, <1>8 DEF TabStep

LEMMA TurnAccounts ==
  ASSUME TextInv, LockFreed, NEW t \in Tabs, Turn(t)
  PROVE  LockFreed'
<1>1. CASE startHoldCapture(t)
  BY <1>1, StartTakes, NothingEnds DEF startHoldCapture, capturing
<1>2. CASE SaveLanguage(t)
  <2>1. PICK to \in {"en", "uk"} \ {saved} : setUiLocale(t, to)
    BY <1>2 DEF SaveLanguage
  <2>2. UNCHANGED <<owner, catching>>
    BY <1>2 DEF SaveLanguage
  <2>. QED  BY <2>1, <2>2, LocaleGivesBack
<1>3. CASE SignOut(t)
  BY <1>3, NothingEnds DEF SignOut, capturing
<1>. QED  BY <1>1, <1>2, <1>3 DEF Turn

(* The lock is held only by a tab with a recording under way: whichever    *)
(* way a recording ends, by a failed start, a cancelled request or a       *)
(* closed tab, another tab's next dictation can begin.  A clean-up that    *)
(* races can only give the lock back too early.                            *)
THEOREM LockNeverStays == Spec => []LockFreed
<1>1. Init => LockFreed
  BY WebCaptureAssumption DEF Init, LockFreed
<1>2. TextInv /\ LockFreed /\ [Next]_vars => LockFreed'
  <2>1. ASSUME TextInv, LockFreed, Next  PROVE LockFreed'
    BY <2>1, RecordingStepAccounts, TabStepAccounts, TurnAccounts DEF Next
  <2>2. ASSUME LockFreed, UNCHANGED vars  PROVE LockFreed'
    BY <2>2, NothingEnds DEF vars, capturing
  <2>. QED  BY <2>1, <2>2
<1>. QED  BY <1>1, <1>2, TextInvariant, PTL DEF Spec

---------------------------------------------------------------------------
(* The audio.  Files are there while a worker has them open, and nothing   *)
(* is heard before the capture has begun; what is about to be discarded    *)
(* was given up or is in the Library, also where the discarding is that of *)
(* another tab's recovery.  This too needs nothing of the lock.            *)

Quiet == Starting \cup {"new"} \cup Leftover
Doomed == {"cancelling", "discarding"}
Failed == {"done"} \cup Leftover

Files ==
  [files : BOOLEAN, open : Tabs \cup {NoTab}, pcm : Nat, webm : BOOLEAN, early : BOOLEAN]

AudioTypes ==
  /\ scratch \in [Recordings -> Files]
  /\ DOMAIN saving = Recordings
  /\ DOMAIN recovering = Tabs

Stage(r) ==
  /\ stage[r] \in Quiet \/ r \in catching => scratch[r].pcm = 0
  /\ r \in catching => stage[r] \in Failed
  /\ stage[r] \in Doomed => GivenUp(r)
  /\ saving[r] # "no" => stage[r] = "done"

Scratch(r) ==
  /\ scratch[r].open # NoTab => scratch[r].files
  /\ scratch[r].pcm # 0 => scratch[r].files \/ InLibrary(r) \/ GivenUp(r)

(* A part of a recording that is not over is only known to a recovery that *)
(* came too early.                                                         *)
Early(r) == stage[r] # "done" => scratch[r].early
Taken(r, n) == n \in 0 .. scratch[r].pcm /\ Early(r)

Saved(r) ==
  /\ saving[r] = "discarding" /\ scratch[r].pcm # 0 => InLibrary(r)
  /\ \A e \in library : e[1] = r => Taken(r, e[2])
  /\ \A t \in Tabs : \A item \in recovering[t] : item[1] = r =>
       /\ Taken(r, item[2]) /\ item[2] # 0
       /\ item[2] = scratch[r].pcm \/ scratch[r].early
       /\ item[3] = "discard" => <<r, item[2]>> \in library

AudioInv ==
  /\ AudioTypes
  /\ \A r \in Recordings : Stage(r) /\ Scratch(r) /\ Saved(r)

LEMMA InitAudioInv == Init => AudioInv
<1> SUFFICES ASSUME Init  PROVE AudioInv
  OBVIOUS
<1>1. AudioTypes
  BY DEF Init, AudioTypes, Files
<1>2. ASSUME NEW r \in Recordings  PROVE Stage(r) /\ Scratch(r) /\ Saved(r)
  BY <1>2 DEF Init, Stage, Scratch, Saved, Doomed, Quiet
<1>. QED  BY <1>1, <1>2 DEF AudioInv

---------------------------------------------------------------------------
(* What a step may do to the scratch files of a recording.                 *)

Untouched(r) == scratch'[r] = scratch[r]
JustClosed(r) == scratch'[r] = [scratch[r] EXCEPT !.open = NoTab]
Removed(r) == scratch'[r] = [scratch[r] EXCEPT !.files = FALSE, !.open = NoTab]
Noted(r) == scratch'[r] = [scratch[r] EXCEPT !.early = TRUE]

(* removeCapture removes some of the recordings it is asked to, and        *)
(* touches no other.                                                       *)
LEMMA RemoveCapture ==
  ASSUME AudioTypes, NEW t, NEW rs, scratch' = removeCapture(scratch, t, rs)
  PROVE  /\ scratch' \in [Recordings -> Files]
         /\ \A r \in Recordings : Untouched(r) \/ (r \in rs /\ Removed(r))
BY DEF AudioTypes, removeCapture, Untouched, Removed, Files

LEMMA ClosedCapture ==
  ASSUME AudioTypes, NEW r \in Recordings, Closed(r)
  PROVE  /\ scratch' \in [Recordings -> Files]
         /\ \A q \in Recordings : Untouched(q) \/ JustClosed(q)
BY DEF AudioTypes, Closed, Untouched, JustClosed, Files

(* What a step may do to a recording.                                      *)
StageFollows(r) ==
  /\ stage'[r] \in Quiet \/ r \in catching' => stage[r] \in Quiet \/ r \in catching
  /\ r \in catching' => stage'[r] \in Failed
  /\ stage'[r] \in Doomed => stage[r] \in Doomed \/ GivenUp(r)'
  /\ saving'[r] # "no" => stage'[r] = "done"
  /\ stage[r] = "done" => stage'[r] = "done"

FilesFollow(r) ==
  \/ Untouched(r) \/ JustClosed(r) \/ Noted(r)
  \/ Removed(r) /\ (scratch[r].pcm # 0 => InLibrary(r) \/ GivenUp(r))

(* What is newly known of a recording is known of its files as they are.   *)
TakenNow(r, n) ==
  n \in 0 .. scratch[r].pcm /\ (stage[r] = "done" \/ scratch'[r].early)

ItemFollows(r, t, item) ==
  \/ item \in recovering[t]
  \/ /\ TakenNow(r, item[2]) /\ item[2] # 0
     /\ item[2] = scratch[r].pcm \/ scratch'[r].early
     /\ item[3] = "discard" => <<r, item[2]>> \in library'

SavesFollow(r) ==
  /\ saving'[r] = "discarding" =>
       saving[r] = "discarding" \/ scratch[r].pcm = 0 \/ <<r, scratch[r].pcm>> \in library'
  /\ \A e \in library' : e[1] = r => e \in library \/ TakenNow(r, e[2])
  /\ \A t \in Tabs : \A item \in recovering'[t] : item[1] = r => ItemFollows(r, t, item)

LEMMA InLibraryStays ==
  ASSUME NEW r \in Recordings, library \subseteq library', InLibrary(r),
         scratch'[r].pcm = scratch[r].pcm, scratch[r].early => scratch'[r].early
  PROVE  InLibrary(r)'
<1>1. CASE Whole(r) \in library
  BY <1>1 DEF Whole, InLibrary
<1>2. CASE scratch[r].early /\ PartSaved(r)
  <2>1. PICK n \in 1 .. scratch[r].pcm : <<r, n>> \in library
    BY <1>2 DEF PartSaved
  <2>2. n \in 1 .. scratch'[r].pcm /\ <<r, n>> \in library'
    BY <2>1
  <2>3. PartSaved(r)'
    BY <2>2 DEF PartSaved
  <2>. QED  BY <1>2, <2>3 DEF InLibrary
<1>. QED  BY <1>1, <1>2 DEF InLibrary

LEMMA AudioKeeps ==
  ASSUME AudioInv, AudioTypes', library \subseteq library', abandoned \subseteq abandoned',
         \A r \in Recordings : StageFollows(r) /\ FilesFollow(r) /\ SavesFollow(r)
  PROVE  AudioInv'
<1> SUFFICES ASSUME NEW r \in Recordings  PROVE Stage(r)' /\ Scratch(r)' /\ Saved(r)'
  BY DEF AudioInv
<1>0. GivenUp(r) => GivenUp(r)'
  BY DEF GivenUp, Abandoned
<1>1. /\ Stage(r) /\ Scratch(r) /\ Saved(r) /\ scratch[r] \in Files
      /\ StageFollows(r) /\ FilesFollow(r) /\ SavesFollow(r)
  BY DEF AudioInv, AudioTypes
<1>2. /\ scratch'[r].pcm = scratch[r].pcm /\ scratch[r].pcm \in Nat
      /\ scratch[r].early => scratch'[r].early
  <2>1. CASE Untouched(r)
    BY <1>1, <2>1 DEF Untouched, Files
  <2>2. CASE JustClosed(r) \/ Removed(r)
    <3>1. scratch'[r].pcm = scratch[r].pcm /\ scratch'[r].early = scratch[r].early
      BY <1>1, <2>2 DEF JustClosed, Removed, Files
    <3>. QED  BY <1>1, <3>1 DEF Files
  <2>3. CASE Noted(r)
    <3>1. scratch'[r].pcm = scratch[r].pcm /\ scratch'[r].early
      BY <1>1, <2>3 DEF Noted, Files
    <3>. QED  BY <1>1, <3>1 DEF Files
  <2>. QED  BY <1>1, <2>1, <2>2, <2>3 DEF FilesFollow
<1>3. InLibrary(r) => InLibrary(r)'
  BY <1>2, InLibraryStays
<1>4. Stage(r)'
  BY <1>0, <1>1, <1>2 DEF Stage, StageFollows
<1>5. scratch'[r].open # NoTab => scratch'[r].files
  BY <1>1 DEF FilesFollow, Untouched, JustClosed, Removed, Noted, Files, Scratch
<1>6. scratch'[r].pcm # 0 => scratch'[r].files \/ InLibrary(r)' \/ GivenUp(r)'
  <2>1. CASE Untouched(r) \/ JustClosed(r) \/ Noted(r)
    <3>1. scratch'[r].files = scratch[r].files
      BY <1>1, <2>1 DEF Untouched, JustClosed, Noted, Files
    <3>. QED  BY <1>0, <1>1, <1>2, <1>3, <3>1 DEF Scratch
  <2>2. CASE scratch[r].pcm # 0 => InLibrary(r) \/ GivenUp(r)
    BY <1>0, <1>2, <1>3, <2>2
  <2>. QED  BY <1>1, <2>1, <2>2 DEF FilesFollow
<1>7. Scratch(r)'
  BY <1>5, <1>6 DEF Scratch
<1>8. saving'[r] = "discarding" /\ scratch'[r].pcm # 0 => InLibrary(r)'
  <2>1. CASE saving[r] = "discarding"
    BY <1>1, <1>2, <1>3, <2>1 DEF Saved
  <2>2. CASE saving[r] # "discarding"
    BY <1>1, <1>2, <2>2 DEF SavesFollow, InLibrary, Whole
  <2>. QED  BY <2>1, <2>2
<1>9. ASSUME NEW n  PROVE Taken(r, n) \/ TakenNow(r, n) => Taken(r, n)'
  BY <1>1, <1>2 DEF Taken, TakenNow, Early, StageFollows
<1>10. ASSUME NEW e \in library', e[1] = r  PROVE Taken(r, e[2])'
  BY <1>1, <1>9, <1>10 DEF Saved, SavesFollow
<1>11. ASSUME NEW t \in Tabs, NEW item \in recovering'[t], item[1] = r
       PROVE  /\ Taken(r, item[2])' /\ item[2] # 0
              /\ item[2] = scratch'[r].pcm \/ scratch'[r].early
              /\ item[3] = "discard" => <<r, item[2]>> \in library'
  <2>1. ItemFollows(r, t, item)
    BY <1>1, <1>11 DEF SavesFollow
  <2>2. CASE item \in recovering[t]
    <3>1. /\ Taken(r, item[2]) /\ item[2] # 0
          /\ item[2] = scratch[r].pcm \/ scratch[r].early
          /\ item[3] = "discard" => <<r, item[2]>> \in library
      BY <1>1, <1>11, <2>2 DEF Saved
    <3>. QED  BY <1>2, <1>9, <3>1
  <2>3. CASE item \notin recovering[t]
    <3>1. /\ TakenNow(r, item[2]) /\ item[2] # 0
          /\ item[2] = scratch[r].pcm \/ scratch'[r].early
          /\ item[3] = "discard" => <<r, item[2]>> \in library'
      BY <2>1, <2>3 DEF ItemFollows
    <3>. QED  BY <1>2, <1>9, <3>1
  <2>. QED  BY <2>2, <2>3
<1>12. Saved(r)'
  BY <1>8, <1>10, <1>11 DEF Saved
<1>. QED  BY <1>4, <1>7, <1>12

(* A step of the stages that touches no file, save or recovery.            *)
LEMMA StagesKeepAudio ==
  ASSUME AudioInv, UNCHANGED <<scratch, saving, recovering, library>>,
         abandoned \subseteq abandoned', \A r \in Recordings : StageFollows(r)
  PROVE  AudioInv'
<1>1. AudioTypes'
  BY DEF AudioInv, AudioTypes
<1>2. \A r \in Recordings : FilesFollow(r) /\ SavesFollow(r)
  BY DEF FilesFollow, Untouched, SavesFollow, ItemFollows
<1>. QED  BY <1>1, <1>2, AudioKeeps

LEMMA SameStages ==
  ASSUME AudioInv, UNCHANGED stage, catching' \subseteq catching,
         \A r \in Recordings : saving'[r] # "no" => saving[r] # "no"
  PROVE  \A r \in Recordings : StageFollows(r)
BY DEF AudioInv, Stage, StageFollows

(* Only failed starts are caught, and nothing was heard of them; a save    *)
(* follows a recording that is over.                                       *)
LEMMA GoesFollows ==
  ASSUME TextInv, AudioInv, NEW r \in Recordings, NEW s, Goes(r, s), stage[r] # "done",
         s \in Quiet => stage[r] \in Quiet, s \in Doomed => stage[r] \in Doomed \/ GivenUp(r)',
         \/ catching' = catching /\ (s \in Failed \/ stage[r] \notin Failed)
         \/ catching' = catching \cup {r} /\ stage[r] \in Quiet /\ s \in Failed,
         \A q \in Recordings :
           saving'[q] # "no" => saving[q] # "no" \/ (q = r /\ s = "done")
  PROVE  \A q \in Recordings : StageFollows(q)
<1>1. ASSUME NEW q \in Recordings  PROVE stage'[q] = IF q = r THEN s ELSE stage[q]
  BY DEF TextInv, TextTypes, Goes
<1>2. \A q \in Recordings : Stage(q)
  BY DEF AudioInv
<1>. QED  BY <1>1, <1>2 DEF Stage, StageFollows

---------------------------------------------------------------------------
(* The audio through every step.                                           *)

LEMMA ScratchStartsKeepsAudio ==
  ASSUME TextInv, AudioInv, NEW r \in Recordings, ScratchStarts(r)
  PROVE  AudioInv'
<1>0. /\ UNCHANGED <<saving, recovering, library, abandoned, catching>>
      /\ stage[r] = "opening" /\ Goes(r, "pipeline")
  BY DEF ScratchStarts, outcome
<1>1. owner[r] \in Tabs
  BY <1>0 DEF TextInv, Underway, Ended
<1>2. /\ scratch' \in [Recordings -> Files] /\ scratch'[r].files
      /\ \A q \in Recordings :
           scratch'[q].pcm = scratch[q].pcm /\ scratch'[q].early = scratch[q].early
      /\ \A q \in Recordings \ {r} : scratch'[q] = scratch[q]
  BY <1>1 DEF ScratchStarts, AudioInv, AudioTypes, Files
<1>3. \A q \in Recordings : StageFollows(q)
  BY <1>0, GoesFollows DEF Quiet, Starting, Doomed, Failed, Leftover
<1>4. AudioTypes'
  BY <1>0, <1>2 DEF AudioInv, AudioTypes
<1>5. ASSUME NEW q \in Recordings  PROVE Stage(q)' /\ Scratch(q)' /\ Saved(q)'
  <2>1. Stage(q) /\ Scratch(q) /\ Saved(q)
    BY DEF AudioInv
  <2>2. scratch'[q].pcm = scratch[q].pcm /\ scratch'[q].early = scratch[q].early
    BY <1>2
  <2>3. InLibrary(q)' <=> InLibrary(q)
    BY <1>0, <2>2 DEF InLibrary, Whole, PartSaved
  <2>7. ASSUME NEW n  PROVE Taken(q, n) => Taken(q, n)'
    BY <1>3, <2>2 DEF Taken, Early, StageFollows
  <2>4. Stage(q)'
    BY <1>0, <1>3, <2>1, <2>2 DEF Stage, StageFollows, GivenUp, Abandoned
  <2>5. Scratch(q)'
    BY <1>0, <1>2, <2>1, <2>3 DEF Scratch, GivenUp, Abandoned
  <2>6. Saved(q)'
    BY <1>0, <2>1, <2>2, <2>3, <2>7 DEF Saved
  <2>. QED  BY <2>4, <2>5, <2>6
<1>. QED  BY <1>4, <1>5 DEF AudioInv

(* A frame needs the file that it is written to.                           *)
LEMMA FrameKeepsAudio ==
  ASSUME TextInv, AudioInv, NEW r \in Recordings, Frame(r)
  PROVE  AudioInv'
<1>0. /\ UNCHANGED <<stage, catching, saving, recovering, library, abandoned>>
      /\ stage[r] \in {"recording", "cancelling", "stopping", "realtime"}
      /\ scratch[r].open = owner[r]
  BY DEF Frame, capturing, outcome
<1>1. owner[r] # NoTab
  BY <1>0, WebCaptureAssumption DEF TextInv, Underway, Ended
<1>2. scratch[r].files /\ scratch \in [Recordings -> Files]
  BY <1>0, <1>1 DEF AudioInv, AudioTypes, Scratch
<1>3. /\ scratch' \in [Recordings -> Files] /\ scratch'[r].files
      /\ scratch'[r].pcm >= scratch[r].pcm /\ scratch'[r].early = scratch[r].early
      /\ \A q \in Recordings \ {r} : scratch'[q] = scratch[q]
  <2>1. CASE scratch' = [scratch EXCEPT ![r].pcm = @ + 1]
    <3>1. PICK n \in Nat : n = scratch[r].pcm
      BY <1>2 DEF Files
    <3>2. /\ scratch'[r] = [scratch[r] EXCEPT !.pcm = n + 1] /\ scratch[r] \in Files
          /\ \A q \in Recordings \ {r} : scratch'[q] = scratch[q]
      BY <1>2, <2>1, <3>1
    <3>3. /\ scratch'[r] \in Files /\ scratch'[r].pcm = n + 1 /\ scratch'[r].files
          /\ scratch'[r].early = scratch[r].early
      BY <1>2, <3>2 DEF Files
    <3>4. scratch' \in [Recordings -> Files]
      BY <1>2, <2>1, <3>2, <3>3
    <3>. QED  BY <3>1, <3>2, <3>3, <3>4
  <2>2. CASE scratch' = [scratch EXCEPT ![r].webm = TRUE]
    <3>1. /\ scratch'[r] = [scratch[r] EXCEPT !.webm = TRUE] /\ scratch[r] \in Files
          /\ \A q \in Recordings \ {r} : scratch'[q] = scratch[q]
      BY <1>2, <2>2
    <3>2. PICK n \in Nat : n = scratch[r].pcm /\ n = scratch'[r].pcm
      BY <3>1 DEF Files
    <3>3. /\ scratch'[r] \in Files /\ scratch'[r].files
          /\ scratch'[r].early = scratch[r].early
      BY <1>2, <3>1 DEF Files
    <3>4. scratch' \in [Recordings -> Files]
      BY <1>2, <2>2, <3>1, <3>3
    <3>. QED  BY <3>1, <3>2, <3>3, <3>4
  <2>. QED  BY <2>1, <2>2 DEF Frame
<1>4. AudioTypes'
  BY <1>0, <1>3 DEF AudioInv, AudioTypes
<1>5. ASSUME NEW q \in Recordings  PROVE Stage(q)' /\ Scratch(q)' /\ Saved(q)'
  <2>1. Stage(q) /\ Scratch(q) /\ Saved(q)
    BY DEF AudioInv
  <2>2. /\ scratch[q].pcm \in Nat /\ scratch'[q].pcm \in Nat
        /\ scratch'[q].pcm >= scratch[q].pcm
    BY <1>2, <1>3 DEF Files
  <2>4. CASE q = r
    <3>1. stage[q] \notin Quiet \cup Failed
      BY <1>0, <2>4 DEF Quiet, Starting, Failed, Leftover
    <3>2. Stage(q)'
      BY <1>0, <2>1, <3>1 DEF Stage, GivenUp, Abandoned
    <3>3. Scratch(q)'
      BY <1>3, <2>4 DEF Scratch
    <3>4. saving'[q] = "no"
      BY <1>0, <2>1, <2>4 DEF Stage
    <3>5. ASSUME NEW n, Taken(q, n)  PROVE Taken(q, n)' /\ scratch'[q].early
      BY <1>0, <1>3, <2>2, <2>4, <3>5 DEF Taken, Early
    <3>6. \A e \in library' : e[1] = q => Taken(q, e[2])'
      BY <1>0, <2>1, <3>5 DEF Saved
    <3>7. ASSUME NEW t \in Tabs, NEW item \in recovering'[t], item[1] = q
          PROVE  /\ Taken(q, item[2])' /\ item[2] # 0
                 /\ item[2] = scratch'[q].pcm \/ scratch'[q].early
                 /\ item[3] = "discard" => <<q, item[2]>> \in library'
      BY <1>0, <2>1, <3>5, <3>7 DEF Saved
    <3>. QED  BY <3>2, <3>3, <3>4, <3>6, <3>7 DEF Saved
  <2>5. CASE q # r
    <3>1. scratch'[q] = scratch[q]
      BY <1>3, <2>5
    <3>2. InLibrary(q)' <=> InLibrary(q)
      BY <1>0, <3>1 DEF InLibrary, Whole, PartSaved
    <3>3. \A n : Taken(q, n)' <=> Taken(q, n)
      BY <1>0, <3>1 DEF Taken, Early
    <3>4. Saved(q)'
      BY <1>0, <2>1, <3>1, <3>2, <3>3 DEF Saved
    <3>. QED  BY <1>0, <2>1, <3>1, <3>2, <3>4 DEF Stage, Scratch, GivenUp, Abandoned
  <2>. QED  BY <2>4, <2>5
<1>. QED  BY <1>4, <1>5 DEF AudioInv

(* The files of a recording are removed: nothing was heard, or it was      *)
(* given up.                                                               *)
LEMMA RemovalKeepsAudio ==
  ASSUME AudioInv, NEW r \in Recordings, NEW t,
         stage[r] \in Quiet \cup Doomed \/ r \in catching,
         scratch' = removeCapture(scratch, t, {r}),
         \A q \in Recordings : StageFollows(q),
         UNCHANGED <<saving, recovering, library, abandoned>>
  PROVE  AudioInv'
<1>1. /\ scratch' \in [Recordings -> Files]
      /\ \A q \in Recordings : Untouched(q) \/ (q \in {r} /\ Removed(q))
  BY RemoveCapture DEF AudioInv
<1>2. scratch[r].pcm # 0 => GivenUp(r)
  BY DEF AudioInv, Stage
<1>3. \A q \in Recordings : FilesFollow(q) /\ SavesFollow(q)
  BY <1>1, <1>2 DEF FilesFollow, SavesFollow, ItemFollows
<1>4. AudioTypes'
  BY <1>1 DEF AudioInv, AudioTypes
<1>. QED  BY <1>3, <1>4, AudioKeeps

LEMMA CompletionKeepsAudio ==
  ASSUME TextInv, AudioInv, NEW r \in Recordings, ScratchCompletes(r) \/ SaveCompletes(r)
  PROVE  AudioInv'
<1>0. UNCHANGED <<recovering, library, abandoned, catching>>
  BY DEF ScratchCompletes, SaveCompletes, Finally, capturing, outcome
<1>1. /\ scratch' \in [Recordings -> Files]
      /\ \A q \in Recordings : Untouched(q) \/ JustClosed(q)
  <2>1. Closed(r) \/ UNCHANGED scratch
    BY DEF ScratchCompletes, SaveCompletes
  <2>2. AudioTypes
    BY DEF AudioInv
  <2>. QED  BY <2>1, <2>2, ClosedCapture DEF AudioTypes, Untouched
<1>2. /\ DOMAIN saving' = Recordings
      /\ \A q \in Recordings : saving'[q] = "discarding" => saving[q] = "discarding"
      /\ \A q \in Recordings : saving'[q] # "no" => saving[q] # "no"
  <2>1. DOMAIN saving = Recordings
    BY DEF AudioInv, AudioTypes
  <2>2. CASE UNCHANGED saving
    BY <2>1, <2>2
  <2>3. CASE saving[r] = "completing"
             /\ \E s \in {"posting", "no"} : saving' = [saving EXCEPT ![r] = s]
    BY <2>1, <2>3
  <2>. QED  BY <2>2, <2>3 DEF ScratchCompletes, SaveCompletes
<1>3. \A q \in Recordings : StageFollows(q)
  <2>1. CASE UNCHANGED stage
    BY <1>0, <1>2, <2>1, SameStages
  <2>2. CASE stage[r] = "completing" /\ (Goes(r, "uploading") \/ Goes(r, "done"))
    BY <1>0, <1>2, <2>2, GoesFollows DEF Quiet, Starting, Doomed, Failed, Leftover
  <2>. QED  BY <2>1, <2>2 DEF ScratchCompletes, SaveCompletes, Finally, capturing
<1>4. \A q \in Recordings : FilesFollow(q) /\ SavesFollow(q)
  BY <1>0, <1>1, <1>2 DEF FilesFollow, SavesFollow, ItemFollows
<1>5. AudioTypes'
  BY <1>0, <1>1, <1>2 DEF AudioInv, AudioTypes
<1>. QED  BY <1>0, <1>3, <1>4, <1>5, AudioKeeps

LEMMA TextArrivesKeepsAudio ==
  ASSUME TextInv, AudioInv, NEW r \in Recordings, TextArrives(r),
         stage[r] \in {"realtime", "uploading"},
         UNCHANGED <<scratch, recovering, library, abandoned>>
  PROVE  AudioInv'
<1>1. saving' = [saving EXCEPT ![r] = "completing"] /\ Goes(r, "done") /\ catching' = catching
  BY DEF TextArrives, Finally
<1>2. /\ DOMAIN saving' = Recordings
      /\ \A q \in Recordings : saving'[q] = "discarding" => saving[q] = "discarding"
      /\ \A q \in Recordings : saving'[q] # "no" => saving[q] # "no" \/ q = r
  BY <1>1 DEF AudioInv, AudioTypes
<1>3. \A q \in Recordings : StageFollows(q)
  BY <1>1, <1>2, GoesFollows DEF Quiet, Starting, Leftover, Doomed, Failed
<1>4. \A q \in Recordings : FilesFollow(q) /\ SavesFollow(q)
  BY <1>2 DEF FilesFollow, Untouched, SavesFollow, ItemFollows
<1>5. AudioTypes'
  BY <1>2 DEF AudioInv, AudioTypes
<1>. QED  BY <1>3, <1>4, <1>5, AudioKeeps

(* The save behind the text, and its discarding.                           *)
LEMMA SaveKeepsAudio ==
  ASSUME AudioInv, NEW r \in Recordings, saveToLibrary(r)
  PROVE  AudioInv'
<1>1. PICK done \in BOOLEAN, answer \in {"discarding", "no"} :
        /\ answer = "discarding" => done
        /\ library' = IF done THEN library \cup {Whole(r)} ELSE library
        /\ saving' = [saving EXCEPT ![r] = answer]
  BY DEF saveToLibrary
<1>2. /\ saving[r] = "posting" /\ library \subseteq library'
      /\ UNCHANGED <<stage, catching, scratch, recovering, abandoned>>
  BY <1>1 DEF saveToLibrary, capturing
<1>3. /\ DOMAIN saving' = Recordings
      /\ \A q \in Recordings : saving'[q] # "no" => saving[q] # "no"
      /\ \A q \in Recordings : saving'[q] = "discarding" =>
           saving[q] = "discarding" \/ (q = r /\ Whole(r) \in library')
  BY <1>1, <1>2 DEF AudioInv, AudioTypes
<1>4. stage[r] = "done" /\ scratch[r].pcm \in Nat
  BY <1>2 DEF AudioInv, AudioTypes, Files, Stage
<1>8. \A e \in library' : e \in library \/ e = <<r, scratch[r].pcm>>
  BY <1>1 DEF Whole
<1>5. \A q \in Recordings : FilesFollow(q) /\ SavesFollow(q)
  <2>1. ASSUME NEW q \in Recordings, NEW e \in library', e[1] = q
        PROVE  e \in library \/ TakenNow(q, e[2])
    BY <1>4, <1>8, <2>1 DEF TakenNow
  <2>. QED  BY <1>2, <1>3, <2>1 DEF FilesFollow, Untouched, SavesFollow, ItemFollows, Whole
<1>6. AudioTypes'
  BY <1>2, <1>3 DEF AudioInv, AudioTypes
<1>7. \A q \in Recordings : StageFollows(q)
  BY <1>2, <1>3, SameStages
<1>. QED  BY <1>2, <1>5, <1>6, <1>7, AudioKeeps

LEMMA SaveDiscardsKeepsAudio ==
  ASSUME AudioInv, NEW r \in Recordings, SaveDiscards(r)
  PROVE  AudioInv'
<1>1. /\ saving[r] = "discarding" /\ saving' = [saving EXCEPT ![r] = "no"]
      /\ scratch' = removeCapture(scratch, owner[r], {r})
      /\ UNCHANGED <<stage, catching, recovering, library, abandoned>>
  BY DEF SaveDiscards, capturing, outcome
<1>2. scratch[r].pcm # 0 => InLibrary(r)
  BY <1>1 DEF AudioInv, Saved
<1>3. /\ scratch' \in [Recordings -> Files]
      /\ \A q \in Recordings : Untouched(q) \/ (q \in {r} /\ Removed(q))
  BY <1>1, RemoveCapture DEF AudioInv
<1>4. /\ DOMAIN saving' = Recordings
      /\ \A q \in Recordings : saving'[q] # "no" => saving[q] # "no"
      /\ \A q \in Recordings : saving'[q] = "discarding" => saving[q] = "discarding"
  BY <1>1 DEF AudioInv, AudioTypes
<1>5. \A q \in Recordings : FilesFollow(q) /\ SavesFollow(q)
  BY <1>1, <1>2, <1>3, <1>4 DEF FilesFollow, SavesFollow, ItemFollows
<1>6. AudioTypes'
  BY <1>1, <1>3, <1>4 DEF AudioInv, AudioTypes
<1>7. \A q \in Recordings : StageFollows(q)
  BY <1>1, <1>4, SameStages
<1>. QED  BY <1>1, <1>5, <1>6, <1>7, AudioKeeps

LEMMA RecordingStepKeepsAudio ==
  ASSUME TextInv, AudioInv, NEW r \in Recordings, RecordingStep(r)
  PROVE  AudioInv'
<1>. USE DEF Quiet, Starting, Leftover, Doomed, Failed
<1>1. CASE ScratchStarts(r) \/ Frame(r)
  BY <1>1, ScratchStartsKeepsAudio, FrameKeepsAudio
<1>2. CASE CaptureBegins(r) \/ StartFails(r) \/ RealtimeFallback(r) \/ UploadFails(r)
  <2>1. UNCHANGED <<scratch, saving, recovering, library, abandoned>>
    BY <1>2 DEF CaptureBegins, StartFails, RealtimeFallback, UploadFails, outcome
  <2>2. CASE StartFails(r)
    <3>1. /\ stage[r] \in Starting /\ catching' = catching \cup {r}
          /\ Goes(r, "done") \/ Goes(r, "broken")
      BY <2>2 DEF StartFails
    <3>2. \A q \in Recordings : StageFollows(q)
      BY <2>1, <3>1, GoesFollows
    <3>. QED  BY <2>1, <3>2, StagesKeepAudio
  <2>3. CASE CaptureBegins(r) \/ RealtimeFallback(r) \/ UploadFails(r)
    <3>1. /\ stage[r] \in {"pipeline", "realtime", "uploading"} /\ catching' = catching
          /\ \/ Goes(r, "stopping") \/ Goes(r, "recording") \/ Goes(r, "completing")
             \/ Goes(r, "done")
      BY <2>3 DEF CaptureBegins, RealtimeFallback, UploadFails, Finally
    <3>2. \A q \in Recordings : StageFollows(q)
      BY <2>1, <3>1, GoesFollows
    <3>. QED  BY <2>1, <3>2, StagesKeepAudio
  <2>. QED  BY <1>2, <2>2, <2>3
<1>3. CASE StartFailed(r)
  <2>1. /\ r \in catching /\ catching' \subseteq catching /\ UNCHANGED stage
        /\ scratch' = removeCapture(scratch, owner[r], {r})
        /\ UNCHANGED <<saving, recovering, library, abandoned>>
    BY <1>3 DEF StartFailed, outcome
  <2>2. \A q \in Recordings : StageFollows(q)
    BY <2>1, SameStages
  <2>. QED  BY <2>1, <2>2, RemovalKeepsAudio
<1>4. CASE Cancelled(r) \/ Discarded(r) \/ Cleared(r)
  <2>1. /\ stage[r] \in {"cancelling", "discarding", "clearing", "dropping"}
        /\ Goes(r, "done") /\ scratch' = removeCapture(scratch, owner[r], {r})
        /\ UNCHANGED <<catching, saving, recovering, library, abandoned>>
    BY <1>4 DEF Cancelled, Discarded, Cleared, Finally, outcome
  <2>2. \A q \in Recordings : StageFollows(q)
    BY <2>1, GoesFollows
  <2>. QED  BY <2>1, <2>2, RemovalKeepsAudio
<1>5. CASE RecorderStops(r) \/ cancelTranscription(r)
  <2>1. /\ UNCHANGED <<catching, scratch, saving, recovering, library>>
        /\ abandoned \subseteq abandoned' /\ stage[r] \in {"stopping", "uploading"}
        /\ \/ Goes(r, "realtime")
           \/ Goes(r, "discarding") /\ GivenUp(r)'
    BY <1>5 DEF RecorderStops, cancelTranscription, GivenUp, Abandoned
  <2>2. \A q \in Recordings : StageFollows(q)
    BY <2>1, GoesFollows
  <2>. QED  BY <2>1, <2>2, StagesKeepAudio
<1>6. CASE RealtimeText(r) \/ UploadText(r)
  BY <1>6, TextArrivesKeepsAudio DEF RealtimeText, UploadText
<1>7. CASE ScratchCompletes(r) \/ SaveCompletes(r)
  BY <1>7, CompletionKeepsAudio
<1>8. CASE saveToLibrary(r) \/ SaveDiscards(r)
  BY <1>8, SaveKeepsAudio, SaveDiscardsKeepsAudio
<1>. QED  BY <1>1, <1>2, <1>3, <1>4, <1>5, <1>6, <1>7, <1>8 DEF RecordingStep

(* The active recording of a tab is given up, if the tab has one; of what  *)
(* is left of a failed start nothing was heard.                            *)
LEMMA CancelKeepsAudio ==
  ASSUME TextInv, AudioInv, NEW t \in Tabs, NEW by \in {"user", "silence", "language"},
         cancelCapture(t, by), UNCHANGED <<catching, scratch, saving, recovering, library>>
  PROVE  AudioInv'
<1>. USE DEF Quiet, Starting, Leftover, Doomed, Failed, Activated
<1>1. CASE captureRef[t] = None
  BY <1>1, SameStages, StagesKeepAudio DEF cancelCapture
<1>2. CASE captureRef[t] # None
  <2>1. PICK r \in Recordings : r = captureRef[t] /\ stage[r] \in Activated
    BY <1>2 DEF TextInv, TextTypes, Active
  <2>2. abandoned \subseteq abandoned'
    BY <1>2 DEF cancelCapture
  <2>3. CASE stage[r] = "broken"
    <3>1. Goes(r, "dropping")
      BY <1>2, <2>1, <2>3 DEF cancelCapture
    <3>2. \A q \in Recordings : StageFollows(q)
      BY <2>3, <3>1, GoesFollows
    <3>. QED  BY <2>2, <3>2, StagesKeepAudio
  <2>4. CASE stage[r] = "recording"
    <3>1. Goes(r, "cancelling") /\ GivenUp(r)'
      BY <1>2, <2>1, <2>4 DEF cancelCapture, GivenUp, Abandoned
    <3>2. \A q \in Recordings : StageFollows(q)
      BY <2>4, <3>1, GoesFollows
    <3>. QED  BY <2>2, <3>2, StagesKeepAudio
  <2>. QED  BY <2>1, <2>3, <2>4
<1>. QED  BY <1>1, <1>2

LEMMA LocaleKeepsAudio ==
  ASSUME TextInv, AudioInv, NEW t \in Tabs, NEW to, setUiLocale(t, to),
         UNCHANGED <<catching, scratch, saving, recovering, library>>
  PROVE  AudioInv'
<1>1. CASE to = language[t]
  BY <1>1, SameStages, StagesKeepAudio DEF setUiLocale
<1>2. CASE to # language[t]
  BY <1>2, CancelKeepsAudio DEF setUiLocale
<1>. QED  BY <1>1, <1>2

LEMMA FinishKeepsAudio ==
  ASSUME TextInv, AudioInv, NEW t \in Tabs, captureRef[t] # None, finishCapture(t),
         UNCHANGED <<catching, scratch, saving, recovering, library, abandoned>>
  PROVE  AudioInv'
<1>1. PICK r \in Recordings : r = captureRef[t] /\ stage[r] \in Activated
  BY DEF TextInv, TextTypes, Active
<1>2. Goes(r, IF stage[r] = "broken" THEN "clearing" ELSE "stopping")
  BY <1>1 DEF finishCapture
<1>3. \A q \in Recordings : StageFollows(q)
  BY <1>1, <1>2, GoesFollows DEF Quiet, Starting, Leftover, Doomed, Failed, Activated
<1>. QED  BY <1>3, StagesKeepAudio

LEMMA StartKeepsAudio ==
  ASSUME TextInv, AudioInv, NEW t \in Tabs, NEW r \in Recordings, startCapture(t, r)
  PROVE  AudioInv'
<1>1. /\ stage[r] = "new" /\ Goes(r, "opening")
      /\ UNCHANGED <<catching, scratch, saving, recovering, library, abandoned>>
  BY DEF startCapture, NextRecording, outcome
<1>2. \A q \in Recordings : StageFollows(q)
  BY <1>1, GoesFollows DEF Quiet, Doomed, Failed, Leftover
<1>. QED  BY <1>1, <1>2, StagesKeepAudio

(* A tab recovers: it takes what was written by then, and removes only     *)
(* what holds no frames.                                                   *)
LEMMA RecoverKeepsAudio ==
  ASSUME AudioInv, NEW t \in Tabs, recover(t),
         UNCHANGED <<stage, catching, saving, library, abandoned>>
  PROVE  AudioInv'
<1>9. scratch \in [Recordings -> Files]
  BY DEF AudioInv, AudioTypes
<1>0. ASSUME NEW q \in Recordings
      PROVE  /\ Recovered[q] \in Files
             /\ q \notin Manifests => Recovered[q] = scratch[q]
             /\ Recovered[q] = scratch[q] \/ Recovered[q] = [scratch[q] EXCEPT !.early = TRUE]
             /\ q \in Manifests /\ stage[q] # "done" => Recovered[q].early
  <2>1. PICK f \in BOOLEAN : f = (scratch[q].early \/ (q \in Manifests /\ stage[q] # "done"))
    BY <1>9 DEF Files
  <2>2. Recovered[q] = [scratch[q] EXCEPT !.early = f] /\ scratch[q] \in Files
    BY <1>9, <2>1 DEF Recovered
  <2>3. f \in {TRUE, scratch[q].early}
    BY <1>9, <2>1 DEF Files
  <2>4. [scratch[q] EXCEPT !.early = scratch[q].early] = scratch[q]
    BY <2>2 DEF Files
  <2>5. Recovered[q] \in Files /\ Recovered[q].early = f
    BY <2>2 DEF Files
  <2>6. q \notin Manifests => f = scratch[q].early
    BY <1>9, <2>1 DEF Files
  <2>7. q \in Manifests /\ stage[q] # "done" => f
    BY <2>1
  <2>. QED  BY <2>2, <2>3, <2>4, <2>5, <2>6, <2>7
<1>1. /\ scratch' \in [Recordings -> Files]
      /\ \A q \in Recordings \ Empty : scratch'[q] = Recovered[q]
      /\ \A q \in Empty : \/ scratch'[q] = Recovered[q]
                          \/ scratch'[q] = [Recovered[q] EXCEPT !.files = FALSE, !.open = NoTab]
  <2>1. scratch' = [q \in Recordings |->
           IF q \in Empty /\ Recovered[q].open \in {NoTab, t}
           THEN [Recovered[q] EXCEPT !.files = FALSE, !.open = NoTab] ELSE Recovered[q]]
    BY DEF recover, removeCapture
  <2>2. \A q \in Recordings : Recovered[q] \in Files
    BY <1>0
  <2>3. \A q \in Recordings :
          [Recovered[q] EXCEPT !.files = FALSE, !.open = NoTab] \in Files
    BY <2>2 DEF Files
  <2>4. Empty \subseteq Recordings
    BY DEF Empty
  <2>. QED  BY <2>1, <2>2, <2>3, <2>4
<1>2. \A q \in Empty : scratch[q].pcm = 0 /\ q \notin Manifests /\ q \in Recordings
  BY DEF Empty, Manifests
<1>8. ASSUME NEW q \in Recordings  PROVE FilesFollow(q)
  <2>1. CASE q \in Manifests
    BY <1>0, <1>1, <1>2, <2>1 DEF FilesFollow, Untouched, Noted
  <2>2. CASE q \notin Manifests
    BY <1>0, <1>1, <1>2, <2>2 DEF FilesFollow, Untouched, Removed
  <2>. QED  BY <2>1, <2>2
<1>3. DOMAIN recovering' = Tabs /\ \A u \in Tabs : \A item \in recovering'[u] :
        item \in recovering[u] \/ item \in Recoverable
  BY DEF recover, AudioInv, AudioTypes
<1>4. ASSUME NEW q \in Recordings, NEW u \in Tabs, NEW item \in recovering'[u], item[1] = q
      PROVE  ItemFollows(q, u, item)
  <2>1. CASE item \in Recoverable
    <3>1. PICK r \in Manifests : item = <<r, scratch[r].pcm, "save">>
      BY <2>1 DEF Recoverable
    <3>2. r = q /\ scratch[q].pcm \in Nat \ {0}
      BY <1>4, <3>1 DEF AudioInv, AudioTypes, Files, Manifests
    <3>3. stage[q] = "done" \/ scratch'[q].early
      BY <1>0, <1>1, <1>2, <3>1, <3>2
    <3>. QED  BY <3>1, <3>2, <3>3 DEF ItemFollows, TakenNow
  <2>2. CASE item \in recovering[u]
    BY <2>2 DEF ItemFollows
  <2>. QED  BY <1>3, <2>1, <2>2
<1>5. \A q \in Recordings : FilesFollow(q) /\ SavesFollow(q)
  BY <1>4, <1>8 DEF SavesFollow
<1>6. AudioTypes'
  BY <1>1, <1>3 DEF AudioInv, AudioTypes
<1>7. \A q \in Recordings : StageFollows(q)
  BY SameStages
<1>. QED  BY <1>5, <1>6, <1>7, AudioKeeps

LEMMA RecoverySavesKeepsAudio ==
  ASSUME AudioInv, NEW t \in Tabs, RecoverySaves(t)
  PROVE  AudioInv'
<1>1. PICK item \in recovering[t], done \in BOOLEAN, next \in {"discard", "none"} :
        /\ next = "discard" => done
        /\ library' = IF done THEN library \cup {<<item[1], item[2]>>} ELSE library
        /\ recovering' = [recovering EXCEPT ![t] = (@ \ {item}) \cup
             (IF next = "discard" THEN {<<item[1], item[2], "discard">>} ELSE {})]
  BY DEF RecoverySaves
<1>2. UNCHANGED <<stage, catching, scratch, saving, abandoned>> /\ library \subseteq library'
  BY <1>1 DEF RecoverySaves, capturing
<1>3. DOMAIN recovering' = Tabs /\ \A u \in Tabs : \A i \in recovering'[u] :
        \/ i \in recovering[u]
        \/ i = <<item[1], item[2], "discard">> /\ <<item[1], item[2]>> \in library'
  BY <1>1 DEF AudioInv, AudioTypes
<1>8. ASSUME NEW q \in Recordings, item[1] = q
      PROVE  /\ TakenNow(q, item[2]) /\ item[2] # 0
             /\ item[2] = scratch[q].pcm \/ scratch[q].early
  <2>1. Taken(q, item[2]) /\ item[2] # 0 /\ (item[2] = scratch[q].pcm \/ scratch[q].early)
    BY <1>8 DEF AudioInv, Saved
  <2>. QED  BY <1>2, <2>1 DEF Taken, TakenNow, Early
<1>9. ASSUME NEW q \in Recordings, NEW e \in library', e[1] = q
      PROVE  e \in library \/ TakenNow(q, e[2])
  <2>1. CASE e = <<item[1], item[2]>>
    BY <1>8, <1>9, <2>1
  <2>. QED  BY <1>1, <2>1
<1>4. ASSUME NEW q \in Recordings, NEW u \in Tabs, NEW i \in recovering'[u], i[1] = q
      PROVE  ItemFollows(q, u, i)
  <2>1. CASE i \in recovering[u]
    BY <2>1 DEF ItemFollows
  <2>2. CASE i = <<item[1], item[2], "discard">> /\ <<item[1], item[2]>> \in library'
    <3>1. item[1] = q /\ i[2] = item[2]
      BY <1>4, <2>2
    <3>2. /\ TakenNow(q, item[2]) /\ item[2] # 0
          /\ item[2] = scratch[q].pcm \/ scratch'[q].early
      BY <1>2, <1>8, <3>1
    <3>. QED  BY <2>2, <3>1, <3>2 DEF ItemFollows
  <2>. QED  BY <1>3, <2>1, <2>2
<1>5. \A q \in Recordings : FilesFollow(q) /\ SavesFollow(q)
  BY <1>2, <1>4, <1>9 DEF FilesFollow, Untouched, SavesFollow
<1>6. AudioTypes'
  BY <1>2, <1>3 DEF AudioInv, AudioTypes
<1>7. \A q \in Recordings : StageFollows(q)
  BY <1>2, SameStages
<1>. QED  BY <1>2, <1>5, <1>6, <1>7, AudioKeeps

LEMMA RecoveryDiscardsKeepsAudio ==
  ASSUME AudioInv, NEW t \in Tabs, RecoveryDiscards(t)
  PROVE  AudioInv'
<1>1. PICK item \in recovering[t] :
        /\ item[3] = "discard" /\ scratch' = removeCapture(scratch, t, {item[1]})
        /\ recovering' = [recovering EXCEPT ![t] = @ \ {item}]
  BY DEF RecoveryDiscards
<1>2. UNCHANGED <<stage, catching, saving, library, abandoned>>
  BY DEF RecoveryDiscards, capturing, outcome
<1>3. ASSUME NEW q \in Recordings, q = item[1]  PROVE InLibrary(q)
  <2>1. /\ item[2] \in 0 .. scratch[q].pcm /\ item[2] # 0 /\ <<q, item[2]>> \in library
        /\ item[2] = scratch[q].pcm \/ scratch[q].early
    BY <1>1, <1>3 DEF AudioInv, Saved, Taken
  <2>2. scratch[q].pcm \in Nat
    BY DEF AudioInv, AudioTypes, Files
  <2>3. item[2] \in 1 .. scratch[q].pcm
    BY <2>1, <2>2
  <2>. QED  BY <2>1, <2>3 DEF InLibrary, Whole, PartSaved
<1>4. /\ scratch' \in [Recordings -> Files]
      /\ \A q \in Recordings : Untouched(q) \/ (q = item[1] /\ Removed(q))
  <2>1. AudioTypes
    BY DEF AudioInv
  <2>. QED  BY <1>1, <2>1, RemoveCapture
<1>5. DOMAIN recovering' = Tabs /\ \A u \in Tabs : recovering'[u] \subseteq recovering[u]
  BY <1>1 DEF AudioInv, AudioTypes
<1>6. \A q \in Recordings : FilesFollow(q) /\ SavesFollow(q)
  BY <1>2, <1>3, <1>4, <1>5 DEF FilesFollow, SavesFollow, ItemFollows
<1>7. AudioTypes'
  BY <1>2, <1>4, <1>5 DEF AudioInv, AudioTypes
<1>8. \A q \in Recordings : StageFollows(q)
  BY <1>2, SameStages
<1>. QED  BY <1>2, <1>6, <1>7, <1>8, AudioKeeps

(* A closed tab leaves its files behind, and forgets its recoveries.       *)
LEMMA CloseKeepsAudio ==
  ASSUME TextInv, AudioInv, NEW t \in Tabs, Close(t)
  PROVE  AudioInv'
<1>1. UNCHANGED <<library, abandoned>>
  BY DEF Close, outcome
<1>2. ASSUME NEW q \in Recordings  PROVE StageFollows(q)
  <2>1. Stage(q)
    BY DEF AudioInv
  <2>2. CASE q \in Mine(t)
    BY <2>2 DEF Close, StageFollows, Quiet, Starting, Leftover, Doomed
  <2>3. CASE q \notin Mine(t)
    BY <2>1, <2>3 DEF Close, Stage, StageFollows
  <2>. QED  BY <2>2, <2>3
<1>3. /\ scratch' \in [Recordings -> Files]
      /\ \A q \in Recordings : Untouched(q) \/ JustClosed(q)
  BY DEF Close, AudioInv, AudioTypes, Files, Untouched, JustClosed
<1>4. DOMAIN saving' = Recordings /\ \A q \in Recordings :
        saving'[q] = "discarding" => saving[q] = "discarding"
  BY DEF Close
<1>5. DOMAIN recovering' = Tabs /\ \A u \in Tabs : recovering'[u] \subseteq recovering[u]
  BY DEF Close, AudioInv, AudioTypes
<1>6. \A q \in Recordings : FilesFollow(q) /\ SavesFollow(q)
  BY <1>1, <1>3, <1>4, <1>5 DEF FilesFollow, SavesFollow, ItemFollows
<1>7. AudioTypes'
  BY <1>3, <1>4, <1>5 DEF AudioTypes
<1>. QED  BY <1>1, <1>2, <1>6, <1>7, AudioKeeps

LEMMA TabStepKeepsAudio ==
  ASSUME TextInv, AudioInv, NEW t \in Tabs, TabStep(t)
  PROVE  AudioInv'
<1>1. CASE stopHoldCapture(t)
  <2>1. CASE captureRef[t] # None
    BY <1>1, <2>1, FinishKeepsAudio DEF stopHoldCapture, outcome
  <2>2. CASE captureRef[t] = None
    BY <1>1, <2>2, SameStages, StagesKeepAudio DEF stopHoldCapture, outcome
  <2>. QED  BY <2>1, <2>2
<1>2. CASE Stop(t)
  BY <1>2, FinishKeepsAudio DEF Stop, outcome
<1>3. CASE Cancel(t)
  BY <1>3, CancelKeepsAudio DEF Cancel
<1>4. CASE SettingsArrive(t)
  BY <1>4, LocaleKeepsAudio DEF SettingsArrive
<1>5. CASE Open(t) \/ SignIn(t)
  <2>1. UNCHANGED <<stage, catching, saving, library, abandoned>>
    BY <1>5 DEF Open, SignIn, capturing, outcome
  <2>2. CASE recover(t)
    BY <2>1, <2>2, RecoverKeepsAudio
  <2>3. CASE UNCHANGED <<scratch, recovering>>
    BY <2>1, <2>3, SameStages, StagesKeepAudio
  <2>. QED  BY <1>5, <2>2, <2>3 DEF Open, SignIn, SignsIn
<1>6. CASE SignedOut(t)
  BY <1>6, LocaleKeepsAudio DEF SignedOut
<1>7. CASE Close(t)
  BY <1>7, CloseKeepsAudio
<1>8. CASE \E r \in Recordings : Start(t, r)
  BY <1>8, StartKeepsAudio DEF Start
<1>9. CASE RecoverySaves(t) \/ RecoveryDiscards(t)
  BY <1>9, RecoverySavesKeepsAudio, RecoveryDiscardsKeepsAudio
<1>. QED  BY <1>1, <1>2, <1>3, <1>4, <1>5, <1>6, <1>7, <1>8, <1>9 DEF TabStep

LEMMA TurnKeepsAudio ==
  ASSUME TextInv, AudioInv, NEW t \in Tabs, Turn(t)
  PROVE  AudioInv'
<1>1. CASE startHoldCapture(t)
  <2>1. CASE \E r \in Recordings : startCapture(t, r)
    BY <2>1, StartKeepsAudio
  <2>2. CASE UNCHANGED <<capturing, scratch, saving, recovering, outcome>>
    BY <2>2, SameStages, StagesKeepAudio DEF capturing, outcome
  <2>. QED  BY <1>1, <2>1, <2>2 DEF startHoldCapture
<1>2. CASE SaveLanguage(t)
  BY <1>2, LocaleKeepsAudio DEF SaveLanguage
<1>3. CASE SignOut(t)
  BY <1>3, SameStages, StagesKeepAudio DEF SignOut, capturing, outcome
<1>. QED  BY <1>1, <1>2, <1>3 DEF Turn

(* Where the audio of every recording is, at every moment.                 *)
THEOREM AudioInvariant == Spec => []AudioInv
<1>1. Init => AudioInv
  BY InitAudioInv
<1>2. TextInv /\ AudioInv /\ [Next]_vars => AudioInv'
  <2>1. ASSUME TextInv, AudioInv, Next  PROVE AudioInv'
    BY <2>1, RecordingStepKeepsAudio, TabStepKeepsAudio, TurnKeepsAudio DEF Next
  <2>2. ASSUME AudioInv, UNCHANGED vars  PROVE AudioInv'
    BY <2>2, SameStages, StagesKeepAudio DEF vars, capturing, outcome
  <2>. QED  BY <2>1, <2>2
<1>. QED  BY <1>1, <1>2, TextInvariant, PTL DEF Spec

(* Audio that has reached the PCM file is there, or all of it in the       *)
(* Library, unless the recording was given up: through failed saves, failed*)
(* starts, closed tabs and changes of language.  Where another tab         *)
(* recovered a recording before it was over, what the Library has for      *)
(* certain is the part written by then, and the rest can be lost.          *)
THEOREM AudioStays == Spec => []AudioKept
<1>1. AudioInv => AudioKept
  BY DEF AudioInv, Scratch, AudioKept
<1>. QED  BY <1>1, AudioInvariant, PTL

=============================================================================
