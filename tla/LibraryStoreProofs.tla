------------------------- MODULE LibraryStoreProofs -------------------------
(***************************************************************************)
(* Proofs about LibraryStore for every set of saves and of uploads and     *)
(* every limit on pending saves.                                           *)
(***************************************************************************)
EXTENDS LibraryStore, FiniteSetTheorems, TLAPS

---------------------------------------------------------------------------
(* The inductive invariant.                                                *)

(* Where the files of a recording are, by the progress of its upload.      *)
Place(u) ==
  /\ put[u] \in {"new", "refused", "draining"} => u \notin uploads \cup media \cup stranded
  /\ put[u] \in {"streaming", "discarding", "moving"} => u \notin media \cup stranded
  /\ put[u] \in {"moved", "unwinding"} => u \notin uploads
  /\ put[u] \in {"moved", "unwinding"} /\ u \notin rows \cup removed
       => u \in media /\ u \notin stranded
  /\ put[u] \in {"saved", "created"} => u \in rows \cup removed
  /\ u \in rows \cup removed
       => /\ u \notin uploads
          /\ \/ put[u] \in {"saved", "created", "lost"}
             \/ u \in misread
  /\ u \in misread
       => /\ u \in rows \cup removed
          /\ put[u] \in {"unwinding", "failing", "failed", "lost"}
  /\ u \in media \ (rows \cup stranded) => u \in doomed \/ put[u] \in {"moved", "unwinding"}
  /\ u \in uploads \ stranded => put[u] \in Saving
  /\ u \in doomed => u \in removed /\ u \notin rows
  /\ u \in rows => u \notin stranded /\ u \in media \cup misread

(* A pending save has been posted, and is gone once it has been saved.     *)
PendingKnown ==
  /\ \A s \in pending : post[s] = "created"
  /\ \A u \in Puts : put[u] # "new" => post[SaveOf[u]] # "new"
  /\ \A u \in Puts : put[u] \in {"created", "unsaved"} => SaveOf[u] \notin pending

Placed == \A u \in Puts : Place(u)

IInv == TypeOK /\ Placed /\ PendingKnown

---------------------------------------------------------------------------
(* Type correctness.                                                       *)

LEMMA InitTypeOK == Init => TypeOK
BY LibraryAssumption, FS_EmptySet DEF Init, TypeOK, PutStages, LibraryAssumption

(* Dropping pending saves keeps their number within the limit.             *)
LEMMA FewerPending ==
  ASSUME TypeOK, NEW kept \in SUBSET pending
  PROVE  /\ kept \subseteq Saves /\ IsFiniteSet(kept)
         /\ Cardinality(kept) \in Nat /\ Cardinality(kept) <= MaxPending
<1>1. IsFiniteSet(pending)
  BY LibraryAssumption, FS_Subset DEF TypeOK, LibraryAssumption
<1>2. IsFiniteSet(kept) /\ Cardinality(kept) <= Cardinality(pending)
  BY <1>1, FS_Subset
<1>3. Cardinality(kept) \in Nat /\ Cardinality(pending) \in Nat
  BY <1>1, <1>2, FS_CardinalityType
<1>. QED  BY <1>2, <1>3, LibraryAssumption DEF TypeOK, LibraryAssumption

LEMMA StageTypes ==
  ASSUME TypeOK, NEW s \in Saves, StageLibrarySave(s)
  PROVE  TypeOK'
<1>1. PICK kept \in SUBSET pending :
         \/ pending' = kept /\ post' = [post EXCEPT ![s] = "refused"]
         \/ /\ ~Full(kept)
            /\ pending' = kept \cup {s}
            /\ post' = [post EXCEPT ![s] = "created"]
  BY DEF StageLibrarySave
<1>2. /\ kept \subseteq Saves /\ IsFiniteSet(kept)
      /\ Cardinality(kept) \in Nat /\ Cardinality(kept) <= MaxPending
  BY FewerPending
<1>3. post' \in [Saves -> {"new", "created", "refused"}]
  BY <1>1 DEF TypeOK
<1>4. pending' \subseteq Saves /\ Cardinality(pending') <= MaxPending
  <2>1. CASE pending' = kept
    BY <1>2, <2>1
  <2>2. CASE ~Full(kept) /\ pending' = kept \cup {s}
    <3>1. Cardinality(kept \cup {s}) <= Cardinality(kept) + 1
      BY <1>2, FS_AddElement
    <3>2. Cardinality(kept) < MaxPending
      BY <1>2, <2>2, LibraryAssumption DEF Full, LibraryAssumption
    <3>3. Cardinality(kept \cup {s}) \in Nat
      BY <1>2, FS_AddElement, FS_CardinalityType
    <3>. QED
      BY <1>2, <2>2, <3>1, <3>2, <3>3, LibraryAssumption DEF LibraryAssumption
  <2>. QED  BY <1>1, <2>1, <2>2
<1>. QED
  BY <1>3, <1>4 DEF StageLibrarySave, TypeOK, files, library

LEMMA UploadTypes ==
  ASSUME TypeOK, NEW u \in Puts, Upload(u)
  PROVE  TypeOK'
<1>1. put' \in [Puts -> PutStages]
  BY DEF Upload, PendingNotFound, SaveStream, Streamed, Drained, MoveUpload,
         InsertRecording, InsertFails, ReadBackFails, Unwind, Answer, Moves, TypeOK, PutStages
<1>2. pending' \subseteq Saves /\ Cardinality(pending') <= MaxPending
  <2>1. pending' = pending \/ pending' = pending \ {SaveOf[u]}
    BY DEF Upload, PendingNotFound, SaveStream, Streamed, Drained, MoveUpload,
           InsertRecording, Unwind, Answer, PendingAfter, requests
  <2>2. pending' \in SUBSET pending
    BY <2>1
  <2>. QED  BY <2>2, FewerPending
<1>3. /\ uploads' \subseteq Puts /\ media' \subseteq Puts
      /\ stranded' \subseteq Puts /\ rows' \subseteq Puts /\ misread' \subseteq Puts
  BY DEF Upload, PendingNotFound, SaveStream, Streamed, Drained, MoveUpload,
         InsertRecording, InsertFails, ReadBackFails, Unwind, Answer, Finally, Unlink, TypeOK,
         files, library
<1>4. UNCHANGED <<policy, post, doomed, removed>>
  BY DEF Upload, PendingNotFound, SaveStream, Streamed, Drained, MoveUpload,
         InsertRecording, Unwind, Answer, requests, library
<1>. QED  BY <1>1, <1>2, <1>3, <1>4 DEF TypeOK

LEMMA NextTypeOK == TypeOK /\ [Next]_vars => TypeOK'
<1>. SUFFICES ASSUME TypeOK, [Next]_vars  PROVE TypeOK'
  OBVIOUS
<1>1. CASE SetPolicy
  BY <1>1 DEF SetPolicy, TypeOK, files, library
<1>2. ASSUME NEW s \in Saves, StageLibrarySave(s)  PROVE TypeOK'
  BY <1>2, StageTypes
<1>3. ASSUME NEW u \in Puts, Upload(u)  PROVE TypeOK'
  BY <1>3, UploadTypes
<1>4. ASSUME NEW u \in Puts, UnlinkRemoved(u)  PROVE TypeOK'
  BY <1>4 DEF UnlinkRemoved, Unlink, TypeOK, requests
<1>5. ASSUME NEW S \in SUBSET rows, Remove(S)  PROVE TypeOK'
  BY <1>5 DEF Remove, DeleteRows, TypeOK, requests
<1>6. CASE Reconcile
  BY <1>6 DEF Reconcile, Orphans, TypeOK, requests, library
<1>7. CASE Restart
  <2>1. put' \in [Puts -> PutStages]
    BY <1>7 DEF Restart, TypeOK, PutStages
  <2>2. Cardinality(pending') <= MaxPending
    BY <1>7, FS_EmptySet, LibraryAssumption DEF Restart, LibraryAssumption
  <2>. QED  BY <1>7, <2>1, <2>2 DEF Restart, Orphans, TypeOK
<1>8. CASE UNCHANGED vars
  BY <1>8 DEF vars, requests, files, library, TypeOK
<1>. QED
  BY <1>1, <1>2, <1>3, <1>4, <1>5, <1>6, <1>7, <1>8 DEF Next

---------------------------------------------------------------------------
(* Files and rows.  An upload's step disturbs its own recording alone.     *)

LEMMA OtherPlaces ==
  ASSUME TypeOK, Placed, NEW u \in Puts, Upload(u) \/ UnlinkRemoved(u),
         NEW v \in Puts, v # u
  PROVE  Place(v)'
<1>1. /\ put'[v] = put[v]
      /\ v \in uploads' <=> v \in uploads
      /\ v \in media' <=> v \in media
      /\ v \in stranded' <=> v \in stranded
      /\ v \in rows' <=> v \in rows
      /\ v \in doomed' <=> v \in doomed
      /\ removed' = removed
      /\ v \in misread' <=> v \in misread
  BY DEF Upload, PendingNotFound, SaveStream, Streamed, Drained, MoveUpload,
         InsertRecording, InsertFails, ReadBackFails, Unwind, Answer, Finally, Unlink,
         UnlinkRemoved, Moves, TypeOK, requests, files, library
<1>. QED  BY <1>1 DEF Placed, Place

LEMMA OwnPlace ==
  ASSUME TypeOK, Placed, NEW u \in Puts, Upload(u)
  PROVE  Place(u)'
<1>. USE DEF Place, Placed, TypeOK, Moves, Saving, files, library, requests
<1>1. CASE PendingNotFound(u)
  BY <1>1 DEF PendingNotFound
<1>2. CASE SaveStream(u)
  BY <1>2 DEF SaveStream
<1>3. CASE Streamed(u)
  BY <1>3 DEF Streamed
<1>4. CASE Drained(u)
  BY <1>4 DEF Drained
<1>5. CASE MoveUpload(u)
  BY <1>5 DEF MoveUpload
<1>6. CASE InsertRecording(u)
  BY <1>6 DEF InsertRecording, InsertFails, ReadBackFails
<1>7. CASE Unwind(u)
  BY <1>7 DEF Unwind, Unlink
<1>8. CASE Answer(u)
  BY <1>8 DEF Answer, Finally, Unlink
<1>. QED
  BY <1>1, <1>2, <1>3, <1>4, <1>5, <1>6, <1>7, <1>8 DEF Upload

LEMMA NextPlaced == TypeOK /\ Placed /\ [Next]_vars => Placed'
<1>. SUFFICES ASSUME TypeOK, Placed, [Next]_vars, NEW v \in Puts
              PROVE  Place(v)'
  BY DEF Placed
<1>1. CASE UNCHANGED <<put, files, library>>
  BY <1>1 DEF Placed, Place, files, library
<1>2. ASSUME NEW u \in Puts, Upload(u)  PROVE Place(v)'
  BY <1>2, OwnPlace, OtherPlaces
<1>3. ASSUME NEW u \in Puts, UnlinkRemoved(u)  PROVE Place(v)'
  <2>1. CASE v = u
    BY <1>3, <2>1 DEF UnlinkRemoved, Unlink, Placed, Place, TypeOK, requests
  <2>2. CASE v # u
    BY <1>3, <2>2, OtherPlaces
  <2>. QED  BY <2>1, <2>2
<1>4. ASSUME NEW S \in SUBSET rows, Remove(S)  PROVE Place(v)'
  BY <1>4 DEF Remove, DeleteRows, Placed, Place, TypeOK, requests
<1>5. CASE Reconcile
  BY <1>5 DEF Reconcile, Quiet, Orphans, Placed, Place, TypeOK, Saving,
              requests, library
<1>6. CASE Restart
  <2>1. put'[v] = IF put[v] \in Saving \cup {"draining"} THEN "lost" ELSE put[v]
    BY <1>6 DEF Restart
  <2>2. stranded' = (media \ rows) \cup uploads /\ doomed' = {}
        /\ UNCHANGED <<uploads, media, rows, removed, misread>>
    BY <1>6 DEF Restart, Orphans
  <2>3. Place(v)
    BY DEF Placed
  <2>. QED  BY <2>1, <2>2, <2>3 DEF Place, Saving
<1>. QED
  BY <1>1, <1>2, <1>3, <1>4, <1>5, <1>6
     DEF Next, SetPolicy, StageLibrarySave, vars, requests

---------------------------------------------------------------------------
(* Pending saves.                                                          *)

LEMMA NextPendingKnown ==
  TypeOK /\ PendingKnown /\ [Next]_vars => PendingKnown'
<1>. SUFFICES ASSUME TypeOK, PendingKnown, [Next]_vars  PROVE PendingKnown'
  OBVIOUS
<1>0. SaveOf \in [Puts -> Saves]
  BY LibraryAssumption DEF LibraryAssumption
<1>1. CASE UNCHANGED <<requests, put>>
  BY <1>1 DEF PendingKnown, requests
<1>2. ASSUME NEW s \in Saves, StageLibrarySave(s)  PROVE PendingKnown'
  BY <1>0, <1>2 DEF StageLibrarySave, PendingKnown, TypeOK
<1>3. ASSUME NEW u \in Puts, Upload(u)  PROVE PendingKnown'
  BY <1>0, <1>3 DEF Upload, PendingNotFound, SaveStream, Streamed, Drained,
         MoveUpload, InsertRecording, InsertFails, ReadBackFails, Unwind, Answer, PendingAfter,
         Moves, PendingKnown, TypeOK, requests
<1>4. CASE Restart
  BY <1>4 DEF Restart, PendingKnown, Saving
<1>5. CASE SetPolicy
  BY <1>5 DEF SetPolicy, PendingKnown
<1>. QED
  BY <1>1, <1>2, <1>3, <1>4, <1>5
     DEF Next, UnlinkRemoved, Remove, Reconcile, vars, requests

---------------------------------------------------------------------------
(* The theorems.                                                           *)

LEMMA InitIInv == Init => IInv
BY InitTypeOK DEF Init, IInv, Placed, Place, PendingKnown

(* The inductive invariant holds in every reachable state.                 *)
THEOREM LibraryInvariant == Spec => []IInv
<1>1. IInv /\ [Next]_vars => IInv'
  BY NextTypeOK, NextPlaced, NextPendingKnown DEF IInv
<1>. QED  BY <1>1, InitIInv, PTL DEF Spec

(* Every variable keeps its type, and the pending saves their limit: the   *)
(* check and the insertion of stageLibrarySave never let one too many in.  *)
THEOREM TypeCorrect == Spec => []TypeOK
<1>1. IInv => TypeOK
  BY DEF IInv
<1>. QED  BY <1>1, LibraryInvariant, PTL

(* A recording the library lists has its audio, whatever failed and        *)
(* whenever the process died: remove() deletes the row first, and          *)
(* saveStaged() inserts it last.  A row that was committed and could not   *)
(* be read back is excepted: the catch of saveStaged() unlinks its audio.  *)
THEOREM ListedHasAudio == Spec => []RowHasMedia
<1>1. IInv => RowHasMedia
  BY DEF IInv, TypeOK, Placed, Place, RowHasMedia
<1>. QED  BY <1>1, LibraryInvariant, PTL

(* A file without a row is being worked on, or an unlink of it failed, or  *)
(* the process died: the catch and finally blocks leave no other.          *)
THEOREM FilesAccountedFor == Spec => []NoForgottenFile
<1>1. IInv => NoForgottenFile
  BY DEF IInv, TypeOK, Placed, Place, NoForgottenFile, Orphans, Saving
<1>. QED  BY <1>1, LibraryInvariant, PTL

(* The answer to an upload tells whether the recording was saved: an error *)
(* means that it was not, or that its row could not be read back.          *)
THEOREM TrueAnswers == Spec => []AnswerIsTrue
<1>1. IInv => AnswerIsTrue
  BY DEF IInv, Placed, Place, AnswerIsTrue
<1>. QED  BY <1>1, LibraryInvariant, PTL

(* A save that was answered is not made again by repeating the upload.     *)
THEOREM SavedOnce == Spec => SavedForGood
<1>. DEFINE Same(u, v) ==
       /\ SaveOf[u] = SaveOf[v] /\ put[u] \in {"created", "unsaved"}
       /\ put[v] = "new"
<1>1. ASSUME IInv, [Next]_vars, NEW u \in Puts, NEW v \in Puts, Same(u, v)
      PROVE  put'[v] \in {"new", "refused"}
  <2>1. SaveOf[v] \notin pending
    BY <1>1 DEF IInv, PendingKnown
  <2>2. ASSUME NEW w \in Puts, Upload(w)  PROVE put'[v] \in {"new", "refused"}
    BY <1>1, <2>1, <2>2 DEF IInv, TypeOK, Upload, PendingNotFound, SaveStream,
       Streamed, Drained, MoveUpload, InsertRecording, InsertFails, ReadBackFails, Unwind,
       Answer, Moves
  <2>3. CASE Restart
    BY <1>1, <2>3 DEF Restart, Saving
  <2>4. CASE UNCHANGED put
    BY <1>1, <2>4
  <2>. QED
    BY <1>1, <2>2, <2>3, <2>4 DEF Next, SetPolicy, StageLibrarySave,
       UnlinkRemoved, Remove, Reconcile, vars, requests
<1>2. IInv /\ [Next]_vars
      => [\A u, v \in Puts : Same(u, v) => put'[v] \in {"new", "refused"}]_vars
  BY <1>1
<1>. QED  BY <1>2, LibraryInvariant, PTL DEF Spec, SavedForGood

---------------------------------------------------------------------------
(* The library implements RecordingLibrary.                                *)

Answers == [u \in Puts |-> Told(put[u])]

LEMMA Tells ==
  /\ Told("new") = "new" /\ Told("lost") = "lost"
  /\ \A stage \in Saving \cup {"draining"} : Told(stage) = "working"
  /\ Told("created") = "kept" /\ Told("unsaved") = "not kept"
  /\ Told("refused") = "refused" /\ Told("failed") = "refused"
BY DEF Told, Saving

(* One upload goes on and the others stand still.                          *)
LEMMA OneTold ==
  ASSUME TypeOK, NEW u \in Puts, NEW to, put' = [put EXCEPT ![u] = to]
  PROVE  Answers' = [Answers EXCEPT ![u] = Told(to)]
BY DEF Answers, TypeOK

(* A step that is none of the abstract library's.                          *)
LEMMA Unseen ==
  ASSUME UNCHANGED <<rows, removed, rows \cap media, Answers, misread>>
  PROVE  UNCHANGED Library!vars
BY DEF Library!vars, Answers

LEMMA NewIsUnkept ==
  ASSUME IInv, NEW u \in Puts,
         put[u] \notin {"saved", "created", "lost", "unwinding", "failing", "failed"}
  PROVE  u \notin rows \cup removed
BY DEF IInv, Placed, Place

LEMMA UploadSeen ==
  ASSUME IInv, NEW u \in Puts, Upload(u)
  PROVE  [Library!Next]_(Library!vars)
<1>. USE DEF Moves
<1>0. TypeOK /\ Place(u)
  BY DEF IInv, Placed
<1>1. CASE PendingNotFound(u)
  <2>1. put[u] = "new" /\ put' = [put EXCEPT ![u] = "refused"] /\ "refused" \in PutStages
    BY <1>1 DEF PendingNotFound, PutStages
  <2>2. Told(put[u]) = "new" /\ Answers' = [Answers EXCEPT ![u] = "refused"]
    <3>1. Answers' = [Answers EXCEPT ![u] = Told("refused")]
      BY <1>0, <2>1, OneTold
    <3>. QED  BY <2>1, <3>1, Tells
  <2>3. u \notin rows \cup removed
    BY <2>1, NewIsUnkept
  <2>4. UNCHANGED <<rows, removed, media, misread>>
    BY <1>1 DEF PendingNotFound, files, library
  <2>5. Library!Answer(u)
    BY <2>2, <2>3, <2>4 DEF Library!Answer, Library!Becomes, Library!Ever, Answers
  <2>. QED  BY <2>5 DEF Library!Next
<1>2. CASE SaveStream(u)
  <2>1. PICK to \in {"draining", "streaming"} : put[u] = "new" /\ put' = [put EXCEPT ![u] = to]
    BY <1>2 DEF SaveStream
  <2>2. Told(put[u]) = "new" /\ Answers' = [Answers EXCEPT ![u] = "working"]
    <3>1. Answers' = [Answers EXCEPT ![u] = Told(to)]
      BY <1>0, <2>1, OneTold
    <3>2. Told(to) = "working"
      BY Tells DEF Saving
    <3>. QED  BY <2>1, <3>1, <3>2, Tells
  <2>3. \A v \in Puts : SaveOf[v] = SaveOf[u] => Told(put[v]) \notin {"kept", "not kept"}
    <3>1. SaveOf[u] \in pending
      BY <1>2 DEF SaveStream
    <3>2. \A v \in Puts : SaveOf[v] = SaveOf[u] => put[v] \notin {"created", "unsaved"}
      BY <3>1 DEF IInv, PendingKnown
    <3>. QED  BY <1>0, <3>2, Tells DEF TypeOK, PutStages, Saving
  <2>4. UNCHANGED <<rows, removed, media, misread>>
    BY <1>2 DEF SaveStream, library
  <2>5. Library!Begin(u)
    BY <2>2, <2>3, <2>4 DEF Library!Begin, Library!Becomes, Answers
  <2>. QED  BY <2>5 DEF Library!Next
<1>3. CASE InsertRecording(u) /\ ~InsertFails(u)
  <2>1. PICK to \in {"saved", "unwinding"} :
          put[u] = "moved" /\ put' = [put EXCEPT ![u] = to] /\ rows' = rows \cup {u}
    BY <1>3 DEF InsertRecording, ReadBackFails
  <2>2. Answers' = [Answers EXCEPT ![u] = Told(put[u])]
    <3>1. Answers' = [Answers EXCEPT ![u] = Told(to)]
      BY <1>0, <2>1, OneTold
    <3>2. Told("moved") = "working" /\ Told(to) = "working"
      BY Tells DEF Saving
    <3>. QED  BY <2>1, <3>1, <3>2
  <2>3. Answers' = Answers /\ Told(put[u]) = "working"
    BY <2>1, <2>2, Tells DEF Answers, Saving
  <2>4. u \in media /\ u \notin rows \cup removed
    BY <1>0, <2>1, NewIsUnkept DEF Place
  <2>5. UNCHANGED <<removed, media>> /\ misread' \in {misread, misread \cup {u}}
    BY <1>3 DEF InsertRecording, ReadBackFails, files
  <2>6. Library!Keep(u)
    BY <2>1, <2>3, <2>4, <2>5 DEF Library!Keep, Library!Ever, Answers
  <2>. QED  BY <2>6 DEF Library!Next
<1>4. CASE (Answer(u) \/ Drained(u)) /\ put[u] \in {"saved", "discarding", "failing", "draining"}
  <2>1. PICK to \in {"created", "unsaved", "failed"} :
          /\ put' = [put EXCEPT ![u] = to]
          /\ put[u] = "saved" <=> to = "created"
          /\ to = "unsaved" => put[u] \in {"discarding", "draining"}
          /\ to = "failed" => put[u] \in {"failing", "draining"}
    BY <1>4 DEF Answer, Drained
  <2>2. Told(put[u]) = "working"
    BY <1>4, Tells DEF Saving
  <2>3. Answers' = [Answers EXCEPT ![u] = IF to = "created" THEN "kept"
                      ELSE IF to = "unsaved" THEN "not kept" ELSE "refused"]
    <3>1. Answers' = [Answers EXCEPT ![u] = Told(to)]
      BY <1>0, <2>1, OneTold
    <3>2. Told(to) = IF to = "created" THEN "kept"
                     ELSE IF to = "unsaved" THEN "not kept" ELSE "refused"
      BY Tells
    <3>. QED  BY <3>1, <3>2
  <2>4. /\ to = "created" => u \in (rows \cup removed) \ misread
        /\ to = "unsaved" => u \notin rows \cup removed
        /\ to = "failed" => u \notin rows \cup removed \/ u \in misread
    BY <1>0, <1>4, <2>1 DEF Place
  <2>5. UNCHANGED <<rows, removed, media, misread>>
    BY <1>4 DEF Answer, Drained, files, library
  <2>6. Library!Answer(u)
    BY <2>1, <2>2, <2>3, <2>4, <2>5
       DEF Library!Answer, Library!Becomes, Library!Ever, Answers
  <2>. QED  BY <2>6 DEF Library!Next
<1>5. CASE Streamed(u) \/ MoveUpload(u) \/ Unwind(u) \/ (InsertRecording(u) /\ InsertFails(u))
  <2>1. PICK to \in Saving : put[u] \in Saving /\ put' = [put EXCEPT ![u] = to]
    BY <1>5 DEF Streamed, MoveUpload, Unwind, InsertRecording, InsertFails, Saving
  <2>2. Answers' = Answers
    <3>1. Answers' = [Answers EXCEPT ![u] = Told(to)]
      BY <1>0, <2>1, OneTold
    <3>2. Told(put[u]) = "working" /\ Told(to) = "working"
      BY <2>1, Tells
    <3>. QED  BY <3>1, <3>2 DEF Answers
  <2>3. UNCHANGED <<rows, removed, misread>>
    BY <1>5 DEF Streamed, MoveUpload, Unwind, InsertRecording, InsertFails, files, library
  <2>4. CASE u \notin rows
    <3>1. media' \ {u} = media \ {u}
      BY <1>5 DEF Streamed, MoveUpload, Unwind, Unlink, InsertRecording, InsertFails, files
    <3>. QED  BY <2>2, <2>3, <2>4, <3>1, Unseen
  <2>5. CASE u \in rows
    <3>1. Unwind(u) /\ u \in misread
      BY <1>0, <1>5, <2>5 DEF Place, Streamed, MoveUpload, Unwind, InsertFails
    <3>2. media' = media \/ media' = media \ {u}
      BY <3>1 DEF Unwind, Unlink
    <3>3. CASE media' = media
      BY <2>2, <2>3, <3>3, Unseen
    <3>4. CASE media' = media \ {u}
      <4>1. Library!Silence(u)
        BY <2>2, <2>3, <3>1, <3>4 DEF Library!Silence, Answers
      <4>. QED  BY <4>1 DEF Library!Next
    <3>. QED  BY <3>2, <3>3, <3>4
  <2>. QED  BY <2>4, <2>5
<1>. QED
  BY <1>1, <1>2, <1>3, <1>4, <1>5 DEF Upload, Answer, Drained

LEMMA StepSeen ==
  ASSUME IInv, [Next]_vars
  PROVE  [Library!Next]_(Library!vars)
<1>1. ASSUME NEW u \in Puts, Upload(u)  PROVE [Library!Next]_(Library!vars)
  BY <1>1, UploadSeen
<1>2. CASE UNCHANGED <<put, rows, removed, media, misread>>
  <2>1. Answers' = Answers
    BY <1>2 DEF Answers
  <2>. QED  BY <1>2, <2>1, Unseen
<1>3. ASSUME NEW u \in Puts, UnlinkRemoved(u)  PROVE [Library!Next]_(Library!vars)
  <2>1. u \notin rows /\ UNCHANGED <<put, rows, removed, misread>> /\ media' \ {u} = media \ {u}
    BY <1>3 DEF UnlinkRemoved, Unlink, IInv, Placed, Place, requests
  <2>2. Answers' = Answers
    BY <2>1 DEF Answers
  <2>. QED  BY <2>1, <2>2, Unseen
<1>4. ASSUME NEW S \in SUBSET rows, Remove(S)  PROVE [Library!Next]_(Library!vars)
  <2>1. /\ S # {} /\ rows' = rows \ S /\ media' = media /\ removed' = removed \cup S
        /\ put' = put /\ misread' = misread
    BY <1>4 DEF Remove, DeleteRows
  <2>2. Answers' = Answers
    BY <2>1 DEF Answers
  <2>3. Library!Delete(S)
    BY <2>1, <2>2 DEF Library!Delete, Answers
  <2>. QED  BY <2>3 DEF Library!Next
<1>5. CASE Reconcile
  <2>1. UNCHANGED <<put, rows, removed, misread>> /\ rows \cap media' = rows \cap media
    <3>1. rows \cap Orphans = {}
      BY DEF Orphans, IInv, TypeOK, Placed, Place
    <3>. QED  BY <1>5, <3>1 DEF Reconcile, requests, library
  <2>2. Answers' = Answers
    BY <2>1 DEF Answers
  <2>. QED  BY <2>1, <2>2, Unseen
<1>6. CASE Restart
  <2>1. put' = [u \in Puts |-> IF put[u] \in Saving \cup {"draining"} THEN "lost" ELSE put[u]]
        /\ UNCHANGED <<rows, removed, media, misread>>
    BY <1>6 DEF Restart
  <2>2. ASSUME NEW u \in Puts
        PROVE  Told(put'[u]) = IF Told(put[u]) = "working" THEN "lost" ELSE Told(put[u])
    BY <2>1 DEF Told, Saving
  <2>3. Library!Restart
    BY <2>1, <2>2 DEF Library!Restart
  <2>. QED  BY <2>3 DEF Library!Next
<1>. QED
  BY <1>1, <1>2, <1>3, <1>4, <1>5, <1>6
     DEF Next, SetPolicy, StageLibrarySave, vars, files, library

LEMMA InitSeen == Init => Library!Init
BY Tells DEF Init, Library!Init

(* Seen from outside a recording is one thing: row and file, written and   *)
(* removed one after the other by handlers that fail or die in between,    *)
(* appear and disappear together, and what an upload is told is so.  Only  *)
(* a save whose row is committed and cannot be read back is told apart: it *)
(* is spoilt in the step that keeps it.                                    *)
THEOREM LibraryKeepsPromise == Spec => ImplementsLibrary
<1>. QED  BY InitSeen, StepSeen, LibraryInvariant, PTL
          DEF Spec, ImplementsLibrary, Library!Spec
=============================================================================
