---------------------------- MODULE LibraryStore ----------------------------
(***************************************************************************)
(* The recording library of the BFF: class LibraryStore of                 *)
(* src/server/library-store.ts and the routes of server.ts that save a     *)
(* recording in two requests, its metadata first (POST, kept in memory as  *)
(* a pending save) and its audio second (PUT, streamed to a file).  A      *)
(* recording is a row of the database and a media file beside it; no       *)
(* transaction spans the two.                                              *)
(*                                                                         *)
(* A recording is named by the PUT that saves it, and so are its .upload   *)
(* and media files.  Database calls are synchronous, file system calls are *)
(* awaited, so a handler is cut at each of the latter.  One browser        *)
(* session is modelled, and one retention category.                        *)
(***************************************************************************)
EXTENDS Integers, FiniteSets

CONSTANTS
  Saves,           (* metadata posted, one pending save each                *)
  Puts,            (* upload requests                                       *)
  SaveOf,          (* the pending save an upload names                      *)
  MaxPending       (* maxPendingLibrarySavesPerSession                      *)

ASSUME LibraryAssumption ==
  /\ SaveOf \in [Puts -> Saves]
  /\ IsFiniteSet(Saves)
  /\ MaxPending \in Nat

VARIABLES
  policy,          (* the retention policy: "keep" or "never"               *)
  pending,         (* pendingLibrarySaves                                   *)
  post, put,       (* progress of the requests                              *)
  uploads,         (* .upload files                                         *)
  media,           (* media files                                           *)
  rows,            (* rows of recordings                                    *)
  doomed,          (* removed rows whose files are still to be unlinked     *)
  removed,         (* every recording ever removed                          *)
  stranded,        (* files left behind by a failed unlink or a crash       *)
  misread          (* saves whose row was committed and not read back       *)

requests == <<policy, pending, post>>
files == <<uploads, media, stranded>>
library == <<rows, doomed, removed, misread>>
vars == <<requests, put, files, library>>

PutStages == {"new", "refused", "draining", "streaming", "discarding",
              "moving", "moved", "unwinding", "saved", "failing",
              "created", "unsaved", "failed", "lost"}
Saving == {"streaming", "discarding", "moving", "moved", "unwinding",
           "saved", "failing"}

Init ==
  /\ policy \in {"keep", "never"}
  /\ pending = {}
  /\ post = [s \in Saves |-> "new"]
  /\ put = [u \in Puts |-> "new"]
  /\ uploads = {} /\ media = {} /\ stranded = {}
  /\ rows = {} /\ doomed = {} /\ removed = {} /\ misread = {}

Moves(u, from, to) == put[u] = from /\ put' = [put EXCEPT ![u] = to]

---------------------------------------------------------------------------
(* Settings and the first request.                                         *)

SetPolicy ==
  /\ policy' \in {"keep", "never"}
  /\ UNCHANGED <<pending, post, put, files, library>>

(* Mutation: the limit is noticed one late.                                *)
FullWhenOver(saves) == Cardinality(saves) > MaxPending

Full(saves) == Cardinality(saves) >= MaxPending

(* stageLibrarySave.  Pending saves past their ten minutes are dropped.    *)
StageLibrarySave(s) ==
  /\ post[s] = "new"
  /\ \E kept \in SUBSET pending :
       \/ /\ Full(kept)
          /\ pending' = kept
          /\ post' = [post EXCEPT ![s] = "refused"]
       \/ /\ ~Full(kept)
          /\ pending' = kept \cup {s}
          /\ post' = [post EXCEPT ![s] = "created"]
  /\ UNCHANGED <<policy, put, files, library>>

---------------------------------------------------------------------------
(* The second request: saveStagedLibraryAudio, saveStream and saveStaged.  *)

PendingNotFound(u) ==
  /\ post[SaveOf[u]] # "new" /\ SaveOf[u] \notin pending
  /\ Moves(u, "new", "refused")
  /\ UNCHANGED <<requests, files, library>>

(* Under the policy "never" the stream is read and nothing is written.     *)
SaveStream(u) ==
  /\ SaveOf[u] \in pending
  /\ \/ policy = "never" /\ Moves(u, "new", "draining") /\ UNCHANGED uploads
     \/ policy = "keep" /\ Moves(u, "new", "streaming") /\ uploads' = uploads \cup {u}
  /\ UNCHANGED <<requests, media, stranded, library>>

(* The stream has ended or broken.  The policy is read again, for it may   *)
(* have changed meanwhile.                                                 *)
Streamed(u) ==
  /\ \/ policy = "never" /\ Moves(u, "streaming", "discarding")
     \/ policy = "keep" /\ Moves(u, "streaming", "moving")
     \/ Moves(u, "streaming", "failing")
  /\ UNCHANGED <<requests, files, library>>

(* stat and rename.                                                        *)
MoveUpload(u) ==
  /\ \/ /\ Moves(u, "moving", "moved")
        /\ uploads' = uploads \ {u}
        /\ media' = media \cup {u}
     \/ /\ Moves(u, "moving", "failing")
        /\ UNCHANGED <<uploads, media>>
  /\ UNCHANGED <<requests, stranded, library>>

(* Mutation: a failed transaction passes for a save.                       *)
InsertErrorLost(u) == Moves(u, "moved", "saved") /\ UNCHANGED <<rows, misread>>

InsertFails(u) == Moves(u, "moved", "unwinding") /\ UNCHANGED <<rows, misread>>

(* The transaction is committed, and open(id), which reads the row back    *)
(* for the answer, throws in the same try: the catch unwinds a save whose  *)
(* row stays.                                                              *)
ReadBackFails(u) ==
  /\ Moves(u, "moved", "unwinding")
  /\ rows' = rows \cup {u} /\ misread' = misread \cup {u}

(* insertRecording, one transaction that may fail, and open(id) with no    *)
(* await between the two.                                                  *)
InsertRecording(u) ==
  /\ \/ Moves(u, "moved", "saved") /\ rows' = rows \cup {u} /\ UNCHANGED misread
     \/ InsertFails(u)
     \/ ReadBackFails(u)
  /\ UNCHANGED <<requests, files, doomed, removed>>

(* Unlinking a file either works or leaves it behind; every caller         *)
(* swallows the error.                                                     *)
Unlink(file, u) ==
  \/ file' = file \ {u} /\ UNCHANGED stranded
  \/ file' = file /\ stranded' = stranded \cup (({u} \cap file) \ rows)

(* A file already moved into the library is unlinked again, whether or not *)
(* its row was committed.                                                  *)
Unwind(u) ==
  /\ Moves(u, "unwinding", "failing")
  /\ Unlink(media, u)
  /\ UNCHANGED <<requests, uploads, library>>

(* Mutation: a pending save stays after its recording was saved.           *)
PendingAfterSave(u) == pending

PendingAfter(u) == pending \ {SaveOf[u]}

(* Mutation: an upload that failed leaves its .upload file.                *)
NoFinally(u) == UNCHANGED <<uploads, stranded>>

Finally(u) == Unlink(uploads, u)

(* The finally of saveStream, and the answer.                              *)
Answer(u) ==
  /\ \/ /\ Moves(u, "saved", "created") \/ Moves(u, "discarding", "unsaved")
        /\ pending' = PendingAfter(u)
     \/ /\ Moves(u, "failing", "failed")
        /\ UNCHANGED pending
  /\ Finally(u)
  /\ UNCHANGED <<policy, post, media, library>>

(* The answer to an upload nothing was written of.                         *)
Drained(u) ==
  /\ \/ Moves(u, "draining", "unsaved") /\ pending' = PendingAfter(u)
     \/ Moves(u, "draining", "failed") /\ UNCHANGED pending
  /\ UNCHANGED <<policy, post, files, library>>

---------------------------------------------------------------------------
(* Removal.                                                                *)

(* Mutation: the file goes before the row.                                 *)
UnlinkFirst(S) == media' = media \ S /\ rows' = rows /\ doomed' = doomed \cup S

DeleteRows(S) == rows' = rows \ S /\ doomed' = doomed \cup S /\ UNCHANGED media

(* remove(ids), for a DELETE request, a batch or the recordings past their *)
(* retention: the rows go in one transaction, then the files one by one.   *)
Remove(S) ==
  /\ S # {}
  /\ DeleteRows(S)
  /\ removed' = removed \cup S
  /\ UNCHANGED <<requests, put, uploads, stranded, misread>>

UnlinkRemoved(u) ==
  /\ u \in doomed
  /\ doomed' = doomed \ {u}
  /\ Unlink(media, u)
  /\ UNCHANGED <<requests, put, uploads, rows, removed, misread>>

Orphans == (media \ rows) \cup uploads

Quiet == doomed = {} /\ \A u \in Puts : put[u] \notin Saving

(* reconcile(), which nothing but tests/library-store.test.js calls, with  *)
(* no save or removal under way.  Some unlinks may fail.                   *)
Reconcile ==
  /\ Quiet /\ Orphans # {}
  /\ \E stuck \in SUBSET Orphans :
       /\ media' = media \ (Orphans \ stuck)
       /\ uploads' = uploads \ (Orphans \ stuck)
       /\ stranded' = stuck
  /\ UNCHANGED <<requests, put, library>>

(* The process ends at any point and starts again.                         *)
Restart ==
  /\ pending' = {} /\ doomed' = {}
  /\ put' = [u \in Puts |->
       IF put[u] \in Saving \cup {"draining"} THEN "lost" ELSE put[u]]
  /\ stranded' = Orphans
  /\ UNCHANGED <<policy, post, uploads, media, rows, removed, misread>>

---------------------------------------------------------------------------
Upload(u) ==
  \/ PendingNotFound(u) \/ SaveStream(u) \/ Streamed(u) \/ Drained(u)
  \/ MoveUpload(u) \/ InsertRecording(u) \/ Unwind(u) \/ Answer(u)

Next ==
  \/ SetPolicy
  \/ \E s \in Saves : StageLibrarySave(s)
  \/ \E u \in Puts : Upload(u) \/ UnlinkRemoved(u)
  \/ \E S \in SUBSET rows : Remove(S)
  \/ Reconcile
  \/ Restart

Spec == Init /\ [][Next]_vars

---------------------------------------------------------------------------
(* Type invariant, with the limit on the saves a session may leave open.   *)
TypeOK ==
  /\ policy \in {"keep", "never"}
  /\ pending \subseteq Saves /\ Cardinality(pending) <= MaxPending
  /\ post \in [Saves -> {"new", "created", "refused"}]
  /\ put \in [Puts -> PutStages]
  /\ uploads \subseteq Puts /\ media \subseteq Puts /\ stranded \subseteq Puts
  /\ rows \subseteq Puts /\ doomed \subseteq Puts /\ removed \subseteq Puts
  /\ misread \subseteq Puts

(* A recording the library lists has its audio, through failed renames,    *)
(* inserts and unlinks and restarts - but for one whose row was committed  *)
(* and could not be read back: its audio is unlinked and its row stays.    *)
RowHasMedia == rows \ misread \subseteq media

(* A file without a row belongs to a save or a removal still under way,    *)
(* unless an unlink failed or the process died: no path of a failed save   *)
(* forgets its .upload or media file, and what is left behind is never a   *)
(* listed recording.                                                       *)
NoForgottenFile ==
  /\ \A u \in Orphans \ stranded : put[u] \in Saving \/ u \in doomed
  /\ stranded \cap rows = {}

(* The browser is told the truth: 201 with a recording means a row, also   *)
(* after a restart and until somebody removes it; any other answer means   *)
(* that there never was one, or that it could not be read back.            *)
AnswerIsTrue ==
  \A u \in Puts :
    /\ put[u] = "created" => u \in (rows \cup removed) \ misread
    /\ put[u] \in {"unsaved", "refused"} => u \notin rows \cup removed
    /\ put[u] = "failed" => (u \in rows \cup removed <=> u \in misread)

(* Once an upload has been answered 201, repeating it cannot save the same *)
(* recording again.                                                        *)
SavedForGood ==
  [][\A u, v \in Puts :
       /\ SaveOf[u] = SaveOf[v] /\ put[u] \in {"created", "unsaved"}
       /\ put[v] = "new"
       => put'[v] \in {"new", "refused"}]_vars

---------------------------------------------------------------------------
(* What an upload has been told, by the stage its handler is at.           *)
Told(stage) ==
  CASE stage = "new" -> "new"
    [] stage \in Saving \cup {"draining"} -> "working"
    [] stage = "created" -> "kept"
    [] stage = "unsaved" -> "not kept"
    [] stage = "lost" -> "lost"
    [] OTHER -> "refused"

Library == INSTANCE RecordingLibrary WITH
  Uploads <- Puts, listed <- rows, playable <- rows \cap media, deleted <- removed,
  answer <- [u \in Puts |-> Told(put[u])], spoilt <- misread

(* The two halves of a recording look like one thing from outside: through *)
(* failed renames, inserts and unlinks, concurrent uploads of one save and *)
(* restarts between any two steps, a recording appears with its audio, in  *)
(* one step, disappears in one, and its upload's answer fits.  The one     *)
(* exception is a save whose row cannot be read back after the commit:     *)
(* from that failure on it is spoilt, may stay listed without its audio    *)
(* and is answered as refused.                                             *)
ImplementsLibrary == Library!Spec
=============================================================================
