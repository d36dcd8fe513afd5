-------------------------- MODULE RecordingLibrary --------------------------
(***************************************************************************)
(* What a browser may believe of the Library, as if a recording were one   *)
(* thing and its database row and its audio file were not two: it is kept  *)
(* whole, in one step, by an upload that was under way; it stays whole     *)
(* until somebody deletes it, in one step and for good; an upload is       *)
(* answered once, and the answer says whether it was kept.  A restart of   *)
(* the server leaves uploads without an answer and changes nothing else.   *)
(* One kind of failure breaks this promise: a recording may be spoilt in   *)
(* the very step that keeps it.  It is then listed, its audio may go, and  *)
(* its upload is refused; nothing spoils a recording later.                *)
(***************************************************************************)
CONSTANTS
  Uploads,     (* requests that bring the audio of a recording              *)
  Saves,       (* what the browser saves, once each                         *)
  SaveOf       (* the save an upload belongs to                             *)

VARIABLES
  listed,      (* recordings the Library shows                              *)
  playable,    (* recordings it shows whose audio it can give               *)
  deleted,     (* recordings somebody deleted                               *)
  answer,      (* per upload: "new", "working", "lost" or what was answered *)
  spoilt       (* recordings kept by a save that failed all the same        *)

vars == <<listed, playable, deleted, answer, spoilt>>

Init ==
  /\ listed = {} /\ playable = {} /\ deleted = {}
  /\ answer = [u \in Uploads |-> "new"] /\ spoilt = {}

Ever == listed \cup deleted

Becomes(u, to) == answer' = [answer EXCEPT ![u] = to]

(* An upload begins unless one of the same save was answered: what was     *)
(* kept, or was not to be kept, is not brought again.                      *)
Begin(u) ==
  /\ answer[u] = "new"
  /\ \A v \in Uploads : SaveOf[v] = SaveOf[u] => answer[v] \notin {"kept", "not kept"}
  /\ Becomes(u, "working") /\ UNCHANGED <<listed, playable, deleted, spoilt>>

Keep(u) ==
  /\ answer[u] = "working" /\ u \notin Ever
  /\ listed' = listed \cup {u} /\ playable' = playable \cup {u}
  /\ spoilt' \in {spoilt, spoilt \cup {u}}
  /\ UNCHANGED <<deleted, answer>>

(* A spoilt recording loses its audio and stays listed.                    *)
Silence(u) ==
  /\ u \in spoilt
  /\ playable' = playable \ {u}
  /\ UNCHANGED <<listed, deleted, answer, spoilt>>

Answer(u) ==
  /\ \/ answer[u] = "working" /\ u \in Ever \ spoilt /\ Becomes(u, "kept")
     \/ answer[u] = "working" /\ u \notin Ever /\ Becomes(u, "not kept")
     \/ answer[u] \in {"new", "working"} /\ u \notin Ever /\ Becomes(u, "refused")
     \/ answer[u] = "working" /\ u \in spoilt /\ Becomes(u, "refused")
  /\ UNCHANGED <<listed, playable, deleted, spoilt>>

Delete(S) ==
  /\ S # {} /\ S \subseteq listed
  /\ listed' = listed \ S /\ playable' = playable \ S /\ deleted' = deleted \cup S
  /\ UNCHANGED <<answer, spoilt>>

Restart ==
  /\ answer' = [u \in Uploads |-> IF answer[u] = "working" THEN "lost" ELSE answer[u]]
  /\ UNCHANGED <<listed, playable, deleted, spoilt>>

Next ==
  \/ \E u \in Uploads : Begin(u) \/ Keep(u) \/ Silence(u) \/ Answer(u)
  \/ \E S \in SUBSET listed : Delete(S)
  \/ Restart

Spec == Init /\ [][Next]_vars
=============================================================================
