--------------------------- MODULE SessionMachine ---------------------------
(***************************************************************************)
(* The capture sessions of the core (core/session-machine.ts), apart from  *)
(* the recorders of the extension and of the web app, which keep their own *)
(* state.  The ports are external: finalize, audio.stop and the work below *)
(* the cut line may take any time and may fail.  When audio.start settles, *)
(* or fails, the machine changes nothing.                                  *)
(***************************************************************************)
EXTENDS Naturals, Sequences

CONSTANT MaxSessions        (* bound on the captures started               *)

VARIABLES
  activeSessionId, latestSessionId, sequence,
  state,            (* what the machine shows                               *)
  stage,            (* per session: none, active, stopping, done or failed  *)
  audio, text,      (* per session: whether audio.stop, finalize settled    *)
  background,       (* the tasks below the cut line still under way         *)
  delivered         (* history: the sessions whose text was delivered       *)

vars == <<activeSessionId, latestSessionId, sequence, state, stage, audio, text,
          background, delivered>>
counters == <<latestSessionId, sequence>>

Sessions == 1 .. MaxSessions
None == 0

Init ==
  /\ activeSessionId = None /\ latestSessionId = None /\ sequence = 0
  /\ state = "idle"
  /\ stage = [s \in Sessions |-> "none"]
  /\ audio = [s \in Sessions |-> "pending"] /\ text = [s \in Sessions |-> "pending"]
  /\ background = {} /\ delivered = <<>>

(* A start while another capture is active throws.                         *)
start ==
  /\ activeSessionId = None /\ sequence < MaxSessions
  /\ sequence' = sequence + 1
  /\ activeSessionId' = sequence' /\ latestSessionId' = sequence'
  /\ state' = "recording" /\ stage' = [stage EXCEPT ![sequence'] = "active"]
  /\ UNCHANGED <<audio, text, background, delivered>>

(* stop: finalize is called before audio.stop; both are then under way,    *)
(* and the next capture may start.                                         *)
stop ==
  /\ activeSessionId # None
  /\ stage' = [stage EXCEPT ![activeSessionId] = "stopping"]
  /\ activeSessionId' = None /\ state' = "processing"
  /\ UNCHANGED <<counters, audio, text, background, delivered>>

FinalizeSettles(s) ==
  /\ stage[s] # "none" /\ stage[s] # "active" /\ text[s] = "pending"
  /\ \E outcome \in {"kept", "lost"} : text' = [text EXCEPT ![s] = outcome]
  /\ UNCHANGED <<activeSessionId, counters, state, stage, audio, background, delivered>>

AudioStops(s) ==
  /\ stage[s] = "stopping" /\ audio[s] = "pending"
  /\ \E outcome \in {"kept", "lost"} : audio' = [audio EXCEPT ![s] = outcome]
  /\ UNCHANGED <<activeSessionId, counters, state, stage, text, background, delivered>>

(* A check that forgot that another session may have come and gone:        *)
CurrentIfNoneActive(s) == activeSessionId = None

Current(s) == latestSessionId = s /\ activeSessionId = None

(* stop goes on: the text is delivered to the session that is current, and *)
(* the result is saved in either case.                                     *)
StopFinishes(s) ==
  /\ stage[s] = "stopping" /\ audio[s] = "kept" /\ text[s] = "kept"
  /\ stage' = [stage EXCEPT ![s] = "done"]
  /\ IF Current(s) THEN delivered' = Append(delivered, s) /\ state' = "success"
                   ELSE UNCHANGED <<delivered, state>>
  /\ background' = background \cup ({s} \X {"save", "refreshUsage", "cleanup"})
  /\ UNCHANGED <<activeSessionId, counters, audio, text>>

(* The text is awaited after the audio; and a delivery may throw, in which *)
(* case the result is not saved either.                                    *)
StopFails(s) ==
  /\ stage[s] = "stopping"
  /\ \/ audio[s] = "lost"
     \/ audio[s] = "kept" /\ text[s] = "lost"
     \/ audio[s] = "kept" /\ text[s] = "kept" /\ Current(s)
  /\ stage' = [stage EXCEPT ![s] = "failed"]
  /\ state' = IF Current(s) THEN "error" ELSE state
  /\ UNCHANGED <<activeSessionId, counters, audio, text, background, delivered>>

(* allSettled: a task that fails leaves the others alone.                  *)
TaskSettles(task) ==
  /\ task \in background /\ background' = background \ {task}
  /\ UNCHANGED <<activeSessionId, counters, state, stage, audio, text, delivered>>

Next ==
  \/ start \/ stop
  \/ \E s \in Sessions :
       FinalizeSettles(s) \/ AudioStops(s) \/ StopFinishes(s) \/ StopFails(s)
  \/ \E task \in background : TaskSettles(task)

Spec == Init /\ [][Next]_vars

---------------------------------------------------------------------------
(* However many stops are under way, what the machine shows is how the     *)
(* newest session stands, and never how an older one ended.                *)
ShowsLatest ==
  latestSessionId # None =>
    state = CASE stage[latestSessionId] = "active" -> "recording"
              [] stage[latestSessionId] = "stopping" -> "processing"
              [] stage[latestSessionId] = "done" -> "success"
              [] stage[latestSessionId] = "failed" -> "error"

(* A text is delivered once, after those of older sessions, and left out   *)
(* only because a newer session had begun; what failed is never delivered. *)
DeliveredInTurn ==
  /\ \A i, j \in DOMAIN delivered : i < j => delivered[i] < delivered[j]
  /\ \A i \in DOMAIN delivered : stage[delivered[i]] = "done"
  /\ \A s \in Sessions :
       stage[s] = "done" /\ s = latestSessionId => \E i \in DOMAIN delivered : delivered[i] = s

MachineFollowsLatest == ShowsLatest /\ DeliveredInTurn
=============================================================================
