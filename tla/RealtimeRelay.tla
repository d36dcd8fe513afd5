--------------------------- MODULE RealtimeRelay ---------------------------
(***************************************************************************)
(* The BFF's WebSocket relay, class RealtimeRelay of                       *)
(* src/server/realtime-relay.ts behind the realtime routes of server.ts:   *)
(* an upgrade request reserves its session, the connected client socket    *)
(* (downstream) takes the session's only slot, the usage and feature       *)
(* checks are awaited, an upstream socket is opened and the frames that    *)
(* arrived before it opened are flushed.                                   *)
(*                                                                         *)
(* One upgrade request is one possible connection; each handler runs to    *)
(* completion and the awaits of checkUsage separate actions.  All frames   *)
(* have one size, and a socket's bufferedAmount is any value it may have.  *)
(* Messages from upstream to downstream change nothing of the relay's own. *)
(***************************************************************************)
EXTENDS Integers, Sequences, FiniteSets

CONSTANTS
  Upgrades,        (* upgrade requests                                      *)
  Sessions,        (* BFF session identifiers                               *)
  SessionOf,       (* the session whose cookie an upgrade carries           *)
  BufferLimit,     (* MAX_BUFFERED_BYTES, in frames                         *)
  MaxFrames        (* bound on the frames of one client                     *)

ASSUME RelayAssumption ==
  /\ SessionOf \in [Upgrades -> Sessions]
  /\ IsFiniteSet(Upgrades)
  /\ BufferLimit \in Nat
  /\ MaxFrames \in Nat

VARIABLES
  activeSessions, reservedSessions, activeSockets,
  stage,           (* how far the handling of an upgrade has come           *)
  downstream,      (* readyState of the client's socket                     *)
  upstream,        (* readyState of the socket to the proxy                 *)
  cleaned, counted,
  pendingFrames, pendingBytes,
  received,        (* frames the client's message handler was given         *)
  relayed          (* frames sent upstream, in order                        *)

slots == <<activeSessions, reservedSessions, activeSockets, cleaned>>
sockets == <<downstream, upstream>>
frames == <<pendingFrames, pendingBytes, received, relayed>>
vars == <<slots, stage, sockets, counted, frames>>

Stages == {"new", "refused", "reserved", "lost", "usage", "config", "checked"}
ReadyStates == {"none", "connecting", "open", "closing", "closed"}

FirstN(n) == [i \in 1..n |-> i]

Init ==
  /\ activeSessions = {} /\ reservedSessions = {} /\ activeSockets = 0
  /\ stage = [r \in Upgrades |-> "new"]
  /\ downstream = [r \in Upgrades |-> "none"]
  /\ upstream = [r \in Upgrades |-> "none"]
  /\ cleaned = [r \in Upgrades |-> FALSE]
  /\ counted = [r \in Upgrades |-> FALSE]
  /\ pendingFrames = [r \in Upgrades |-> <<>>]
  /\ pendingBytes = [r \in Upgrades |-> 0]
  /\ received = [r \in Upgrades |-> 0]
  /\ relayed = [r \in Upgrades |-> <<>>]

---------------------------------------------------------------------------
(* The upgrade request.                                                    *)

(* Mutation: only established connections count.                           *)
TakenByActive(id) == id \in activeSessions

(* The session has a socket, or one on its way.                            *)
Taken(id) == id \in activeSessions \cup reservedSessions

(* authorizeUpgrade after its await of sessions.get: 401 for a session     *)
(* nobody knows, 409 for one in use.                                       *)
Refuse(r) ==
  /\ stage[r] = "new"
  /\ stage' = [stage EXCEPT ![r] = "refused"]
  /\ UNCHANGED <<slots, sockets, counted, frames>>

Reserve(r) ==
  /\ stage[r] = "new"
  /\ ~Taken(SessionOf[r])
  /\ reservedSessions' = reservedSessions \cup {SessionOf[r]}
  /\ stage' = [stage EXCEPT ![r] = "reserved"]
  /\ UNCHANGED <<activeSessions, activeSockets, cleaned, sockets, counted, frames>>

(* The route's handler never runs: the request was no WebSocket upgrade,   *)
(* or its connection broke during the handshake.                           *)
LoseUpgrade(r) ==
  /\ stage[r] = "reserved"
  /\ stage' = [stage EXCEPT ![r] = "lost"]
  /\ UNCHANGED <<slots, sockets, counted, frames>>

(* connect(): the handlers are attached and checkUsage is started.         *)
Connect(r) ==
  /\ stage[r] = "reserved"
  /\ reservedSessions' = reservedSessions \ {SessionOf[r]}
  /\ activeSessions' = activeSessions \cup {SessionOf[r]}
  /\ stage' = [stage EXCEPT ![r] = "usage"]
  /\ downstream' = [downstream EXCEPT ![r] = "open"]
  /\ UNCHANGED <<activeSockets, cleaned, upstream, counted, frames>>

---------------------------------------------------------------------------
(* What the handlers of a connection share.                                *)

(* Mutation: a second cleanup releases again.                              *)
CleanupAgain(r) ==
  /\ cleaned' = [cleaned EXCEPT ![r] = TRUE]
  /\ activeSessions' = activeSessions \ {SessionOf[r]}
  /\ reservedSessions' = reservedSessions \ {SessionOf[r]}
  /\ activeSockets' = IF counted[r] THEN activeSockets - 1 ELSE activeSockets

(* cleanup(), once.                                                        *)
Cleanup(r) ==
  IF cleaned[r] THEN UNCHANGED slots
  ELSE /\ cleaned' = [cleaned EXCEPT ![r] = TRUE]
       /\ activeSessions' = activeSessions \ {SessionOf[r]}
       /\ reservedSessions' = reservedSessions \ {SessionOf[r]}
       /\ activeSockets' = IF counted[r] THEN activeSockets - 1 ELSE activeSockets

(* closeDownstream and closeUpstream close only an open socket.            *)
Closing(socket, r) ==
  [socket EXCEPT ![r] = IF @ = "open" THEN "closing" ELSE @]

---------------------------------------------------------------------------
(* checkUsage.                                                             *)

(* Mutation: the refused client's socket stays open.                       *)
SilentRefusal(r) == UNCHANGED downstream

RefusalCloses(r) == downstream' = Closing(downstream, r)

(* The usage service says 402, fails, or times out; or the configuration   *)
(* switches realtime off.                                                  *)
CheckFails(r) ==
  /\ stage[r] \in {"usage", "config"}
  /\ stage' = [stage EXCEPT ![r] = "checked"]
  /\ RefusalCloses(r)
  /\ Cleanup(r)
  /\ UNCHANGED <<upstream, counted, frames>>

UsageAccepted(r) ==
  /\ stage[r] = "usage"
  /\ stage' = [stage EXCEPT ![r] = "config"]
  /\ UNCHANGED <<slots, sockets, counted, frames>>

(* Mutation: the client may have left.                                     *)
AlwaysWanted(r) == TRUE

StillWanted(r) == ~cleaned[r]

(* The configuration allows realtime, or could not be had: the upstream    *)
(* socket is opened unless the client has left meanwhile.                  *)
ConfigAccepted(r) ==
  /\ stage[r] = "config"
  /\ stage' = [stage EXCEPT ![r] = "checked"]
  /\ IF StillWanted(r)
     THEN /\ upstream' = [upstream EXCEPT ![r] = "connecting"]
          /\ counted' = [counted EXCEPT ![r] = TRUE]
          /\ activeSockets' = activeSockets + 1
     ELSE UNCHANGED <<upstream, counted, activeSockets>>
  /\ UNCHANGED <<activeSessions, reservedSessions, cleaned, downstream, frames>>

---------------------------------------------------------------------------
(* The client's socket.                                                    *)

(* forward() when a socket has too much to send: both are closed.          *)
(* Nothing is sent on either before the upstream socket opens.             *)
Backpressure(r) ==
  /\ upstream[r] \in {"open", "closing", "closed"}
  /\ downstream' = Closing(downstream, r)
  /\ upstream' = Closing(upstream, r)
  /\ UNCHANGED <<pendingFrames, pendingBytes, relayed>>

Queued(r) == pendingBytes[r] + 1

(* forward() before the upstream socket is open, or after it.              *)
Queue(r) ==
  /\ upstream[r] # "open"
  /\ pendingBytes' = [pendingBytes EXCEPT ![r] = Queued(r)]
  /\ \/ /\ Queued(r) > BufferLimit
        /\ downstream' = Closing(downstream, r)
        /\ UNCHANGED pendingFrames
     \/ /\ Queued(r) <= BufferLimit
        /\ pendingFrames' = [pendingFrames EXCEPT ![r] = Append(@, received[r] + 1)]
        /\ UNCHANGED downstream
  /\ UNCHANGED <<upstream, relayed>>

Send(r) ==
  /\ upstream[r] = "open"
  /\ relayed' = [relayed EXCEPT ![r] = Append(@, received[r] + 1)]
  /\ UNCHANGED <<sockets, pendingFrames, pendingBytes>>

(* A closing socket still delivers what was under way.                     *)
ClientFrame(r) ==
  /\ downstream[r] \in {"open", "closing"}
  /\ received[r] < MaxFrames
  /\ received' = [received EXCEPT ![r] = @ + 1]
  /\ Backpressure(r) \/ Queue(r) \/ Send(r)
  /\ UNCHANGED <<slots, stage, counted>>

(* The close event: an upstream socket still connecting is left alone.     *)
ClientCloses(r) ==
  /\ downstream[r] \in {"open", "closing"}
  /\ downstream' = [downstream EXCEPT ![r] = "closed"]
  /\ upstream' = Closing(upstream, r)
  /\ Cleanup(r)
  /\ UNCHANGED <<stage, counted, frames>>

ClientErrors(r) ==
  /\ downstream[r] \in {"open", "closing"}
  /\ downstream' = [downstream EXCEPT ![r] = "closing"]
  /\ upstream' = Closing(upstream, r)
  /\ Cleanup(r)
  /\ UNCHANGED <<stage, counted, frames>>

---------------------------------------------------------------------------
(* The upstream socket.                                                    *)

(* Mutation: the waiting frames are kept back.                             *)
FlushNothing(r) == UNCHANGED <<pendingFrames, pendingBytes, relayed>>

(* The waiting frames go through forward(), which sends them all: their    *)
(* total is within the limit backpressure starts at.                       *)
Flush(r) ==
  /\ pendingFrames' = [pendingFrames EXCEPT ![r] = <<>>]
  /\ pendingBytes' = [pendingBytes EXCEPT ![r] = @ - Len(pendingFrames[r])]
  /\ relayed' = [relayed EXCEPT ![r] = @ \o pendingFrames[r]]

UpstreamOpens(r) ==
  /\ upstream[r] = "connecting"
  /\ upstream' = [upstream EXCEPT ![r] = "open"]
  /\ Flush(r)
  /\ UNCHANGED <<slots, stage, downstream, counted, received>>

(* The proxy's close frame comes some time before the close event.         *)
UpstreamLeaves(r) ==
  /\ upstream[r] = "open"
  /\ upstream' = [upstream EXCEPT ![r] = "closing"]
  /\ UNCHANGED <<slots, stage, downstream, counted, frames>>

UpstreamErrors(r) ==
  /\ upstream[r] \in {"connecting", "open"}
  /\ upstream' = [upstream EXCEPT ![r] = "closing"]
  /\ downstream' = Closing(downstream, r)
  /\ Cleanup(r)
  /\ UNCHANGED <<stage, counted, frames>>

UpstreamCloses(r) ==
  /\ upstream[r] = "closing"
  /\ upstream' = [upstream EXCEPT ![r] = "closed"]
  /\ downstream' = Closing(downstream, r)
  /\ Cleanup(r)
  /\ UNCHANGED <<stage, counted, frames>>

---------------------------------------------------------------------------
Handle(r) ==
  \/ Refuse(r) \/ Reserve(r) \/ LoseUpgrade(r) \/ Connect(r)
  \/ CheckFails(r) \/ UsageAccepted(r) \/ ConfigAccepted(r)
  \/ ClientFrame(r) \/ ClientCloses(r) \/ ClientErrors(r)
  \/ UpstreamOpens(r) \/ UpstreamLeaves(r)
  \/ UpstreamErrors(r) \/ UpstreamCloses(r)

Next == \E r \in Upgrades : Handle(r)

Spec == Init /\ [][Next]_vars

(* proxyFetch bounds both checks by a timeout, and an attempt to connect   *)
(* a socket, or to close one, ends.                                        *)
NetworkFairness ==
  \A r \in Upgrades :
    /\ WF_vars(CheckFails(r) \/ UsageAccepted(r) \/ ConfigAccepted(r))
    /\ WF_vars(upstream[r] = "connecting" /\ (UpstreamOpens(r) \/ UpstreamErrors(r)))
    /\ WF_vars(UpstreamCloses(r))

FairSpec == Spec /\ NetworkFairness

---------------------------------------------------------------------------
(* Type invariant.                                                         *)
TypeOK ==
  /\ activeSessions \subseteq Sessions /\ reservedSessions \subseteq Sessions
  /\ activeSockets \in Nat
  /\ stage \in [Upgrades -> Stages]
  /\ downstream \in [Upgrades -> ReadyStates]
  /\ upstream \in [Upgrades -> ReadyStates]
  /\ cleaned \in [Upgrades -> BOOLEAN] /\ counted \in [Upgrades -> BOOLEAN]
  /\ pendingFrames \in [Upgrades -> Seq(Nat)]
  /\ pendingBytes \in [Upgrades -> Nat]
  /\ received \in [Upgrades -> Nat]
  /\ relayed \in [Upgrades -> Seq(Nat)]

Connected(r) == stage[r] \in {"usage", "config", "checked"}
HoldsSlot(r) == Connected(r) /\ ~cleaned[r]
HoldsReservation(r) == stage[r] \in {"reserved", "lost"}

(* A session's slot belongs to one upgrade at a time: no late close or     *)
(* error event of an earlier connection frees the slot of its successor,   *)
(* and the two sets hold exactly the sessions in use.                      *)
SlotHeldByOne ==
  /\ \A r, q \in Upgrades :
       /\ r # q /\ SessionOf[r] = SessionOf[q]
       /\ HoldsSlot(r) \/ HoldsReservation(r)
       => ~(HoldsSlot(q) \/ HoldsReservation(q))
  /\ activeSessions = {SessionOf[r] : r \in {q \in Upgrades : HoldsSlot(q)}}
  /\ reservedSessions =
       {SessionOf[r] : r \in {q \in Upgrades : HoldsReservation(q)}}

(* Two clients of one session are never open together, and an open client  *)
(* holds the slot.                                                         *)
OneOpenClient ==
  \A r \in Upgrades : downstream[r] = "open" =>
    /\ HoldsSlot(r)
    /\ \A q \in Upgrades \ {r} :
         SessionOf[q] = SessionOf[r] => downstream[q] # "open"

(* The number /bff/health reports does not drift: it counts the            *)
(* connections that opened an upstream socket and were not released, and   *)
(* misses no upstream socket of an open client.                            *)
SocketsCounted ==
  /\ activeSockets = Cardinality({r \in Upgrades : counted[r] /\ ~cleaned[r]})
  /\ \A r \in Upgrades :
       downstream[r] = "open" /\ upstream[r] # "none" => counted[r] /\ ~cleaned[r]

(* While the client's socket is open, every frame it sent has gone         *)
(* upstream, in order, or waits its turn, within the limit.                *)
RelaysInOrder ==
  \A r \in Upgrades :
    /\ downstream[r] = "open" => relayed[r] \o pendingFrames[r] = FirstN(received[r])
    /\ Len(pendingFrames[r]) <= BufferLimit

(* A client that got through is connected upstream or told to leave.       *)
ClientAnswered ==
  \A r \in Upgrades :
    stage[r] = "usage" ~> upstream[r] = "open" \/ downstream[r] # "open"

(* A client that has gone takes its upstream socket with it, so that the   *)
(* proxy is left with no socket /bff/health does not count.                *)
UpstreamFollowsClient ==
  \A r \in Upgrades :
    downstream[r] = "closed" ~> upstream[r] \in {"none", "closed"}
=============================================================================
