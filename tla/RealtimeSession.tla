-------------------------- MODULE RealtimeSession --------------------------
(***************************************************************************)
(* The client side of one live dictation: class RealtimeSession of         *)
(* src/core/realtime-session.ts as startWebRealtime (web/src/realtime.ts)  *)
(* drives it.  One WebSocket at a time, audio buffered until the proxy     *)
(* answers proxy_ready, a bounded number of reconnects, a finalize         *)
(* handshake, and exactly one of onComplete and onError at the end.        *)
(*                                                                         *)
(* JavaScript runs each call, socket event and timer callback to           *)
(* completion, so each of them is one action.  Delays are abstracted: an   *)
(* armed timer may fire at any moment.  Audio frames are numbered in the   *)
(* order the microphone hands them over, tokens in the order the socket    *)
(* delivers them.  socket.send never calls back into the session.          *)
(***************************************************************************)
EXTENDS Integers, Sequences

CONSTANTS
  FrameBytes,      (* size of one audio frame; the worklet emits one size   *)
  BufferBytes,     (* REALTIME.preReadyBufferBytes                          *)
  MaxReconnects,   (* REALTIME.maxReconnectAttempts                         *)
  MaxFrames,       (* bound on the frames accepted from the microphone      *)
  MaxTokens        (* bound on the tokens the service sends                 *)

ASSUME ConstantsAssumption ==
  /\ FrameBytes \in Nat \ {0}
  /\ BufferBytes \in Nat
  /\ MaxReconnects \in Nat
  /\ MaxFrames \in Nat
  /\ MaxTokens \in Nat

VARIABLES
  socket,               (* this.socket is not null                           *)
  wire,                 (* the current WebSocket has not emitted "close" yet *)
  connection,           (* this.connection: sockets opened so far            *)
  ready,                (* proxy_ready seen on the current socket            *)
  finalizing,           (* finalize() was called                             *)
  finalizeControlSent,
  finished,             (* the service sent finished                         *)
  completed, terminal,
  reconnectAttempts,
  pendingFrames,        (* numbers of the buffered frames                    *)
  pendingBytes,
  finalText,            (* numbers of the final tokens, in text order        *)
  tokenUpdates,         (* tokens not yet handed to onTokens                 *)
  timers,               (* the timers the session holds a handle of          *)
  strayTokenTimers,     (* token timers still scheduled whose handle is lost *)
  (* What the session's two neighbours have seen.                            *)
  accepted,             (* frames sendAudio took                             *)
  sentAudio,            (* frames handed to any socket, in order             *)
  sent,                 (* kinds of the messages sent on the current socket  *)
  received,             (* the kinds of the tokens the service sent   *)
  shown,                (* tokens passed to onTokens                         *)
  outcome               (* what onComplete or onError was called with        *)

link == <<socket, wire, connection, ready, reconnectAttempts>>
phase == <<finalizing, finalizeControlSent, finished, completed, terminal>>
audio == <<pendingFrames, pendingBytes, accepted, sentAudio, sent>>
transcript == <<finalText, tokenUpdates, received, shown>>
clock == <<timers, strayTokenTimers>>
vars == <<link, phase, audio, transcript, clock, outcome>>

TimerNames == {"watchdog", "reconnect", "control", "timeout", "quiet", "token"}
ErrorCodes == {"quota_exhausted", "realtime_buffer_overflow",
               "realtime_ready_timeout", "realtime_rejected",
               "realtime_unavailable"}
Outcomes == [kind : {"none", "complete", "error"},
             code : ErrorCodes \cup {"none"}, text : Seq(Nat)]
Tokens == {"partial", "final"}
NoOutcome == [kind |-> "none", code |-> "none", text |-> <<>>]

FirstN(n) == [i \in 1..n |-> i]

(* The constructor followed by start(), as startWebRealtime calls them:    *)
(* openSocket has run once.                                                *)
Init ==
  /\ socket = TRUE /\ wire = TRUE /\ connection = 1 /\ ready = FALSE
  /\ finalizing = FALSE /\ finalizeControlSent = FALSE
  /\ finished = FALSE /\ completed = FALSE /\ terminal = FALSE
  /\ reconnectAttempts = 0
  /\ pendingFrames = <<>> /\ pendingBytes = 0
  /\ finalText = <<>> /\ tokenUpdates = <<>>
  /\ timers = {"watchdog"} /\ strayTokenTimers = 0
  /\ accepted = 0 /\ sentAudio = <<>> /\ sent = <<>>
  /\ received = <<>> /\ shown = <<>>
  /\ outcome = NoOutcome

---------------------------------------------------------------------------
(* What several handlers end in.                                           *)

(* Mutation: the timers keep running.                                      *)
FailKeepingTimers(code) ==
  /\ terminal' = TRUE
  /\ UNCHANGED timers
  /\ socket' = FALSE /\ ready' = FALSE
  /\ outcome' = [kind |-> "error", code |-> code, text |-> <<>>]

(* fail(code): every timer with a handle is cleared and tokens still       *)
(* waiting for onTokens stay where they are.                               *)
Fail(code) ==
  /\ terminal' = TRUE
  /\ timers' = {}
  /\ socket' = FALSE /\ ready' = FALSE
  /\ outcome' = [kind |-> "error", code |-> code, text |-> <<>>]

(* Mutation: the unshown tokens are dropped.                               *)
CompleteUnflushed(text, updates) ==
  /\ completed' = TRUE /\ terminal' = TRUE
  /\ timers' = {}
  /\ socket' = FALSE /\ ready' = FALSE
  /\ UNCHANGED shown /\ tokenUpdates' = <<>>
  /\ outcome' = [kind |-> "complete", code |-> "none", text |-> text]

(* complete() with the text and the unshown tokens it finds, and the       *)
(* close() it ends with.                                                   *)
Complete(text, updates) ==
  /\ completed' = TRUE /\ terminal' = TRUE
  /\ timers' = {}
  /\ socket' = FALSE /\ ready' = FALSE
  /\ shown' = shown \o updates /\ tokenUpdates' = <<>>
  /\ outcome' = [kind |-> "complete", code |-> "none", text |-> text]

(* sendFinalizeControl() on a socket that may be sending already queued    *)
(* messages in the same step.                                              *)
MaySendControl == ~finalizeControlSent /\ socket

---------------------------------------------------------------------------
(* Calls from the recorder.                                                *)

SendAudioNow ==
  /\ ~terminal /\ ~finalizing
  /\ ready /\ socket
  /\ accepted < MaxFrames
  /\ accepted' = accepted + 1
  /\ sentAudio' = Append(sentAudio, accepted + 1)
  /\ sent' = Append(sent, "audio")
  /\ UNCHANGED <<link, phase, pendingFrames, pendingBytes, transcript,
                 clock, outcome>>

(* Mutation: the frame is not counted.                                     *)
BufferedUncounted == pendingBytes

(* pendingBytes with the next frame.                                       *)
Buffered == pendingBytes + FrameBytes

(* The frame that overflows the buffer is counted and dropped, and the     *)
(* session fails.                                                          *)
QueueAudio ==
  /\ ~terminal /\ ~finalizing
  /\ ~(ready /\ socket)
  /\ accepted < MaxFrames
  /\ pendingBytes' = Buffered
  /\ \/ /\ Buffered > BufferBytes
        /\ Fail("realtime_buffer_overflow")
        /\ UNCHANGED <<pendingFrames, accepted>>
     \/ /\ Buffered <= BufferBytes
        /\ pendingFrames' = Append(pendingFrames, accepted + 1)
        /\ accepted' = accepted + 1
        /\ UNCHANGED <<terminal, timers, socket, ready, outcome>>
  /\ UNCHANGED <<wire, connection, reconnectAttempts, finalizing,
                 finalizeControlSent, finished, completed, sentAudio, sent,
                 transcript, strayTokenTimers>>

(* finalize(): before proxy_ready only the flag is set; handleMessage      *)
(* sends the control when the proxy gets ready.                            *)
Finalize ==
  /\ ~terminal /\ ~finalizing
  /\ finalizing' = TRUE
  /\ IF MaySendControl /\ ready
     THEN /\ finalizeControlSent' = TRUE
          /\ sent' = Append(sent, "finalize")
          /\ timers' = timers \cup {"control"}
     ELSE UNCHANGED <<finalizeControlSent, sent, timers>>
  /\ UNCHANGED <<link, finished, completed, terminal, pendingFrames,
                 pendingBytes, accepted, sentAudio, transcript,
                 strayTokenTimers, outcome>>

(* Mutation: the timers of the abandoned session keep running.             *)
CloseKeepingTimers ==
  /\ ~terminal
  /\ terminal' = TRUE
  /\ socket' = FALSE /\ ready' = FALSE
  /\ UNCHANGED <<wire, connection, reconnectAttempts, finalizing,
                 finalizeControlSent, finished, completed, audio,
                 transcript, clock, outcome>>

(* close(): the recorder gives up; neither callback is called.             *)
Close ==
  /\ ~terminal
  /\ terminal' = TRUE
  /\ timers' = {}
  /\ socket' = FALSE /\ ready' = FALSE
  /\ UNCHANGED <<wire, connection, reconnectAttempts, finalizing,
                 finalizeControlSent, finished, completed, audio,
                 transcript, strayTokenTimers, outcome>>

---------------------------------------------------------------------------
(* Socket events.                                                          *)

(* Mutation: the flushed frames stay queued for the next socket.           *)
FlushKeepingFrames ==
  /\ UNCHANGED <<pendingFrames, pendingBytes>>
  /\ sentAudio' = sentAudio \o pendingFrames

(* flushPendingFrames(): one synchronous loop, so nothing is queued during *)
(* it and the flushing flag is never seen.                                 *)
FlushPendingFrames ==
  /\ pendingFrames' = <<>>
  /\ pendingBytes' = pendingBytes - FrameBytes * Len(pendingFrames)
  /\ sentAudio' = sentAudio \o pendingFrames

SentWithPending == sent \o [i \in 1..Len(pendingFrames) |-> "audio"]

(* proxy_ready: the buffered frames go out, then a pending finalize.       *)
ProxyReady ==
  /\ wire /\ ~terminal
  /\ ready' = TRUE
  /\ FlushPendingFrames
  /\ IF finalizing /\ MaySendControl
     THEN /\ finalizeControlSent' = TRUE
          /\ sent' = Append(SentWithPending, "finalize")
          /\ timers' = (timers \ {"watchdog"}) \cup {"control"}
     ELSE /\ sent' = SentWithPending
          /\ timers' = timers \ {"watchdog"}
          /\ UNCHANGED finalizeControlSent
  /\ UNCHANGED <<socket, wire, connection, reconnectAttempts, finalizing,
                 finished, completed, terminal, accepted, transcript,
                 strayTokenTimers, outcome>>

(* A message with an error text.                                           *)
Rejected ==
  /\ wire /\ ~terminal
  /\ Fail("realtime_rejected")
  /\ UNCHANGED <<wire, connection, reconnectAttempts, finalizing,
                 finalizeControlSent, finished, completed, audio,
                 transcript, strayTokenTimers>>

(* The token part of a message: none or one token (a message with several  *)
(* tokens is several of these in a row).                                   *)
HearToken(token) ==
  /\ token = "none" \/ Len(received) < MaxTokens
  /\ received' = IF token = "none" THEN received ELSE Append(received, token)
  /\ finalText' = IF token = "final"
                  THEN Append(finalText, Len(received) + 1) ELSE finalText

Unshown(token) ==
  IF token = "none" THEN tokenUpdates
  ELSE Append(tokenUpdates, Len(received) + 1)

(* A message with a token and no finished: scheduleTokenUpdate arms at     *)
(* most one timer, and a token after finished restarts the quiet window.   *)
TokenMessage(token) ==
  /\ wire /\ ~terminal
  /\ HearToken(token)
  /\ tokenUpdates' = Unshown(token)
  /\ timers' = timers \cup {"token"} \cup (IF finished THEN {"quiet"} ELSE {})
  /\ UNCHANGED <<link, phase, audio, strayTokenTimers, shown, outcome>>

(* A message with finished, with or without a token.  flushTokenUpdates    *)
(* forgets the handle of an armed token timer without clearing it.         *)
FinishedMessage(token) ==
  /\ wire /\ ~terminal
  /\ HearToken(token)
  /\ finished' = TRUE
  /\ strayTokenTimers' =
       IF "token" \in timers \/ token # "none" THEN strayTokenTimers + 1
       ELSE strayTokenTimers
  /\ \/ /\ finalizing
        /\ shown' = shown \o Unshown(token)
        /\ tokenUpdates' = <<>>
        /\ timers' = (timers \ {"token"}) \cup {"quiet"}
        /\ UNCHANGED <<socket, ready, completed, terminal, outcome>>
     \/ /\ ~finalizing
        /\ Complete(finalText', Unshown(token))
  /\ UNCHANGED <<wire, connection, reconnectAttempts, finalizing,
                 finalizeControlSent, audio>>

(* Mutation: the next socket is taken to have had the control.             *)
ControlKeptAfterClose == finalizeControlSent

(* finalizeControlSent once the socket is gone: reset while finalizing.    *)
ControlSentAfterClose == finalizeControlSent /\ ~finalizing

(* The timers handleClose clears with the socket they belong to.           *)
TimersOfSocket ==
  {"watchdog"} \cup (IF finalizing THEN {"control", "timeout", "quiet"} ELSE {})

(* handleClose(code).  The early return, the three ways a session ends     *)
(* with its socket, and the reconnect.                                     *)
SocketClosed(quota) ==
  /\ wire
  /\ wire' = FALSE
  /\ \/ /\ terminal
        /\ timers' = timers \ {"watchdog"}
        /\ socket' = FALSE /\ ready' = FALSE
        /\ UNCHANGED <<phase, reconnectAttempts, tokenUpdates, shown, outcome>>
     \/ /\ ~terminal /\ finished
        /\ Complete(finalText, tokenUpdates)
        /\ UNCHANGED <<finalizing, finalizeControlSent, finished,
                       reconnectAttempts>>
     \/ /\ ~terminal /\ ~finished
        /\ quota \/ reconnectAttempts >= MaxReconnects
        /\ Fail(IF quota THEN "quota_exhausted" ELSE "realtime_unavailable")
        /\ finalizeControlSent' = ControlSentAfterClose
        /\ UNCHANGED <<finalizing, finished, completed, reconnectAttempts,
                       tokenUpdates, shown>>
     \/ /\ ~terminal /\ ~finished
        /\ ~quota /\ reconnectAttempts < MaxReconnects
        /\ socket' = FALSE /\ ready' = FALSE
        /\ finalizeControlSent' = ControlSentAfterClose
        /\ reconnectAttempts' = reconnectAttempts + 1
        /\ timers' = (timers \ TimersOfSocket) \cup {"reconnect"}
        /\ UNCHANGED <<finalizing, finished, completed, terminal,
                       tokenUpdates, shown, outcome>>
  /\ UNCHANGED <<connection, audio, finalText, received, strayTokenTimers>>

---------------------------------------------------------------------------
(* Timer callbacks.                                                        *)

WatchdogFires ==
  /\ "watchdog" \in timers
  /\ Fail("realtime_ready_timeout")
  /\ UNCHANGED <<wire, connection, reconnectAttempts, finalizing,
                 finalizeControlSent, finished, completed, audio,
                 transcript, strayTokenTimers>>

(* The backoff elapses and openSocket runs.                                *)
ReconnectFires ==
  /\ "reconnect" \in timers
  /\ connection' = connection + 1
  /\ socket' = TRUE /\ wire' = TRUE /\ ready' = FALSE
  /\ sent' = <<>>
  /\ timers' = (timers \ {"reconnect"}) \cup {"watchdog"}
  /\ UNCHANGED <<reconnectAttempts, phase, pendingFrames, pendingBytes,
                 accepted, sentAudio, transcript, strayTokenTimers, outcome>>

(* The empty frame that ends the audio, and the wait for the answer.       *)
ControlFires ==
  /\ "control" \in timers
  /\ IF socket /\ ready
     THEN /\ sent' = Append(sent, "end")
          /\ timers' = (timers \ {"control"}) \cup {"timeout"}
     ELSE /\ timers' = timers \ {"control"}
          /\ UNCHANGED sent
  /\ UNCHANGED <<link, phase, pendingFrames, pendingBytes, accepted,
                 sentAudio, transcript, strayTokenTimers, outcome>>

TimeoutFires ==
  /\ "timeout" \in timers
  /\ Fail("realtime_unavailable")
  /\ UNCHANGED <<wire, connection, reconnectAttempts, finalizing,
                 finalizeControlSent, finished, completed, audio,
                 transcript, strayTokenTimers>>

QuietFires ==
  /\ "quiet" \in timers
  /\ finished
  /\ Complete(finalText, tokenUpdates)
  /\ UNCHANGED <<wire, connection, reconnectAttempts, finalizing,
                 finalizeControlSent, finished, audio, finalText, received,
                 strayTokenTimers>>

FlushTokenUpdates ==
  /\ shown' = shown \o tokenUpdates
  /\ tokenUpdates' = <<>>
  /\ timers' = timers \ {"token"}

TokenTimerFires ==
  /\ "token" \in timers
  /\ FlushTokenUpdates
  /\ UNCHANGED <<link, phase, audio, finalText, received, strayTokenTimers,
                 outcome>>

(* A forgotten token timer runs the same flush, in any state; the handle   *)
(* it overwrites, if one is armed, is forgotten in turn.                   *)
StrayTokenTimerFires ==
  /\ strayTokenTimers > 0
  /\ FlushTokenUpdates
  /\ strayTokenTimers' =
       IF "token" \in timers THEN strayTokenTimers ELSE strayTokenTimers - 1
  /\ UNCHANGED <<link, phase, audio, finalText, received, outcome>>

---------------------------------------------------------------------------
Next ==
  \/ SendAudioNow \/ QueueAudio \/ Finalize \/ Close
  \/ ProxyReady \/ Rejected
  \/ \E token \in Tokens : TokenMessage(token)
  \/ \E token \in Tokens \cup {"none"} : FinishedMessage(token)
  \/ \E quota \in BOOLEAN : SocketClosed(quota)
  \/ WatchdogFires \/ ReconnectFires \/ ControlFires \/ TimeoutFires
  \/ QuietFires \/ TokenTimerFires \/ StrayTokenTimerFires

Spec == Init /\ [][Next]_vars

(* The browser runs an armed timer in the end.  The quiet and the token    *)
(* timers are left out: tokens may restart the first for as long as they   *)
(* come, and nothing below needs the second.                               *)
TimerFairness ==
  /\ WF_vars(WatchdogFires) /\ WF_vars(ReconnectFires)
  /\ WF_vars(ControlFires) /\ WF_vars(TimeoutFires)

FairSpec == Spec /\ TimerFairness

---------------------------------------------------------------------------
(* Type invariant.                                                         *)
TypeOK ==
  /\ socket \in BOOLEAN /\ wire \in BOOLEAN /\ ready \in BOOLEAN
  /\ connection \in Nat /\ reconnectAttempts \in Nat
  /\ finalizing \in BOOLEAN /\ finalizeControlSent \in BOOLEAN
  /\ finished \in BOOLEAN /\ completed \in BOOLEAN /\ terminal \in BOOLEAN
  /\ pendingFrames \in Seq(Nat) /\ pendingBytes \in Nat
  /\ finalText \in Seq(Nat) /\ tokenUpdates \in Seq(Nat)
  /\ timers \subseteq TimerNames /\ strayTokenTimers \in Nat
  /\ accepted \in Nat /\ sentAudio \in Seq(Nat)
  /\ sent \in Seq({"audio", "finalize", "end"})
  /\ received \in Seq(Tokens) /\ shown \in Seq(Nat)
  /\ outcome \in Outcomes

(* However often the socket drops and comes back, the frames the session   *)
(* took reach sockets once each and in recording order, those still        *)
(* waiting follow those sent, and the byte count that bounds the buffer    *)
(* is the size of what waits in it, until an overflow ends the session.    *)
AudioInOrder ==
  /\ sentAudio \o pendingFrames = FirstN(accepted)
  /\ \/ /\ pendingBytes = FrameBytes * Len(pendingFrames)
        /\ pendingBytes <= BufferBytes
     \/ outcome.code = "realtime_buffer_overflow"

(* The closing handshake on one socket: finalize goes out at most once,    *)
(* the empty end frame at most once and after it, no audio follows, and    *)
(* the session's finalizeControlSent tells which socket has had it, with   *)
(* nothing left in the buffer behind it.                                   *)
ClosingHandshake ==
  /\ \A i, j \in DOMAIN sent : i < j =>
       \/ sent[i] = "audio"
       \/ sent[i] = "finalize" /\ sent[j] = "end"
  /\ \A i \in DOMAIN sent : sent[i] = "end" =>
       i > 1 /\ sent[i - 1] = "finalize"
  /\ socket =>
       (finalizeControlSent <=> \E i \in DOMAIN sent : sent[i] = "finalize")
  /\ finalizeControlSent /\ ~terminal => pendingFrames = <<>>

(* A live session always has a timer that will move it on: without a       *)
(* socket the reconnect, without proxy_ready the watchdog, and once the    *)
(* recorder waits for the result the finalize control or its timeout.  A   *)
(* session that ended holds no timer that could end it again.              *)
NeverStalls ==
  IF terminal THEN timers = {}
  ELSE /\ ~socket => "reconnect" \in timers
       /\ socket /\ ~ready => "watchdog" \in timers
       /\ socket /\ ready /\ finalizing => timers \cap {"control", "timeout"} # {}

(* What the recorder has been told.                                        *)
Told == CASE outcome.kind = "complete" -> "resolved"
          [] outcome.kind = "error" -> "rejected"
          [] outcome.kind = "none" /\ terminal -> "abandoned"
          [] OTHER -> "pending"

Result == INSTANCE TranscriptResult WITH
  heard <- received, status <- Told, text <- outcome.text

(* When the recorder gets its text, onTokens has had every token the       *)
(* service sent, in order, and the text is the final ones among them:      *)
(* nothing is still waiting in a token batch or behind a forgotten timer.  *)
ResolvesWithWholeTranscript ==
  outcome.kind = "complete" =>
    /\ shown = FirstN(Len(received))
    /\ tokenUpdates = <<>>
    /\ Result!IsTextOf(outcome.text, received)

(* The session implements the promise made to the recorder: it settles at  *)
(* most once, close() and failures settle it for good, tokens appear once  *)
(* and in order, and after onComplete no stray timer shows another.        *)
ImplementsResult == Result!Spec

(* After finalize() the recorder does not wait for ever: onComplete or     *)
(* onError is called, unless it closes the session itself.                 *)
FinalizeSettles == finalizing ~> terminal
=============================================================================
