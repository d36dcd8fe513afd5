----------------------- MODULE RealtimeSessionProofs -----------------------
(***************************************************************************)
(* Proofs about RealtimeSession for every frame size, buffer size, number  *)
(* of reconnects and number of frames and tokens.                          *)
(***************************************************************************)
EXTENDS RealtimeSession, SequenceTheorems, TLAPS

---------------------------------------------------------------------------
(* Numbered sequences.                                                     *)

(* The n first numbers form a sequence of length n.                        *)
LEMMA FirstNType ==
  ASSUME NEW n \in Nat
  PROVE  FirstN(n) \in Seq(Nat) /\ Len(FirstN(n)) = n
BY DEF FirstN

(* Taking the next number extends the enumeration by one.                  *)
LEMMA AppendFirstN ==
  ASSUME NEW n \in Nat
  PROVE  Append(FirstN(n), n + 1) = FirstN(n + 1)
<1>1. Append(FirstN(n), n + 1) \in Seq(Nat) /\ FirstN(n + 1) \in Seq(Nat)
  BY FirstNType
<1>2. Len(Append(FirstN(n), n + 1)) = n + 1 /\ Len(FirstN(n + 1)) = n + 1
  BY FirstNType
<1>3. \A i \in 1..(n + 1) : Append(FirstN(n), n + 1)[i] = FirstN(n + 1)[i]
  BY FirstNType DEF FirstN
<1>. QED  BY <1>1, <1>2, <1>3, SeqEqual

(* A sequence that begins the enumeration is itself an enumeration.        *)
LEMMA PrefixOfFirstN ==
  ASSUME NEW n \in Nat, NEW s \in Seq(Nat), NEW t \in Seq(Nat),
         s \o t = FirstN(n)
  PROVE  s = FirstN(Len(s)) /\ Len(s) + Len(t) = n
<1>1. Len(s) + Len(t) = n
  BY ConcatProperties, FirstNType
<1>2. ASSUME NEW i \in 1..Len(s)  PROVE s[i] = i
  <2>1. (s \o t)[i] = s[i]
    BY ConcatProperties
  <2>2. i \in 1..n
    BY <1>1
  <2>3. FirstN(n)[i] = i
    BY <2>2 DEF FirstN
  <2>. QED  BY <2>1, <2>3
<1>3. FirstN(Len(s)) \in Seq(Nat) /\ Len(FirstN(Len(s))) = Len(s)
  BY FirstNType
<1>4. \A i \in 1..Len(s) : s[i] = FirstN(Len(s))[i]
  BY <1>2 DEF FirstN
<1>. QED  BY <1>1, <1>3, <1>4, SeqEqual

---------------------------------------------------------------------------
(* The inductive invariant.  The run's invariants do not carry themselves  *)
(* over a step: what the socket, the two finalize flags and the timers of  *)
(* a live session say about each other has to be known as well.            *)

(* Where a live session stands in its connection and closing handshake.    *)
Coupling ==
  /\ finalizeControlSent => finalizing
  /\ ~terminal =>
       /\ wire <=> socket
       /\ ready => socket /\ pendingFrames = <<>>
       /\ ~socket => ~finalizeControlSent
       /\ "reconnect" \in timers => ~socket
       /\ finalizeControlSent => timers \cap {"control", "timeout"} # {}
       /\ "control" \in timers =>
            /\ finalizeControlSent /\ socket /\ ready
            /\ sent # <<>> /\ sent[Len(sent)] = "finalize"
       /\ outcome = NoOutcome

(* The transcript kept for the recorder is the one the service sent.       *)
TranscriptKept ==
  /\ shown \o tokenUpdates = FirstN(Len(received))
  /\ Result!IsTextOf(finalText, received)

(* A resolved session is over, and resolved with what it had.              *)
Resolved ==
  outcome.kind = "complete" =>
    terminal /\ tokenUpdates = <<>> /\ outcome.text = finalText

IInv ==
  /\ TypeOK /\ AudioInOrder /\ ClosingHandshake /\ NeverStalls
  /\ Coupling /\ TranscriptKept /\ Resolved

---------------------------------------------------------------------------
(* Type correctness.                                                       *)

LEMMA InitTypeOK == Init => TypeOK
<1> SUFFICES ASSUME Init  PROVE TypeOK
  OBVIOUS
<1>1. NoOutcome \in Outcomes
  BY DEF NoOutcome, Outcomes
<1>2. <<>> \in Seq(Nat) /\ <<>> \in Seq(Tokens)
      /\ <<>> \in Seq({"audio", "finalize", "end"})
  BY EmptySeq
<1>. QED  BY <1>1, <1>2 DEF Init, TypeOK, TimerNames

(* The handlers' common endings keep the types.                            *)
LEMMA FailTypes ==
  ASSUME NEW code \in ErrorCodes, Fail(code)
  PROVE  /\ terminal' \in BOOLEAN /\ socket' \in BOOLEAN /\ ready' \in BOOLEAN
         /\ timers' \subseteq TimerNames
         /\ outcome' \in Outcomes
<1>1. [kind |-> "error", code |-> code, text |-> <<>>] \in Outcomes
  BY EmptySeq DEF Outcomes
<1>. QED  BY <1>1 DEF Fail

LEMMA CompleteTypes ==
  ASSUME NEW text \in Seq(Nat), NEW updates \in Seq(Nat),
         shown \in Seq(Nat), Complete(text, updates)
  PROVE  /\ terminal' \in BOOLEAN /\ completed' \in BOOLEAN
         /\ socket' \in BOOLEAN /\ ready' \in BOOLEAN
         /\ timers' \subseteq TimerNames
         /\ shown' \in Seq(Nat) /\ tokenUpdates' \in Seq(Nat)
         /\ outcome' \in Outcomes
<1>1. [kind |-> "complete", code |-> "none", text |-> text] \in Outcomes
  BY DEF Outcomes
<1>2. shown \o updates \in Seq(Nat) /\ <<>> \in Seq(Nat)
  BY ConcatProperties, EmptySeq
<1>. QED  BY <1>1, <1>2 DEF Complete

(* A token extends the transcript within its types.                        *)
LEMMA HearTypes ==
  ASSUME TypeOK, NEW token \in Tokens \cup {"none"}, HearToken(token)
  PROVE  /\ received' \in Seq(Tokens) /\ finalText' \in Seq(Nat)
         /\ Unshown(token) \in Seq(Nat)
<1>1. received' \in Seq(Tokens)
  BY AppendProperties DEF HearToken, TypeOK
<1>2. Len(received) + 1 \in Nat
  BY DEF TypeOK
<1>. QED  BY <1>1, <1>2, AppendProperties DEF HearToken, Unshown, TypeOK

(* The logs of frames and socket messages grow within their types.         *)
LEMMA LogTypes ==
  ASSUME TypeOK
  PROVE  /\ Append(sentAudio, accepted + 1) \in Seq(Nat)
         /\ Append(pendingFrames, accepted + 1) \in Seq(Nat)
         /\ sentAudio \o pendingFrames \in Seq(Nat)
         /\ shown \o tokenUpdates \in Seq(Nat)
         /\ \A kind \in {"audio", "finalize", "end"} :
              Append(sent, kind) \in Seq({"audio", "finalize", "end"})
         /\ <<>> \in Seq(Nat) /\ <<>> \in Seq({"audio", "finalize", "end"})
<1>1. accepted + 1 \in Nat
  BY DEF TypeOK
<1>2. /\ Append(sentAudio, accepted + 1) \in Seq(Nat)
      /\ Append(pendingFrames, accepted + 1) \in Seq(Nat)
  BY <1>1, AppendProperties DEF TypeOK
<1>3. /\ sentAudio \o pendingFrames \in Seq(Nat)
      /\ shown \o tokenUpdates \in Seq(Nat)
  BY ConcatProperties DEF TypeOK
<1>4. ASSUME NEW kind \in {"audio", "finalize", "end"}
      PROVE  Append(sent, kind) \in Seq({"audio", "finalize", "end"})
  BY AppendProperties DEF TypeOK
<1>. QED  BY <1>2, <1>3, <1>4, EmptySeq

(* Every step keeps the types; the byte count needs the buffer's size.     *)
LEMMA NextTypeOK ==
  ASSUME TypeOK, AudioInOrder, Coupling, Next
  PROVE  TypeOK'
<1>. USE DEF vars, link, phase, audio, transcript, clock
<1>1. CASE SendAudioNow
  BY <1>1, LogTypes DEF SendAudioNow, TypeOK
<1>2. CASE QueueAudio
  <2>1. pendingBytes + FrameBytes \in Nat
    BY ConstantsAssumption DEF TypeOK
  <2>4. pendingBytes' \in Nat /\ pendingFrames' \in Seq(Nat) /\ accepted' \in Nat
    <3>1. /\ pendingBytes' = pendingBytes + FrameBytes
          /\ \/ pendingFrames' = pendingFrames /\ accepted' = accepted
             \/ /\ pendingFrames' = Append(pendingFrames, accepted + 1)
                /\ accepted' = accepted + 1
      BY <1>2 DEF QueueAudio, Buffered
    <3>2. /\ pendingFrames \in Seq(Nat) /\ accepted \in Nat /\ accepted + 1 \in Nat
          /\ Append(pendingFrames, accepted + 1) \in Seq(Nat)
      BY LogTypes DEF TypeOK
    <3>. QED  BY <2>1, <3>1, <3>2
  <2>2. CASE Fail("realtime_buffer_overflow")
    <3>1. "realtime_buffer_overflow" \in ErrorCodes
      BY DEF ErrorCodes
    <3>2. /\ terminal' \in BOOLEAN /\ socket' \in BOOLEAN /\ ready' \in BOOLEAN
          /\ timers' \subseteq TimerNames
          /\ outcome' \in Outcomes
      BY <2>2, <3>1, FailTypes
    <3>. QED  BY <1>2, <3>2, <2>4 DEF QueueAudio, TypeOK
  <2>3. CASE ~Fail("realtime_buffer_overflow")
    <3>2. UNCHANGED <<terminal, timers, socket, ready, outcome>>
      BY <1>2, <2>3 DEF QueueAudio
    <3>. QED  BY <1>2, <2>4, <3>2 DEF QueueAudio, TypeOK
  <2>. QED  BY <2>2, <2>3
<1>3. CASE Finalize
  BY <1>3, LogTypes DEF Finalize, TypeOK, TimerNames
<1>4. CASE Close
  BY <1>4 DEF Close, TypeOK
<1>5. CASE ProxyReady
  <2>1. pendingFrames' \in Seq(Nat) /\ sentAudio' \in Seq(Nat)
    BY <1>5, LogTypes DEF ProxyReady, FlushPendingFrames
  <2>2. pendingBytes' \in Nat
    <3>1. outcome.code # "realtime_buffer_overflow"
      BY <1>5 DEF ProxyReady, Coupling, NoOutcome
    <3>2. pendingBytes = FrameBytes * Len(pendingFrames)
      BY <3>1 DEF AudioInOrder
    <3>. QED  BY <1>5, <3>2 DEF ProxyReady, FlushPendingFrames, TypeOK
  <2>3. sent' \in Seq({"audio", "finalize", "end"})
    <3>1. Len(pendingFrames) \in Nat
      BY DEF TypeOK
    <3>2. [i \in 1..Len(pendingFrames) |-> "audio"]
            \in Seq({"audio", "finalize", "end"})
      BY <3>1
    <3>3. SentWithPending \in Seq({"audio", "finalize", "end"})
      BY <3>2, ConcatProperties DEF TypeOK, SentWithPending
    <3>4. Append(SentWithPending, "finalize") \in Seq({"audio", "finalize", "end"})
      BY <3>3, AppendProperties
    <3>. QED  BY <1>5, <3>3, <3>4 DEF ProxyReady
  <2>4. timers' \subseteq TimerNames /\ finalizeControlSent' \in BOOLEAN
    BY <1>5 DEF ProxyReady, TypeOK, TimerNames
  <2>5. /\ ready' = TRUE
        /\ UNCHANGED <<socket, wire, connection, reconnectAttempts, finalizing,
                       finished, completed, terminal, accepted, transcript,
                       strayTokenTimers, outcome>>
    BY <1>5 DEF ProxyReady
  <2>. QED  BY <2>1, <2>2, <2>3, <2>4, <2>5 DEF TypeOK
<1>6. CASE Rejected
  BY <1>6, FailTypes DEF Rejected, TypeOK, ErrorCodes
<1>7. ASSUME NEW token \in Tokens, TokenMessage(token)
      PROVE  TypeOK'
  BY <1>7, HearTypes DEF TokenMessage, TypeOK, TimerNames
<1>8. ASSUME NEW token \in Tokens \cup {"none"}, FinishedMessage(token)
      PROVE  TypeOK'
  <2>1. /\ received' \in Seq(Tokens) /\ finalText' \in Seq(Nat)
        /\ Unshown(token) \in Seq(Nat)
    BY <1>8, HearTypes DEF FinishedMessage
  <2>2. CASE finalizing
    <3>1. shown \o Unshown(token) \in Seq(Nat) /\ <<>> \in Seq(Nat)
      BY <2>1, ConcatProperties, EmptySeq DEF TypeOK
    <3>2. shown' \in Seq(Nat) /\ tokenUpdates' \in Seq(Nat)
      BY <1>8, <2>2, <3>1 DEF FinishedMessage
    <3>3. timers' \subseteq TimerNames /\ strayTokenTimers' \in Nat
      <4>1. /\ timers' = (timers \ {"token"}) \cup {"quiet"}
            /\ strayTokenTimers' \in {strayTokenTimers, strayTokenTimers + 1}
        BY <1>8, <2>2 DEF FinishedMessage
      <4>. QED  BY <4>1 DEF TypeOK, TimerNames
    <3>4. UNCHANGED <<socket, ready, completed, terminal, outcome>>
      BY <1>8, <2>2 DEF FinishedMessage
    <3>. QED  BY <1>8, <2>1, <3>2, <3>3, <3>4 DEF FinishedMessage, TypeOK
  <2>3. CASE ~finalizing
    <3>1. Complete(finalText', Unshown(token))
      BY <1>8, <2>3 DEF FinishedMessage
    <3>2. /\ terminal' \in BOOLEAN /\ completed' \in BOOLEAN
          /\ socket' \in BOOLEAN /\ ready' \in BOOLEAN
          /\ timers' \subseteq TimerNames
          /\ shown' \in Seq(Nat) /\ tokenUpdates' \in Seq(Nat)
          /\ outcome' \in Outcomes
      BY <2>1, <3>1, CompleteTypes DEF TypeOK
    <3>. QED  BY <1>8, <2>1, <3>2 DEF FinishedMessage, TypeOK
  <2>. QED  BY <2>2, <2>3 DEF TypeOK
<1>9. ASSUME NEW quota \in BOOLEAN, SocketClosed(quota)
      PROVE  TypeOK'
  <2>1. CASE terminal
    BY <1>9, <2>1 DEF SocketClosed, TypeOK
  <2>2. CASE ~terminal /\ finished
    BY <1>9, <2>2, CompleteTypes DEF SocketClosed, TypeOK
  <2>3. CASE ~terminal /\ ~finished
    <3>1. (IF quota THEN "quota_exhausted" ELSE "realtime_unavailable") \in ErrorCodes
      BY DEF ErrorCodes
    <3>2. CASE quota \/ reconnectAttempts >= MaxReconnects
      <4>1. /\ terminal' \in BOOLEAN /\ socket' \in BOOLEAN /\ ready' \in BOOLEAN
            /\ timers' \subseteq TimerNames
            /\ outcome' \in Outcomes
        BY <1>9, <2>3, <3>1, <3>2, ConstantsAssumption, FailTypes
           DEF SocketClosed, TypeOK
      <4>2. /\ wire' = FALSE
            /\ finalizeControlSent' = ControlSentAfterClose
            /\ UNCHANGED <<finalizing, finished, completed, reconnectAttempts,
                           tokenUpdates, shown, connection, audio, finalText,
                           received, strayTokenTimers>>
        BY <1>9, <2>3, <3>2, ConstantsAssumption DEF SocketClosed, TypeOK
      <4>. QED  BY <4>1, <4>2 DEF ControlSentAfterClose, TypeOK
    <3>3. CASE ~(quota \/ reconnectAttempts >= MaxReconnects)
      <4>1. /\ wire' = FALSE /\ socket' = FALSE /\ ready' = FALSE
            /\ finalizeControlSent' = ControlSentAfterClose
            /\ reconnectAttempts' = reconnectAttempts + 1
            /\ timers' = (timers \ TimersOfSocket) \cup {"reconnect"}
            /\ UNCHANGED <<finalizing, finished, completed, terminal,
                           tokenUpdates, shown, outcome, connection, audio,
                           finalText, received, strayTokenTimers>>
        BY <1>9, <2>3, <3>3 DEF SocketClosed
      <4>2. timers' \subseteq TimerNames /\ reconnectAttempts' \in Nat
        <5>1. timers' = (timers \ TimersOfSocket) \cup {"reconnect"}
          BY <4>1
        <5>2. timers \subseteq TimerNames /\ "reconnect" \in TimerNames
          BY DEF TypeOK, TimerNames
        <5>3. reconnectAttempts' = reconnectAttempts + 1 /\ reconnectAttempts \in Nat
          BY <4>1 DEF TypeOK
        <5>. QED  BY <5>1, <5>2, <5>3
      <4>3. finalizeControlSent' \in BOOLEAN
        BY <4>1 DEF ControlSentAfterClose
      <4>4. /\ wire' \in BOOLEAN /\ socket' \in BOOLEAN /\ ready' \in BOOLEAN
            /\ UNCHANGED <<finalizing, finished, completed, terminal,
                           tokenUpdates, shown, outcome, connection, audio,
                           finalText, received, strayTokenTimers>>
        BY <4>1
      <4>. QED  BY <4>2, <4>3, <4>4 DEF TypeOK
    <3>. QED  BY <3>2, <3>3
  <2>. QED  BY <2>1, <2>2, <2>3
<1>10. CASE WatchdogFires
  BY <1>10, FailTypes DEF WatchdogFires, TypeOK, ErrorCodes
<1>11. CASE ReconnectFires
  <2>1. /\ sent' \in Seq({"audio", "finalize", "end"})
        /\ timers' \subseteq TimerNames /\ connection' \in Nat
    BY <1>11, LogTypes DEF ReconnectFires, TypeOK, TimerNames
  <2>. QED  BY <1>11, <2>1 DEF ReconnectFires, TypeOK
<1>12. CASE ControlFires
  BY <1>12, LogTypes DEF ControlFires, TypeOK, TimerNames
<1>13. CASE TimeoutFires
  BY <1>13, FailTypes DEF TimeoutFires, TypeOK, ErrorCodes
<1>14. CASE QuietFires
  BY <1>14, CompleteTypes DEF QuietFires, TypeOK
<1>15. CASE TokenTimerFires \/ StrayTokenTimerFires
  <2>1. FlushTokenUpdates /\ strayTokenTimers' \in Nat
    BY <1>15 DEF TokenTimerFires, StrayTokenTimerFires, TypeOK
  <2>2. shown' \in Seq(Nat) /\ tokenUpdates' \in Seq(Nat)
    BY <2>1, LogTypes DEF FlushTokenUpdates
  <2>3. timers' \subseteq TimerNames
    BY <2>1 DEF FlushTokenUpdates, TypeOK
  <2>. QED  BY <1>15, <2>1, <2>2, <2>3
            DEF TokenTimerFires, StrayTokenTimerFires, TypeOK
<1>. QED
  BY <1>1, <1>2, <1>3, <1>4, <1>5, <1>6, <1>7, <1>8, <1>9, <1>10, <1>11,
     <1>12, <1>13, <1>14, <1>15 DEF Next

---------------------------------------------------------------------------
(* The frames.                                                             *)

(* A timer of the session fires only while it is live.                     *)
LEMMA FiringIsLive ==
  ASSUME TypeOK, NeverStalls, timers # {}
  PROVE  ~terminal
BY DEF NeverStalls, TypeOK

(* While the session is live its byte count is right and within bounds.    *)
LEMMA LiveBuffer ==
  ASSUME AudioInOrder, Coupling, ~terminal
  PROVE  pendingBytes = FrameBytes * Len(pendingFrames) /\ pendingBytes <= BufferBytes
<1>1. outcome.code # "realtime_buffer_overflow"
  BY DEF Coupling, NoOutcome
<1>. QED  BY <1>1 DEF AudioInOrder

(* No step loses, repeats or reorders a frame, or miscounts the buffer.    *)
LEMMA NextAudioInOrder ==
  ASSUME TypeOK, AudioInOrder, NeverStalls, Coupling, Next
  PROVE  AudioInOrder'
<1>. USE DEF audio
<1>1. ASSUME UNCHANGED <<pendingFrames, pendingBytes, accepted, sentAudio>>,
             ~terminal \/ UNCHANGED outcome
      PROVE  AudioInOrder'
  <2>1. CASE ~terminal
    BY <1>1, <2>1, LiveBuffer DEF AudioInOrder
  <2>2. CASE UNCHANGED outcome
    BY <1>1, <2>2 DEF AudioInOrder
  <2>. QED  BY <1>1, <2>1, <2>2
<1>2. CASE SendAudioNow
  <2>1. pendingFrames = <<>> /\ pendingFrames' = <<>>
    BY <1>2 DEF SendAudioNow, Coupling
  <2>2. sentAudio = FirstN(accepted)
    BY <2>1, ConcatEmptySeq DEF AudioInOrder, TypeOK
  <2>3. sentAudio' = FirstN(accepted + 1)
    BY <1>2, <2>2, AppendFirstN DEF SendAudioNow, TypeOK
  <2>4. sentAudio' \o pendingFrames' = FirstN(accepted')
    <3>1. FirstN(accepted + 1) \in Seq(Nat) /\ accepted' = accepted + 1
      BY <1>2, FirstNType DEF SendAudioNow, TypeOK
    <3>. QED  BY <2>1, <2>3, <3>1, ConcatEmptySeq
  <2>5. UNCHANGED <<pendingFrames, pendingBytes>> /\ ~terminal
    BY <1>2 DEF SendAudioNow
  <2>. QED  BY <2>4, <2>5, LiveBuffer DEF AudioInOrder
<1>3. CASE QueueAudio
  <2>1. ~terminal /\ pendingBytes' = pendingBytes + FrameBytes
    BY <1>3 DEF QueueAudio, Buffered
  <2>2. CASE Fail("realtime_buffer_overflow") /\ UNCHANGED <<pendingFrames, accepted>>
    <3>1. outcome'.code = "realtime_buffer_overflow"
      BY <2>2 DEF Fail
    <3>2. UNCHANGED sentAudio
      BY <1>3 DEF QueueAudio
    <3>. QED  BY <2>2, <3>1, <3>2 DEF AudioInOrder
  <2>3. CASE /\ Buffered <= BufferBytes
             /\ pendingFrames' = Append(pendingFrames, accepted + 1)
             /\ accepted' = accepted + 1
    <3>1. sentAudio \o Append(pendingFrames, accepted + 1)
            = Append(sentAudio \o pendingFrames, accepted + 1)
      <4>1. accepted + 1 \in Nat /\ <<accepted + 1>> \in Seq(Nat)
        BY DEF TypeOK
      <4>2. Append(pendingFrames, accepted + 1) = pendingFrames \o <<accepted + 1>>
        BY <4>1, AppendIsConcat DEF TypeOK
      <4>3. sentAudio \o (pendingFrames \o <<accepted + 1>>)
              = (sentAudio \o pendingFrames) \o <<accepted + 1>>
        BY <4>1, ConcatAssociative DEF TypeOK
      <4>4. sentAudio \o pendingFrames \in Seq(Nat)
        BY LogTypes
      <4>5. (sentAudio \o pendingFrames) \o <<accepted + 1>>
              = Append(sentAudio \o pendingFrames, accepted + 1)
        BY <4>1, <4>4, AppendIsConcat
      <4>. QED  BY <4>2, <4>3, <4>5
    <3>2. sentAudio' \o pendingFrames' = FirstN(accepted')
      <4>1. sentAudio' = sentAudio
        BY <1>3 DEF QueueAudio
      <4>2. Append(FirstN(accepted), accepted + 1) = FirstN(accepted + 1)
        BY AppendFirstN DEF TypeOK
      <4>. QED  BY <2>3, <3>1, <4>1, <4>2 DEF AudioInOrder
    <3>3. Len(pendingFrames') = Len(pendingFrames) + 1 /\ Len(pendingFrames) \in Nat
      BY <2>3, AppendProperties DEF TypeOK
    <3>4. pendingBytes = FrameBytes * Len(pendingFrames)
      BY <2>1, LiveBuffer
    <3>5. pendingBytes' = FrameBytes * Len(pendingFrames')
      BY <2>1, <3>3, <3>4, ConstantsAssumption
    <3>6. pendingBytes' <= BufferBytes
      BY <2>1, <2>3 DEF Buffered
    <3>. QED  BY <3>2, <3>5, <3>6 DEF AudioInOrder
  <2>. QED  BY <1>3, <2>2, <2>3 DEF QueueAudio
<1>4. CASE ProxyReady
  <2>1. /\ ~terminal /\ accepted' = accepted
        /\ pendingFrames' = <<>>
        /\ pendingBytes' = pendingBytes - FrameBytes * Len(pendingFrames)
        /\ sentAudio' = sentAudio \o pendingFrames
    BY <1>4 DEF ProxyReady, FlushPendingFrames
  <2>2. sentAudio' \o pendingFrames' = FirstN(accepted')
    <3>1. sentAudio \o pendingFrames \in Seq(Nat)
      BY LogTypes
    <3>. QED  BY <2>1, <3>1, ConcatEmptySeq DEF AudioInOrder
  <2>3. Len(pendingFrames') = 0
    BY <2>1
  <2>4. pendingBytes' = 0
    BY <2>1, LiveBuffer DEF TypeOK
  <2>5. FrameBytes * 0 = 0 /\ 0 <= BufferBytes
    BY ConstantsAssumption
  <2>. QED  BY <2>2, <2>3, <2>4, <2>5 DEF AudioInOrder
<1>5. CASE Finalize \/ Close
  BY <1>1, <1>5 DEF Finalize, Close
<1>6. CASE Rejected
  BY <1>1, <1>6 DEF Rejected
<1>7. ASSUME NEW token \in Tokens, TokenMessage(token)
      PROVE  AudioInOrder'
  BY <1>1, <1>7 DEF TokenMessage
<1>8. ASSUME NEW token \in Tokens \cup {"none"}, FinishedMessage(token)
      PROVE  AudioInOrder'
  BY <1>1, <1>8 DEF FinishedMessage
<1>9. ASSUME NEW quota \in BOOLEAN, SocketClosed(quota)
      PROVE  AudioInOrder'
  BY <1>1, <1>9 DEF SocketClosed
<1>10. CASE WatchdogFires \/ TimeoutFires
  BY <1>1, <1>10, FiringIsLive DEF WatchdogFires, TimeoutFires
<1>11. CASE ReconnectFires \/ ControlFires
  BY <1>1, <1>11 DEF ReconnectFires, ControlFires
<1>12. CASE QuietFires
  BY <1>1, <1>12, FiringIsLive DEF QuietFires
<1>13. CASE TokenTimerFires \/ StrayTokenTimerFires
  BY <1>1, <1>13 DEF TokenTimerFires, StrayTokenTimerFires
<1>. QED
  BY <1>2, <1>3, <1>4, <1>5, <1>6, <1>7, <1>8, <1>9, <1>10, <1>11, <1>12,
     <1>13 DEF Next

---------------------------------------------------------------------------
(* The connection and the closing handshake.                               *)

(* A message just logged is the last one of the log.                       *)
LEMMA LastSent ==
  ASSUME NEW S, NEW s \in Seq(S), NEW x \in S
  PROVE  /\ Append(s, x) # <<>>
         /\ Append(s, x)[Len(Append(s, x))] = x
BY AppendProperties, EmptySeq

(* Flushing the buffer logs only audio.                                    *)
LEMMA SentWithPendingType ==
  ASSUME TypeOK
  PROVE  /\ SentWithPending \in Seq({"audio", "finalize", "end"})
         /\ Len(SentWithPending) = Len(sent) + Len(pendingFrames)
         /\ \A i \in 1..Len(sent) : SentWithPending[i] = sent[i]
         /\ \A i \in (Len(sent) + 1)..Len(SentWithPending) :
              SentWithPending[i] = "audio"
<1>1. Len(sent) \in Nat /\ Len(pendingFrames) \in Nat
  BY DEF TypeOK
<1> DEFINE flushed == [i \in 1..Len(pendingFrames) |-> "audio"]
<1>2. flushed \in Seq({"audio", "finalize", "end"}) /\ Len(flushed) = Len(pendingFrames)
  BY <1>1
<1>3. sent \in Seq({"audio", "finalize", "end"})
  BY DEF TypeOK
<1>4. /\ sent \o flushed \in Seq({"audio", "finalize", "end"})
      /\ Len(sent \o flushed) = Len(sent) + Len(flushed)
      /\ \A i \in 1 .. Len(sent) + Len(flushed) :
           (sent \o flushed)[i] = IF i <= Len(sent) THEN sent[i]
                                  ELSE flushed[i - Len(sent)]
  BY <1>2, <1>3, ConcatProperties
<1>5. \A i \in 1..Len(pendingFrames) : flushed[i] = "audio"
  BY <1>1
<1>6. SentWithPending = sent \o flushed
  BY DEF SentWithPending
<1> HIDE DEF flushed
<1>. QED  BY <1>1, <1>2, <1>4, <1>5, <1>6

(* No step separates the flags of a live session from its socket, its      *)
(* timers and what it sent last.                                           *)
LEMMA NextCoupling ==
  ASSUME TypeOK, NeverStalls, Coupling, Next
  PROVE  Coupling'
<1>. USE DEF link, phase, audio
<1>1. ASSUME terminal', UNCHANGED finalizeControlSent, UNCHANGED finalizing
      PROVE  Coupling'
  BY <1>1 DEF Coupling
<1>2. ASSUME UNCHANGED <<link, phase, audio, outcome>>,
             timers' \ {"token", "quiet"} = timers \ {"token", "quiet"}
      PROVE  Coupling'
  BY <1>2 DEF Coupling
<1>3. CASE SendAudioNow
  <2>1. ~finalizeControlSent /\ "control" \notin timers
    BY <1>3 DEF SendAudioNow, Coupling
  <2>. QED  BY <1>3, <2>1 DEF SendAudioNow, Coupling, clock
<1>4. CASE QueueAudio
  <2>1. CASE Fail("realtime_buffer_overflow")
    BY <1>1, <1>4, <2>1 DEF QueueAudio, Fail
  <2>2. CASE ~Fail("realtime_buffer_overflow")
    <3>1. ~ready
      BY <1>4 DEF QueueAudio, Coupling
    <3>2. UNCHANGED <<terminal, timers, socket, ready, outcome, wire, finalizing,
                      finalizeControlSent, sent>>
      BY <1>4, <2>2 DEF QueueAudio
    <3>. QED  BY <3>1, <3>2 DEF Coupling
  <2>. QED  BY <2>1, <2>2
<1>5. CASE Finalize
  <2>1. ~terminal /\ ~finalizing /\ finalizing'
    BY <1>5 DEF Finalize
  <2>2. UNCHANGED <<link, terminal, pendingFrames, outcome>>
    BY <1>5 DEF Finalize
  <2>3. CASE MaySendControl /\ ready
    <3>1. /\ finalizeControlSent' /\ sent' = Append(sent, "finalize")
          /\ timers' = timers \cup {"control"} /\ socket
      BY <1>5, <2>3 DEF Finalize, MaySendControl
    <3>2. sent' # <<>> /\ sent'[Len(sent')] = "finalize"
      <4>1. sent \in Seq({"audio", "finalize", "end"})
        BY DEF TypeOK
      <4>2. /\ Append(sent, "finalize") # <<>>
            /\ Append(sent, "finalize")[Len(Append(sent, "finalize"))] = "finalize"
        BY <4>1, LastSent
      <4>. QED  BY <3>1, <4>2
    <3>. QED  BY <2>1, <2>2, <2>3, <3>1, <3>2 DEF Coupling
  <2>4. CASE ~(MaySendControl /\ ready)
    <3>1. UNCHANGED <<finalizeControlSent, sent, timers>>
      BY <1>5, <2>4 DEF Finalize
    <3>. QED  BY <2>1, <2>2, <3>1 DEF Coupling
  <2>. QED  BY <2>3, <2>4
<1>6. CASE Close
  BY <1>1, <1>6 DEF Close
<1>7. CASE ProxyReady
  <2>1. /\ ~terminal /\ wire /\ ready' /\ pendingFrames' = <<>>
        /\ UNCHANGED <<socket, wire, finalizing, terminal, outcome>>
    BY <1>7 DEF ProxyReady, FlushPendingFrames
  <2>2. socket
    BY <2>1 DEF Coupling
  <2>3. CASE finalizing /\ MaySendControl
    <3>1. /\ finalizeControlSent' /\ sent' = Append(SentWithPending, "finalize")
          /\ timers' = (timers \ {"watchdog"}) \cup {"control"}
      BY <1>7, <2>3 DEF ProxyReady
    <3>2. sent' # <<>> /\ sent'[Len(sent')] = "finalize"
      BY <3>1, LastSent, SentWithPendingType
    <3>. QED  BY <2>1, <2>2, <2>3, <3>1, <3>2 DEF Coupling
  <2>4. CASE ~(finalizing /\ MaySendControl)
    <3>1. sent' = SentWithPending /\ timers' = timers \ {"watchdog"}
          /\ UNCHANGED finalizeControlSent
      BY <1>7, <2>4 DEF ProxyReady
    <3>2. CASE ~finalizeControlSent
      BY <2>1, <2>2, <3>1, <3>2 DEF Coupling
    <3>3. CASE finalizeControlSent
      <4>1. ASSUME "control" \in timers
            PROVE  sent' # <<>> /\ sent'[Len(sent')] = "finalize"
        <5>1. pendingFrames = <<>> /\ sent # <<>> /\ sent[Len(sent)] = "finalize"
          BY <2>1, <4>1 DEF Coupling
        <5>2. Len(pendingFrames) = 0 /\ Len(sent) \in Nat /\ Len(sent) # 0
          BY <5>1, EmptySeq DEF TypeOK
        <5>3. Len(sent') = Len(sent) /\ sent'[Len(sent)] = sent[Len(sent)]
          BY <3>1, <5>2, SentWithPendingType
        <5>. QED  BY <5>1, <5>2, <5>3, EmptySeq
      <4>. QED  BY <2>1, <2>2, <3>1, <4>1 DEF Coupling
    <3>. QED  BY <3>2, <3>3 DEF TypeOK
  <2>. QED  BY <2>3, <2>4
<1>8. CASE Rejected
  BY <1>1, <1>8 DEF Rejected, Fail
<1>9. ASSUME NEW token \in Tokens, TokenMessage(token)
      PROVE  Coupling'
  BY <1>2, <1>9 DEF TokenMessage
<1>10. ASSUME NEW token \in Tokens \cup {"none"}, FinishedMessage(token)
       PROVE  Coupling'
  <2>1. CASE finalizing
    <3>1. /\ UNCHANGED <<socket, ready, wire, terminal, outcome, finalizing,
                         finalizeControlSent, pendingFrames, sent>>
          /\ timers' = (timers \ {"token"}) \cup {"quiet"}
      BY <1>10, <2>1 DEF FinishedMessage
    <3>. QED  BY <3>1 DEF Coupling
  <2>2. CASE ~finalizing
    BY <1>1, <1>10, <2>2 DEF FinishedMessage, Complete
  <2>. QED  BY <2>1, <2>2
<1>11. ASSUME NEW quota \in BOOLEAN, SocketClosed(quota)
       PROVE  Coupling'
  <2>1. CASE terminal
    BY <1>1, <1>11, <2>1 DEF SocketClosed
  <2>2. CASE ~terminal /\ finished
    BY <1>1, <1>11, <2>2 DEF SocketClosed, Complete
  <2>3. CASE ~terminal /\ ~finished
    <3>1. ~finalizeControlSent' /\ wire' = FALSE /\ socket' = FALSE /\ ready' = FALSE
      BY <1>11, <2>3 DEF SocketClosed, ControlSentAfterClose, Coupling, Fail
    <3>2. terminal' \/ UNCHANGED outcome
      BY <1>11, <2>3 DEF SocketClosed, Fail
    <3>3. terminal' \/ timers' = (timers \ TimersOfSocket) \cup {"reconnect"}
      BY <1>11, <2>3 DEF SocketClosed, Fail
    <3>4. terminal' \/ "control" \notin timers'
      BY <2>3, <3>3 DEF Coupling, TimersOfSocket
    <3>. QED  BY <2>3, <3>1, <3>2, <3>4 DEF Coupling
  <2>. QED  BY <2>1, <2>2, <2>3
<1>12. CASE WatchdogFires \/ TimeoutFires
  BY <1>1, <1>12 DEF WatchdogFires, TimeoutFires, Fail
<1>13. CASE ReconnectFires
  <2>1. ~terminal
    BY <1>13, FiringIsLive DEF ReconnectFires
  <2>2. /\ socket' /\ wire' /\ ~ready'
        /\ timers' = (timers \ {"reconnect"}) \cup {"watchdog"}
        /\ UNCHANGED <<phase, pendingFrames, outcome>>
    BY <1>13 DEF ReconnectFires
  <2>3. ~socket /\ ~finalizeControlSent /\ "control" \notin timers
    BY <1>13, <2>1 DEF ReconnectFires, Coupling
  <2>. QED  BY <2>1, <2>2, <2>3 DEF Coupling
<1>14. CASE ControlFires
  <2>1. ~terminal
    BY <1>14, FiringIsLive DEF ControlFires
  <2>2. socket /\ ready
    BY <1>14, <2>1 DEF ControlFires, Coupling
  <2>3. /\ timers' = (timers \ {"control"}) \cup {"timeout"}
        /\ UNCHANGED <<link, phase, pendingFrames, outcome>>
    BY <1>14, <2>2 DEF ControlFires
  <2>. QED  BY <2>1, <2>2, <2>3 DEF Coupling
<1>15. CASE QuietFires
  BY <1>1, <1>15 DEF QuietFires, Complete
<1>16. CASE TokenTimerFires \/ StrayTokenTimerFires
  BY <1>2, <1>16 DEF TokenTimerFires, StrayTokenTimerFires, FlushTokenUpdates
<1>. QED
  BY <1>3, <1>4, <1>5, <1>6, <1>7, <1>8, <1>9, <1>10, <1>11, <1>12, <1>13,
     <1>14, <1>15, <1>16 DEF Next

(* Every step of a live session leaves the timer that moves it on armed,   *)
(* and every ending clears them all.                                       *)
LEMMA NextNeverStalls ==
  ASSUME TypeOK, NeverStalls, Coupling, Next
  PROVE  NeverStalls'
<1>. USE DEF link, phase
<1>1. ASSUME terminal', timers' = {}
      PROVE  NeverStalls'
  BY <1>1 DEF NeverStalls
<1>2. ASSUME UNCHANGED <<link, phase>>,
             timers' \ {"token", "quiet"} = timers \ {"token", "quiet"},
             ~terminal
      PROVE  NeverStalls'
  BY <1>2 DEF NeverStalls
<1>3. CASE SendAudioNow
  BY <1>3 DEF SendAudioNow, NeverStalls, clock
<1>4. CASE QueueAudio
  BY <1>1, <1>4 DEF QueueAudio, Fail, NeverStalls
<1>5. CASE Finalize
  <2>1. ~terminal /\ ~finalizing /\ finalizing'
        /\ UNCHANGED <<link, terminal>>
    BY <1>5 DEF Finalize
  <2>2. CASE MaySendControl /\ ready
    <3>1. timers' = timers \cup {"control"}
      BY <1>5, <2>2 DEF Finalize
    <3>. QED  BY <2>1, <3>1 DEF NeverStalls
  <2>3. CASE ~(MaySendControl /\ ready)
    <3>1. UNCHANGED timers
      BY <1>5, <2>3 DEF Finalize
    <3>2. ~(socket /\ ready)
      BY <2>1, <2>3 DEF MaySendControl, Coupling
    <3>. QED  BY <2>1, <3>1, <3>2 DEF NeverStalls
  <2>. QED  BY <2>2, <2>3
<1>6. CASE Close
  BY <1>1, <1>6 DEF Close
<1>7. CASE ProxyReady
  <2>1. /\ ~terminal /\ wire /\ ready'
        /\ UNCHANGED <<socket, finalizing, terminal>>
    BY <1>7 DEF ProxyReady
  <2>2. socket
    BY <2>1 DEF Coupling
  <2>3. CASE finalizing
    <3>1. CASE finalizeControlSent
      <4>1. timers' = timers \ {"watchdog"}
        BY <1>7, <3>1 DEF ProxyReady, MaySendControl
      <4>2. timers \cap {"control", "timeout"} # {}
        BY <2>1, <3>1 DEF Coupling
      <4>. QED  BY <2>1, <2>2, <4>1, <4>2 DEF NeverStalls
    <3>2. CASE ~finalizeControlSent
      <4>1. "control" \in timers'
        BY <1>7, <2>2, <2>3, <3>2 DEF ProxyReady, MaySendControl
      <4>. QED  BY <2>1, <2>2, <4>1 DEF NeverStalls
    <3>. QED  BY <3>1, <3>2
  <2>4. CASE ~finalizing
    BY <2>1, <2>2, <2>4 DEF NeverStalls
  <2>. QED  BY <2>3, <2>4
<1>8. CASE Rejected
  BY <1>1, <1>8 DEF Rejected, Fail
<1>9. ASSUME NEW token \in Tokens, TokenMessage(token)
      PROVE  NeverStalls'
  <2>1. /\ ~terminal /\ UNCHANGED <<link, phase>>
        /\ timers' \in {timers \cup {"token"}, timers \cup {"token", "quiet"}}
    BY <1>9 DEF TokenMessage
  <2>. QED  BY <1>2, <2>1
<1>10. ASSUME NEW token \in Tokens \cup {"none"}, FinishedMessage(token)
       PROVE  NeverStalls'
  <2>1. CASE finalizing
    <3>1. /\ UNCHANGED <<socket, ready, terminal, finalizing>>
          /\ timers' = (timers \ {"token"}) \cup {"quiet"}
      BY <1>10, <2>1 DEF FinishedMessage
    <3>2. ~terminal
      BY <1>10 DEF FinishedMessage
    <3>. QED  BY <3>1, <3>2 DEF NeverStalls
  <2>2. CASE ~finalizing
    BY <1>1, <1>10, <2>2 DEF FinishedMessage, Complete
  <2>. QED  BY <2>1, <2>2
<1>11. ASSUME NEW quota \in BOOLEAN, SocketClosed(quota)
       PROVE  NeverStalls'
  <2>1. CASE terminal
    <3>1. timers = {}
      BY <2>1 DEF NeverStalls
    <3>2. timers' = timers \ {"watchdog"} /\ terminal'
      BY <1>11, <2>1 DEF SocketClosed
    <3>. QED  BY <1>1, <3>1, <3>2
  <2>2. CASE ~terminal /\ finished
    BY <1>1, <1>11, <2>2 DEF SocketClosed, Complete
  <2>3. CASE ~terminal /\ ~finished
    <3>1. \/ terminal' /\ timers' = {}
          \/ /\ socket' = FALSE /\ "reconnect" \in timers'
             /\ UNCHANGED terminal
      BY <1>11, <2>3 DEF SocketClosed, Fail
    <3>. QED  BY <1>1, <2>3, <3>1 DEF NeverStalls
  <2>. QED  BY <2>1, <2>2, <2>3
<1>12. CASE WatchdogFires \/ TimeoutFires
  BY <1>1, <1>12 DEF WatchdogFires, TimeoutFires, Fail
<1>13. CASE ReconnectFires
  <2>1. ~terminal
    BY <1>13, FiringIsLive DEF ReconnectFires
  <2>2. /\ socket' /\ ~ready' /\ "watchdog" \in timers'
        /\ UNCHANGED terminal
    BY <1>13 DEF ReconnectFires
  <2>. QED  BY <2>1, <2>2 DEF NeverStalls
<1>14. CASE ControlFires
  <2>1. ~terminal
    BY <1>14, FiringIsLive DEF ControlFires
  <2>2. socket /\ ready
    BY <1>14, <2>1 DEF ControlFires, Coupling
  <2>3. /\ "timeout" \in timers'
        /\ UNCHANGED <<link, phase>>
    BY <1>14, <2>2 DEF ControlFires
  <2>. QED  BY <2>1, <2>2, <2>3 DEF NeverStalls
<1>15. CASE QuietFires
  BY <1>1, <1>15 DEF QuietFires, Complete
<1>16. CASE TokenTimerFires \/ StrayTokenTimerFires
  <2>1. timers' = timers \ {"token"} /\ UNCHANGED <<link, phase>>
    BY <1>16 DEF TokenTimerFires, StrayTokenTimerFires, FlushTokenUpdates
  <2>2. CASE terminal
    BY <2>1, <2>2 DEF NeverStalls
  <2>3. CASE ~terminal
    BY <1>2, <2>1, <2>3
  <2>. QED  BY <2>2, <2>3
<1>. QED
  BY <1>3, <1>4, <1>5, <1>6, <1>7, <1>8, <1>9, <1>10, <1>11, <1>12, <1>13,
     <1>14, <1>15, <1>16 DEF Next

---------------------------------------------------------------------------
(* The closing handshake on one socket.                                    *)

Messages == {"audio", "finalize", "end"}

AllAudio(s) == \A i \in DOMAIN s : s[i] = "audio"

(* The order of the messages in a log, the first half of ClosingHandshake. *)
Handshake(s) ==
  /\ \A i, j \in DOMAIN s : i < j =>
       \/ s[i] = "audio"
       \/ s[i] = "finalize" /\ s[j] = "end"
  /\ \A i \in DOMAIN s : s[i] = "end" => i > 1 /\ s[i - 1] = "finalize"

Finalized(s) == \E i \in DOMAIN s : s[i] = "finalize"

(* A log of audio alone has not begun the handshake.                       *)
LEMMA AudioIsHandshake ==
  ASSUME NEW s, AllAudio(s)
  PROVE  Handshake(s) /\ ~Finalized(s)
BY DEF AllAudio, Handshake, Finalized

(* Without finalize, a well-ordered log holds nothing but audio.           *)
LEMMA UnfinalizedIsAudio ==
  ASSUME NEW s \in Seq(Messages), Handshake(s), ~Finalized(s)
  PROVE  AllAudio(s)
<1> SUFFICES ASSUME NEW i \in DOMAIN s, s[i] # "audio"  PROVE FALSE
  BY DEF AllAudio
<1>1. s[i] = "end"
  <2>1. s[i] \in Messages
    BY ElementOfSeq
  <2>. QED  BY <2>1 DEF Messages, Finalized
<1>2. i > 1 /\ s[i - 1] = "finalize"
  BY <1>1 DEF Handshake
<1>3. i \in 1..Len(s) /\ Len(s) \in Nat
  BY LenProperties
<1>4. i - 1 \in DOMAIN s
  BY <1>2, <1>3, LenProperties
<1>. QED  BY <1>2, <1>4 DEF Finalized

(* Audio may follow audio, and finalize may follow audio.                  *)
LEMMA FollowAudio ==
  ASSUME NEW s \in Seq(Messages), AllAudio(s)
  PROVE  /\ AllAudio(Append(s, "audio"))
         /\ Handshake(Append(s, "finalize")) /\ Finalized(Append(s, "finalize"))
<1>1. ASSUME NEW m \in Messages
      PROVE  /\ DOMAIN Append(s, m) = 1..(Len(s) + 1)
             /\ \A i \in 1..Len(s) : Append(s, m)[i] = "audio"
             /\ Append(s, m)[Len(s) + 1] = m
  <2>1. /\ Append(s, m) \in Seq(Messages)
        /\ Len(Append(s, m)) = Len(s) + 1
        /\ \A i \in 1..Len(s) : Append(s, m)[i] = s[i]
        /\ Append(s, m)[Len(s) + 1] = m
    BY AppendProperties
  <2>2. \A i \in 1..Len(s) : s[i] = "audio"
    BY LenProperties DEF AllAudio
  <2>. QED  BY <2>1, <2>2, LenProperties
<1>2. Len(s) \in Nat
  BY LenProperties
<1>3. AllAudio(Append(s, "audio"))
  BY <1>1, <1>2 DEF AllAudio, Messages
<1>4. Handshake(Append(s, "finalize")) /\ Finalized(Append(s, "finalize"))
  <2> DEFINE t == Append(s, "finalize")
  <2>1. /\ DOMAIN t = 1..(Len(s) + 1)
        /\ \A i \in 1..Len(s) : t[i] = "audio"
        /\ t[Len(s) + 1] = "finalize"
    BY <1>1 DEF Messages
  <2> HIDE DEF t
  <2>2. Handshake(t) /\ Finalized(t)
    BY <1>2, <2>1 DEF Handshake, Finalized
  <2>. QED  BY <2>2 DEF t
<1>. QED  BY <1>3, <1>4

(* The end frame may follow finalize.                                      *)
LEMMA EndFollowsFinalize ==
  ASSUME NEW s \in Seq(Messages), Handshake(s),
         s # <<>>, s[Len(s)] = "finalize"
  PROVE  Handshake(Append(s, "end")) /\ Finalized(s) /\ Finalized(Append(s, "end"))
<1> DEFINE t == Append(s, "end")
<1>1. Len(s) \in Nat /\ Len(s) > 0 /\ DOMAIN s = 1..Len(s)
  BY LenProperties, EmptySeq
<1>2. /\ DOMAIN t = 1..(Len(s) + 1)
      /\ \A i \in 1..Len(s) : t[i] = s[i]
      /\ t[Len(s) + 1] = "end"
  <2>1. "end" \in Messages
    BY DEF Messages
  <2>. QED  BY <2>1, AppendProperties, LenProperties
<1> HIDE DEF t
<1>3. ASSUME NEW i \in 1..Len(s)
      PROVE  s[i] = "audio" \/ (s[i] = "finalize" /\ i = Len(s))
  <2> DEFINE n == Len(s)
  <2>1. n \in Nat /\ i \in 1..n /\ i \in DOMAIN s /\ n \in DOMAIN s /\ s[n] = "finalize"
    BY <1>1
  <2>2. \A j \in DOMAIN s : i < j => s[i] = "audio" \/ s[j] = "end"
    BY <2>1 DEF Handshake
  <2> HIDE DEF n
  <2>3. CASE i = n
    BY <2>1, <2>3 DEF n
  <2>4. CASE i # n
    <3>1. i < n
      BY <2>1, <2>4
    <3>. QED  BY <2>1, <2>2, <3>1
  <2>. QED  BY <2>3, <2>4
<1>4. ASSUME NEW i \in DOMAIN t, NEW j \in DOMAIN t, i < j
      PROVE  t[i] = "audio" \/ (t[i] = "finalize" /\ t[j] = "end")
  <2>1. i \in 1..Len(s) /\ t[i] = s[i]
    BY <1>1, <1>2, <1>4
  <2>2. CASE i = Len(s)
    <3>1. j = Len(s) + 1
      BY <1>1, <1>2, <1>4, <2>2
    <3>. QED  BY <1>2, <2>1, <2>2, <3>1
  <2>3. CASE i # Len(s)
    BY <1>3, <2>1, <2>3
  <2>. QED  BY <2>2, <2>3
<1>5. ASSUME NEW i \in DOMAIN t, t[i] = "end"
      PROVE  i > 1 /\ t[i - 1] = "finalize"
  <2>1. i \notin 1..Len(s)
    BY <1>2, <1>3, <1>5
  <2>2. i = Len(s) + 1
    BY <1>1, <1>2, <2>1
  <2>. QED  BY <1>1, <1>2, <2>2
<1>6. Finalized(s) /\ Finalized(t)
  BY <1>1, <1>2 DEF Finalized
<1>. QED  BY <1>4, <1>5, <1>6 DEF Handshake, t

(* Every step keeps the handshake, on the socket that is open and on none. *)
LEMMA NextClosingHandshake ==
  ASSUME TypeOK, ClosingHandshake, NeverStalls, Coupling, Next
  PROVE  ClosingHandshake'
<1>. USE DEF link, phase, audio
<1>a. sent \in Seq(Messages)
  BY DEF TypeOK, Messages
<1>b. Handshake(sent)
  BY DEF ClosingHandshake, Handshake
<1>c. socket => (finalizeControlSent <=> Finalized(sent))
  BY DEF ClosingHandshake, Finalized
<1>d. ASSUME Handshake(sent'),
             socket' => (finalizeControlSent' <=> Finalized(sent')),
             finalizeControlSent' /\ ~terminal' => pendingFrames' = <<>>
      PROVE  ClosingHandshake'
  BY <1>d DEF ClosingHandshake, Handshake, Finalized
<1>1. ASSUME UNCHANGED sent, ~socket' \/ UNCHANGED <<socket, finalizeControlSent>>,
             terminal' \/ ~finalizeControlSent'
               \/ UNCHANGED <<terminal, finalizeControlSent, pendingFrames>>
      PROVE  ClosingHandshake'
  BY <1>1 DEF ClosingHandshake
<1>2. CASE SendAudioNow
  <2>1. ~finalizeControlSent /\ ~Finalized(sent) /\ ~finalizeControlSent'
    BY <1>2, <1>c DEF SendAudioNow, Coupling
  <2>2. AllAudio(sent')
    BY <1>2, <1>a, <1>b, <2>1, UnfinalizedIsAudio, FollowAudio DEF SendAudioNow
  <2>. QED  BY <1>d, <2>1, <2>2, AudioIsHandshake
<1>3. CASE QueueAudio
  <2>1. ~finalizeControlSent /\ UNCHANGED <<finalizeControlSent, sent>>
    BY <1>3 DEF QueueAudio, Coupling
  <2>2. ~socket' \/ UNCHANGED socket
    BY <1>3 DEF QueueAudio, Fail
  <2>. QED  BY <1>1, <2>1, <2>2
<1>4. CASE Finalize
  <2>1. CASE MaySendControl /\ ready
    <3>1. /\ ~finalizeControlSent /\ socket /\ ~terminal /\ pendingFrames = <<>>
          /\ UNCHANGED pendingFrames
          /\ finalizeControlSent' /\ sent' = Append(sent, "finalize")
      BY <1>4, <2>1 DEF Finalize, MaySendControl, Coupling
    <3>2. AllAudio(sent)
      BY <1>a, <1>b, <1>c, <3>1, UnfinalizedIsAudio
    <3>. QED  BY <1>a, <1>d, <3>1, <3>2, FollowAudio
  <2>2. CASE ~(MaySendControl /\ ready)
    BY <1>1, <1>4, <2>2 DEF Finalize
  <2>. QED  BY <2>1, <2>2
<1>5. CASE Close
  BY <1>1, <1>5 DEF Close
<1>6. CASE ProxyReady
  <2>1. /\ wire /\ ~terminal /\ pendingFrames' = <<>>
        /\ UNCHANGED socket
    BY <1>6 DEF ProxyReady, FlushPendingFrames
  <2>2. socket
    BY <2>1 DEF Coupling
  <2>3. SentWithPending \in Seq(Messages)
    BY SentWithPendingType DEF Messages
  <2>4. CASE finalizeControlSent
    <3>1. sent' = SentWithPending /\ UNCHANGED finalizeControlSent
      BY <1>6, <2>4 DEF ProxyReady, MaySendControl
    <3>2. SentWithPending = sent
      <4>1. pendingFrames = <<>>
        BY <2>1, <2>4 DEF ClosingHandshake
      <4>2. Len(pendingFrames) = 0 /\ Len(sent) \in Nat
        BY <1>a, <4>1, LenProperties
      <4>3. Len(SentWithPending) = Len(sent)
            /\ \A i \in 1..Len(sent) : SentWithPending[i] = sent[i]
        BY <4>2, SentWithPendingType
      <4>. QED  BY <1>a, <2>3, <4>3, SeqEqual
    <3>. QED  BY <1>b, <1>c, <1>d, <2>1, <2>2, <2>4, <3>1, <3>2
  <2>5. CASE ~finalizeControlSent
    <3>1. AllAudio(sent)
      BY <1>a, <1>b, <1>c, <2>2, <2>5, UnfinalizedIsAudio
    <3>2. AllAudio(SentWithPending)
      <4>1. /\ \A i \in 1..Len(sent) : SentWithPending[i] = "audio"
            /\ \A i \in (Len(sent) + 1)..Len(SentWithPending) :
                 SentWithPending[i] = "audio"
        BY <1>a, <3>1, LenProperties, SentWithPendingType DEF AllAudio
      <4>2. Len(sent) \in Nat /\ Len(SentWithPending) \in Nat
        BY <1>a, <2>3, LenProperties
      <4>3. DOMAIN SentWithPending = 1..Len(SentWithPending)
        BY <2>3, LenProperties
      <4>. QED  BY <4>1, <4>2, <4>3 DEF AllAudio
    <3>3. CASE finalizing
      <4>1. finalizeControlSent' /\ sent' = Append(SentWithPending, "finalize")
        BY <1>6, <2>2, <2>5, <3>3 DEF ProxyReady, MaySendControl
      <4>. QED  BY <1>d, <2>1, <2>3, <3>2, <4>1, FollowAudio
    <3>4. CASE ~finalizing
      <4>1. ~finalizeControlSent' /\ sent' = SentWithPending
        BY <1>6, <2>5, <3>4 DEF ProxyReady
      <4>. QED  BY <1>d, <3>2, <4>1, AudioIsHandshake
    <3>. QED  BY <3>3, <3>4
  <2>. QED  BY <2>4, <2>5
<1>7. CASE Rejected
  BY <1>1, <1>7 DEF Rejected, Fail
<1>8. ASSUME NEW token \in Tokens, TokenMessage(token)
      PROVE  ClosingHandshake'
  BY <1>1, <1>8 DEF TokenMessage
<1>9. ASSUME NEW token \in Tokens \cup {"none"}, FinishedMessage(token)
      PROVE  ClosingHandshake'
  BY <1>1, <1>9 DEF FinishedMessage, Complete
<1>10. ASSUME NEW quota \in BOOLEAN, SocketClosed(quota)
       PROVE  ClosingHandshake'
  <2>1. CASE terminal
    BY <1>1, <1>10, <2>1 DEF SocketClosed
  <2>2. CASE ~terminal /\ finished
    BY <1>1, <1>10, <2>2 DEF SocketClosed, Complete
  <2>3. CASE ~terminal /\ ~finished
    <3>1. ~finalizeControlSent' /\ ~socket' /\ UNCHANGED sent
      BY <1>10, <2>3 DEF SocketClosed, ControlSentAfterClose, Coupling, Fail
    <3>. QED  BY <1>1, <3>1
  <2>. QED  BY <2>1, <2>2, <2>3
<1>11. CASE WatchdogFires \/ TimeoutFires
  BY <1>1, <1>11 DEF WatchdogFires, TimeoutFires, Fail
<1>12. CASE ReconnectFires
  <2>1. ~terminal
    BY <1>12, FiringIsLive DEF ReconnectFires
  <2>2. ~finalizeControlSent
    BY <1>12, <2>1 DEF ReconnectFires, Coupling
  <2>3. sent' = <<>> /\ ~finalizeControlSent'
    BY <1>12, <2>2 DEF ReconnectFires
  <2>4. AllAudio(sent')
    BY <2>3 DEF AllAudio
  <2>. QED  BY <1>d, <2>3, <2>4, AudioIsHandshake
<1>13. CASE ControlFires
  <2>1. ~terminal
    BY <1>13, FiringIsLive DEF ControlFires
  <2>2. /\ finalizeControlSent /\ socket /\ ready
        /\ sent # <<>> /\ sent[Len(sent)] = "finalize"
    BY <1>13, <2>1 DEF ControlFires, Coupling
  <2>3. sent' = Append(sent, "end") /\ UNCHANGED <<finalizeControlSent, pendingFrames>>
    BY <1>13, <2>2 DEF ControlFires
  <2>4. Handshake(sent') /\ Finalized(sent')
    BY <1>a, <1>b, <2>2, <2>3, EndFollowsFinalize
  <2>5. pendingFrames = <<>>
    BY <2>1, <2>2 DEF Coupling
  <2>. QED  BY <1>d, <2>2, <2>3, <2>4, <2>5
<1>14. CASE QuietFires
  BY <1>1, <1>14 DEF QuietFires, Complete
<1>15. CASE TokenTimerFires \/ StrayTokenTimerFires
  BY <1>1, <1>15 DEF TokenTimerFires, StrayTokenTimerFires
<1>. QED
  BY <1>2, <1>3, <1>4, <1>5, <1>6, <1>7, <1>8, <1>9, <1>10, <1>11, <1>12,
     <1>13, <1>14, <1>15 DEF Next

---------------------------------------------------------------------------
(* The transcript.                                                         *)

(* A token heard is one more token to show and, if it is final, one more   *)
(* piece of the text.                                                      *)
LEMMA HearKept ==
  ASSUME TypeOK, TranscriptKept,
         NEW token \in Tokens \cup {"none"}, HearToken(token)
  PROVE  /\ shown \o Unshown(token) = FirstN(Len(received'))
         /\ Result!IsTextOf(finalText', received')
<1> DEFINE n == Len(received)
<1>1. /\ shown \in Seq(Nat) /\ tokenUpdates \in Seq(Nat) /\ finalText \in Seq(Nat)
      /\ received \in Seq(Tokens) /\ n \in Nat /\ n + 1 \in Nat
  BY DEF TypeOK
<1>2. CASE token = "none"
  BY <1>2 DEF HearToken, Unshown, TranscriptKept, Tokens
<1>3. CASE token \in Tokens
  <2>0. token # "none"
    BY <1>3 DEF Tokens
  <2>1. received' = Append(received, token) /\ Unshown(token) = Append(tokenUpdates, n + 1)
    BY <2>0 DEF HearToken, Unshown
  <2>2. Len(received') = n + 1
    BY <1>1, <1>3, <2>1, AppendProperties
  <2>3. shown \o Unshown(token) = FirstN(Len(received'))
    <3>1. /\ Append(tokenUpdates, n + 1) = tokenUpdates \o <<n + 1>>
          /\ <<n + 1>> \in Seq(Nat)
      BY <1>1, AppendIsConcat
    <3>2. shown \o (tokenUpdates \o <<n + 1>>) = (shown \o tokenUpdates) \o <<n + 1>>
      BY <1>1, <3>1, ConcatAssociative
    <3>3. shown \o tokenUpdates = FirstN(n)
      BY DEF TranscriptKept
    <3>4. FirstN(n) \o <<n + 1>> = Append(FirstN(n), n + 1)
      BY <1>1, FirstNType, AppendIsConcat
    <3>5. Append(FirstN(n), n + 1) = FirstN(n + 1)
      BY <1>1, AppendFirstN
    <3>. QED  BY <2>1, <2>2, <3>1, <3>2, <3>3, <3>4, <3>5
  <2>4. /\ DOMAIN received = 1..n /\ DOMAIN received' = 1..(n + 1)
        /\ \A i \in 1..n : received'[i] = received[i]
        /\ received'[n + 1] = token
    BY <1>1, <1>3, <2>1, <2>2, AppendProperties, LenProperties
  <2>5. /\ \A i, j \in DOMAIN finalText : i < j => finalText[i] < finalText[j]
        /\ {finalText[i] : i \in DOMAIN finalText}
             = {i \in DOMAIN received : received[i] = "final"}
    BY DEF TranscriptKept, Result!IsTextOf
  <2> HIDE DEF n
  <2>6. CASE token = "final"
    <3>1. finalText' = Append(finalText, n + 1)
      BY <2>6 DEF HearToken, n
    <3>2. /\ Len(finalText) \in Nat /\ DOMAIN finalText = 1..Len(finalText)
          /\ DOMAIN finalText' = 1..(Len(finalText) + 1)
          /\ \A i \in 1..Len(finalText) : finalText'[i] = finalText[i]
          /\ finalText'[Len(finalText) + 1] = n + 1
      <4>1. /\ Len(Append(finalText, n + 1)) = Len(finalText) + 1
            /\ Append(finalText, n + 1) \in Seq(Nat)
            /\ \A i \in 1..Len(finalText) : Append(finalText, n + 1)[i] = finalText[i]
            /\ Append(finalText, n + 1)[Len(finalText) + 1] = n + 1
        BY <1>1, AppendProperties
      <4>. QED  BY <1>1, <3>1, <4>1, LenProperties
    <3>3. \A i \in DOMAIN finalText : finalText[i] \in 1..n
      BY <2>4, <2>5
    <3>4. ASSUME NEW i \in DOMAIN finalText', NEW j \in DOMAIN finalText', i < j
          PROVE  finalText'[i] < finalText'[j]
      <4>1. i \in 1..Len(finalText) /\ finalText'[i] = finalText[i]
        BY <3>2, <3>4
      <4>2. CASE j = Len(finalText) + 1
        <5>1. finalText[i] \in 1..n
          BY <3>2, <3>3, <4>1
        <5>. QED  BY <1>1, <3>2, <4>1, <4>2, <5>1
      <4>3. CASE j # Len(finalText) + 1
        <5>1. j \in 1..Len(finalText) /\ finalText'[j] = finalText[j]
          BY <3>2, <4>3
        <5>. QED  BY <2>5, <3>2, <3>4, <4>1, <5>1
      <4>. QED  BY <4>2, <4>3
    <3>5. ASSUME NEW k
          PROVE  k \in {finalText'[i] : i \in DOMAIN finalText'}
                   <=> k = n + 1 \/ k \in {finalText[i] : i \in DOMAIN finalText}
      BY <3>2
    <3>6. ASSUME NEW k
          PROVE  k \in {i \in DOMAIN received' : received'[i] = "final"}
                   <=> k = n + 1 \/ k \in {i \in DOMAIN received : received[i] = "final"}
      BY <1>1, <2>4, <2>6
    <3>7. {finalText'[i] : i \in DOMAIN finalText'}
            = {i \in DOMAIN received' : received'[i] = "final"}
      BY <2>5, <3>5, <3>6
    <3>8. Result!IsTextOf(finalText', received')
      BY <3>4, <3>7 DEF Result!IsTextOf
    <3>. QED  BY <2>3, <3>8
  <2>7. CASE token = "partial"
    <3>1. UNCHANGED finalText
      BY <2>7 DEF HearToken
    <3>2. {i \in DOMAIN received' : received'[i] = "final"}
            = {i \in DOMAIN received : received[i] = "final"}
      BY <1>1, <2>4, <2>7
    <3>3. Result!IsTextOf(finalText, received')
      BY <2>5, <3>2 DEF Result!IsTextOf
    <3>. QED  BY <2>3, <3>1, <3>3
  <2>. QED  BY <1>3, <2>6, <2>7 DEF Tokens
<1>. QED  BY <1>2, <1>3

(* Ending the wait of the unshown tokens loses none of them.               *)
LEMMA ShowKept ==
  ASSUME NEW s \in Seq(Nat), NEW u \in Seq(Nat), NEW n \in Nat,
         s \o u = FirstN(n)
  PROVE  (s \o u) \o <<>> = FirstN(n)
BY ConcatEmptySeq, ConcatProperties

(* No step loses, repeats or reorders a token.                             *)
LEMMA NextTranscriptKept ==
  ASSUME TypeOK, TranscriptKept, Next
  PROVE  TranscriptKept'
<1>. USE DEF transcript
<1>0. /\ shown \in Seq(Nat) /\ tokenUpdates \in Seq(Nat) /\ Len(received) \in Nat
  BY DEF TypeOK
<1>1. ASSUME UNCHANGED transcript
      PROVE  TranscriptKept'
  BY <1>1 DEF TranscriptKept, Result!IsTextOf
<1>2. ASSUME shown' = shown \o tokenUpdates, tokenUpdates' = <<>>,
             UNCHANGED <<finalText, received>>
      PROVE  TranscriptKept'
  <2>1. shown' \o tokenUpdates' = FirstN(Len(received))
    BY <1>0, <1>2, ShowKept DEF TranscriptKept
  <2>. QED  BY <1>2, <2>1 DEF TranscriptKept, Result!IsTextOf
<1>3. CASE SendAudioNow \/ QueueAudio \/ Finalize \/ Close \/ ProxyReady
  BY <1>1, <1>3 DEF SendAudioNow, QueueAudio, Finalize, Close, ProxyReady
<1>4. CASE Rejected \/ WatchdogFires \/ TimeoutFires
  BY <1>1, <1>4 DEF Rejected, WatchdogFires, TimeoutFires
<1>5. CASE ReconnectFires \/ ControlFires
  BY <1>1, <1>5 DEF ReconnectFires, ControlFires
<1>6. ASSUME NEW token \in Tokens, TokenMessage(token)
      PROVE  TranscriptKept'
  <2>1. HearToken(token) /\ tokenUpdates' = Unshown(token) /\ UNCHANGED shown
    BY <1>6 DEF TokenMessage
  <2>. QED  BY <2>1, HearKept DEF TranscriptKept
<1>7. ASSUME NEW token \in Tokens \cup {"none"}, FinishedMessage(token)
      PROVE  TranscriptKept'
  <2>1. HearToken(token) /\ shown' = shown \o Unshown(token) /\ tokenUpdates' = <<>>
    BY <1>7 DEF FinishedMessage, Complete
  <2>2. /\ shown \o Unshown(token) = FirstN(Len(received'))
        /\ Result!IsTextOf(finalText', received')
    BY <2>1, HearKept
  <2>3. Unshown(token) \in Seq(Nat) /\ received' \in Seq(Tokens)
    BY <2>1, HearTypes
  <2>4. Len(received') \in Nat
    BY <2>3, LenProperties
  <2>5. shown' \o tokenUpdates' = FirstN(Len(received'))
    BY <1>0, <2>1, <2>2, <2>3, <2>4, ShowKept
  <2>. QED  BY <2>2, <2>5 DEF TranscriptKept
<1>8. ASSUME NEW quota \in BOOLEAN, SocketClosed(quota)
      PROVE  TranscriptKept'
  <2>1. UNCHANGED <<finalText, received>>
    BY <1>8 DEF SocketClosed
  <2>2. CASE ~terminal /\ finished
    BY <1>2, <1>8, <2>1, <2>2 DEF SocketClosed, Complete
  <2>3. CASE terminal \/ ~finished
    BY <1>1, <1>8, <2>1, <2>3 DEF SocketClosed
  <2>. QED  BY <2>2, <2>3
<1>9. CASE QuietFires
  BY <1>2, <1>9 DEF QuietFires, Complete
<1>10. CASE TokenTimerFires \/ StrayTokenTimerFires
  BY <1>2, <1>10 DEF TokenTimerFires, StrayTokenTimerFires, FlushTokenUpdates
<1>. QED
  BY <1>3, <1>4, <1>5, <1>6, <1>7, <1>8, <1>9, <1>10 DEF Next

(* A session resolves once, with its whole text, and hears nothing after.  *)
LEMMA NextResolved ==
  ASSUME TypeOK, NeverStalls, Coupling, Resolved, Next
  PROVE  Resolved'
<1>. USE DEF transcript, phase
<1>1. ASSUME UNCHANGED <<terminal, outcome, finalText>>,
             UNCHANGED tokenUpdates \/ tokenUpdates' = <<>>
      PROVE  Resolved'
  BY <1>1 DEF Resolved
<1>2. ASSUME ~terminal, UNCHANGED outcome
      PROVE  Resolved'
  BY <1>2 DEF Resolved, Coupling, NoOutcome
<1>3. ASSUME outcome'.kind = "error"
      PROVE  Resolved'
  BY <1>3 DEF Resolved
<1>4. ASSUME terminal', tokenUpdates' = <<>>,
             outcome' = [kind |-> "complete", code |-> "none", text |-> finalText']
      PROVE  Resolved'
  BY <1>4 DEF Resolved
<1>5. CASE SendAudioNow \/ Finalize \/ Close \/ ProxyReady
  BY <1>2, <1>5 DEF SendAudioNow, Finalize, Close, ProxyReady
<1>6. CASE QueueAudio
  BY <1>2, <1>3, <1>6 DEF QueueAudio, Fail
<1>7. CASE Rejected \/ WatchdogFires \/ TimeoutFires
  BY <1>3, <1>7 DEF Rejected, WatchdogFires, TimeoutFires, Fail
<1>8. CASE ReconnectFires \/ ControlFires
  BY <1>1, <1>8 DEF ReconnectFires, ControlFires
<1>9. ASSUME NEW token \in Tokens, TokenMessage(token)
      PROVE  Resolved'
  BY <1>2, <1>9 DEF TokenMessage
<1>10. ASSUME NEW token \in Tokens \cup {"none"}, FinishedMessage(token)
       PROVE  Resolved'
  BY <1>2, <1>4, <1>10 DEF FinishedMessage, Complete
<1>11. ASSUME NEW quota \in BOOLEAN, SocketClosed(quota)
       PROVE  Resolved'
  <2>1. UNCHANGED finalText
    BY <1>11 DEF SocketClosed
  <2>2. CASE terminal
    BY <1>1, <1>11, <2>1, <2>2 DEF SocketClosed
  <2>3. CASE ~terminal /\ finished
    BY <1>4, <1>11, <2>1, <2>3 DEF SocketClosed, Complete
  <2>4. CASE ~terminal /\ ~finished
    BY <1>2, <1>3, <1>11, <2>4 DEF SocketClosed, Fail
  <2>. QED  BY <2>2, <2>3, <2>4
<1>12. CASE QuietFires
  BY <1>4, <1>12 DEF QuietFires, Complete
<1>13. CASE TokenTimerFires \/ StrayTokenTimerFires
  BY <1>1, <1>13 DEF TokenTimerFires, StrayTokenTimerFires, FlushTokenUpdates
<1>. QED
  BY <1>5, <1>6, <1>7, <1>8, <1>9, <1>10, <1>11, <1>12, <1>13 DEF Next

---------------------------------------------------------------------------
(* The invariant, and what follows from it.                                *)

(* The freshly opened session satisfies the inductive invariant.           *)
LEMMA InitIInv == Init => IInv
<1> SUFFICES ASSUME Init  PROVE IInv
  OBVIOUS
<1>1. TypeOK
  BY InitTypeOK
<1>2. FirstN(0) = <<>>
  <2>1. FirstN(0) \in Seq(Nat) /\ Len(FirstN(0)) = 0
    BY FirstNType
  <2>. QED  BY <2>1, EmptySeq
<1>3. <<>> \in Seq(Nat) /\ <<>> \o <<>> = <<>> /\ Len(<<>>) = 0
  BY EmptySeq, ConcatEmptySeq
<1>4. AudioInOrder
  <2>1. sentAudio \o pendingFrames = FirstN(accepted)
    BY <1>2, <1>3 DEF Init
  <2>2. pendingBytes = FrameBytes * Len(pendingFrames) /\ pendingBytes <= BufferBytes
    BY <1>3, ConstantsAssumption DEF Init
  <2>. QED  BY <2>1, <2>2 DEF AudioInOrder
<1>5. ClosingHandshake
  BY DEF Init, ClosingHandshake
<1>6. NeverStalls /\ Coupling
  BY DEF Init, NeverStalls, Coupling
<1>7. TranscriptKept
  <2>1. shown \o tokenUpdates = FirstN(Len(received))
    BY <1>2, <1>3 DEF Init
  <2>2. Result!IsTextOf(finalText, received)
    BY DEF Init, Result!IsTextOf
  <2>. QED  BY <2>1, <2>2 DEF TranscriptKept
<1>8. Resolved
  BY DEF Init, Resolved, NoOutcome
<1>. QED  BY <1>1, <1>4, <1>5, <1>6, <1>7, <1>8 DEF IInv

(* Every step, and every stutter, keeps the inductive invariant.           *)
LEMMA NextIInv == IInv /\ [Next]_vars => IInv'
<1> SUFFICES ASSUME IInv, [Next]_vars  PROVE IInv'
  OBVIOUS
<1>1. CASE Next
  <2>1. TypeOK' /\ AudioInOrder'
    BY <1>1, NextTypeOK, NextAudioInOrder DEF IInv
  <2>2. ClosingHandshake' /\ NeverStalls' /\ Coupling'
    BY <1>1, NextClosingHandshake, NextNeverStalls, NextCoupling DEF IInv
  <2>3. TranscriptKept' /\ Resolved'
    BY <1>1, NextTranscriptKept, NextResolved DEF IInv
  <2>. QED  BY <2>1, <2>2, <2>3 DEF IInv
<1>2. CASE UNCHANGED vars
  <2> USE DEF vars, link, phase, audio, transcript, clock
  <2>1. TypeOK' /\ NeverStalls'
    BY <1>2 DEF IInv, TypeOK, NeverStalls
  <2>2. AudioInOrder'
    BY <1>2 DEF IInv, AudioInOrder
  <2>3. ClosingHandshake'
    BY <1>2 DEF IInv, ClosingHandshake
  <2>4. Coupling' /\ Resolved'
    BY <1>2 DEF IInv, Coupling, Resolved
  <2>5. TranscriptKept'
    BY <1>2 DEF IInv, TranscriptKept, Result!IsTextOf
  <2>. QED  BY <2>1, <2>2, <2>3, <2>4, <2>5 DEF IInv
<1>. QED  BY <1>1, <1>2

(* The inductive invariant holds in every state of a session.              *)
THEOREM SessionInvariant == Spec => []IInv
BY InitIInv, NextIInv, PTL DEF Spec

(* Every variable of a session keeps its type.                             *)
THEOREM TypeCorrect == Spec => []TypeOK
<1>1. IInv => TypeOK
  BY DEF IInv
<1>. QED  BY <1>1, SessionInvariant, PTL

(* Whatever the network does, no accepted frame is lost before the socket, *)
(* repeated or reordered, and the buffer's byte count stays its size: for  *)
(* every frame size, buffer size and number of reconnects.                 *)
THEOREM FramesInOrder == Spec => []AudioInOrder
<1>1. IInv => AudioInOrder
  BY DEF IInv
<1>. QED  BY <1>1, SessionInvariant, PTL

(* On each socket audio, one finalize and one end frame go out in order.   *)
THEOREM HandshakeInOrder == Spec => []ClosingHandshake
<1>1. IInv => ClosingHandshake
  BY DEF IInv
<1>. QED  BY <1>1, SessionInvariant, PTL

(* A session that has not ended has a timer armed for what it waits for.   *)
THEOREM LiveSessionNeverStalls == Spec => []NeverStalls
<1>1. IInv => NeverStalls
  BY DEF IInv
<1>. QED  BY <1>1, SessionInvariant, PTL

(* The invariant says of a resolved session that it showed everything.     *)
LEMMA ResolvedShown ==
  ASSUME IInv, tokenUpdates = <<>>
  PROVE  shown = FirstN(Len(received))
<1>1. shown \in Seq(Nat) /\ shown \o tokenUpdates = FirstN(Len(received))
  BY DEF IInv, TypeOK, TranscriptKept
<1>. QED  BY <1>1, ConcatEmptySeq

(* A session resolves with the whole transcript: every token it was sent   *)
(* has been shown in order, and the text is that of the final ones.        *)
THEOREM WholeTranscript == Spec => []ResolvesWithWholeTranscript
<1>1. IInv => ResolvesWithWholeTranscript
  <2> SUFFICES ASSUME IInv  PROVE ResolvesWithWholeTranscript
    OBVIOUS
  <2>1. SUFFICES ASSUME outcome.kind = "complete"
                 PROVE  /\ shown = FirstN(Len(received)) /\ tokenUpdates = <<>>
                        /\ Result!IsTextOf(outcome.text, received)
    BY DEF ResolvesWithWholeTranscript
  <2>2. tokenUpdates = <<>> /\ outcome.text = finalText
    BY <2>1 DEF IInv, Resolved
  <2>3. Result!IsTextOf(finalText, received)
    BY DEF IInv, TranscriptKept
  <2>. QED  BY <2>2, <2>3, ResolvedShown
<1>. QED  BY <1>1, SessionInvariant, PTL

---------------------------------------------------------------------------
(* The session implements TranscriptResult.                                *)

(* How the invariant reads through the refinement mapping.                 *)
Mapped ==
  /\ Told = "pending" <=> ~terminal
  /\ Told = "resolved" <=> outcome.kind = "complete"
  /\ Told \in {"pending", "resolved", "rejected", "abandoned"}
  /\ shown = FirstN(Len(shown)) /\ Len(shown) \in Nat
  /\ Len(received) \in Nat /\ Len(shown) <= Len(received)
  /\ outcome.kind = "complete" =>
       shown = FirstN(Len(received)) /\ Result!IsTextOf(outcome.text, received)

(* A session in its invariant has shown the beginning of what it heard,    *)
(* and all of it once it has resolved.                                     *)
LEMMA InvariantMapped == IInv => Mapped
<1> SUFFICES ASSUME IInv  PROVE Mapped
  OBVIOUS
<1>1. /\ Told = "pending" <=> ~terminal
      /\ Told = "resolved" <=> outcome.kind = "complete"
      /\ Told \in {"pending", "resolved", "rejected", "abandoned"}
  <2>1. outcome.kind \in {"none", "complete", "error"} /\ terminal \in BOOLEAN
    BY DEF IInv, TypeOK, Outcomes
  <2>2. ~terminal => outcome.kind = "none"
    BY DEF IInv, Coupling, NoOutcome
  <2>3. outcome.kind = "complete" => terminal
    BY DEF IInv, Resolved
  <2>. QED  BY <2>1, <2>2, <2>3 DEF Told
<1>2. /\ shown = FirstN(Len(shown)) /\ Len(shown) \in Nat
      /\ Len(received) \in Nat /\ Len(shown) <= Len(received)
  <2>1. /\ shown \in Seq(Nat) /\ tokenUpdates \in Seq(Nat)
        /\ received \in Seq(Tokens)
        /\ shown \o tokenUpdates = FirstN(Len(received))
    BY DEF IInv, TypeOK, TranscriptKept
  <2>2. Len(received) \in Nat /\ Len(shown) \in Nat /\ Len(tokenUpdates) \in Nat
    BY <2>1, LenProperties
  <2>3. shown = FirstN(Len(shown)) /\ Len(shown) + Len(tokenUpdates) = Len(received)
    BY <2>1, <2>2, PrefixOfFirstN
  <2>. QED  BY <2>2, <2>3
<1>3. ASSUME outcome.kind = "complete"
      PROVE  shown = FirstN(Len(received)) /\ Result!IsTextOf(outcome.text, received)
  <2>1. tokenUpdates = <<>> /\ outcome.text = finalText
    BY <1>3 DEF IInv, Resolved
  <2>. QED  BY <2>1, ResolvedShown DEF IInv, TranscriptKept
<1>. QED  BY <1>1, <1>2, <1>3 DEF Mapped

(* A fresh session has promised nothing yet.                               *)
LEMMA InitResult == Init => Result!Init
<1> SUFFICES ASSUME Init  PROVE Result!Init
  OBVIOUS
<1>1. Told = "pending"
  BY DEF Init, Told, NoOutcome
<1>. QED  BY <1>1 DEF Init, Result!Init, NoOutcome

(* Every step of a session is a step of the promise, or invisible to it.   *)
LEMMA NextResult ==
  ASSUME IInv, Mapped, Next, Mapped'
  PROVE  [Result!Next]_(Result!vars)
<1>. USE DEF transcript, phase
<1>a. Told = "pending" <=> ~terminal
  BY DEF Mapped
<1>c. ASSUME shown' = shown \/ \E u \in Seq(Nat) : shown' = shown \o u
      PROVE  Result!Show
  <2>1. /\ shown' = FirstN(Len(shown')) /\ Len(shown') \in Nat
        /\ Len(received') \in Nat /\ Len(shown') <= Len(received')
    BY DEF Mapped
  <2>2. Len(shown) \in Nat /\ Len(shown) <= Len(shown')
    <3>1. shown \in Seq(Nat)
      BY DEF IInv, TypeOK
    <3>. QED  BY <1>c, <3>1, ConcatProperties, LenProperties
  <2>3. Len(shown') \in Len(shown)..Len(received')
    BY <2>1, <2>2
  <2>. QED  BY <2>1, <2>3 DEF Result!Show, Result!Numbers, FirstN
<1>1. ASSUME UNCHANGED <<received, shown, outcome, terminal>>
      PROVE  [Result!Next]_(Result!vars)
  BY <1>1 DEF Result!vars, Told
<1>2. ASSUME ~terminal, UNCHANGED <<outcome, terminal>>, Result!Hear,
             shown' = shown \/ \E u \in Seq(Nat) : shown' = shown \o u
      PROVE  [Result!Next]_(Result!vars)
  <2>1. UNCHANGED <<Told, outcome.text>>
    BY <1>2 DEF Told
  <2>. QED  BY <1>c, <1>2, <2>1 DEF Result!Next, Result!Listen
<1>3. ASSUME ~terminal, UNCHANGED <<received, shown>>,
             Told' \in {"rejected", "abandoned"}, outcome'.text = <<>>
      PROVE  [Result!Next]_(Result!vars)
  <2>1. Told = "pending" /\ outcome.text = <<>>
    BY <1>a, <1>3 DEF IInv, Coupling, NoOutcome
  <2>. QED  BY <1>3, <2>1 DEF Result!Next, Result!GiveUp
<1>4. ASSUME ~terminal, Result!Hear, outcome'.kind = "complete"
      PROVE  [Result!Next]_(Result!vars)
  <2>1. Told' = "resolved" /\ Told = "pending"
    BY <1>4 DEF Mapped
  <2>2. shown' = FirstN(Len(received')) /\ Result!IsTextOf(outcome'.text, received')
    BY <1>4 DEF Mapped
  <2>. QED  BY <1>4, <2>1, <2>2
            DEF Result!Next, Result!Resolve, Result!Numbers, FirstN
<1>5. ASSUME ~terminal, UNCHANGED received
      PROVE  Result!Hear
  BY <1>a, <1>5 DEF Result!Hear
<1>6. ASSUME NEW token \in Tokens \cup {"none"}, HearToken(token), ~terminal
      PROVE  Result!Hear
  BY <1>a, <1>6 DEF Result!Hear, HearToken, Tokens
<1>7. ASSUME NEW code, Fail(code), ~terminal, UNCHANGED <<received, shown>>
      PROVE  [Result!Next]_(Result!vars)
  <2>1. Told' = "rejected" /\ outcome'.text = <<>>
    BY <1>7 DEF Fail, Told
  <2>. QED  BY <1>3, <1>7, <2>1
<1>8. ASSUME NEW text, NEW updates, Complete(text, updates), ~terminal, Result!Hear
      PROVE  [Result!Next]_(Result!vars)
  BY <1>4, <1>8 DEF Complete
<1>9. CASE SendAudioNow \/ Finalize \/ ProxyReady
  BY <1>1, <1>9 DEF SendAudioNow, Finalize, ProxyReady
<1>10. CASE ReconnectFires \/ ControlFires
  BY <1>1, <1>10 DEF ReconnectFires, ControlFires
<1>11. CASE QueueAudio
  BY <1>1, <1>7, <1>11 DEF QueueAudio
<1>12. CASE Close
  <2>1. ~terminal /\ terminal' /\ UNCHANGED <<received, shown, outcome>>
    BY <1>12 DEF Close
  <2>2. outcome = NoOutcome
    BY <2>1 DEF IInv, Coupling
  <2>3. Told' = "abandoned" /\ outcome'.text = <<>>
    BY <2>1, <2>2 DEF Told, NoOutcome
  <2>. QED  BY <1>3, <2>1, <2>3
<1>13. CASE Rejected
  BY <1>7, <1>13 DEF Rejected
<1>14. CASE WatchdogFires \/ TimeoutFires
  <2>1. ~terminal
    BY <1>14, FiringIsLive DEF WatchdogFires, TimeoutFires, IInv
  <2>. QED  BY <1>7, <1>14, <2>1 DEF WatchdogFires, TimeoutFires
<1>15. ASSUME NEW token \in Tokens, TokenMessage(token)
       PROVE  [Result!Next]_(Result!vars)
  <2>1. ~terminal /\ HearToken(token) /\ UNCHANGED <<shown, outcome, terminal>>
    BY <1>15 DEF TokenMessage
  <2>. QED  BY <1>2, <1>6, <2>1
<1>16. ASSUME NEW token \in Tokens \cup {"none"}, FinishedMessage(token)
       PROVE  [Result!Next]_(Result!vars)
  <2>1. ~terminal /\ HearToken(token)
    BY <1>16 DEF FinishedMessage
  <2>2. Result!Hear
    BY <1>6, <2>1
  <2>3. CASE finalizing
    <3>1. shown' = shown \o Unshown(token) /\ UNCHANGED <<outcome, terminal>>
      BY <1>16, <2>3 DEF FinishedMessage
    <3>2. Unshown(token) \in Seq(Nat)
      BY <2>1, HearTypes DEF IInv
    <3>. QED  BY <1>2, <2>1, <2>2, <3>1, <3>2
  <2>4. CASE ~finalizing
    BY <1>8, <1>16, <2>1, <2>2, <2>4 DEF FinishedMessage
  <2>. QED  BY <2>3, <2>4
<1>17. ASSUME NEW quota \in BOOLEAN, SocketClosed(quota)
       PROVE  [Result!Next]_(Result!vars)
  <2>1. UNCHANGED received
    BY <1>17 DEF SocketClosed
  <2>2. CASE terminal
    BY <1>1, <1>17, <2>1, <2>2 DEF SocketClosed
  <2>3. CASE ~terminal /\ finished
    BY <1>5, <1>8, <1>17, <2>1, <2>3 DEF SocketClosed
  <2>4. CASE ~terminal /\ ~finished
    BY <1>1, <1>7, <1>17, <2>1, <2>4 DEF SocketClosed
  <2>. QED  BY <2>2, <2>3, <2>4
<1>18. CASE QuietFires
  <2>1. ~terminal
    BY <1>18, FiringIsLive DEF QuietFires, IInv
  <2>2. Complete(finalText, tokenUpdates) /\ UNCHANGED received
    BY <1>18 DEF QuietFires
  <2>. QED  BY <1>5, <1>8, <2>1, <2>2
<1>19. CASE TokenTimerFires \/ StrayTokenTimerFires
  <2>1. /\ shown' = shown \o tokenUpdates /\ tokenUpdates \in Seq(Nat)
        /\ shown \in Seq(Nat)
        /\ UNCHANGED <<received, outcome, terminal>>
    BY <1>19 DEF TokenTimerFires, StrayTokenTimerFires, FlushTokenUpdates, IInv, TypeOK
  <2>2. CASE ~terminal
    BY <1>2, <1>5, <2>1, <2>2
  <2>3. CASE terminal /\ Told = "resolved"
    <3>1. tokenUpdates = <<>>
      BY <2>3 DEF IInv, Resolved, Mapped
    <3>2. UNCHANGED shown
      BY <2>1, <3>1, ConcatEmptySeq
    <3>. QED  BY <1>1, <2>1, <3>2
  <2>4. CASE terminal /\ Told # "resolved"
    <3>1. Told \in {"rejected", "abandoned"}
      BY <2>4 DEF Mapped
    <3>2. UNCHANGED <<Told, outcome.text>>
      BY <2>1 DEF Told
    <3>. QED  BY <1>c, <2>1, <3>1, <3>2 DEF Result!Next, Result!ShowLate
  <2>. QED  BY <2>2, <2>3, <2>4
<1>. QED
  BY <1>9, <1>10, <1>11, <1>12, <1>13, <1>14, <1>15, <1>16, <1>17, <1>18,
     <1>19 DEF Next

(* The session keeps the promise of TranscriptResult to its recorder: it   *)
(* settles once and for good, shows every token once and in order, and     *)
(* after onComplete no forgotten timer shows another.                      *)
THEOREM SessionKeepsPromise == Spec => ImplementsResult
<1>1. IInv /\ Mapped /\ [Next]_vars /\ Mapped' => [Result!Next]_(Result!vars)
  <2>1. CASE Next
    BY <2>1, NextResult
  <2>2. CASE UNCHANGED vars
    BY <2>2 DEF vars, transcript, phase, Result!vars, Told
  <2>. QED  BY <2>1, <2>2
<1>. QED  BY <1>1, InitResult, InvariantMapped, SessionInvariant, PTL
          DEF Spec, ImplementsResult, Result!Spec

=============================================================================
