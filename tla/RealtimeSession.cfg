\* One live session: every interleaving of recorder calls, socket events and
\* timers, with a buffer that three frames overflow, and its liveness under the
\* fairness of its timers.
SPECIFICATION FairSpec
CONSTANTS
  FrameBytes = 2
  BufferBytes = 5
  MaxReconnects = 2
  MaxFrames = 3
  MaxTokens = 3
INVARIANTS
  TypeOK
  AudioInOrder
  ClosingHandshake
  NeverStalls
  ResolvesWithWholeTranscript
PROPERTIES ImplementsResult FinalizeSettles
CHECK_DEADLOCK FALSE
