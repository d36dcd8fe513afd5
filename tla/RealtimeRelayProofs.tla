------------------------ MODULE RealtimeRelayProofs ------------------------
(***************************************************************************)
(* Proofs about RealtimeRelay for any finite set of upgrades, any sessions *)
(* they carry, any buffer limit and any number of frames.                  *)
(***************************************************************************)
EXTENDS RealtimeRelay, SequenceTheorems, FiniteSetTheorems, TLAPS

---------------------------------------------------------------------------
(* Numbered frames.                                                        *)

(* The n first numbers form a sequence of length n.                        *)
LEMMA FirstNType ==
  ASSUME NEW n \in Nat
  PROVE  FirstN(n) \in Seq(Nat) /\ Len(FirstN(n)) = n
BY DEF FirstN

(* Taking the next number extends the enumeration by one.                  *)
LEMMA AppendFirstN ==
  ASSUME NEW n \in Nat
  PROVE  Append(FirstN(n), n + 1) = FirstN(n + 1)
<1>1. Append(FirstN(n), n + 1) \in Seq(Nat) /\ FirstN(n + 1) \in Seq(Nat)
  BY FirstNType
<1>2. Len(Append(FirstN(n), n + 1)) = n + 1 /\ Len(FirstN(n + 1)) = n + 1
  BY FirstNType
<1>3. \A i \in 1..(n + 1) : Append(FirstN(n), n + 1)[i] = FirstN(n + 1)[i]
  BY FirstNType DEF FirstN
<1>. QED  BY <1>1, <1>2, <1>3, SeqEqual

(* One more frame at the end of the waiting ones is one more at the end of *)
(* all.                                                                    *)
LEMMA AppendToSecond ==
  ASSUME NEW s \in Seq(Nat), NEW t \in Seq(Nat), NEW e \in Nat
  PROVE  s \o Append(t, e) = Append(s \o t, e)
OBVIOUS

LEMMA ConcatEmptyFrames ==
  ASSUME NEW s \in Seq(Nat)
  PROVE  s \o <<>> = s /\ <<>> \o s = s
BY ConcatEmptySeq

---------------------------------------------------------------------------
(* The inductive invariant.  SlotHeldByOne and SocketsCounted speak of     *)
(* connections that are not cleaned up; that a handler which cleans up is  *)
(* one of a connection that got through, and that an open client has not   *)
(* been cleaned up, has to be known of each connection.                    *)

Holds(r) == HoldsSlot(r) \/ HoldsReservation(r)

(* The two sets hold the sessions in use, and each has one user.           *)
Slots ==
  /\ \A r, q \in Upgrades : r # q /\ SessionOf[r] = SessionOf[q] /\ Holds(r) => ~Holds(q)
  /\ \A s \in Sessions :
       s \in activeSessions <=> \E r \in Upgrades : SessionOf[r] = s /\ HoldsSlot(r)
  /\ \A s \in Sessions :
       s \in reservedSessions <=> \E r \in Upgrades : SessionOf[r] = s /\ HoldsReservation(r)

CountedOnes == {r \in Upgrades : counted[r] /\ ~cleaned[r]}
SocketCount == activeSockets = Cardinality(CountedOnes)

(* Where a connection stands in its life.                                  *)
Connection(r) ==
  /\ ~Connected(r) => downstream[r] = "none" /\ upstream[r] = "none"
  /\ ~Connected(r) => ~cleaned[r] /\ received[r] = 0
  /\ ~Connected(r) => pendingFrames[r] = <<>> /\ relayed[r] = <<>>
  /\ Connected(r) => downstream[r] \in {"open", "closing", "closed"}
  /\ stage[r] \in {"usage", "config"} => upstream[r] = "none"
  /\ counted[r] <=> upstream[r] # "none"
  /\ downstream[r] = "open" => ~cleaned[r]

(* Its frames: none waits for an open socket, none goes astray.            *)
Frames(r) ==
  /\ upstream[r] = "open" => pendingFrames[r] = <<>>
  /\ Len(pendingFrames[r]) <= pendingBytes[r]
  /\ Len(pendingFrames[r]) <= BufferLimit
  /\ downstream[r] = "open" => relayed[r] \o pendingFrames[r] = FirstN(received[r])

IInv ==
  /\ TypeOK /\ Slots /\ SocketCount
  /\ \A r \in Upgrades : Connection(r) /\ Frames(r)

LEMMA InitIInv == Init => IInv
<1> SUFFICES ASSUME Init  PROVE IInv
  OBVIOUS
<1>1. TypeOK
  <2>1. <<>> \in Seq(Nat)
    BY EmptySeq
  <2>. QED  BY <2>1 DEF Init, TypeOK, Stages, ReadyStates
<1>2. Slots
  BY DEF Init, Slots, Holds, HoldsSlot, HoldsReservation, Connected
<1>3. SocketCount
  <2>1. CountedOnes = {}
    BY DEF Init, CountedOnes
  <2>. QED  BY <2>1, FS_EmptySet DEF SocketCount, Init
<1>4. ASSUME NEW r \in Upgrades  PROVE Connection(r)
  BY DEF Init, Connection, Connected
<1>5. ASSUME NEW r \in Upgrades  PROVE Frames(r)
  <2>1. FirstN(0) = <<>>
    BY DEF FirstN
  <2>2. <<>> \o <<>> = <<>>
    OBVIOUS
  <2>. QED  BY <2>1, <2>2, RelayAssumption DEF Init, Frames
<1>. QED  BY <1>1, <1>2, <1>3, <1>4, <1>5 DEF IInv

---------------------------------------------------------------------------
(* What cleanup() does to the slots and to the count.                      *)

(* Released by the one upgrade that holds it, a slot is free.              *)
LEMMA CleanupSlots ==
  ASSUME IInv, NEW r \in Upgrades, Connected(r), Cleanup(r),
         \A q \in Upgrades : Connected(q)' <=> Connected(q),
         \A q \in Upgrades : HoldsReservation(q)' <=> HoldsReservation(q)
  PROVE  Slots'
<1>. USE RelayAssumption
<1>1. cleaned \in [Upgrades -> BOOLEAN] /\ cleaned' \in [Upgrades -> BOOLEAN]
  BY DEF IInv, TypeOK, Cleanup, slots
<1>2. \A q \in Upgrades : HoldsSlot(q)' <=> HoldsSlot(q) /\ q # r
  BY <1>1 DEF IInv, TypeOK, Cleanup, slots, HoldsSlot
<1>3. CASE cleaned[r]
  BY <1>1, <1>2, <1>3 DEF IInv, Slots, Holds, Cleanup, slots, HoldsSlot
<1>4. CASE ~cleaned[r]
  <2>1. HoldsSlot(r) /\ SessionOf[r] \in Sessions
    BY <1>4 DEF HoldsSlot
  <2>2. \A q \in Upgrades : q # r /\ SessionOf[q] = SessionOf[r] => ~Holds(q)
    BY <2>1 DEF IInv, Slots, Holds
  <2>3. ~HoldsReservation(r)
    BY DEF HoldsReservation, Connected
  <2>4. activeSessions' = activeSessions \ {SessionOf[r]}
        /\ reservedSessions' = reservedSessions \ {SessionOf[r]}
    BY <1>4 DEF Cleanup
  <2>5. \A s \in Sessions :
          s \in activeSessions' <=> \E q \in Upgrades : SessionOf[q] = s /\ HoldsSlot(q)'
    BY <1>2, <2>2, <2>4 DEF IInv, Slots, Holds
  <2>6. \A s \in Sessions :
          s \in reservedSessions' <=> \E q \in Upgrades : SessionOf[q] = s /\ HoldsReservation(q)'
    BY <2>2, <2>3, <2>4 DEF IInv, Slots, Holds
  <2>7. \A p, q \in Upgrades :
          p # q /\ SessionOf[p] = SessionOf[q] /\ Holds(p)' => ~Holds(q)'
    BY <1>2 DEF IInv, Slots, Holds
  <2>. QED  BY <2>5, <2>6, <2>7 DEF Slots
<1>. QED  BY <1>3, <1>4

LEMMA CleanupCount ==
  ASSUME IInv, NEW r \in Upgrades, Cleanup(r), UNCHANGED counted
  PROVE  SocketCount' /\ activeSockets' \in Nat
<1>. USE RelayAssumption
<1>1. IsFiniteSet(CountedOnes)
  BY FS_Subset DEF CountedOnes
<1>2. Cardinality(CountedOnes) \in Nat /\ activeSockets = Cardinality(CountedOnes)
  BY <1>1, FS_CardinalityType DEF IInv, SocketCount
<1>3. CASE cleaned[r]
  BY <1>2, <1>3 DEF IInv, Cleanup, slots, SocketCount, CountedOnes
<1>4. CASE ~cleaned[r] /\ ~counted[r]
  <2>1. CountedOnes' = CountedOnes
    BY <1>4 DEF CountedOnes, Cleanup, IInv, TypeOK
  <2>. QED  BY <1>2, <1>4, <2>1 DEF Cleanup, SocketCount
<1>5. CASE ~cleaned[r] /\ counted[r]
  <2>1. CountedOnes' = CountedOnes \ {r} /\ r \in CountedOnes
    BY <1>5 DEF CountedOnes, Cleanup, IInv, TypeOK
  <2>2. Cardinality(CountedOnes') = Cardinality(CountedOnes) - 1
    BY <1>1, <2>1, FS_RemoveElement
  <2>3. Cardinality(CountedOnes') \in Nat
    BY <1>1, <2>1, FS_Subset, FS_CardinalityType
  <2>4. activeSockets' = activeSockets - 1
    BY <1>5 DEF Cleanup
  <2>. QED  BY <1>2, <2>2, <2>3, <2>4 DEF SocketCount
<1>. QED  BY <1>3, <1>4, <1>5

(* A step that changes neither keeps them.                                 *)
LEMMA SlotsKept ==
  ASSUME IInv, UNCHANGED <<activeSessions, reservedSessions>>,
         \A q \in Upgrades : HoldsSlot(q)' <=> HoldsSlot(q),
         \A q \in Upgrades : HoldsReservation(q)' <=> HoldsReservation(q)
  PROVE  Slots'
BY DEF IInv, Slots, Holds

LEMMA CountKept ==
  ASSUME IInv, UNCHANGED <<activeSockets, counted, cleaned>>
  PROVE  SocketCount'
BY DEF IInv, SocketCount, CountedOnes

---------------------------------------------------------------------------
(* The upgrade request.                                                    *)

LEMMA RefusePreserves ==
  ASSUME IInv, NEW r \in Upgrades, Refuse(r)
  PROVE  IInv'
<1>1. TypeOK'
  BY DEF IInv, TypeOK, Refuse, Stages, slots, sockets, frames
<1>2. Slots'
  BY SlotsKept DEF IInv, TypeOK, Refuse, slots, HoldsSlot, HoldsReservation, Connected
<1>3. SocketCount'
  BY CountKept DEF Refuse, slots
<1>4. \A q \in Upgrades : Connection(q)'
  BY DEF IInv, TypeOK, Refuse, Connection, Connected, slots, sockets, frames
<1>5. \A q \in Upgrades : Frames(q)'
  BY DEF IInv, Refuse, Frames, sockets, frames
<1>. QED  BY <1>1, <1>2, <1>3, <1>4, <1>5 DEF IInv

LEMMA ReservePreserves ==
  ASSUME IInv, NEW r \in Upgrades, Reserve(r)
  PROVE  IInv'
<1>. USE RelayAssumption
<1>1. TypeOK'
  BY DEF IInv, TypeOK, Reserve, Stages, sockets, frames
<1>2. Slots'
  <2>1. \A q \in Upgrades : HoldsSlot(q)' <=> HoldsSlot(q)
    BY DEF IInv, TypeOK, Reserve, HoldsSlot, Connected
  <2>2. \A q \in Upgrades : HoldsReservation(q)' <=> HoldsReservation(q) \/ q = r
    BY DEF IInv, TypeOK, Reserve, HoldsReservation
  <2>3. \A q \in Upgrades : SessionOf[q] = SessionOf[r] => ~Holds(q)
    BY DEF IInv, Slots, Holds, Reserve, Taken
  <2>4. \A p, q \in Upgrades :
          p # q /\ SessionOf[p] = SessionOf[q] /\ Holds(p)' => ~Holds(q)'
    BY <2>1, <2>2, <2>3 DEF IInv, Slots, Holds
  <2>5. \A s \in Sessions :
          s \in activeSessions' <=> \E q \in Upgrades : SessionOf[q] = s /\ HoldsSlot(q)'
    BY <2>1 DEF IInv, Slots, Reserve
  <2>6. \A s \in Sessions :
          s \in reservedSessions' <=> \E q \in Upgrades : SessionOf[q] = s /\ HoldsReservation(q)'
    BY <2>2 DEF IInv, Slots, Reserve
  <2>. QED  BY <2>4, <2>5, <2>6 DEF Slots
<1>3. SocketCount'
  BY CountKept DEF Reserve
<1>4. \A q \in Upgrades : Connection(q)'
  BY DEF IInv, TypeOK, Reserve, Connection, Connected, sockets, frames
<1>5. \A q \in Upgrades : Frames(q)'
  BY DEF IInv, Reserve, Frames, sockets, frames
<1>. QED  BY <1>1, <1>2, <1>3, <1>4, <1>5 DEF IInv

LEMMA LoseUpgradePreserves ==
  ASSUME IInv, NEW r \in Upgrades, LoseUpgrade(r)
  PROVE  IInv'
<1>1. TypeOK'
  BY DEF IInv, TypeOK, LoseUpgrade, Stages, slots, sockets, frames
<1>2. Slots'
  BY SlotsKept DEF IInv, TypeOK, LoseUpgrade, slots, HoldsSlot, HoldsReservation, Connected
<1>3. SocketCount'
  BY CountKept DEF LoseUpgrade, slots
<1>4. \A q \in Upgrades : Connection(q)'
  BY DEF IInv, TypeOK, LoseUpgrade, Connection, Connected, slots, sockets, frames
<1>5. \A q \in Upgrades : Frames(q)'
  BY DEF IInv, LoseUpgrade, Frames, sockets, frames
<1>. QED  BY <1>1, <1>2, <1>3, <1>4, <1>5 DEF IInv

LEMMA ConnectPreserves ==
  ASSUME IInv, NEW r \in Upgrades, Connect(r)
  PROVE  IInv'
<1>. USE RelayAssumption
<1>1. TypeOK'
  BY DEF IInv, TypeOK, Connect, Stages, ReadyStates, frames
<1>2. Slots'
  <2>1. ~cleaned[r] /\ HoldsReservation(r) /\ ~HoldsSlot(r)
    BY DEF IInv, Connect, Connection, Connected, HoldsReservation, HoldsSlot
  <2>2. \A q \in Upgrades : HoldsSlot(q)' <=> HoldsSlot(q) \/ q = r
    BY <2>1 DEF IInv, TypeOK, Connect, HoldsSlot, Connected
  <2>3. \A q \in Upgrades : HoldsReservation(q)' <=> HoldsReservation(q) /\ q # r
    BY DEF IInv, TypeOK, Connect, HoldsReservation
  <2>4. \A q \in Upgrades : q # r /\ SessionOf[q] = SessionOf[r] => ~Holds(q)
    BY <2>1 DEF IInv, Slots, Holds
  <2>5. \A p, q \in Upgrades :
          p # q /\ SessionOf[p] = SessionOf[q] /\ Holds(p)' => ~Holds(q)'
    BY <2>1, <2>2, <2>3, <2>4 DEF IInv, Slots, Holds
  <2>6. \A s \in Sessions :
          s \in activeSessions' <=> \E q \in Upgrades : SessionOf[q] = s /\ HoldsSlot(q)'
    BY <2>2 DEF IInv, Slots, Connect
  <2>7. \A s \in Sessions :
          s \in reservedSessions' <=> \E q \in Upgrades : SessionOf[q] = s /\ HoldsReservation(q)'
    BY <2>3, <2>4 DEF IInv, Slots, Connect, Holds
  <2>. QED  BY <2>5, <2>6, <2>7 DEF Slots
<1>3. SocketCount'
  BY CountKept DEF Connect
<1>4. \A q \in Upgrades : Connection(q)'
  BY DEF IInv, TypeOK, Connect, Connection, Connected, frames
<1>5. \A q \in Upgrades : Frames(q)'
  <2>1. relayed[r] \o pendingFrames[r] = FirstN(received[r])
    <3>1. FirstN(0) = <<>> /\ <<>> \o <<>> = <<>>
      BY DEF FirstN
    <3>. QED  BY <3>1 DEF IInv, Connect, Connection, Connected
  <2>. QED  BY <2>1 DEF IInv, TypeOK, Connect, Frames, frames
<1>. QED  BY <1>1, <1>2, <1>3, <1>4, <1>5 DEF IInv

---------------------------------------------------------------------------
(* The usage and feature checks.                                           *)

(* A closing or closed socket is not open, whatever it was.                *)
LEMMA ClosingTypes ==
  ASSUME NEW socket \in [Upgrades -> ReadyStates], NEW r \in Upgrades
  PROVE  /\ Closing(socket, r) \in [Upgrades -> ReadyStates]
         /\ Closing(socket, r)[r] # "open"
         /\ Closing(socket, r)[r] = "none" <=> socket[r] = "none"
         /\ socket[r] \in {"open", "closing", "closed"} =>
              Closing(socket, r)[r] \in {"closing", "closed"}
         /\ \A q \in Upgrades \ {r} : Closing(socket, r)[q] = socket[q]
BY DEF Closing, ReadyStates

LEMMA CleanupTypes ==
  ASSUME IInv, NEW r \in Upgrades, Cleanup(r)
  PROVE  /\ activeSessions' \subseteq Sessions /\ reservedSessions' \subseteq Sessions
         /\ cleaned' \in [Upgrades -> BOOLEAN]
         /\ cleaned'[r]
         /\ \A q \in Upgrades \ {r} : cleaned'[q] = cleaned[q]
BY DEF IInv, TypeOK, Cleanup, slots

LEMMA CheckFailsPreserves ==
  ASSUME IInv, NEW r \in Upgrades, CheckFails(r)
  PROVE  IInv'
<1>. USE RelayAssumption
<1>0. downstream \in [Upgrades -> ReadyStates] /\ stage \in [Upgrades -> Stages]
  BY DEF IInv, TypeOK
<1>1. Slots' /\ SocketCount' /\ activeSockets' \in Nat
  <2>1. Connected(r) /\ Cleanup(r) /\ UNCHANGED counted
    BY DEF CheckFails, Connected
  <2>2. \A q \in Upgrades : Connected(q)' <=> Connected(q)
    BY <1>0 DEF CheckFails, Connected
  <2>3. \A q \in Upgrades : HoldsReservation(q)' <=> HoldsReservation(q)
    BY <1>0 DEF CheckFails, HoldsReservation
  <2>. QED  BY <2>1, <2>2, <2>3, CleanupSlots, CleanupCount
<1>2. TypeOK'
  <2>1. Cleanup(r) /\ downstream' = Closing(downstream, r)
    BY DEF CheckFails, RefusalCloses
  <2>2. downstream' \in [Upgrades -> ReadyStates]
    BY <1>0, <2>1, ClosingTypes
  <2>3. stage' \in [Upgrades -> Stages]
    BY <1>0 DEF CheckFails, Stages
  <2>. QED  BY <1>1, <2>1, <2>2, <2>3, CleanupTypes DEF IInv, TypeOK, CheckFails, frames
<1>3. \A q \in Upgrades : Connection(q)'
  <2>1. Cleanup(r) /\ downstream' = Closing(downstream, r)
    BY DEF CheckFails, RefusalCloses
  <2>2. cleaned'[r] /\ \A q \in Upgrades \ {r} : cleaned'[q] = cleaned[q]
    BY <2>1, CleanupTypes
  <2>3. ASSUME NEW q \in Upgrades, q # r  PROVE Connection(q)'
    BY <1>0, <2>1, <2>2, <2>3, ClosingTypes
       DEF IInv, CheckFails, Connection, Connected, frames
  <2>4. Connection(r)'
    BY <1>0, <2>1, <2>2, ClosingTypes DEF IInv, CheckFails, Connection, Connected, frames
  <2>. QED  BY <2>3, <2>4
<1>4. \A q \in Upgrades : Frames(q)'
  <2>1. downstream' = Closing(downstream, r)
    BY DEF CheckFails, RefusalCloses
  <2>2. \A q \in Upgrades : downstream'[q] = "open" => downstream[q] = "open"
    BY <1>0, <2>1, ClosingTypes
  <2>3. UNCHANGED <<upstream, pendingFrames, pendingBytes, received, relayed>>
    BY DEF CheckFails, frames
  <2>. QED  BY <2>2, <2>3 DEF IInv, Frames
<1>. QED  BY <1>1, <1>2, <1>3, <1>4 DEF IInv

LEMMA UsageAcceptedPreserves ==
  ASSUME IInv, NEW r \in Upgrades, UsageAccepted(r)
  PROVE  IInv'
<1>1. TypeOK'
  BY DEF IInv, TypeOK, UsageAccepted, Stages, slots, sockets, frames
<1>2. Slots'
  BY SlotsKept DEF IInv, TypeOK, UsageAccepted, slots, HoldsSlot, HoldsReservation, Connected
<1>3. SocketCount'
  BY CountKept DEF UsageAccepted, slots
<1>4. \A q \in Upgrades : Connection(q)'
  BY DEF IInv, TypeOK, UsageAccepted, Connection, Connected, slots, sockets, frames
<1>5. \A q \in Upgrades : Frames(q)'
  BY DEF IInv, UsageAccepted, Frames, sockets, frames
<1>. QED  BY <1>1, <1>2, <1>3, <1>4, <1>5 DEF IInv

LEMMA ConfigAcceptedPreserves ==
  ASSUME IInv, NEW r \in Upgrades, ConfigAccepted(r)
  PROVE  IInv'
<1>. USE RelayAssumption
<1>1. Slots'
  BY SlotsKept DEF IInv, TypeOK, ConfigAccepted, HoldsSlot, HoldsReservation, Connected
<1>2. SocketCount' /\ activeSockets' \in Nat
  <2>1. IsFiniteSet(CountedOnes)
    BY FS_Subset DEF CountedOnes
  <2>2. CASE cleaned[r]
    BY <2>2, CountKept DEF IInv, TypeOK, ConfigAccepted, StillWanted
  <2>3. CASE ~cleaned[r]
    <3>1. CountedOnes' = CountedOnes \cup {r} /\ r \notin CountedOnes
      BY <2>3 DEF IInv, TypeOK, Connection, ConfigAccepted, StillWanted, CountedOnes
    <3>2. Cardinality(CountedOnes') = Cardinality(CountedOnes) + 1
      BY <2>1, <3>1, FS_AddElement
    <3>3. activeSockets' = activeSockets + 1
      BY <2>3 DEF ConfigAccepted, StillWanted
    <3>. QED  BY <3>2, <3>3 DEF IInv, TypeOK, SocketCount
  <2>. QED  BY <2>2, <2>3 DEF IInv, TypeOK
<1>3. TypeOK'
  BY <1>2 DEF IInv, TypeOK, ConfigAccepted, Stages, ReadyStates, frames
<1>4. \A q \in Upgrades : Connection(q)'
  BY DEF IInv, TypeOK, ConfigAccepted, Connection, Connected, frames
<1>5. \A q \in Upgrades : Frames(q)'
  BY DEF IInv, TypeOK, ConfigAccepted, Frames, frames
<1>. QED  BY <1>1, <1>2, <1>3, <1>4, <1>5 DEF IInv

---------------------------------------------------------------------------
(* What the handlers of the sockets do to the connections.                 *)

Untouched(q) ==
  /\ stage'[q] = stage[q] /\ downstream'[q] = downstream[q] /\ upstream'[q] = upstream[q]
  /\ cleaned'[q] = cleaned[q] /\ counted'[q] = counted[q] /\ received'[q] = received[q]
  /\ pendingFrames'[q] = pendingFrames[q] /\ pendingBytes'[q] = pendingBytes[q]
  /\ relayed'[q] = relayed[q]

(* A connection a step leaves alone stays as it was.                       *)
LEMMA UntouchedKept ==
  ASSUME IInv, NEW q \in Upgrades, Untouched(q)
  PROVE  Connection(q)' /\ Frames(q)'
<1>1. Connection(q) /\ Frames(q)
  BY DEF IInv
<1>2. Connection(q)'
  BY <1>1 DEF Connection, Connected, Untouched
<1>3. Frames(q)'
  BY <1>1 DEF Frames, Untouched
<1>. QED  BY <1>2, <1>3

(* One whose client is told to leave, or has left: its frames stay, and    *)
(* its bytes do not shrink.                                                *)
Leaving(r) ==
  /\ Connected(r) /\ stage'[r] = stage[r] /\ counted'[r] = counted[r]
  /\ downstream'[r] \in {"closing", "closed"}
  /\ upstream'[r] = "none" <=> upstream[r] = "none"
  /\ upstream'[r] = "open" => upstream[r] = "open"
  /\ pendingFrames'[r] = pendingFrames[r] /\ pendingBytes'[r] >= pendingBytes[r]

LEMMA LeavingKept ==
  ASSUME IInv, NEW r \in Upgrades, Leaving(r), pendingBytes'[r] \in Nat
  PROVE  Connection(r)' /\ Frames(r)'
<1>1. Connection(r) /\ Frames(r)
  BY DEF IInv
<1>2. Connection(r)'
  BY <1>1 DEF Connection, Connected, Leaving
<1>3. pendingFrames[r] \in Seq(Nat) /\ pendingBytes[r] \in Nat
  BY DEF IInv, TypeOK
<1>4. Len(pendingFrames[r]) \in Nat
  BY <1>3
<1>5. Len(pendingFrames'[r]) <= pendingBytes'[r]
  BY <1>1, <1>3, <1>4 DEF Frames, Leaving
<1>6. Frames(r)'
  BY <1>1, <1>5 DEF Frames, Leaving
<1>. QED  BY <1>2, <1>6

(* An open or closing client's connection got through.                     *)
LEMMA ClientConnected ==
  ASSUME IInv, NEW r \in Upgrades, downstream[r] \in {"open", "closing"} \/ upstream[r] # "none"
  PROVE  Connected(r) /\ downstream[r] \in {"open", "closing", "closed"}
BY DEF IInv, Connection

---------------------------------------------------------------------------
(* Frames of the client.                                                   *)

LEMMA ClientFramePreserves ==
  ASSUME IInv, NEW r \in Upgrades, ClientFrame(r)
  PROVE  IInv'
<1>. USE RelayAssumption
<1>0. /\ downstream \in [Upgrades -> ReadyStates] /\ upstream \in [Upgrades -> ReadyStates]
      /\ pendingFrames \in [Upgrades -> Seq(Nat)] /\ relayed \in [Upgrades -> Seq(Nat)]
      /\ received \in [Upgrades -> Nat] /\ pendingBytes \in [Upgrades -> Nat]
  BY DEF IInv, TypeOK
<1>10. downstream \in [Upgrades -> ReadyStates] /\ upstream \in [Upgrades -> ReadyStates]
  BY <1>0
<1>1. Slots'
  BY SlotsKept DEF ClientFrame, slots, HoldsSlot, HoldsReservation, Connected
<1>2. SocketCount'
  BY CountKept DEF ClientFrame, slots
<1>3. received' \in [Upgrades -> Nat] /\ received'[r] = received[r] + 1
  BY <1>0 DEF ClientFrame
<1>4. \A q \in Upgrades \ {r} : received'[q] = received[q]
  BY <1>0 DEF ClientFrame
<1>5. UNCHANGED <<slots, stage, counted>> /\ Connected(r)
  BY ClientConnected DEF ClientFrame
<1>9. UNCHANGED cleaned /\ downstream[r] \in {"open", "closing"}
  BY <1>5 DEF slots, ClientFrame
<1>6. CASE Backpressure(r)
  <2>1. downstream' = Closing(downstream, r) /\ upstream' = Closing(upstream, r)
    BY <1>6 DEF Backpressure
  <2>2. /\ downstream' \in [Upgrades -> ReadyStates] /\ downstream'[r] \in {"closing", "closed"}
        /\ \A q \in Upgrades \ {r} : downstream'[q] = downstream[q]
    <3>1. downstream[r] \in {"open", "closing", "closed"}
      BY <1>9
    <3>. QED  BY <1>10, <2>1, <3>1, ClosingTypes
  <2>3. /\ upstream' \in [Upgrades -> ReadyStates] /\ upstream'[r] # "open"
        /\ upstream'[r] = "none" <=> upstream[r] = "none"
        /\ \A q \in Upgrades \ {r} : upstream'[q] = upstream[q]
    BY <1>10, <2>1, ClosingTypes
  <2>4. UNCHANGED <<pendingFrames, pendingBytes, relayed>>
    BY <1>6 DEF Backpressure
  <2>5. TypeOK'
    BY <1>0, <1>3, <1>5, <2>2, <2>3, <2>4 DEF IInv, TypeOK, slots
  <2>6. ASSUME NEW q \in Upgrades, q # r  PROVE Connection(q)' /\ Frames(q)'
    <3>1. Untouched(q)
      BY <1>4, <1>5, <1>9, <2>2, <2>3, <2>4, <2>6 DEF Untouched
    <3>. QED  BY <3>1, UntouchedKept
  <2>7. Connection(r)' /\ Frames(r)'
    <3>1. Leaving(r) /\ pendingBytes'[r] \in Nat
      BY <1>0, <1>5, <2>2, <2>3, <2>4 DEF Leaving
    <3>. QED  BY <3>1, LeavingKept
  <2>. QED  BY <1>1, <1>2, <2>5, <2>6, <2>7 DEF IInv
<1>7. CASE Queue(r)
  <2>1. /\ pendingBytes' \in [Upgrades -> Nat] /\ pendingBytes'[r] = pendingBytes[r] + 1
        /\ \A q \in Upgrades \ {r} : pendingBytes'[q] = pendingBytes[q]
    BY <1>0, <1>7 DEF Queue, Queued
  <2>4. UNCHANGED <<upstream, relayed>> /\ upstream[r] # "open"
    BY <1>7 DEF Queue
  <2>2. CASE downstream' = Closing(downstream, r) /\ UNCHANGED pendingFrames
    <3>1. /\ downstream' \in [Upgrades -> ReadyStates]
          /\ downstream'[r] \in {"closing", "closed"}
          /\ \A q \in Upgrades \ {r} : downstream'[q] = downstream[q]
      <4>1. downstream[r] \in {"open", "closing", "closed"}
        BY <1>9
      <4>. QED  BY <1>10, <2>2, <4>1, ClosingTypes
    <3>2. TypeOK'
      BY <1>0, <1>3, <1>5, <2>1, <2>2, <2>4, <3>1 DEF IInv, TypeOK, slots
    <3>3. ASSUME NEW q \in Upgrades, q # r  PROVE Connection(q)' /\ Frames(q)'
      <4>1. Untouched(q)
        BY <1>4, <1>5, <1>9, <2>1, <2>2, <2>4, <3>1, <3>3 DEF Untouched
      <4>. QED  BY <4>1, UntouchedKept
    <3>4. Connection(r)' /\ Frames(r)'
      <4>1. pendingBytes'[r] \in Nat /\ pendingBytes'[r] >= pendingBytes[r]
        BY <1>0, <2>1
      <4>2. Leaving(r)
        BY <1>5, <2>2, <2>4, <3>1, <4>1 DEF Leaving
      <4>. QED  BY <4>1, <4>2, LeavingKept
    <3>. QED  BY <1>1, <1>2, <3>2, <3>3, <3>4 DEF IInv
  <2>3. CASE /\ Queued(r) <= BufferLimit
             /\ pendingFrames' = [pendingFrames EXCEPT ![r] = Append(@, received[r] + 1)]
             /\ UNCHANGED downstream
    <3>1. pendingFrames' \in [Upgrades -> Seq(Nat)]
          /\ pendingFrames'[r] = Append(pendingFrames[r], received[r] + 1)
          /\ \A q \in Upgrades \ {r} : pendingFrames'[q] = pendingFrames[q]
      BY <1>0, <2>3
    <3>2. TypeOK'
      BY <1>0, <1>3, <1>5, <2>1, <2>3, <2>4, <3>1 DEF IInv, TypeOK, slots
    <3>3. ASSUME NEW q \in Upgrades, q # r  PROVE Connection(q)' /\ Frames(q)'
      <4>1. Untouched(q)
        BY <1>4, <1>5, <1>9, <2>1, <2>3, <2>4, <3>1, <3>3 DEF Untouched
      <4>. QED  BY <4>1, UntouchedKept
    <3>4. Connection(r)'
      <4>1. Connection(r)
        BY DEF IInv
      <4>. QED  BY <1>5, <1>9, <2>3, <2>4, <4>1 DEF Connection, Connected
    <3>5. Frames(r)'
      <4>1. Len(pendingFrames'[r]) = Len(pendingFrames[r]) + 1
        BY <1>0, <3>1
      <4>2. downstream'[r] = "open" =>
              relayed'[r] \o pendingFrames'[r] = FirstN(received'[r])
        <5>1. relayed[r] \o pendingFrames'[r]
                = Append(relayed[r] \o pendingFrames[r], received[r] + 1)
          BY <1>0, <3>1, AppendToSecond
        <5>2. downstream'[r] = "open" =>
                relayed[r] \o pendingFrames[r] = FirstN(received[r])
          BY <2>3 DEF IInv, Frames
        <5>3. Append(FirstN(received[r]), received[r] + 1) = FirstN(received'[r])
          BY <1>0, <1>3, AppendFirstN
        <5>. QED  BY <2>4, <5>1, <5>2, <5>3
      <4>3. Len(pendingFrames[r]) \in Nat /\ Len(pendingFrames[r]) <= pendingBytes[r]
        BY <1>0 DEF IInv, Frames
      <4>4. upstream'[r] # "open"
        BY <2>4
      <4>5. /\ Len(pendingFrames'[r]) <= pendingBytes'[r]
            /\ Len(pendingFrames'[r]) <= BufferLimit
        <5>1. pendingBytes[r] + 1 <= BufferLimit /\ pendingBytes[r] \in Nat
          BY <1>0, <2>3 DEF Queued
        <5>. QED  BY <2>1, <4>1, <4>3, <5>1
      <4>. QED  BY <4>2, <4>4, <4>5 DEF Frames
    <3>. QED  BY <1>1, <1>2, <3>2, <3>3, <3>4, <3>5 DEF IInv
  <2>. QED  BY <1>7, <2>2, <2>3 DEF Queue
<1>8. CASE Send(r)
  <2>1. relayed' \in [Upgrades -> Seq(Nat)]
        /\ relayed'[r] = Append(relayed[r], received[r] + 1)
        /\ \A q \in Upgrades \ {r} : relayed'[q] = relayed[q]
    BY <1>0, <1>8 DEF Send
  <2>6. UNCHANGED <<downstream, upstream, pendingFrames, pendingBytes>>
    BY <1>8 DEF Send, sockets
  <2>2. TypeOK'
    BY <1>0, <1>3, <1>5, <2>1, <2>6 DEF IInv, TypeOK, slots
  <2>3. ASSUME NEW q \in Upgrades, q # r  PROVE Connection(q)' /\ Frames(q)'
    <3>1. Untouched(q)
      BY <1>4, <1>5, <1>9, <2>1, <2>3, <2>6 DEF Untouched
    <3>. QED  BY <3>1, UntouchedKept
  <2>4. Connection(r)'
    <3>1. Connection(r)
      BY DEF IInv
    <3>. QED  BY <1>5, <1>9, <2>6, <3>1 DEF Connection, Connected
  <2>5. Frames(r)'
    <3>1. pendingFrames[r] = <<>> /\ pendingFrames'[r] = <<>>
      BY <1>8 DEF IInv, Frames, Send
    <3>2. relayed[r] \o pendingFrames[r] = relayed[r]
          /\ relayed'[r] \o pendingFrames'[r] = relayed'[r]
      BY <1>0, <2>1, <3>1, ConcatEmptyFrames
    <3>3. downstream'[r] = "open" => relayed'[r] \o pendingFrames'[r] = FirstN(received'[r])
      <4>1. downstream'[r] = "open" => relayed[r] = FirstN(received[r])
        BY <2>6, <3>2 DEF IInv, Frames
      <4>2. Append(FirstN(received[r]), received[r] + 1) = FirstN(received'[r])
        BY <1>0, <1>3, AppendFirstN
      <4>. QED  BY <2>1, <3>2, <4>1, <4>2
    <3>4. Frames(r)
      BY DEF IInv
    <3>. QED  BY <2>6, <3>1, <3>3, <3>4 DEF Frames
  <2>. QED  BY <1>1, <1>2, <2>2, <2>3, <2>4, <2>5 DEF IInv
<1>. QED  BY <1>6, <1>7, <1>8 DEF ClientFrame

---------------------------------------------------------------------------
(* A client or an upstream socket that goes.                               *)

(* What the close and error events have in common.                         *)
LEMMA ReleasePreserves ==
  ASSUME IInv, NEW r \in Upgrades, Connected(r), Cleanup(r),
         UNCHANGED <<stage, counted, frames>>,
         downstream' \in [Upgrades -> ReadyStates], upstream' \in [Upgrades -> ReadyStates],
         downstream'[r] \in {"closing", "closed"},
         upstream'[r] = "none" <=> upstream[r] = "none",
         upstream'[r] = "open" => upstream[r] = "open",
         \A q \in Upgrades \ {r} : downstream'[q] = downstream[q] /\ upstream'[q] = upstream[q]
  PROVE  IInv'
<1>. USE RelayAssumption
<1>1. Slots' /\ SocketCount' /\ activeSockets' \in Nat
  <2>1. \A q \in Upgrades : Connected(q)' <=> Connected(q)
    BY DEF Connected
  <2>2. \A q \in Upgrades : HoldsReservation(q)' <=> HoldsReservation(q)
    BY DEF HoldsReservation
  <2>. QED  BY <2>1, <2>2, CleanupSlots, CleanupCount
<1>2. /\ activeSessions' \subseteq Sessions /\ reservedSessions' \subseteq Sessions
      /\ cleaned' \in [Upgrades -> BOOLEAN]
      /\ \A q \in Upgrades \ {r} : cleaned'[q] = cleaned[q]
  BY CleanupTypes
<1>3. TypeOK'
  BY <1>1, <1>2 DEF IInv, TypeOK, frames
<1>4. ASSUME NEW q \in Upgrades, q # r  PROVE Connection(q)' /\ Frames(q)'
  <2>1. Untouched(q)
    BY <1>2, <1>4 DEF Untouched, frames
  <2>. QED  BY <2>1, UntouchedKept
<1>5. Connection(r)' /\ Frames(r)'
  <2>1. pendingBytes[r] \in Nat
    BY DEF IInv, TypeOK
  <2>2. Leaving(r) /\ pendingBytes'[r] \in Nat
    BY <2>1 DEF Leaving, frames
  <2>. QED  BY <2>2, LeavingKept
<1>. QED  BY <1>1, <1>3, <1>4, <1>5 DEF IInv

LEMMA ClientClosesPreserves ==
  ASSUME IInv, NEW r \in Upgrades, ClientCloses(r)
  PROVE  IInv'
<1>0. downstream \in [Upgrades -> ReadyStates] /\ upstream \in [Upgrades -> ReadyStates]
  BY DEF IInv, TypeOK
<1>1. Connected(r) /\ Cleanup(r) /\ UNCHANGED <<stage, counted, frames>>
  BY ClientConnected DEF ClientCloses
<1>2. /\ downstream' \in [Upgrades -> ReadyStates] /\ downstream'[r] = "closed"
      /\ \A q \in Upgrades \ {r} : downstream'[q] = downstream[q]
  BY <1>0 DEF ClientCloses, ReadyStates
<1>3. upstream' = Closing(upstream, r)
  BY DEF ClientCloses
<1>4. /\ upstream' \in [Upgrades -> ReadyStates] /\ upstream'[r] # "open"
      /\ upstream'[r] = "none" <=> upstream[r] = "none"
      /\ \A q \in Upgrades \ {r} : upstream'[q] = upstream[q]
  BY <1>0, <1>3, ClosingTypes
<1>. QED  BY <1>1, <1>2, <1>4, ReleasePreserves

LEMMA ClientErrorsPreserves ==
  ASSUME IInv, NEW r \in Upgrades, ClientErrors(r)
  PROVE  IInv'
<1>0. downstream \in [Upgrades -> ReadyStates] /\ upstream \in [Upgrades -> ReadyStates]
  BY DEF IInv, TypeOK
<1>1. Connected(r) /\ Cleanup(r) /\ UNCHANGED <<stage, counted, frames>>
  BY ClientConnected DEF ClientErrors
<1>2. /\ downstream' \in [Upgrades -> ReadyStates] /\ downstream'[r] = "closing"
      /\ \A q \in Upgrades \ {r} : downstream'[q] = downstream[q]
  BY <1>0 DEF ClientErrors, ReadyStates
<1>3. upstream' = Closing(upstream, r)
  BY DEF ClientErrors
<1>4. /\ upstream' \in [Upgrades -> ReadyStates] /\ upstream'[r] # "open"
      /\ upstream'[r] = "none" <=> upstream[r] = "none"
      /\ \A q \in Upgrades \ {r} : upstream'[q] = upstream[q]
  BY <1>0, <1>3, ClosingTypes
<1>. QED  BY <1>1, <1>2, <1>4, ReleasePreserves

LEMMA UpstreamErrorsPreserves ==
  ASSUME IInv, NEW r \in Upgrades, UpstreamErrors(r)
  PROVE  IInv'
<1>0. downstream \in [Upgrades -> ReadyStates] /\ upstream \in [Upgrades -> ReadyStates]
  BY DEF IInv, TypeOK
<1>5. upstream[r] \in {"connecting", "open"}
  BY DEF UpstreamErrors
<1>1. /\ Connected(r) /\ Cleanup(r) /\ UNCHANGED <<stage, counted, frames>>
      /\ downstream[r] \in {"open", "closing", "closed"}
  BY <1>5, ClientConnected DEF UpstreamErrors
<1>2. /\ upstream' \in [Upgrades -> ReadyStates] /\ upstream'[r] = "closing"
      /\ \A q \in Upgrades \ {r} : upstream'[q] = upstream[q]
  BY <1>0 DEF UpstreamErrors, ReadyStates
<1>3. downstream' = Closing(downstream, r)
  BY DEF UpstreamErrors
<1>4. /\ downstream' \in [Upgrades -> ReadyStates] /\ downstream'[r] \in {"closing", "closed"}
      /\ \A q \in Upgrades \ {r} : downstream'[q] = downstream[q]
  BY <1>0, <1>1, <1>3, ClosingTypes
<1>. QED  BY <1>1, <1>2, <1>4, <1>5, ReleasePreserves

LEMMA UpstreamClosesPreserves ==
  ASSUME IInv, NEW r \in Upgrades, UpstreamCloses(r)
  PROVE  IInv'
<1>0. downstream \in [Upgrades -> ReadyStates] /\ upstream \in [Upgrades -> ReadyStates]
  BY DEF IInv, TypeOK
<1>5. upstream[r] = "closing"
  BY DEF UpstreamCloses
<1>1. /\ Connected(r) /\ Cleanup(r) /\ UNCHANGED <<stage, counted, frames>>
      /\ downstream[r] \in {"open", "closing", "closed"}
  BY <1>5, ClientConnected DEF UpstreamCloses
<1>2. /\ upstream' \in [Upgrades -> ReadyStates] /\ upstream'[r] = "closed"
      /\ \A q \in Upgrades \ {r} : upstream'[q] = upstream[q]
  BY <1>0 DEF UpstreamCloses, ReadyStates
<1>3. downstream' = Closing(downstream, r)
  BY DEF UpstreamCloses
<1>4. /\ downstream' \in [Upgrades -> ReadyStates] /\ downstream'[r] \in {"closing", "closed"}
      /\ \A q \in Upgrades \ {r} : downstream'[q] = downstream[q]
  BY <1>0, <1>1, <1>3, ClosingTypes
<1>. QED  BY <1>1, <1>2, <1>4, <1>5, ReleasePreserves

---------------------------------------------------------------------------
(* The upstream socket opens, or is told to close.                         *)

LEMMA UpstreamOpensPreserves ==
  ASSUME IInv, NEW r \in Upgrades, UpstreamOpens(r)
  PROVE  IInv'
<1>. USE RelayAssumption
<1>0. /\ upstream \in [Upgrades -> ReadyStates] /\ received \in [Upgrades -> Nat]
      /\ pendingFrames \in [Upgrades -> Seq(Nat)] /\ relayed \in [Upgrades -> Seq(Nat)]
      /\ pendingBytes \in [Upgrades -> Nat]
  BY DEF IInv, TypeOK
<1>1. UNCHANGED <<slots, stage, downstream, counted, received>>
  BY DEF UpstreamOpens
<1>2. Slots'
  BY <1>1, SlotsKept DEF slots, HoldsSlot, HoldsReservation, Connected
<1>3. SocketCount'
  BY <1>1, CountKept DEF slots
<1>4. /\ upstream' \in [Upgrades -> ReadyStates] /\ upstream'[r] = "open"
      /\ \A q \in Upgrades \ {r} : upstream'[q] = upstream[q]
  BY <1>0 DEF UpstreamOpens, ReadyStates
<1>5. /\ pendingFrames' \in [Upgrades -> Seq(Nat)] /\ pendingFrames'[r] = <<>>
      /\ \A q \in Upgrades \ {r} : pendingFrames'[q] = pendingFrames[q]
  <2>1. <<>> \in Seq(Nat)
    BY EmptySeq
  <2>. QED  BY <1>0, <2>1 DEF UpstreamOpens, Flush
<1>6. /\ relayed' \in [Upgrades -> Seq(Nat)]
      /\ relayed'[r] = relayed[r] \o pendingFrames[r]
      /\ \A q \in Upgrades \ {r} : relayed'[q] = relayed[q]
  <2>1. relayed[r] \o pendingFrames[r] \in Seq(Nat)
    BY <1>0
  <2>. QED  BY <1>0, <2>1 DEF UpstreamOpens, Flush
<1>7. /\ pendingBytes' \in [Upgrades -> Nat]
      /\ \A q \in Upgrades \ {r} : pendingBytes'[q] = pendingBytes[q]
  <2>1. Len(pendingFrames[r]) \in Nat /\ Len(pendingFrames[r]) <= pendingBytes[r]
    BY <1>0 DEF IInv, Frames
  <2>2. pendingBytes[r] - Len(pendingFrames[r]) \in Nat
    BY <1>0, <2>1
  <2>. QED  BY <1>0, <2>2 DEF UpstreamOpens, Flush
<1>8. TypeOK'
  BY <1>1, <1>4, <1>5, <1>6, <1>7 DEF IInv, TypeOK, slots
<1>9. ASSUME NEW q \in Upgrades, q # r  PROVE Connection(q)' /\ Frames(q)'
  <2>1. Untouched(q)
    BY <1>1, <1>4, <1>5, <1>6, <1>7, <1>9 DEF Untouched, slots
  <2>. QED  BY <2>1, UntouchedKept
<1>10. Connection(r)'
  <2>1. Connection(r) /\ upstream[r] = "connecting"
    BY DEF IInv, UpstreamOpens
  <2>2. Connected(r) /\ UNCHANGED cleaned
    BY <1>1, <2>1 DEF Connection, slots
  <2>. QED  BY <1>1, <1>4, <2>1, <2>2 DEF Connection, Connected
<1>11. Frames(r)'
  <2>1. downstream'[r] = "open" => relayed'[r] \o pendingFrames'[r] = FirstN(received'[r])
    <3>1. relayed'[r] \o pendingFrames'[r] = relayed[r] \o pendingFrames[r]
      BY <1>5, <1>6, ConcatEmptyFrames
    <3>. QED  BY <1>1, <3>1 DEF IInv, Frames
  <2>2. Len(pendingFrames'[r]) = 0 /\ pendingBytes'[r] \in Nat
    BY <1>5, <1>7
  <2>. QED  BY <1>5, <2>1, <2>2 DEF Frames
<1>. QED  BY <1>2, <1>3, <1>8, <1>9, <1>10, <1>11 DEF IInv

LEMMA UpstreamLeavesPreserves ==
  ASSUME IInv, NEW r \in Upgrades, UpstreamLeaves(r)
  PROVE  IInv'
<1>1. UNCHANGED <<slots, stage, downstream, counted, frames>>
  BY DEF UpstreamLeaves
<1>2. Slots'
  BY <1>1, SlotsKept DEF slots, HoldsSlot, HoldsReservation, Connected
<1>3. SocketCount'
  BY <1>1, CountKept DEF slots
<1>4. /\ upstream' \in [Upgrades -> ReadyStates] /\ upstream'[r] = "closing"
      /\ \A q \in Upgrades \ {r} : upstream'[q] = upstream[q]
  BY DEF IInv, TypeOK, UpstreamLeaves, ReadyStates
<1>5. TypeOK'
  BY <1>1, <1>4 DEF IInv, TypeOK, slots, frames
<1>6. ASSUME NEW q \in Upgrades, q # r  PROVE Connection(q)' /\ Frames(q)'
  <2>1. Untouched(q)
    BY <1>1, <1>4, <1>6 DEF Untouched, slots, frames
  <2>. QED  BY <2>1, UntouchedKept
<1>7. Connection(r) /\ Frames(r) /\ upstream[r] = "open"
  BY DEF IInv, UpstreamLeaves
<1>8. Connection(r)'
  BY <1>1, <1>4, <1>7 DEF Connection, Connected, slots, frames
<1>9. Frames(r)'
  BY <1>1, <1>4, <1>7 DEF Frames, frames
<1>. QED  BY <1>2, <1>3, <1>5, <1>6, <1>8, <1>9 DEF IInv

---------------------------------------------------------------------------
(* The invariant, and what follows from it.                                *)

THEOREM RelayInvariant == Spec => []IInv
<1>1. Init => IInv
  BY InitIInv
<1>2. IInv /\ [Next]_vars => IInv'
  <2>1. ASSUME IInv, Next  PROVE IInv'
    <3>1. PICK r \in Upgrades : Handle(r)
      BY <2>1 DEF Next
    <3>. QED
      BY <2>1, <3>1, RefusePreserves, ReservePreserves, LoseUpgradePreserves,
         ConnectPreserves, CheckFailsPreserves, UsageAcceptedPreserves,
         ConfigAcceptedPreserves, ClientFramePreserves, ClientClosesPreserves,
         ClientErrorsPreserves, UpstreamOpensPreserves, UpstreamLeavesPreserves,
         UpstreamErrorsPreserves, UpstreamClosesPreserves
      DEF Handle
  <2>2. ASSUME IInv, UNCHANGED vars  PROVE IInv'
    <3>1. /\ UNCHANGED <<stage, downstream, upstream, counted>>
          /\ UNCHANGED <<activeSessions, reservedSessions, activeSockets, cleaned>>
          /\ UNCHANGED <<pendingFrames, pendingBytes, received, relayed>>
      BY <2>2 DEF vars, slots, sockets, frames
    <3>2. TypeOK'
      BY <2>2, <3>1 DEF IInv, TypeOK
    <3>3. Slots'
      BY <2>2, <3>1, SlotsKept DEF HoldsSlot, HoldsReservation, Connected
    <3>4. SocketCount'
      BY <2>2, <3>1, CountKept
    <3>5. ASSUME NEW q \in Upgrades  PROVE Connection(q)' /\ Frames(q)'
      BY <2>2, <3>1, UntouchedKept DEF Untouched
    <3>. QED  BY <3>2, <3>3, <3>4, <3>5 DEF IInv
  <2>. QED  BY <2>1, <2>2
<1>. QED  BY <1>1, <1>2, PTL DEF Spec

(* The relay's variables keep their types: neither the count of sockets    *)
(* nor the bytes waiting go below zero.                                    *)
THEOREM TypeCorrect == Spec => []TypeOK
<1>1. IInv => TypeOK
  BY DEF IInv
<1>. QED  BY <1>1, RelayInvariant, PTL

(* A session's slot belongs to one upgrade at a time, and activeSessions   *)
(* and reservedSessions hold exactly the sessions in use, whichever of the *)
(* close and error events of either socket ran cleanup(), and in whatever  *)
(* order.                                                                  *)
THEOREM SlotOfOne == Spec => []SlotHeldByOne
<1>1. IInv => SlotHeldByOne
  <2> SUFFICES ASSUME IInv  PROVE SlotHeldByOne
    OBVIOUS
  <2>1. /\ activeSessions \subseteq Sessions /\ reservedSessions \subseteq Sessions
        /\ \A r \in Upgrades : SessionOf[r] \in Sessions
    BY RelayAssumption DEF IInv, TypeOK
  <2>2. \A r, q \in Upgrades :
          r # q /\ SessionOf[r] = SessionOf[q] /\ Holds(r) => ~Holds(q)
    BY DEF IInv, Slots
  <2>3. activeSessions = {SessionOf[r] : r \in {q \in Upgrades : HoldsSlot(q)}}
    BY <2>1 DEF IInv, Slots
  <2>4. reservedSessions = {SessionOf[r] : r \in {q \in Upgrades : HoldsReservation(q)}}
    BY <2>1 DEF IInv, Slots
  <2>. QED  BY <2>2, <2>3, <2>4 DEF SlotHeldByOne, Holds
<1>. QED  BY <1>1, RelayInvariant, PTL

(* Two clients of one session are never open together, and an open one     *)
(* holds the session's slot: connect() follows a reservation that          *)
(* authorizeUpgrade gave to one upgrade only.                              *)
THEOREM OneClientOpen == Spec => []OneOpenClient
<1>1. IInv => OneOpenClient
  <2> SUFFICES ASSUME IInv, NEW r \in Upgrades, downstream[r] = "open"
               PROVE  /\ HoldsSlot(r)
                      /\ \A q \in Upgrades \ {r} :
                           SessionOf[q] = SessionOf[r] => downstream[q] # "open"
    BY DEF OneOpenClient
  <2>1. \A q \in Upgrades : downstream[q] = "open" => HoldsSlot(q)
    BY DEF IInv, Connection, HoldsSlot
  <2>. QED  BY <2>1 DEF IInv, Slots, Holds
<1>. QED  BY <1>1, RelayInvariant, PTL

(* The number of sockets /bff/health reports is that of the connections    *)
(* which opened an upstream socket and were not released.                  *)
THEOREM CountTrue == Spec => []SocketsCounted
<1>1. IInv => SocketsCounted
  BY DEF IInv, SocketCount, CountedOnes, Connection, SocketsCounted
<1>. QED  BY <1>1, RelayInvariant, PTL

(* Before and after the flush, every frame of an open client has gone      *)
(* upstream in order or waits its turn, within MAX_BUFFERED_BYTES.         *)
THEOREM FramesRelayedInOrder == Spec => []RelaysInOrder
<1>1. IInv => RelaysInOrder
  BY DEF IInv, Frames, RelaysInOrder
<1>. QED  BY <1>1, RelayInvariant, PTL
=============================================================================
