------------------------- MODULE RoomManagerProofs -------------------------
(***************************************************************************)
(* Proofs about the conference room, for any set of clients, any buffer    *)
(* size, any timeout and any bounds.                                       *)
(***************************************************************************)
EXTENDS RoomManager, FiniteSetTheorems, TLAPS

-----------------------------------------------------------------------------
(* Sequences of packets. *)

\* An element of a sequence that ends in one more element is the new one or
\* one of the old ones.
LEMMA AppendElements ==
    ASSUME NEW S, NEW s \in Seq(S), NEW e \in S
    PROVE  /\ Append(s, e) \in Seq(S)
           /\ Len(Append(s, e)) = Len(s) + 1
           /\ \A i \in 1..Len(s) : Append(s, e)[i] = s[i]
           /\ Append(s, e)[Len(s) + 1] = e
  OBVIOUS

\* The set of elements of a sequence with one more element.
LEMMA ToSetAppend ==
    ASSUME NEW S, NEW s \in Seq(S), NEW e \in S
    PROVE  ToSet(Append(s, e)) = ToSet(s) \cup {e}
  <1>1. DOMAIN s = 1..Len(s) /\ DOMAIN Append(s, e) = 1..(Len(s) + 1) /\ Len(s) \in Nat
    BY AppendElements
  <1>2. ASSUME NEW x \in ToSet(Append(s, e)) PROVE x \in ToSet(s) \cup {e}
    BY <1>1, <1>2, AppendElements DEF ToSet
  <1>3. ASSUME NEW x \in ToSet(s) \cup {e} PROVE x \in ToSet(Append(s, e))
    BY <1>1, <1>3, AppendElements DEF ToSet
  <1> QED
    BY <1>2, <1>3

\* What processAudio leaves in a queue: the queue with the packet behind it,
\* without its oldest packet if it was full.
LEMMA LimitOfAppend ==
    ASSUME NEW S, NEW s \in Seq(S), NEW e \in S, Len(s) <= MaxBufferSize
    PROVE  LET r == Limit(Append(s, e))
           IN  /\ r \in Seq(S)
               /\ Len(s) < MaxBufferSize => r = Append(s, e)
               /\ Len(s) = MaxBufferSize =>
                    /\ Len(r) = MaxBufferSize
                    /\ \A i \in 1..Len(r) : r[i] = Append(s, e)[i + 1]
  BY AppendElements, BufferSizeAssumption DEF Limit

\* No packet gets into a queue but the one that came, and that one does.
LEMMA LimitElements ==
    ASSUME NEW S, NEW s \in Seq(S), NEW e \in S, Len(s) <= MaxBufferSize
    PROVE  /\ ToSet(Limit(Append(s, e))) \subseteq ToSet(s) \cup {e}
           /\ e \in ToSet(Limit(Append(s, e)))
  <1> DEFINE a == Append(s, e)
             r == Limit(a)
  <1>1. /\ a \in Seq(S) /\ Len(a) = Len(s) + 1 /\ a[Len(s) + 1] = e
        /\ Len(s) \in Nat /\ ToSet(a) = ToSet(s) \cup {e}
    BY AppendElements, ToSetAppend
  <1>2. CASE Len(s) < MaxBufferSize
    <2>1. r = a
      BY <1>2, LimitOfAppend
    <2> QED
      BY <1>1, <2>1
  <1>3. CASE Len(s) = MaxBufferSize
    <2>1. r \in Seq(S) /\ Len(r) = MaxBufferSize /\ \A i \in 1..Len(r) : r[i] = a[i + 1]
      BY <1>3, LimitOfAppend
    <2> HIDE DEF r, a
    <2>2. ASSUME NEW i \in DOMAIN r PROVE r[i] \in ToSet(a)
      <3>1. i + 1 \in DOMAIN a /\ r[i] = a[i + 1]
        BY <1>1, <1>3, <2>1
      <3> QED
        BY <3>1 DEF ToSet
    <2>3. MaxBufferSize \in DOMAIN r /\ r[MaxBufferSize] = e
      BY <1>1, <1>3, <2>1, BufferSizeAssumption
    <2>4. ToSet(r) \subseteq ToSet(s) \cup {e} /\ e \in ToSet(r)
      BY <1>1, <2>2, <2>3 DEF ToSet
    <2> QED
      BY <2>4 DEF r, a
  <1> QED
    BY <1>1, <1>2, <1>3, BufferSizeAssumption

-----------------------------------------------------------------------------
(* The two ways in which a packet comes in. *)

PacketIn(id) ==
    /\ Store(id)
    /\ UNCHANGED <<clients, timer>> \/ Join(id)
    /\ UNCHANGED <<ready, sentTo, sinceMix>>

\* processAudio, by itself or right after addClient.
LEMMA PacketInCases ==
    ASSUME NEW id
    PROVE  ProcessAudio(id) \/ AddAndProcess(id) => PacketIn(id)
  BY DEF ProcessAudio, AddAndProcess, PacketIn

-----------------------------------------------------------------------------
(* Type correctness. *)

\* An age stays within the ages that ACTIVITY_TIMEOUT tells apart.
LEMMA OlderType ==
    ASSUME NEW age \in Age
    PROVE  Older(age) \in Age
  BY TimeoutAssumption DEF Age, Older, Stale

\* The new room, empty and without a timer, has the right types.
LEMMA InitType == Init => TypeOK
  BY BoundsAssumption, TimeoutAssumption DEF Init, TypeOK, EmptyMap, Age

\* operator[] of audioBuffers_ finds or makes a queue within MAX_BUFFER_SIZE.
LEMMA BufferOfType ==
    ASSUME TypeOK, NEW id \in Ids
    PROVE  BufferOf(id) \in Seq(Packet) /\ Len(BufferOf(id)) <= MaxBufferSize
  BY BufferSizeAssumption DEF TypeOK, BufferOf

\* What mixAndSendAudio mixes for a member is packets.
LEMMA MixType ==
    ASSUME TypeOK, NEW id \in Ids
    PROVE  MixFor(id) \subseteq Packet
  <1>1. ASSUME NEW other \in Fresh PROVE ToSet(audioBuffers[other]) \subseteq Packet
    BY <1>1 DEF Fresh, TypeOK, ToSet
  <1> QED
    BY <1>1 DEF MixFor

\* What the members have been sent stays sequences of sets of packets.
LEMMA SendMixesType ==
    ASSUME TypeOK, SendMixes
    PROVE  sentTo' \in [Ids -> Seq(SUBSET Packet)]
  <1>1. ASSUME NEW id \in Ids
        PROVE  Append(sentTo[id], MixFor(id)) \in Seq(SUBSET Packet)
    BY MixType, AppendElements DEF TypeOK
  <1> QED
    BY <1>1 DEF SendMixes, TypeOK

\* No operation of the room takes a variable out of its type.
LEMMA NextType == TypeOK /\ [Next]_vars => TypeOK'
  <1> SUFFICES ASSUME TypeOK, [Next]_vars PROVE TypeOK'
    OBVIOUS
  <1>1. ASSUME NEW id \in Ids, AddClient(id) PROVE TypeOK'
    BY <1>1 DEF TypeOK, AddClient, Join, startMixingTimer
  <1>2. ASSUME NEW id \in Ids, RemoveClient(id) PROVE TypeOK'
    BY <1>2 DEF TypeOK, RemoveClient, Erase
  <1>3. ASSUME NEW id \in Ids, PacketIn(id) PROVE TypeOK'
    <2> DEFINE packet == [from |-> id, n |-> received'[id]]
               r == Limit(Append(BufferOf(id), packet))
    <2>1. received' \in [Ids -> 0..MaxPackets] /\ received'[id] \in 1..MaxPackets
      BY <1>3, BoundsAssumption DEF PacketIn, Store, Stamp, TypeOK
    <2>2. packet \in Packet
      BY <2>1 DEF Packet
    <2>3. r \in Seq(Packet) /\ Len(r) <= MaxBufferSize
      <3>1. CASE Len(BufferOf(id)) < MaxBufferSize
        BY <3>1, <2>2, BufferOfType, LimitOfAppend, AppendElements, BufferSizeAssumption
      <3>2. CASE Len(BufferOf(id)) = MaxBufferSize
        BY <3>2, <2>2, BufferOfType, LimitOfAppend, BufferSizeAssumption
      <3> QED
        BY <3>1, <3>2, BufferOfType, BufferSizeAssumption
    <2>4. audioBuffers' = Put(audioBuffers, id, r) /\ lastActivity' = Put(lastActivity, id, 0)
      BY <1>3 DEF PacketIn, Store, Stamp
    <2> HIDE DEF r, packet
    <2>5. 0 \in Age
      BY TimeoutAssumption DEF Age
    <2> QED
      BY <1>3, <2>1, <2>3, <2>4, <2>5 DEF TypeOK, PacketIn, Store, Stamp, Put, Join, startMixingTimer
  <1>4. ASSUME TimerExpires PROVE TypeOK'
    BY <1>4, BoundsAssumption DEF TypeOK, TimerExpires
  <1>5. ASSUME MixingTimer PROVE TypeOK'
    <2>1. sentTo' \in [Ids -> Seq(SUBSET Packet)]
      BY <1>5, SendMixesType DEF MixingTimer, mixAndSendAudio
    <2>2. << >> \in Seq(Packet) /\ Len(<< >>) <= MaxBufferSize
      BY BufferSizeAssumption
    <2>3. 0 \in Age
      BY TimeoutAssumption DEF Age
    <2>4. ready' \in 0..MaxReady
      BY <1>5, BoundsAssumption DEF TypeOK, MixingTimer
    <2> QED
      BY <1>5, <2>1, <2>2, <2>3, <2>4
      DEF TypeOK, MixingTimer, mixAndSendAudio, startMixingTimer, Erase
  <1>6. ASSUME ClockTick PROVE TypeOK'
    BY <1>6, OlderType DEF TypeOK, ClockTick
  <1>7. CASE UNCHANGED vars
    BY <1>7 DEF vars, TypeOK
  <1> QED
    BY <1>1, <1>2, <1>3, <1>4, <1>5, <1>6, <1>7, PacketInCases DEF Next, Timing

\* Whoever calls the room and however long it runs, its state keeps its type,
\* and processAudio keeps every queue within MAX_BUFFER_SIZE.
THEOREM TypeCorrect == Spec => []TypeOK
  BY InitType, NextType, PTL DEF Spec

-----------------------------------------------------------------------------
(* The timer. *)

\* A room with members always has a timer that runs: addClient starts it for
\* the first member, the handler re-arms it, and nothing stops it.
THEOREM TimerNeverLost == Spec => []TimerAlive
  <1>1. Init => TimerAlive
    BY DEF Init, TimerAlive
  <1>2. TypeOK /\ TimerAlive /\ [Next]_vars => TimerAlive'
    <2> SUFFICES ASSUME TypeOK, TimerAlive, [Next]_vars PROVE TimerAlive'
      OBVIOUS
    <2>1. ASSUME NEW id \in Ids, AddClient(id) PROVE TimerAlive'
      <3>1. CASE clients = {}
        BY <2>1, <3>1 DEF AddClient, Join, startMixingTimer, TimerAlive
      <3>2. CASE clients # {}
        BY <2>1, <3>2 DEF AddClient, Join, startMixingTimer, TimerAlive
      <3> QED
        BY <3>1, <3>2
    <2>2. ASSUME NEW id \in Ids, RemoveClient(id) PROVE TimerAlive'
      BY <2>2 DEF RemoveClient, TimerAlive
    <2>3. ASSUME NEW id \in Ids, PacketIn(id) PROVE TimerAlive'
      BY <2>3 DEF PacketIn, Join, startMixingTimer, TimerAlive
    <2>4. ASSUME TimerExpires PROVE TimerAlive'
      BY <2>4, BoundsAssumption DEF TimerExpires, TimerAlive, TypeOK
    <2>5. ASSUME MixingTimer PROVE TimerAlive'
      BY <2>5 DEF MixingTimer, startMixingTimer, TimerAlive
    <2>6. ASSUME ClockTick PROVE TimerAlive'
      BY <2>6 DEF ClockTick, TimerAlive
    <2>7. CASE UNCHANGED vars
      BY <2>7 DEF vars, TimerAlive
    <2> QED
      BY <2>1, <2>2, <2>3, <2>4, <2>5, <2>6, <2>7, PacketInCases DEF Next, Timing
  <1> QED
    BY <1>1, <1>2, TypeCorrect, PTL DEF Spec

-----------------------------------------------------------------------------
(* Age of the audio that waits. *)

\* Ages grow together.
LEMMA OlderMonotone ==
    ASSUME NEW a \in Age, NEW b \in Age, a <= b
    PROVE  Older(a) <= Older(b)
  BY TimeoutAssumption DEF Age, Older, Stale

\* clientLastActivity_[id] is an age, also for a key without an entry.
LEMMA ActivityType ==
    ASSUME TypeOK, NEW id
    PROVE  Activity(id) \in Age
  BY TimeoutAssumption DEF TypeOK, Activity, Age, Stale

\* No operation leaves audio waiting from before the last mix.
LEMMA YoungStep == TypeOK /\ WaitingAudioIsYoung /\ [Next]_vars => WaitingAudioIsYoung'
  <1> SUFFICES ASSUME TypeOK, WaitingAudioIsYoung, [Next]_vars PROVE WaitingAudioIsYoung'
    OBVIOUS
  <1>1. ASSUME NEW id \in Ids, AddClient(id) PROVE WaitingAudioIsYoung'
    BY <1>1 DEF AddClient, Join, WaitingAudioIsYoung, Activity
  <1>2. ASSUME NEW id \in Ids, RemoveClient(id) PROVE WaitingAudioIsYoung'
    BY <1>2 DEF RemoveClient, WaitingAudioIsYoung, Activity, Erase
  <1>3. ASSUME NEW id \in Ids, PacketIn(id) PROVE WaitingAudioIsYoung'
    <2> SUFFICES ASSUME NEW k \in DOMAIN audioBuffers', audioBuffers'[k] # << >>
                 PROVE  Activity(k)' <= sinceMix'
      BY DEF WaitingAudioIsYoung
    <2>1. /\ k # id => k \in DOMAIN audioBuffers /\ audioBuffers'[k] = audioBuffers[k]
          /\ DOMAIN lastActivity' = DOMAIN lastActivity \cup {id}
          /\ lastActivity'[id] = 0
          /\ \A j \in DOMAIN lastActivity \ {id} : lastActivity'[j] = lastActivity[j]
          /\ sinceMix' = sinceMix
      BY <1>3 DEF PacketIn, Store, Stamp, Put
    <2>2. CASE k = id
      BY <2>1, <2>2 DEF Activity, TypeOK, Age
    <2>3. CASE k # id
      BY <2>1, <2>3 DEF Activity, WaitingAudioIsYoung
    <2> QED
      BY <2>2, <2>3
  <1>4. ASSUME TimerExpires PROVE WaitingAudioIsYoung'
    BY <1>4 DEF TimerExpires, WaitingAudioIsYoung, Activity
  <1>5. ASSUME MixingTimer PROVE WaitingAudioIsYoung'
    BY <1>5 DEF MixingTimer, mixAndSendAudio, WaitingAudioIsYoung
  <1>6. ASSUME ClockTick PROVE WaitingAudioIsYoung'
    <2> SUFFICES ASSUME NEW k \in DOMAIN audioBuffers, audioBuffers[k] # << >>
                 PROVE  Activity(k)' <= sinceMix'
      BY <1>6 DEF ClockTick, WaitingAudioIsYoung
    <2>1. Activity(k) <= sinceMix /\ sinceMix \in Age /\ Activity(k) \in Age
      BY ActivityType DEF WaitingAudioIsYoung, TypeOK
    <2>2. Activity(k)' = Older(Activity(k))
      BY <1>6, TimeoutAssumption DEF ClockTick, Activity, Older, Stale
    <2>3. sinceMix' = Older(sinceMix)
      BY <1>6 DEF ClockTick
    <2> QED
      BY <2>1, <2>2, <2>3, OlderMonotone
  <1>7. CASE UNCHANGED vars
    BY <1>7 DEF vars, WaitingAudioIsYoung, Activity
  <1> QED
    BY <1>1, <1>2, <1>3, <1>4, <1>5, <1>6, <1>7, PacketInCases DEF Next, Timing

\* The activity check of mixAndSendAudio can only discard audio when the mix
\* itself comes later than the timeout after the one before.
THEOREM AudioStaysYoung == Spec => []WaitingAudioIsYoung
  <1>1. Init => WaitingAudioIsYoung
    BY DEF Init, WaitingAudioIsYoung, EmptyMap
  <1> QED
    BY <1>1, YoungStep, TypeCorrect, PTL DEF Spec

-----------------------------------------------------------------------------
(* The contents of the queues. *)

\* What processAudio does to the state, spelled out for its sender and for
\* everybody else.
LEMMA PacketInEffect ==
    ASSUME TypeOK, NEW id \in Ids, PacketIn(id)
    PROVE  /\ received'[id] = received[id] + 1 /\ received'[id] \in 1..MaxPackets
           /\ \A k \in Ids \ {id} : received'[k] = received[k]
           /\ [from |-> id, n |-> received'[id]] \in Packet
           /\ DOMAIN audioBuffers' = DOMAIN audioBuffers \cup {id}
           /\ audioBuffers'[id] =
                Limit(Append(BufferOf(id), [from |-> id, n |-> received'[id]]))
           /\ \A k \in DOMAIN audioBuffers \ {id} : audioBuffers'[k] = audioBuffers[k]
           /\ sentTo' = sentTo
  <1>1. received[id] \in Nat /\ received[id] < MaxPackets
    BY BoundsAssumption DEF PacketIn, Store, Stamp, TypeOK
  <1>2. /\ received'[id] = received[id] + 1 /\ received'[id] \in 1..MaxPackets
        /\ \A k \in Ids \ {id} : received'[k] = received[k]
    BY <1>1, BoundsAssumption DEF PacketIn, Store, Stamp, TypeOK
  <1> QED
    BY <1>2 DEF PacketIn, Store, Stamp, Put, Packet

\* The queue of id, as a segment of the packets id has handed in.
Segment(id) ==
    \A i \in 1..Len(audioBuffers[id]) :
        audioBuffers[id][i] = [from |-> id, n |-> received[id] - Len(audioBuffers[id]) + i]

\* The new room has no queues.
LEMMA QueuesInit == Init => QueuesHoldTheNewest
  BY DEF Init, QueuesHoldTheNewest, EmptyMap

\* No operation leaves a queue with a gap, out of order or without the newest packet.
LEMMA QueuesStep ==
    TypeOK /\ QueuesHoldTheNewest /\ [Next]_vars => QueuesHoldTheNewest'
  <1> SUFFICES ASSUME TypeOK, QueuesHoldTheNewest, [Next]_vars PROVE QueuesHoldTheNewest'
    OBVIOUS
  <1>1. ASSUME NEW id \in Ids, AddClient(id) PROVE QueuesHoldTheNewest'
    BY <1>1 DEF AddClient, Join, QueuesHoldTheNewest
  <1>2. ASSUME NEW id \in Ids, RemoveClient(id) PROVE QueuesHoldTheNewest'
    BY <1>2 DEF RemoveClient, QueuesHoldTheNewest, Erase
  <1>3. ASSUME NEW id \in Ids, PacketIn(id) PROVE QueuesHoldTheNewest'
    <2> DEFINE s == BufferOf(id)
               packet == [from |-> id, n |-> received'[id]]
               r == Limit(Append(s, packet))
    <2>1. s \in Seq(Packet) /\ Len(s) <= MaxBufferSize /\ Len(s) \in Nat
      BY BufferOfType
    <2>2. packet \in Packet /\ received'[id] = received[id] + 1 /\ received[id] \in Nat
      <3>1. packet \in Packet /\ received'[id] = received[id] + 1
        BY <1>3, PacketInEffect
      <3>2. received[id] \in Nat
        BY BoundsAssumption DEF TypeOK
      <3> QED
        BY <3>1, <3>2
    <2>3. \A i \in 1..Len(s) : s[i] = [from |-> id, n |-> received[id] - Len(s) + i]
      BY DEF BufferOf, QueuesHoldTheNewest
    <2>4. \A i \in 1..Len(Append(s, packet)) :
             Append(s, packet)[i] = [from |-> id, n |-> received[id] - Len(s) + i]
      <3> SUFFICES ASSUME NEW i \in 1..(Len(s) + 1)
                   PROVE  Append(s, packet)[i] = [from |-> id, n |-> received[id] - Len(s) + i]
        BY <2>1, <2>2, AppendElements
      <3>1. CASE i = Len(s) + 1
        <4>1. received[id] - Len(s) + i = received'[id]
          BY <2>1, <2>2, <3>1
        <4>2. Append(s, packet)[i] = packet
          BY <2>1, <2>2, <3>1, AppendElements
        <4> QED
          BY <4>1, <4>2
      <3>2. CASE i \in 1..Len(s)
        <4>1. Append(s, packet)[i] = s[i]
          BY <2>1, <2>2, <3>2, AppendElements
        <4> QED
          BY <4>1, <2>3, <3>2
      <3> QED
        BY <3>1, <3>2, <2>1
    <2>5. \A i \in 1..Len(r) : r[i] = [from |-> id, n |-> received'[id] - Len(r) + i]
      <3>1. CASE Len(s) < MaxBufferSize
        <4>1. r = Append(s, packet) /\ Len(r) = Len(s) + 1
          BY <2>1, <2>2, <3>1, LimitOfAppend, AppendElements
        <4>2. ASSUME NEW i \in 1..Len(r)
              PROVE  received[id] - Len(s) + i = received'[id] - Len(r) + i
          BY <2>1, <2>2, <4>1
        <4> QED
          BY <2>4, <4>1, <4>2
      <3>2. CASE Len(s) = MaxBufferSize
        <4>1. Len(r) = Len(s) /\ \A i \in 1..Len(r) : r[i] = Append(s, packet)[i + 1]
          BY <2>1, <2>2, <3>2, LimitOfAppend
        <4>2. Len(Append(s, packet)) = Len(s) + 1
          BY <2>1, <2>2, AppendElements
        <4> HIDE DEF s, r, packet
        <4>3. ASSUME NEW i \in 1..Len(r)
              PROVE  /\ i + 1 \in 1..Len(Append(s, packet))
                     /\ received[id] - Len(s) + (i + 1) = received'[id] - Len(r) + i
          BY <2>1, <2>2, <4>1, <4>2
        <4> QED
          BY <2>4, <4>1, <4>3
      <3> QED
        BY <3>1, <3>2, <2>1, BufferSizeAssumption
    <2>6. /\ DOMAIN audioBuffers' = DOMAIN audioBuffers \cup {id}
          /\ audioBuffers'[id] = r
          /\ \A k \in DOMAIN audioBuffers \ {id} : audioBuffers'[k] = audioBuffers[k]
          /\ \A k \in Ids \ {id} : received'[k] = received[k]
      BY <1>3, PacketInEffect
    <2> HIDE DEF s, r, packet
    <2>7. ASSUME NEW k \in DOMAIN audioBuffers' PROVE Segment(k)'
      <3>1. CASE k = id
        BY <2>5, <2>6, <3>1 DEF Segment
      <3>2. CASE k # id
        BY <2>6, <3>2 DEF Segment, QueuesHoldTheNewest, TypeOK
      <3> QED
        BY <3>1, <3>2
    <2> QED
      BY <2>7 DEF Segment, QueuesHoldTheNewest
  <1>4. ASSUME TimerExpires PROVE QueuesHoldTheNewest'
    BY <1>4 DEF TimerExpires, QueuesHoldTheNewest
  <1>5. ASSUME MixingTimer PROVE QueuesHoldTheNewest'
    BY <1>5 DEF MixingTimer, mixAndSendAudio, QueuesHoldTheNewest
  <1>6. ASSUME ClockTick PROVE QueuesHoldTheNewest'
    BY <1>6 DEF ClockTick, QueuesHoldTheNewest
  <1>7. CASE UNCHANGED vars
    BY <1>7 DEF vars, QueuesHoldTheNewest
  <1> QED
    BY <1>1, <1>2, <1>3, <1>4, <1>5, <1>6, <1>7, PacketInCases DEF Next, Timing

\* Dropping from the front and clearing leave exactly the newest packets of
\* each sender, in order and without a gap.
THEOREM NewestAreKept == Spec => []QueuesHoldTheNewest
  BY QueuesInit, QueuesStep, TypeCorrect, PTL DEF Spec

-----------------------------------------------------------------------------
(* The order in which members hear packets. *)

\* What makes HeardInOrder inductive: every packet that was sent is older than
\* all those of its sender that still wait.
SentBeforeQueued ==
    \A id \in Ids : \A i \in 1..Len(sentTo[id]) : \A p \in sentTo[id][i] :
        p.n <= received[p.from] - Len(BufferOf(p.from))

OrderInv == TypeOK /\ QueuesHoldTheNewest /\ SentBeforeQueued /\ HeardInOrder

\* The packets of a mix are those that wait in the queues of their senders.
LEMMA MixElements ==
    ASSUME TypeOK, QueuesHoldTheNewest, NEW id \in Ids, NEW p \in MixFor(id)
    PROVE  /\ p \in Packet
           /\ received[p.from] - Len(BufferOf(p.from)) < p.n
           /\ p.n <= received[p.from]
  <1>1. PICK other \in Fresh : p \in ToSet(audioBuffers[other])
    BY DEF MixFor
  <1>2. other \in DOMAIN audioBuffers /\ other \in Ids /\ received[other] \in Nat
    BY <1>1, BoundsAssumption DEF Fresh, TypeOK
  <1>3. audioBuffers[other] \in Seq(Packet) /\ Len(audioBuffers[other]) \in Nat
    BY <1>2 DEF TypeOK
  <1>4. PICK i \in 1..Len(audioBuffers[other]) : p = audioBuffers[other][i]
    BY <1>1, <1>3 DEF ToSet
  <1>5. p = [from |-> other, n |-> received[other] - Len(audioBuffers[other]) + i]
    BY <1>2, <1>4 DEF QueuesHoldTheNewest
  <1>6. p.from = other /\ p.n = received[other] - Len(audioBuffers[other]) + i
    BY <1>5
  <1>7. BufferOf(other) = audioBuffers[other]
    BY <1>2 DEF BufferOf
  <1>8. p \in Packet
    BY <1>3, <1>4
  <1> QED
    BY <1>2, <1>3, <1>4, <1>6, <1>7, <1>8

\* What a mix appends to a member's history.
LEMMA SentToAfterMix ==
    ASSUME TypeOK, SendMixes, NEW id \in Ids
    PROVE  /\ Len(sentTo[id]) \in Nat
           /\ \A i \in 1..Len(sentTo[id]) : sentTo'[id][i] = sentTo[id][i]
           /\ \/ sentTo'[id] = sentTo[id]
              \/ /\ Len(sentTo'[id]) = Len(sentTo[id]) + 1
                 /\ sentTo'[id][Len(sentTo[id]) + 1] = MixFor(id)
  <1>1. sentTo[id] \in Seq(SUBSET Packet) /\ MixFor(id) \in SUBSET Packet
    BY MixType DEF TypeOK
  <1>2. sentTo'[id] = sentTo[id] \/ sentTo'[id] = Append(sentTo[id], MixFor(id))
    BY DEF SendMixes
  <1> QED
    BY <1>1, <1>2, AppendElements

\* In the new room nothing has been sent.
LEMMA OrderInit == Init => OrderInv
  <1>1. Init => SentBeforeQueued /\ HeardInOrder
    BY DEF Init, SentBeforeQueued, HeardInOrder
  <1> QED
    BY <1>1, InitType, QueuesInit DEF OrderInv

\* A step that sends nothing, and after which no queue starts further back,
\* leaves the order as it was.
LEMMA NothingSent ==
    ASSUME OrderInv, TypeOK', sentTo' = sentTo,
           \A k \in Ids : received[k] - Len(BufferOf(k)) <= received'[k] - Len(BufferOf(k))'
    PROVE  SentBeforeQueued' /\ HeardInOrder'
  <1>1. HeardInOrder'
    BY DEF OrderInv, HeardInOrder
  <1>2. SentBeforeQueued'
    <2> SUFFICES ASSUME NEW id \in Ids, NEW i \in 1..Len(sentTo[id]), NEW p \in sentTo[id][i]
                 PROVE  p.n <= received'[p.from] - Len(BufferOf(p.from))'
      BY DEF SentBeforeQueued
    <2>1. p \in Packet
      BY DEF OrderInv, TypeOK
    <2>2. p.from \in Ids /\ p.n \in Nat
      BY <2>1 DEF Packet
    <2>3. p.n <= received[p.from] - Len(BufferOf(p.from))
      BY DEF OrderInv, SentBeforeQueued
    <2>4. /\ received[p.from] \in Nat /\ received'[p.from] \in Nat
          /\ Len(BufferOf(p.from)) \in Nat /\ Len(BufferOf(p.from))' \in Nat
      <3>1. received[p.from] \in Nat /\ received'[p.from] \in Nat
        BY <2>2, BoundsAssumption DEF OrderInv, TypeOK
      <3>2. BufferOf(p.from) \in Seq(Packet) /\ BufferOf(p.from)' \in Seq(Packet)
        BY <2>2, BufferOfType DEF OrderInv, TypeOK, BufferOf
      <3> QED
        BY <3>1, <3>2
    <2>5. received[p.from] - Len(BufferOf(p.from)) <= received'[p.from] - Len(BufferOf(p.from))'
      BY <2>2
    <2> QED
      BY <2>2, <2>3, <2>4, <2>5
  <1> QED
    BY <1>1, <1>2

\* After a mix the queues are empty, and what was appended is newer than what
\* each member had been sent before.
LEMMA MixSent ==
    ASSUME OrderInv, MixingTimer
    PROVE  SentBeforeQueued' /\ HeardInOrder'
  <1>1. TypeOK /\ QueuesHoldTheNewest /\ SendMixes /\ received' = received
    BY DEF OrderInv, MixingTimer, mixAndSendAudio
  <1>2. \A k \in Ids : Len(BufferOf(k))' = 0
    BY DEF MixingTimer, mixAndSendAudio, BufferOf
  <1>3. \A id \in Ids : \A i \in 1..Len(sentTo[id]) : \A p \in sentTo[id][i] :
            p \in Packet /\ p.n <= received[p.from] - Len(BufferOf(p.from))
    BY <1>1 DEF OrderInv, TypeOK, SentBeforeQueued
  <1>4. \A p \in Packet : /\ p.from \in Ids /\ p.n \in Nat /\ received[p.from] \in Nat
                           /\ Len(BufferOf(p.from)) \in Nat
    <2> SUFFICES ASSUME NEW p \in Packet
                 PROVE  /\ p.from \in Ids /\ p.n \in Nat /\ received[p.from] \in Nat
                        /\ Len(BufferOf(p.from)) \in Nat
      OBVIOUS
    <2>1. p.from \in Ids /\ p.n \in Nat
      BY DEF Packet
    <2>2. received[p.from] \in Nat
      BY <1>1, <2>1, BoundsAssumption DEF TypeOK
    <2>3. BufferOf(p.from) \in Seq(Packet)
      BY <1>1, <2>1, BufferOfType
    <2> QED
      BY <2>1, <2>2, <2>3
  <1>5. SentBeforeQueued'
    <2> SUFFICES ASSUME NEW id \in Ids, NEW i \in 1..Len(sentTo'[id]), NEW p \in sentTo'[id][i]
                 PROVE  p.n <= received'[p.from] - Len(BufferOf(p.from))'
      BY DEF SentBeforeQueued
    <2>1. p \in Packet /\ p.n <= received[p.from]
      <3>1. CASE i \in 1..Len(sentTo[id])
        <4>1. p \in sentTo[id][i]
          BY <1>1, <3>1, SentToAfterMix
        <4> QED
          BY <1>3, <1>4, <3>1, <4>1
      <3>2. CASE i \notin 1..Len(sentTo[id])
        <4>1. p \in MixFor(id)
          BY <1>1, <3>2, SentToAfterMix
        <4> QED
          BY <1>1, <4>1, MixElements
      <3> QED
        BY <3>1, <3>2
    <2> QED
      BY <1>1, <1>2, <1>4, <2>1
  <1>6. HeardInOrder'
    <2> SUFFICES ASSUME NEW id \in Ids,
                        NEW i \in 1..Len(sentTo'[id]), NEW j \in 1..Len(sentTo'[id]), i < j,
                        NEW p \in sentTo'[id][i], NEW q \in sentTo'[id][j], p.from = q.from
                 PROVE  p.n < q.n
      BY DEF HeardInOrder
    <2>1. i \in 1..Len(sentTo[id]) /\ p \in sentTo[id][i]
      BY <1>1, SentToAfterMix
    <2>2. CASE j \in 1..Len(sentTo[id])
      <3>1. q \in sentTo[id][j]
        BY <1>1, <2>2, SentToAfterMix
      <3> QED
        BY <2>1, <2>2, <3>1 DEF OrderInv, HeardInOrder
    <2>3. CASE j \notin 1..Len(sentTo[id])
      <3>1. q \in MixFor(id)
        BY <1>1, <2>3, SentToAfterMix
      <3>2. q \in Packet /\ received[q.from] - Len(BufferOf(q.from)) < q.n
        BY <1>1, <3>1, MixElements
      <3>3. p \in Packet /\ p.n <= received[p.from] - Len(BufferOf(p.from))
        BY <1>3, <2>1
      <3> QED
        BY <1>4, <3>2, <3>3
    <2> QED
      BY <2>2, <2>3
  <1> QED
    BY <1>5, <1>6

\* No operation makes a member hear a packet twice or after a later one.
LEMMA OrderStep == OrderInv /\ [Next]_vars => OrderInv'
  <1> SUFFICES ASSUME OrderInv, [Next]_vars PROVE OrderInv'
    OBVIOUS
  <1>1. TypeOK' /\ QueuesHoldTheNewest'
    BY NextType, QueuesStep DEF OrderInv
  <1> DEFINE start(k) == received[k] - Len(BufferOf(k))
             QuietStep == sentTo' = sentTo /\ \A k \in Ids : start(k) <= start(k)'
  <1>2. QuietStep => SentBeforeQueued' /\ HeardInOrder'
    BY <1>1, NothingSent
  <1>3. \A k \in Ids : received[k] \in Nat /\ BufferOf(k) \in Seq(Packet)
                       /\ Len(BufferOf(k)) \in Nat /\ Len(BufferOf(k)) <= MaxBufferSize
    BY BufferOfType, BoundsAssumption DEF OrderInv, TypeOK
  <1>4. ASSUME NEW id \in Ids, AddClient(id) PROVE QuietStep
    BY <1>3, <1>4 DEF AddClient, Join, BufferOf
  <1>5. ASSUME NEW id \in Ids, RemoveClient(id) PROVE QuietStep
    <2> SUFFICES ASSUME NEW k \in Ids PROVE start(k) <= start(k)'
      BY <1>5 DEF RemoveClient
    <2>1. CASE k = id
      <3>1. BufferOf(k)' = << >> /\ received' = received
        BY <1>5, <2>1 DEF RemoveClient, BufferOf, Erase
      <3> QED
        BY <1>3, <3>1
    <2>2. CASE k # id
      <3>1. BufferOf(k)' = BufferOf(k) /\ received' = received
        BY <1>5, <2>2 DEF RemoveClient, BufferOf, Erase
      <3> QED
        BY <1>3, <3>1
    <2> QED
      BY <2>1, <2>2
  <1>6. ASSUME NEW id \in Ids, PacketIn(id) PROVE QuietStep
    <2>1. sentTo' = sentTo
      BY <1>6 DEF PacketIn, Store, Stamp
    <2> SUFFICES ASSUME NEW k \in Ids PROVE start(k) <= start(k)'
      BY <2>1
    <2>2. CASE k = id
      <3> DEFINE packet == [from |-> id, n |-> received'[id]]
      <3>1. /\ received'[id] = received[id] + 1 /\ packet \in Packet
            /\ BufferOf(id)' = Limit(Append(BufferOf(id), packet))
        BY <1>6, PacketInEffect DEF OrderInv, BufferOf
      <3>2. Len(Append(BufferOf(id), packet)) = Len(BufferOf(id)) + 1
        BY <1>3, <3>1, AppendElements
      <3>3. Len(BufferOf(id))' \in Nat /\ Len(BufferOf(id))' <= Len(BufferOf(id)) + 1
        <4>1. CASE Len(BufferOf(id)) < MaxBufferSize
          BY <1>3, <3>1, <3>2, <4>1, LimitOfAppend
        <4>2. CASE Len(BufferOf(id)) = MaxBufferSize
          BY <1>3, <3>1, <3>2, <4>2, LimitOfAppend, BufferSizeAssumption
        <4> QED
          BY <4>1, <4>2, <1>3, BufferSizeAssumption
      <3> QED
        BY <1>3, <2>2, <3>1, <3>3
    <2>3. CASE k # id
      <3>1. BufferOf(k)' = BufferOf(k) /\ received'[k] = received[k]
        BY <1>6, <2>3, PacketInEffect DEF OrderInv, BufferOf
      <3> QED
        BY <1>3, <3>1
    <2> QED
      BY <2>2, <2>3
  <1>7. ASSUME TimerExpires PROVE QuietStep
    BY <1>3, <1>7 DEF TimerExpires, BufferOf
  <1>8. ASSUME ClockTick PROVE QuietStep
    BY <1>3, <1>8 DEF ClockTick, BufferOf
  <1>9. CASE UNCHANGED vars
    <2>1. QuietStep
      BY <1>3, <1>9 DEF vars, BufferOf
    <2> QED
      BY <1>1, <1>2, <2>1 DEF OrderInv
  <1>10. ASSUME MixingTimer PROVE SentBeforeQueued' /\ HeardInOrder'
    BY <1>10, MixSent
  <1> HIDE DEF QuietStep
  <1> QED
    BY <1>1, <1>2, <1>4, <1>5, <1>6, <1>7, <1>8, <1>9, <1>10, PacketInCases DEF Next, Timing, OrderInv

\* No member is sent a packet twice, or after a later one of the same sender.
THEOREM NothingHeardTwice == Spec => []HeardInOrder
  <1>1. OrderInv => HeardInOrder
    BY DEF OrderInv
  <1> QED
    BY OrderInit, OrderStep, <1>1, PTL DEF Spec

-----------------------------------------------------------------------------
(* How many mixes a member is sent. *)

\* A member is never called with nothing to hear: mixAndSendAudio skips a mix
\* without packets.
MixesHaveAudio == \A id \in Ids : \A i \in 1..Len(sentTo[id]) : sentTo[id][i] # {}

\* Each mix has a packet that no other mix of the same member has, so that there
\* are no more mixes than packets.
LEMMA MixesBounded ==
    ASSUME IsFiniteSet(Ids), TypeOK, HeardInOrder, MixesHaveAudio, NEW id \in Ids
    PROVE  Len(sentTo[id]) \in Nat /\ Len(sentTo[id]) <= MaxPackets * Cardinality(Ids)
  <1> DEFINE len == Len(sentTo[id])
             one(i) == CHOOSE p \in sentTo[id][i] : TRUE
             name == [i \in 1..len |-> <<one(i).from, one(i).n>>]
             names == Ids \X (1..MaxPackets)
  <1>1. sentTo[id] \in Seq(SUBSET Packet) /\ len \in Nat
    BY DEF TypeOK
  <1>2. ASSUME NEW i \in 1..len
        PROVE  one(i) \in sentTo[id][i] /\ one(i).from \in Ids /\ one(i).n \in 1..MaxPackets
    <2>1. one(i) \in sentTo[id][i]
      BY DEF MixesHaveAudio
    <2>2. one(i) \in Packet
      BY <1>1, <2>1
    <2> QED
      BY <2>1, <2>2 DEF Packet
  <1>3. ASSUME NEW i \in 1..len, NEW j \in 1..len, i < j PROVE name[i] # name[j]
    <2>1. one(i).from = one(j).from => one(i).n < one(j).n
      BY <1>2, <1>3 DEF HeardInOrder
    <2>2. one(i).n \in Nat /\ one(j).n \in Nat
      BY <1>2, BoundsAssumption
    <2> HIDE DEF one
    <2> QED
      BY <2>1, <2>2
  <1>4. name \in [1..len -> names]
    BY <1>2
  <1>5. \A i, j \in 1..len : name[i] = name[j] => i = j
    <2> HIDE DEF name
    <2> QED
      BY <1>3
  <1>6. name \in Injection(1..len, names)
    <2> HIDE DEF name, names
    <2> QED
      BY <1>4, <1>5 DEF Injection, IsInjective
  <1>7. /\ IsFiniteSet(names)
        /\ Cardinality(names) = Cardinality(Ids) * Cardinality(1..MaxPackets)
    <2>1. IsFiniteSet(1..MaxPackets)
      BY FS_Interval, BoundsAssumption
    <2> QED
      BY <2>1, FS_Product
  <1>8. Cardinality(1..MaxPackets) = MaxPackets /\ Cardinality(1..len) = len
    BY <1>1, FS_Interval, BoundsAssumption
  <1>9. Cardinality(1..len) <= Cardinality(names)
    <2> HIDE DEF name, names
    <2> QED
      BY <1>6, <1>7, FS_Injection
  <1>10. Cardinality(Ids) \in Nat
    BY FS_CardinalityType
  <1> HIDE DEF len, names
  <1>11. len <= Cardinality(Ids) * MaxPackets
    BY <1>7, <1>8, <1>9
  <1>12. Cardinality(Ids) * MaxPackets = MaxPackets * Cardinality(Ids)
    BY <1>10, BoundsAssumption
  <1> QED
    BY <1>1, <1>11, <1>12 DEF len

\* Only mixAndSendAudio calls send(), and never with an empty mix.
LEMMA MixesStep == TypeOK /\ MixesHaveAudio /\ [Next]_vars => MixesHaveAudio'
  <1> SUFFICES ASSUME TypeOK, MixesHaveAudio, [Next]_vars PROVE MixesHaveAudio'
    OBVIOUS
  <1>1. CASE sentTo' = sentTo
    BY <1>1 DEF MixesHaveAudio
  <1>2. CASE MixingTimer
    <2> SUFFICES ASSUME NEW id \in Ids, NEW i \in 1..Len(sentTo'[id]) PROVE sentTo'[id][i] # {}
      BY DEF MixesHaveAudio
    <2>1. SendMixes
      BY <1>2 DEF MixingTimer, mixAndSendAudio
    <2>2. CASE i \in 1..Len(sentTo[id])
      BY <2>1, <2>2, SentToAfterMix DEF MixesHaveAudio
    <2>3. CASE i \notin 1..Len(sentTo[id])
      <3>1. sentTo'[id] # sentTo[id] /\ sentTo'[id][i] = MixFor(id)
        BY <2>1, <2>3, SentToAfterMix
      <3> QED
        BY <2>1, <3>1 DEF SendMixes
    <2> QED
      BY <2>2, <2>3
  <1>3. sentTo' = sentTo \/ MixingTimer
    BY PacketInCases DEF Next, Timing, AddClient, RemoveClient, PacketIn, Store, TimerExpires,
                         ClockTick, vars
  <1> QED
    BY <1>1, <1>2, <1>3

\* At most one mix for each packet that clients may hand in.
FewMixes == \A id \in Ids : Len(sentTo[id]) <= MaxPackets * Cardinality(Ids)

\* A member is sent at most one mix for each packet that was handed in, however
\* often the timer goes off.
THEOREM MixesAreFew ==
    ASSUME IsFiniteSet(Ids)
    PROVE  Spec => []FewMixes
  <1>1. TypeOK /\ HeardInOrder /\ MixesHaveAudio => FewMixes
    BY MixesBounded DEF FewMixes
  <1>2. Init => MixesHaveAudio
    BY DEF Init, MixesHaveAudio
  <1> QED
    BY <1>1, <1>2, MixesStep, TypeCorrect, NothingHeardTwice, PTL DEF Spec

-----------------------------------------------------------------------------
(* How packets leave the queues. *)

\* The ways in which packet p of id may leave, as LossAccounted lists them.
Accounted(id, p) ==
    \/ p \in Waiting'
    \/ \A other \in clients \ {id} : p \in Heard(other)'
    \/ p.n = received'[id] - MaxBufferSize
    \/ id \notin clients'
    \/ sinceMix > ActivityTimeout

\* What a queue holds is waiting.
LEMMA QueuedWaits ==
    ASSUME NEW id \in DOMAIN audioBuffers, NEW p \in ToSet(audioBuffers[id])
    PROVE  p \in Waiting
  BY DEF Waiting

\* A packet that is not waiting after processAudio was the oldest of a full queue.
LEMMA LossByPacketIn ==
    ASSUME TypeOK, QueuesHoldTheNewest, NEW sender \in Ids, PacketIn(sender),
           NEW id \in DOMAIN audioBuffers, NEW p \in ToSet(audioBuffers[id])
    PROVE  Accounted(id, p)
  <1>1. id \in DOMAIN audioBuffers' /\ id \in Ids
    BY PacketInEffect DEF TypeOK
  <1> SUFFICES p \in ToSet(audioBuffers'[id]) \/ p.n = received'[id] - MaxBufferSize
    BY <1>1 DEF Accounted, Waiting
  <1>2. CASE id # sender
    <2>1. audioBuffers'[id] = audioBuffers[id]
      BY <1>2, PacketInEffect
    <2> QED
      BY <2>1
  <1>3. CASE id = sender
    <2> DEFINE s == audioBuffers[id]
               packet == [from |-> id, n |-> received'[id]]
               r == audioBuffers'[id]
    <2>1. s \in Seq(Packet) /\ Len(s) \in Nat /\ Len(s) <= MaxBufferSize
      BY DEF TypeOK
    <2>2. packet \in Packet /\ r = Limit(Append(s, packet)) /\ received'[id] = received[id] + 1
      BY <1>3, PacketInEffect DEF BufferOf
    <2>3. received[id] \in Nat
      BY <1>1, BoundsAssumption DEF TypeOK
    <2>4. PICK i \in 1..Len(s) : p = s[i]
      BY <2>1 DEF ToSet
    <2>5. p = [from |-> id, n |-> received[id] - Len(s) + i]
      BY <2>4 DEF QueuesHoldTheNewest
    <2>6. Append(s, packet) \in Seq(Packet) /\ Append(s, packet)[i] = p
          /\ Len(Append(s, packet)) = Len(s) + 1
      BY <2>1, <2>2, <2>4, AppendElements
    <2> HIDE DEF r, packet
    <2>7. CASE Len(s) < MaxBufferSize
      <3>1. r = Append(s, packet)
        BY <2>1, <2>2, <2>7, LimitOfAppend
      <3>2. i \in DOMAIN Append(s, packet)
        BY <2>1, <2>4, <2>6
      <3> QED
        BY <2>6, <3>1, <3>2 DEF ToSet, r
    <2>8. CASE Len(s) = MaxBufferSize
      <3>1. /\ r \in Seq(Packet) /\ Len(r) = MaxBufferSize
            /\ \A k \in 1..Len(r) : r[k] = Append(s, packet)[k + 1]
        BY <2>1, <2>2, <2>8, LimitOfAppend
      <3>2. CASE i = 1
        <4>1. p.n = received[id] - MaxBufferSize + 1
          BY <2>5, <2>8, <3>2
        <4> QED
          BY <2>2, <2>3, <4>1, BufferSizeAssumption
      <3>3. CASE i # 1
        <4>1. i - 1 \in 1..Len(r) /\ (i - 1) + 1 = i
          BY <2>1, <2>4, <2>8, <3>1, <3>3
        <4>2. r[i - 1] = p
          BY <2>6, <3>1, <4>1
        <4>3. i - 1 \in DOMAIN r
          BY <3>1, <4>1
        <4> QED
          BY <4>2, <4>3 DEF ToSet, r
      <3> QED
        BY <3>2, <3>3
    <2> QED
      BY <2>1, <2>7, <2>8, BufferSizeAssumption
  <1> QED
    BY <1>2, <1>3

\* A packet that mixAndSendAudio takes out of its queue was sent to all others,
\* or had a reason not to be.
LEMMA LossByMix ==
    ASSUME TypeOK, WaitingAudioIsYoung, MixingTimer,
           NEW id \in DOMAIN audioBuffers, NEW p \in ToSet(audioBuffers[id])
    PROVE  Accounted(id, p)
  <1>1. CASE id \in Fresh
    <2> SUFFICES ASSUME NEW other \in clients \ {id} PROVE p \in Heard(other)'
      BY DEF Accounted
    <2>1. other \in Ids /\ p \in MixFor(other)
      BY <1>1 DEF MixFor, TypeOK
    <2>2. sentTo'[other] = Append(sentTo[other], MixFor(other))
      BY <2>1 DEF MixingTimer, mixAndSendAudio, SendMixes
    <2>3. sentTo[other] \in Seq(SUBSET Packet) /\ MixFor(other) \in SUBSET Packet
      BY <2>1, MixType DEF TypeOK
    <2>4. MixFor(other) \in ToSet(sentTo'[other])
      BY <2>2, <2>3, ToSetAppend
    <2> QED
      BY <2>1, <2>4 DEF Heard
  <1>2. CASE id \notin Fresh
    <2>1. audioBuffers[id] # << >>
      BY DEF ToSet
    <2>2. Activity(id) <= sinceMix /\ ~ (Activity(id) <= ActivityTimeout)
      BY <1>2, <2>1 DEF WaitingAudioIsYoung, Fresh
    <2>3. Activity(id) \in Nat /\ sinceMix \in Nat
      BY ActivityType, TimeoutAssumption DEF TypeOK, Age
    <2> QED
      BY <2>2, <2>3, TimeoutAssumption DEF Accounted
  <1> QED
    BY <1>1, <1>2

\* No packet is lost without a reason: a step takes it out of its queue only
\* to send it to everybody else, because its queue is full, because its sender
\* is not a member, or because the mix is late.
THEOREM NothingLostWithoutReason == Spec => LossAccounted
  <1> DEFINE Inv == TypeOK /\ QueuesHoldTheNewest /\ WaitingAudioIsYoung
             Step == \A id \in DOMAIN audioBuffers : \A p \in ToSet(audioBuffers[id]) :
                        Accounted(id, p)
  <1>1. Inv /\ [Next]_vars => [Step]_vars
    <2> SUFFICES ASSUME Inv, Next,
                        NEW id \in DOMAIN audioBuffers, NEW p \in ToSet(audioBuffers[id])
                 PROVE  Accounted(id, p)
      OBVIOUS
    <2>1. audioBuffers' = audioBuffers => Accounted(id, p)
      BY DEF Accounted, Waiting
    <2>2. ASSUME NEW c \in Ids, RemoveClient(c) PROVE Accounted(id, p)
      <3>1. CASE id = c
        BY <2>2, <3>1 DEF RemoveClient, Accounted
      <3>2. CASE id # c
        <4>1. id \in DOMAIN audioBuffers' /\ audioBuffers'[id] = audioBuffers[id]
          BY <2>2, <3>2 DEF RemoveClient, Erase
        <4> QED
          BY <4>1 DEF Accounted, Waiting
      <3> QED
        BY <3>1, <3>2
    <2>3. ASSUME NEW c \in Ids, PacketIn(c) PROVE Accounted(id, p)
      BY <2>3, LossByPacketIn
    <2>4. ASSUME MixingTimer PROVE Accounted(id, p)
      BY <2>4, LossByMix
    <2>5. (\E c \in Ids : AddClient(c)) \/ TimerExpires \/ ClockTick
            => audioBuffers' = audioBuffers
      BY DEF AddClient, Join, TimerExpires, ClockTick
    <2> QED
      BY <2>1, <2>2, <2>3, <2>4, <2>5, PacketInCases DEF Next, Timing
  <1>2. Spec => [][Step]_vars
    <2> HIDE DEF Step
    <2> QED
      BY <1>1, TypeCorrect, NewestAreKept, AudioStaysYoung, PTL DEF Spec
  <1> QED
    BY <1>2 DEF LossAccounted, Accounted

-----------------------------------------------------------------------------
(* The room implements the conference. *)

Said == {p \in Packet : p.n <= received[p.from]}

HeardBy == [id \in Ids |-> Heard(id)]

Overdue == sinceMix > ActivityTimeout

\* A packet in a queue is one of the queue's owner.
LEMMA QueuedPacket ==
    ASSUME TypeOK, QueuesHoldTheNewest,
           NEW id \in DOMAIN audioBuffers, NEW p \in ToSet(audioBuffers[id])
    PROVE  p \in Packet /\ p.from = id
  <1>1. audioBuffers[id] \in Seq(Packet)
    BY DEF TypeOK
  <1>2. PICK i \in 1..Len(audioBuffers[id]) : p = audioBuffers[id][i]
    BY <1>1 DEF ToSet
  <1>3. p = [from |-> id, n |-> received[id] - Len(audioBuffers[id]) + i]
    BY <1>2 DEF QueuesHoldTheNewest
  <1>4. p.from = id
    BY <1>3
  <1> QED
    BY <1>1, <1>2, <1>4

\* The waiting packets are those that lie in the queue of their sender.
WaitingShape ==
    \A p : p \in Waiting <=> /\ p \in Packet
                            /\ p.from \in DOMAIN audioBuffers
                            /\ p \in ToSet(audioBuffers[p.from])

\* What waits is found in the queue of its sender, and nowhere else.
LEMMA WaitingPackets == TypeOK /\ QueuesHoldTheNewest => WaitingShape
  BY QueuedPacket DEF Waiting, WaitingShape

\* The same after a step.
LEMMA WaitingPacketsAfter == TypeOK' /\ QueuesHoldTheNewest' => WaitingShape'
  BY WaitingPackets, PTL

\* The new room is a new conference.
LEMMA ConferenceInit == Init => Promise!Init
  <1> SUFFICES ASSUME Init PROVE Promise!Init
    OBVIOUS
  <1>1. Waiting = {}
    BY DEF Init, Waiting, EmptyMap
  <1>2. Said = {}
    BY DEF Init, Said, Packet
  <1>3. \A id \in Ids : Heard(id) = {}
    BY DEF Init, Heard, ToSet
  <1>4. ~Overdue
    BY TimeoutAssumption DEF Init, Overdue
  <1> QED
    BY <1>1, <1>2, <1>3, <1>4 DEF Promise!Init, Init, Said, Overdue

\* removeClient is Leave: the packets of the member go with it.
LEMMA ConferenceLeave ==
    ASSUME TypeOK, TypeOK', QueuesHoldTheNewest, QueuesHoldTheNewest',
           NEW id \in Ids, RemoveClient(id)
    PROVE  Promise!Leave(id)
  <1>1. Waiting' = Waiting \ Promise!By(id)
    <2>1. /\ DOMAIN audioBuffers' = DOMAIN audioBuffers \ {id}
          /\ \A k \in DOMAIN audioBuffers' : audioBuffers'[k] = audioBuffers[k]
      BY DEF RemoveClient, Erase
    <2>2. ASSUME NEW p
          PROVE  p \in Waiting' <=> p \in Waiting /\ ~(p \in Packet /\ p.from = id)
      BY <2>1, WaitingPackets, WaitingPacketsAfter DEF WaitingShape
    <2> QED
      BY <2>2 DEF Promise!By
  <1>2. /\ clients' = clients \ {id}
        /\ UNCHANGED <<received, sentTo, sinceMix>>
    BY DEF RemoveClient
  <1> QED
    BY <1>1, <1>2 DEF Promise!Leave, Heard

\* processAudio, with or without addClient before it, is Say.
LEMMA ConferenceSay ==
    ASSUME TypeOK, TypeOK', QueuesHoldTheNewest, QueuesHoldTheNewest',
           NEW id \in Ids, PacketIn(id)
    PROVE  \E p \in Packet : Promise!Say(p)
  <1>0. PICK packet \in Packet : packet = [from |-> id, n |-> received'[id]]
    BY PacketInEffect
  <1>1. /\ packet \in Packet /\ packet.from = id /\ packet.n = received'[id]
        /\ received'[id] = received[id] + 1 /\ received[id] \in Nat
        /\ \A k \in Ids \ {id} : received'[k] = received[k]
    <2>1. received[id] \in Nat
      BY BoundsAssumption DEF TypeOK
    <2> QED
      BY <1>0, <2>1, PacketInEffect
  <1>2. audioBuffers'[id] = Limit(Append(BufferOf(id), packet))
        /\ DOMAIN audioBuffers' = DOMAIN audioBuffers \cup {id}
        /\ \A k \in DOMAIN audioBuffers \ {id} : audioBuffers'[k] = audioBuffers[k]
    BY <1>0, PacketInEffect
  <1>3. packet \notin Said
    BY <1>1 DEF Said
  <1>4. Said' = Said \cup {packet}
    <2>1. ASSUME NEW p \in Packet PROVE p.n <= received'[p.from] <=> p.n <= received[p.from] \/ p = packet
      <3>1. p.from \in Ids /\ p.n \in Nat /\ p = [from |-> p.from, n |-> p.n]
        BY DEF Packet
      <3>2. packet = [from |-> id, n |-> received'[id]]
        BY <1>0
      <3>3. CASE p.from = id
        <4>1. p = packet <=> p.n = received[id] + 1
          BY <1>1, <3>1, <3>2, <3>3
        <4> QED
          BY <1>1, <3>1, <3>3, <4>1
      <3>4. CASE p.from # id
        BY <1>1, <3>1, <3>4
      <3> QED
        BY <3>3, <3>4
    <2> QED
      BY <1>1, <2>1 DEF Said
  <1> DEFINE lost == {p \in Waiting : p.from = id /\ p \notin ToSet(audioBuffers'[id])}
  <1>5. BufferOf(id) \in Seq(Packet) /\ Len(BufferOf(id)) \in Nat /\ Len(BufferOf(id)) <= MaxBufferSize
    BY BufferOfType
  <1>6. ToSet(audioBuffers'[id]) \subseteq ToSet(BufferOf(id)) \cup {packet}
    BY <1>1, <1>2, <1>5, LimitElements
  <1>7. packet \in ToSet(audioBuffers'[id])
    BY <1>1, <1>2, <1>5, LimitElements
  <1>8. Waiting' = (Waiting \ lost) \cup {packet}
    <2>0. WaitingShape /\ WaitingShape'
      BY WaitingPackets, WaitingPacketsAfter
    <2>1. ASSUME NEW p, p.from # id PROVE p \in Waiting' <=> p \in Waiting
      BY <1>2, <2>0, <2>1 DEF WaitingShape
    <2>2. ASSUME NEW p, p.from = id
          PROVE  p \in Waiting' <=> p \in ToSet(audioBuffers'[id])
      <3>1. audioBuffers'[id] \in Seq(Packet)
        BY <1>2 DEF TypeOK
      <3>2. ToSet(audioBuffers'[id]) \subseteq Packet
        BY <3>1 DEF ToSet
      <3> QED
        BY <1>2, <2>0, <2>2, <3>2 DEF WaitingShape
    <2>3. ASSUME NEW p, p \in ToSet(BufferOf(id)), p.from = id PROVE p \in Waiting
      BY <2>3 DEF BufferOf, Waiting, ToSet
    <2>4. ASSUME NEW p \in Waiting' PROVE p \in (Waiting \ lost) \cup {packet}
      BY <1>6, <2>1, <2>2, <2>3
    <2>5. ASSUME NEW p \in (Waiting \ lost) \cup {packet} PROVE p \in Waiting'
      BY <1>1, <1>7, <2>1, <2>2
    <2> QED
      BY <2>4, <2>5
  <1>9. lost \in SUBSET (Waiting \cap Promise!By(packet.from))
    BY <1>1, WaitingPackets DEF WaitingShape, Promise!By
  <1> HIDE DEF lost
  <1>10. clients' \in {clients, clients \cup {packet.from}} /\ UNCHANGED <<sentTo, sinceMix>>
    BY <1>1 DEF PacketIn, Join
  <1>11. Promise!Say(packet)
    <2>1. \E l \in SUBSET (Waiting \cap Promise!By(packet.from)) :
             Waiting' = (Waiting \ l) \cup {packet}
      BY <1>8, <1>9
    <2>2. \A k \in Ids : Heard(k)' = Heard(k)
      BY <1>10 DEF Heard
    <2> QED
      BY <1>3, <1>4, <1>10, <2>1, <2>2 DEF Promise!Say, Said
  <1> QED
    BY <1>11

\* The handler of the mixing timer is Deliver.
LEMMA ConferenceDeliver ==
    ASSUME TypeOK, TypeOK', QueuesHoldTheNewest, WaitingAudioIsYoung, MixingTimer
    PROVE  Promise!Deliver
  <1> DEFINE passed == {id \in DOMAIN audioBuffers \ Fresh : audioBuffers[id] # << >>}
  <1>1. passed \in SUBSET Ids
    BY DEF TypeOK
  <1>2. passed = {} \/ Overdue
    <2> SUFFICES ASSUME NEW id \in passed PROVE Overdue
      OBVIOUS
    <2>1. Activity(id) <= sinceMix /\ ~(Activity(id) <= ActivityTimeout)
      BY DEF WaitingAudioIsYoung, Fresh
    <2>2. Activity(id) \in Nat /\ sinceMix \in Nat
      BY ActivityType, TimeoutAssumption DEF TypeOK, Age
    <2> QED
      BY <2>1, <2>2, TimeoutAssumption DEF Overdue
  <1>3. ASSUME NEW id \in Ids
        PROVE  MixFor(id) = {p \in Waiting : p.from \notin passed \cup {id}}
    <2>1. ASSUME NEW p \in MixFor(id)
          PROVE  p \in Waiting /\ p.from \notin passed \cup {id}
      <3>1. PICK other \in Fresh \ {id} : p \in ToSet(audioBuffers[other])
        BY DEF MixFor
      <3>2. other \in DOMAIN audioBuffers /\ audioBuffers[other] \in Seq(Packet)
        BY <3>1 DEF Fresh, TypeOK
      <3>3. p.from = other
        BY <3>1, <3>2, QueuedPacket
      <3> QED
        BY <3>1, <3>2, <3>3 DEF Waiting
    <2>2. ASSUME NEW p \in Waiting, p.from \notin passed \cup {id}
          PROVE  p \in MixFor(id)
      <3>1. p.from \in DOMAIN audioBuffers /\ p \in ToSet(audioBuffers[p.from])
        BY WaitingPackets DEF WaitingShape
      <3>2. audioBuffers[p.from] # << >>
        BY <3>1 DEF ToSet
      <3> QED
        BY <2>2, <3>1, <3>2 DEF MixFor
    <2> QED
      BY <2>1, <2>2
  <1> HIDE DEF passed
  <1>4. ASSUME NEW id \in Ids
        PROVE  Heard(id)' = IF id \in clients THEN Heard(id) \cup MixFor(id) ELSE Heard(id)
    <2>1. sentTo[id] \in Seq(SUBSET Packet) /\ MixFor(id) \in SUBSET Packet
      BY MixType DEF TypeOK
    <2>2. sentTo'[id] = IF id \in clients /\ MixFor(id) # {}
                        THEN Append(sentTo[id], MixFor(id)) ELSE sentTo[id]
      BY DEF MixingTimer, mixAndSendAudio, SendMixes
    <2>3. CASE id \in clients /\ MixFor(id) # {}
      <3>1. ToSet(sentTo'[id]) = ToSet(sentTo[id]) \cup {MixFor(id)}
        BY <2>1, <2>2, <2>3, ToSetAppend
      <3> QED
        BY <2>3, <3>1 DEF Heard
    <2>4. CASE ~(id \in clients /\ MixFor(id) # {})
      BY <2>2, <2>4 DEF Heard
    <2> QED
      BY <2>3, <2>4
  <1>5. Waiting' = {}
    BY DEF MixingTimer, mixAndSendAudio, Waiting, ToSet
  <1>6. ~Overdue'
    BY TimeoutAssumption DEF MixingTimer, mixAndSendAudio, Overdue
  <1>7. UNCHANGED <<clients, received>>
    BY DEF MixingTimer
  <1>8. HeardBy' = [id \in Ids |-> IF id \in clients
                                   THEN HeardBy[id] \cup {p \in Waiting : p.from \notin passed \cup {id}}
                                   ELSE HeardBy[id]]
    BY <1>3, <1>4 DEF HeardBy
  <1> QED
    BY <1>1, <1>2, <1>5, <1>6, <1>7, <1>8 DEF Promise!Deliver, HeardBy, Overdue

\* Each step of the room is a step of the conference, or leaves it alone: what
\* the members hear is what the conference allows them to hear, whoever calls
\* the room, in whatever order, and however the timer runs.
THEOREM RoomImplementsConference == Spec => ConferenceSafe
  <1> DEFINE Inv == TypeOK /\ QueuesHoldTheNewest /\ WaitingAudioIsYoung
  <1>1. Inv /\ Inv' /\ [Next]_vars => [Promise!Next]_(Promise!vars)
    <2> SUFFICES ASSUME Inv, Inv', [Next]_vars
                 PROVE  Promise!Next \/ UNCHANGED Promise!vars
      BY DEF Promise!vars
    <2>1. ASSUME NEW id \in Ids, AddClient(id) PROVE Promise!Join(id)
      BY <2>1 DEF AddClient, Join, Promise!Join, Waiting, Heard
    <2>2. ASSUME NEW id \in Ids, RemoveClient(id) PROVE Promise!Leave(id)
      BY <2>2, ConferenceLeave
    <2>3. ASSUME NEW id \in Ids, PacketIn(id) PROVE \E p \in Packet : Promise!Say(p)
      BY <2>3, ConferenceSay
    <2>4. ASSUME MixingTimer PROVE Promise!Deliver
      BY <2>4, ConferenceDeliver
    <2>5. ASSUME TimerExpires PROVE UNCHANGED Promise!vars
      BY <2>5 DEF TimerExpires, Promise!vars, Waiting, Heard
    <2>6. ASSUME ClockTick PROVE Promise!Lapse \/ UNCHANGED Promise!vars
      <3>1. UNCHANGED <<clients, audioBuffers, received, sentTo>> /\ sinceMix' = Older(sinceMix)
        BY <2>6 DEF ClockTick
      <3>2. Overdue => Overdue'
        BY <3>1, TimeoutAssumption DEF Overdue, Older, TypeOK, Age, Stale
      <3>3. CASE Overdue' /\ ~Overdue
        BY <3>1, <3>3 DEF Promise!Lapse, Waiting, Heard, Overdue
      <3>4. CASE Overdue' = Overdue
        BY <3>1, <3>4 DEF Promise!vars, Waiting, Heard, Overdue
      <3> QED
        BY <3>2, <3>3, <3>4 DEF Overdue
    <2>7. CASE UNCHANGED vars
      BY <2>7 DEF vars, Promise!vars, Waiting, Heard
    <2> QED
      BY <2>1, <2>2, <2>3, <2>4, <2>5, <2>6, <2>7, PacketInCases DEF Next, Timing, Promise!Next
  <1>2. Spec => Promise!Init /\ [][Promise!Next]_(Promise!vars)
    <2> HIDE DEF Inv
    <2>1. Spec => []Inv
      BY TypeCorrect, NewestAreKept, AudioStaysYoung, PTL DEF Inv
    <2> QED
      BY <1>1, <2>1, ConferenceInit, PTL DEF Spec
  <1> QED
    BY <1>2 DEF ConferenceSafe, Promise!Spec

=============================================================================
