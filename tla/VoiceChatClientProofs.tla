------------------------ MODULE VoiceChatClientProofs ------------------------
(***************************************************************************)
(* Proofs about the native client's ways from the network to the           *)
(* loudspeaker and from the microphone to the network, for any sizes of    *)
(* its queues and any number of datagrams and blocks.                      *)
(***************************************************************************)
EXTENDS VoiceChatClient, SequenceTheorems, TLAPS

-----------------------------------------------------------------------------
(* What is played.  Datagrams leave the jitter buffer and the playback queue at
   the front, so that each of them holds a stretch of their numbers. *)

\* Datagrams that have left the jitter buffer, and the playback queue.
Handed == received - Len(jitter_buffer)
Gone   == Handed - Len(output_buffer)

PlaybackTypes ==
    /\ received \in 0..MaxReceived
    /\ jitter_buffer \in Seq(1..MaxReceived)
    /\ output_buffer \in Seq(1..MaxReceived) /\ Len(output_buffer) <= MaxBufferSize
    /\ played \in Seq(1..MaxReceived)

Stretches ==
    /\ Gone >= 0
    /\ \A i \in 1..Len(jitter_buffer) : jitter_buffer[i] = Handed + i
    /\ \A i \in 1..Len(output_buffer) : output_buffer[i] = Gone + i

\* What was played is gone, and what is gone was played or was the oldest of a
\* full queue.
PlayedOrPushedOut ==
    /\ \A i \in 1..Len(played) : played[i] <= Gone
    /\ \A i, j \in 1..Len(played) : i < j => played[i] < played[j]
    /\ \A n \in 1..Gone :
          \/ \E i \in 1..Len(played) : played[i] = n
          \/ n + MaxBufferSize <= Handed

PInv == PlaybackTypes /\ Stretches /\ PlayedOrPushedOut

LEMMA Numbers ==
    ASSUME PInv
    PROVE  /\ Len(jitter_buffer) \in Nat /\ Len(output_buffer) \in Nat /\ Len(played) \in Nat
           /\ received \in Nat /\ Gone \in Nat /\ Handed \in Nat
           /\ Handed = Gone + Len(output_buffer) /\ received = Handed + Len(jitter_buffer)
  <1>1. /\ Len(jitter_buffer) \in Nat /\ Len(output_buffer) \in Nat /\ Len(played) \in Nat
        /\ received \in Nat
    BY ClientBoundsAssumption DEF PInv, PlaybackTypes
  <1> QED
    BY <1>1 DEF PInv, Stretches, Gone, Handed

LEMMA NoneInEmpty == Len(<< >>) = 0 /\ 1..Len(<< >>) = {}
  OBVIOUS

LEMMA InitPlayback == Init => PInv
  <1> SUFFICES ASSUME Init PROVE PInv
    OBVIOUS
  <1>1. /\ Len(jitter_buffer) = 0 /\ Len(output_buffer) = 0 /\ Len(played) = 0
        /\ received = 0
    BY NoneInEmpty DEF Init
  <1>2. Handed = 0 /\ Gone = 0
    BY <1>1 DEF Handed, Gone
  <1>3. PlaybackTypes
    BY <1>1, PlaybackAssumption, ClientBoundsAssumption DEF PlaybackTypes, Init
  <1>4. Stretches
    BY <1>1, <1>2 DEF Stretches
  <1>5. PlayedOrPushedOut
    BY <1>1, <1>2 DEF PlayedOrPushedOut
  <1> QED
    BY <1>3, <1>4, <1>5 DEF PInv

\* A datagram arrives and is the last of the jitter buffer.
LEMMA ReceivePlayback ==
    ASSUME PInv, Receive
    PROVE  PInv'
  <1>1. /\ received < MaxReceived /\ received' = received + 1
        /\ jitter_buffer' = Append(jitter_buffer, received + 1)
        /\ UNCHANGED <<output_buffer, played>>
    BY DEF Receive
  <1>2. received \in Nat /\ Len(jitter_buffer) \in Nat /\ Handed = received - Len(jitter_buffer)
    BY Numbers DEF Handed
  <1>3. received + 1 \in 1..MaxReceived /\ received' \in 0..MaxReceived
    BY <1>1, <1>2, ClientBoundsAssumption
  <1>4. jitter_buffer \in Seq(1..MaxReceived)
    BY DEF PInv, PlaybackTypes
  <1>5. /\ jitter_buffer' \in Seq(1..MaxReceived)
        /\ Len(jitter_buffer') = Len(jitter_buffer) + 1
        /\ jitter_buffer'[Len(jitter_buffer) + 1] = received + 1
        /\ \A i \in 1..Len(jitter_buffer) : jitter_buffer'[i] = jitter_buffer[i]
    BY <1>1, <1>3, <1>4
  <1>6. Handed' = Handed
    BY <1>1, <1>2, <1>5 DEF Handed
  <1>7. Gone' = Gone
    BY <1>1, <1>6 DEF Gone
  <1>8. PlaybackTypes'
    BY <1>1, <1>3, <1>5 DEF PInv, PlaybackTypes
  <1>9. Stretches'
    <2>1. ASSUME NEW i \in 1..Len(jitter_buffer') PROVE jitter_buffer'[i] = Handed' + i
      <3>1. CASE i \in 1..Len(jitter_buffer)
        BY <3>1, <1>5, <1>6 DEF PInv, Stretches
      <3>2. CASE i = Len(jitter_buffer) + 1
        BY <3>2, <1>2, <1>5, <1>6
      <3> QED
        BY <3>1, <3>2, <1>2, <1>5
    <2> QED
      BY <2>1, <1>1, <1>7 DEF PInv, Stretches
  <1>10. PlayedOrPushedOut'
    BY <1>1, <1>6, <1>7 DEF PInv, PlayedOrPushedOut
  <1> QED
    BY <1>8, <1>9, <1>10 DEF PInv

LEMMA HeadAndTail ==
    ASSUME NEW S, NEW s \in Seq(S), s # << >>
    PROVE  /\ Len(s) \in Nat /\ Len(s) >= 1
           /\ Head(s) = s[1] /\ Head(s) \in S
           /\ Tail(s) \in Seq(S) /\ Len(Tail(s)) = Len(s) - 1
           /\ \A i \in 1..Len(Tail(s)) : Tail(s)[i] = s[i + 1]
  <1>1. Len(s) \in Nat \ {0}
    BY EmptySeq
  <1>2. /\ Head(s) \in S
        /\ Tail(s) \in Seq(S) /\ Len(Tail(s)) = Len(s) - 1
        /\ \A i \in 1..Len(Tail(s)) : Tail(s)[i] = s[i + 1]
    BY HeadTailProperties
  <1>3. Head(s) = s[1]
    OBVIOUS
  <1> QED
    BY <1>1, <1>2, <1>3

\* The oldest datagram is played, after all that were played before.
LEMMA PlayPlayback ==
    ASSUME PInv, OutputCallback
    PROVE  PInv'
  <1>1. /\ output_buffer # << >> /\ output_buffer' = Tail(output_buffer)
        /\ played' = Append(played, Head(output_buffer))
        /\ UNCHANGED <<received, jitter_buffer>>
    BY DEF OutputCallback
  <1>2. /\ output_buffer \in Seq(1..MaxReceived) /\ played \in Seq(1..MaxReceived)
        /\ Len(output_buffer) <= MaxBufferSize
    BY DEF PInv, PlaybackTypes
  <1>3. /\ Len(output_buffer) \in Nat /\ Len(output_buffer) >= 1
        /\ Head(output_buffer) = output_buffer[1] /\ Head(output_buffer) \in 1..MaxReceived
        /\ output_buffer' \in Seq(1..MaxReceived)
        /\ Len(output_buffer') = Len(output_buffer) - 1
        /\ \A i \in 1..Len(output_buffer') : output_buffer'[i] = output_buffer[i + 1]
    BY <1>1, <1>2, HeadAndTail
  <1>4. output_buffer[1] = Gone + 1
    BY <1>3 DEF PInv, Stretches
  <1>5. /\ played' \in Seq(1..MaxReceived)
        /\ Len(played) \in Nat /\ Len(played') = Len(played) + 1
        /\ played'[Len(played) + 1] = Gone + 1
        /\ \A i \in 1..Len(played) : played'[i] = played[i]
    BY <1>1, <1>2, <1>3, <1>4
  <1>6. Handed' = Handed /\ Gone \in Nat /\ Handed \in Nat /\ Handed = Gone + Len(output_buffer)
    BY <1>1, Numbers DEF Handed
  <1>7. Gone' = Gone + 1
    BY <1>3, <1>6 DEF Gone
  <1>8. PlaybackTypes'
    BY <1>1, <1>2, <1>3, <1>5, PlaybackAssumption DEF PInv, PlaybackTypes
  <1>9. Stretches'
    <2>1. ASSUME NEW i \in 1..Len(output_buffer') PROVE output_buffer'[i] = Gone' + i
      <3>1. i + 1 \in 1..Len(output_buffer) /\ output_buffer'[i] = output_buffer[i + 1]
        BY <1>3
      <3>2. output_buffer[i + 1] = Gone + (i + 1)
        BY <3>1 DEF PInv, Stretches
      <3> QED
        BY <3>1, <3>2, <1>6, <1>7
    <2> QED
      BY <2>1, <1>1, <1>6, <1>7 DEF PInv, Stretches
  <1>10. PlayedOrPushedOut'
    <2>1. ASSUME NEW i \in 1..Len(played)
          PROVE  played'[i] <= Gone /\ played'[i] = played[i] /\ played'[i] \in Nat
      BY <1>2, <1>5, ClientBoundsAssumption DEF PInv, PlayedOrPushedOut
    <2>2. \A i \in 1..Len(played') : played'[i] <= Gone'
      BY <2>1, <1>5, <1>6, <1>7
    <2>3. ASSUME NEW i \in 1..Len(played'), NEW j \in 1..Len(played'), i < j
          PROVE  played'[i] < played'[j]
      <3>1. i \in 1..Len(played)
        BY <2>3, <1>5
      <3>2. CASE j \in 1..Len(played)
        BY <3>1, <3>2, <2>1, <2>3 DEF PInv, PlayedOrPushedOut
      <3>3. CASE j = Len(played) + 1
        BY <3>1, <3>3, <2>1, <1>5, <1>6
      <3> QED
        BY <3>2, <3>3, <1>5
    <2>4. ASSUME NEW n \in 1..Gone'
          PROVE  \/ \E i \in 1..Len(played') : played'[i] = n
                 \/ n + MaxBufferSize <= Handed'
      <3>1. CASE n = Gone + 1
        BY <3>1, <1>5
      <3>2. CASE n \in 1..Gone
        <4>1. \/ \E i \in 1..Len(played) : played[i] = n
              \/ n + MaxBufferSize <= Handed
          BY <3>2 DEF PInv, PlayedOrPushedOut
        <4> QED
          BY <4>1, <1>5, <1>6
      <3> QED
        BY <3>1, <3>2, <1>6, <1>7
    <2> QED
      BY <2>2, <2>3, <2>4 DEF PlayedOrPushedOut
  <1> QED
    BY <1>8, <1>9, <1>10 DEF PInv

\* A packet is handed to the playback queue, which drops its oldest if it is full.
LEMMA AddPlayback ==
    ASSUME PInv, jitter_buffer # << >>, addOutputData(Head(jitter_buffer)),
           jitter_buffer' = Tail(jitter_buffer), UNCHANGED <<received, played>>
    PROVE  PInv'
  <1> DEFINE longer == Append(output_buffer, Head(jitter_buffer))
  <1>1. /\ output_buffer \in Seq(1..MaxReceived) /\ jitter_buffer \in Seq(1..MaxReceived)
        /\ Len(output_buffer) <= MaxBufferSize
    BY DEF PInv, PlaybackTypes
  <1>2. /\ Len(jitter_buffer) \in Nat /\ Len(jitter_buffer) >= 1
        /\ Head(jitter_buffer) = jitter_buffer[1] /\ Head(jitter_buffer) \in 1..MaxReceived
        /\ jitter_buffer' \in Seq(1..MaxReceived)
        /\ Len(jitter_buffer') = Len(jitter_buffer) - 1
        /\ \A i \in 1..Len(jitter_buffer') : jitter_buffer'[i] = jitter_buffer[i + 1]
    BY <1>1, HeadAndTail
  <1>3. /\ Gone \in Nat /\ Handed \in Nat /\ Handed = Gone + Len(output_buffer)
        /\ Len(output_buffer) \in Nat /\ received \in Nat
        /\ Handed = received - Len(jitter_buffer)
    BY Numbers DEF Handed
  <1>4. Handed' = Handed + 1
    BY <1>2, <1>3 DEF Handed
  <1>5. Head(jitter_buffer) = Handed + 1
    BY <1>2 DEF PInv, Stretches
  <1>6. /\ longer \in Seq(1..MaxReceived) /\ longer # << >>
        /\ Len(longer) = Len(output_buffer) + 1
        /\ \A i \in 1..Len(output_buffer) : longer[i] = output_buffer[i]
        /\ longer[Len(output_buffer) + 1] = Handed + 1
    BY <1>1, <1>2, <1>5, AppendProperties
  <1>7. ASSUME NEW i \in 1..Len(longer) PROVE longer[i] = Gone + i
    <2>1. CASE i \in 1..Len(output_buffer)
      BY <2>1, <1>6 DEF PInv, Stretches
    <2>2. CASE i = Len(output_buffer) + 1
      BY <2>2, <1>3, <1>6
    <2> QED
      BY <2>1, <2>2, <1>3, <1>6
  <1>8. ASSUME NEW i \in 1..Len(jitter_buffer') PROVE jitter_buffer'[i] = Handed' + i
    <2>1. i + 1 \in 1..Len(jitter_buffer) /\ jitter_buffer'[i] = jitter_buffer[i + 1]
      BY <1>2
    <2>2. jitter_buffer[i + 1] = Handed + (i + 1)
      BY <2>1 DEF PInv, Stretches
    <2> QED
      BY <2>1, <2>2, <1>3, <1>4
  <1>9. output_buffer' = IF Len(longer) > MaxBufferSize THEN Tail(longer) ELSE longer
    BY DEF addOutputData
  <1>10. \A n \in 1..Gone : \/ \E i \in 1..Len(played') : played'[i] = n
                            \/ n + MaxBufferSize <= Handed'
    <2> SUFFICES ASSUME NEW n \in 1..Gone
                 PROVE  (\E i \in 1..Len(played) : played[i] = n) \/ n + MaxBufferSize <= Handed'
      OBVIOUS
    <2>1. (\E i \in 1..Len(played) : played[i] = n) \/ n + MaxBufferSize <= Handed
      BY DEF PInv, PlayedOrPushedOut
    <2> QED
      BY <1>3, <1>4, <2>1, PlaybackAssumption
  <1>11. /\ \A i \in 1..Len(played') : played'[i] <= Gone
         /\ \A i, j \in 1..Len(played') : i < j => played'[i] < played'[j]
         /\ played' \in Seq(1..MaxReceived) /\ received' \in 0..MaxReceived
    BY DEF PInv, PlayedOrPushedOut, PlaybackTypes
  <1>12. CASE Len(longer) <= MaxBufferSize
    <2>1. output_buffer' = longer
      BY <1>12, <1>9, <1>3, <1>6, PlaybackAssumption
    <2>2. Gone' = Gone
      BY <2>1, <1>3, <1>4, <1>6 DEF Gone
    <2>3. PlaybackTypes'
      BY <1>2, <1>6, <1>11, <1>12, <2>1 DEF PlaybackTypes
    <2>4. Stretches'
      BY <1>3, <1>7, <1>8, <2>1, <2>2 DEF Stretches
    <2>5. PlayedOrPushedOut'
      BY <1>10, <1>11, <2>2 DEF PlayedOrPushedOut
    <2> QED
      BY <2>3, <2>4, <2>5 DEF PInv
  <1>13. CASE Len(longer) > MaxBufferSize
    <2>1. /\ output_buffer' \in Seq(1..MaxReceived)
          /\ Len(output_buffer') = Len(output_buffer)
          /\ \A i \in 1..Len(output_buffer') : output_buffer'[i] = longer[i + 1]
      <3>1. /\ Tail(longer) \in Seq(1..MaxReceived) /\ Len(Tail(longer)) = Len(longer) - 1
            /\ \A i \in 1..Len(Tail(longer)) : Tail(longer)[i] = longer[i + 1]
        BY <1>6, HeadAndTail
      <3> QED
        BY <3>1, <1>3, <1>6, <1>9, <1>13
    <2>2. Gone' = Gone + 1
      BY <2>1, <1>3, <1>4 DEF Gone
    <2>3. PlaybackTypes'
      BY <1>1, <1>2, <1>11, <2>1 DEF PlaybackTypes
    <2>4. ASSUME NEW i \in 1..Len(output_buffer') PROVE output_buffer'[i] = Gone' + i
      <3>1. i + 1 \in 1..Len(longer) /\ output_buffer'[i] = longer[i + 1]
        BY <1>3, <1>6, <2>1
      <3> QED
        BY <3>1, <1>3, <1>7, <2>2
    <2>5. Stretches'
      BY <1>3, <1>8, <2>2, <2>4 DEF Stretches
    <2>6. Gone + 1 + MaxBufferSize <= Handed'
      BY <1>3, <1>4, <1>6, <1>13, PlaybackAssumption
    <2>7. \A n \in 1..Gone' : n \in 1..Gone \/ n = Gone + 1
      BY <1>3, <2>2
    <2>8. \A i \in 1..Len(played') : played'[i] <= Gone'
      <3> SUFFICES ASSUME NEW i \in 1..Len(played') PROVE played'[i] <= Gone'
        OBVIOUS
      <3>1. played'[i] \in 1..MaxReceived /\ played'[i] <= Gone
        BY <1>11, ElementOfSeq
      <3> QED
        BY <3>1, <1>3, <2>2, ClientBoundsAssumption
    <2>9. PlayedOrPushedOut'
      BY <1>10, <1>11, <2>6, <2>7, <2>8 DEF PlayedOrPushedOut
    <2> QED
      BY <2>3, <2>5, <2>9 DEF PInv
  <1> QED
    BY <1>3, <1>6, <1>12, <1>13, PlaybackAssumption

\* What no step of the way to the loudspeaker touches, the invariant keeps.
LEMMA StillPlayback ==
    ASSUME PInv, UNCHANGED playback
    PROVE  PInv'
  BY DEF playback, PInv, PlaybackTypes, Stretches, PlayedOrPushedOut, Handed, Gone

LEMMA NextPlayback == PInv /\ [Next]_vars => PInv'
  <1> SUFFICES ASSUME PInv, [Next]_vars PROVE PInv'
    OBVIOUS
  <1>1. CASE Receive
    BY <1>1, ReceivePlayback
  <1>2. CASE JitterTimer
    <2>1. CASE jitter_buffer # << >>
      BY <1>2, <2>1, AddPlayback DEF JitterTimer
    <2>2. CASE jitter_buffer = << >>
      BY <1>2, <2>2, StillPlayback DEF JitterTimer, playback
    <2> QED
      BY <2>1, <2>2
  <1>3. CASE OutputCallback
    BY <1>3, PlayPlayback
  <1>4. CASE \E t \in Timers : TimerExpires(t)
    BY <1>4, StillPlayback DEF TimerExpires
  <1>5. CASE InputCallback
    BY <1>5, StillPlayback DEF InputCallback
  <1>6. CASE SendTimer
    BY <1>6, StillPlayback DEF SendTimer
  <1>7. CASE SendDeferred
    BY <1>7, StillPlayback DEF SendDeferred
  <1>8. CASE UNCHANGED vars
    BY <1>8, StillPlayback DEF vars
  <1> QED
    BY <1>1, <1>2, <1>3, <1>4, <1>5, <1>6, <1>7, <1>8 DEF Next

-----------------------------------------------------------------------------
(* What the invariant says of the three stages together. *)

\* The three stages one after the other.
Stages == played \o output_buffer \o jitter_buffer

LEMMA StageParts ==
    ASSUME PInv
    PROVE  /\ Len(Stages) = Len(played) + Len(output_buffer) + Len(jitter_buffer)
           /\ DOMAIN Stages = 1..Len(Stages)
           /\ \A i \in 1..Len(played) : Stages[i] = played[i]
           /\ \A i \in 1..Len(output_buffer) : Stages[Len(played) + i] = Gone + i
           /\ \A i \in 1..Len(jitter_buffer) :
                 Stages[Len(played) + Len(output_buffer) + i] = Handed + i
  <1> DEFINE first == played \o output_buffer
  <1>1. /\ played \in Seq(1..MaxReceived) /\ output_buffer \in Seq(1..MaxReceived)
        /\ jitter_buffer \in Seq(1..MaxReceived)
    BY DEF PInv, PlaybackTypes
  <1>2. /\ Len(jitter_buffer) \in Nat /\ Len(output_buffer) \in Nat /\ Len(played) \in Nat
    BY Numbers
  <1>3. /\ first \in Seq(1..MaxReceived) /\ Len(first) = Len(played) + Len(output_buffer)
        /\ \A i \in 1..Len(played) + Len(output_buffer) :
              first[i] = IF i <= Len(played) THEN played[i] ELSE output_buffer[i - Len(played)]
    BY <1>1, ConcatProperties
  <1>4. /\ Stages \in Seq(1..MaxReceived) /\ Len(Stages) = Len(first) + Len(jitter_buffer)
        /\ \A i \in 1..Len(first) + Len(jitter_buffer) :
              Stages[i] = IF i <= Len(first) THEN first[i] ELSE jitter_buffer[i - Len(first)]
    <2> HIDE DEF first
    <2>1. Stages = first \o jitter_buffer
      BY DEF Stages, first
    <2>2. first \in Seq(1..MaxReceived)
      BY <1>3
    <2>3. /\ first \o jitter_buffer \in Seq(1..MaxReceived)
          /\ Len(first \o jitter_buffer) = Len(first) + Len(jitter_buffer)
          /\ \A i \in 1..Len(first) + Len(jitter_buffer) :
                (first \o jitter_buffer)[i] =
                    IF i <= Len(first) THEN first[i] ELSE jitter_buffer[i - Len(first)]
      BY <1>1, <2>2, ConcatProperties
    <2> QED
      BY <2>1, <2>3
  <1>5. DOMAIN Stages = 1..Len(Stages)
    BY <1>4, LenProperties
  <1> HIDE DEF first
  <1>6. ASSUME NEW i \in 1..Len(played) PROVE Stages[i] = played[i]
    BY <1>2, <1>3, <1>4
  <1>7. ASSUME NEW i \in 1..Len(output_buffer) PROVE Stages[Len(played) + i] = Gone + i
    <2>1. Stages[Len(played) + i] = first[Len(played) + i]
      BY <1>2, <1>3, <1>4
    <2>2. first[Len(played) + i] = output_buffer[i]
      <3>1. Len(played) + i \in 1..Len(played) + Len(output_buffer)
            /\ ~(Len(played) + i <= Len(played)) /\ (Len(played) + i) - Len(played) = i
        BY <1>2
      <3> QED
        BY <3>1, <1>3
    <2> QED
      BY <2>1, <2>2 DEF PInv, Stretches
  <1>8. ASSUME NEW i \in 1..Len(jitter_buffer)
        PROVE  Stages[Len(played) + Len(output_buffer) + i] = Handed + i
    <2> DEFINE at == Len(played) + Len(output_buffer) + i
    <2>1. at \in 1..Len(first) + Len(jitter_buffer) /\ ~(at <= Len(first)) /\ at - Len(first) = i
      BY <1>2, <1>3
    <2>2. Stages[at] = jitter_buffer[i]
      BY <2>1, <1>4
    <2> QED
      BY <2>2 DEF PInv, Stretches
  <1> QED
    BY <1>2, <1>3, <1>4, <1>5, <1>6, <1>7, <1>8

\* Every place of the stages is in the part played, or beyond it its number counts on.
LEMMA StageNumbers ==
    ASSUME PInv, NEW i \in 1..Len(Stages)
    PROVE  \/ /\ i \in 1..Len(played) /\ Stages[i] = played[i]
              /\ Stages[i] \in Nat /\ Stages[i] <= Gone
           \/ i > Len(played) /\ Stages[i] = Gone + (i - Len(played))
  <1>1. /\ Len(jitter_buffer) \in Nat /\ Len(output_buffer) \in Nat /\ Len(played) \in Nat
        /\ Gone \in Nat /\ Handed = Gone + Len(output_buffer)
    BY Numbers
  <1>2. CASE i \in 1..Len(played)
    <2>1. played[i] \in 1..MaxReceived
      BY <1>2, ElementOfSeq DEF PInv, PlaybackTypes
    <2> QED
      BY <1>2, <2>1, StageParts, ClientBoundsAssumption DEF PInv, PlayedOrPushedOut
  <1>3. CASE i \in Len(played) + 1 .. Len(played) + Len(output_buffer)
    <2>1. i - Len(played) \in 1..Len(output_buffer) /\ Len(played) + (i - Len(played)) = i
      BY <1>1, <1>3
    <2>2. Stages[Len(played) + (i - Len(played))] = Gone + (i - Len(played))
      BY <2>1, StageParts
    <2> QED
      BY <2>1, <2>2, <1>1, <1>3
  <1>4. CASE i > Len(played) + Len(output_buffer)
    <2> DEFINE k == i - Len(played) - Len(output_buffer)
    <2>1. k \in 1..Len(jitter_buffer) /\ Len(played) + Len(output_buffer) + k = i
      BY <1>1, <1>4, StageParts
    <2>2. Stages[i] = Handed + k
      BY <2>1, StageParts
    <2> QED
      BY <2>2, <1>1, <1>4
  <1> QED
    BY <1>1, <1>2, <1>3, <1>4, StageParts

LEMMA InOrder == PInv => PlayedInOrder
  <1> SUFFICES ASSUME PInv, NEW i \in 1..Len(Stages), NEW j \in 1..Len(Stages), i < j
               PROVE  Stages[i] < Stages[j]
    BY DEF PlayedInOrder, Stages
  <1>1. Len(played) \in Nat /\ Gone \in Nat /\ i \in Nat /\ j \in Nat
    BY Numbers
  <1>2. CASE j \in 1..Len(played)
    <2>1. i \in 1..Len(played)
      BY <1>1, <1>2
    <2> QED
      BY <2>1, <1>2, StageParts DEF PInv, PlayedOrPushedOut
  <1>3. CASE j > Len(played)
    <2>1. Stages[j] = Gone + (j - Len(played))
      BY <1>1, <1>3, StageNumbers
    <2>2. \/ Stages[i] \in Nat /\ Stages[i] <= Gone
          \/ Stages[i] = Gone + (i - Len(played))
      BY StageNumbers
    <2> QED
      BY <2>1, <2>2, <1>1, <1>3
  <1> QED
    BY <1>1, <1>2, <1>3

LEMMA Accounted == PInv => PlaybackAccounted
  <1> SUFFICES ASSUME PInv, NEW n \in 1..received
               PROVE  n \in ToSet(Stages) \/ n + MaxBufferSize <= Handed
    BY DEF PlaybackAccounted, Stages, Handed
  <1>1. /\ Len(jitter_buffer) \in Nat /\ Len(output_buffer) \in Nat /\ Len(played) \in Nat
        /\ Gone \in Nat /\ Handed \in Nat /\ received \in Nat
        /\ Handed = Gone + Len(output_buffer) /\ received = Handed + Len(jitter_buffer)
    BY Numbers
  <1>2. \A i \in 1..Len(Stages) : Stages[i] \in ToSet(Stages)
    BY StageParts DEF ToSet
  <1>3. CASE n \in 1..Gone
    <2>1. CASE \E i \in 1..Len(played) : played[i] = n
      <3>1. PICK i \in 1..Len(played) : played[i] = n
        BY <2>1
      <3>2. i \in 1..Len(Stages) /\ Stages[i] = n
        BY <3>1, <1>1, StageParts
      <3> QED
        BY <3>2, <1>2
    <2> QED
      BY <1>3, <2>1 DEF PInv, PlayedOrPushedOut
  <1>4. CASE n \in Gone + 1 .. Handed
    <2>1. n - Gone \in 1..Len(output_buffer) /\ Gone + (n - Gone) = n
      BY <1>1, <1>4
    <2>2. Stages[Len(played) + (n - Gone)] = n
      BY <2>1, StageParts
    <2>3. Len(played) + (n - Gone) \in 1..Len(Stages)
      BY <2>1, <1>1, StageParts
    <2> QED
      BY <2>2, <2>3, <1>2
  <1>5. CASE n > Handed
    <2> DEFINE at == Len(played) + Len(output_buffer) + (n - Handed)
    <2>1. n - Handed \in 1..Len(jitter_buffer) /\ Handed + (n - Handed) = n
      BY <1>1, <1>5
    <2>2. Stages[at] = n
      BY <2>1, StageParts
    <2>3. at \in 1..Len(Stages)
      BY <2>1, <1>1, StageParts
    <2> QED
      BY <2>2, <2>3, <1>2
  <1> QED
    BY <1>1, <1>3, <1>4, <1>5

-----------------------------------------------------------------------------
(* The types of what is captured. *)

\* What a datagram may hold: a packet, or what has become of its memory.
Content == Packets \cup {<<Freed>>}

CaptureTypes ==
    /\ timers \in [Timers -> {"waiting", "queued"}]
    /\ captured \in 0..MaxCaptured /\ input_buffer \in Packets
    /\ fetched \in Seq(Packets)
    /\ deferred \in Seq(Packets) /\ datagrams \in Seq(Content)

LEMMA InitCapture == Init => CaptureTypes
  BY EmptySeq, ClientBoundsAssumption DEF Init, CaptureTypes, Packets

\* A sequence that grows keeps its type.
LEMMA AppendType ==
    ASSUME NEW S, NEW s \in Seq(S), NEW e \in S
    PROVE  Append(s, e) \in Seq(S)
  OBVIOUS

\* How the send of a packet may end: with it, with what its freed memory holds, or
\* with an error.
Ends(packet) == Outcomes(packet, {packet, <<Freed>>})

\* A send ends with the packet, with what has become of its memory or with an error.
LEMMA OutcomeTypes ==
    ASSUME NEW packet \in Packets, NEW content \in Ends(packet)
    PROVE  content \in Content
  <1>1. NotSent \in Packets
    BY EmptySeq DEF NotSent, Packets
  <1> QED
    BY <1>1 DEF Ends, Outcomes, Content

\* A packet goes to the socket at once, fails to, or is put off.
LEMMA SendCases ==
    ASSUME NEW packet \in Packets, send(packet)
    PROVE  \/ /\ deferred = << >> /\ deferred' = deferred
              /\ \E content \in Ends(packet) : datagrams' = Append(datagrams, content)
           \/ deferred' = Append(deferred, packet) /\ datagrams' = datagrams
  <1>1. Outcomes(packet, {packet}) \subseteq Ends(packet)
    BY DEF Ends, Outcomes
  <1> QED
    BY <1>1 DEF send

LEMMA SendTypes ==
    ASSUME CaptureTypes, NEW packet \in Packets, send(packet)
    PROVE  deferred' \in Seq(Packets) /\ datagrams' \in Seq(Content)
  <1>1. CASE deferred' = Append(deferred, packet) /\ datagrams' = datagrams
    BY <1>1, AppendType DEF CaptureTypes
  <1>2. ASSUME NEW content \in Ends(packet),
               deferred' = deferred, datagrams' = Append(datagrams, content)
        PROVE  deferred' \in Seq(Packets) /\ datagrams' \in Seq(Content)
    BY <1>2, OutcomeTypes, AppendType DEF CaptureTypes
  <1> QED
    BY <1>1, <1>2, SendCases

LEMMA NextCapture == CaptureTypes /\ [Next]_vars => CaptureTypes'
  <1> SUFFICES ASSUME CaptureTypes, [Next]_vars PROVE CaptureTypes'
    OBVIOUS
  <1>1. ASSUME NEW t \in Timers, TimerExpires(t) PROVE CaptureTypes'
    BY <1>1 DEF TimerExpires, capture, CaptureTypes
  <1>2. CASE Receive
    BY <1>2 DEF Receive, capture, CaptureTypes
  <1>3. CASE JitterTimer
    BY <1>3 DEF JitterTimer, Timers, capture, CaptureTypes
  <1>4. CASE OutputCallback
    BY <1>4 DEF OutputCallback, capture, CaptureTypes
  <1>5. CASE InputCallback
    <2>1. captured + 1 \in 1..MaxCaptured /\ captured' = captured + 1
          /\ input_buffer' = Append(input_buffer, captured + 1)
      BY <1>5, ClientBoundsAssumption DEF InputCallback, CaptureTypes
    <2>2. input_buffer' \in Packets
      BY <2>1, AppendProperties DEF CaptureTypes, Packets
    <2> QED
      BY <2>1, <2>2, <1>5 DEF InputCallback, CaptureTypes
  <1>6. CASE SendTimer
    <2>1. /\ input_buffer' = << >> /\ UNCHANGED captured
          /\ timers' = [timers EXCEPT !["send"] = "waiting"]
          /\ fetched' = fetched \/ fetched' = Append(fetched, input_buffer)
          /\ send(input_buffer) \/ UNCHANGED <<deferred, datagrams>>
      BY <1>6 DEF SendTimer, getInputData
    <2>2. fetched' \in Seq(Packets)
      BY <2>1, AppendType DEF CaptureTypes
    <2>3. deferred' \in Seq(Packets) /\ datagrams' \in Seq(Content)
      BY <2>1, SendTypes DEF CaptureTypes
    <2>4. input_buffer' \in Packets
      BY <2>1, EmptySeq DEF Packets
    <2> QED
      BY <2>1, <2>2, <2>3, <2>4 DEF Timers, CaptureTypes
  <1>7. CASE SendDeferred
    <2>1. PICK content \in Ends(Head(deferred)) : datagrams' = Append(datagrams, content)
      BY <1>7 DEF SendDeferred, Ends
    <2>2. deferred # << >> /\ deferred' = Tail(deferred)
          /\ UNCHANGED <<timers, captured, input_buffer, fetched>>
      BY <1>7 DEF SendDeferred
    <2>3. Head(deferred) \in Packets /\ Tail(deferred) \in Seq(Packets)
      BY <2>2, HeadAndTail DEF CaptureTypes
    <2>4. content \in Content
      BY <2>3, OutcomeTypes
    <2>5. datagrams' \in Seq(Content)
      BY <2>1, <2>4, AppendProperties DEF CaptureTypes
    <2> QED
      BY <2>2, <2>3, <2>5 DEF CaptureTypes
  <1>8. CASE UNCHANGED vars
    BY <1>8 DEF vars, capture, CaptureTypes
  <1> QED
    BY <1>1, <1>2, <1>3, <1>4, <1>5, <1>6, <1>7, <1>8 DEF Next

\* The last element of a sequence.
LEMMA LastType ==
    ASSUME NEW S, NEW s \in Seq(S), s # << >>
    PROVE  s[Len(s)] \in S
  <1>1. Len(s) \in Nat /\ Len(s) >= 1
    BY HeadAndTail
  <1> QED
    BY <1>1, ElementOfSeq

\* The number of the last block that was fetched is a number.
LEMMA CaptureEnd ==
    ASSUME CaptureTypes, FetchedInOrder
    PROVE  EndOf(fetched, Len(fetched)) \in Int
  <1>1. fetched \in Seq(Packets) /\ Len(fetched) \in Nat
    BY DEF CaptureTypes
  <1>2. CASE Len(fetched) = 0
    BY <1>2 DEF EndOf
  <1>3. CASE Len(fetched) # 0
    <2> DEFINE p == fetched[Len(fetched)]
    <2>1. Len(fetched) \in 1..Len(fetched)
      BY <1>1, <1>3
    <2>2. p \in Packets /\ p # << >>
      BY <1>1, <2>1 DEF FetchedInOrder
    <2> HIDE DEF p
    <2>3. p[Len(p)] \in 1..MaxCaptured
      BY <2>2, LastType DEF Packets
    <2>4. EndOf(fetched, Len(fetched)) = p[Len(p)]
      BY <1>3 DEF EndOf, Last, p
    <2> QED
      BY <2>3, <2>4, ClientBoundsAssumption
  <1> QED
    BY <1>2, <1>3

-----------------------------------------------------------------------------
(* What is captured is fetched. *)

\* The packets before the one that is appended end where they did.
LEMMA EndOfAppend ==
    ASSUME NEW f \in Seq(Packets), NEW p \in Packets, p # << >>
    PROVE  /\ \A k \in 0..Len(f) : EndOf(Append(f, p), k) = EndOf(f, k)
           /\ EndOf(Append(f, p), Len(f) + 1) = p[Len(p)]
  <1>1. /\ Len(f) \in Nat /\ Append(f, p)[Len(f) + 1] = p
        /\ \A k \in 1..Len(f) : Append(f, p)[k] = f[k]
    BY AppendProperties
  <1>2. ASSUME NEW k \in 0..Len(f) PROVE EndOf(Append(f, p), k) = EndOf(f, k)
    <2>1. k = 0 \/ k \in 1..Len(f)
      BY <1>1
    <2> QED
      BY <1>1, <2>1 DEF EndOf
  <1> QED
    BY <1>1, <1>2 DEF EndOf, Last

\* A block is captured, and waits behind the others.
LEMMA FetchedCapture ==
    ASSUME CaptureTypes, FetchedInOrder, InputCallback
    PROVE  FetchedInOrder'
  <1>1. /\ input_buffer' = Append(input_buffer, captured + 1) /\ captured' = captured + 1
        /\ fetched' = fetched
    BY DEF InputCallback
  <1>2. captured \in Nat /\ captured + 1 \in 1..MaxCaptured /\ input_buffer \in Packets
    BY ClientBoundsAssumption DEF InputCallback, CaptureTypes, Packets
  <1>3. /\ Len(input_buffer) \in Nat /\ Len(input_buffer') = Len(input_buffer) + 1
        /\ input_buffer'[Len(input_buffer) + 1] = captured + 1
        /\ \A i \in 1..Len(input_buffer) : input_buffer'[i] = input_buffer[i]
    BY <1>1, <1>2, AppendProperties DEF Packets
  <1> DEFINE end == EndOf(fetched, Len(fetched))
  <1>4. /\ captured = end + Len(input_buffer)
        /\ \A i \in 1..Len(input_buffer) : input_buffer[i] = end + i
    BY DEF FetchedInOrder
  <1> HIDE DEF end
  <1>5. end \in Int
    BY CaptureEnd DEF end
  <1>6. ASSUME NEW i \in 1..Len(input_buffer') PROVE input_buffer'[i] = end + i
    <2>1. CASE i \in 1..Len(input_buffer)
      BY <1>3, <1>4, <2>1
    <2>2. CASE i = Len(input_buffer) + 1
      BY <1>2, <1>3, <1>4, <1>5, <2>2
    <2> QED
      BY <1>3, <2>1, <2>2
  <1>7. captured' = end + Len(input_buffer')
    BY <1>1, <1>2, <1>3, <1>4, <1>5
  <1> QED
    BY <1>1, <1>6, <1>7 DEF FetchedInOrder, end

\* All that waits is fetched as one packet, and nothing waits any more.
LEMMA FetchedFetch ==
    ASSUME CaptureTypes, FetchedInOrder, SendTimer
    PROVE  FetchedInOrder'
  <1>1. /\ fetched' = IF input_buffer = << >> THEN fetched ELSE Append(fetched, input_buffer)
        /\ input_buffer' = << >> /\ captured' = captured
    BY DEF SendTimer, getInputData
  <1>2. fetched \in Seq(Packets) /\ input_buffer \in Packets /\ captured \in Nat
    BY ClientBoundsAssumption DEF CaptureTypes, Packets
  <1>3. Len(<< >>) = 0 /\ 1..Len(<< >>) = {}
    BY NoneInEmpty
  <1>4. CASE input_buffer = << >>
    BY <1>1, <1>4 DEF FetchedInOrder
  <1>5. CASE input_buffer # << >>
    <2> DEFINE n == Len(fetched)
    <2>1. n \in Nat /\ Len(fetched') = n + 1 /\ fetched'[n + 1] = input_buffer
          /\ \A k \in 1..n : fetched'[k] = fetched[k]
      BY <1>1, <1>2, <1>5, AppendProperties
    <2>2. /\ \A k \in 0..n : EndOf(fetched', k) = EndOf(fetched, k)
          /\ EndOf(fetched', n + 1) = input_buffer[Len(input_buffer)]
      BY <1>1, <1>2, <1>5, EndOfAppend
    <2>3. Len(input_buffer) \in Nat /\ Len(input_buffer) >= 1
      BY <1>2, <1>5, HeadAndTail DEF Packets
    <2>4. input_buffer[Len(input_buffer)] = captured
      <3>1. input_buffer[Len(input_buffer)] = EndOf(fetched, n) + Len(input_buffer)
        BY <2>3 DEF FetchedInOrder
      <3> QED
        BY <3>1 DEF FetchedInOrder
    <2>5. ASSUME NEW k \in 1..(n + 1)
          PROVE  /\ fetched'[k] # << >>
                 /\ \A i \in 1..Len(fetched'[k]) : fetched'[k][i] = EndOf(fetched', k - 1) + i
      <3>1. k - 1 \in 0..n /\ EndOf(fetched', k - 1) = EndOf(fetched, k - 1)
        BY <2>1, <2>2
      <3>2. CASE k \in 1..n
        BY <2>1, <3>1, <3>2 DEF FetchedInOrder
      <3>3. CASE k = n + 1
        <4>1. fetched'[k] = input_buffer /\ k - 1 = n
          BY <2>1, <3>3
        <4> QED
          BY <1>5, <3>1, <4>1 DEF FetchedInOrder
      <3> QED
        BY <2>1, <3>2, <3>3
    <2>6. captured' = EndOf(fetched', n + 1) + 0
      BY <1>1, <1>2, <2>2, <2>4
    <2> QED
      BY <1>1, <1>3, <2>1, <2>5, <2>6 DEF FetchedInOrder
  <1> QED
    BY <1>4, <1>5

-----------------------------------------------------------------------------
(* What is fetched is sent. *)

\* Sends that have ended and sends put off, against the packets: the former are of
\* these, spoilt or not made, the latter are still these.
Sent(done, waiting, packets) ==
    /\ Len(done) + Len(waiting) = Len(packets)
    /\ \A k \in 1..Len(done) : done[k] \in Ends(packets[k])
    /\ \A k \in 1..Len(waiting) : waiting[k] = packets[Len(done) + k]

\* A packet that is sent at once, or fails to be, when nothing waits.
LEMMA SentAtOnce ==
    ASSUME NEW done \in Seq(Content), NEW waiting, waiting = << >>,
           NEW f \in Seq(Packets), NEW p \in Packets,
           NEW c \in Ends(p), Sent(done, waiting, f)
    PROVE  Sent(Append(done, c), waiting, Append(f, p))
  <1>1. Len(done) \in Nat /\ Len(f) = Len(done) /\ Len(waiting) = 0
    BY LenProperties, NoneInEmpty DEF Sent
  <1>2. c \in Content
    BY OutcomeTypes
  <1>3. /\ Len(Append(done, c)) = Len(done) + 1 /\ Append(done, c)[Len(done) + 1] = c
        /\ \A k \in 1..Len(done) : Append(done, c)[k] = done[k]
        /\ Len(Append(f, p)) = Len(done) + 1 /\ Append(f, p)[Len(done) + 1] = p
        /\ \A k \in 1..Len(done) : Append(f, p)[k] = f[k]
    BY <1>1, <1>2, AppendProperties
  <1>4. ASSUME NEW k \in 1..Len(done) + 1
        PROVE  Append(done, c)[k] \in Ends(Append(f, p)[k])
    <2>1. CASE k \in 1..Len(done)
      BY <1>3, <2>1 DEF Sent
    <2>2. CASE k = Len(done) + 1
      BY <1>3, <2>2
    <2> QED
      BY <1>1, <2>1, <2>2
  <1> QED
    BY <1>1, <1>3, <1>4 DEF Sent

\* A packet that is put off.
LEMMA PutOff ==
    ASSUME NEW done \in Seq(Content), NEW waiting \in Seq(Packets),
           NEW f \in Seq(Packets), NEW p \in Packets, Sent(done, waiting, f)
    PROVE  Sent(done, Append(waiting, p), Append(f, p))
  <1>1. /\ Len(done) \in Nat /\ Len(waiting) \in Nat
        /\ Len(f) = Len(done) + Len(waiting)
    BY LenProperties DEF Sent
  <1>2. /\ Len(Append(waiting, p)) = Len(waiting) + 1
        /\ Append(waiting, p)[Len(waiting) + 1] = p
        /\ \A k \in 1..Len(waiting) : Append(waiting, p)[k] = waiting[k]
        /\ Len(Append(f, p)) = Len(f) + 1 /\ Append(f, p)[Len(f) + 1] = p
        /\ \A k \in 1..Len(f) : Append(f, p)[k] = f[k]
    BY AppendProperties
  <1>3. ASSUME NEW k \in 1..Len(waiting) + 1
        PROVE  Append(waiting, p)[k] = Append(f, p)[Len(done) + k]
    <2>1. CASE k \in 1..Len(waiting)
      <3>1. Len(done) + k \in 1..Len(f)
        BY <1>1, <2>1
      <3>2. Append(f, p)[Len(done) + k] = f[Len(done) + k]
        BY <1>2, <3>1
      <3> QED
        BY <1>2, <2>1, <3>2 DEF Sent
    <2>2. CASE k = Len(waiting) + 1
      BY <1>1, <1>2, <2>2
    <2> QED
      BY <1>1, <2>1, <2>2
  <1>4. ASSUME NEW k \in 1..Len(done)
        PROVE  done[k] \in Ends(Append(f, p)[k])
    <2>1. k \in 1..Len(f)
      BY <1>1
    <2>2. Append(f, p)[k] = f[k]
      BY <1>2, <2>1
    <2> QED
      BY <2>2 DEF Sent
  <1> QED
    BY <1>1, <1>2, <1>3, <1>4 DEF Sent

\* The first that was put off is sent, or what its memory holds by now, or fails.
LEMMA SentLate ==
    ASSUME NEW done \in Seq(Content), NEW waiting \in Seq(Packets), waiting # << >>,
           NEW f \in Seq(Packets),
           NEW c \in Ends(Head(waiting)),
           Sent(done, waiting, f)
    PROVE  Sent(Append(done, c), Tail(waiting), f)
  <1>1. /\ Len(done) \in Nat /\ Len(waiting) \in Nat /\ Len(waiting) >= 1
        /\ Len(f) = Len(done) + Len(waiting)
        /\ Head(waiting) = waiting[1] /\ Head(waiting) \in Packets
        /\ Len(Tail(waiting)) = Len(waiting) - 1
        /\ \A k \in 1..Len(Tail(waiting)) : Tail(waiting)[k] = waiting[k + 1]
    BY HeadAndTail, LenProperties DEF Sent
  <1>2. Head(waiting) = f[Len(done) + 1]
    <2>1. 1 \in 1..Len(waiting)
      BY <1>1
    <2> QED
      BY <1>1, <2>1 DEF Sent
  <1>3. c \in Content
    BY <1>1, OutcomeTypes
  <1>4. /\ Len(Append(done, c)) = Len(done) + 1 /\ Append(done, c)[Len(done) + 1] = c
        /\ \A k \in 1..Len(done) : Append(done, c)[k] = done[k]
    BY <1>3, AppendProperties
  <1>5. ASSUME NEW k \in 1..Len(done) + 1
        PROVE  Append(done, c)[k] \in Ends(f[k])
    <2>1. CASE k \in 1..Len(done)
      BY <1>4, <2>1 DEF Sent
    <2>2. CASE k = Len(done) + 1
      BY <1>2, <1>4, <2>2
    <2> QED
      BY <1>1, <2>1, <2>2
  <1>6. ASSUME NEW k \in 1..Len(Tail(waiting))
        PROVE  Tail(waiting)[k] = f[(Len(done) + 1) + k]
    <2>1. k + 1 \in 1..Len(waiting) /\ Len(done) + (k + 1) = (Len(done) + 1) + k
      BY <1>1
    <2>2. waiting[k + 1] = f[Len(done) + (k + 1)]
      BY <2>1 DEF Sent
    <2> QED
      BY <1>1, <2>1, <2>2
  <1>7. (Len(done) + 1) + Len(Tail(waiting)) = Len(f)
    BY <1>1
  <1> QED
    BY <1>4, <1>5, <1>6, <1>7 DEF Sent

CaptureInv == CaptureTypes /\ FetchedInOrder /\ Sent(datagrams, deferred, fetched)

\* At the start nothing was captured.
LEMMA InitCaptureInv == Init => CaptureInv
  <1> SUFFICES ASSUME Init PROVE CaptureInv
    OBVIOUS
  <1>1. /\ fetched = << >> /\ input_buffer = << >> /\ deferred = << >> /\ datagrams = << >>
        /\ captured = 0 /\ Len(<< >>) = 0 /\ 1..Len(<< >>) = {}
    BY NoneInEmpty DEF Init
  <1>2. FetchedInOrder
    BY <1>1 DEF FetchedInOrder, EndOf
  <1>3. Sent(datagrams, deferred, fetched)
    BY <1>1 DEF Sent
  <1> QED
    BY <1>2, <1>3, InitCapture DEF CaptureInv

\* The send timer's handler gives the socket what it fetched.
LEMMA SentFetch ==
    ASSUME CaptureTypes, Sent(datagrams, deferred, fetched), SendTimer
    PROVE  Sent(datagrams', deferred', fetched')
  <1>1. /\ fetched' = IF input_buffer = << >> THEN fetched ELSE Append(fetched, input_buffer)
        /\ IF input_buffer # << >> THEN send(input_buffer) ELSE UNCHANGED <<deferred, datagrams>>
    BY DEF SendTimer, getInputData
  <1>2. /\ fetched \in Seq(Packets) /\ input_buffer \in Packets
        /\ deferred \in Seq(Packets) /\ datagrams \in Seq(Content)
    BY DEF CaptureTypes
  <1>3. CASE input_buffer = << >>
    BY <1>1, <1>3
  <1>4. CASE input_buffer # << >>
    <2>1. fetched' = Append(fetched, input_buffer) /\ send(input_buffer)
      BY <1>1, <1>4
    <2>2. CASE deferred' = Append(deferred, input_buffer) /\ datagrams' = datagrams
      BY <1>2, <2>1, <2>2, PutOff
    <2>3. ASSUME NEW content \in Ends(input_buffer),
                 deferred = << >>, deferred' = deferred,
                 datagrams' = Append(datagrams, content)
          PROVE  Sent(datagrams', deferred', fetched')
      BY <1>2, <2>1, <2>3, SentAtOnce
    <2> QED
      BY <1>2, <2>1, <2>2, <2>3, SendCases
  <1> QED
    BY <1>3, <1>4

\* No callback and no handler loses what was captured, or overtakes another.
LEMMA NextCaptureInv == CaptureInv /\ [Next]_vars => CaptureInv'
  <1> SUFFICES ASSUME CaptureInv, [Next]_vars PROVE CaptureInv'
    OBVIOUS
  <1>1. CaptureTypes'
    BY NextCapture DEF CaptureInv
  <1>2. CASE UNCHANGED capture
    BY <1>1, <1>2 DEF capture, CaptureInv, FetchedInOrder
  <1>3. CASE InputCallback
    <2>1. UNCHANGED <<datagrams, deferred, fetched>>
      BY <1>3 DEF InputCallback
    <2> QED
      BY <1>1, <1>3, <2>1, FetchedCapture DEF CaptureInv
  <1>4. CASE SendTimer
    BY <1>1, <1>4, FetchedFetch, SentFetch DEF CaptureInv
  <1>5. CASE SendDeferred
    <2>1. PICK content \in Ends(Head(deferred)) : datagrams' = Append(datagrams, content)
      BY <1>5 DEF SendDeferred, Ends
    <2>2. /\ deferred # << >> /\ deferred' = Tail(deferred)
          /\ UNCHANGED <<captured, input_buffer, fetched>>
      BY <1>5 DEF SendDeferred
    <2>3. Sent(datagrams', deferred', fetched)
      BY <2>1, <2>2, SentLate DEF CaptureInv, CaptureTypes
    <2> QED
      BY <1>1, <2>2, <2>3 DEF CaptureInv, FetchedInOrder
  <1>6. ASSUME \/ \E t \in Timers : TimerExpires(t)
               \/ Receive \/ JitterTimer \/ OutputCallback \/ UNCHANGED vars
        PROVE  UNCHANGED capture
    BY <1>6 DEF TimerExpires, Receive, JitterTimer, OutputCallback, vars, capture
  <1> QED
    BY <1>2, <1>3, <1>4, <1>5, <1>6 DEF Next

-----------------------------------------------------------------------------
LEMMA AlwaysPInv == Spec => []PInv
  <1> QED
    BY InitPlayback, NextPlayback, PTL DEF Spec

\* Every variable keeps its type, and the playback queue its limit
\* (addOutputData drops the oldest packet of a full queue).
THEOREM ClientTypeCorrect == Spec => []TypeOK
  <1>1. PInv /\ CaptureTypes => TypeOK
    BY DEF PInv, PlaybackTypes, CaptureTypes, Content, TypeOK
  <1>2. Spec => []CaptureTypes
    BY InitCapture, NextCapture, PTL DEF Spec
  <1> QED
    BY <1>1, <1>2, AlwaysPInv, PTL

\* Whatever the network sends and however the handlers of NetworkManager and
\* PortAudio's callback interleave, datagrams are played in the order of their
\* arrival, and none twice.
THEOREM ClientPlaysInOrder == Spec => []PlayedInOrder
  <1> QED
    BY AlwaysPInv, InOrder, PTL

\* A datagram is played, waits, or was the oldest of a full playback queue when
\* addOutputData was called: MAX_BUFFER_SIZE later ones were handed to the queue.
THEOREM ClientLosesOnlyToNewer == Spec => []PlaybackAccounted
  <1> QED
    BY AlwaysPInv, Accounted, PTL

\* Every block that PortAudio's callback captures is fetched by the send timer's
\* handler once and in order, whenever the two run, and every packet is handed to
\* the socket once; the sends end in that order, with the packet, with what its
\* freed memory held, or with an error.
THEOREM ClientSendsWhatItCaptures == Spec => []CaptureAccounted
  <1>1. CaptureInv => CaptureAccounted
    BY DEF CaptureInv, CaptureAccounted, Sent, SentInOrder, Ends, Outcomes
  <1> QED
    BY <1>1, InitCaptureInv, NextCaptureInv, PTL DEF Spec

=============================================================================
