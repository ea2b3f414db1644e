------------------------ MODULE WebSocketServerProofs ------------------------
(***************************************************************************)
(* Proofs about a server whose sessions echo what they read and are sent   *)
(* broadcasts, for any number of sessions and messages.                    *)
(***************************************************************************)
EXTENDS WebSocketServer, WebSocketSessionProofs, SequenceTheorems

-----------------------------------------------------------------------------
(* The server uses its sessions as their specification allows, so that all that
   is proved of any server's sessions is true of these. *)

LEMMA ServerStep == [ServerNext]_allVars => [Next]_vars
  <1>1. ASSUME NEW s \in Sessions, (Start(s) \/ Io(s)) \/ PeerAsks(s) PROVE [Next]_vars
    BY <1>1 DEF PeerAsks, Next
  <1>2. ASSUME NEW s \in Sessions, Read(s) PROVE [Next]_vars
    <2>1. CASE UNCHANGED vars
      BY <2>1
    <2>2. CASE \E m : Echo(s, m)
      <3>1. sent[s] < MaxSends /\ Send({s}) /\ phase[s] # "none"
        BY <1>2, <2>2 DEF Echo, Read
      <3>2. {s} \in SUBSET {r \in Sessions : phase[r] # "none" /\ sent[r] < MaxSends}
        BY <3>1
      <3> QED
        BY <3>1, <3>2 DEF Next
    <2> QED
      BY <1>2, <2>1, <2>2 DEF Read
  <1>3. CASE broadcast
    <2> DEFINE sessions_ == {s \in Sessions : phase[s] # "none"}
    <2>1. /\ sessions_ # {} /\ Send(sessions_)
          /\ \A s \in sessions_ : sent[s] < MaxSends
      BY <1>3 DEF broadcast
    <2>2. sessions_ \in SUBSET {r \in Sessions : phase[r] # "none" /\ sent[r] < MaxSends}
      BY <2>1
    <2> QED
      BY <2>1, <2>2 DEF Next
  <1>4. CASE UNCHANGED allVars
    BY <1>4 DEF allVars
  <1> QED
    BY <1>1, <1>2, <1>3, <1>4 DEF ServerNext

THEOREM ServerUsesSessions == ServerSpec => Init /\ [][Next]_vars
  BY ServerStep, PTL DEF ServerSpec, ServerInit

\* Echoes and broadcasts, queued by handlers that know nothing of each other, go
\* out of each session whole and in order (send and do_write,
\* WebSocketSession.h:52-59 and 132-147).
THEOREM ServerFramesInOrder == ServerSpec => []FramesInOrder
  BY ServerUsesSessions, InitFrames, NextFrames, FirstPiecesAreInOrder, PTL

\* While a peer stays, what is queued for it has a write under way (the same
\* lines).
THEOREM ServerWriterAwake == ServerSpec => []WriterAwake
  <1>1. Init => WriterAwake
    BY DEF Init, WriterAwake
  <1> QED
    BY <1>1, ServerUsesSessions, InitType, NextType, AwakeStep, PTL

-----------------------------------------------------------------------------
(* Echoes.  What a peer has sent is one stream of stretches, numbered from 1;
   inbound is its end, and whatever was echoed comes from what was read. *)

Message == 1..MaxMessages
Said == Message \cup {Damaged, News}
Stretches == [n : Message, part : {"head", "body", "rest"}]

ReadTypes ==
    /\ lucky \in BOOLEAN
    /\ asked \in [Sessions -> 0..MaxMessages]
    /\ inbound \in [Sessions -> Seq(Stretches)]
    /\ content \in [Sessions -> Seq(Said)]

\* Where a stretch stands in the stream.
Number(x) ==
    3 * (x.n - 1) + (IF x.part = "head" THEN 1 ELSE IF x.part = "body" THEN 2 ELSE 3)

\* How much of the stream was read.
Consumed(s) == 3 * asked[s] - Len(inbound[s])

Stream(s) ==
    /\ Consumed(s) >= 0
    /\ \A i \in 1..Len(inbound[s]) : Number(inbound[s][i]) = Consumed(s) + i

\* c is a content, in which the messages up to m may be echoed.
InOrder(c, m) ==
    \A j \in 1..Len(c) : c[j] \in Message =>
        /\ 3 * c[j] <= m
        /\ \A i \in 1..Len(c) : c[i] \in Message /\ i < j => c[i] < c[j]

\* With luck, all that were read are.
AllEchoed(c, m) ==
    /\ \A i \in 1..Len(c) : c[i] # Damaged
    /\ \E k \in Nat : /\ m = 3 * k
                      /\ \A n \in 1..k : \E i \in 1..Len(c) : c[i] = n

EchoInv ==
    /\ ReadTypes
    /\ \A s \in Sessions :
          /\ Stream(s)
          /\ InOrder(content[s], Consumed(s))
          /\ lucky => AllEchoed(content[s], Consumed(s))

\* Broadcasts come between the echoes and change nothing about them.
LEMMA OtherWords ==
    ASSUME NEW c \in Seq(Said), NEW w \in {Damaged, News}, NEW m \in Nat,
           InOrder(c, m)
    PROVE  /\ Append(c, w) \in Seq(Said)
           /\ InOrder(Append(c, w), m)
           /\ w = News /\ AllEchoed(c, m) => AllEchoed(Append(c, w), m)
  <1>1. w \in Said /\ w \notin Message
    BY MessagesAssumption DEF Said, Message
  <1>2. /\ Len(c) \in Nat /\ Len(Append(c, w)) = Len(c) + 1
        /\ Append(c, w)[Len(c) + 1] = w
        /\ \A i \in 1..Len(c) : Append(c, w)[i] = c[i]
        /\ Append(c, w) \in Seq(Said)
    BY <1>1
  <1>3. InOrder(Append(c, w), m)
    BY <1>1, <1>2 DEF InOrder
  <1>4. ASSUME w = News, AllEchoed(c, m) PROVE AllEchoed(Append(c, w), m)
    <2>1. \A i \in 1..Len(Append(c, w)) : Append(c, w)[i] # Damaged
      BY <1>2, <1>4, MessagesAssumption DEF AllEchoed
    <2>2. PICK k \in Nat : m = 3 * k /\ \A n \in 1..k : \E i \in 1..Len(c) : c[i] = n
      BY <1>4 DEF AllEchoed
    <2>3. \A n \in 1..k : \E i \in 1..Len(Append(c, w)) : Append(c, w)[i] = n
      BY <1>2, <2>2
    <2> QED
      BY <2>1, <2>2, <2>3 DEF AllEchoed
  <1> QED
    BY <1>2, <1>3, <1>4

\* The message behind all that were read is echoed.
LEMMA NextWord ==
    ASSUME NEW c \in Seq(Said), NEW n \in Message, NEW m \in Nat, NEW k \in Nat,
           m < 3 * n, 3 * n <= k, InOrder(c, m)
    PROVE  /\ Append(c, n) \in Seq(Said)
           /\ InOrder(Append(c, n), k)
           /\ k = 3 * n /\ m + 3 = k /\ AllEchoed(c, m) => AllEchoed(Append(c, n), k)
  <1>0. Message \subseteq Nat
    BY MessagesAssumption DEF Message
  <1>1. /\ Len(c) \in Nat /\ Len(Append(c, n)) = Len(c) + 1
        /\ Append(c, n)[Len(c) + 1] = n
        /\ \A i \in 1..Len(c) : Append(c, n)[i] = c[i]
        /\ Append(c, n) \in Seq(Said)
    BY DEF Said
  <1>2. InOrder(Append(c, n), k)
    <2> SUFFICES ASSUME NEW j \in 1..Len(Append(c, n)), Append(c, n)[j] \in Message
                 PROVE  /\ 3 * Append(c, n)[j] <= k
                        /\ \A i \in 1..Len(Append(c, n)) :
                              Append(c, n)[i] \in Message /\ i < j
                                => Append(c, n)[i] < Append(c, n)[j]
      BY DEF InOrder
    <2>1. ASSUME NEW i \in 1..Len(c), c[i] \in Message
          PROVE  c[i] < n /\ 3 * c[i] <= k
      <3>1. c[i] \in Nat /\ n \in Nat
        BY <1>0, <2>1
      <3>2. 3 * c[i] <= m
        BY <2>1 DEF InOrder
      <3>3. c[i] < n
        BY <3>1, <3>2
      <3> QED
        BY <3>1, <3>2, <3>3
    <2>2. CASE j = Len(c) + 1
      BY <1>0, <1>1, <2>1, <2>2
    <2>3. CASE j \in 1..Len(c)
      <3>1. c[j] \in Message /\ Append(c, n)[j] = c[j]
        BY <2>3, <1>1
      <3>2. 3 * c[j] <= k
        BY <3>1, <2>3, <2>1
      <3>3. ASSUME NEW i \in 1..Len(Append(c, n)), Append(c, n)[i] \in Message, i < j
            PROVE  Append(c, n)[i] < Append(c, n)[j]
        <4>1. i \in 1..Len(c) /\ Append(c, n)[i] = c[i]
          BY <3>3, <2>3, <1>1
        <4> QED
          BY <4>1, <3>1, <3>3, <2>3 DEF InOrder
      <3> QED
        BY <3>1, <3>2, <3>3
    <2> QED
      BY <1>1, <2>2, <2>3
  <1>3. ASSUME k = 3 * n, m + 3 = k, AllEchoed(c, m) PROVE AllEchoed(Append(c, n), k)
    <2>1. \A i \in 1..Len(Append(c, n)) : Append(c, n)[i] # Damaged
      BY <1>1, <1>3, MessagesAssumption DEF AllEchoed, Message
    <2>2. PICK l \in Nat : m = 3 * l /\ \A x \in 1..l : \E i \in 1..Len(c) : c[i] = x
      BY <1>3 DEF AllEchoed
    <2>3. n = l + 1 /\ n \in Nat
      BY <1>0, <1>3, <2>2
    <2>4. ASSUME NEW x \in 1..n
          PROVE  \E i \in 1..Len(Append(c, n)) : Append(c, n)[i] = x
      <3>1. CASE x = n
        BY <3>1, <1>1
      <3>2. CASE x \in 1..l
        BY <3>2, <1>1, <2>2
      <3> QED
        BY <3>1, <3>2, <2>3
    <2> QED
      BY <2>1, <2>3, <2>4, <1>3 DEF AllEchoed
  <1> QED
    BY <1>1, <1>2, <1>3

LEMMA InitEcho == ServerInit => EchoInv
  <1> SUFFICES ASSUME ServerInit PROVE EchoInv
    OBVIOUS
  <1>1. ReadTypes
    BY MessagesAssumption DEF ServerInit, ReadTypes
  <1>2. ASSUME NEW s \in Sessions
        PROVE  /\ Stream(s)
               /\ InOrder(content[s], Consumed(s))
               /\ AllEchoed(content[s], Consumed(s))
    <2>1. asked[s] = 0 /\ inbound[s] = << >> /\ content[s] = << >>
      BY DEF ServerInit
    <2>2. Len(inbound[s]) = 0 /\ Len(content[s]) = 0
      BY <2>1
    <2>3. Consumed(s) = 0
      <3>1. Consumed(s) = 3 * 0 - 0
        BY <2>1, <2>2 DEF Consumed
      <3> QED
        BY <3>1
    <2> QED
      BY <2>2, <2>3 DEF Stream, InOrder, AllEchoed
  <1> QED
    BY <1>1, <1>2 DEF EchoInv

\* A message is three stretches at the end of the stream.
LEMMA AskedEcho ==
    ASSUME EchoInv, NEW s \in Sessions, PeerAsks(s)
    PROVE  EchoInv'
  <1> DEFINE three == [i \in 1..3 |-> [n |-> asked'[s], part |-> <<"head", "body", "rest">>[i]]]
  <1>1. /\ asked' = [asked EXCEPT ![s] = @ + 1] /\ asked[s] \in Nat /\ asked[s] < MaxMessages
        /\ inbound' = [inbound EXCEPT ![s] = @ \o three]
        /\ UNCHANGED <<lucky, content>>
    BY DEF PeerAsks, EchoInv, ReadTypes
  <1>2. /\ asked'[s] = asked[s] + 1 /\ asked'[s] \in Message
        /\ asked' \in [Sessions -> 0..MaxMessages]
    BY <1>1, MessagesAssumption DEF Message, EchoInv, ReadTypes
  <1>3. \A i \in 1..3 : three[i] \in Stretches /\ Number(three[i]) = 3 * asked[s] + i
    <2> DEFINE parts == <<"head", "body", "rest">>
    <2>1. parts[1] = "head" /\ parts[2] = "body" /\ parts[3] = "rest"
      OBVIOUS
    <2>2. ASSUME NEW i \in 1..3 PROVE three[i] \in Stretches /\ Number(three[i]) = 3 * asked[s] + i
      <3>1. i = 1 \/ i = 2 \/ i = 3
        OBVIOUS
      <3>2. three[i] = [n |-> asked'[s], part |-> parts[i]]
        OBVIOUS
      <3>3. parts[i] = IF i = 1 THEN "head" ELSE IF i = 2 THEN "body" ELSE "rest"
        BY <3>1, <2>1
      <3> HIDE DEF three, parts
      <3> QED
        BY <3>1, <3>2, <3>3, <1>1, <1>2 DEF Number, Stretches
    <2> QED
      BY <2>2
  <1>4. three \in Seq(Stretches) /\ Len(three) = 3
    BY <1>3
  <1> HIDE DEF three
  <1>5. /\ inbound[s] \in Seq(Stretches) /\ inbound'[s] = inbound[s] \o three
        /\ Len(inbound[s]) \in Nat
    BY <1>1 DEF EchoInv, ReadTypes
  <1>6. /\ Len(inbound'[s]) = Len(inbound[s]) + 3 /\ inbound'[s] \in Seq(Stretches)
        /\ \A i \in 1..Len(inbound[s]) + 3 :
              inbound'[s][i] = IF i <= Len(inbound[s]) THEN inbound[s][i]
                                                       ELSE three[i - Len(inbound[s])]
    <2> DEFINE old == inbound[s]
               new == inbound'[s]
    <2>1. old \in Seq(Stretches) /\ three \in Seq(Stretches) /\ new = old \o three
      BY <1>4, <1>5
    <2> HIDE DEF old, new
    <2>2. /\ new \in Seq(Stretches) /\ Len(new) = Len(old) + Len(three)
          /\ \A i \in 1..Len(old) + Len(three) :
                new[i] = IF i <= Len(old) THEN old[i] ELSE three[i - Len(old)]
      BY <2>1, ConcatProperties
    <2> QED
      BY <2>2, <1>4 DEF old, new
  <1>7. inbound' \in [Sessions -> Seq(Stretches)]
    BY <1>1, <1>6 DEF EchoInv, ReadTypes
  <1>8. Consumed(s)' = Consumed(s)
    BY <1>1, <1>2, <1>5, <1>6 DEF Consumed
  <1>9. Stream(s)'
    <2>1. ASSUME NEW i \in 1..Len(inbound'[s])
          PROVE  Number(inbound'[s][i]) = Consumed(s)' + i
      <3>0. i \in Nat /\ i >= 1 /\ i <= Len(inbound[s]) + 3
        BY <1>5, <1>6
      <3>1. CASE i <= Len(inbound[s])
        <4>1. i \in 1..Len(inbound[s]) /\ inbound'[s][i] = inbound[s][i]
          BY <3>0, <3>1, <1>5, <1>6
        <4> QED
          BY <4>1, <1>8 DEF EchoInv, Stream
      <3>2. CASE i > Len(inbound[s])
        <4>1. PICK j \in 1..3 : j = i - Len(inbound[s])
          <5>1. \A l \in Nat : i > l /\ i <= l + 3 => i - l \in 1..3
            BY <3>0
          <5>2. i - Len(inbound[s]) \in 1..3
            BY <3>0, <3>2, <1>5, <5>1
          <5> QED
            BY <5>2
        <4>2. inbound'[s][i] = three[j]
          BY <3>0, <3>2, <4>1, <1>5, <1>6
        <4>3. Number(inbound'[s][i]) = 3 * asked[s] + j
          BY <4>2, <1>3
        <4> QED
          BY <4>1, <4>3, <3>0, <1>1, <1>5, <1>8 DEF Consumed
      <3> QED
        BY <3>0, <3>1, <3>2, <1>5
    <2>2. Consumed(s)' >= 0
      BY <1>8 DEF EchoInv, Stream
    <2> QED
      BY <2>1, <2>2, <1>8 DEF Stream
  <1>10. \A r \in Sessions : r # s => asked'[r] = asked[r] /\ inbound'[r] = inbound[r]
    BY <1>1 DEF EchoInv, ReadTypes
  <1>11. ASSUME NEW r \in Sessions
         PROVE  /\ Stream(r)' /\ Consumed(r)' = Consumed(r)
    <2>1. CASE r = s
      BY <2>1, <1>8, <1>9
    <2>2. CASE r # s
      BY <2>2, <1>10 DEF EchoInv, Stream, Consumed
    <2> QED
      BY <2>1, <2>2
  <1> QED
    BY <1>1, <1>2, <1>7, <1>11 DEF EchoInv, ReadTypes

\* What a read of k stretches makes of them.
LEMMA WhatIsRead ==
    ASSUME NEW w \in Seq(Stretches), NEW k \in 1..Len(w),
           NEW message \in handle_frame(SubSeq(w, 1, k))
    PROVE  \/ /\ w[1].part = "head" /\ k >= 3
              /\ message = {w[1].n}
           \/ /\ ~(w[1].part = "head" /\ k >= 3)
              /\ message \in {{}, {Damaged}}
  <1>1. Len(w) \in Nat /\ k \in Int /\ 1 \in Int /\ \A i \in 1..k : w[i] \in Stretches
    OBVIOUS
  <1>2. /\ Len(SubSeq(w, 1, k)) = k
        /\ \A i \in 1..k : SubSeq(w, 1, k)[i] = w[i]
    BY <1>1, SubSeqProperties
  <1>3. SubSeq(w, 1, k)[1] = w[1]
    BY <1>1, <1>2
  <1> QED
    BY <1>1, <1>2, <1>3 DEF handle_frame

\* A read takes the first stretches of what is left; it echoes the message whose
\* three stretches these are, or nothing of the peer's.
LEMMA ReadEcho ==
    ASSUME EchoInv, NEW s \in Sessions, Read(s)
    PROVE  EchoInv'
  <1> PICK k \in 1..Len(inbound[s]) :
         /\ lucky => k = 3
         /\ inbound' = [inbound EXCEPT ![s] = SubSeq(@, k + 1, Len(@))]
         /\ \E message \in handle_frame(SubSeq(inbound[s], 1, k)) :
               IF message = {} THEN UNCHANGED <<vars, content>>
               ELSE \E m \in message : Echo(s, m)
    BY DEF Read
  <1> PICK message \in handle_frame(SubSeq(inbound[s], 1, k)) :
            IF message = {} THEN UNCHANGED <<vars, content>>
            ELSE \E m \in message : Echo(s, m)
    OBVIOUS
  <1>1. /\ UNCHANGED <<lucky, asked>>
        /\ inbound[s] \in Seq(Stretches) /\ Len(inbound[s]) \in Nat
        /\ asked[s] \in Nat /\ content[s] \in Seq(Said)
        /\ k \in Nat /\ k >= 1 /\ k <= Len(inbound[s])
    BY DEF Read, EchoInv, ReadTypes
  <1>2. /\ inbound'[s] \in Seq(Stretches)
        /\ Len(inbound'[s]) = Len(inbound[s]) - k
        /\ \A i \in 1..Len(inbound'[s]) : inbound'[s][i] = inbound[s][k + i]
    <2> DEFINE old == inbound[s]
               n == Len(old)
    <2>1. inbound'[s] = SubSeq(old, k + 1, n)
      BY DEF EchoInv, ReadTypes
    <2>2. /\ old \in Seq(Stretches) /\ n \in Nat /\ k + 1 \in Int
          /\ \A i \in (k + 1)..n : old[i] \in Stretches
      BY <1>1
    <2>3. n - (k + 1) + 1 = n - k /\ \A i \in Int : (k + 1) + i - 1 = k + i
      BY <1>1, <2>2
    <2> HIDE DEF old, n
    <2>4. /\ SubSeq(old, k + 1, n) \in Seq(Stretches)
          /\ Len(SubSeq(old, k + 1, n)) = IF k + 1 <= n THEN n - (k + 1) + 1 ELSE 0
          /\ \A i \in 1..(n - (k + 1) + 1) : SubSeq(old, k + 1, n)[i] = old[(k + 1) + i - 1]
      BY <2>2, SubSeqProperties
    <2>5. k <= n
      BY <1>1 DEF n, old
    <2>6. Len(SubSeq(old, k + 1, n)) = n - k
      BY <1>1, <2>2, <2>3, <2>4, <2>5
    <2>7. Len(inbound'[s]) = n - k /\ inbound'[s] \in Seq(Stretches)
      BY <2>1, <2>4, <2>6
    <2>8. ASSUME NEW i \in 1..Len(inbound'[s]) PROVE inbound'[s][i] = old[k + i]
      <3>1. i \in 1..(n - (k + 1) + 1) /\ (k + 1) + i - 1 = k + i
        BY <2>3, <2>7, <2>2
      <3> QED
        BY <3>1, <2>1, <2>4
    <2> QED
      BY <2>7, <2>8 DEF n, old
  <1>3. Consumed(s)' = Consumed(s) + k /\ Consumed(s) \in Nat
    BY <1>1, <1>2 DEF Consumed, EchoInv, Stream
  <1>4. Stream(s)'
    <2>1. ASSUME NEW i \in 1..Len(inbound'[s]) PROVE Number(inbound'[s][i]) = Consumed(s)' + i
      <3>1. k + i \in 1..Len(inbound[s]) /\ inbound'[s][i] = inbound[s][k + i]
        BY <1>1, <1>2
      <3>2. Number(inbound[s][k + i]) = Consumed(s) + (k + i)
        BY <3>1 DEF EchoInv, Stream
      <3> QED
        BY <3>1, <3>2, <1>1, <1>3
    <2> QED
      BY <2>1, <1>1, <1>3 DEF Stream
  <1>5. /\ inbound[s][1] \in Stretches
        /\ Number(inbound[s][1]) = Consumed(s) + 1
    BY <1>1 DEF EchoInv, Stream
  <1>6. CASE inbound[s][1].part = "head" /\ k >= 3 /\ message = {inbound[s][1].n}
    <2> PICK n \in Message : n = inbound[s][1].n
      BY <1>5 DEF Stretches
    <2>1. n \in Nat /\ 3 * (n - 1) + 1 = Consumed(s) + 1
      BY <1>5, <1>6, MessagesAssumption DEF Number, Message
    <2>2. content' = [content EXCEPT ![s] = Append(@, n)]
      BY <1>6 DEF Echo
    <2>3. content'[s] = Append(content[s], n)
      BY <2>2 DEF EchoInv, ReadTypes
    <2>a. 3 * n = Consumed(s) + 3
      <3>1. \A x \in Nat : 3 * (x - 1) + 1 = 3 * x - 2
        OBVIOUS
      <3>2. 3 * n \in Nat /\ 3 * n - 2 = Consumed(s) + 1
        BY <2>1, <3>1
      <3> QED
        BY <3>2, <1>3
    <2>4. Consumed(s) < 3 * n /\ 3 * n <= Consumed(s)' /\ Consumed(s)' \in Nat
      <3>1. k \in Nat /\ k >= 3
        BY <1>1, <1>6
      <3> QED
        BY <2>a, <3>1, <1>3
    <2>5. lucky => Consumed(s)' = 3 * n /\ Consumed(s) + 3 = Consumed(s)'
      BY <2>a, <1>3
    <2>6. InOrder(content[s], Consumed(s)) /\ (lucky => AllEchoed(content[s], Consumed(s)))
      BY DEF EchoInv
    <2>7. /\ content'[s] \in Seq(Said)
          /\ InOrder(content'[s], Consumed(s)')
          /\ lucky => AllEchoed(content'[s], Consumed(s)')
      BY <2>3, <2>4, <2>5, <2>6, <1>1, <1>3, NextWord
    <2> QED
      BY <2>2, <2>7, <1>1, <1>2, <1>4 DEF EchoInv, ReadTypes, Stream, Consumed
  <1>7. CASE /\ ~(inbound[s][1].part = "head" /\ k >= 3)
             /\ message \in {{}, {Damaged}}
    <2>1. ~lucky
      <3> SUFFICES ASSUME lucky PROVE FALSE
        OBVIOUS
      <3>1. PICK l \in Nat : Consumed(s) = 3 * l
        BY DEF EchoInv, AllEchoed
      <3>2. inbound[s][1].n \in Nat
        BY <1>5, MessagesAssumption DEF Stretches, Message
      <3>3. inbound[s][1].part # "head"
        BY <1>7
      <3> QED
        BY <3>1, <3>2, <3>3, <1>5 DEF Number
    <2>2. \A c : InOrder(c, Consumed(s)) => InOrder(c, Consumed(s)')
      <3>1. ASSUME NEW c, InOrder(c, Consumed(s)) PROVE InOrder(c, Consumed(s)')
        <4>1. \A j \in 1..Len(c) : c[j] \in Message => 3 * c[j] <= Consumed(s) /\ c[j] \in Nat
          BY <3>1, MessagesAssumption DEF InOrder, Message
        <4>2. \A j \in 1..Len(c) : c[j] \in Message => 3 * c[j] <= Consumed(s)'
          BY <4>1, <1>1, <1>3
        <4> QED
          BY <3>1, <4>2 DEF InOrder
      <3> QED
        BY <3>1
    <2>3. InOrder(content[s], Consumed(s)')
      BY <2>2 DEF EchoInv
    <2>4. CASE content' = content
      BY <2>1, <2>3, <2>4, <1>1, <1>2, <1>4 DEF EchoInv, ReadTypes, Stream, Consumed
    <2>5. CASE content' = [content EXCEPT ![s] = Append(@, Damaged)]
      <3>1. content'[s] = Append(content[s], Damaged)
        BY <2>5 DEF EchoInv, ReadTypes
      <3>2. content'[s] \in Seq(Said) /\ InOrder(content'[s], Consumed(s)')
        BY <3>1, <2>3, <1>1, <1>3, OtherWords
      <3> QED
        BY <2>1, <2>5, <3>2, <1>1, <1>2, <1>4 DEF EchoInv, ReadTypes, Stream, Consumed
    <2> QED
      BY <1>7, <2>4, <2>5 DEF Echo
  <1> QED
    BY <1>1, <1>6, <1>7, WhatIsRead

LEMMA BroadcastEcho ==
    ASSUME EchoInv, broadcast
    PROVE  EchoInv'
  <1>1. /\ UNCHANGED <<lucky, asked, inbound>>
        /\ content' = [s \in Sessions |-> IF phase[s] # "none" THEN Append(content[s], News)
                                                              ELSE content[s]]
    BY DEF broadcast
  <1>2. ASSUME NEW s \in Sessions
        PROVE  /\ content'[s] \in Seq(Said)
               /\ InOrder(content'[s], Consumed(s))
               /\ lucky => AllEchoed(content'[s], Consumed(s))
    <2>1. /\ content[s] \in Seq(Said) /\ Consumed(s) \in Nat
          /\ InOrder(content[s], Consumed(s))
          /\ lucky => AllEchoed(content[s], Consumed(s))
      BY DEF EchoInv, ReadTypes, Stream, Consumed
    <2>2. /\ Append(content[s], News) \in Seq(Said)
          /\ InOrder(Append(content[s], News), Consumed(s))
          /\ lucky => AllEchoed(Append(content[s], News), Consumed(s))
      BY <2>1, OtherWords
    <2> QED
      BY <1>1, <2>1, <2>2
  <1> QED
    BY <1>1, <1>2 DEF EchoInv, ReadTypes, Stream, Consumed

LEMMA NextEcho == EchoInv /\ [ServerNext]_allVars => EchoInv'
  <1> SUFFICES ASSUME EchoInv, [ServerNext]_allVars PROVE EchoInv'
    OBVIOUS
  <1>1. CASE UNCHANGED readVars
    BY <1>1 DEF readVars, EchoInv, ReadTypes, Stream, Consumed
  <1> QED
    BY <1>1, AskedEcho, ReadEcho, BroadcastEcho DEF ServerNext, allVars

LEMMA EchoInvIsEnough == EchoInv => EchoesKeepOrder
  <1> SUFFICES ASSUME EchoInv, NEW s \in Sessions
               PROVE  /\ \A j \in Echoes(s) :
                            /\ content[s][j] \in 1..asked[s]
                            /\ \A i \in Echoes(s) : i < j => content[s][i] < content[s][j]
                            /\ lucky => \A n \in 1..(content[s][j] - 1) :
                                          \E i \in Echoes(s) : i < j /\ content[s][i] = n
                      /\ lucky => Damaged \notin ToSet(content[s])
    BY DEF EchoesKeepOrder
  <1> DEFINE c == content[s]
  <1>1. /\ c \in Seq(Said) /\ asked[s] \in Nat /\ Len(inbound[s]) \in Nat
        /\ InOrder(c, Consumed(s)) /\ (lucky => AllEchoed(c, Consumed(s)))
    BY DEF EchoInv, ReadTypes
  <1>2. \A j \in 1..Len(c) : j \in Echoes(s) <=> c[j] \in Message
    BY <1>1, MessagesAssumption DEF Echoes, Said, Message
  <1>3. Echoes(s) \subseteq 1..Len(c) /\ Len(c) \in Nat
    BY <1>1 DEF Echoes
  <1>4. lucky => Damaged \notin ToSet(c)
    BY <1>1 DEF AllEchoed, ToSet
  <1>5. ASSUME NEW j \in Echoes(s)
        PROVE  /\ c[j] \in 1..asked[s]
               /\ \A i \in Echoes(s) : i < j => c[i] < c[j]
               /\ lucky => \A n \in 1..(c[j] - 1) : \E i \in Echoes(s) : i < j /\ c[i] = n
    <2>1. j \in 1..Len(c) /\ c[j] \in Message /\ c[j] \in Nat /\ c[j] >= 1
      BY <1>2, <1>3, MessagesAssumption DEF Message
    <2>2. 3 * c[j] <= Consumed(s)
      BY <1>1, <2>1 DEF InOrder
    <2>3. c[j] \in 1..asked[s]
      BY <1>1, <2>1, <2>2 DEF Consumed
    <2>4. \A i \in Echoes(s) : i < j => c[i] < c[j]
      BY <1>1, <1>2, <1>3, <2>1 DEF InOrder
    <2>5. ASSUME lucky, NEW n \in 1..(c[j] - 1)
          PROVE  \E i \in Echoes(s) : i < j /\ c[i] = n
      <3>1. PICK k \in Nat : /\ Consumed(s) = 3 * k
                            /\ \A x \in 1..k : \E i \in 1..Len(c) : c[i] = x
        BY <1>1, <2>5 DEF AllEchoed
      <3>2. n \in 1..k /\ n < c[j] /\ n \in Message
        BY <2>1, <2>2, <3>1, MessagesAssumption DEF Message
      <3>3. PICK i \in 1..Len(c) : c[i] = n
        BY <3>1, <3>2
      <3>4. i \in Echoes(s)
        BY <1>2, <3>2, <3>3
      <3>5. ~(j < i) /\ i # j
        BY <1>1, <2>1, <3>2, <3>3 DEF InOrder
      <3> QED
        BY <1>3, <3>3, <3>4, <3>5, <2>1
    <2> QED
      BY <2>3, <2>4, <2>5
  <1> QED
    BY <1>4, <1>5

\* However TCP divides what a peer sends among the reads, it gets its messages
\* back once and in order, without a gap if the reads are lucky (do_read and
\* handle_frame, WebSocketSession.h:117-130 and 169-239, and the handler of
\* basic_text/main.cpp:9-13).
THEOREM EchoesInOrder == ServerSpec => []EchoesKeepOrder
  BY InitEcho, NextEcho, EchoInvIsEnough, PTL DEF ServerSpec

=============================================================================
