----------------------- MODULE WebSocketSessionProofs -----------------------
(***************************************************************************)
(* Proofs about the write queue of WebSocket sessions, for any number of   *)
(* sessions and messages.                                                  *)
(***************************************************************************)
EXTENDS WebSocketSession, SequenceTheorems, FiniteSetTheorems, TLAPS

\* Send as Next calls it: to sessions that exist and may be sent more.
SendNext(to) ==
    /\ to \in SUBSET Sessions
    /\ \A s \in to : sent[s] < MaxSends
    /\ Send(to)

\* A step of the server is one of its handlers for one session, or a round of send().
LEMMA NextCases ==
    ASSUME Next
    PROVE  \/ \E s \in Sessions : Start(s) \/ Io(s)
           \/ \E to : SendNext(to)
  BY DEF Next, SendNext

-----------------------------------------------------------------------------
(* Type correctness. *)

\* What the queue of a session may become: longer by one message, or shorter.
LEMMA QueueTypes ==
    ASSUME NEW q \in Seq(1..MaxSends)
    PROVE  /\ \A n \in 1..MaxSends : Append(q, n) \in Seq(1..MaxSends) /\ Append(q, n) # << >>
           /\ q # << >> => Tail(q) \in Seq(1..MaxSends) /\ Head(q) \in 1..MaxSends
  BY AppendProperties, HeadTailProperties

\* No session has begun, and none has anything to write.
LEMMA InitType == Init => TypeOK
  BY SendsAssumption DEF Init, TypeOK, Phases, Ops, Progress, Piece

\* A piece added to what the socket was given.
LEMMA TransmitType ==
    ASSUME TypeOK, NEW s \in Sessions, NEW op \in Ops, Transmit(s, op)
    PROVE  TypeOK'
  <1> DEFINE piece == [op |-> op, n |-> IF op = "frame" THEN Head(write_queue[s]) ELSE 0,
                       part |-> writes[s][op]]
  <1>1. writes[s][op] \in {"first", "second"}
    BY DEF Transmit, NextOf
  <1>2. op = "frame" => write_queue[s] # << >>
    BY <1>1 DEF TypeOK
  <1>3. IF op = "frame" THEN Head(write_queue[s]) \in Nat ELSE TRUE
    BY <1>2, SendsAssumption, QueueTypes DEF TypeOK
  <1>4. piece \in Piece
    BY <1>1, <1>3 DEF Piece
  <1>5. wire' = [wire EXCEPT ![s] = Append(@, piece)]
    BY DEF Transmit
  <1>6. wire' \in [Sessions -> Seq(Piece)]
    BY <1>4, <1>5 DEF TypeOK
  <1>7. NextOf[writes[s][op]] \in {"second", "done"}
    BY <1>1 DEF NextOf
  <1>8. writes' \in [Sessions -> [Ops -> Progress]]
    BY <1>7 DEF Transmit, TypeOK, Progress
  <1>9. \A r \in Sessions : writes'[r]["frame"] # "idle" => write_queue'[r] # << >>
    BY <1>2 DEF Transmit, TypeOK, Ops
  <1> QED
    BY <1>6, <1>8, <1>9 DEF Transmit, TypeOK

\* The handler of a frame that is written takes it out of the queue.
LEMMA FrameWrittenType ==
    ASSUME TypeOK, NEW s \in Sessions, FrameWritten(s)
    PROVE  TypeOK'
  <1>1. write_queue[s] # << >> /\ write_queue[s] \in Seq(1..MaxSends)
    BY DEF FrameWritten, TypeOK
  <1>2. Tail(write_queue[s]) \in Seq(1..MaxSends)
    BY <1>1, QueueTypes
  <1>3. write_queue' \in [Sessions -> Seq(1..MaxSends)]
    BY <1>2 DEF FrameWritten, TypeOK
  <1>4. writes' \in [Sessions -> [Ops -> Progress]]
    BY DEF FrameWritten, TypeOK, Progress, Ops
  <1>5. \A r \in Sessions : writes'[r]["frame"] # "idle" => write_queue'[r] # << >>
    BY DEF FrameWritten, TypeOK, Ops
  <1> QED
    BY <1>3, <1>4, <1>5 DEF FrameWritten, TypeOK

\* send() to any sessions.
LEMMA SendType ==
    ASSUME TypeOK, NEW to, SendNext(to)
    PROVE  TypeOK'
  <1>1. /\ sent \in [Sessions -> 0..MaxSends]
        /\ \A s \in to : s \in Sessions /\ sent[s] + 1 \in 1..MaxSends
    BY SendsAssumption DEF SendNext, TypeOK
  <1>2. sent' \in [Sessions -> 0..MaxSends]
    BY <1>1, SendsAssumption DEF SendNext, Send
  <1>3. /\ write_queue' \in [Sessions -> Seq(1..MaxSends)]
        /\ \A s \in Sessions : write_queue[s] # << >> => write_queue'[s] # << >>
        /\ \A s \in to : write_queue'[s] # << >>
    BY <1>1, QueueTypes DEF SendNext, Send, TypeOK
  <1>4. writes' \in [Sessions -> [Ops -> Progress]]
    BY DEF SendNext, Send, TypeOK, Progress
  <1>5. \A s \in Sessions : writes'[s]["frame"] # "idle" => write_queue'[s] # << >>
    BY <1>3 DEF SendNext, Send, TypeOK, Ops
  <1> QED
    BY <1>2, <1>3, <1>4, <1>5 DEF SendNext, Send, TypeOK

\* No handler takes a variable out of its type.
LEMMA NextType == TypeOK /\ [Next]_vars => TypeOK'
  <1> SUFFICES ASSUME TypeOK, [Next]_vars PROVE TypeOK'
    OBVIOUS
  <1>1. ASSUME NEW s \in Sessions, Start(s) PROVE TypeOK'
    BY <1>1 DEF Start, TypeOK, Phases
  <1>2. ASSUME NEW s \in Sessions, Handshake(s) PROVE TypeOK'
    <2>1. ASSUME AnswerRequest(s) PROVE TypeOK'
      BY <2>1 DEF AnswerRequest, TypeOK, Phases, Progress, Ops
    <2>2. ASSUME RefuseRequest(s) PROVE TypeOK'
      BY <2>2 DEF RefuseRequest, TypeOK, Phases
    <2>3. ASSUME ResponseWritten(s) PROVE TypeOK'
      BY <2>3 DEF ResponseWritten, TypeOK, Phases, Progress, Ops
    <2> QED
      BY <1>2, <2>1, <2>2, <2>3 DEF Handshake
  <1>3. ASSUME NEW s \in Sessions, NEW op \in Ops, WriteError(s, op) PROVE TypeOK'
    <2>1. writes' \in [Sessions -> [Ops -> Progress]]
      BY <1>3 DEF WriteError, TypeOK, Progress
    <2>2. \A r \in Sessions : writes'[r]["frame"] # "idle" => write_queue'[r] # << >>
      BY <1>3 DEF WriteError, TypeOK, Ops
    <2> QED
      BY <1>3, <2>1, <2>2 DEF WriteError, TypeOK, Phases
  <1>4. ASSUME NEW s \in Sessions, ReadError(s) \/ PeerCloses(s) PROVE TypeOK'
    BY <1>4 DEF ReadError, PeerCloses, TypeOK, Phases
  <1>5. CASE UNCHANGED vars
    BY <1>5 DEF vars, TypeOK
  <1> QED
    BY <1>1, <1>2, <1>3, <1>4, <1>5, TransmitType, FrameWrittenType, SendType, NextCases DEF Io

\* However many sessions there are and whatever is sent to them, a session's
\* state keeps its type, and whatever it is writing is in its queue.
THEOREM SessionTypeCorrect == Spec => []TypeOK
  BY InitType, NextType, PTL DEF Spec

-----------------------------------------------------------------------------
(* What a handler leaves alone. *)

\* What the write queue of a session is made of stays as it was.
Untouched(s) ==
    /\ write_queue'[s] = write_queue[s]
    /\ writes'[s]["frame"] = writes[s]["frame"]
    /\ sent'[s] = sent[s]
    /\ wire'[s] = wire[s]

\* The handlers of the handshake, of errors of reads and of the peer's leaving do
\* not touch the write queue, and no handler touches that of another session.
LEMMA Elsewhere ==
    ASSUME TypeOK, NEW s \in Sessions, Start(s) \/ Io(s)
    PROVE  /\ \A r \in Sessions \ {s} : Untouched(r)
           /\ \/ Untouched(s)
              \/ \E op \in Ops : Transmit(s, op)
              \/ WriteError(s, "frame")
              \/ FrameWritten(s)
  <1>1. ASSUME Start(s) \/ ReadError(s) \/ PeerCloses(s) PROVE \A r \in Sessions : Untouched(r)
    BY <1>1 DEF Start, ReadError, PeerCloses, Untouched
  <1>2. ASSUME Handshake(s) PROVE \A r \in Sessions : Untouched(r)
    <2>1. ASSUME AnswerRequest(s) PROVE \A r \in Sessions : Untouched(r)
      BY <2>1 DEF AnswerRequest, Untouched, TypeOK, Ops
    <2>2. ASSUME RefuseRequest(s) PROVE \A r \in Sessions : Untouched(r)
      BY <2>2 DEF RefuseRequest, Untouched
    <2>3. ASSUME ResponseWritten(s) PROVE \A r \in Sessions : Untouched(r)
      BY <2>3 DEF ResponseWritten, Untouched, TypeOK, Ops
    <2> QED
      BY <1>2, <2>1, <2>2, <2>3 DEF Handshake
  <1>3. ASSUME NEW op \in Ops, Transmit(s, op) PROVE \A r \in Sessions \ {s} : Untouched(r)
    BY <1>3 DEF Transmit, Untouched, TypeOK
  <1>4. ASSUME NEW op \in Ops, WriteError(s, op)
        PROVE  /\ \A r \in Sessions \ {s} : Untouched(r)
               /\ op = "response" => Untouched(s)
    BY <1>4 DEF WriteError, Untouched, TypeOK, Ops
  <1>5. ASSUME FrameWritten(s) PROVE \A r \in Sessions \ {s} : Untouched(r)
    BY <1>5 DEF FrameWritten, Untouched, TypeOK
  <1> QED
    BY <1>1, <1>2, <1>3, <1>4, <1>5 DEF Io, Ops

-----------------------------------------------------------------------------
(* The chain of writes. *)

\* A frame that waits is being written, unless the peer has gone: send() starts
\* the first write and each handler the next one.
LEMMA AwakeStep == TypeOK /\ WriterAwake /\ [Next]_vars => WriterAwake'
  <1> SUFFICES ASSUME TypeOK, WriterAwake, [Next]_vars PROVE WriterAwake'
    OBVIOUS
  <1> DEFINE Awake(s) == peer[s] = "up" /\ write_queue[s] # << >> => writes[s]["frame"] # "idle"
  <1>1. ASSUME NEW s \in Sessions, Start(s) \/ Io(s) PROVE WriterAwake'
    <2>1. \A r \in Sessions : peer'[r] = "up" => peer[r] = "up"
      BY <1>1 DEF Start, Io, Handshake, AnswerRequest, RefuseRequest, ResponseWritten,
                  Transmit, WriteError, FrameWritten, ReadError, PeerCloses, TypeOK
    <2>2. ASSUME NEW r \in Sessions, Untouched(r) PROVE Awake(r)'
      BY <2>1, <2>2 DEF Untouched, WriterAwake
    <2>3. ASSUME NEW op \in Ops, Transmit(s, op) PROVE Awake(s)'
      <3>1. writes'[s]["frame"] # "idle" \/ writes'[s]["frame"] = writes[s]["frame"]
        BY <2>3 DEF Transmit, TypeOK, Ops, NextOf
      <3> QED
        BY <2>3, <3>1 DEF Transmit, WriterAwake
    <2>4. ASSUME WriteError(s, "frame") PROVE Awake(s)'
      BY <2>4 DEF WriteError
    <2>5. ASSUME FrameWritten(s) PROVE Awake(s)'
      BY <2>5 DEF FrameWritten, TypeOK, Ops
    <2>6. \A r \in Sessions : Awake(r)'
      BY <1>1, <2>2, <2>3, <2>4, <2>5, Elsewhere
    <2> QED
      BY <2>6 DEF WriterAwake
  <1>2. ASSUME NEW to, SendNext(to) PROVE WriterAwake'
    BY <1>2 DEF SendNext, Send, TypeOK, WriterAwake, Ops
  <1>3. CASE UNCHANGED vars
    BY <1>3 DEF vars, WriterAwake
  <1> QED
    BY <1>1, <1>2, <1>3, NextCases

\* While a peer stays, no frame is left waiting without a write under way that
\* will lead to it.
THEOREM WriterNeverSleeps == Spec => []WriterAwake
  <1>1. Init => WriterAwake
    BY DEF Init, WriterAwake
  <1> QED
    BY <1>1, InitType, NextType, AwakeStep, PTL DEF Spec

-----------------------------------------------------------------------------
(* What is in the queue. *)

\* The queue holds the last messages sent, in order: NothingForgotten, by index.
Numbered(s) ==
    \A i \in 1..Len(write_queue[s]) :
        write_queue[s][i] = sent[s] - Len(write_queue[s]) + i

\* The two ways to say it are the same.
LEMMA NumberedIsEnough ==
    ASSUME TypeOK
    PROVE  NothingForgotten <=> \A s \in Sessions : Numbered(s)
  <1>1. ASSUME NEW s \in Sessions
        PROVE  Numbered(s) <=> write_queue[s] = [i \in 1..Len(write_queue[s]) |->
                                                    sent[s] - Len(write_queue[s]) + i]
    <2>1. write_queue[s] = [i \in 1..Len(write_queue[s]) |-> write_queue[s][i]]
      BY DEF TypeOK
    <2> QED
      BY <2>1 DEF Numbered
  <1> QED
    BY <1>1 DEF NothingForgotten

\* send() appends the next number, the handler of a write takes out the lowest.
LEMMA NumberedStep ==
    ASSUME TypeOK, TypeOK', [Next]_vars, \A s \in Sessions : Numbered(s)
    PROVE  \A s \in Sessions : Numbered(s)'
  <1>1. ASSUME NEW s \in Sessions, Untouched(s) PROVE Numbered(s)'
    BY <1>1 DEF Untouched, Numbered
  <1>2. ASSUME NEW s \in Sessions, Start(s) \/ Io(s) PROVE \A r \in Sessions : Numbered(r)'
    <2>1. ASSUME NEW op \in Ops, Transmit(s, op) PROVE Numbered(s)'
      BY <2>1 DEF Transmit, Numbered
    <2>2. ASSUME WriteError(s, "frame") PROVE Numbered(s)'
      BY <2>2 DEF WriteError, Numbered
    <2>3. ASSUME FrameWritten(s) PROVE Numbered(s)'
      <3> DEFINE q == write_queue[s]
      <3>1. q \in Seq(1..MaxSends) /\ q # << >> /\ sent[s] \in Nat
        BY <2>3, SendsAssumption DEF FrameWritten, TypeOK
      <3>2. write_queue'[s] = Tail(q) /\ sent'[s] = sent[s]
        BY <2>3 DEF FrameWritten, TypeOK
      <3>3. /\ Len(Tail(q)) = Len(q) - 1 /\ Len(q) \in Nat
            /\ \A i \in 1..Len(Tail(q)) : Tail(q)[i] = q[i + 1]
        BY <3>1, HeadTailProperties
      <3>4. ASSUME NEW i \in 1..Len(Tail(q))
            PROVE  Tail(q)[i] = sent[s] - Len(Tail(q)) + i
        <4>1. i + 1 \in 1..Len(q)
          BY <3>3
        <4>2. q[i + 1] = sent[s] - Len(q) + (i + 1)
          BY <4>1 DEF Numbered
        <4> QED
          BY <3>1, <3>3, <4>2
      <3> QED
        BY <3>2, <3>4 DEF Numbered
    <2> QED
      BY <1>1, <1>2, <2>1, <2>2, <2>3, Elsewhere
  <1>3. ASSUME NEW to, SendNext(to), NEW s \in Sessions PROVE Numbered(s)'
    <2>1. CASE s \in to
      <3> DEFINE q == write_queue[s]
                 n == sent[s] + 1
      <3>1. q \in Seq(1..MaxSends) /\ Len(q) \in Nat /\ sent[s] \in Nat /\ n \in 1..MaxSends
        BY <1>3, <2>1, SendsAssumption DEF SendNext, TypeOK
      <3>2. write_queue'[s] = Append(q, n) /\ sent'[s] = n
        BY <1>3, <2>1 DEF SendNext, Send
      <3>3. /\ Len(Append(q, n)) = Len(q) + 1
            /\ \A i \in 1..Len(q) : Append(q, n)[i] = q[i]
            /\ Append(q, n)[Len(q) + 1] = n
        BY <3>1, AppendProperties
      <3>4. ASSUME NEW i \in 1..(Len(q) + 1) PROVE Append(q, n)[i] = n - (Len(q) + 1) + i
        <4>1. CASE i \in 1..Len(q)
          <5>1. q[i] = sent[s] - Len(q) + i
            BY <4>1 DEF Numbered
          <5> QED
            BY <3>1, <3>3, <4>1, <5>1
        <4>2. CASE i = Len(q) + 1
          BY <3>1, <3>3, <4>2
        <4> QED
          BY <3>1, <4>1, <4>2
      <3> QED
        BY <3>2, <3>3, <3>4 DEF Numbered
    <2>2. CASE s \notin to
      <3>1. write_queue'[s] = write_queue[s] /\ sent'[s] = sent[s]
        BY <1>3, <2>2 DEF SendNext, Send
      <3> QED
        BY <3>1 DEF Numbered
    <2> QED
      BY <2>1, <2>2
  <1>4. CASE UNCHANGED vars
    BY <1>4 DEF vars, Numbered
  <1> QED
    BY <1>2, <1>3, <1>4, NextCases

\* Nothing that was sent disappears from the queue before it is written.
THEOREM NothingIsForgotten == Spec => []NothingForgotten
  <1> DEFINE Inv == TypeOK /\ \A s \in Sessions : Numbered(s)
  <1>1. Init => Inv
    BY InitType DEF Init, Numbered
  <1>2. Inv /\ [Next]_vars => Inv'
    BY NextType, NumberedStep
  <1>3. Inv => NothingForgotten
    BY NumberedIsEnough
  <1> QED
    BY <1>1, <1>2, <1>3, PTL DEF Spec

-----------------------------------------------------------------------------
(* What the socket is given. *)

\* The places in w of the pieces of frames, and: these are the first m pieces of
\* all frames, each one once, in order.
FramesOf(w) == {i \in 1..Len(w) : w[i].op = "frame"}

FirstPieces(w, m) ==
    /\ \A i \in FramesOf(w) : Rank(w[i]) \in 1..m
    /\ \A i, j \in FramesOf(w) : i < j => Rank(w[i]) < Rank(w[j])
    /\ \A k \in 1..m : \E i \in FramesOf(w) : Rank(w[i]) = k

\* How many frames of a session have left its queue, and how many pieces the
\* socket has been given by then.
Written(s) == sent[s] - Len(write_queue[s])

Given(s, m) ==
    /\ FirstPieces(wire[s], m)
    /\ writes[s]["frame"] = "first" => m = 2 * Written(s)
    /\ writes[s]["frame"] = "second" => m = 2 * Written(s) + 1
    /\ writes[s]["frame"] = "done" => m = 2 * Written(s) + 2
    /\ writes[s]["frame"] = "idle" /\ write_queue[s] = << >> => m = 2 * Written(s)
    /\ writes[s]["frame"] = "idle" => m \in {2 * Written(s), 2 * Written(s) + 1}

PiecesGiven == \A s \in Sessions : \E m \in Nat : Given(s, m)

OrderInv == TypeOK /\ (\A s \in Sessions : Numbered(s)) /\ PiecesGiven

\* A rank is a number.
LEMMA RankType ==
    ASSUME NEW piece \in Piece
    PROVE  Rank(piece) \in Int
  BY DEF Rank, Piece

\* The next piece of the frames makes the first m pieces the first m + 1.
LEMMA NextPiece ==
    ASSUME NEW w \in Seq(Piece), NEW m \in Nat, FirstPieces(w, m),
           NEW piece \in Piece, piece.op = "frame", Rank(piece) = m + 1
    PROVE  FirstPieces(Append(w, piece), m + 1)
  <1> DEFINE v == Append(w, piece)
  <1>1. /\ Len(w) \in Nat /\ Len(v) = Len(w) + 1
        /\ \A i \in 1..Len(w) : v[i] = w[i]
        /\ v[Len(w) + 1] = piece
    BY AppendProperties
  <1> HIDE DEF v
  <1>2. FramesOf(v) = FramesOf(w) \cup {Len(w) + 1}
    BY <1>1 DEF FramesOf
  <1>3. \A i \in FramesOf(w) : i \in 1..Len(w) /\ v[i] = w[i] /\ Rank(w[i]) \in 1..m
    BY <1>1 DEF FramesOf, FirstPieces
  <1>4. \A i \in FramesOf(v) : Rank(v[i]) \in 1..(m + 1)
    BY <1>1, <1>2, <1>3
  <1>5. ASSUME NEW i \in FramesOf(v), NEW j \in FramesOf(v), i < j
        PROVE  Rank(v[i]) < Rank(v[j])
    <2>1. i \in FramesOf(w)
      BY <1>1, <1>2, <1>3, <1>5
    <2>2. CASE j \in FramesOf(w)
      BY <1>3, <1>5, <2>1, <2>2 DEF FirstPieces
    <2>3. CASE j = Len(w) + 1
      <3>1. Rank(v[i]) \in 1..m
        BY <1>3, <2>1
      <3>2. Rank(v[j]) = m + 1
        BY <1>1, <2>3
      <3> QED
        BY <3>1, <3>2
    <2> QED
      BY <1>2, <2>2, <2>3
  <1>6. ASSUME NEW k \in 1..(m + 1) PROVE \E i \in FramesOf(v) : Rank(v[i]) = k
    <2>1. CASE k \in 1..m
      BY <1>2, <1>3, <2>1 DEF FirstPieces
    <2>2. CASE k = m + 1
      BY <1>1, <1>2, <2>2
    <2>3. k \in 1..m \/ k = m + 1
      OBVIOUS
    <2> QED
      BY <2>1, <2>2, <2>3
  <1> QED
    BY <1>4, <1>5, <1>6 DEF FirstPieces, v

\* A piece of the answer to the handshake changes nothing for the frames.
LEMMA OtherPiece ==
    ASSUME NEW w \in Seq(Piece), NEW m \in Nat, FirstPieces(w, m),
           NEW piece \in Piece, piece.op # "frame"
    PROVE  FirstPieces(Append(w, piece), m)
  <1> DEFINE v == Append(w, piece)
  <1>1. /\ Len(w) \in Nat /\ Len(v) = Len(w) + 1
        /\ \A i \in 1..Len(w) : v[i] = w[i]
        /\ v[Len(w) + 1] = piece
    BY AppendProperties
  <1> HIDE DEF v
  <1>2. FramesOf(v) = FramesOf(w)
    BY <1>1 DEF FramesOf
  <1>3. \A i \in FramesOf(w) : v[i] = w[i]
    BY <1>1 DEF FramesOf
  <1>4. FirstPieces(v, m)
    <2>1. \A i \in FramesOf(v) : Rank(v[i]) = Rank(w[i])
      BY <1>2, <1>3
    <2>2. /\ \A i \in FramesOf(v) : Rank(v[i]) \in 1..m
          /\ \A i, j \in FramesOf(v) : i < j => Rank(v[i]) < Rank(v[j])
      BY <1>2, <2>1 DEF FirstPieces
    <2>3. ASSUME NEW k \in 1..m PROVE \E i \in FramesOf(v) : Rank(v[i]) = k
      BY <1>2, <2>1 DEF FirstPieces
    <2> QED
      BY <2>2, <2>3 DEF FirstPieces
  <1> QED
    BY <1>4 DEF v

\* No handler gives the socket anything but the next piece.
LEMMA GivenStep ==
    ASSUME OrderInv, TypeOK', [Next]_vars
    PROVE  PiecesGiven'
  <1> USE DEF OrderInv
  <1>1. ASSUME NEW s \in Sessions, Untouched(s) PROVE \E m \in Nat : Given(s, m)'
    <2>1. PICK m \in Nat : Given(s, m)
      BY DEF PiecesGiven
    <2> QED
      BY <1>1, <2>1 DEF Untouched, Given, Written
  <1>2. ASSUME NEW s \in Sessions, Transmit(s, "frame") PROVE \E m \in Nat : Given(s, m)'
    <2> DEFINE q == write_queue[s]
               piece == [op |-> "frame", n |-> Head(q), part |-> writes[s]["frame"]]
    <2>1. PICK m \in Nat : Given(s, m)
      BY DEF PiecesGiven
    <2>2. writes[s]["frame"] \in {"first", "second"} /\ "frame" \in Ops
      BY <1>2 DEF Transmit, NextOf, Ops
    <2>3. /\ q \in Seq(1..MaxSends) /\ q # << >> /\ sent[s] \in Nat
          /\ wire[s] \in Seq(Piece)
      BY <2>2, SendsAssumption DEF TypeOK
    <2>4. Len(q) \in Nat /\ Len(q) >= 1 /\ Head(q) = q[1]
      BY <2>3
    <2>5. Head(q) = sent[s] - Len(q) + 1 /\ Head(q) \in Nat
      <3>1. q[1] = sent[s] - Len(q) + 1
        BY <2>4 DEF Numbered
      <3>2. Head(q) \in 1..MaxSends
        BY <2>3, HeadTailProperties
      <3> QED
        BY <2>4, <3>1, <3>2, SendsAssumption
    <2>6. piece \in Piece
      BY <2>2, <2>5 DEF Piece
    <2>7. wire'[s] = Append(wire[s], piece) /\ write_queue'[s] = q /\ sent'[s] = sent[s]
      BY <1>2 DEF Transmit, TypeOK
    <2>8. /\ writes[s]["frame"] = "first" => writes'[s]["frame"] = "second"
          /\ writes[s]["frame"] = "second" => writes'[s]["frame"] = "done"
      BY <1>2, <2>2 DEF Transmit, TypeOK, NextOf
    <2>9. Rank(piece) = m + 1
      <3>1. Head(q) = Written(s) + 1 /\ Written(s) \in Int
        BY <2>3, <2>4, <2>5 DEF Written
      <3>2. CASE writes[s]["frame"] = "first"
        <4>1. m = 2 * Written(s)
          BY <2>1, <3>2 DEF Given
        <4>2. Rank(piece) = 2 * Head(q) - 1
          BY <2>5, <3>2 DEF Rank
        <4> QED
          BY <3>1, <4>1, <4>2
      <3>3. CASE writes[s]["frame"] = "second"
        <4>1. m = 2 * Written(s) + 1
          BY <2>1, <3>3 DEF Given
        <4>2. Rank(piece) = 2 * Head(q)
          BY <2>5, <3>3 DEF Rank
        <4> QED
          BY <3>1, <4>1, <4>2
      <3> QED
        BY <2>2, <3>2, <3>3
    <2>10. FirstPieces(wire'[s], m + 1)
      BY <2>1, <2>3, <2>6, <2>7, <2>9, NextPiece DEF Given, Written
    <2>11. Given(s, m + 1)'
      <3>1. Written(s)' = Written(s) /\ Written(s) \in Int
        BY <2>3, <2>4, <2>7 DEF Written
      <3>2. CASE writes[s]["frame"] = "first"
        <4>1. m = 2 * Written(s) /\ writes'[s]["frame"] = "second"
          BY <2>1, <2>8, <3>2 DEF Given
        <4> QED
          BY <2>10, <3>1, <4>1 DEF Given
      <3>3. CASE writes[s]["frame"] = "second"
        <4>1. m = 2 * Written(s) + 1 /\ writes'[s]["frame"] = "done"
          BY <2>1, <2>8, <3>3 DEF Given
        <4> QED
          BY <2>10, <3>1, <4>1 DEF Given
      <3> QED
        BY <2>2, <3>2, <3>3
    <2> QED
      BY <2>11
  <1>3. ASSUME NEW s \in Sessions, Transmit(s, "response") PROVE \E m \in Nat : Given(s, m)'
    <2> DEFINE piece == [op |-> "response", n |-> 0, part |-> writes[s]["response"]]
    <2>1. PICK m \in Nat : Given(s, m)
      BY DEF PiecesGiven
    <2>2. piece \in Piece /\ wire[s] \in Seq(Piece)
      BY <1>3 DEF Transmit, NextOf, Piece, Ops, TypeOK
    <2>3. wire'[s] = Append(wire[s], piece)
      BY <1>3 DEF Transmit, TypeOK
    <2>4. /\ writes'[s]["frame"] = writes[s]["frame"]
          /\ write_queue'[s] = write_queue[s] /\ sent'[s] = sent[s]
      BY <1>3 DEF Transmit, TypeOK, Ops
    <2>5. FirstPieces(wire'[s], m)
      BY <2>1, <2>2, <2>3, OtherPiece DEF Given, Written
    <2> QED
      BY <2>1, <2>4, <2>5 DEF Given, Written
  <1>4. ASSUME NEW s \in Sessions, WriteError(s, "frame") PROVE \E m \in Nat : Given(s, m)'
    <2>1. PICK m \in Nat : Given(s, m)
      BY DEF PiecesGiven
    <2>2. /\ writes'[s]["frame"] = "idle" /\ write_queue[s] # << >>
          /\ write_queue'[s] = write_queue[s] /\ wire'[s] = wire[s]
      BY <1>4 DEF WriteError, TypeOK, Ops, NextOf
    <2>3. writes[s]["frame"] \in {"first", "second"} /\ Written(s)' = Written(s)
      BY <1>4 DEF WriteError, NextOf, Written
    <2>4. m \in {2 * Written(s), 2 * Written(s) + 1}
      BY <2>1, <2>3 DEF Given
    <2> QED
      BY <2>1, <2>2, <2>3, <2>4 DEF Given
  <1>5. ASSUME NEW s \in Sessions, FrameWritten(s) PROVE \E m \in Nat : Given(s, m)'
    <2> DEFINE q == write_queue[s]
    <2>1. PICK m \in Nat : Given(s, m)
      BY DEF PiecesGiven
    <2>2. writes[s]["frame"] = "done"
      BY <1>5 DEF FrameWritten
    <2>3. q \in Seq(1..MaxSends) /\ q # << >> /\ sent[s] \in Nat
      BY <2>2, SendsAssumption DEF TypeOK
    <2>4. Len(Tail(q)) = Len(q) - 1 /\ Len(q) \in Nat
      BY <2>3, HeadTailProperties
    <2>5. /\ write_queue'[s] = Tail(q) /\ sent'[s] = sent[s] /\ wire'[s] = wire[s]
          /\ writes'[s]["frame"] \in {"idle", "first"}
      BY <1>5 DEF FrameWritten, TypeOK, Ops
    <2>6. Written(s)' = Written(s) + 1 /\ Written(s) \in Int
      BY <2>3, <2>4, <2>5 DEF Written
    <2>7. m = 2 * Written(s) + 2 /\ FirstPieces(wire[s], m)
      BY <2>1, <2>2 DEF Given
    <2>8. m = 2 * Written(s)'
      BY <2>6, <2>7
    <2> QED
      BY <2>5, <2>7, <2>8 DEF Given
  <1>6. ASSUME NEW s \in Sessions, Start(s) \/ Io(s) PROVE PiecesGiven'
    <2>1. \A r \in Sessions : \E m \in Nat : Given(r, m)'
      BY <1>1, <1>2, <1>3, <1>4, <1>5, <1>6, Elsewhere DEF Ops
    <2> QED
      BY <2>1 DEF PiecesGiven
  <1>7. ASSUME NEW to, SendNext(to), NEW s \in Sessions PROVE \E m \in Nat : Given(s, m)'
    <2>1. PICK m \in Nat : Given(s, m)
      BY DEF PiecesGiven
    <2>2. wire'[s] = wire[s]
      BY <1>7 DEF SendNext, Send
    <2>3. CASE s \in to
      <3> DEFINE q == write_queue[s]
                 n == sent[s] + 1
      <3>1. q \in Seq(1..MaxSends) /\ Len(q) \in Nat /\ sent[s] \in Nat /\ n \in 1..MaxSends
        BY <1>7, <2>3, SendsAssumption DEF SendNext, TypeOK
      <3>2. write_queue'[s] = Append(q, n) /\ sent'[s] = n
        BY <1>7, <2>3 DEF SendNext, Send
      <3>3. write_queue'[s] # << >> /\ Len(write_queue'[s]) = Len(q) + 1
        <4>1. Append(q, n) # << >>
          BY <3>1, QueueTypes
        <4>2. Len(Append(q, n)) = Len(q) + 1
          BY <3>1, AppendProperties
        <4> QED
          BY <3>2, <4>1, <4>2
      <3>4. Written(s)' = Written(s)
        <4>1. sent'[s] = sent[s] + 1
          BY <3>2
        <4> QED
          BY <3>1, <3>3, <4>1 DEF Written
      <3>5. CASE q = << >>
        <4>1. writes[s]["frame"] = "idle" /\ writes'[s]["frame"] = "first"
          BY <1>7, <2>3, <3>5 DEF SendNext, Send, TypeOK, Ops
        <4>2. m = 2 * (sent[s] - Len(q))
          BY <2>1, <3>5, <4>1 DEF Given, Written
        <4> QED
          BY <2>1, <2>2, <3>4, <4>1, <4>2 DEF Given, Written
      <3>6. CASE q # << >>
        <4>1. writes'[s]["frame"] = writes[s]["frame"]
          BY <1>7, <2>3, <3>6 DEF SendNext, Send
        <4> QED
          BY <2>1, <2>2, <3>2, <3>3, <3>4, <4>1 DEF Given, Written
      <3> QED
        BY <3>5, <3>6
    <2>4. CASE s \notin to
      <3>1. Untouched(s)
        BY <1>7, <2>2, <2>4 DEF SendNext, Send, Untouched
      <3> QED
        BY <1>1, <3>1
    <2> QED
      BY <2>3, <2>4
  <1>8. CASE UNCHANGED vars
    <2>1. \A s \in Sessions : Untouched(s)
      BY <1>8 DEF vars, Untouched
    <2> QED
      BY <1>1, <2>1 DEF PiecesGiven
  <1> QED
    BY <1>6, <1>7, <1>8, NextCases DEF PiecesGiven

\* If they are the first pieces of all frames, they are the frames in order.
LEMMA FirstPiecesAreInOrder == OrderInv => FramesInOrder
  <1> SUFFICES ASSUME OrderInv, NEW s \in Sessions, NEW i \in FramePieces(s)
               PROVE  /\ \A j \in FramePieces(s) : i < j => Rank(wire[s][i]) < Rank(wire[s][j])
                      /\ \A k \in 1..(Rank(wire[s][i]) - 1) :
                            \E j \in FramePieces(s) : j < i /\ Rank(wire[s][j]) = k
    BY DEF FramesInOrder
  <1>1. PICK m \in Nat : FirstPieces(wire[s], m)
    BY DEF OrderInv, PiecesGiven, Given
  <1>2. FramePieces(s) = FramesOf(wire[s]) /\ FramePieces(s) \subseteq Int
    BY DEF FramePieces, FramesOf
  <1>3. \A j \in FramePieces(s) : i < j => Rank(wire[s][i]) < Rank(wire[s][j])
    BY <1>1, <1>2 DEF FirstPieces
  <1>4. ASSUME NEW k \in 1..(Rank(wire[s][i]) - 1)
        PROVE  \E j \in FramePieces(s) : j < i /\ Rank(wire[s][j]) = k
    <2>1. Rank(wire[s][i]) \in 1..m
      BY <1>1, <1>2 DEF FirstPieces
    <2>2. PICK j \in FramePieces(s) : Rank(wire[s][j]) = k
      BY <1>1, <1>2, <2>1 DEF FirstPieces
    <2>3. k < Rank(wire[s][i])
      BY <2>1
    <2>4. j < i
      BY <1>2, <1>3, <2>1, <2>2, <2>3
    <2> QED
      BY <2>2, <2>4
  <1> QED
    BY <1>3, <1>4

LEMMA InitFrames == Init => OrderInv
  <1>1. ASSUME Init, NEW s \in Sessions PROVE Given(s, 0)
    BY <1>1 DEF Init, Given, Written, FirstPieces, FramesOf, Ops
  <1>2. Init => PiecesGiven
    BY <1>1 DEF PiecesGiven
  <1>3. Init => \A s \in Sessions : Numbered(s)
    BY DEF Init, Numbered
  <1> QED
    BY <1>2, <1>3, InitType DEF OrderInv

LEMMA NextFrames == OrderInv /\ [Next]_vars => OrderInv'
  BY NextType, NumberedStep, GivenStep DEF OrderInv

\* The bytes of the frames go out once, whole and in order, whatever else goes out
\* in between.
THEOREM FramesGoOutInOrder == Spec => []FramesInOrder
  BY InitFrames, NextFrames, FirstPiecesAreInOrder, PTL DEF Spec

-----------------------------------------------------------------------------
(* How many frames the socket has been given. *)

\* The places in w of the last pieces of frames.
LastPieces(w) == {i \in 1..Len(w) : w[i].op = "frame" /\ w[i].part = "second"}

\* Among the first m pieces of all frames, the last pieces of m div 2 of them.
LEMMA LastPiecesCounted ==
    ASSUME NEW w \in Seq(Piece), NEW m \in Nat, FirstPieces(w, m),
           NEW k \in Nat, m \in {2 * k, 2 * k + 1}
    PROVE  Cardinality(LastPieces(w)) = k
  <1> DEFINE S == LastPieces(w)
             f == [i \in S |-> w[i].n]
  <1>1. ASSUME NEW i \in S
        PROVE  /\ i \in 1..Len(w) /\ i \in FramesOf(w) /\ w[i].n \in Nat
               /\ Rank(w[i]) = 2 * w[i].n
    <2>1. i \in 1..Len(w) /\ w[i].part = "second" /\ w[i].op = "frame"
      BY DEF LastPieces
    <2>2. w[i] \in Piece
      BY <2>1
    <2>3. w[i].n \in Nat
      BY <2>2 DEF Piece
    <2> QED
      BY <2>1, <2>3 DEF FramesOf, Rank
  <1>2. ASSUME NEW i \in S PROVE f[i] \in 1..k
    <2>1. Rank(w[i]) \in 1..m
      BY <1>1 DEF FirstPieces
    <2>2. f[i] = w[i].n
      OBVIOUS
    <2> HIDE DEF f
    <2> QED
      BY <1>1, <2>1, <2>2
  <1>3. ASSUME NEW i \in S, NEW j \in S, f[i] = f[j] PROVE i = j
    <2>1. Rank(w[i]) = Rank(w[j])
      BY <1>1, <1>3
    <2>2. i \in Int /\ j \in Int /\ Rank(w[i]) \in Int
      BY <1>1
    <2>3. ~ (i < j) /\ ~ (j < i)
      <3>1. i < j => Rank(w[i]) < Rank(w[j])
        BY <1>1 DEF FirstPieces
      <3>2. j < i => Rank(w[j]) < Rank(w[i])
        BY <1>1 DEF FirstPieces
      <3> QED
        BY <2>1, <2>2, <3>1, <3>2
    <2> QED
      BY <2>2, <2>3
  <1>4. ASSUME NEW n \in 1..k PROVE \E i \in S : f[i] = n
    <2>1. 2 * n \in 1..m
      OBVIOUS
    <2>2. PICK i \in FramesOf(w) : Rank(w[i]) = 2 * n
      BY <2>1 DEF FirstPieces
    <2>3. i \in 1..Len(w) /\ w[i].op = "frame" /\ w[i] \in Piece
      BY DEF FramesOf
    <2>4. w[i].n \in Nat /\ w[i].part \in {"first", "second"}
      BY <2>3 DEF Piece
    <2>5. w[i].part = "second" /\ w[i].n = n
      BY <2>2, <2>4 DEF Rank
    <2> QED
      BY <2>3, <2>5 DEF LastPieces
  <1>5. f \in Bijection(S, 1..k)
    <2>1. f \in [S -> 1..k]
      BY <1>2
    <2> HIDE DEF f, S
    <2> QED
      BY <1>3, <1>4, <2>1 DEF Bijection, Injection, IsInjective, Surjection
  <1>6. IsFiniteSet(S)
    <2>1. Len(w) \in Nat
      BY LenProperties
    <2>2. IsFiniteSet(1..Len(w)) /\ S \in SUBSET (1..Len(w))
      BY <2>1, FS_Interval DEF LastPieces
    <2> QED
      BY <2>2, FS_Subset
  <1>7. Cardinality(S) = Cardinality(1..k)
    <2> HIDE DEF f, S
    <2> QED
      BY <1>5, <1>6, FS_Bijection DEF ExistsBijection
  <1>8. Cardinality(1..k) = k
    BY FS_Interval
  <1> QED
    BY <1>7, <1>8

\* The frames a session's socket was given whole are those that have left its
\* queue, and the one whose handler is still to run.
LEMMA WholeFrames ==
    ASSUME OrderInv, NEW s \in Sessions
    PROVE  Cardinality(LastPieces(wire[s])) + Len(write_queue[s])
              = sent[s] + (IF writes[s]["frame"] = "done" THEN 1 ELSE 0)
  <1>1. PICK m \in Nat : Given(s, m)
    BY DEF OrderInv, PiecesGiven
  <1>2. wire[s] \in Seq(Piece) /\ sent[s] \in Nat /\ Len(write_queue[s]) \in Nat
    BY SendsAssumption DEF OrderInv, TypeOK
  <1>3. Written(s) \in Int /\ sent[s] = Written(s) + Len(write_queue[s])
    BY <1>2 DEF Written
  <1>4. writes[s]["frame"] \in {"idle", "first", "second", "done"}
    BY DEF OrderInv, TypeOK, Ops, Progress
  <1>5. CASE writes[s]["frame"] = "done"
    <2>1. m = 2 * (Written(s) + 1) /\ Written(s) + 1 \in Nat
      BY <1>1, <1>3, <1>5 DEF Given
    <2>2. Cardinality(LastPieces(wire[s])) = Written(s) + 1
      BY <1>1, <1>2, <2>1, LastPiecesCounted DEF Given
    <2> QED
      BY <1>2, <1>3, <1>5, <2>2
  <1>6. CASE writes[s]["frame"] # "done"
    <2>1. m \in {2 * Written(s), 2 * Written(s) + 1} /\ Written(s) \in Nat
      BY <1>1, <1>3, <1>4, <1>6 DEF Given
    <2>2. Cardinality(LastPieces(wire[s])) = Written(s)
      BY <1>1, <1>2, <2>1, LastPiecesCounted DEF Given
    <2> QED
      BY <1>2, <1>3, <1>6, <2>2
  <1> QED
    BY <1>5, <1>6

=============================================================================
