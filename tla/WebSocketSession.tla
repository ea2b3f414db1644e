-------------------------- MODULE WebSocketSession --------------------------
(***************************************************************************)
(* The WebSocket sessions of a server that runs its io_context on one      *)
(* thread: the opening handshake and the queue of frames that wait to be   *)
(* written (common/WebSocketSession.h).  What a session reads once it is   *)
(* open is WebSocketServer's subject.                                      *)
(*                                                                         *)
(* A session has up to two composed asio::async_write operations: one for  *)
(* the answer to the handshake, one for the frame at the front of the      *)
(* queue.  Each hands its bytes to the socket in pieces, two of them here, *)
(* so that the pieces of two operations may alternate, and has its handler *)
(* called some time after the last piece, so that other handlers may run   *)
(* in between.  The n-th message given to send() of a session is known as  *)
(* n; the bytes of its frame are WebSocketFrame's subject.                 *)
(***************************************************************************)
EXTENDS Naturals, Sequences, FiniteSets, SequencesExt

CONSTANTS
    Sessions,   \* the connections that may be accepted
    MaxSends    \* bound: messages given to send() of one session

ASSUME SendsAssumption == MaxSends \in Nat

VARIABLES
    phase,        \* where the session is in its life, see Phases
    write_queue,  \* write_queue_: messages not written yet, oldest first
    writes,       \* progress of the two write operations
    peer,         \* is the other end still there?
    sent,         \* messages given to send() so far
    wire          \* history: the pieces the socket took, the peer's if it stays

vars == <<phase, write_queue, writes, peer, sent, wire>>

-----------------------------------------------------------------------------
\* "none": not accepted; "request": reading the HTTP request; "response":
\* answering it; "open": reading frames; "over": no handler is left that reads.
Phases == {"none", "request", "response", "open", "over"}

Ops      == {"response", "frame"}
Progress == {"idle", "first", "second", "done"}
NextOf   == [first |-> "second", second |-> "done"]

Piece == [op : Ops, n : Nat, part : {"first", "second"}]

Init ==
    /\ phase = [s \in Sessions |-> "none"]
    /\ write_queue = [s \in Sessions |-> << >>]
    /\ writes = [s \in Sessions |-> [op \in Ops |-> "idle"]]
    /\ peer = [s \in Sessions |-> "up"]
    /\ sent = [s \in Sessions |-> 0]
    /\ wire = [s \in Sessions |-> << >>]

-----------------------------------------------------------------------------
\* The session is constructed and start() begins to read the request.
Start(s) ==
    /\ phase[s] = "none"
    /\ phase' = [phase EXCEPT ![s] = "request"]
    /\ UNCHANGED <<write_queue, writes, peer, sent, wire>>

\* The request has a Sec-WebSocket-Key: the 101 answer begins to be written.
AnswerRequest(s) ==
    /\ phase[s] = "request"
    /\ phase' = [phase EXCEPT ![s] = "response"]
    /\ writes' = [writes EXCEPT ![s]["response"] = "first"]
    /\ UNCHANGED <<write_queue, peer, sent, wire>>

\* The request has no key, or could not be read: nothing more is done.
RefuseRequest(s) ==
    /\ phase[s] = "request"
    /\ phase' = [phase EXCEPT ![s] = "over"]
    /\ UNCHANGED <<write_queue, writes, peer, sent, wire>>

\* The answer is written: do_read.
ResponseWritten(s) ==
    /\ writes[s]["response"] = "done"
    /\ writes' = [writes EXCEPT ![s]["response"] = "idle"]
    /\ phase' = [phase EXCEPT ![s] = "open"]
    /\ UNCHANGED <<write_queue, peer, sent, wire>>

\* Defects considered: the queue is looked at after the frame was put in it, or
\* not at all.
SendLooksTooLate(to) ==
    /\ write_queue' = [s \in Sessions |->
                         IF s \in to THEN Append(write_queue[s], sent[s] + 1)
                                     ELSE write_queue[s]]
    /\ sent' = [s \in Sessions |-> IF s \in to THEN sent[s] + 1 ELSE sent[s]]
    /\ UNCHANGED <<phase, peer, wire, writes>>

SendDoesNotLook(to) ==
    /\ write_queue' = [s \in Sessions |->
                         IF s \in to THEN Append(write_queue[s], sent[s] + 1)
                                     ELSE write_queue[s]]
    /\ sent' = [s \in Sessions |-> IF s \in to THEN sent[s] + 1 ELSE sent[s]]
    /\ writes' = [s \in Sessions |-> IF s \in to THEN [writes[s] EXCEPT !["frame"] = "first"]
                                                ELSE writes[s]]
    /\ UNCHANGED <<phase, peer, wire>>

\* send(), called for each session of a set: the frame is queued, and written
\* at once if none was queued before.
Send(to) ==
    /\ write_queue' = [s \in Sessions |->
                         IF s \in to THEN Append(write_queue[s], sent[s] + 1)
                                     ELSE write_queue[s]]
    /\ sent' = [s \in Sessions |-> IF s \in to THEN sent[s] + 1 ELSE sent[s]]
    /\ writes' = [s \in Sessions |->
                    IF s \in to /\ write_queue[s] = << >>
                    THEN [writes[s] EXCEPT !["frame"] = "first"]
                    ELSE writes[s]]
    /\ UNCHANGED <<phase, peer, wire>>

\* The socket takes a piece of what an operation writes, as it may for a while
\* after the peer has gone.
Transmit(s, op) ==
    /\ writes[s][op] \in DOMAIN NextOf
    /\ wire' = [wire EXCEPT ![s] = Append(@,
                  [op |-> op,
                   n |-> IF op = "frame" THEN Head(write_queue[s]) ELSE 0,
                   part |-> writes[s][op]])]
    /\ writes' = [writes EXCEPT ![s][op] = NextOf[@]]
    /\ UNCHANGED <<phase, write_queue, peer, sent>>

\* Defects considered: the next one is left to the next call of send(); the
\* queue is not looked at; the newest frame is taken out.
FrameWrittenRests(s) ==
    /\ writes[s]["frame"] = "done"
    /\ write_queue' = [write_queue EXCEPT ![s] = Tail(@)]
    /\ writes' = [writes EXCEPT ![s]["frame"] = "idle"]
    /\ UNCHANGED <<phase, peer, sent, wire>>

FrameWrittenUnchecked(s) ==
    /\ writes[s]["frame"] = "done"
    /\ write_queue' = [write_queue EXCEPT ![s] = Tail(@)]
    /\ writes' = [writes EXCEPT ![s]["frame"] = "first"]
    /\ UNCHANGED <<phase, peer, sent, wire>>
FrameWrittenPopsBack(s) ==
    /\ writes[s]["frame"] = "done"
    /\ write_queue' = [write_queue EXCEPT ![s] = Front(@)]
    /\ writes' = [writes EXCEPT ![s]["frame"] =
                    IF write_queue'[s] = << >> THEN "idle" ELSE "first"]
    /\ UNCHANGED <<phase, peer, sent, wire>>

\* The handler of do_write after a frame: the frame leaves the queue, and the
\* next one, if there is one, begins to be written.
FrameWritten(s) ==
    /\ writes[s]["frame"] = "done"
    /\ write_queue' = [write_queue EXCEPT ![s] = Tail(@)]
    /\ writes' = [writes EXCEPT ![s]["frame"] =
                    IF write_queue'[s] = << >> THEN "idle" ELSE "first"]
    /\ UNCHANGED <<phase, peer, sent, wire>>

\* An operation ends with an error.  An answer that could not be written ends
\* the session; a frame that could not be written stays at the front of the
\* queue, and no operation is left to take it out.
WriteError(s, op) ==
    /\ peer[s] = "gone"
    /\ writes[s][op] \in DOMAIN NextOf
    /\ writes' = [writes EXCEPT ![s][op] = "idle"]
    /\ phase' = [phase EXCEPT ![s] = IF op = "response" THEN "over" ELSE @]
    /\ UNCHANGED <<write_queue, peer, sent, wire>>

\* The read that is outstanding in an open session ends with an error.
ReadError(s) ==
    /\ peer[s] = "gone"
    /\ phase[s] = "open"
    /\ phase' = [phase EXCEPT ![s] = "over"]
    /\ UNCHANGED <<write_queue, writes, peer, sent, wire>>

PeerCloses(s) ==
    /\ phase[s] # "none"
    /\ peer[s] = "up"
    /\ peer' = [peer EXCEPT ![s] = "gone"]
    /\ UNCHANGED <<phase, write_queue, writes, sent, wire>>

-----------------------------------------------------------------------------
Handshake(s) == AnswerRequest(s) \/ RefuseRequest(s) \/ ResponseWritten(s)

\* What goes on below the server's own calls of Start and Send.
Io(s) ==
    \/ Handshake(s)
    \/ \E op \in Ops : Transmit(s, op) \/ WriteError(s, op)
    \/ FrameWritten(s)
    \/ ReadError(s)
    \/ PeerCloses(s)

\* Any server: it may send to any set of sessions that exist, as broadcast does.
Next ==
    \/ \E s \in Sessions : Start(s) \/ Io(s)
    \/ \E to \in SUBSET {s \in Sessions : phase[s] # "none" /\ sent[s] < MaxSends} :
          to # {} /\ Send(to)

\* A peer that stays takes what it is sent, and the io_context runs the handlers
\* that are queued.
IoFairness ==
    \A s \in Sessions :
        /\ WF_vars(peer[s] = "up" /\ \E op \in Ops : Transmit(s, op))
        /\ WF_vars(FrameWritten(s))

Spec == Init /\ [][Next]_vars /\ IoFairness

-----------------------------------------------------------------------------
\* Every variable keeps its type, and a frame is being written only while it is
\* at the front of the queue: the operation has no copy of its bytes.
TypeOK ==
    /\ phase \in [Sessions -> Phases]
    /\ write_queue \in [Sessions -> Seq(1..MaxSends)]
    /\ writes \in [Sessions -> [Ops -> Progress]]
    /\ peer \in [Sessions -> {"up", "gone"}]
    /\ sent \in [Sessions -> 0..MaxSends]
    /\ wire \in [Sessions -> Seq(Piece)]
    /\ \A s \in Sessions : writes[s]["frame"] # "idle" => write_queue[s] # << >>

\* The place of a piece among the pieces of all frames.
Rank(piece) == 2 * piece.n - (IF piece.part = "first" THEN 1 ELSE 0)

FramePieces(s) == {i \in 1..Len(wire[s]) : wire[s][i].op = "frame"}

\* The frames the socket was given are, piece by piece, those that were sent:
\* first to last, each one once and whole before the next one begins.
FramesInOrder ==
    \A s \in Sessions : \A i \in FramePieces(s) :
        /\ \A j \in FramePieces(s) : i < j => Rank(wire[s][i]) < Rank(wire[s][j])
        /\ \A k \in 1..(Rank(wire[s][i]) - 1) :
              \E j \in FramePieces(s) : j < i /\ Rank(wire[s][j]) = k

\* While the peer is there, a frame that waits has an operation that will write
\* it: send() starts one only for an empty queue, so nobody else would.
WriterAwake ==
    \A s \in Sessions :
        peer[s] = "up" /\ write_queue[s] # << >> => writes[s]["frame"] # "idle"

\* The queue holds what was sent and has not been written, the frame whose
\* handler is still to run included: no frame is lost between the two.
NothingForgotten ==
    \A s \in Sessions :
        write_queue[s] =
            [i \in 1..Len(write_queue[s]) |-> sent[s] - Len(write_queue[s]) + i]

Reached(s, n) == \E i \in 1..Len(wire[s]) :
                    wire[s][i] = [op |-> "frame", n |-> n, part |-> "second"]

=============================================================================
