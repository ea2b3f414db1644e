------------------------------ MODULE EchoPool ------------------------------
(***************************************************************************)
(* The echo server (websocket/basic_text/main.cpp) as it is run: its pool  *)
(* has a thread for each processor (AsioThreadPool.h), and nothing keeps   *)
(* the handler of a session's read and that of its write from running at   *)
(* once, though both use its write_queue_ (WebSocketSession.h).            *)
(*                                                                         *)
(* That is a data race, and the behaviour of the program undefined.  This  *)
(* module is the mildest of its outcomes: each call of a member of the     *)
(* deque is one step, and all threads see the steps in one order.  What    *)
(* goes wrong here goes wrong in any build.  Only pop_front of an empty    *)
(* deque is left undefined: nothing is said of what comes after it.        *)
(*                                                                         *)
(* Sessions share nothing, so there is one.  It is open, its peer stays,   *)
(* and each read returns one frame.                                        *)
(***************************************************************************)
EXTENDS Naturals, Sequences, SequencesExt

CONSTANTS
    Threads,       \* threads of the pool
    MaxMessages    \* bound: messages the peer sends

VARIABLES
    asked,              \* messages the peer has sent
    read,               \* messages that have been read
    reader,             \* where the handler of the read is
    write_in_progress,  \* what it has found out about the queue
    write_queue,        \* write_queue_: the messages in it
    ops,                \* write operations under way: what each was given
    checking,           \* handlers of writes that have taken out a frame
    echoed,             \* what the peer has got back, in order
    undefined           \* has pop_front been called on an empty deque?

vars == <<asked, read, reader, write_in_progress, write_queue, ops, checking,
          echoed, undefined>>

Init ==
    /\ asked = 0 /\ read = 0
    /\ reader = "waiting" /\ write_in_progress = FALSE
    /\ write_queue = << >> /\ ops = << >> /\ checking = 0
    /\ echoed = << >> /\ undefined = FALSE

\* A thread is free to run one more handler.
ThreadFree == checking + (IF reader = "waiting" THEN 0 ELSE 1) < Threads

-----------------------------------------------------------------------------
PeerAsks ==
    /\ asked < MaxMessages
    /\ asked' = asked + 1
    /\ UNCHANGED <<read, reader, write_in_progress, write_queue, ops, checking,
                   echoed, undefined>>

\* The handler of the read calls send(), which looks at the queue,
LookAtQueue ==
    /\ reader = "waiting" /\ read < asked
    /\ ThreadFree
    /\ read' = read + 1
    /\ write_in_progress' = (write_queue # << >>)
    /\ reader' = "looked"
    /\ UNCHANGED <<asked, write_queue, ops, checking, echoed, undefined>>

\* puts the frame in it, and is done if it saw one there before,
PushBack ==
    /\ reader = "looked"
    /\ write_queue' = Append(write_queue, read)
    /\ reader' = IF write_in_progress THEN "waiting" ELSE "pushed"
    /\ UNCHANGED <<asked, read, write_in_progress, ops, checking, echoed, undefined>>

\* or calls do_write.  Then the next read begins.
do_write == ops' = IF write_queue = << >> THEN ops ELSE Append(ops, Head(write_queue))

BeginWrite ==
    /\ reader = "pushed"
    /\ do_write
    /\ reader' = "waiting"
    /\ UNCHANGED <<asked, read, write_in_progress, write_queue, checking, echoed, undefined>>

-----------------------------------------------------------------------------
\* An operation has ended, and its handler takes a frame out of the queue,
PopFront ==
    /\ ops # << >>
    /\ ThreadFree
    /\ echoed' = Append(echoed, Head(ops))
    /\ ops' = Tail(ops)
    /\ IF write_queue = << >>
       THEN undefined' = TRUE /\ UNCHANGED <<write_queue, checking>>
       ELSE /\ write_queue' = Tail(write_queue)
            /\ checking' = checking + 1
            /\ UNCHANGED undefined
    /\ UNCHANGED <<asked, read, reader, write_in_progress>>

\* and begins to write the next one if it sees one there.
BeginNext ==
    /\ checking > 0
    /\ checking' = checking - 1
    /\ do_write
    /\ UNCHANGED <<asked, read, reader, write_in_progress, write_queue, echoed, undefined>>

-----------------------------------------------------------------------------
Handlers == LookAtQueue \/ PushBack \/ BeginWrite \/ PopFront \/ BeginNext

Next == ~undefined /\ (PeerAsks \/ Handlers)

\* Every thread goes on, and the pool runs the handlers that are queued.
Fairness ==
    /\ WF_vars(~undefined /\ LookAtQueue)
    /\ WF_vars(~undefined /\ (PushBack \/ BeginWrite))
    /\ WF_vars(~undefined /\ PopFront)
    /\ WF_vars(~undefined /\ BeginNext)

Spec == Init /\ [][Next]_vars /\ Fairness

-----------------------------------------------------------------------------
\* "Echo the message back to the client" (basic_text/main.cpp:12): whatever the
\* peer sends it gets back in the end.
EveryMessageIsEchoed ==
    \A n \in 1..MaxMessages : (asked >= n) ~> (undefined \/ n \in ToSet(echoed))

=============================================================================
