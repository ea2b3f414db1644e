-------------------------- MODULE WebSocketServer --------------------------
(***************************************************************************)
(* A server of common/WebSocketServer.h on one thread, with the message    *)
(* handler of the echo server (websocket/basic_text/main.cpp): what its    *)
(* sessions read (do_read, handle_frame), each message sent back, and      *)
(* broadcasts, which anybody may ask for at any time.                      *)
(*                                                                         *)
(* TCP keeps no borders between the peer's frames, but a session takes     *)
(* what one read returns for one frame from its start.  A frame is three   *)
(* stretches of bytes here: its head; its body, after which no more bytes  *)
(* are missing than a mask has, so that WebSocketFrame's test lets the     *)
(* frame pass; and the rest.  A peer whose frames never meet in a read     *)
(* nor are divided by one is told from one that has no such luck.          *)
(***************************************************************************)
EXTENDS WebSocketSession

CONSTANTS
    MaxMessages,   \* bound: messages of one peer
    MaxNews,       \* bound: broadcasts that a session is sent
    Damaged,       \* a message made of other bytes than the peer's message
    News           \* a message that is broadcast

ASSUME MessagesAssumption ==
    /\ MaxMessages \in Nat
    /\ Damaged \notin 1..MaxMessages /\ News \notin 1..MaxMessages
    /\ Damaged # News

VARIABLES
    lucky,     \* do the reads return one frame each?
    asked,     \* messages the peer has sent
    inbound,   \* what the peer has sent and no read has returned yet
    content    \* history: for each message given to send(), the one of the
               \* peer's that it echoes, or Damaged or News

readVars == <<lucky, asked, inbound, content>>

ServerInit ==
    /\ Init
    /\ lucky \in BOOLEAN
    /\ asked = [s \in Sessions |-> 0]
    /\ inbound = [s \in Sessions |-> << >>]
    /\ content = [s \in Sessions |-> << >>]

-----------------------------------------------------------------------------
Answered(s) == \E i \in 1..Len(wire[s]) :
                  wire[s][i].op = "response" /\ wire[s][i].part = "second"

\* A peer that has been answered sends a message.
PeerAsks(s) ==
    /\ peer[s] = "up" /\ Answered(s)
    /\ asked[s] < MaxMessages
    /\ asked' = [asked EXCEPT ![s] = @ + 1]
    /\ inbound' = [inbound EXCEPT ![s] = @ \o
                     [i \in 1..3 |-> [n |-> asked'[s], part |-> <<"head", "body", "rest">>[i]]]]
    /\ UNCHANGED <<vars, lucky, content>>

\* What handle_frame may make of the bytes of a read: a set of at most one
\* message.  What lies behind the first frame is dropped; a read that begins
\* amid a frame takes its bytes for a header, with whatever result.
handle_frame(bytes) ==
    IF bytes[1].part = "head"
    THEN IF Len(bytes) = 1 THEN {{}}
         ELSE IF Len(bytes) = 2 THEN {{Damaged}} ELSE {{bytes[1].n}}
    ELSE {{}, {Damaged}}

\* The message handler: the message goes back to where it came from.
Echo(s, m) ==
    /\ sent[s] < MaxSends
    /\ Send({s})
    /\ content' = [content EXCEPT ![s] = Append(@, m)]

\* Defect considered: a queue that is not empty drops the message.
ReadDropping(s) ==
    /\ phase[s] = "open"
    /\ \E k \in 1..Len(inbound[s]) :
          /\ lucky => k = 3
          /\ inbound' = [inbound EXCEPT ![s] = SubSeq(@, k + 1, Len(@))]
          /\ \E message \in handle_frame(SubSeq(inbound[s], 1, k)) :
                IF message = {} \/ write_queue[s] # << >> THEN UNCHANGED <<vars, content>>
                ELSE \E m \in message : Echo(s, m)
    /\ UNCHANGED <<lucky, asked>>

\* The handler of do_read: a message is sent back, and the next read begins.
Read(s) ==
    /\ phase[s] = "open"
    /\ \E k \in 1..Len(inbound[s]) :
          /\ lucky => k = 3
          /\ inbound' = [inbound EXCEPT ![s] = SubSeq(@, k + 1, Len(@))]
          /\ \E message \in handle_frame(SubSeq(inbound[s], 1, k)) :
                IF message = {} THEN UNCHANGED <<vars, content>>
                ELSE \E m \in message : Echo(s, m)
    /\ UNCHANGED <<lucky, asked>>

\* broadcast: sessions_ has every session that was ever accepted.
broadcast ==
    LET sessions_ == {s \in Sessions : phase[s] # "none"}
    IN  /\ \A s \in sessions_ :
              Len(SelectSeq(content[s], LAMBDA m : m = News)) < MaxNews
        /\ \A s \in sessions_ : sent[s] < MaxSends
        /\ sessions_ # {} /\ Send(sessions_)
        /\ content' = [s \in Sessions |-> IF s \in sessions_ THEN Append(content[s], News)
                                                            ELSE content[s]]
        /\ UNCHANGED <<lucky, asked, inbound>>

-----------------------------------------------------------------------------
ServerNext ==
    \/ \E s \in Sessions :
          \/ (Start(s) \/ Io(s)) /\ UNCHANGED readVars
          \/ PeerAsks(s)
          \/ Read(s)
    \/ broadcast

allVars == <<vars, readVars>>

\* The io_context runs the handlers that are queued, and a peer that stays takes
\* what it is sent.
ServerFairness ==
    \A s \in Sessions :
        /\ WF_allVars(peer[s] = "up" /\ (\E op \in Ops : Transmit(s, op)) /\ UNCHANGED readVars)
        /\ WF_allVars((FrameWritten(s) \/ ResponseWritten(s)) /\ UNCHANGED readVars)
        /\ WF_allVars(Read(s))

ServerSpec == ServerInit /\ [][ServerNext]_allVars /\ ServerFairness

-----------------------------------------------------------------------------
\* Where the peer's own messages stand among those it is sent.
Echoes(s) == {i \in 1..Len(content[s]) : content[s][i] \notin {Damaged, News}}

\* However the bytes are divided among the reads, the peer gets each message back
\* at most once and none before one it sent earlier, whatever comes in between.
\* If no read divides or joins frames, it gets them all, and all as they were.
EchoesKeepOrder ==
    \A s \in Sessions :
        /\ \A j \in Echoes(s) :
              /\ content[s][j] \in 1..asked[s]
              /\ \A i \in Echoes(s) : i < j => content[s][i] < content[s][j]
              /\ lucky => \A n \in 1..(content[s][j] - 1) :
                            \E i \in Echoes(s) : i < j /\ content[s][i] = n
        /\ lucky => Damaged \notin ToSet(content[s])

\* "Echo the message back to the client" (basic_text/main.cpp:12): the peer gets
\* back whatever it sends, if it stays and no read divides or joins frames.
EveryMessageIsEchoed ==
    \A s \in Sessions : \A n \in 1..MaxMessages :
        (lucky /\ asked[s] >= n) ~>
            \/ peer[s] = "gone"
            \/ \E i \in 1..Len(content[s]) : content[s][i] = n /\ Reached(s, i)

=============================================================================
