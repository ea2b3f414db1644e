---------------------------- MODULE VoiceServer ----------------------------
(***************************************************************************)
(* voice_server (server/main_server.cpp): one room, whose members are      *)
(* WebSocket sessions, which join when their connection is accepted, and   *)
(* UDP senders, which join with their first datagram.                      *)
(*                                                                         *)
(* The io_context runs on one thread, so that every handler is one step:   *)
(* the acceptor's, the session's, the UDP socket's and the mixing timer's. *)
(* The room and the sessions are those of RoomManager and of               *)
(* WebSocketSession; this module adds the UDP socket and says which        *)
(* handler calls what.                                                     *)
(***************************************************************************)
EXTENDS Naturals, Sequences, FiniteSets, SequencesExt

CONSTANTS
    Sessions,         \* WebSocket connections, each with a UUID of its own
    UdpPeers,         \* keys "address:port" of UDP senders
    MaxBufferSize, ActivityTimeout,           \* see RoomManager
    MaxPackets, MaxReady,                     \* bounds, see RoomManager
    Freed             \* what lies in the memory of a packet that is gone

ASSUME KeysAssumption == Sessions \cap UdpPeers = {}
ASSUME FiniteAssumption == IsFiniteSet(Sessions) /\ IsFiniteSet(UdpPeers)
ASSUME SizesAssumption ==
    /\ MaxBufferSize \in Nat \ {0}
    /\ ActivityTimeout \in Nat
    /\ MaxPackets \in Nat /\ MaxReady \in Nat \ {0}

VARIABLES
    clients, audioBuffers, lastActivity, timer, ready,
    received, sentTo, sinceMix,               \* see RoomManager
    phase, write_queue, writes, peer, wire,   \* see WebSocketSession
    deferred,   \* mixes whose send the UDP socket has put off, per peer
    datagrams   \* history: what has come of the sends to each peer, in order

roomVars    == <<clients, audioBuffers, lastActivity, timer, ready,
                 received, sentTo, sinceMix>>
sessionVars == <<phase, write_queue, writes, peer, wire>>
udpVars     == <<deferred, datagrams>>
vars        == <<roomVars, sessionVars, udpVars>>

Room == INSTANCE RoomManager WITH Ids <- Sessions \cup UdpPeers

\* send() of a session is called with each mix of its member, and nothing else.
Session == INSTANCE WebSocketSession WITH
               sent     <- [s \in Sessions |-> Len(sentTo[s])],
               MaxSends <- MaxPackets * Cardinality(Sessions \cup UdpPeers)

-----------------------------------------------------------------------------
Init ==
    /\ Room!Init
    /\ Session!Init
    /\ deferred = [u \in UdpPeers |-> << >>]
    /\ datagrams = [u \in UdpPeers |-> << >>]

\* Defect considered: the session is never started.
AcceptWithoutStart(s) ==
    /\ phase[s] = "none"
    /\ s \notin clients
    /\ Room!AddClient(s)
    /\ UNCHANGED <<sessionVars, udpVars>>

\* do_accept: the session joins the room, then begins its handshake.
Accept(s) ==
    /\ Room!AddClient(s)
    /\ Session!Start(s)
    /\ UNCHANGED udpVars

\* Defect considered: every datagram's sender joins.
HandleReceiveAlwaysJoins(u) ==
    /\ Room!Join(u)
    /\ Room!Store(u)
    /\ UNCHANGED <<ready, sentTo, sinceMix, sessionVars, udpVars>>

\* Defect considered: nobody joins.
HandleReceiveNeverJoins(u) ==
    /\ Room!Store(u)
    /\ UNCHANGED <<clients, timer, ready, sentTo, sinceMix, sessionVars, udpVars>>

\* handle_receive: a sender nobody knows joins first.
HandleReceive(u) ==
    /\ IF u \in clients THEN UNCHANGED <<clients, timer>> ELSE Room!Join(u)
    /\ Room!Store(u)
    /\ UNCHANGED <<ready, sentTo, sinceMix, sessionVars, udpVars>>

\* A session has read a binary frame; what else it may read leaves the room
\* alone.
HandleReceiveWebsocket(s) ==
    /\ phase[s] = "open"
    /\ Room!ProcessAudio(s)
    /\ UNCHANGED <<sessionVars, udpVars>>

-----------------------------------------------------------------------------
Receivers == {id \in clients : Room!MixFor(id) # {}}

\* What has gone out after a send that failed.  A mix is never empty.
NotSent == {}

\* Defect considered: what is sent at once overtakes what was put off.
SendDatagramsUnordered(atOnce, failing) ==
    /\ datagrams' = [u \in UdpPeers |->
                        IF u \in atOnce
                        THEN Append(datagrams[u], IF u \in failing THEN NotSent ELSE Room!MixFor(u))
                        ELSE datagrams[u]]
    /\ deferred' = [u \in UdpPeers |-> IF u \in Receivers \ atOnce
                                       THEN Append(deferred[u], Room!MixFor(u))
                                       ELSE deferred[u]]

\* async_send_to: a socket that is ready, and has put nothing off, sends at once;
\* otherwise the operation is queued, and keeps a pointer to the packet, which
\* is a local variable of mixAndSendAudio.  A send may fail, as one of more than
\* a datagram holds always does: the error is logged and the mix is lost.
SendDatagrams(atOnce, failing) ==
    /\ deferred # [u \in UdpPeers |-> << >>] => atOnce = {}
    /\ datagrams' = [u \in UdpPeers |->
                        IF u \in atOnce
                        THEN Append(datagrams[u], IF u \in failing THEN NotSent ELSE Room!MixFor(u))
                        ELSE datagrams[u]]
    /\ deferred' = [u \in UdpPeers |-> IF u \in Receivers \ atOnce
                                       THEN Append(deferred[u], Room!MixFor(u))
                                       ELSE deferred[u]]

MixingTimer ==
    /\ Room!MixingTimer
    /\ Session!Send(Receivers \cap Sessions)
    /\ \E atOnce \in SUBSET (Receivers \cap UdpPeers) :
          \E failing \in SUBSET atOnce : SendDatagrams(atOnce, failing)

\* The reactor sends what was put off, or fails to.  The memory may hold anything
\* by now.
SendDeferred(u) ==
    /\ deferred[u] # << >>
    /\ \E content \in {Head(deferred[u]), {Freed}, NotSent} :
          datagrams' = [datagrams EXCEPT ![u] = Append(@, content)]
    /\ deferred' = [deferred EXCEPT ![u] = Tail(@)]
    /\ UNCHANGED <<roomVars, sessionVars>>

-----------------------------------------------------------------------------
\* A wait ends, or time passes.
Clock == UNCHANGED <<sessionVars, udpVars>> /\ (Room!TimerExpires \/ Room!ClockTick)

SessionIo(s) == UNCHANGED <<roomVars, udpVars>> /\ Session!Io(s)

Next ==
    \/ \E s \in Sessions : Accept(s) \/ HandleReceiveWebsocket(s) \/ SessionIo(s)
    \/ \E u \in UdpPeers : HandleReceive(u) \/ SendDeferred(u)
    \/ MixingTimer
    \/ Clock

\* A wait ends after its time, the clock moves on, the one thread runs every
\* handler that is queued, and the sockets take what they are given as long as
\* the peer is there.
Fairness ==
    /\ WF_vars(UNCHANGED <<sessionVars, udpVars>> /\ Room!TimerExpires)
    /\ WF_vars(UNCHANGED <<sessionVars, udpVars>> /\ Room!ClockTick)
    /\ WF_vars(MixingTimer)
    /\ \A s \in Sessions :
          /\ WF_vars(/\ UNCHANGED <<roomVars, udpVars>>
                     /\ peer[s] = "up"
                     /\ \E op \in Session!Ops : Session!Transmit(s, op))
          /\ WF_vars(UNCHANGED <<roomVars, udpVars>> /\ Session!FrameWritten(s))
    /\ \A u \in UdpPeers : WF_vars(SendDeferred(u))

Spec == Init /\ [][Next]_vars /\ Fairness

-----------------------------------------------------------------------------
\* Every variable of the room, of the sessions and of the socket keeps its type.
TypeOK ==
    /\ Room!TypeOK
    /\ Session!TypeOK
    /\ DOMAIN deferred = UdpPeers
    /\ DOMAIN datagrams = UdpPeers

\* There is one mixing loop: either its wait is outstanding or its handler is
\* queued.  A second addClient that finds the room with one member would start
\* another one, so this rests on each member being added once.
OneMixingLoop == (IF timer = "waiting" THEN 1 ELSE 0) + ready <= 1

\* Only members have audio in the room: whoever is heard also hears the others,
\* whichever way the audio came.
OnlyMembersSpeak == DOMAIN audioBuffers \subseteq clients

\* The places on the wire where the socket has been given a frame whole.
FramesOf(s) == {i \in 1..Len(wire[s]) : wire[s][i].op = "frame" /\ wire[s][i].part = "second"}

\* The frames a session's socket was given, with those that wait, are the mixes
\* of its member, each one once and in the order of the mixes.
StreamsAreMixes ==
    /\ Session!FramesInOrder
    /\ Session!NothingForgotten
    /\ \A s \in Sessions :
          Cardinality(FramesOf(s)) + Len(write_queue[s])
              = Len(sentTo[s]) + (IF writes[s]["frame"] = "done" THEN 1 ELSE 0)

\* The sends to a UDP peer end in the order in which its member was given mixes,
\* none of them twice and none left out: with the mix, with what has become of its
\* memory, or with an error, after which it is not tried again.  Those that have
\* not ended are of the last mixes, and still point at them.
DatagramsInOrder ==
    \A u \in UdpPeers :
        /\ Len(datagrams[u]) + Len(deferred[u]) = Len(sentTo[u])
        /\ \A i \in 1..Len(datagrams[u]) :
              datagrams[u][i] \in {sentTo[u][i], {Freed}, NotSent}
        /\ \A i \in 1..Len(deferred[u]) :
              deferred[u][i] = sentTo[u][Len(datagrams[u]) + i]

\* The calls the handlers make keep to what RoomManager says of this server and
\* WebSocketSession of any, and the room, the sessions and their peers are served
\* as fairly: what is checked and proved of these parts under their assumptions
\* holds of the parts of this server.
PartsServed == Room!ServedSpec /\ Session!Spec

\* The calls of the room by themselves, whatever the fairness.
RoomSafe == Room!Spec

\* A packet that a member hands in is on the wire of every WebSocket member in
\* the end, unless it is pushed out of its queue, the mixing is late while it
\* waits, or the peer goes.
OnWire(s, p) == \E i \in FramesOf(s) : p \in sentTo[s][wire[s][i].n]

AudioReachesPeers ==
    \A p \in Room!Packet : \A s \in Sessions \ {p.from} :
        (p \in Room!Waiting /\ s \in clients) ~>
            \/ OnWire(s, p)
            \/ received[p.from] >= p.n + MaxBufferSize
            \/ sinceMix > ActivityTimeout /\ p \in Room!Waiting
            \/ peer[s] = "gone"

\* asio::async_write (external/asio-1-28-0/asio/include/asio/write.hpp:736-739):
\* "The program must ensure that the stream performs no other write operations
\* [...] until this operation completes."
OneWriteAtATime ==
    \A s \in Sessions : \E op \in Session!Ops : writes[s][op] = "idle"

\* async_send_to (external/asio-1-28-0/asio/include/asio/basic_datagram_socket.hpp:660-662):
\* the caller "must guarantee that they remain valid until the completion
\* handler is called": what is sent, if anything is, is what was mixed.
DatagramsAreMixes ==
    \A u \in UdpPeers : \A i \in 1..Len(datagrams[u]) :
        datagrams[u][i] \in {sentTo[u][i], NotSent}

=============================================================================
