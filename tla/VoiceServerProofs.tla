------------------------- MODULE VoiceServerProofs -------------------------
(***************************************************************************)
(* Proofs about voice_server, for any numbers of sessions and UDP senders: *)
(* that its room is RoomManager's and its sessions are WebSocketSession's, *)
(* so that what is proved there holds here; that it has one mixing loop;   *)
(* that only members speak in it; and that frames and datagrams carry the  *)
(* mixes in order.                                                         *)
(***************************************************************************)
EXTENDS VoiceServer, SequenceTheorems, FiniteSetTheorems, TLAPS

RoomFacts == INSTANCE RoomManagerProofs WITH Ids <- Sessions \cup UdpPeers

SessionFacts == INSTANCE WebSocketSessionProofs WITH
                    sent     <- [s \in Sessions |-> Len(sentTo[s])],
                    MaxSends <- MaxPackets * Cardinality(Sessions \cup UdpPeers)

-----------------------------------------------------------------------------
(* The room of the server is a room. *)

\* What a step of the server is for its room.
RoomStep ==
    \/ \E s \in Sessions : Room!AddClient(s) /\ phase[s] = "none" /\ phase'[s] # "none"
    \/ \E u \in UdpPeers : Room!AddAndProcess(u) /\ u \notin clients
    \/ \E id \in Sessions \cup UdpPeers : Room!ProcessAudio(id)
    \/ Room!MixingTimer
    \/ Room!TimerExpires
    \/ Room!ClockTick
    \/ UNCHANGED roomVars

\* Every handler of the server is one operation of the room, or none.
LEMMA StepOfRoom ==
    ASSUME phase \in [Sessions -> Session!Phases], Next
    PROVE  RoomStep
  <1>1. ASSUME NEW s \in Sessions, Accept(s) PROVE RoomStep
    <2>1. phase[s] = "none" /\ phase'[s] = "request"
      BY <1>1 DEF Accept, Session!Start
    <2> QED
      BY <1>1, <2>1 DEF Accept, RoomStep
  <1>2. ASSUME NEW s \in Sessions, HandleReceiveWebsocket(s) PROVE RoomStep
    BY <1>2 DEF HandleReceiveWebsocket, RoomStep
  <1>3. ASSUME NEW s \in Sessions, SessionIo(s) PROVE RoomStep
    BY <1>3 DEF SessionIo, RoomStep
  <1>4. ASSUME NEW u \in UdpPeers, HandleReceive(u) PROVE RoomStep
    <2>1. CASE u \in clients
      <3>1. Room!ProcessAudio(u)
        BY <1>4, <2>1 DEF HandleReceive, Room!ProcessAudio
      <3> QED
        BY <3>1 DEF RoomStep
    <2>2. CASE u \notin clients
      <3>1. Room!AddAndProcess(u)
        BY <1>4, <2>2 DEF HandleReceive, Room!AddAndProcess
      <3> QED
        BY <2>2, <3>1 DEF RoomStep
    <2> QED
      BY <2>1, <2>2
  <1>5. ASSUME NEW u \in UdpPeers, SendDeferred(u) PROVE RoomStep
    BY <1>5 DEF SendDeferred, RoomStep
  <1>6. ASSUME MixingTimer PROVE RoomStep
    BY <1>6 DEF MixingTimer, RoomStep
  <1>7. ASSUME Clock PROVE RoomStep
    BY <1>7 DEF Clock, RoomStep
  <1> QED
    BY <1>1, <1>2, <1>3, <1>4, <1>5, <1>6, <1>7 DEF Next

-----------------------------------------------------------------------------
(* A session that has joined has begun. *)

\* An accepted session never goes back to not being accepted.
PhaseInv ==
    /\ phase \in [Sessions -> Session!Phases]
    /\ \A s \in Sessions : s \in clients => phase[s] # "none"

\* No handler takes a session back to before it was accepted.
LEMMA PhaseMoves ==
    ASSUME phase \in [Sessions -> Session!Phases], [Next]_vars
    PROVE  /\ phase' \in [Sessions -> Session!Phases]
           /\ \A s \in Sessions : phase[s] # "none" => phase'[s] # "none"
  <1> DEFINE Goal == /\ phase' \in [Sessions -> Session!Phases]
                     /\ \A s \in Sessions : phase[s] # "none" => phase'[s] # "none"
  <1>1. UNCHANGED phase => Goal
    OBVIOUS
  <1>2. ASSUME NEW s \in Sessions, Accept(s) PROVE Goal
    BY <1>2 DEF Accept, Session!Start, Session!Phases
  <1>3. ASSUME NEW s \in Sessions, SessionIo(s) PROVE Goal
    <2>1. ASSUME Session!Handshake(s) PROVE Goal
      BY <2>1 DEF Session!Handshake, Session!AnswerRequest, Session!RefuseRequest,
                  Session!ResponseWritten, Session!Phases
    <2>2. ASSUME NEW op \in Session!Ops, Session!Transmit(s, op) PROVE Goal
      BY <2>2, <1>1 DEF Session!Transmit
    <2>3. ASSUME NEW op \in Session!Ops, Session!WriteError(s, op) PROVE Goal
      BY <2>3 DEF Session!WriteError, Session!Phases
    <2>4. ASSUME Session!ReadError(s) PROVE Goal
      BY <2>4 DEF Session!ReadError, Session!Phases
    <2>5. ASSUME Session!FrameWritten(s) \/ Session!PeerCloses(s) PROVE Goal
      BY <2>5, <1>1 DEF Session!FrameWritten, Session!PeerCloses
    <2> QED
      BY <1>3, <2>1, <2>2, <2>3, <2>4, <2>5 DEF SessionIo, Session!Io
  <1>4. ASSUME \/ \E s \in Sessions : HandleReceiveWebsocket(s)
               \/ \E u \in UdpPeers : HandleReceive(u) \/ SendDeferred(u)
               \/ Clock \/ MixingTimer \/ UNCHANGED vars
        PROVE  Goal
    BY <1>1, <1>4 DEF HandleReceiveWebsocket, HandleReceive, SendDeferred, Clock, MixingTimer,
                      Session!Send, sessionVars, vars
  <1> QED
    BY <1>2, <1>3, <1>4 DEF Next

-----------------------------------------------------------------------------
(* One mixing loop. *)

\* What makes OneMixingLoop inductive: an empty room has no loop yet, and only
\* who is not a member is added.
LoopInv ==
    /\ PhaseInv
    /\ timer \in {"idle", "waiting"}
    /\ ready \in Nat
    /\ OneMixingLoop
    /\ clients = {} => timer = "idle" /\ ready = 0

\* At the start there is no mixing loop and nobody to mix for.
LEMMA LoopInit == Init => LoopInv
  BY DEF Init, Room!Init, Session!Init, LoopInv, PhaseInv, OneMixingLoop, Session!Phases

\* No handler starts a second mixing loop, or loses the one there is.
LEMMA LoopStep == LoopInv /\ [Next]_vars => LoopInv'
  <1> SUFFICES ASSUME LoopInv, [Next]_vars PROVE LoopInv'
    OBVIOUS
  <1>1. /\ phase' \in [Sessions -> Session!Phases]
        /\ \A s \in Sessions : phase[s] # "none" => phase'[s] # "none"
    BY PhaseMoves DEF LoopInv, PhaseInv
  <1> DEFINE Loop == /\ timer \in {"idle", "waiting"}
                     /\ ready \in Nat
                     /\ OneMixingLoop
                     /\ clients = {} => timer = "idle" /\ ready = 0
  <1>2. ASSUME NEW id, id \notin clients, Room!Join(id), ready' = ready PROVE Loop'
    <2>1. clients' # {} /\ (clients' = {id} <=> clients = {})
      BY <1>2 DEF Room!Join
    <2>2. CASE clients = {}
      BY <1>2, <2>1, <2>2 DEF LoopInv, OneMixingLoop, Room!Join, Room!startMixingTimer
    <2>3. CASE clients # {}
      BY <1>2, <2>1, <2>3 DEF LoopInv, OneMixingLoop, Room!Join
    <2> QED
      BY <2>2, <2>3
  <1>3. CASE \E s \in Sessions : Room!AddClient(s) /\ phase[s] = "none" /\ phase'[s] # "none"
    <2>1. PICK s \in Sessions : Room!AddClient(s) /\ phase[s] = "none" /\ phase'[s] # "none"
      BY <1>3
    <2>2. s \notin clients /\ Room!Join(s) /\ ready' = ready
      BY <2>1 DEF LoopInv, PhaseInv, Room!AddClient
    <2>3. \A t \in Sessions : t \in clients' => phase'[t] # "none"
      BY <1>1, <2>1, <2>2 DEF LoopInv, PhaseInv, Room!Join
    <2> QED
      BY <1>1, <1>2, <2>2, <2>3 DEF LoopInv, PhaseInv
  <1>4. CASE \E u \in UdpPeers : Room!AddAndProcess(u) /\ u \notin clients
    <2>1. PICK u \in UdpPeers : Room!AddAndProcess(u) /\ u \notin clients
      BY <1>4
    <2>2. Room!Join(u) /\ ready' = ready
      BY <2>1 DEF Room!AddAndProcess
    <2>3. \A t \in Sessions : t \in clients' => phase'[t] # "none"
      BY <1>1, <2>2, KeysAssumption DEF LoopInv, PhaseInv, Room!Join
    <2> QED
      BY <1>1, <1>2, <2>1, <2>2, <2>3 DEF LoopInv, PhaseInv
  <1>5. clients' = clients => PhaseInv'
    BY <1>1 DEF LoopInv, PhaseInv
  <1>6. CASE Room!MixingTimer
    <2>1. ready > 0 /\ ready' = ready - 1 /\ timer' = "waiting" /\ clients' = clients
      BY <1>6 DEF Room!MixingTimer, Room!startMixingTimer
    <2> QED
      BY <1>5, <2>1 DEF LoopInv, OneMixingLoop
  <1>7. CASE Room!TimerExpires
    <2>1. timer = "waiting" /\ timer' = "idle" /\ ready' = ready + 1 /\ clients' = clients
      BY <1>7 DEF Room!TimerExpires
    <2> QED
      BY <1>5, <2>1 DEF LoopInv, OneMixingLoop
  <1>8. CASE UNCHANGED <<clients, timer, ready>>
    BY <1>5, <1>8 DEF LoopInv, OneMixingLoop
  <1>9. (\E id \in Sessions \cup UdpPeers : Room!ProcessAudio(id)) \/ Room!ClockTick
            \/ UNCHANGED roomVars \/ UNCHANGED vars
          => UNCHANGED <<clients, timer, ready>>
    BY DEF Room!ProcessAudio, Room!ClockTick, roomVars, vars
  <1>10. RoomStep \/ UNCHANGED vars
    BY StepOfRoom DEF LoopInv, PhaseInv
  <1> QED
    BY <1>3, <1>4, <1>6, <1>7, <1>8, <1>9, <1>10 DEF RoomStep

\* However clients come and packets arrive, the server never runs two mixing
\* loops at a time: addClient starts one, and each member is added once.
THEOREM OneLoop == Spec => []OneMixingLoop
  <1>1. LoopInv => OneMixingLoop
    BY DEF LoopInv
  <1> QED
    BY LoopInit, LoopStep, <1>1, PTL DEF Spec

-----------------------------------------------------------------------------
(* Only members speak. *)

\* What makes OnlyMembersSpeak inductive: a session that was accepted is a member,
\* and one that was not has nothing to answer, so that no handler opens it.
SpeakersInv ==
    /\ phase \in [Sessions -> Session!Phases]
    /\ writes \in [Sessions -> [Session!Ops -> Session!Progress]]
    /\ \A s \in Sessions : phase[s] # "none" => s \in clients
    /\ \A s \in Sessions : phase[s] = "none" => writes[s]["response"] = "idle"
    /\ OnlyMembersSpeak

LEMMA SpeakersInit == Init => SpeakersInv
  BY DEF Init, Room!Init, Room!EmptyMap, Session!Init, SpeakersInv, OnlyMembersSpeak,
         Session!Phases, Session!Ops, Session!Progress

\* A handler of a session's own moves that session alone, and only an accepted one.
LEMMA SpeakersIo ==
    ASSUME SpeakersInv, NEW s \in Sessions, SessionIo(s)
    PROVE  SpeakersInv'
  <1>0. UNCHANGED <<clients, audioBuffers>>
    BY DEF SessionIo, roomVars
  <1> DEFINE Sound == /\ phase' \in [Sessions -> Session!Phases]
                      /\ writes' \in [Sessions -> [Session!Ops -> Session!Progress]]
                      /\ \A t \in Sessions : phase'[t] # "none" => phase[t] # "none"
                      /\ \A t \in Sessions :
                            phase'[t] = "none" => writes'[t]["response"] = "idle"
  <1>1. ASSUME Session!AnswerRequest(s) PROVE Sound
    BY <1>1 DEF Session!AnswerRequest, SpeakersInv, Session!Phases, Session!Ops, Session!Progress
  <1>2. ASSUME Session!RefuseRequest(s) PROVE Sound
    BY <1>2 DEF Session!RefuseRequest, SpeakersInv, Session!Phases
  <1>3. ASSUME Session!ResponseWritten(s) PROVE Sound
    BY <1>3 DEF Session!ResponseWritten, SpeakersInv, Session!Phases, Session!Ops, Session!Progress
  <1>4. ASSUME NEW op \in Session!Ops, Session!Transmit(s, op) PROVE Sound
    BY <1>4 DEF Session!Transmit, Session!NextOf, SpeakersInv, Session!Ops, Session!Progress
  <1>5. ASSUME NEW op \in Session!Ops, Session!WriteError(s, op) PROVE Sound
    BY <1>5 DEF Session!WriteError, Session!NextOf, SpeakersInv, Session!Phases, Session!Ops,
                Session!Progress
  <1>6. ASSUME Session!FrameWritten(s) PROVE Sound
    BY <1>6 DEF Session!FrameWritten, SpeakersInv, Session!Ops, Session!Progress
  <1>7. ASSUME Session!ReadError(s) \/ Session!PeerCloses(s) PROVE Sound
    BY <1>7 DEF Session!ReadError, Session!PeerCloses, SpeakersInv, Session!Phases
  <1>8. Sound
    BY <1>1, <1>2, <1>3, <1>4, <1>5, <1>6, <1>7
    DEF SessionIo, Session!Io, Session!Handshake
  <1> QED
    BY <1>0, <1>8 DEF SpeakersInv, OnlyMembersSpeak

\* Packets come from members, who stay.
LEMMA SpeakersStep == SpeakersInv /\ [Next]_vars => SpeakersInv'
  <1> SUFFICES ASSUME SpeakersInv, [Next]_vars PROVE SpeakersInv'
    OBVIOUS
  <1>1. ASSUME NEW s \in Sessions, Accept(s) PROVE SpeakersInv'
    BY <1>1 DEF Accept, Room!AddClient, Room!Join, Session!Start, SpeakersInv,
                OnlyMembersSpeak, Session!Phases
  <1>2. ASSUME NEW s \in Sessions, HandleReceiveWebsocket(s) PROVE SpeakersInv'
    <2>1. s \in clients /\ DOMAIN audioBuffers' = DOMAIN audioBuffers \cup {s}
      BY <1>2 DEF HandleReceiveWebsocket, Room!ProcessAudio, Room!Store, Room!Put, SpeakersInv
    <2> QED
      BY <1>2, <2>1 DEF HandleReceiveWebsocket, Room!ProcessAudio, SpeakersInv,
                        OnlyMembersSpeak, sessionVars
  <1>3. ASSUME NEW u \in UdpPeers, HandleReceive(u) PROVE SpeakersInv'
    <2>1. clients' = clients \cup {u} /\ DOMAIN audioBuffers' = DOMAIN audioBuffers \cup {u}
      BY <1>3 DEF HandleReceive, Room!Join, Room!Store, Room!Put
    <2> QED
      BY <1>3, <2>1 DEF HandleReceive, SpeakersInv, OnlyMembersSpeak, sessionVars
  <1>4. CASE MixingTimer
    <2>1. /\ UNCHANGED <<clients, phase>>
          /\ DOMAIN audioBuffers' \subseteq DOMAIN audioBuffers
      BY <1>4 DEF MixingTimer, Room!MixingTimer, Room!mixAndSendAudio, Session!Send
    <2>2. /\ writes' \in [Sessions -> [Session!Ops -> Session!Progress]]
          /\ \A s \in Sessions : writes'[s]["response"] = writes[s]["response"]
      BY <1>4 DEF MixingTimer, Session!Send, SpeakersInv, Session!Ops, Session!Progress
    <2> QED
      BY <2>1, <2>2 DEF SpeakersInv, OnlyMembersSpeak
  <1>5. CASE (\E u \in UdpPeers : SendDeferred(u)) \/ Clock \/ UNCHANGED vars
    BY <1>5 DEF SendDeferred, Clock, Room!TimerExpires, Room!ClockTick, vars, roomVars,
                sessionVars, SpeakersInv, OnlyMembersSpeak
  <1> QED
    BY <1>1, <1>2, <1>3, <1>4, <1>5, SpeakersIo DEF Next

\* Whichever socket a packet comes in by, its sender has joined before: the room,
\* which would take it from anybody, hears members only.
THEOREM MembersOnly == Spec => []OnlyMembersSpeak
  <1>1. SpeakersInv => OnlyMembersSpeak
    BY DEF SpeakersInv
  <1> QED
    BY SpeakersInit, SpeakersStep, <1>1, PTL DEF Spec

-----------------------------------------------------------------------------
(* What is proved of the room holds of the server's room. *)

\* Each step of the server is one call of its room, or none: the handlers use
\* RoomManager only as its specification allows.
THEOREM ServerImplementsRoom == Spec => RoomSafe
  <1>1. Init => Room!Init
    BY DEF Init
  <1>2. LoopInv /\ [Next]_vars => [Room!Next]_(Room!vars)
    <2> SUFFICES ASSUME LoopInv, [Next]_vars PROVE Room!Next \/ UNCHANGED roomVars
      BY DEF roomVars, Room!vars
    <2>1. RoomStep \/ UNCHANGED vars
      BY StepOfRoom DEF LoopInv, PhaseInv
    <2>2. UNCHANGED vars => UNCHANGED roomVars
      BY DEF vars
    <2> QED
      BY <2>1, <2>2 DEF RoomStep, Room!Next, Room!Timing
  <1> QED
    BY <1>1, <1>2, LoopInit, LoopStep, PTL DEF Spec, RoomSafe, Room!Spec

\* Room and RoomFacts are two names of one module's definitions.
LEMMA OneRoom == Room!Spec => RoomFacts!Spec
  <1>1. Room!Init => RoomFacts!Init
    BY DEF Room!Init, RoomFacts!Init, Room!EmptyMap, RoomFacts!EmptyMap
  <1>2. Room!Next => RoomFacts!Next
    <2>1. ASSUME NEW id PROVE Room!AddClient(id) => RoomFacts!AddClient(id)
      BY DEF Room!AddClient, RoomFacts!AddClient, Room!Join, RoomFacts!Join,
             Room!startMixingTimer, RoomFacts!startMixingTimer
    <2>2. ASSUME NEW id PROVE Room!RemoveClient(id) => RoomFacts!RemoveClient(id)
      BY DEF Room!RemoveClient, RoomFacts!RemoveClient, Room!Erase, RoomFacts!Erase
    <2>3. ASSUME NEW id PROVE Room!ProcessAudio(id) => RoomFacts!ProcessAudio(id)
      BY DEF Room!ProcessAudio, RoomFacts!ProcessAudio, Room!Store, RoomFacts!Store,
             Room!Stamp, RoomFacts!Stamp, Room!Put, RoomFacts!Put, Room!Limit,
             RoomFacts!Limit, Room!BufferOf, RoomFacts!BufferOf
    <2>4. ASSUME NEW id PROVE Room!AddAndProcess(id) => RoomFacts!AddAndProcess(id)
      BY DEF Room!AddAndProcess, RoomFacts!AddAndProcess, Room!Join, RoomFacts!Join,
             Room!startMixingTimer, RoomFacts!startMixingTimer, Room!Store, RoomFacts!Store,
             Room!Stamp, RoomFacts!Stamp, Room!Put, RoomFacts!Put, Room!Limit,
             RoomFacts!Limit, Room!BufferOf, RoomFacts!BufferOf
    <2>5. Room!TimerExpires => RoomFacts!TimerExpires
      BY DEF Room!TimerExpires, RoomFacts!TimerExpires
    <2>6. Room!ClockTick => RoomFacts!ClockTick
      BY DEF Room!ClockTick, RoomFacts!ClockTick, Room!Older, RoomFacts!Older, Room!Stale,
             RoomFacts!Stale
    <2>7. Room!MixingTimer => RoomFacts!MixingTimer
      <3>1. Room!Fresh = RoomFacts!Fresh
        BY DEF Room!Fresh, RoomFacts!Fresh, Room!Activity, RoomFacts!Activity,
               Room!Stale, RoomFacts!Stale
      <3>2. ASSUME NEW id PROVE Room!MixFor(id) = RoomFacts!MixFor(id)
        BY <3>1 DEF Room!MixFor, RoomFacts!MixFor, Room!ToSet, RoomFacts!ToSet
      <3>3. Room!Inactive = RoomFacts!Inactive
        BY DEF Room!Inactive, RoomFacts!Inactive, Room!Activity, RoomFacts!Activity,
               Room!Stale, RoomFacts!Stale
      <3>4. Room!SendMixes => RoomFacts!SendMixes
        BY <3>2 DEF Room!SendMixes, RoomFacts!SendMixes
      <3> QED
        BY <3>3, <3>4 DEF Room!MixingTimer, RoomFacts!MixingTimer, Room!startMixingTimer,
                          RoomFacts!startMixingTimer, Room!mixAndSendAudio,
                          RoomFacts!mixAndSendAudio, Room!Erase, RoomFacts!Erase
    <2> QED
      BY <2>1, <2>2, <2>3, <2>4, <2>5, <2>6, <2>7
      DEF Room!Next, RoomFacts!Next, Room!Timing, RoomFacts!Timing
  <1>3. UNCHANGED Room!vars => UNCHANGED RoomFacts!vars
    BY DEF Room!vars, RoomFacts!vars
  <1> QED
    BY <1>1, <1>2, <1>3, PTL DEF Room!Spec, RoomFacts!Spec

\* So no member of the server is sent a packet twice, or after a later one.
THEOREM ServerHeardInOrder == Spec => []Room!HeardInOrder
  <1>1. RoomFacts!Spec => []RoomFacts!HeardInOrder
    BY SizesAssumption, RoomFacts!NothingHeardTwice
  <1>2. RoomFacts!HeardInOrder => Room!HeardInOrder
    BY DEF RoomFacts!HeardInOrder, Room!HeardInOrder
  <1> QED
    BY ServerImplementsRoom, OneRoom, <1>1, <1>2, PTL DEF RoomSafe

\* The operators of FiniteSets also have two names.
LEMMA OneCardinality ==
    ASSUME NEW S
    PROVE  /\ RoomFacts!IsFiniteSet(S) <=> IsFiniteSet(S)
           /\ RoomFacts!Cardinality(S) = Cardinality(S)
  BY DEF RoomFacts!IsFiniteSet, IsFiniteSet, RoomFacts!Cardinality, Cardinality

\* The bounds the server gives its sessions are numbers.
LEMMA SendsBound ==
    /\ IsFiniteSet(Sessions \cup UdpPeers)
    /\ MaxPackets * Cardinality(Sessions \cup UdpPeers) \in Nat
  <1>1. IsFiniteSet(Sessions \cup UdpPeers)
    BY FiniteAssumption, FS_Union
  <1>2. Cardinality(Sessions \cup UdpPeers) \in Nat
    BY <1>1, FS_CardinalityType
  <1> QED
    BY <1>1, <1>2, SizesAssumption

\* The room keeps its type, and sends no member more mixes than it has packets.
LEMMA RoomSound == Spec => []Room!TypeOK /\ []RoomFacts!FewMixes
  <1>1. RoomFacts!Spec => []RoomFacts!TypeOK
    BY SizesAssumption, RoomFacts!TypeCorrect
  <1>2. RoomFacts!TypeOK => Room!TypeOK
    BY DEF RoomFacts!TypeOK, Room!TypeOK, RoomFacts!Packet, Room!Packet, RoomFacts!Age, Room!Age
  <1>3. RoomFacts!Spec => []RoomFacts!FewMixes
    <2>1. RoomFacts!IsFiniteSet(Sessions \cup UdpPeers)
      BY SendsBound, OneCardinality
    <2> QED
      BY <2>1, SizesAssumption, RoomFacts!MixesAreFew
  <1> QED
    BY ServerImplementsRoom, OneRoom, <1>1, <1>2, <1>3, PTL DEF RoomSafe

-----------------------------------------------------------------------------
(* What the UDP socket sends. *)

\* What a datagram may hold: a mix, or what has become of its memory.
Content == (SUBSET Room!Packet) \cup {{Freed}}

\* Sends that have ended and sends put off, against the mixes: the former are of
\* these, spoilt or not made, the latter are still these.
Follows(done, waiting, mixes) ==
    /\ Len(done) + Len(waiting) = Len(mixes)
    /\ \A i \in 1..Len(done) : done[i] \in {mixes[i], {Freed}, NotSent}
    /\ \A i \in 1..Len(waiting) : waiting[i] = mixes[Len(done) + i]

\* A mix that is sent at once, or fails to be, when nothing waits.
LEMMA SentAtOnce ==
    ASSUME NEW done \in Seq(Content), NEW waiting, waiting = << >>,
           NEW mixes \in Seq(Content), NEW m \in Content, NEW c \in {m, NotSent},
           Follows(done, waiting, mixes)
    PROVE  /\ Follows(Append(done, c), waiting, Append(mixes, m))
           /\ Append(done, c) \in Seq(Content)
  <1>1. Len(done) \in Nat /\ Len(mixes) = Len(done) /\ Len(waiting) = 0
    BY LenProperties, EmptySeq DEF Follows
  <1>c. c \in Content
    BY DEF Content, NotSent
  <1>2. /\ Append(done, c) \in Seq(Content)
        /\ Len(Append(done, c)) = Len(done) + 1 /\ Append(done, c)[Len(done) + 1] = c
        /\ \A i \in 1..Len(done) : Append(done, c)[i] = done[i]
        /\ Len(Append(mixes, m)) = Len(done) + 1 /\ Append(mixes, m)[Len(done) + 1] = m
        /\ \A i \in 1..Len(done) : Append(mixes, m)[i] = mixes[i]
    BY <1>1, <1>c, AppendProperties
  <1>3. ASSUME NEW i \in 1..Len(done) + 1
        PROVE  Append(done, c)[i] \in {Append(mixes, m)[i], {Freed}, NotSent}
    <2>1. CASE i \in 1..Len(done)
      BY <1>2, <2>1 DEF Follows
    <2>2. CASE i = Len(done) + 1
      BY <1>2, <2>2
    <2> QED
      BY <1>1, <2>1, <2>2
  <1> QED
    BY <1>1, <1>2, <1>3 DEF Follows

\* A mix that is put off.
LEMMA PutOff ==
    ASSUME NEW done \in Seq(Content), NEW waiting \in Seq(Content),
           NEW mixes \in Seq(Content), NEW m \in Content, Follows(done, waiting, mixes)
    PROVE  Follows(done, Append(waiting, m), Append(mixes, m))
  <1>1. /\ Len(done) \in Nat /\ Len(waiting) \in Nat
        /\ Len(mixes) = Len(done) + Len(waiting)
    BY LenProperties DEF Follows
  <1>2. /\ Len(Append(waiting, m)) = Len(waiting) + 1
        /\ Append(waiting, m)[Len(waiting) + 1] = m
        /\ \A i \in 1..Len(waiting) : Append(waiting, m)[i] = waiting[i]
        /\ Len(Append(mixes, m)) = Len(mixes) + 1 /\ Append(mixes, m)[Len(mixes) + 1] = m
        /\ \A i \in 1..Len(mixes) : Append(mixes, m)[i] = mixes[i]
    BY AppendProperties
  <1>3. ASSUME NEW i \in 1..Len(waiting) + 1
        PROVE  Append(waiting, m)[i] = Append(mixes, m)[Len(done) + i]
    <2>1. CASE i \in 1..Len(waiting)
      <3>1. Len(done) + i \in 1..Len(mixes)
        BY <1>1, <2>1
      <3>2. Append(mixes, m)[Len(done) + i] = mixes[Len(done) + i]
        BY <1>2, <3>1
      <3> QED
        BY <1>2, <2>1, <3>2 DEF Follows
    <2>2. CASE i = Len(waiting) + 1
      BY <1>1, <1>2, <2>2
    <2> QED
      BY <1>1, <2>1, <2>2
  <1>4. ASSUME NEW i \in 1..Len(done) PROVE done[i] \in {Append(mixes, m)[i], {Freed}, NotSent}
    <2>1. i \in 1..Len(mixes)
      BY <1>1
    <2> QED
      BY <1>2, <2>1 DEF Follows
  <1> QED
    BY <1>1, <1>2, <1>3, <1>4 DEF Follows

\* The first that was put off is sent, or what its memory holds by now, or fails.
LEMMA SentLate ==
    ASSUME NEW done \in Seq(Content), NEW waiting \in Seq(Content), waiting # << >>,
           NEW mixes \in Seq(Content), NEW m \in {Head(waiting), {Freed}, NotSent},
           Follows(done, waiting, mixes)
    PROVE  /\ Follows(Append(done, m), Tail(waiting), mixes)
           /\ Append(done, m) \in Seq(Content) /\ Tail(waiting) \in Seq(Content)
  <1>1. /\ Len(done) \in Nat /\ Len(waiting) \in Nat \ {0}
        /\ Len(mixes) = Len(done) + Len(waiting)
    BY LenProperties, EmptySeq DEF Follows
  <1>2. /\ Head(waiting) \in Content /\ Tail(waiting) \in Seq(Content)
        /\ Len(Tail(waiting)) = Len(waiting) - 1
        /\ \A i \in 1..Len(Tail(waiting)) : Tail(waiting)[i] = waiting[i + 1]
    BY HeadTailProperties
  <1>3. Head(waiting) = mixes[Len(done) + 1]
    <2>1. Head(waiting) = waiting[1] /\ 1 \in 1..Len(waiting)
      BY <1>1
    <2> QED
      BY <2>1 DEF Follows
  <1>4. m \in Content
    <2>1. {Freed} \in Content /\ NotSent \in Content
      BY DEF Content, NotSent
    <2> QED
      BY <1>2, <2>1
  <1>5. /\ Append(done, m) \in Seq(Content)
        /\ Len(Append(done, m)) = Len(done) + 1 /\ Append(done, m)[Len(done) + 1] = m
        /\ \A i \in 1..Len(done) : Append(done, m)[i] = done[i]
    BY <1>4, AppendProperties
  <1>6. ASSUME NEW i \in 1..Len(done) + 1 PROVE Append(done, m)[i] \in {mixes[i], {Freed}, NotSent}
    <2>1. CASE i \in 1..Len(done)
      BY <1>5, <2>1 DEF Follows
    <2>2. CASE i = Len(done) + 1
      BY <1>3, <1>5, <2>2
    <2> QED
      BY <1>1, <2>1, <2>2
  <1>7. ASSUME NEW i \in 1..Len(Tail(waiting))
        PROVE  Tail(waiting)[i] = mixes[(Len(done) + 1) + i]
    <2>1. i + 1 \in 1..Len(waiting) /\ Len(done) + (i + 1) = (Len(done) + 1) + i
      BY <1>1, <1>2
    <2>2. waiting[i + 1] = mixes[Len(done) + (i + 1)]
      BY <2>1 DEF Follows
    <2> QED
      BY <1>2, <2>1, <2>2
  <1>8. (Len(done) + 1) + Len(Tail(waiting)) = Len(mixes)
    BY <1>1, <1>2
  <1> QED
    BY <1>2, <1>5, <1>6, <1>7, <1>8 DEF Follows

DatagramInv ==
    /\ datagrams \in [UdpPeers -> Seq(Content)]
    /\ deferred \in [UdpPeers -> Seq(Content)]
    /\ \A u \in UdpPeers : Follows(datagrams[u], deferred[u], sentTo[u])

LEMMA DatagramInit == Init => DatagramInv
  <1> SUFFICES ASSUME Init PROVE DatagramInv
    OBVIOUS
  <1>1. << >> \in Seq(Content) /\ Len(<< >>) = 0
    BY EmptySeq
  <1>2. \A u \in UdpPeers : sentTo[u] = << >> /\ datagrams[u] = << >> /\ deferred[u] = << >>
    BY DEF Init, Room!Init
  <1>3. Follows(<< >>, << >>, << >>)
    BY DEF Follows
  <1> QED
    BY <1>1, <1>2, <1>3 DEF Init, DatagramInv

\* A mix goes to every UDP peer that has anything to hear, at once or later.
LEMMA DatagramMix ==
    ASSUME Room!TypeOK, DatagramInv, MixingTimer
    PROVE  DatagramInv'
  <1>0. PICK atOnce \in SUBSET (Receivers \cap UdpPeers) :
           \E failing \in SUBSET atOnce : SendDatagrams(atOnce, failing)
    BY DEF MixingTimer
  <1>1. PICK failing \in SUBSET atOnce : SendDatagrams(atOnce, failing)
    BY <1>0
  <1>2. Room!SendMixes
    BY DEF MixingTimer, Room!MixingTimer, Room!mixAndSendAudio
  <1>3. ASSUME NEW u \in UdpPeers
        PROVE  /\ datagrams'[u] \in Seq(Content) /\ deferred'[u] \in Seq(Content)
               /\ Follows(datagrams'[u], deferred'[u], sentTo'[u])
    <2> DEFINE m == Room!MixFor(u)
    <2>1. m \in Content
      <3>1. ASSUME NEW other \in Room!Fresh PROVE Room!ToSet(audioBuffers[other]) \subseteq Room!Packet
        BY <3>1 DEF Room!Fresh, Room!TypeOK, Room!ToSet
      <3> QED
        BY <3>1 DEF Room!MixFor, Content
    <2>2. /\ datagrams[u] \in Seq(Content) /\ deferred[u] \in Seq(Content)
          /\ Follows(datagrams[u], deferred[u], sentTo[u])
      BY DEF DatagramInv
    <2>3. sentTo[u] \in Seq(Content)
      <3>1. sentTo[u] \in Seq(SUBSET Room!Packet)
        BY DEF Room!TypeOK
      <3> QED
        BY <3>1, SeqMonotonic DEF Content
    <2> HIDE DEF m
    <2>4. sentTo'[u] = IF u \in Receivers THEN Append(sentTo[u], m) ELSE sentTo[u]
      BY <1>2 DEF Room!SendMixes, Receivers, m
    <2>5. CASE u \in atOnce
      <3>1. deferred[u] = << >>
        BY <1>1, <2>5 DEF SendDatagrams
      <3> DEFINE c == IF u \in failing THEN NotSent ELSE m
      <3>2. /\ datagrams'[u] = Append(datagrams[u], c) /\ deferred'[u] = deferred[u]
            /\ sentTo'[u] = Append(sentTo[u], m)
        BY <1>1, <2>4, <2>5 DEF SendDatagrams, m
      <3>3. c \in {m, NotSent}
        OBVIOUS
      <3> HIDE DEF c
      <3> QED
        BY <2>1, <2>2, <2>3, <3>1, <3>2, <3>3, SentAtOnce
    <2>6. CASE u \in Receivers \ atOnce
      <3>1. /\ datagrams'[u] = datagrams[u] /\ deferred'[u] = Append(deferred[u], m)
            /\ sentTo'[u] = Append(sentTo[u], m)
        BY <1>1, <2>4, <2>6 DEF SendDatagrams, m
      <3> QED
        BY <2>1, <2>2, <2>3, <3>1, PutOff, AppendProperties
    <2>7. CASE u \notin Receivers
      <3>1. datagrams'[u] = datagrams[u] /\ deferred'[u] = deferred[u] /\ sentTo'[u] = sentTo[u]
        BY <1>1, <2>4, <2>7 DEF SendDatagrams
      <3> QED
        BY <2>2, <3>1
    <2> QED
      BY <2>5, <2>6, <2>7
  <1>4. /\ datagrams' = [u \in UdpPeers |-> datagrams'[u]]
        /\ deferred' = [u \in UdpPeers |-> deferred'[u]]
    BY <1>1 DEF SendDatagrams
  <1> QED
    BY <1>3, <1>4 DEF DatagramInv

LEMMA DatagramStep == Room!TypeOK /\ DatagramInv /\ [Next]_vars => DatagramInv'
  <1> SUFFICES ASSUME Room!TypeOK, DatagramInv, [Next]_vars PROVE DatagramInv'
    OBVIOUS
  <1>1. UNCHANGED <<sentTo, datagrams, deferred>> => DatagramInv'
    BY DEF DatagramInv
  <1>2. ASSUME NEW u \in UdpPeers, SendDeferred(u) PROVE DatagramInv'
    <2>1. PICK content \in {Head(deferred[u]), {Freed}, NotSent} :
              datagrams' = [datagrams EXCEPT ![u] = Append(@, content)]
      BY <1>2 DEF SendDeferred
    <2>2. deferred[u] # << >> /\ deferred' = [deferred EXCEPT ![u] = Tail(@)] /\ sentTo' = sentTo
      BY <1>2 DEF SendDeferred, roomVars
    <2>3. sentTo[u] \in Seq(Content)
      <3>1. sentTo[u] \in Seq(SUBSET Room!Packet)
        BY DEF Room!TypeOK
      <3> QED
        BY <3>1, SeqMonotonic DEF Content
    <2>4. /\ datagrams[u] \in Seq(Content) /\ deferred[u] \in Seq(Content)
          /\ Follows(datagrams[u], deferred[u], sentTo[u])
      BY DEF DatagramInv
    <2>5. /\ Follows(Append(datagrams[u], content), Tail(deferred[u]), sentTo[u])
          /\ Append(datagrams[u], content) \in Seq(Content) /\ Tail(deferred[u]) \in Seq(Content)
      BY <2>2, <2>3, <2>4, SentLate
    <2> QED
      BY <2>1, <2>2, <2>5 DEF DatagramInv
  <1>3. CASE MixingTimer
    BY <1>3, DatagramMix
  <1>4. ASSUME NEW s \in Sessions, Accept(s) \/ HandleReceiveWebsocket(s) \/ SessionIo(s)
        PROVE  UNCHANGED <<sentTo, datagrams, deferred>>
    BY <1>4 DEF Accept, HandleReceiveWebsocket, SessionIo, Room!AddClient, Room!ProcessAudio,
                roomVars, udpVars
  <1>5. ASSUME NEW u \in UdpPeers, HandleReceive(u)
        PROVE  UNCHANGED <<sentTo, datagrams, deferred>>
    BY <1>5 DEF HandleReceive, udpVars
  <1>6. CASE Clock \/ UNCHANGED vars
    BY <1>1, <1>6 DEF Clock, Room!TimerExpires, Room!ClockTick, vars, roomVars, udpVars
  <1> QED
    BY <1>1, <1>2, <1>3, <1>4, <1>5, <1>6 DEF Next

LEMMA DatagramsFollow == DatagramInv => DatagramsInOrder
  BY DEF DatagramInv, DatagramsInOrder, Follows

\* Each mix of a UDP peer is handed to the socket once, and the sends end in the
\* order of the mixes, whichever of them fail (Connection.h:22-25) and whatever has
\* become of the memory of those that were put off.
THEOREM DatagramsKeepOrder == Spec => []DatagramsInOrder
  BY RoomSound, DatagramInit, DatagramStep, DatagramsFollow, PTL DEF Spec

-----------------------------------------------------------------------------
(* The sessions of the server are sessions. *)

\* Session and SessionFacts are two names of one module's definitions.
LEMMA OneSession ==
    /\ Session!Init => SessionFacts!Init
    /\ Session!Next => SessionFacts!Next
    /\ \A s : Session!Start(s) => SessionFacts!Start(s)
    /\ \A s : Session!Io(s) => SessionFacts!Io(s)
    /\ \A to : Session!Send(to) => SessionFacts!Send(to)
  <1>1. Session!Init => SessionFacts!Init
    BY DEF Session!Init, SessionFacts!Init, Session!Ops, SessionFacts!Ops
  <1>2. ASSUME NEW s PROVE Session!Start(s) => SessionFacts!Start(s)
    BY DEF Session!Start, SessionFacts!Start
  <1>3. ASSUME NEW to PROVE Session!Send(to) => SessionFacts!Send(to)
    BY DEF Session!Send, SessionFacts!Send
  <1>4. ASSUME NEW s PROVE Session!Io(s) => SessionFacts!Io(s)
    <2>1. Session!Handshake(s) => SessionFacts!Handshake(s)
      BY DEF Session!Handshake, SessionFacts!Handshake, Session!AnswerRequest,
             SessionFacts!AnswerRequest, Session!RefuseRequest, SessionFacts!RefuseRequest,
             Session!ResponseWritten, SessionFacts!ResponseWritten
    <2>2. ASSUME NEW op PROVE Session!Transmit(s, op) => SessionFacts!Transmit(s, op)
      BY DEF Session!Transmit, SessionFacts!Transmit, Session!NextOf, SessionFacts!NextOf
    <2>3. ASSUME NEW op PROVE Session!WriteError(s, op) => SessionFacts!WriteError(s, op)
      BY DEF Session!WriteError, SessionFacts!WriteError, Session!NextOf, SessionFacts!NextOf
    <2>4. Session!FrameWritten(s) => SessionFacts!FrameWritten(s)
      BY DEF Session!FrameWritten, SessionFacts!FrameWritten
    <2>5. Session!ReadError(s) => SessionFacts!ReadError(s)
      BY DEF Session!ReadError, SessionFacts!ReadError
    <2>6. Session!PeerCloses(s) => SessionFacts!PeerCloses(s)
      BY DEF Session!PeerCloses, SessionFacts!PeerCloses
    <2>7. Session!Ops = SessionFacts!Ops
      BY DEF Session!Ops, SessionFacts!Ops
    <2> QED
      BY <2>1, <2>2, <2>3, <2>4, <2>5, <2>6, <2>7 DEF Session!Io, SessionFacts!Io
  <1>5. Session!Next => SessionFacts!Next
    BY <1>2, <1>3, <1>4 DEF Session!Next, SessionFacts!Next
  <1> QED
    BY <1>1, <1>2, <1>3, <1>4, <1>5

\* Every handler of the server is one step of its sessions, or none: send() is
\* called for members only, which have been accepted.
LEMMA SessionStep ==
    ASSUME PhaseInv, SessionFacts!TypeOK, RoomFacts!FewMixes', [Next]_vars
    PROVE  [Session!Next]_(Session!vars)
  <1> SUFFICES Session!Next \/ UNCHANGED Session!vars
    OBVIOUS
  <1>0. UNCHANGED <<sessionVars, sentTo>> => UNCHANGED Session!vars
    BY DEF Session!vars, sessionVars
  <1>1. ASSUME NEW s \in Sessions, Accept(s) PROVE Session!Next
    BY <1>1 DEF Accept, Session!Next
  <1>2. ASSUME NEW s \in Sessions, SessionIo(s) PROVE Session!Next
    BY <1>2 DEF SessionIo, Session!Next
  <1>3. ASSUME NEW s \in Sessions, HandleReceiveWebsocket(s)
        PROVE  UNCHANGED <<sessionVars, sentTo>>
    BY <1>3 DEF HandleReceiveWebsocket, Room!ProcessAudio
  <1>4. ASSUME NEW u \in UdpPeers, HandleReceive(u) \/ SendDeferred(u)
        PROVE  UNCHANGED <<sessionVars, sentTo>>
    BY <1>4 DEF HandleReceive, SendDeferred, roomVars
  <1>5. ASSUME MixingTimer PROVE Session!Next \/ UNCHANGED Session!vars
    <2> DEFINE to == Receivers \cap Sessions
               max == MaxPackets * Cardinality(Sessions \cup UdpPeers)
               len == [s \in Sessions |-> Len(sentTo[s])]
    <2>0. len \in [Sessions -> 0..max] /\ max \in Nat
      BY SendsBound DEF SessionFacts!TypeOK
    <2>1. Session!Send(to)
      BY <1>5 DEF MixingTimer
    <2>2. CASE to = {}
      <3>1. /\ write_queue' = [s \in Sessions |-> write_queue[s]]
            /\ writes' = [s \in Sessions |-> writes[s]]
            /\ len' = [s \in Sessions |-> len[s]]
            /\ UNCHANGED <<phase, peer, wire>>
        BY <2>1, <2>2 DEF Session!Send
      <3>2. /\ write_queue = [s \in Sessions |-> write_queue[s]]
            /\ writes = [s \in Sessions |-> writes[s]]
        BY DEF SessionFacts!TypeOK
      <3> QED
        BY <3>1, <3>2 DEF Session!vars
    <2>3. CASE to # {}
      <3>1. ASSUME NEW s \in to PROVE s \in Sessions /\ phase[s] # "none" /\ len[s] < max
        <4>1. s \in Sessions /\ s \in clients
          BY DEF Receivers
        <4>2. phase[s] # "none"
          BY <4>1 DEF PhaseInv
        <4>3. len'[s] = len[s] + 1
          BY <2>1, <4>1 DEF Session!Send
        <4>4. len'[s] <= max
          <5>1. Len(sentTo'[s]) <= max
            BY <4>1, OneCardinality DEF RoomFacts!FewMixes
          <5> QED
            BY <4>1, <5>1
        <4>5. len[s] \in Nat /\ max \in Nat
          <5> HIDE DEF len, max
          <5> QED
            BY <2>0, <4>1
        <4> HIDE DEF len, max
        <4> QED
          BY <4>1, <4>2, <4>3, <4>4, <4>5
      <3>2. to \in SUBSET {s \in Sessions : phase[s] # "none" /\ len[s] < max}
        BY <3>1
      <3> QED
        <4>1. \E t \in SUBSET {s \in Sessions : phase[s] # "none" /\ len[s] < max} :
                 t # {} /\ Session!Send(t)
          <5> HIDE DEF to, len, max
          <5> QED
            BY <2>1, <2>3, <3>2 DEF Session!Send
        <4> QED
          BY <4>1 DEF Session!Next
    <2> HIDE DEF to
    <2> QED
      BY <2>2, <2>3
  <1>6. CASE Clock \/ UNCHANGED vars
    <2>1. UNCHANGED <<sessionVars, sentTo>>
      BY <1>6 DEF Clock, Room!TimerExpires, Room!ClockTick, vars, roomVars
    <2> QED
      BY <1>0, <2>1
  <1> QED
    BY <1>0, <1>1, <1>2, <1>3, <1>4, <1>5, <1>6 DEF Next

\* What is proved of the sessions, for the server's own.
SessionsSound == SessionFacts!OrderInv

LEMMA SessionsInit == Init => SessionsSound
  <1>1. SessionFacts!Init => SessionFacts!OrderInv
    BY SendsBound, SessionFacts!InitFrames
  <1>2. Init => SessionFacts!Init
    BY OneSession DEF Init
  <1> QED
    BY <1>1, <1>2 DEF SessionsSound

LEMMA SessionsStep ==
    PhaseInv /\ RoomFacts!FewMixes' /\ SessionsSound /\ [Next]_vars => SessionsSound'
  <1> SUFFICES ASSUME PhaseInv, RoomFacts!FewMixes', SessionsSound, [Next]_vars
               PROVE  SessionsSound'
    OBVIOUS
  <1>1. SessionFacts!OrderInv /\ [SessionFacts!Next]_(SessionFacts!vars) => SessionFacts!OrderInv'
    BY SendsBound, SessionFacts!NextFrames
  <1>2. SessionFacts!TypeOK
    BY DEF SessionsSound, SessionFacts!OrderInv
  <1>3. [Session!Next]_(Session!vars)
    BY <1>2, SessionStep
  <1>4. [SessionFacts!Next]_(SessionFacts!vars)
    BY <1>3, OneSession DEF Session!vars, SessionFacts!vars
  <1> QED
    BY <1>1, <1>4 DEF SessionsSound

\* Members of the room have been accepted, and the sessions are sound.
LEMMA ServerSessions == Spec => []PhaseInv /\ []SessionsSound
  <1>1. LoopInv => PhaseInv
    BY DEF LoopInv
  <1> QED
    BY <1>1, LoopInit, LoopStep, RoomSound, SessionsInit, SessionsStep, PTL DEF Spec

\* What the room, the sessions and the socket keep keeps its type, whichever
\* handlers run in whatever order.
THEOREM ServerTypeCorrect == Spec => []TypeOK
  <1>1. SessionsSound => Session!TypeOK
    BY DEF SessionsSound, SessionFacts!OrderInv, SessionFacts!TypeOK, Session!TypeOK,
           SessionFacts!Phases, Session!Phases, SessionFacts!Ops, Session!Ops,
           SessionFacts!Progress, Session!Progress, SessionFacts!Piece, Session!Piece
  <1>2. Room!TypeOK /\ Session!TypeOK /\ DatagramInv => TypeOK
    BY DEF TypeOK, DatagramInv
  <1> QED
    BY <1>1, <1>2, RoomSound, ServerSessions, DatagramInit, DatagramStep, PTL DEF Spec

\* The mixes of a member are the messages of its session: each one is queued,
\* written and taken out of the queue once and in the order of the mixes,
\* whenever the timer's handler and those of the socket run.
THEOREM StreamsCarryMixes == Spec => []StreamsAreMixes
  <1>1. SessionsSound => StreamsAreMixes
    <2> SUFFICES ASSUME SessionsSound PROVE StreamsAreMixes
      OBVIOUS
    <2>1. SessionFacts!FramesInOrder
      BY SendsBound, SessionFacts!FirstPiecesAreInOrder DEF SessionsSound
    <2>2. Session!FramesInOrder
      BY <2>1 DEF SessionFacts!FramesInOrder, Session!FramesInOrder, SessionFacts!FramePieces,
                  Session!FramePieces, SessionFacts!Rank, Session!Rank
    <2>3. SessionFacts!NothingForgotten
      BY SendsBound, SessionFacts!NumberedIsEnough DEF SessionsSound, SessionFacts!OrderInv
    <2>4. Session!NothingForgotten
      BY <2>3 DEF SessionFacts!NothingForgotten, Session!NothingForgotten
    <2>5. ASSUME NEW s \in Sessions
          PROVE  Cardinality(FramesOf(s)) + Len(write_queue[s])
                    = Len(sentTo[s]) + (IF writes[s]["frame"] = "done" THEN 1 ELSE 0)
      <3>1. SessionFacts!Cardinality(SessionFacts!LastPieces(wire[s])) + Len(write_queue[s])
               = Len(sentTo[s]) + (IF writes[s]["frame"] = "done" THEN 1 ELSE 0)
        BY SendsBound, SessionFacts!WholeFrames DEF SessionsSound
      <3>2. SessionFacts!LastPieces(wire[s]) = FramesOf(s)
        BY DEF SessionFacts!LastPieces, FramesOf
      <3>3. SessionFacts!Cardinality(FramesOf(s)) = Cardinality(FramesOf(s))
        BY DEF SessionFacts!Cardinality, Cardinality
      <3> QED
        BY <3>1, <3>2, <3>3
    <2> QED
      BY <2>2, <2>4, <2>5 DEF StreamsAreMixes
  <1> QED
    BY <1>1, ServerSessions, PTL

-----------------------------------------------------------------------------
(* The server uses its parts as they expect. *)

\* The safety half of PartsServed.
PartsUsed ==
    /\ Room!Init /\ [][Room!ServedNext]_(Room!vars)
    /\ Session!Init /\ [][Session!Next]_(Session!vars)

\* A key is added to the room once, and hands in audio only after that.
LEMMA ServedStep ==
    ASSUME PhaseInv, SpeakersInv, [Next]_vars
    PROVE  [Room!ServedNext]_(Room!vars)
  <1> SUFFICES Room!ServedNext \/ UNCHANGED roomVars
    BY DEF Room!vars, roomVars
  <1>1. ASSUME NEW s \in Sessions, Accept(s) PROVE Room!ServedNext
    <2>1. s \notin clients
      BY <1>1 DEF Accept, Session!Start, PhaseInv
    <2> QED
      BY <1>1, <2>1 DEF Accept, Room!ServedNext
  <1>2. ASSUME NEW s \in Sessions, HandleReceiveWebsocket(s) PROVE Room!ServedNext
    <2>1. s \in clients
      BY <1>2 DEF HandleReceiveWebsocket, SpeakersInv
    <2> QED
      BY <1>2, <2>1 DEF HandleReceiveWebsocket, Room!ServedNext
  <1>3. ASSUME NEW u \in UdpPeers, HandleReceive(u) PROVE Room!ServedNext
    <2>1. CASE u \in clients
      <3>1. Room!ProcessAudio(u)
        BY <1>3, <2>1 DEF HandleReceive, Room!ProcessAudio
      <3> QED
        BY <2>1, <3>1 DEF Room!ServedNext
    <2>2. CASE u \notin clients
      <3>1. Room!AddAndProcess(u)
        BY <1>3, <2>2 DEF HandleReceive, Room!AddAndProcess
      <3> QED
        BY <2>2, <3>1 DEF Room!ServedNext
    <2> QED
      BY <2>1, <2>2
  <1>4. ASSUME MixingTimer \/ Clock PROVE Room!ServedNext
    BY <1>4 DEF MixingTimer, Clock, Room!ServedNext, Room!Timing
  <1>5. ASSUME \/ \E s \in Sessions : SessionIo(s)
               \/ \E u \in UdpPeers : SendDeferred(u)
               \/ UNCHANGED vars
        PROVE  UNCHANGED roomVars
    BY <1>5 DEF SessionIo, SendDeferred, vars
  <1> QED
    BY <1>1, <1>2, <1>3, <1>4, <1>5 DEF Next

\* The handlers of the server call the room as ServedNext allows, adding each key
\* once, and its sessions as any server may: sending to nobody who has not been
\* accepted, and no more than MaxSends messages.  What is proved of the room and
\* of sessions under these assumptions therefore holds here.
THEOREM PartsUsedAsExpected == Spec => PartsUsed
  <1>1. Init => Room!Init /\ Session!Init
    BY DEF Init
  <1>2. PhaseInv /\ SessionsSound /\ RoomFacts!FewMixes' /\ [Next]_vars
          => [Session!Next]_(Session!vars)
    BY SessionStep DEF SessionsSound, SessionFacts!OrderInv
  <1>3. PhaseInv /\ SpeakersInv /\ [Next]_vars => [Room!ServedNext]_(Room!vars)
    BY ServedStep
  <1> QED
    BY <1>1, <1>2, <1>3, RoomSound, ServerSessions, SpeakersInit, SpeakersStep, PTL
    DEF Spec, PartsUsed

=============================================================================
