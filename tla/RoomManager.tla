---------------------------- MODULE RoomManager ----------------------------
(***************************************************************************)
(* The conference room of the voice server (server/RoomManager.h).         *)
(*                                                                         *)
(* Members hand in audio packets, which wait in one bounded queue per      *)
(* sender.  A timer re-arms itself for ever; each time it goes off, every  *)
(* member is sent one packet mixed from all the packets the others have    *)
(* waiting, all queues are emptied, and the senders that have been silent  *)
(* for longer than the activity timeout are forgotten.                     *)
(*                                                                         *)
(* A packet is known by its sender and by its number among the packets of  *)
(* that sender; what it sounds like, and the sum that mixes several, are   *)
(* the subject of AudioMixer.  Time is counted in ticks: what the code     *)
(* keeps as a time point is kept here as an age, and ages stop at one tick *)
(* past the timeout because the code only compares them with it.           *)
(*                                                                         *)
(* Every operation is one step: each public one holds mutex_ throughout,   *)
(* and the timer's handler runs on the only thread of the io_context       *)
(* (server/main_server.cpp:84).                                            *)
(***************************************************************************)
EXTENDS Naturals, Sequences, FiniteSets, SequencesExt

CONSTANTS
    Ids,              \* the keys clients are known by
    MaxBufferSize,    \* MAX_BUFFER_SIZE, RoomManager.h:60
    ActivityTimeout,  \* ACTIVITY_TIMEOUT, RoomManager.h:61, in ticks
    MaxPackets,       \* bound: packets one client hands in
    MaxReady          \* bound: expired waits whose handler has not run yet

ASSUME BufferSizeAssumption == MaxBufferSize \in Nat \ {0}
ASSUME TimeoutAssumption    == ActivityTimeout \in Nat
ASSUME BoundsAssumption     == MaxPackets \in Nat /\ MaxReady \in Nat \ {0}

VARIABLES
    clients,       \* clients_: the keys of the members
    audioBuffers,  \* audioBuffers_: key -> packets waiting, oldest first
    lastActivity,  \* clientLastActivity_: key -> age of its last packet
    timer,         \* timer_: is a wait outstanding?
    ready,         \* expired waits whose handler is queued on strand_
    received,      \* history: packets each client has handed in
    sentTo,        \* history: the mixes each client's send() was given
    sinceMix       \* history: age of the last mix (of the room, before it)

vars == <<clients, audioBuffers, lastActivity, timer, ready,
          received, sentTo, sinceMix>>

-----------------------------------------------------------------------------
Packet == [from : Ids, n : 1..MaxPackets]

Age   == 0..(ActivityTimeout + 1)
Stale == ActivityTimeout + 1
Older(age) == IF age < Stale THEN age + 1 ELSE Stale

\* std::unordered_map: insertion or assignment of one key, erasure of several.
Put(map, key, value) ==
    [k \in DOMAIN map \cup {key} |-> IF k = key THEN value ELSE map[k]]
Erase(map, keys) == [k \in DOMAIN map \ keys |-> map[k]]

EmptyMap == [k \in {} |-> 0]

Init ==
    /\ clients = {}
    /\ audioBuffers = EmptyMap
    /\ lastActivity = EmptyMap
    /\ timer = "idle"
    /\ ready = 0
    /\ received = [id \in Ids |-> 0]
    /\ sentTo = [id \in Ids |-> << >>]
    /\ sinceMix = 0

-----------------------------------------------------------------------------
\* Setting a new expiry cancels an outstanding wait, whose handler then does
\* nothing; a handler that is already queued still runs.
startMixingTimer == timer' = "waiting"

Join(id) ==
    /\ clients' = clients \cup {id}
    /\ IF clients' = {id} THEN startMixingTimer ELSE UNCHANGED timer

AddClient(id) ==
    /\ Join(id)
    /\ UNCHANGED <<audioBuffers, lastActivity, ready, received, sentTo, sinceMix>>

RemoveClient(id) ==
    /\ clients' = clients \ {id}
    /\ audioBuffers' = Erase(audioBuffers, {id})
    /\ UNCHANGED <<lastActivity, timer, ready, received, sentTo, sinceMix>>

BufferOf(id) == IF id \in DOMAIN audioBuffers THEN audioBuffers[id] ELSE << >>

\* Defects considered: one packet too many is kept; the newest one is dropped.
LimitLate(buffer) == IF Len(buffer) > MaxBufferSize + 1 THEN Tail(buffer) ELSE buffer
LimitNewest(buffer) == IF Len(buffer) > MaxBufferSize THEN Front(buffer) ELSE buffer

Limit(buffer) == IF Len(buffer) > MaxBufferSize THEN Tail(buffer) ELSE buffer

\* Defect considered: only a sender's first packet is taken for activity.
StampOnce(id) ==
    lastActivity' = IF id \in DOMAIN lastActivity THEN lastActivity
                                                  ELSE Put(lastActivity, id, 0)

Stamp(id) == lastActivity' = Put(lastActivity, id, 0)

\* The room takes packets from any key, member or not.
Store(id) ==
    /\ received[id] < MaxPackets
    /\ received' = [received EXCEPT ![id] = @ + 1]
    /\ LET packet == [from |-> id, n |-> received'[id]]
       IN  audioBuffers' = Put(audioBuffers, id, Limit(Append(BufferOf(id), packet)))
    /\ Stamp(id)

ProcessAudio(id) ==
    /\ Store(id)
    /\ UNCHANGED <<clients, timer, ready, sentTo, sinceMix>>

\* Both calls from one handler, with nothing in between: what voice_server does
\* with the first datagram of a sender.
AddAndProcess(id) ==
    /\ Join(id)
    /\ Store(id)
    /\ UNCHANGED <<ready, sentTo, sinceMix>>

-----------------------------------------------------------------------------
\* operator[] gives a key without an entry the epoch, long before the timeout.
Activity(id) == IF id \in DOMAIN lastActivity THEN lastActivity[id] ELSE Stale

\* Defect considered: the timeout itself already counts as too old.
FreshStrict == {id \in DOMAIN audioBuffers : Activity(id) < ActivityTimeout}

Fresh == {id \in DOMAIN audioBuffers : Activity(id) <= ActivityTimeout}

\* Defect considered: a member's own packets are mixed in.
MixForAll(id) == UNION {ToSet(audioBuffers[other]) : other \in Fresh}

MixFor(id) == UNION {ToSet(audioBuffers[other]) : other \in Fresh \ {id}}

\* The keys the clean-up finds too old, those operator[] inserted included.
Inactive ==
    {id \in DOMAIN lastActivity \cup (IF clients = {} THEN {} ELSE DOMAIN audioBuffers) :
        Activity(id) > ActivityTimeout}

SendMixes ==
    sentTo' = [id \in Ids |->
                 IF id \in clients /\ MixFor(id) # {}
                 THEN Append(sentTo[id], MixFor(id))
                 ELSE sentTo[id]]

\* Defects considered: the queues are not cleared; nothing is cleaned up when
\* nobody has spoken.
mixWithoutClearing ==
    /\ SendMixes
    /\ audioBuffers' = Erase(audioBuffers, Inactive)
    /\ lastActivity' = Erase(lastActivity, Inactive)
    /\ sinceMix' = 0
mixOnlyIfAudible ==
    /\ SendMixes
    /\ IF \E id \in Fresh : audioBuffers[id] # << >>
       THEN /\ audioBuffers' = [id \in DOMAIN audioBuffers \ Inactive |-> << >>]
            /\ lastActivity' = Erase(lastActivity, Inactive)
       ELSE UNCHANGED <<audioBuffers, lastActivity>>
    /\ sinceMix' = 0

mixAndSendAudio ==
    /\ SendMixes
    /\ audioBuffers' = [id \in DOMAIN audioBuffers \ Inactive |-> << >>]
    /\ lastActivity' = Erase(lastActivity, Inactive)
    /\ sinceMix' = 0

\* Defect considered: the timer is re-armed only when somebody has spoken.
MixingTimerWhileAudible ==
    /\ ready > 0
    /\ ready' = ready - 1
    /\ mixAndSendAudio
    /\ IF Fresh # {} THEN startMixingTimer ELSE UNCHANGED timer
    /\ UNCHANGED <<clients, received>>

\* The handler of a wait that ended without an error.
MixingTimer ==
    /\ ready > 0
    /\ ready' = ready - 1
    /\ mixAndSendAudio
    /\ startMixingTimer
    /\ UNCHANGED <<clients, received>>

\* The wait ends and its handler is queued.
TimerExpires ==
    /\ timer = "waiting"
    /\ ready < MaxReady
    /\ timer' = "idle"
    /\ ready' = ready + 1
    /\ UNCHANGED <<clients, audioBuffers, lastActivity, received, sentTo, sinceMix>>

\* std::chrono::steady_clock moves on.
ClockTick ==
    /\ lastActivity' = [id \in DOMAIN lastActivity |-> Older(lastActivity[id])]
    /\ sinceMix' = Older(sinceMix)
    /\ UNCHANGED <<clients, audioBuffers, timer, ready, received, sentTo>>

-----------------------------------------------------------------------------
Timing == TimerExpires \/ MixingTimer \/ ClockTick

\* The room with any caller.
Next ==
    \/ \E id \in Ids :
          AddClient(id) \/ RemoveClient(id) \/ ProcessAudio(id) \/ AddAndProcess(id)
    \/ Timing

Spec == Init /\ [][Next]_vars

\* The room as voice_server drives it: members never leave, because nothing
\* calls removeClient, and a key is added once, because a UDP sender is added
\* only if getClient does not know it and every WebSocket session has a new
\* UUID.  The timer is therefore never set back, so that each wait does end;
\* the io_context runs the handlers that are queued; and the clock moves on.
ServedNext ==
    \/ \E id \in Ids \ clients : AddClient(id) \/ AddAndProcess(id)
    \/ \E id \in clients : ProcessAudio(id)
    \/ Timing

Fairness == WF_vars(TimerExpires) /\ WF_vars(MixingTimer) /\ WF_vars(ClockTick)

ServedSpec == Init /\ [][ServedNext]_vars /\ Fairness

-----------------------------------------------------------------------------
Heard(id) == UNION ToSet(sentTo[id])

Waiting == UNION {ToSet(audioBuffers[id]) : id \in DOMAIN audioBuffers}

\* Every variable keeps its type; no queue is longer than MAX_BUFFER_SIZE.
TypeOK ==
    /\ clients \subseteq Ids
    /\ DOMAIN audioBuffers \subseteq Ids
    /\ \A id \in DOMAIN audioBuffers :
          audioBuffers[id] \in Seq(Packet) /\ Len(audioBuffers[id]) <= MaxBufferSize
    /\ DOMAIN lastActivity \subseteq Ids
    /\ \A id \in DOMAIN lastActivity : lastActivity[id] \in Age
    /\ timer \in {"idle", "waiting"}
    /\ ready \in 0..MaxReady
    /\ received \in [Ids -> 0..MaxPackets]
    /\ sentTo \in [Ids -> Seq(SUBSET Packet)]
    /\ sinceMix \in Age

\* A queue holds the newest packets of its sender, all of them, in the order
\* they came: processAudio appends at the back and drops from the front.
QueuesHoldTheNewest ==
    \A id \in DOMAIN audioBuffers :
        \A i \in 1..Len(audioBuffers[id]) :
            audioBuffers[id][i] =
                [from |-> id, n |-> received[id] - Len(audioBuffers[id]) + i]

\* A room with members never loses its timer: a wait is outstanding or a
\* handler that will re-arm it is queued (addClient starts it only when the
\* room has one member, so nobody would start it again).
TimerAlive == clients # {} => timer = "waiting" \/ ready > 0

\* Audio that waits is never older than the time since the last mix.  So the
\* activity check of mixAndSendAudio discards audio only if the mixing itself
\* is late by more than the timeout.
WaitingAudioIsYoung ==
    \A id \in DOMAIN audioBuffers :
        audioBuffers[id] # << >> => Activity(id) <= sinceMix

\* What a member is sent moves forward: each mix has only packets that are
\* newer than all those of the same sender in earlier mixes.  No packet is
\* heard twice, and none after a later one.
HeardInOrder ==
    \A id \in Ids : \A i, j \in 1..Len(sentTo[id]) :
        i < j => \A p \in sentTo[id][i], q \in sentTo[id][j] :
                    p.from = q.from => p.n < q.n

\* A packet leaves its queue in one of four ways: everybody else in the room
\* is sent it; it was the oldest of a full queue; its sender is not a member;
\* or the mixing was late by more than the activity timeout.
LossAccounted ==
    [][\A id \in DOMAIN audioBuffers : \A p \in ToSet(audioBuffers[id]) :
          \/ p \in Waiting'
          \/ \A other \in clients \ {id} : p \in Heard(other)'
          \/ p.n = received'[id] - MaxBufferSize
          \/ id \notin clients'
          \/ sinceMix > ActivityTimeout]_vars

\* A room that is not empty for ever is mixed again and again.
MixesForever == [](clients = {}) \/ []<><<MixingTimer>>_vars

\* Nothing waits for ever, and what a member says reaches every other member,
\* unless so much follows it that it falls out of its queue or the mixing is
\* late.
AudioIsHeard ==
    \A p \in Packet :
        /\ (p \in Waiting) ~> (p \notin Waiting)
        /\ \A other \in Ids \ {p.from} :
              (p \in Waiting /\ other \in clients) ~>
                  \/ p \in Heard(other)
                  \/ received[p.from] >= p.n + MaxBufferSize
                  \/ sinceMix > ActivityTimeout

\* The records of a client that has fallen silent do not stay
\* (mixAndSendAudio cleans them up even when there is nothing to mix).
SilenceIsForgotten ==
    \A id \in Ids :
        (id \in DOMAIN lastActivity /\ lastActivity[id] > ActivityTimeout) ~>
            (id \notin DOMAIN lastActivity \/ lastActivity[id] <= ActivityTimeout)

\* "Clean up inactive clients" (RoomManager.h:109): a member that has spoken
\* and whose activity has been cleaned up is no longer a member.
InactiveClientsLeave ==
    \A id \in clients : received[id] > 0 => id \in DOMAIN lastActivity

-----------------------------------------------------------------------------
\* What the room promises, as the conference its members take part in.
Promise == INSTANCE Conference WITH
               Speakers   <- Ids,
               Utterances <- Packet,
               members    <- clients,
               said       <- {p \in Packet : p.n <= received[p.from]},
               pending    <- Waiting,
               heard      <- [id \in Ids |-> Heard(id)],
               overdue    <- (sinceMix > ActivityTimeout)

\* The room implements the conference, whoever calls it.
ConferenceSafe == Promise!Spec

\* As voice_server drives it, it also keeps delivering.
ConferenceLive == Promise!FairSpec

=============================================================================
