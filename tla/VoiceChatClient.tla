-------------------------- MODULE VoiceChatClient --------------------------
(***************************************************************************)
(* The native client (client/VoiceChatClient.h): what NetworkManager       *)
(* receives goes through its jitter buffer to AudioManager's playback      *)
(* queue, and what AudioManager captures goes out as datagrams.            *)
(*                                                                         *)
(* There are three threads: the io_context's, which runs the handlers of   *)
(* the socket and of two timers, and PortAudio's callbacks for capture and *)
(* playback.  The threads meet in input_buffer_ and output_buffer_ only.   *)
(* Each handler and each callback uses one of them, once, under its mutex, *)
(* so that each is one step.                                               *)
(*                                                                         *)
(* Datagrams come from the server alone, and are known by the order in     *)
(* which they arrive, whatever the network did to them; captured blocks of *)
(* samples are known by their order too.  How a datagram is fitted to the  *)
(* block it is played in, and smoothed, is left out.                       *)
(***************************************************************************)
EXTENDS Naturals, Sequences, SequencesExt

CONSTANTS
    MaxBufferSize,   \* MAX_BUFFER_SIZE of AudioManager
    MaxDatagram,     \* blocks that fit a datagram, beyond which sending fails
    MaxReceived,     \* bound: datagrams received
    MaxCaptured,     \* bound: blocks captured
    Freed            \* what lies in the memory of a packet that is gone

ASSUME PlaybackAssumption == MaxBufferSize \in Nat \ {0}
ASSUME ClientBoundsAssumption ==
    MaxDatagram \in Nat \ {0} /\ MaxReceived \in Nat /\ MaxCaptured \in Nat

VARIABLES
    timers,          \* send_timer_ and jitter_buffer_timer_
    jitter_buffer,   \* jitter_buffer_: datagrams, oldest first
    output_buffer,   \* output_buffer_: datagrams to play, oldest first
    input_buffer,    \* input_buffer_: blocks captured and not fetched
    deferred,        \* packets whose send the socket has put off
    received,        \* history: datagrams received so far
    played,          \* history: the datagrams played
    captured,        \* history: blocks captured so far
    fetched,         \* history: the packets getInputData returned
    datagrams        \* history: what has come of the sends, in order

playback == <<jitter_buffer, output_buffer, received, played>>
capture  == <<input_buffer, deferred, captured, fetched, datagrams>>
vars     == <<timers, playback, capture>>

Timers == {"send", "jitter"}

Init ==
    /\ timers = [t \in Timers |-> "waiting"]
    /\ jitter_buffer = << >> /\ output_buffer = << >> /\ input_buffer = << >>
    /\ deferred = << >>
    /\ received = 0 /\ played = << >>
    /\ captured = 0 /\ fetched = << >>
    /\ datagrams = << >>

\* A wait ends, and its handler is queued.
TimerExpires(t) ==
    /\ timers[t] = "waiting"
    /\ timers' = [timers EXCEPT ![t] = "queued"]
    /\ UNCHANGED <<playback, capture>>

-----------------------------------------------------------------------------
(* From the network to the loudspeaker. *)

\* start_receive: the size of the jitter buffer has no limit.
Receive ==
    /\ received < MaxReceived
    /\ received' = received + 1
    /\ jitter_buffer' = Append(jitter_buffer, received')
    /\ UNCHANGED <<timers, output_buffer, played, capture>>

\* Defects considered: the queue has no limit; the newest packet is dropped.
addOutputDataUnlimited(packet) == output_buffer' = Append(output_buffer, packet)
addOutputDataOrNot(packet) ==
    output_buffer' = IF Len(output_buffer) < MaxBufferSize
                     THEN Append(output_buffer, packet) ELSE output_buffer

addOutputData(packet) ==
    LET longer == Append(output_buffer, packet)
    IN  output_buffer' = IF Len(longer) > MaxBufferSize THEN Tail(longer) ELSE longer

\* Defect considered: the timer is re-armed only when there was something.
JitterTimerWhileBusy ==
    /\ timers["jitter"] = "queued"
    /\ IF jitter_buffer # << >>
       THEN /\ addOutputData(Head(jitter_buffer))
            /\ jitter_buffer' = Tail(jitter_buffer)
            /\ timers' = [timers EXCEPT !["jitter"] = "waiting"]
       ELSE /\ UNCHANGED <<output_buffer, jitter_buffer>>
            /\ timers' = [timers EXCEPT !["jitter"] = "stopped"]
    /\ UNCHANGED <<received, played, capture>>

\* The handler of start_jitter_buffer: one packet, if there is one, to playback.
JitterTimer ==
    /\ timers["jitter"] = "queued"
    /\ IF jitter_buffer # << >>
       THEN addOutputData(Head(jitter_buffer)) /\ jitter_buffer' = Tail(jitter_buffer)
       ELSE UNCHANGED <<output_buffer, jitter_buffer>>
    /\ timers' = [timers EXCEPT !["jitter"] = "waiting"]
    /\ UNCHANGED <<received, played, capture>>

\* Defect considered: the packet that was played stays at the front.
OutputCallbackKeeps ==
    /\ output_buffer # << >>
    /\ Len(played) < MaxReceived
    /\ played' = Append(played, Head(output_buffer))
    /\ UNCHANGED <<timers, jitter_buffer, output_buffer, received, capture>>

\* outputCallback, when it has something to play; otherwise it plays silence.
OutputCallback ==
    /\ output_buffer # << >>
    /\ played' = Append(played, Head(output_buffer))
    /\ output_buffer' = Tail(output_buffer)
    /\ UNCHANGED <<timers, jitter_buffer, received, capture>>

-----------------------------------------------------------------------------
(* From the microphone to the network. *)

InputCallback ==
    /\ captured < MaxCaptured
    /\ captured' = captured + 1
    /\ input_buffer' = Append(input_buffer, captured')
    /\ UNCHANGED <<timers, playback, deferred, fetched, datagrams>>

\* Defect considered: what was returned stays in the buffer.
getInputDataAgain ==
    /\ fetched' = IF input_buffer = << >> \/ Len(fetched) = MaxCaptured
                  THEN fetched ELSE Append(fetched, input_buffer)
    /\ UNCHANGED input_buffer

getInputData ==
    /\ fetched' = IF input_buffer = << >> THEN fetched ELSE Append(fetched, input_buffer)
    /\ input_buffer' = << >>

\* A send may fail, and does if the packet does not fit a datagram: the error is
\* logged and the packet is lost.  The others send what the packet's memory holds.
NotSent == << >>
Outcomes(packet, contents) ==
    {NotSent} \cup {content \in contents : Len(packet) <= MaxDatagram}

\* async_send_to: sends at once if the socket is ready and has put nothing off,
\* else keeps a pointer to the packet, a local variable of the timer's handler.
send(packet) ==
    \/ /\ deferred = << >>
       /\ \E content \in Outcomes(packet, {packet}) : datagrams' = Append(datagrams, content)
       /\ UNCHANGED deferred
    \/ deferred' = Append(deferred, packet) /\ UNCHANGED datagrams

\* Defect considered: the timer is re-armed only when there was something.
SendTimerWhileTalking ==
    /\ timers["send"] = "queued"
    /\ getInputData
    /\ IF input_buffer # << >> THEN send(input_buffer) ELSE UNCHANGED <<deferred, datagrams>>
    /\ timers' = [timers EXCEPT !["send"] = IF input_buffer # << >> THEN "waiting" ELSE "stopped"]
    /\ UNCHANGED <<playback, captured>>

\* The handler of start_send: all that was captured goes out as one packet.
SendTimer ==
    /\ timers["send"] = "queued"
    /\ getInputData
    /\ IF input_buffer # << >> THEN send(input_buffer) ELSE UNCHANGED <<deferred, datagrams>>
    /\ timers' = [timers EXCEPT !["send"] = "waiting"]
    /\ UNCHANGED <<playback, captured>>

\* The reactor sends what was put off, or fails to.  The memory may hold anything
\* by now.
SendDeferred ==
    /\ deferred # << >>
    /\ \E content \in Outcomes(Head(deferred), {Head(deferred), <<Freed>>}) :
          datagrams' = Append(datagrams, content)
    /\ deferred' = Tail(deferred)
    /\ UNCHANGED <<timers, playback, input_buffer, captured, fetched>>

-----------------------------------------------------------------------------
Next ==
    \/ \E t \in Timers : TimerExpires(t)
    \/ Receive \/ JitterTimer \/ OutputCallback
    \/ InputCallback \/ SendTimer \/ SendDeferred

\* Waits end, the io_context runs the handlers that are queued, PortAudio goes
\* on calling for audio to play, and the socket becomes ready again.
Fairness ==
    /\ \A t \in Timers : WF_vars(TimerExpires(t))
    /\ WF_vars(JitterTimer) /\ WF_vars(SendTimer)
    /\ WF_vars(OutputCallback)
    /\ WF_vars(SendDeferred)

Spec == Init /\ [][Next]_vars /\ Fairness

-----------------------------------------------------------------------------
\* What getInputData returns.
Packets == Seq(1..MaxCaptured)

\* Every variable keeps its type; the playback queue keeps within its limit.
TypeOK ==
    /\ timers \in [Timers -> {"waiting", "queued"}]
    /\ received \in 0..MaxReceived /\ captured \in 0..MaxCaptured
    /\ jitter_buffer \in Seq(1..MaxReceived) /\ played \in Seq(1..MaxReceived)
    /\ output_buffer \in Seq(1..MaxReceived) /\ Len(output_buffer) <= MaxBufferSize
    /\ input_buffer \in Packets
    /\ fetched \in Seq(Packets) /\ deferred \in Seq(Packets)
    /\ datagrams \in Seq(Packets \cup {<<Freed>>})

\* Datagrams go through the three stages in the order of their arrival: what was
\* played, what waits to be played and what waits in the jitter buffer is one
\* increasing sequence, so that none is played twice or after a later one.
PlayedInOrder ==
    LET all == played \o output_buffer \o jitter_buffer
    IN  \A i, j \in 1..Len(all) : i < j => all[i] < all[j]

\* A datagram that was neither played nor waits was pushed out of the playback
\* queue: at least MAX_BUFFER_SIZE later ones were handed to it.
PlaybackAccounted ==
    \A n \in 1..received :
        \/ n \in ToSet(played \o output_buffer \o jitter_buffer)
        \/ n + MaxBufferSize <= received - Len(jitter_buffer)

\* The last block in the first k packets of those that were fetched.
EndOf(packets, k) == IF k = 0 THEN 0 ELSE Last(packets[k])

\* Every captured block is fetched once and in order, or waits to be: each packet
\* goes on where the one before it ended, and what waits where the last one did.
FetchedInOrder ==
    /\ \A k \in 1..Len(fetched) :
          /\ fetched[k] # << >>
          /\ \A i \in 1..Len(fetched[k]) : fetched[k][i] = EndOf(fetched, k - 1) + i
    /\ \A i \in 1..Len(input_buffer) : input_buffer[i] = EndOf(fetched, Len(fetched)) + i
    /\ captured = EndOf(fetched, Len(fetched)) + Len(input_buffer)

\* Every packet that was fetched is handed to the socket once, and the sends end in
\* that order: with the packet or what has become of its memory, if it fits a
\* datagram, or with an error.  Those put off are the last packets, in order.
SentInOrder ==
    /\ Len(datagrams) + Len(deferred) = Len(fetched)
    /\ \A k \in 1..Len(datagrams) :
          \/ datagrams[k] = NotSent
          \/ datagrams[k] \in {fetched[k], <<Freed>>} /\ Len(fetched[k]) <= MaxDatagram
    /\ \A k \in 1..Len(deferred) : deferred[k] = fetched[Len(datagrams) + k]

\* Nothing that was captured is lost, doubled or overtaken on its way to the socket,
\* between the callback that adds blocks and the handler that takes them all, nor
\* in the socket, unless the send of its packet fails.
CaptureAccounted == FetchedInOrder /\ SentInOrder

\* What arrives is played, unless it is pushed out of the playback queue.
ArrivalsArePlayed ==
    \A n \in 1..MaxReceived :
        (received >= n) ~> \/ n \in ToSet(played)
                           \/ n + MaxBufferSize <= received - Len(jitter_buffer)

\* What is captured is fetched, and what is put off is sent or fails to be: no
\* handler stops the loop that the next block depends on.
CapturesGoOut ==
    \A n \in 1..MaxCaptured :
        /\ (captured >= n) ~> (n \notin ToSet(input_buffer))
        /\ (Len(datagrams) + Len(deferred) >= n) ~> (Len(datagrams) >= n)

=============================================================================
