# VoiceServer in TLA+

TLA+ specifications of VoiceServer, a C++ voice conference over UDP and
WebSocket, with the TLC models that check them on small instances and TLAPS
proofs for every instance. Paths are relative to the repository; the programs'
own code is under `src/`, the vendored libraries under `external/`.

## 1. The system

`voice_server` keeps one conference room. UDP senders become members with their
first datagram, WebSocket connections when they are accepted. Members hand in
packets of 16-bit samples. Every 20 ms the room mixes, for each member, what all
the *others* have handed in since the last mix, and sends it the result.

| Component | State | Operations | Interacts with |
|---|---|---|---|
| **RoomManager** `server/RoomManager.h` | members, a bounded queue of packets per sender, time of the last packet per sender, one timer | `addClient`, `removeClient`, `getClient`, `processAudio`; the timer's handler (`mixAndSendAudio`, re-arm) | called by the handlers of `voice_server`; calls `AudioMixer::mix` and `Client::send` under its mutex |
| **AudioMixer** `server/AudioMixer.h`, `common/AudioPacket.h` | none | `mix` | called by RoomManager |
| **WebSocketSession** `common/WebSocketSession.h` | socket, request buffer, read buffer, queue of frames to write | `start` (handshake, then reads for ever), `send`, handlers of reads and writes; frame encoder and parser | `on_message_` into the server; `send` called by the room |
| **WebSocketServer** `common/WebSocketServer.h` | acceptor, list of sessions | accept loop, `broadcast` (no caller) | constructs sessions, calls the new-client and message handlers |
| **voice_server** `server/main_server.cpp`, `Client.h`, `Connection.h` | UDP socket, receive buffer | `start_receive`/`handle_receive`, `add_websocket_user`, `handle_receive_websocket`; `UDPClient::send`, `WebSocketClient::send`, `Connection::send` | wires the above together |
| **AsioThreadPool** `common/AsioThreadPool.h` | io_context and its threads | `run`, `stop` | one thread in `voice_server`, one per core in the echo server |
| **echo server** `websocket/basic_text/main.cpp` | none of its own | echoes each message | WebSocketServer on all cores |
| **AsyncLogger** `common/Logger.h`, `Logger.cpp` | queue of entries, destinations, context, stop flag | `log`, `addDestination`, writer thread, destructor | not called by any program |
| **VoiceChatClient** `client/*.h` | jitter buffer, capture buffer, playback queue | network loops (receive, send, jitter timer), PortAudio callbacks | UDP to `voice_server` |
| **browser client** `websocket/voice_client/*` | jitter buffer, worklet ring buffers | connect, start and stop audio, interval timer | WebSocket to `voice_server` |
| **BinaryData, Utilities, Config** `common/*` | none | serialisation; UUID, base64; settings | BinaryData has no user |

### What is hard, and what makes each component correct

* **Room.** Several time scales meet: packets arrive at any time, a timer mixes,
  an activity record ages. The timer is started by one call only (the first
  member's) and otherwise lives by re-arming itself. Correct means: the timer is
  never lost and never doubled; a queue keeps the newest packets; what is cleared
  is what was sent; nothing is heard twice, out of order or by its own sender;
  and a packet is lost only for one of the documented reasons.
* **Session.** Two kinds of writes (the answer to the handshake, the frames)
  share a socket, and the second is chained through a queue by completion
  handlers. Correct means: each frame goes out once, whole, in order; the chain
  never stops while frames wait.
* **Wiring.** A session is a member before it is open; a UDP sender must be
  added before it is heard; datagrams may be put off by the socket. Correct
  means: the room and the sessions are used within their assumptions.
* **Reads.** TCP divides and joins the peer's frames as it likes, and a session
  takes each read for one frame. Correct means: whatever the division, no message
  is handed on twice or out of order, and all are if each read is one frame.
* **Mixing, frames, messages, base64.** Pure functions with numeric edges, some of
  which depend on the machine.
* **Logger.** Three mutexes, a condition variable and a destructor. Correct means:
  no wake-up is lost, entries do not overtake each other between the two mutexes
  they pass, and the destructor returns when all is written.
* **Echo server, native client.** Real threads (io_context on all cores, PortAudio
  callbacks) and timers that drain buffers.

`PROJECT.json` lists every component and, under `hazards`, each of these
dangers at its line.

## 2. The modules

| Module | Models | Depends on |
|---|---|---|
| `Conference` | abstract: what a room promises | |
| `RoomManager` | the room | instantiates `Conference` |
| `WebSocketSession` | handshake and write queue of sessions | |
| `WebSocketServer` | what sessions read, the echo handler, `broadcast` | extends `WebSocketSession` |
| `EchoPool` | the echo server's write queue on several threads | |
| `VoiceServer` | `voice_server`: acceptor, UDP socket, wiring | instantiates `RoomManager` and `WebSocketSession` |
| `AudioMixer` | `mix()`, loop by loop | |
| `WebSocketFrame` | encoding and parsing of frames | |
| `BinaryData` | messages as bytes, character by character, on machines of either byte order and either `char` | |
| `Base64` | `to_base_64` and `from_base64`, loop by loop | |
| `Log` | abstract: what a logger promises | |
| `AsyncLogger` | the logger: callers, its thread, its destructor | instantiates `Log` |
| `VoiceChatClient` | the native client: jitter buffer, playback queue, capture buffer, timers | |
| `MCFunctions` | mixing, frames, messages and base64, one run for all of them | extends the four |
| other `MC*` | constants and symmetry for TLC | extend the above |
| `*Proofs` | proofs about the room, sessions, the echoing server, `voice_server`, the native client, the logger and mixing; in `CodecProofs` about frames, messages and base64 | extend the above and `TLAPS` |

Definitions keep the source's names where they can; the `map` of `PROJECT.json`
gives the lines each one stands for. An operator introduced as a *defect
considered* is not part of the model: it is what the definition after it would
be with a plausible mistake in it, and each property has been seen to fail when
one of them takes that definition's place.

### RoomManager and Conference

`clients`, `audioBuffers` and `lastActivity` are the three maps of the class.
Their domains matter: the code asks `find`, `operator[]` and `erase` of them
separately, and `removeClient` leaves an activity record behind. `timer` says
whether a wait is outstanding and `ready` how many expired waits have a handler
queued on the strand; setting the expiry anew cancels only the former.
`lastActivity` holds ages in ticks where the code holds time points. `received`,
`sentTo` and `sinceMix` are history.

Each operation is one step: `AddClient`, `RemoveClient`, `ProcessAudio`,
`AddAndProcess` (both calls from one UDP handler), `TimerExpires`, `MixingTimer`
(the handler: all of `mixAndSendAudio`, then re-arm) and `ClockTick`. That is
what the code does: the public operations hold `mutex_`, and there is one thread
(`server/main_server.cpp:84`).

There are two specifications. `Spec` lets any caller do anything. `ServedSpec` is
the room as `voice_server` drives it: nobody calls `removeClient` and no key is
added twice, with weak fairness.

`Conference` knows nothing of queues, timers and ages: utterances are pending or
have been heard, and a delivery brings *everything* pending to *every other*
member, unless it is overdue. `RoomManager` implements it under the mapping
`members <- clients`, `pending <- ` what waits in the queues, `heard <- ` the
unions of the mixes sent, `overdue <- ` the last mix is further back than the
timeout (`Promise` in `RoomManager`).

### WebSocketSession

`phase` follows the handlers of the handshake; `write_queue` is the queue of the
class; `writes` is the progress of the two composed write operations, each of
which hands two pieces to the socket and then waits for its handler to run, so
that pieces of the two may alternate on `wire` and other handlers may run in
between. A socket may take pieces after the peer has gone, and an operation may
then fail. A frame whose write failed stays at the front for ever, as in the
code. `Send` acts on a set of sessions because one mix is sent to all members in
one handler.

### WebSocketServer and EchoPool

`WebSocketServer` adds to the sessions what they read. A peer's frame is three
stretches of bytes: its head, its body (after which at most a mask's length is
missing, so that `handle_frame` lets the frame pass), and the rest. A `Read` takes
any number of stretches from the front of the stream. If the first is a head, the
message is handed on whole, damaged, or not at all, by how many there are; bytes
behind the first frame are dropped; and a read that begins amid a frame takes its
bytes for a header, with either result. `lucky` tells the behaviours in which each
read is one frame. Messages are echoed by the handler of
`websocket/basic_text/main.cpp`, and `broadcast` sends to every session ever
accepted at any time. Bytes that arrive with the handshake request stay unread,
which a peer that waits for the answer, as browsers do, never meets.

`EchoPool` is the same handler on the pool it is really run with: one thread per
processor and no strand, so that `send()` and the handler of a write may use
`write_queue_` at once. That is a data race; the module is its mildest outcome, in
which each call of a member of the deque is atomic, and says nothing of what
follows a `pop_front` of an empty deque.

### VoiceServer

The composition: each action is a whole handler and calls the actions of the
two instances. `Accept` adds to the room, then starts the session. `HandleReceive`
adds an unknown sender, then stores its packet. `MixingTimer` is the room's handler
with `send` of every receiver: sessions queue a frame, datagrams go out at once
or are put off (`SendDatagrams`). A datagram that was put off is sent later, from
memory that was freed when the handler returned (`SendDeferred`). Any send may fail,
at once or later: the handler logs the error (`Connection.h:22-25`) and the mix is
lost. One cause is a mix of more than 65507 bytes, which a WebSocket member can
bring about and which then fails always; sizes are not modelled here, so that the
failure is left to chance. `datagrams` is therefore not what a peer has been sent
but what has come of each send, in order: a mix, freed memory, or `NotSent`.

The sessions' `sent` is not a variable here: it is the number of mixes the member
was given, so that the n-th frame *is* the n-th mix.

### AudioMixer, WebSocketFrame, BinaryData and Base64

Algorithms without state between two calls, checked by behaviours that enumerate
their inputs: packets handed in one by one, frames composed and then read whole or
short of a few bytes, messages written on one machine and read, whole or in part,
on another, digits added one by one. `MCFunctions` tries the inputs of one of the
four in each behaviour.

Mixing: `HandIn` is the caller's loop that fills `packetsToMix`; `Measure`, `Add` and
`Normalize` are the three loops of `mix()`, one packet at a time for the first two,
over `mixBuffer` and `sampleCounts`, which the code keeps under the same names.
The ranges of a sample and of a sum are `HalfRange` and `MaxSum`, 2^15 and 2^31 - 1
in the code.

Frames: bytes of headers and sizes are exact, up to the eight bytes of a size_t;
payload contents are not represented. One read returns at most the 65536 bytes of
`read_buffer_`: a frame beyond never arrives in one, so that `handle_frame` reads its
header and then refuses it. `RoundTrip` therefore has two parts. The header, once it
has arrived, tells the size that was sent, in all three encodings and at both borders;
and a frame that has arrived whole, as one of up to 65528 bytes with a mask may, is
handed on as it was sent.

Messages: `serialize` chooses a message and the machine that writes it,
`WriteCharacter` is one turn of the loop of `string_to_bytes`, and `Assemble` puts the
type and the length before its result. `Receive` gives a machine some of the bytes,
and `ReadCharacter` and `ReadInvalid` are the turns of the loop of
`read_string_from_bytes`. `starts`, where each character's bytes begin, is history. A
machine has a byte order and a `char` that is signed or not. A negative `char` becomes
a `char32_t` over 0xFFFFFF00, which is written as bytes that are no character to any
reader, and a machine that is not little-endian turns bytes round twice when it reads
and once when it writes. `TextsSurvive` says which pairs of machines understand each
other all the same, `NothingIsMadeUp` that no reader is led beyond the bytes it has.
Neither says anything of the integers that a big-endian machine reads: see section 5.

Base64: `EncodeByte` and `EncodeSymbol` are the two nested loops of `to_base_64`,
`EncodeRest` and `AddPad` what follows them; `DecodeSymbol` is a turn of the loop of
`from_base64`, `PassOver` a turn that meets a character of no meaning, which may happen
anywhere. Both functions shift everything into `val` and look at twelve bits of it at
most; 16 are kept, so that what is cut off shows if anything needs it. The reference is
the definition of RFC 4648, symbol by symbol, with no loop.

### AsyncLogger and Log

What a thread does under `m_queueMutex` or `m_contextMutex` is one step; writing is
one step per destination, with `m_destinationsMutex` held throughout, which
`addDestination` waits for. A call of `log()` is three steps: the entry is made,
queued, and announced. A notification that nobody waits for is lost, a wait may
end for no reason, and the thread tests its predicate before it sleeps, in one
step with falling asleep, as `wait` on a held mutex does. Whether the level or the
filter lets a call pass is left open. `queued`, `written` and `missed` are history;
`missed` is how many entries had been written when a destination was added, and is
set by `addDestination` alone. A destination stands for a
registration: adding one object twice, which the code allows, is two of them.

`Log` knows one sequence of accepted entries and how far each registered
destination is in it. `AsyncLogger` implements it with `accepted <- queued`,
`shown <- written`, and `place <-` what has been taken out of the queue, less one
for an entry the destination is still to be given (`Promise` in `AsyncLogger`).

### VoiceChatClient

Three threads: the io_context's, with the handlers of the socket and of two
timers, and PortAudio's two callbacks. They meet in `input_buffer_` and
`output_buffer_` only, and each handler or callback uses one of these once, under
its mutex, so that each is one step. `Receive`, `JitterTimer` and `OutputCallback`
carry datagrams to the loudspeaker; `InputCallback`, `SendTimer` and
`SendDeferred` carry captured blocks to the network. A packet that was put off
lies in memory that is freed, and a send may fail, as in the server; one of more than
`MaxDatagram` blocks always does. `datagrams` is what has come of each send, in order,
and `CaptureAccounted` allows for these outcomes and no other.
Datagrams are numbered as they arrive, which abstracts whatever the network does to
them: the client has nothing to tell by. How a datagram is fitted to a block and smoothed, and the opening and closing of streams, are left out.

## 3. What TLC checks

| Run | Question | Instance | Result |
|---|---|---|---|
| `room_safety` | types; queues hold the newest; timer alive; waiting audio is younger than the last mix; heard in order; losses accounted; implements `Conference` | `Spec`; 2 clients, queue of 2, timeout 1 tick, 3 packets each, 2 overlapping loops | holds, 379,029 states |
| `room_live` | mixes for ever; what is said is heard; silence is forgotten; keeps delivering | `ServedSpec`, same sizes, 1 loop | holds |
| `room_inactive` | does the clean-up remove inactive clients? | `ServedSpec`, 1 packet | **no**, see 5 |
| `echo` | types; frames in order; writer awake; nothing forgotten; echoes keep their order; a lucky peer gets them all | 1 session, 3 messages, 2 broadcasts, any division of the stream | holds, 273,476 states |
| `echo_pool` | does a peer get its messages back from the pool? | 2 threads, 3 messages | **no**, see 5 |
| `server` | types; one mixing loop; only members speak; both transports carry the mixes in order, whichever sends fail; the server implements `ServedSpec` of the room and `Spec` of the sessions, fairness included; audio gets onto the wire | 1 session, 1 UDP sender, 2 packets each, queue of 1, timeout 0 | holds, 172,380 states |
| `server_writes` | one write operation at a time on a socket? | 1 session, 1 UDP sender | **no**, see 5 |
| `server_datagrams` | is what a datagram carries, if it goes out, the mix? | same | **no**, see 5 |
| `functions` | mixes never clip, sums fit and tails keep their level; headers tell sizes, whole frames come back, and parts are refused up to the mask; texts survive, and nothing is made up; base64 is exact | 3 packets of up to 2 samples of 4 bits, sums up to 24; all opcodes, sizes around 125, 126, 256, 65535, the read buffer and 100 MB; texts of 2 characters; 6 hexadecimal digits, 1 character between those of base64 | holds, 236,478 states |
| `frame_payload` | has a payload that is handed on arrived? | same sizes | **no**, see 5 |
| `logger` | types; each destination holds exactly the entries due to it, in order; it holds all when the thread has ended; implements `Log`, fairness included | 2 callers, 2 destinations, 2 calls each, 1 change of context | holds, 399,656 states |
| `client` | played in order; no datagram or block lost but for a reason; both directions keep going | 4 datagrams, 4 blocks, playback queue of 2, datagrams of 2 blocks | holds, 87,584 states |

**Why the bounds are enough.** Three packets against a queue of two give the full
queue, the overflow and a mix in between. Ages stop one tick past the timeout,
since the code only compares. Two expired waits show overlapping mixing loops,
which appear when a member is added again or after the last one left. The proofs
of section 4 cover all sizes of the room, the sessions and the logger; the run of
the server rests on the room's and the sessions' by refinement. Three messages
are nine stretches of bytes, of which reads make every kind of piece: a head alone,
a frame but for its rest, two frames at once, the end of one with the start of the
next; with two broadcasts in between, a session's queue meets its write in every
relation. `MaxSends` is never reached: each message is echoed at most once per
stretch. Two threads are the fewest that can race, and with one thread
`EveryMessageIsEchoed` of `EchoPool` holds. Two callers and two destinations show
entries that are queued while others are written and a destination added between
an entry's two mutexes. Four datagrams against a playback queue of two reach the
overflow with some played before and after it, and four blocks against a datagram
of two the packet that is too big to send. The
sizes of frames lie on both sides of each border between two encodings. Four-bit
samples have the asymmetric range, the odd and even sums and the clipping border of
16-bit ones, and 24 is the least bound of a sum that has room for three of them. The characters
tried are those at the borders of one and two bytes of UTF-8 and of a signed
`char`. Symmetry (clients are interchangeable) is used in `room_safety` only, which
has no liveness property. `echo`, `echo_pool`, `functions` and `logger` may stop (all
messages sent, all inputs tried, the logger destroyed) and switch the deadlock check
off; all others keep it.

**Fairness, and why the code justifies it.** The one thread of the io_context
runs every handler that is queued (`AsioThreadPool::run`): weak fairness of
`MixingTimer` and `FrameWritten`. A steady timer whose expiry is not moved ends:
weak fairness of `TimerExpires`; in the server the expiry is never moved, since
`startMixingTimer` is called by `addClient` only once (`OneMixingLoop`), which is
why `Spec` of the room, where it can be moved for ever, has none. Clocks advance:
`ClockTick`. A peer that stays reads what it is sent: `Transmit` while the peer is
up. Nothing is assumed of peers otherwise: connecting, sending, answering and
leaving are never forced. In the client, the timers end, the io_context runs
their handlers, PortAudio goes on calling for audio to play, and a socket that has
put a packet off becomes ready again; arriving datagrams and captured blocks are
never forced. `PartsServed` shows that the fairness assumed for room and sessions
alone is implied by the server's. In the echoing server, bytes that have arrived are
read (`Read`): `do_read` begins the next read in the handler of the last. On the
pool each kind of handler that is queued is run in the end. In the logger, threads
that can go on do, `write()` of a destination returns, and a held mutex is given to
those that wait; nobody has to log, the destructor need not be called, and no wait
is assumed to end for no reason, so that lost wake-ups would show.

## 4. What is proved

All theorems hold for every value of the constants under the named assumptions:
`MaxBufferSize` positive, the timeout and bounds natural numbers, sessions and UDP
keys disjoint and finitely many (server), "damaged" and "news" no messages of a
peer's (echoes), "no entry" no entry (logger), payload sizes that a size_t holds
(frames), types that a short holds, characters that are bytes and texts whose length in
UTF-8 a uint32_t holds (messages), digits that are hexadecimal (base64), and samples in
their range with a sum that has room for one sample of each packet of a mix (mixer: with
16 and 32 bits, 65535 packets).

*Room, any caller* (`RoomManagerProofs`):

* `TypeCorrect`, `TimerNeverLost`, `AudioStaysYoung`. `TimerAlive` is inductive
  alone; the age bound needs the types, because ages saturate.
* `NewestAreKept`: a queue is the segment of its sender's numbers that ends with
  the last one received. Inductive with the types.
* `NothingHeardTwice`: `HeardInOrder` is not inductive, as it does not relate
  what was sent to what waits. `OrderInv` adds `SentBeforeQueued` (everything sent
  is older than everything of the same sender that is queued), whose preservation
  by a mix needs the segment shape of the queues.
* `NothingLostWithoutReason`: the action property `LossAccounted`, from
  `TypeOK`, `QueuesHoldTheNewest` and `WaitingAudioIsYoung`; the last one is what
  makes "the mixing is late" the only excuse of the activity check.
* `MixesAreFew`: if clients are finitely many, a member is sent at most as many mixes
  as there are packets, however often the timer goes off. `MixesHaveAudio`, that no
  mix is empty, is inductive with the types; with `HeardInOrder`, an element chosen
  of each mix names no other mix, and there are no more names than packets.
* `RoomImplementsConference`: step simulation of `Conference`, with the same
  invariants.

*Session, any caller of `send`* (`WebSocketSessionProofs`):

* `SessionTypeCorrect`, with the fact that whatever is being written is at the
  front of the queue: the operation keeps no copy of the bytes.
* `WriterNeverSleeps`: `WriterAwake` is inductive with the types.
* `NothingIsForgotten`: the queue, index by index, holds the last messages sent.
* `FramesGoOutInOrder`: `FramesInOrder` speaks of the wire alone and is not
  inductive. `OrderInv` says which pieces must be on the wire, given how many
  frames have left the queue and how far the write has come: exactly the first
  `m` pieces of all frames, each once, in order. `NextPiece` and `OtherPiece` are
  the two ways the wire grows.

*Server* (`VoiceServerProofs`):

* `OneLoop`: there is at most one mixing loop. Inductive with the facts that an
  accepted session never returns to not being accepted and that an empty room
  has no timer.
* `MembersOnly`: a session is heard only when it is open, which nothing says is
  after it joined. `SpeakersInv` adds that an accepted session is a member, and that
  one not accepted has no answer under way, whose handler would open it.
* `DatagramsKeepOrder`: `Follows` relates the sends that have ended, those put off and
  the mixes, for one peer; `SentAtOnce`, `PutOff` and `SentLate` are the three ways they
  change, the first only when nothing is put off; the first and the last may be
  failures. Each mix is thus handed to the socket once, and a mix that is lost is one
  whose send has failed, at its place between the others. That mixes are sets of packets
  comes from the room's theorem.
* `ServerTypeCorrect` and `StreamsCarryMixes`: every handler is a step of the sessions
  or leaves them alone (`SessionStep`), because `send` is called for members only and
  members have been accepted. That makes the sessions' invariants hold here
  (`SessionsSound`): what they say of the n-th message sent is said of the n-th mix.
  The sessions' bound of messages is no bound of the server: `MixesAreFew` shows
  that it is never reached.
* `PartsUsedAsExpected`: the server adds each key to its room once and hears it only
  then, and uses its sessions as their specification allows. It is the safety half
  of `PartsServed`; the fairness in the other half is TLC's.
* `ServerImplementsRoom`: every handler is an operation of the room or leaves it
  alone. By it the room's theorems hold in the server, as `ServerHeardInOrder`
  shows for `HeardInOrder`.

*Echoing server* (`WebSocketServerProofs`):

* `ServerUsesSessions`: every handler is a step of `WebSocketSession` or leaves it
  alone, from which `ServerFramesInOrder` and `ServerWriterAwake`.
* `EchoesInOrder`: `EchoesKeepOrder` does not speak of what is still to be read and
  is not inductive. `EchoInv` numbers the stretches of the stream: `inbound` is its
  end (`Stream`), a message may be echoed only when its three stretches have been
  read (`InOrder`), and with luck what was read is a whole number of messages, all
  of them echoed (`AllEchoed`). `NextWord` and `OtherWords` are the two ways a
  session's content grows.

*Native client, both ways* (`VoiceChatClientProofs`):

* `ClientTypeCorrect`, with the limit of the playback queue.
* `ClientPlaysInOrder` and `ClientLosesOnlyToNewer`: neither property is inductive,
  as each allows gaps anywhere. `PInv` says that the jitter buffer and the playback
  queue each hold a stretch of the datagrams' numbers, without a gap between them
  (`Stretches`), so that gaps arise in one place only, when a full playback queue
  drops its oldest packet (`PlayedOrPushedOut`). `AddPlayback` is that step.
* `ClientSendsWhatItCaptures`: the blocks in the packets fetched and in the buffer are
  one stretch (`FetchedInOrder`), and `Sent` relates the sends that have ended and those
  put off to the packets fetched. `SentAtOnce`, `PutOff` and `SentLate` are the ways
  these change: a send ends with the packet, with what has become of its memory or
  with an error (`Ends`), and always at that packet's place.

*Logger* (`AsyncLoggerProofs`):

* `LoggerTypeCorrect`, inductive alone.
* `LoggerWritesInOrder` and `LoggerDrains`: `OInv` says that the queue, the entry in
  the thread's hands and what each destination was given are the history of the
  queue cut at one point (`QueueIsTheRest`, `EntryIsTheLast`, `Stretch`). What a
  destination was given is thereby known entry by entry: those of the history from the
  first it did not miss to its place. At the end its place is the end of the history
  (`AllPlacesAtEnd`), so that it has all of them. It needs
  that a destination stands in the list once (`EachOnce`): otherwise it would be
  given an entry twice. `QuietAtEnd` is the destructor's protocol: nobody logs after
  it was called, so that an empty queue stays empty.
* `LoggerImplementsLog`: step simulation of `Log` with `OInv`, for the safety part.

*Mixer* (`AudioMixerProofs`):

* `MixesKeepTheirLevels`, for packets of any number and length and samples of any
  width. What it says of the packet that `mix()` returns is not inductive: `MixInv`
  follows the loops. After so many packets the sum at a place is at most as loud as
  the count there allows (`Bounded`), so that an average is as loud as one sample
  (`AverageBounded`) and half of it is never clipped (`HalfFits`); and where one
  packet only has been added, sum and count are that packet's sample and one
  (`Alone`).

*Frames* (`CodecProofs`):

* `FramesComeBack` and `PartsAreRefused`, for every size that a size_t holds and every
  part of a frame that a read may return. The bytes of a size give it back
  (`SizeComesBack`); a parser that has the header therefore knows the frame
  (`FrameIsKnown`), and one that has less refuses it, though the zeros in its buffer
  look like the header of a shorter frame. What passes the tests is therefore handed on
  as it was sent (`HandedOnAsSent`), and a whole frame passes them (`WholeFrame`).

*Messages* (`CodecProofs`, texts of any length):

* `TextsComeThrough` and `NothingInvented`. The properties speak of the moment when a
  message has been read. `MessageInv` follows both loops: the bytes so far are those
  of the characters so far, each at its place (`TextWritten`), they lie behind the type
  and the length (`DataWritten`), and the reading loop has read the characters it
  has passed and stands at the start of the next (`TextRead`). A little-endian
  machine gets its integers back (`TypeTold`, `EndTold`); on a big-endian one a length
  is the same or too long, which holds below 64 KB; and the bytes of a character give it
  back, or begin with one that no character begins with (`CharactersAsBytes`).
  `NextCharacter` joins these into one turn of the reading loop.

*Base64* (`CodecProofs`, inputs of any length):

* `Base64Exact`. `Base64Inv` says what `val` and `val_b` are between two turns of the
  loops: `val` is the last two bytes in `to_base_64` (`Encoding`) and ends with the last
  two symbols in `from_base64` (`Decoding`), and `val_b` is how many of its bits are
  still to be used. From these, `NewSymbol` and `LastSymbol` make the next symbol of
  the reference, and `NewByte` the next byte of the input; six-bit and eight-bit
  pieces meet in `SixBits` and `ThirdByte` and their like. With the loops as steps the
  induction is that over behaviours.

Only model-checked, and why: everything about liveness and fairness, which is out
of the prover's reach. `EchoPool` has no theorem, since its one property is refuted.

## 5. Where the code and its documents disagree

* `echo_pool`: "Echo the message back to the client" (`basic_text/main.cpp:12`).
  `send()` looks at the queue and then adds to it (`WebSocketSession.h:54-55`); if
  another thread takes the last frame out and looks in between (`:138-139`), neither
  begins a write, and later calls of `send()` find a queue that is not empty: the
  session is mute for ever. With one thread, as `voice_server` has, it cannot happen.
* `room_inactive`: "Clean up inactive clients" (`RoomManager.h:109`) erases a
  silent client's queue and activity record, but not the client. Members that have
  gone are mixed for and sent to for ever.
* `server_writes`: the session joins the room (`WebSocketServer.h:69`) before its
  handshake. `send()` looks at the frame queue only, so that a mix may begin to
  be written while the answer to the handshake (`WebSocketSession.h:103`) is still
  being written; `async_write` forbids that (`asio/write.hpp:736-739`). A frame may
  also precede the answer.
* `server_datagrams`: `Connection::send` (`Connection.h:20`) passes a pointer into a
  local packet of `mixAndSendAudio` to an asynchronous operation, which keeps it if the
  socket is not ready; `asio/basic_datagram_socket.hpp:660-662` demands memory that
  lasts. The client does the same with the local packet of its send timer's handler
  (`NetworkManager.h:58-60`, `SendDeferred` of `VoiceChatClient`).
* `frame_payload`: the length check (`WebSocketSession.h:208`) leaves out the mask.
  `MissesAtMostTheMask` shows that this is all it leaves out.

What the models show besides, without a run of its own:

* "Convert from network byte order to host byte order" (`BinaryData.h:65`) converts
  what `from_bytes` has converted already (`BinaryData.h:116`), so that a big-endian
  machine reads every integer with its bytes turned round (`read_bytes`). On
  little-endian machines neither call does anything, and the properties speak of
  these.
* Frames that a read joins or divides are lost, all or in part (`EchoesKeepOrder`
  without luck); a session keeps no bytes from one read to the next.
* A string with a character beyond ASCII, written where `char` is signed, is refused
  by every reader (`TextsSurvive` excepts it).
* A big-endian machine that is sent 64 KB of text or more may take the first part of
  the message for all of it: the length turned round may be a shorter one that fits
  (`NothingIsMadeUp` excepts it).
* After a failed write a session's queue only grows (`WriteError`).
* A mix or a packet that does not fit a datagram is lost with a line in the log
  (`Connection.h:22-25`, `NetworkManager.h:85-89`).

## 6. Not modelled, and what is left

* **Browser voice client.** The script of one page and its audio worklet share only
  the packet format with the C++ code. Its buttons start asynchronous functions that
  may overlap, and its interval timers are never cleared; that would be a module of
  its own, `BrowserClient`, with the page's event loop as its scheduler. It is the
  first thing to add.
* **Config.** File input around the JSON library. A port over 32767 narrows to a
  negative `short` and is widened back to itself by the endpoint's constructor.
* **UUIDs** are drawn at random and taken to be distinct. **TLS** of the WebSocket
  server is used by neither program. The **text page** keeps no state.
* **Vendored code** (asio, OpenSSL, PortAudio, nlohmann/json, SHA-1): what `src/`
  relies on is in the definitions that the map calls external.
* In modelled components: `do_write_frame`, which nothing calls; opening and closing
  PortAudio's streams, and how a datagram is fitted to a block; datagrams to the
  native client from anybody but the server, which would redirect what it sends
  (`NetworkManager.h:41`); a limit for its jitter buffer, which `JITTER_BUFFER_SIZE`
  names and nothing enforces; files, colours and wording of log entries;
  `AsioThreadPool::stop`, which runs when `run()` has returned.
* Proofs worth adding: the liveness properties, when the prover can; until then TLC
  checks them on the instances of section 3.
