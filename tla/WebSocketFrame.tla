--------------------------- MODULE WebSocketFrame ---------------------------
(***************************************************************************)
(* The frames of the WebSocket protocol as common/WebSocketSession.h       *)
(* writes and reads them.                                                  *)
(*                                                                         *)
(* A frame is its header, byte by byte, and the number of the bytes that   *)
(* follow: the mask, if it has one, and the payload, whose contents are    *)
(* not looked at.  One read hands the parser the bytes that have arrived,  *)
(* from the start of a frame and no more than the buffer has room for, and *)
(* the buffer is zero behind them.                                         *)
(***************************************************************************)
EXTENDS Naturals, Sequences

CONSTANTS
    Sizes,        \* bound: the payload sizes tried
    MaxMissing    \* bound: bytes by which a read may fall short of a frame

\* WebSocketOpCode: continuation, text, binary, close, ping and pong.
Opcodes == {0, 1, 2, 8, 9, 10}

\* The size read_buffer_ is given before each read.
ReadBuffer == 65536

None == [opcode |-> 16]

VARIABLES
    frame,     \* what the peer sends: header, masked, size
    arrived,   \* how many of its bytes one read returns
    message    \* what on_message_ is called with, or None

frameVars == <<frame, arrived, message>>

-----------------------------------------------------------------------------
\* The two low bytes of a size, and what is above them.
High(size)  == (size \div 256) % 256
Low(size)   == size % 256
Above(size) == size \div 65536

\* What fits the eight bytes of a size_t.
IsSize(size) == size \in Nat /\ Above(Above(Above(Above(size)))) = 0

\* The first byte, and the size in the second or in two or eight bytes more.
ShortHeader(opcode, size) == <<128 + opcode, size>>
TwoByteHeader(opcode, size) == <<128 + opcode, 126, High(size), Low(size)>>
EightByteHeader(opcode, size) ==
    LET a == Above(size)
        b == Above(a)
        c == Above(b)
    IN  <<128 + opcode, 127, High(c), Low(c), High(b), Low(b),
          High(a), Low(a), High(size), Low(size)>>

\* Defect considered: 65536, which two bytes do not hold, is written in two.
create_websocket_frame_to65536(opcode, size) ==
    [head |-> IF size <= 125 THEN ShortHeader(opcode, size)
              ELSE IF size <= 65536 THEN TwoByteHeader(opcode, size)
              ELSE EightByteHeader(opcode, size),
     masked |-> FALSE, size |-> size]

create_websocket_frame(opcode, size) ==
    [head |-> IF size <= 125 THEN ShortHeader(opcode, size)
              ELSE IF size <= 65535 THEN TwoByteHeader(opcode, size)
              ELSE EightByteHeader(opcode, size),
     masked |-> FALSE, size |-> size]

\* What a browser sends: the same header with the mask bit, and four bytes of mask.
BrowserFrame(opcode, size) ==
    LET plain == create_websocket_frame(opcode, size)
    IN  [plain EXCEPT !.head[2] = @ + 128, !.masked = TRUE]

MaskLength(isMasked) == IF isMasked THEN 4 ELSE 0

Total(f) == Len(f.head) + MaskLength(f.masked) + f.size

-----------------------------------------------------------------------------
MAX_REASONABLE_PAYLOAD == 1024 * 1024 * 100

\* The header as the parser sees it: what has not arrived is zero.
Buffer(f, length) == [i \in 1..10 |-> IF i <= length /\ i <= Len(f.head) THEN f.head[i] ELSE 0]

masked(buffer) == buffer[2] >= 128

LengthField(buffer) == buffer[2] % 128

header_length(buffer) ==
    IF LengthField(buffer) = 126 THEN 4
    ELSE IF LengthField(buffer) = 127 THEN 10
    ELSE 2

\* The two bytes of the buffer from place i on.
Word(buffer, i) == buffer[i] * 256 + buffer[i + 1]

payload_length(buffer) ==
    IF LengthField(buffer) = 126 THEN Word(buffer, 3)
    ELSE IF LengthField(buffer) = 127
         THEN ((Word(buffer, 3) * 65536 + Word(buffer, 5)) * 65536
                 + Word(buffer, 7)) * 65536 + Word(buffer, 9)
    ELSE LengthField(buffer)

\* Defect considered: a frame need not have arrived whole.
accepts_incomplete(buffer, length) ==
    /\ length >= 2
    /\ length >= header_length(buffer)
    /\ payload_length(buffer) <= MAX_REASONABLE_PAYLOAD
    /\ masked(buffer) => length >= header_length(buffer) + 4

\* The tests handle_frame passes on its way to on_message_, in their order.
accepts(buffer, length) ==
    /\ length >= 2
    /\ length >= header_length(buffer)
    /\ payload_length(buffer) <= MAX_REASONABLE_PAYLOAD
    /\ length >= header_length(buffer) + payload_length(buffer)
    /\ masked(buffer) => length >= header_length(buffer) + 4

\* The payload begins behind the mask.
handle_frame(buffer, length) ==
    IF accepts(buffer, length)
    THEN [opcode |-> buffer[1] % 16,
          from   |-> header_length(buffer) + MaskLength(masked(buffer)),
          size   |-> payload_length(buffer)]
    ELSE None

-----------------------------------------------------------------------------
FrameInit ==
    /\ frame = create_websocket_frame(0, 0)
    /\ arrived = 0
    /\ message = None

\* The peer composes a frame: another session of this code, or a browser.
Compose ==
    /\ \E opcode \in Opcodes, size \in Sizes :
          frame' \in {create_websocket_frame(opcode, size), BrowserFrame(opcode, size)}
    /\ arrived' = 0
    /\ message' = None

\* A read returns the frame or a part of it, and the parser looks at that.
Read ==
    /\ \E missing \in 0..MaxMissing :
          /\ missing < Total(frame)
          /\ arrived' = IF Total(frame) - missing <= ReadBuffer
                        THEN Total(frame) - missing ELSE ReadBuffer
    /\ message' = handle_frame(Buffer(frame, arrived'), arrived')
    /\ UNCHANGED frame

FrameNext == Compose \/ Read

FrameSpec == FrameInit /\ [][FrameNext]_frameVars

-----------------------------------------------------------------------------
\* The header of a frame, once it has arrived, tells the parser what was sent.
HeaderTold ==
    arrived >= Len(frame.head) =>
        LET buffer == Buffer(frame, arrived)
        IN  /\ masked(buffer) <=> frame.masked
            /\ header_length(buffer) = Len(frame.head)
            /\ payload_length(buffer) = frame.size

\* A frame comes back as it was sent (WebSocketSession.h:169-272).  Its header tells
\* its size in each of the three ways to write it and at the borders between them,
\* though a frame over 65536 bytes never arrives in one read; a frame that does is
\* handed on, and no other opcode, place or size of a payload ever is.
RoundTrip ==
    /\ HeaderTold
    /\ arrived = Total(frame) => message # None
    /\ message # None =>
          message = [opcode |-> frame.head[1] % 16,
                     from   |-> Total(frame) - frame.size,
                     size   |-> frame.size]

\* A payload is never handed on with more bytes missing than a mask has: the
\* check of the length (WebSocketSession.h:208) leaves out the mask, and nothing
\* else.
MissesAtMostTheMask ==
    message # None =>
        message.from + message.size <= arrived + MaskLength(frame.masked)

\* "Ensure we have enough data for the full frame" (WebSocketSession.h:207).
PayloadHasArrived == message # None => message.from + message.size <= arrived

=============================================================================
