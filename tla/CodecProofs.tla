----------------------------- MODULE CodecProofs -----------------------------
(***************************************************************************)
(* What is put into bytes or characters comes out of them again: the       *)
(* frames of WebSocketFrame, the messages of BinaryData and the base64 of  *)
(* Base64, for all sizes, texts and digits, and at whatever length.        *)
(*                                                                         *)
(* Frames.  The bytes of a size give the size back (SizeComesBack), so a   *)
(* parser that has the whole header knows what the frame is (FrameIsKnown);*)
(* what it hands on is therefore what was sent (HandedOnAsSent), and the   *)
(* two properties follow from the tests it makes.                          *)
(*                                                                         *)
(* Messages.  A short and a length come back on a little-endian machine    *)
(* (TypeTold, EndTold), and a length of less than 64 KB is too large on a  *)
(* big-endian one if it does not.  A character comes back, or no reader    *)
(* takes its bytes for any (CharactersAsBytes).  MessageInv says where in  *)
(* the bytes each character is, which the writing loop establishes, and    *)
(* that the reading loop is at the start of one (NextCharacter).           *)
(*                                                                         *)
(* Base64.  The two loops do arithmetic on an integer that keeps bits from *)
(* one turn to the next.  Base64Inv says which bits these are: the last    *)
(* two bytes in to_base_64 (Encoding), and in from_base64 those of the     *)
(* last two characters (Decoding).                                         *)
(***************************************************************************)
EXTENDS WebSocketFrame, BinaryData, Base64, SequenceTheorems, TLAPS

-----------------------------------------------------------------------------
\* Two bytes hold a number under 65536, and tell what is above it.
LEMMA BytesAreBytes ==
    ASSUME NEW size \in Nat
    PROVE  /\ High(size) \in 0..255 /\ Low(size) \in 0..255
           /\ High(size) \in Nat /\ Low(size) \in Nat
  <1>1. High(size) \in 0..255 /\ Low(size) \in 0..255
    BY DEF High, Low
  <1>2. \A x \in 0..255 : x \in Nat
    OBVIOUS
  <1> QED
    BY <1>1, <1>2

LEMMA TwoBytes ==
    ASSUME NEW size \in Nat
    PROVE  /\ Above(size) \in Nat
           /\ size = Above(size) * 65536 + (High(size) * 256 + Low(size))
  BY DEF High, Low, Above

LEMMA SmallSize ==
    ASSUME NEW size \in Nat, size <= 65535
    PROVE  size = High(size) * 256 + Low(size)
  BY DEF High, Low

LEMMA NothingAbove ==
    ASSUME NEW size \in Nat, Above(size) = 0
    PROVE  size <= 65535
  BY DEF Above

\* What lies above the lower bytes of a size_t, two bytes at a time.
LEMMA Words ==
    ASSUME NEW size, IsSize(size),
           NEW a, a = Above(size), NEW b, b = Above(a), NEW c, c = Above(b)
    PROVE  /\ size \in Nat /\ a \in Nat /\ b \in Nat /\ c \in Nat
           /\ Above(c) = 0
  <1>1. size \in Nat /\ Above(c) = 0
    BY DEF IsSize
  <1>2. a \in Nat
    BY <1>1, TwoBytes
  <1>3. b \in Nat
    BY <1>2, TwoBytes
  <1>4. c \in Nat
    BY <1>3, TwoBytes
  <1> QED
    BY <1>1, <1>2, <1>3, <1>4

LEMMA SizeComesBack ==
    ASSUME NEW size, IsSize(size),
           NEW a, a = Above(size), NEW b, b = Above(a), NEW c, c = Above(b)
    PROVE  size = (((High(c) * 256 + Low(c)) * 65536 + (High(b) * 256 + Low(b))) * 65536
                     + (High(a) * 256 + Low(a))) * 65536 + (High(size) * 256 + Low(size))
  <1>1. /\ size \in Nat /\ a \in Nat /\ b \in Nat /\ c \in Nat
        /\ Above(c) = 0
    BY Words
  <1>2. size = a * 65536 + (High(size) * 256 + Low(size))
    BY <1>1, TwoBytes
  <1>3. a = b * 65536 + (High(a) * 256 + Low(a))
    BY <1>1, TwoBytes
  <1>4. b = c * 65536 + (High(b) * 256 + Low(b))
    BY <1>1, TwoBytes
  <1>5. c <= 65535
    BY <1>1, NothingAbove
  <1>6. c = High(c) * 256 + Low(c)
    BY <1>1, <1>5, SmallSize
  <1> QED
    BY <1>2, <1>3, <1>4, <1>6

-----------------------------------------------------------------------------
\* The header of a frame says what the frame is.
HeaderTells(head, size) ==
    /\ head \in Seq(Nat) /\ Len(head) >= 2
    /\ header_length(head) = Len(head)
    /\ payload_length(head) = size

FrameTells(f) ==
    /\ f.size \in Nat
    /\ HeaderTells(f.head, f.size)
    /\ masked(f.head) <=> f.masked

LEMMA ShortTells ==
    ASSUME NEW opcode \in Opcodes, NEW size \in Nat, size <= 125,
           NEW head, head = ShortHeader(opcode, size)
    PROVE  HeaderTells(head, size) /\ head[2] < 128
  <1>1. head = <<128 + opcode, size>>
    BY DEF ShortHeader
  <1>2. opcode \in Nat
    BY DEF Opcodes
  <1>3. head \in Seq(Nat) /\ Len(head) = 2 /\ head[2] = size
    BY <1>1, <1>2
  <1>4. LengthField(head) = size
    BY <1>3 DEF LengthField
  <1>5. header_length(head) = 2 /\ payload_length(head) = size
    BY <1>4 DEF header_length, payload_length
  <1> QED
    BY <1>3, <1>4, <1>5 DEF HeaderTells

LEMMA TwoByteTells ==
    ASSUME NEW opcode \in Opcodes, NEW size \in Nat, size <= 65535,
           NEW head, head = TwoByteHeader(opcode, size)
    PROVE  HeaderTells(head, size) /\ head[2] < 128
  <1>1. head = <<128 + opcode, 126, High(size), Low(size)>>
    BY DEF TwoByteHeader
  <1>2. opcode \in Nat
    BY DEF Opcodes
  <1>3. High(size) \in 0..255 /\ Low(size) \in 0..255
    BY BytesAreBytes
  <1>4. size = High(size) * 256 + Low(size)
    BY SmallSize
  <1>5. head \in Seq(Nat) /\ Len(head) = 4 /\ head[2] = 126
    BY <1>1, <1>2, <1>3
  <1>6. LengthField(head) = 126
    BY <1>5 DEF LengthField
  <1>7. Word(head, 3) = size
    BY <1>1, <1>4 DEF Word
  <1>8. header_length(head) = 4 /\ payload_length(head) = size
    BY <1>6, <1>7 DEF header_length, payload_length
  <1> QED
    BY <1>5, <1>6, <1>8 DEF HeaderTells

LEMMA TenBytes ==
    ASSUME NEW b1 \in Nat, NEW b2 \in Nat, NEW b3 \in Nat, NEW b4 \in Nat, NEW b5 \in Nat,
           NEW b6 \in Nat, NEW b7 \in Nat, NEW b8 \in Nat, NEW b9 \in Nat, NEW b10 \in Nat,
           NEW head, head = <<b1, b2, b3, b4, b5, b6, b7, b8, b9, b10>>
    PROVE  head \in Seq(Nat) /\ Len(head) = 10 /\ head[2] = b2
  OBVIOUS

LEMMA EightByteTells ==
    ASSUME NEW opcode \in Opcodes, NEW size, IsSize(size),
           NEW head, head = EightByteHeader(opcode, size)
    PROVE  HeaderTells(head, size) /\ head[2] < 128
  <1> DEFINE a == Above(size)
             b == Above(a)
             c == Above(b)
  <1>1. head = <<128 + opcode, 127, High(c), Low(c), High(b), Low(b),
                   High(a), Low(a), High(size), Low(size)>>
    BY DEF EightByteHeader
  <1>2. opcode \in Nat
    BY DEF Opcodes
  <1>3. size \in Nat /\ a \in Nat /\ b \in Nat /\ c \in Nat
    BY Words
  <1>4. size = (((High(c) * 256 + Low(c)) * 65536 + (High(b) * 256 + Low(b))) * 65536
                  + (High(a) * 256 + Low(a))) * 65536 + (High(size) * 256 + Low(size))
    BY SizeComesBack
  <1>5. /\ High(size) \in Nat /\ Low(size) \in Nat
        /\ High(a) \in Nat /\ Low(a) \in Nat
        /\ High(b) \in Nat /\ Low(b) \in Nat
        /\ High(c) \in Nat /\ Low(c) \in Nat
    BY <1>3, BytesAreBytes
  <1> HIDE DEF a, b, c
  <1>6. head \in Seq(Nat) /\ Len(head) = 10 /\ head[2] = 127
    <2>1. 128 + opcode \in Nat /\ 127 \in Nat
      BY <1>2
    <2> QED
      BY <1>1, <1>5, <2>1, TenBytes
  <1>7. LengthField(head) = 127
    BY <1>6 DEF LengthField
  <1>8. /\ Word(head, 3) = High(c) * 256 + Low(c)
        /\ Word(head, 5) = High(b) * 256 + Low(b)
        /\ Word(head, 7) = High(a) * 256 + Low(a)
        /\ Word(head, 9) = High(size) * 256 + Low(size)
    BY <1>1 DEF Word
  <1>9. header_length(head) = 10
    BY <1>7 DEF header_length
  <1>10. payload_length(head)
           = ((Word(head, 3) * 65536 + Word(head, 5)) * 65536
                + Word(head, 7)) * 65536 + Word(head, 9)
    BY <1>7 DEF payload_length
  <1>11. payload_length(head) = size
    BY <1>4, <1>8, <1>10
  <1> QED
    BY <1>3, <1>6, <1>7, <1>9, <1>11 DEF HeaderTells

LEMMA PlainHeader ==
    ASSUME NEW opcode \in Opcodes, NEW size, IsSize(size),
           NEW h, h = create_websocket_frame(opcode, size).head
    PROVE  HeaderTells(h, size) /\ h[2] < 128
  <1>1. size \in Nat
    BY DEF IsSize
  <1>3. h = IF size <= 125 THEN ShortHeader(opcode, size)
            ELSE IF size <= 65535 THEN TwoByteHeader(opcode, size)
            ELSE EightByteHeader(opcode, size)
    BY DEF create_websocket_frame
  <1>4. CASE size <= 125
    <2>1. h = ShortHeader(opcode, size)
      BY <1>3, <1>4
    <2> QED
      BY <1>1, <1>4, <2>1, ShortTells
  <1>5. CASE ~ (size <= 125) /\ size <= 65535
    <2>1. h = TwoByteHeader(opcode, size) /\ size <= 65535
      BY <1>3, <1>5
    <2> QED
      BY <1>1, <2>1, TwoByteTells
  <1>6. CASE ~ (size <= 125) /\ ~ (size <= 65535)
    <2>1. h = EightByteHeader(opcode, size)
      BY <1>3, <1>6
    <2> QED
      BY <2>1, EightByteTells
  <1> QED
    BY <1>4, <1>5, <1>6

LEMMA PlainTells ==
    ASSUME NEW opcode \in Opcodes, NEW size, IsSize(size)
    PROVE  FrameTells(create_websocket_frame(opcode, size))
  <1> DEFINE f == create_websocket_frame(opcode, size)
  <1>1. size \in Nat
    BY DEF IsSize
  <1>2. f.size = size /\ f.masked = FALSE
    BY DEF create_websocket_frame
  <1>3. HeaderTells(f.head, size) /\ f.head[2] < 128
    BY PlainHeader
  <1> HIDE DEF f
  <1>4. f.head[2] \in Nat
    BY <1>3, ElementOfSeq DEF HeaderTells
  <1>5. ~ masked(f.head)
    BY <1>3, <1>4 DEF masked
  <1> QED
    BY <1>1, <1>2, <1>3, <1>5 DEF FrameTells, f

LEMMA BrowserTells ==
    ASSUME NEW opcode \in Opcodes, NEW size, IsSize(size)
    PROVE  FrameTells(BrowserFrame(opcode, size))
  <1> DEFINE plain == create_websocket_frame(opcode, size)
             f == BrowserFrame(opcode, size)
             h == plain.head
             browser == f.head
  <1>1. HeaderTells(h, size) /\ h[2] < 128
    BY PlainHeader
  <1>2. /\ browser = [h EXCEPT ![2] = @ + 128]
        /\ f.masked = TRUE /\ f.size = size
    BY DEF BrowserFrame, create_websocket_frame
  <1>4. size \in Nat
    BY DEF IsSize
  <1> HIDE DEF plain, f, h, browser
  <1>5. h[2] \in Nat /\ h[2] < 128 /\ Len(h) \in Nat /\ 2 \in 1..Len(h)
    BY <1>1, ElementOfSeq, LenProperties DEF HeaderTells
  <1>6. /\ browser \in Seq(Nat) /\ Len(browser) = Len(h)
        /\ \A i \in 1..Len(h) : browser[i] = IF i = 2 THEN h[2] + 128 ELSE h[i]
    BY <1>1, <1>2, <1>5, ExceptSeq DEF HeaderTells
  <1>7. browser[2] = h[2] + 128
    BY <1>5, <1>6
  <1>8. LengthField(browser) = LengthField(h) /\ masked(browser)
    BY <1>5, <1>7 DEF LengthField, masked
  <1>9. header_length(browser) = header_length(h)
    BY <1>8 DEF header_length
  <1>10. payload_length(browser) = payload_length(h)
    <2>1. CASE LengthField(h) = 126
      <3>1. Len(h) = 4
        BY <1>1, <2>1 DEF HeaderTells, header_length
      <3>2. Word(browser, 3) = Word(h, 3)
        BY <1>6, <3>1 DEF Word
      <3> QED
        BY <1>8, <2>1, <3>2 DEF payload_length
    <2>2. CASE LengthField(h) = 127
      <3>1. Len(h) = 10
        BY <1>1, <2>2 DEF HeaderTells, header_length
      <3>2. \A i \in {3, 5, 7, 9} : Word(browser, i) = Word(h, i)
        BY <1>6, <3>1 DEF Word
      <3> QED
        BY <1>8, <2>2, <3>2 DEF payload_length
    <2>3. CASE LengthField(h) # 126 /\ LengthField(h) # 127
      BY <1>8, <2>3 DEF payload_length
    <2> QED
      BY <2>1, <2>2, <2>3
  <1>11. HeaderTells(browser, size)
    BY <1>1, <1>5, <1>6, <1>9, <1>10 DEF HeaderTells
  <1> QED
    BY <1>2, <1>4, <1>8, <1>11 DEF FrameTells, f, browser

\* What both have in common, for a frame of either kind.
LEMMA HeaderLengths ==
    ASSUME NEW f, FrameTells(f)
    PROVE  /\ f.size \in Nat /\ Len(f.head) \in {2, 4, 10}
           /\ Total(f) = Len(f.head) + MaskLength(f.masked) + f.size
           /\ MaskLength(f.masked) \in {0, 4}
  BY DEF FrameTells, HeaderTells, header_length, Total, MaskLength

-----------------------------------------------------------------------------
\* Two bytes are enough to know the kind of the frame and the length of its header.
LEMMA TwoBytesTell ==
    ASSUME NEW f, FrameTells(f), NEW length \in Nat, length >= 2,
           NEW buffer, buffer = Buffer(f, length)
    PROVE  /\ buffer[1] = f.head[1]
           /\ LengthField(buffer) = LengthField(f.head)
           /\ masked(buffer) <=> f.masked
           /\ header_length(buffer) = Len(f.head)
  <1>1. Len(f.head) \in {2, 4, 10}
    BY HeaderLengths
  <1>2. buffer[1] = f.head[1] /\ buffer[2] = f.head[2]
    BY <1>1 DEF Buffer
  <1>3. LengthField(buffer) = LengthField(f.head)
    BY <1>2 DEF LengthField
  <1>4. masked(buffer) <=> f.masked
    BY <1>2 DEF masked, FrameTells
  <1>5. header_length(buffer) = Len(f.head)
    BY <1>3 DEF header_length, FrameTells, HeaderTells
  <1> QED
    BY <1>2, <1>3, <1>4, <1>5

\* A header has two bytes at least and ten at most.
LEMMA EnoughForTwo ==
    ASSUME NEW n \in {2, 4, 10}, NEW length \in Nat, length >= n
    PROVE  length >= 2
  OBVIOUS

LEMMA EnoughForAll ==
    ASSUME NEW n \in {2, 4, 10}, NEW length \in Nat, length >= n, NEW i \in 1..n
    PROVE  i \in 1..10 /\ i <= length /\ i <= n
  OBVIOUS

\* The whole header tells the size as well.
LEMMA FrameIsKnown ==
    ASSUME NEW f, FrameTells(f), NEW length \in Nat, length >= Len(f.head),
           NEW buffer, buffer = Buffer(f, length)
    PROVE  payload_length(buffer) = f.size
  <1>1. Len(f.head) \in {2, 4, 10}
    BY HeaderLengths
  <1>2. LengthField(buffer) = LengthField(f.head)
    <2>1. length >= 2
      BY <1>1, EnoughForTwo
    <2> QED
      BY <2>1, TwoBytesTell
  <1>3. \A i \in 1..Len(f.head) : buffer[i] = f.head[i]
    <2>1. TAKE i \in 1..Len(f.head)
    <2>2. i \in 1..10 /\ i <= length /\ i <= Len(f.head)
      BY <1>1, EnoughForAll
    <2> QED
      BY <2>2 DEF Buffer
  <1>4. payload_length(f.head) = f.size /\ header_length(f.head) = Len(f.head)
    BY DEF FrameTells, HeaderTells
  <1>5. CASE LengthField(f.head) = 126
    <2>1. Len(f.head) = 4
      BY <1>4, <1>5 DEF header_length
    <2>2. Word(buffer, 3) = Word(f.head, 3)
      BY <1>3, <2>1 DEF Word
    <2> QED
      BY <1>2, <1>4, <1>5, <2>2 DEF payload_length
  <1>6. CASE LengthField(f.head) = 127
    <2>1. Len(f.head) = 10
      BY <1>4, <1>6 DEF header_length
    <2>2. \A i \in {3, 5, 7, 9} : Word(buffer, i) = Word(f.head, i)
      BY <1>3, <2>1 DEF Word
    <2> QED
      BY <1>2, <1>4, <1>6, <2>2 DEF payload_length
  <1>7. CASE LengthField(f.head) # 126 /\ LengthField(f.head) # 127
    BY <1>2, <1>4, <1>7 DEF payload_length
  <1> QED
    BY <1>5, <1>6, <1>7

-----------------------------------------------------------------------------
\* A frame, and what handle_frame makes of the part of it that a read returned.
FrameInv ==
    /\ FrameTells(frame)
    /\ \/ arrived = 0 /\ message = None
       \/ /\ arrived \in Nat /\ arrived >= 1
          /\ arrived <= ReadBuffer /\ arrived <= Total(frame)
          /\ message = handle_frame(Buffer(frame, arrived), arrived)

LEMMA SomeArrived ==
    ASSUME FrameInv, arrived # 0
    PROVE  /\ arrived \in Nat /\ arrived <= 65536
           /\ message = handle_frame(Buffer(frame, arrived), arrived)
  <1>1. arrived \in Nat /\ arrived <= ReadBuffer
    BY DEF FrameInv
  <1>2. arrived \in Nat /\ arrived <= 65536
    BY <1>1 DEF ReadBuffer
  <1>3. message = handle_frame(Buffer(frame, arrived), arrived)
    BY DEF FrameInv
  <1> QED
    BY <1>2, <1>3

LEMMA InitFrame == FrameInit => FrameInv
  <1>1. IsSize(0) /\ 0 \in Opcodes
    BY DEF IsSize, Above, Opcodes
  <1> QED
    BY <1>1, PlainTells DEF FrameInit, FrameInv

LEMMA NextFrame ==
    ASSUME \A size \in Sizes : IsSize(size), MaxMissing \in Nat
    PROVE  FrameInv /\ [FrameNext]_frameVars => FrameInv'
  <1> SUFFICES ASSUME FrameInv, [FrameNext]_frameVars PROVE FrameInv'
    OBVIOUS
  <1>1. CASE Compose
    <2>1. PICK opcode \in Opcodes, size \in Sizes :
             frame' \in {create_websocket_frame(opcode, size), BrowserFrame(opcode, size)}
      BY <1>1 DEF Compose
    <2>2. FrameTells(frame')
      BY <2>1, PlainTells, BrowserTells
    <2>3. arrived' = 0 /\ message' = None
      BY <1>1 DEF Compose
    <2> QED
      BY <2>2, <2>3 DEF FrameInv
  <1>2. CASE Read
    <2>1. FrameTells(frame) /\ frame' = frame
      BY <1>2 DEF FrameInv, Read
    <2>2. PICK missing \in 0..MaxMissing :
             /\ missing < Total(frame)
             /\ arrived' = IF Total(frame) - missing <= ReadBuffer
                           THEN Total(frame) - missing ELSE ReadBuffer
      BY <1>2 DEF Read
    <2>3. Total(frame) \in Nat
      BY <2>1, HeaderLengths
    <2>4. /\ arrived' \in Nat /\ arrived' >= 1
          /\ arrived' <= ReadBuffer /\ arrived' <= Total(frame)
      <3> DEFINE left == Total(frame) - missing
      <3>1. left \in Nat /\ left >= 1 /\ left <= Total(frame)
        BY <2>2, <2>3
      <3>2. arrived' = IF left <= ReadBuffer THEN left ELSE ReadBuffer
        BY <2>2
      <3>3. ReadBuffer \in Nat /\ ReadBuffer >= 1
        BY DEF ReadBuffer
      <3> HIDE DEF left
      <3> QED
        BY <2>3, <3>1, <3>2, <3>3
    <2>5. message' = handle_frame(Buffer(frame, arrived'), arrived')
      BY <1>2 DEF Read
    <2> QED
      BY <2>1, <2>4, <2>5 DEF FrameInv
  <1>3. CASE UNCHANGED frameVars
    BY <1>3 DEF FrameInv, frameVars
  <1> QED
    BY <1>1, <1>2, <1>3 DEF FrameNext

-----------------------------------------------------------------------------
\* What the parser reads of a header that has arrived.
LEMMA HeaderIsTold == FrameInv => HeaderTold
  <1> SUFFICES ASSUME FrameInv, arrived >= Len(frame.head),
                      NEW buffer, buffer = Buffer(frame, arrived)
               PROVE  /\ masked(buffer) <=> frame.masked
                      /\ header_length(buffer) = Len(frame.head)
                      /\ payload_length(buffer) = frame.size
    BY DEF HeaderTold
  <1>1. FrameTells(frame) /\ Len(frame.head) \in {2, 4, 10} /\ arrived \in Nat
    BY HeaderLengths DEF FrameInv
  <1>2. arrived >= 2
    BY <1>1, EnoughForTwo
  <1> QED
    BY <1>1, <1>2, TwoBytesTell, FrameIsKnown

\* A whole frame passes every test of the parser.
LEMMA WholeFrame ==
    ASSUME FrameInv, arrived = Total(frame)
    PROVE  message # None
  <1> DEFINE buffer == Buffer(frame, arrived)
             header == Len(frame.head)
             mask == MaskLength(frame.masked)
  <1>1. FrameTells(frame)
    BY DEF FrameInv
  <1>2. /\ frame.size \in Nat /\ header \in {2, 4, 10} /\ mask \in {0, 4}
        /\ arrived = header + mask + frame.size
    BY <1>1, HeaderLengths
  <1> HIDE DEF buffer, header, mask
  <1>3. arrived # 0
    BY <1>2
  <1>4. /\ arrived \in Nat /\ arrived <= 65536
        /\ message = handle_frame(buffer, arrived)
    BY <1>3, SomeArrived DEF buffer
  <1>5. /\ arrived >= 2 /\ arrived >= header
        /\ arrived >= header + frame.size
        /\ frame.size <= MAX_REASONABLE_PAYLOAD
    <2>1. MAX_REASONABLE_PAYLOAD = 104857600
      BY DEF MAX_REASONABLE_PAYLOAD
    <2>2. frame.size <= 65536
      BY <1>2, <1>4
    <2> QED
      BY <1>2, <1>4, <2>1, <2>2
  <1>6. /\ masked(buffer) <=> frame.masked
        /\ header_length(buffer) = header
        /\ payload_length(buffer) = frame.size
    BY <1>5, HeaderIsTold DEF HeaderTold, buffer, header
  <1>7. masked(buffer) => arrived >= header + 4
    <2>1. masked(buffer) => mask = 4
      BY <1>6 DEF MaskLength, mask
    <2> QED
      BY <1>2, <2>1
  <1>8. accepts(buffer, arrived)
    BY <1>5, <1>6, <1>7 DEF accepts
  <1>9. DOMAIN message = {"opcode", "from", "size"}
    BY <1>4, <1>8 DEF handle_frame
  <1> QED
    BY <1>9 DEF None

\* What is accepted had its header, so that it is handed on as what it is.
LEMMA HandedOnAsSent ==
    ASSUME FrameInv, message # None
    PROVE  /\ message = [opcode |-> frame.head[1] % 16,
                         from   |-> Total(frame) - frame.size,
                         size   |-> frame.size]
           /\ arrived >= Len(frame.head) + frame.size
  <1> DEFINE buffer == Buffer(frame, arrived)
             header == Len(frame.head)
             mask == MaskLength(frame.masked)
  <1>1. FrameTells(frame)
    BY DEF FrameInv
  <1>2. /\ frame.size \in Nat /\ header \in {2, 4, 10} /\ mask \in {0, 4}
        /\ Total(frame) = header + mask + frame.size
    BY <1>1, HeaderLengths
  <1>3. arrived \in Nat /\ message = handle_frame(buffer, arrived)
    BY DEF FrameInv
  <1> HIDE DEF buffer, header, mask
  <1>4. accepts(buffer, arrived)
    BY <1>3 DEF handle_frame
  <1>5. arrived >= 2
    BY <1>4 DEF accepts
  <1>6. /\ buffer[1] = frame.head[1]
        /\ masked(buffer) <=> frame.masked
        /\ header_length(buffer) = header
    BY <1>1, <1>3, <1>5, TwoBytesTell DEF buffer, header
  <1>7. arrived >= header
    BY <1>4, <1>6 DEF accepts
  <1>8. payload_length(buffer) = frame.size
    BY <1>1, <1>3, <1>7, FrameIsKnown DEF buffer, header
  <1>9. arrived >= header + frame.size
    BY <1>4, <1>6, <1>8 DEF accepts
  <1>10. MaskLength(masked(buffer)) = mask
    BY <1>6 DEF MaskLength, mask
  <1>11. header + mask = Total(frame) - frame.size
    BY <1>2
  <1> QED
    BY <1>3, <1>4, <1>6, <1>8, <1>9, <1>10, <1>11 DEF handle_frame, header

LEMMA AcceptedFrame == FrameInv => MissesAtMostTheMask
  <1> SUFFICES ASSUME FrameInv, message # None
               PROVE  message.from + message.size <= arrived + MaskLength(frame.masked)
    BY DEF MissesAtMostTheMask
  <1> DEFINE header == Len(frame.head)
             mask == MaskLength(frame.masked)
  <1>1. /\ frame.size \in Nat /\ header \in {2, 4, 10} /\ mask \in {0, 4}
        /\ Total(frame) = header + mask + frame.size /\ arrived \in Nat
    BY HeaderLengths DEF FrameInv
  <1>2. /\ message.from = Total(frame) - frame.size /\ message.size = frame.size
        /\ arrived >= header + frame.size
    BY HandedOnAsSent
  <1> HIDE DEF header, mask
  <1>3. message.from + message.size <= arrived + mask
    BY <1>1, <1>2
  <1> QED
    BY <1>3 DEF mask

-----------------------------------------------------------------------------
\* Whatever the size of the payload and the opcode, with a mask or without, the
\* header of a frame tells handle_frame its size, a frame that one read returns
\* whole reaches on_message_, and whatever does has the opcode and the size it was
\* sent with, and its payload begins right behind the mask.
THEOREM FramesComeBack ==
    ASSUME \A size \in Sizes : IsSize(size), MaxMissing \in Nat
    PROVE  FrameSpec => []RoundTrip
  <1>1. FrameInit => FrameInv
    BY InitFrame
  <1>2. FrameInv /\ [FrameNext]_frameVars => FrameInv'
    BY NextFrame
  <1>3. FrameInv => RoundTrip
    BY HeaderIsTold, WholeFrame, HandedOnAsSent DEF RoundTrip
  <1> QED
    BY <1>1, <1>2, <1>3, PTL DEF FrameSpec

\* However little of a frame a read returns, handle_frame hands on no payload of
\* which more bytes are missing than a mask has: a header that is cut off is never
\* mistaken for another one.
THEOREM PartsAreRefused ==
    ASSUME \A size \in Sizes : IsSize(size), MaxMissing \in Nat
    PROVE  FrameSpec => []MissesAtMostTheMask
  <1>1. FrameInit => FrameInv
    BY InitFrame
  <1>2. FrameInv /\ [FrameNext]_frameVars => FrameInv'
    BY NextFrame
  <1>3. FrameInv => MissesAtMostTheMask
    BY AcceptedFrame
  <1> QED
    BY <1>1, <1>2, <1>3, PTL DEF FrameSpec

-----------------------------------------------------------------------------
(* Messages: integers as bytes. *)

LEMMA TurnedRound ==
    /\ \A a, b : Reversed(<<a, b>>) = <<b, a>>
    /\ \A a, b, c, d : Reversed(<<a, b, c, d>>) = <<d, c, b, a>>
  <1>1. ASSUME NEW a, NEW b
        PROVE  Reversed(<<a, b>>) = <<b, a>>
    BY DEF Reversed
  <1>2. ASSUME NEW a, NEW b, NEW c, NEW d
        PROVE  Reversed(<<a, b, c, d>>) = <<d, c, b, a>>
    BY DEF Reversed
  <1> QED
    BY <1>1, <1>2

\* Whatever the machine, an integer is written from its lowest byte on, and a
\* big-endian machine reads it from the highest.
LEMMA BytesWritten ==
    ASSUME NEW machine \in Machine
    PROVE  /\ \A a, b : to_bytes(machine, <<a, b>>) = <<a, b>>
           /\ \A a, b, c, d : to_bytes(machine, <<a, b, c, d>>) = <<a, b, c, d>>
  BY TurnedRound DEF Machine, to_bytes, network_order, InMemory

LEMMA BytesRead ==
    ASSUME NEW machine \in Machine
    PROVE  /\ \A a, b : read_bytes(machine, <<a, b>>)
                          = IF machine.bigEndian THEN <<b, a>> ELSE <<a, b>>
           /\ \A a, b, c, d : read_bytes(machine, <<a, b, c, d>>)
                          = IF machine.bigEndian THEN <<d, c, b, a>> ELSE <<a, b, c, d>>
  BY TurnedRound DEF Machine, read_bytes, network_order, InMemory

LEMMA ShortComesBack ==
    ASSUME NEW t \in Int, t >= -32768, t <= 32767
    PROVE  /\ t % 256 \in 0..255 /\ (t \div 256) % 256 \in 0..255
           /\ Signed(Short(ShortBytes(t))) = t
  <1>1. PICK q \in Int, r \in Nat : r < 256 /\ t = 256 * q + r /\ t \div 256 = q /\ t % 256 = r
    <2>1. t \div 256 \in Int /\ t % 256 \in Nat
      OBVIOUS
    <2>2. t % 256 < 256 /\ t = 256 * (t \div 256) + (t % 256)
      OBVIOUS
    <2> QED
      BY <2>1, <2>2
  <1>2. q >= -128 /\ q <= 127
    BY <1>1
  <1>3. PICK p \in Nat : p < 256 /\ q % 256 = p /\ (p = q \/ p = q + 256)
    <2>1. q % 256 \in Nat /\ q % 256 < 256 /\ (q % 256 = q \/ q % 256 = q + 256)
      BY <1>2
    <2> QED
      BY <2>1
  <1>4. Signed(r + 256 * p) = t
    BY <1>1, <1>2, <1>3 DEF Signed
  <1>5. Short(ShortBytes(t)) = r + 256 * p
    BY <1>1, <1>3 DEF Short, ShortBytes
  <1> QED
    BY <1>1, <1>3, <1>4, <1>5

\* The bytes of a length.
IsInBytes(n, a, b, c, d) ==
    /\ a < 256 /\ b < 256 /\ c < 256 /\ d < 256
    /\ LongBytes(n) = <<a, b, c, d>>
    /\ n = a + 256 * b + 65536 * c + 16777216 * d

LEMMA LengthInBytes ==
    ASSUME NEW n \in Nat, n < 65536 * 65536
    PROVE  \E a, b, c, d \in Nat : IsInBytes(n, a, b, c, d)
  <1>1. PICK p \in Nat, a \in Nat : a < 256 /\ n = 256 * p + a /\ n % 256 = a /\ n \div 256 = p
    <2>1. n \div 256 \in Nat /\ n % 256 \in Nat
      OBVIOUS
    <2>2. n % 256 < 256 /\ n = 256 * (n \div 256) + (n % 256)
      OBVIOUS
    <2> QED
      BY <2>1, <2>2
  <1>2. PICK q \in Nat, b \in Nat : b < 256 /\ p = 256 * q + b /\ p % 256 = b
    <2>1. p \div 256 \in Nat /\ p % 256 \in Nat
      OBVIOUS
    <2>2. p % 256 < 256 /\ p = 256 * (p \div 256) + (p % 256)
      OBVIOUS
    <2> QED
      BY <2>1, <2>2
  <1>3. PICK d \in Nat, c \in Nat : c < 256 /\ q = 256 * d + c /\ q % 256 = c
    <2>1. q \div 256 \in Nat /\ q % 256 \in Nat
      OBVIOUS
    <2>2. q % 256 < 256 /\ q = 256 * (q \div 256) + (q % 256)
      OBVIOUS
    <2> QED
      BY <2>1, <2>2
  <1>4. d < 256 /\ d % 256 = d
    BY <1>1, <1>2, <1>3
  <1>5. n \div 65536 = q
    <2>1. n = 65536 * q + (256 * b + a)
      BY <1>1, <1>2
    <2>2. 256 * b + a < 65536
      BY <1>1, <1>2
    <2>3. (65536 * q + (256 * b + a)) \div 65536 = q
      BY <2>2
    <2> QED
      BY <2>1, <2>3
  <1>6. n \div 16777216 = d
    <2>1. n = 16777216 * d + (65536 * c + 256 * b + a)
      BY <1>1, <1>2, <1>3
    <2>2. 65536 * c + 256 * b + a < 16777216
      BY <1>1, <1>2, <1>3
    <2>3. (16777216 * d + (65536 * c + 256 * b + a)) \div 16777216 = d
      BY <2>2
    <2> QED
      BY <2>1, <2>3
  <1>7. LongBytes(n) = <<a, b, c, d>>
    BY <1>1, <1>2, <1>3, <1>4, <1>5, <1>6 DEF LongBytes
  <1>8. n = a + 256 * b + 65536 * c + 16777216 * d
    BY <1>1, <1>2, <1>3
  <1>9. a < 256 /\ b < 256 /\ c < 256 /\ d < 256
    BY <1>1, <1>2, <1>3, <1>4
  <1>10. IsInBytes(n, a, b, c, d)
    BY <1>7, <1>8, <1>9 DEF IsInBytes
  <1> QED
    BY <1>10

-----------------------------------------------------------------------------
(* Messages: characters as bytes. *)

Coded(machine, c) == Utf8(AsChar32(machine, c))

Spoilt(machine, c) == machine.signedChar /\ c >= 128

CharOf(bs) == IF Len(bs) = 1 THEN bs[1] ELSE (bs[1] % 4) * 64 + (bs[2] % 64)

LEMMA Negative ==
    ASSUME NEW n \in Int, n < 0
    PROVE  Utf8(n) = <<255, 128 + ((n \div 4096) % 64), 128 + ((n \div 64) % 64), 128 + (n % 64)>>
  <1>1. n \notin 0..127 /\ n \notin 128..2047
    OBVIOUS
  <1> QED
    BY <1>1, SMTT(30) DEF Utf8

LEMMA CharactersAsBytes ==
    ASSUME NEW machine \in Machine, NEW c \in 0..255
    PROVE  /\ Coded(machine, c) \in Seq(Nat)
           /\ Len(Coded(machine, c)) \in 1..4
           /\ Spoilt(machine, c) => Width(Coded(machine, c)[1]) = 0
           /\ ~Spoilt(machine, c) =>
                 /\ Width(Coded(machine, c)[1]) = Len(Coded(machine, c))
                 /\ Len(Coded(machine, c)) \in {1, 2}
                 /\ CharOf(Coded(machine, c)) = c
  <1>1. machine.signedChar \in BOOLEAN
    BY DEF Machine
  <1>2. CASE c < 128
    <2>1. AsChar32(machine, c) = c /\ ~Spoilt(machine, c)
      BY <1>2 DEF AsChar32, Spoilt
    <2>2. Coded(machine, c) = <<c>>
      BY <1>2, <2>1 DEF Coded, Utf8
    <2>3. Width(c) = 1
      BY <1>2 DEF Width
    <2> QED
      BY <2>1, <2>2, <2>3 DEF CharOf
  <1>3. CASE c >= 128 /\ ~machine.signedChar
    <2>1. AsChar32(machine, c) = c /\ ~Spoilt(machine, c)
      BY <1>3 DEF AsChar32, Spoilt
    <2>2. PICK q \in {2, 3}, r \in Nat : r < 64 /\ c = 64 * q + r /\ c \div 64 = q /\ c % 64 = r
      <3>1. c \div 64 \in {2, 3} /\ c % 64 \in Nat
        BY <1>3
      <3>2. c % 64 < 64 /\ c = 64 * (c \div 64) + (c % 64)
        OBVIOUS
      <3> QED
        BY <3>1, <3>2
    <2>3. Coded(machine, c) = <<192 + q, 128 + r>>
      <3>1. Utf8(c) = <<192 + c \div 64, 128 + (c % 64)>>
        BY <1>3 DEF Utf8
      <3>2. Coded(machine, c) = Utf8(c)
        BY <2>1 DEF Coded
      <3>3. c \div 64 = q /\ c % 64 = r
        BY <2>2
      <3> QED
        BY <3>1, <3>2, <3>3
    <2>4. Width(192 + q) = 2
      BY <2>2 DEF Width
    <2>5. (192 + q) % 4 = q /\ (128 + r) % 64 = r
      BY <2>2
    <2>6. CharOf(<<192 + q, 128 + r>>) = c
      BY <2>2, <2>5 DEF CharOf
    <2>7. 192 + q \in Nat /\ 128 + r \in Nat
      BY <2>2
    <2>8. /\ <<192 + q, 128 + r>> \in Seq(Nat) /\ Len(<<192 + q, 128 + r>>) = 2
          /\ <<192 + q, 128 + r>>[1] = 192 + q
      BY <2>7
    <2> QED
      BY <2>1, <2>3, <2>4, <2>6, <2>8
  <1>4. CASE c >= 128 /\ machine.signedChar
    <2> DEFINE n == c - 256
    <2>1. AsChar32(machine, c) = n /\ Spoilt(machine, c) /\ n \in Int /\ n < 0
      BY <1>4 DEF AsChar32, Spoilt
    <2> HIDE DEF n
    <2>2. Coded(machine, c) = <<255, 128 + ((n \div 4096) % 64), 128 + ((n \div 64) % 64), 128 + (n % 64)>>
      <3>1. Coded(machine, c) = Utf8(n)
        BY <2>1 DEF Coded
      <3> QED
        BY <2>1, <3>1, Negative
    <2>3. /\ 128 + ((n \div 4096) % 64) \in Nat /\ 128 + ((n \div 64) % 64) \in Nat
          /\ 128 + (n % 64) \in Nat
      BY <2>1
    <2>4. Width(255) = 0
      BY DEF Width
    <2> QED
      BY <2>1, <2>2, <2>3, <2>4
  <1> QED
    BY <1>1, <1>2, <1>3, <1>4

-----------------------------------------------------------------------------
(* Messages: the inductive invariant. *)

CharBytes(k) == Coded(writer, written.text[k])

MessageTypes ==
    /\ transfer \in {"idle", "writing", "written", "reading", "read"}
    /\ writer \in Machine /\ reader \in Machine
    /\ transfer # "idle" => written \in Message
    /\ utf8 \in Seq(Nat) /\ starts \in Seq(Nat) /\ data \in Seq(Nat)

NothingYet ==
    /\ transfer = "idle" => starts = <<0>> /\ utf8 = << >>
    /\ transfer \in {"idle", "writing", "written"} => told = Unread /\ result = << >>
    /\ transfer # "read" => got = Unread

\* The bytes so far are those of the characters so far, each at its place.
TextWritten ==
    transfer # "idle" =>
        /\ Len(starts) \in 1..(Len(written.text) + 1)
        /\ starts[1] = 0 /\ starts[Len(starts)] = Len(utf8)
        /\ Len(utf8) <= 4 * (Len(starts) - 1)
        /\ \A k \in 1..(Len(starts) - 1) :
              /\ starts[k + 1] = starts[k] + Len(CharBytes(k)) /\ starts[k + 1] <= Len(utf8)
              /\ \A i \in 1..Len(CharBytes(k)) : utf8[starts[k] + i] = CharBytes(k)[i]

DataWritten ==
    transfer \in {"written", "reading", "read"} =>
        /\ Len(starts) = Len(written.text) + 1
        /\ Len(data) = 6 + Len(utf8)
        /\ <<data[1], data[2]>> = ShortBytes(written.type)
        /\ <<data[3], data[4], data[5], data[6]>> = LongBytes(Len(utf8))
        /\ \A i \in 1..Len(utf8) : data[6 + i] = utf8[i]

\* Where the length cannot be mistaken for another that fits.
LengthIsClear == reader.bigEndian => Len(utf8) < 65536

\* All bytes have arrived, and the characters so far are those that were written.
TextRead ==
    transfer = "reading" =>
        /\ told = getMessageTypeFromBytes(reader)
        /\ LengthIsClear =>
              /\ received = Len(data) /\ end = Len(data)
              /\ result \in Seq(Nat) /\ Len(result) <= Len(written.text)
              /\ cur = 6 + starts[Len(result) + 1]
              /\ \A k \in 1..Len(result) :
                    result[k] = written.text[k] /\ ~Spoilt(writer, written.text[k])

MessageInv ==
    /\ MessageTypes /\ NothingYet
    /\ TextWritten /\ DataWritten /\ TextRead
    /\ TextsSurvive /\ NothingIsMadeUp

\* Types are shorts, characters are bytes, and a uint32_t holds the length of any text.
Representable ==
    /\ \A t \in Types : t \in Int /\ t >= -32768 /\ t <= 32767
    /\ \A c \in Chars : c \in 0..255
    /\ MaxText \in Nat /\ 4 * MaxText < 65536 * 65536

-----------------------------------------------------------------------------
LEMMA GivenMessage ==
    ASSUME Representable, written \in Message
    PROVE  /\ written.type \in Int /\ written.type >= -32768 /\ written.type <= 32767
           /\ Len(written.text) \in Nat /\ Len(written.text) <= MaxText
           /\ \A k \in 1..Len(written.text) : written.text[k] \in 0..255
           /\ written = [type |-> written.type, text |-> written.text]
  <1>1. written.type \in Types /\ written.text \in UNION {[1..n -> Chars] : n \in 0..MaxText}
    BY DEF Message
  <1>2. PICK n \in 0..MaxText : written.text \in [1..n -> Chars]
    BY <1>1
  <1>3. n \in Nat /\ MaxText \in Nat
    BY DEF Representable
  <1>4. written.text \in Seq(Chars) /\ Len(written.text) = n
    BY <1>2, <1>3
  <1>5. \A k \in 1..n : written.text[k] \in 0..255
    <2>1. \A c \in Chars : c \in 0..255
      BY DEF Representable
    <2>2. \A k \in 1..n : written.text[k] \in Chars
      BY <1>2
    <2> QED
      BY <2>1, <2>2
  <1>6. written.type \in Int /\ written.type >= -32768 /\ written.type <= 32767
    BY <1>1 DEF Representable
  <1>7. written = [type |-> written.type, text |-> written.text]
    BY DEF Message
  <1> QED
    BY <1>3, <1>4, <1>5, <1>6, <1>7

LEMMA InitMessageInv ==
    ASSUME MessageInit
    PROVE  MessageInv
  <1>1. MessageTypes
    BY DEF MessageInit, MessageTypes, Machine
  <1>2. NothingYet /\ TextWritten /\ DataWritten /\ TextRead
    BY DEF MessageInit, NothingYet, TextWritten, DataWritten, TextRead
  <1>3. TextsSurvive /\ NothingIsMadeUp
    BY DEF MessageInit, TextsSurvive, NothingIsMadeUp
  <1> QED
    BY <1>1, <1>2, <1>3 DEF MessageInv

LEMMA serializeInv ==
    ASSUME Representable, MessageInv, serialize
    PROVE  MessageInv'
  <1>1. /\ transfer = "idle" /\ transfer' = "writing"
        /\ written' \in Message /\ writer' \in Machine
        /\ utf8' = utf8 /\ starts' = starts /\ data' = data /\ reader' = reader
        /\ told' = told /\ result' = result /\ got' = got
    BY DEF serialize
  <1>2. /\ utf8 = << >> /\ starts = <<0>> /\ told = Unread /\ result = << >> /\ got = Unread
    BY <1>1 DEF MessageInv, NothingYet
  <1>3. MessageTypes'
    BY <1>1 DEF MessageInv, MessageTypes
  <1>4. NothingYet'
    BY <1>1, <1>2 DEF NothingYet
  <1>5. TextWritten'
    <2>1. Len(written'.text) \in Nat
      <3>1. PICK n \in 0..MaxText : written'.text \in [1..n -> Chars]
        BY <1>1 DEF Message
      <3>2. n \in Nat
        BY DEF Representable
      <3>3. written'.text \in Seq(Chars)
        BY <3>1, <3>2
      <3> QED
        BY <3>3
    <2>2. starts' = <<0>> /\ utf8' = << >>
      BY <1>1, <1>2
    <2>3. Len(starts') = 1 /\ starts'[1] = 0 /\ Len(utf8') = 0
      BY <2>2
    <2>4. 1 \in 1..(Len(written'.text) + 1)
      BY <2>1
    <2> QED
      BY <2>3, <2>4 DEF TextWritten
  <1>6. DataWritten' /\ TextRead'
    BY <1>1 DEF DataWritten, TextRead
  <1>7. TextsSurvive' /\ NothingIsMadeUp'
    BY <1>1, <1>2 DEF TextsSurvive, NothingIsMadeUp
  <1> QED
    BY <1>3, <1>4, <1>5, <1>6, <1>7 DEF MessageInv

LEMMA WriteCharacterInv ==
    ASSUME Representable, MessageInv, WriteCharacter
    PROVE  MessageInv'
  <1>1. /\ transfer = "writing" /\ transfer' = "writing"
        /\ Len(starts) <= Len(written.text)
        /\ utf8' = utf8 \o CharBytes(Len(starts))
        /\ starts' = Append(starts, Len(utf8'))
        /\ written' = written /\ writer' = writer
        /\ data' = data /\ reader' = reader
        /\ told' = told /\ result' = result /\ got' = got
    BY DEF WriteCharacter, CharBytes, Coded
  <1>2. /\ writer \in Machine /\ reader \in Machine /\ written \in Message
        /\ utf8 \in Seq(Nat) /\ starts \in Seq(Nat) /\ data \in Seq(Nat)
    BY <1>1 DEF MessageInv, MessageTypes
  <1>3. /\ Len(starts) \in 1..(Len(written.text) + 1)
        /\ starts[1] = 0 /\ starts[Len(starts)] = Len(utf8)
        /\ Len(utf8) <= 4 * (Len(starts) - 1)
        /\ \A k \in 1..(Len(starts) - 1) :
              /\ starts[k + 1] = starts[k] + Len(CharBytes(k)) /\ starts[k + 1] <= Len(utf8)
              /\ \A i \in 1..Len(CharBytes(k)) : utf8[starts[k] + i] = CharBytes(k)[i]
    BY <1>1 DEF MessageInv, TextWritten
  <1>4. PICK m \in Nat, u \in Nat : m = Len(starts) /\ m >= 1 /\ u = Len(utf8)
    <2>1. Len(starts) \in Nat /\ Len(utf8) \in Nat
      BY <1>2
    <2>2. Len(starts) >= 1
      <3>1. Len(starts) \in 1..(Len(written.text) + 1)
        BY <1>3
      <3> QED
        BY <3>1
    <2> QED
      BY <2>1, <2>2
  <1>5. CharBytes(m) \in Seq(Nat) /\ Len(CharBytes(m)) \in 1..4
    <2>1. m \in 1..Len(written.text)
      <3>1. Len(written.text) \in Nat
        BY <1>2, GivenMessage
      <3> QED
        BY <1>1, <1>4, <3>1
    <2>2. written.text[m] \in 0..255
      BY <1>2, <2>1, GivenMessage
    <2> QED
      BY <1>2, <2>2, CharactersAsBytes DEF CharBytes
  <1>6. PICK w \in 1..4 : w = Len(CharBytes(m))
    BY <1>5
  <1>7. /\ utf8' \in Seq(Nat) /\ Len(utf8') = u + w
        /\ \A i \in 1..u : utf8'[i] = utf8[i]
        /\ \A i \in 1..w : utf8'[u + i] = CharBytes(m)[i]
    BY <1>1, <1>2, <1>4, <1>5, <1>6
  <1>8. /\ starts' \in Seq(Nat) /\ Len(starts') = m + 1 /\ starts'[m + 1] = u + w
        /\ \A k \in 1..m : starts'[k] = starts[k]
    BY <1>1, <1>2, <1>4, <1>7
  <1>9. MessageTypes'
    BY <1>1, <1>2, <1>7, <1>8 DEF MessageTypes
  <1>10. NothingYet'
    BY <1>1 DEF MessageInv, NothingYet
  <1>11. TextWritten'
    <2>1. (Len(starts) \in 1..(Len(written.text) + 1))'
      <3>1. Len(written.text) \in Nat
        BY <1>2, GivenMessage
      <3> QED
        BY <1>1, <1>4, <1>8, <3>1
    <2>2. (starts[1] = 0 /\ starts[Len(starts)] = Len(utf8))'
      BY <1>3, <1>4, <1>7, <1>8
    <2>3. (Len(utf8) <= 4 * (Len(starts) - 1))'
      <3>1. u <= 4 * (m - 1)
        BY <1>3, <1>4
      <3>2. u + w <= 4 * ((m + 1) - 1)
        BY <3>1
      <3> QED
        BY <1>7, <1>8, <3>2
    <2>4. ASSUME NEW k \in 1..m
          PROVE  /\ starts'[k + 1] = starts'[k] + Len(CharBytes(k))
                 /\ starts'[k + 1] <= u + w
                 /\ \A i \in 1..Len(CharBytes(k)) : utf8'[starts'[k] + i] = CharBytes(k)[i]
      <3>1. CASE k = m
        <4>1. starts'[m] = u
          BY <1>3, <1>4, <1>8
        <4> QED
          BY <1>6, <1>7, <1>8, <3>1, <4>1
      <3>2. CASE k # m
        <4>1. k \in 1..(m - 1) /\ k + 1 \in 1..m
          BY <3>2
        <4>2. /\ starts'[k] = starts[k] /\ starts'[k + 1] = starts[k + 1]
              /\ starts[k + 1] = starts[k] + Len(CharBytes(k)) /\ starts[k + 1] <= u
              /\ \A i \in 1..Len(CharBytes(k)) : utf8[starts[k] + i] = CharBytes(k)[i]
          BY <1>3, <1>4, <1>8, <4>1
        <4>3. PICK f \in Nat, n \in 1..4 : f = starts[k] /\ n = Len(CharBytes(k))
          <5>1. starts[k] \in Nat
            BY <1>2, <1>4, <4>1
          <5>2. written.text[k] \in 0..255
            <6>1. Len(written.text) \in Nat
              BY <1>2, GivenMessage
            <6>2. k \in 1..Len(written.text)
              BY <1>1, <1>4, <6>1
            <6> QED
              BY <1>2, <6>2, GivenMessage
          <5>3. Len(CharBytes(k)) \in 1..4
            BY <1>2, <5>2, CharactersAsBytes DEF CharBytes
          <5> QED
            BY <5>1, <5>3
        <4>4. f + n <= u
          BY <4>2, <4>3
        <4>5. ASSUME NEW i \in 1..n
              PROVE  utf8'[f + i] = CharBytes(k)[i]
          <5>1. f + i \in 1..u
            BY <4>4
          <5> QED
            BY <1>7, <4>2, <4>3, <5>1
        <4>6. starts[k + 1] <= u + w
          BY <4>2, <4>3, <4>4
        <4> QED
          BY <4>2, <4>3, <4>5, <4>6
      <3> QED
        BY <3>1, <3>2
    <2>5. \A k \in 1..m : (CharBytes(k))' = CharBytes(k)
      BY <1>1 DEF CharBytes
    <2>6. (\A k \in 1..(Len(starts) - 1) :
              /\ starts[k + 1] = starts[k] + Len(CharBytes(k)) /\ starts[k + 1] <= Len(utf8)
              /\ \A i \in 1..Len(CharBytes(k)) : utf8[starts[k] + i] = CharBytes(k)[i])'
      <3>1. Len(starts') - 1 = m /\ Len(utf8') = u + w
        BY <1>7, <1>8
      <3> QED
        BY <2>4, <2>5, <3>1
    <2> QED
      BY <2>1, <2>2, <2>3, <2>6 DEF TextWritten
  <1>12. DataWritten' /\ TextRead'
    BY <1>1 DEF DataWritten, TextRead
  <1>13. TextsSurvive' /\ NothingIsMadeUp'
    BY <1>1 DEF MessageInv, NothingYet, TextsSurvive, NothingIsMadeUp
  <1> QED
    BY <1>9, <1>10, <1>11, <1>12, <1>13 DEF MessageInv

LEMMA TextStays ==
    ASSUME TextWritten, transfer # "idle",
           writer' = writer, written' = written, utf8' = utf8, starts' = starts
    PROVE  TextWritten'
  <1>1. \A k : (CharBytes(k))' = CharBytes(k)
    BY DEF CharBytes
  <1> QED
    BY <1>1 DEF TextWritten

LEMMA DataStays ==
    ASSUME DataWritten, transfer \in {"written", "reading", "read"},
           written' = written, utf8' = utf8, starts' = starts, data' = data
    PROVE  DataWritten'
  BY DEF DataWritten

LEMMA Joined ==
    ASSUME NEW s \in Seq(Nat), NEW t \in Seq(Nat)
    PROVE  /\ s \o t \in Seq(Nat) /\ Len(s \o t) = Len(s) + Len(t)
           /\ \A i \in 1..Len(s) : (s \o t)[i] = s[i]
           /\ \A i \in 1..Len(t) : (s \o t)[Len(s) + i] = t[i]
  <1>1. PICK m \in Nat, n \in Nat : m = Len(s) /\ n = Len(t)
    OBVIOUS
  <1>2. /\ s \o t \in Seq(Nat) /\ Len(s \o t) = m + n
        /\ \A i \in 1..(m + n) : (s \o t)[i] = IF i <= m THEN s[i] ELSE t[i - m]
    BY <1>1, ConcatProperties
  <1>3. ASSUME NEW i \in 1..m
        PROVE  (s \o t)[i] = s[i]
    <2>1. i \in 1..(m + n) /\ i <= m
      OBVIOUS
    <2> QED
      BY <1>2, <2>1
  <1>4. ASSUME NEW i \in 1..n
        PROVE  (s \o t)[m + i] = t[i]
    <2>1. m + i \in 1..(m + n) /\ ~(m + i <= m) /\ (m + i) - m = i
      OBVIOUS
    <2> QED
      BY <1>2, <2>1
  <1> QED
    BY <1>1, <1>2, <1>3, <1>4

LEMMA AssembleInv ==
    ASSUME Representable, MessageInv, Assemble
    PROVE  MessageInv'
  <1>1. /\ transfer = "writing" /\ transfer' = "written"
        /\ Len(starts) = Len(written.text) + 1
        /\ data' = to_bytes(writer, ShortBytes(written.type))
                     \o (to_bytes(writer, LongBytes(Len(utf8))) \o utf8)
        /\ written' = written /\ writer' = writer /\ reader' = reader
        /\ utf8' = utf8 /\ starts' = starts
        /\ told' = told /\ result' = result /\ got' = got
    BY DEF Assemble
  <1>2. /\ writer \in Machine /\ reader \in Machine /\ written \in Message
        /\ utf8 \in Seq(Nat) /\ starts \in Seq(Nat) /\ data \in Seq(Nat)
    BY <1>1 DEF MessageInv, MessageTypes
  <1>3. PICK s1 \in Nat, s2 \in Nat : ShortBytes(written.type) = <<s1, s2>>
    <2>1. (written.type % 256) \in Nat /\ ((written.type \div 256) % 256) \in Nat
      BY <1>2, GivenMessage
    <2> QED
      BY <2>1 DEF ShortBytes
  <1>4. PICK u \in Nat : u = Len(utf8)
    BY <1>2
  <1>5. PICK l1 \in Nat, l2 \in Nat, l3 \in Nat, l4 \in Nat : LongBytes(u) = <<l1, l2, l3, l4>>
    <2>1. u % 256 \in Nat /\ (u \div 256) % 256 \in Nat /\ (u \div 65536) % 256 \in Nat
          /\ (u \div 16777216) % 256 \in Nat
      OBVIOUS
    <2> QED
      BY <2>1 DEF LongBytes
  <1>6. data' = <<s1, s2>> \o (<<l1, l2, l3, l4>> \o utf8)
    <2>1. to_bytes(writer, <<s1, s2>>) = <<s1, s2>>
      BY <1>2, BytesWritten
    <2>2. to_bytes(writer, <<l1, l2, l3, l4>>) = <<l1, l2, l3, l4>>
      BY <1>2, BytesWritten
    <2>3. LongBytes(Len(utf8)) = <<l1, l2, l3, l4>>
      BY <1>4, <1>5
    <2> QED
      BY <1>1, <1>3, <2>1, <2>2, <2>3, Zenon
  <1>7. /\ data' \in Seq(Nat) /\ Len(data') = 6 + u
        /\ data'[1] = s1 /\ data'[2] = s2
        /\ data'[3] = l1 /\ data'[4] = l2 /\ data'[5] = l3 /\ data'[6] = l4
        /\ \A i \in 1..u : data'[6 + i] = utf8[i]
    <2> DEFINE type == <<s1, s2>>
               size == <<l1, l2, l3, l4>>
               rest == size \o utf8
    <2>1. type \in Seq(Nat) /\ Len(type) = 2 /\ type[1] = s1 /\ type[2] = s2
      OBVIOUS
    <2>2. /\ size \in Seq(Nat) /\ Len(size) = 4
          /\ size[1] = l1 /\ size[2] = l2 /\ size[3] = l3 /\ size[4] = l4
      OBVIOUS
    <2>3. data' = type \o rest
      BY <1>6
    <2> HIDE DEF type, size
    <2>4. /\ rest \in Seq(Nat) /\ Len(rest) = 4 + u
          /\ \A i \in 1..4 : rest[i] = size[i]
          /\ \A i \in 1..u : rest[4 + i] = utf8[i]
      <3>1. /\ rest \in Seq(Nat) /\ Len(rest) = Len(size) + Len(utf8)
            /\ \A i \in 1..Len(size) : rest[i] = size[i]
            /\ \A i \in 1..Len(utf8) : rest[Len(size) + i] = utf8[i]
        BY <1>2, <2>2, Joined
      <3> HIDE DEF rest
      <3> QED
        BY <1>4, <2>2, <3>1
    <2> HIDE DEF rest
    <2>5. rest[1] = l1 /\ rest[2] = l2 /\ rest[3] = l3 /\ rest[4] = l4
      BY <2>2, <2>4
    <2>6. /\ data' \in Seq(Nat) /\ Len(data') = 6 + u
          /\ \A j \in 1..2 : data'[j] = type[j]
          /\ \A j \in 1..(4 + u) : data'[2 + j] = rest[j]
      <3>1. /\ data' \in Seq(Nat) /\ Len(data') = Len(type) + Len(rest)
            /\ \A j \in 1..Len(type) : data'[j] = type[j]
            /\ \A j \in 1..Len(rest) : data'[Len(type) + j] = rest[j]
        BY <2>1, <2>3, <2>4, Joined
      <3>2. Len(type) = 2 /\ Len(rest) = 4 + u
        BY <2>1, <2>4
      <3>3. Len(data') = 6 + u
        BY <3>1, <3>2
      <3> QED
        BY <3>1, <3>2, <3>3
    <2>7. data'[1] = s1 /\ data'[2] = s2
      BY <2>1, <2>6
    <2>8. data'[3] = l1 /\ data'[4] = l2 /\ data'[5] = l3 /\ data'[6] = l4
      BY <2>5, <2>6
    <2>9. ASSUME NEW i \in 1..u
          PROVE  data'[6 + i] = utf8[i]
      <3>1. 4 + i \in 1..(4 + u) /\ 2 + (4 + i) = 6 + i
        OBVIOUS
      <3> QED
        BY <2>4, <2>6, <3>1
    <2> QED
      BY <2>6, <2>7, <2>8, <2>9
  <1>8. MessageTypes'
    BY <1>1, <1>2, <1>7 DEF MessageTypes
  <1>9. NothingYet'
    BY <1>1 DEF MessageInv, NothingYet
  <1>10. TextWritten'
    BY <1>1, TextStays DEF MessageInv
  <1>11. DataWritten'
    BY <1>1, <1>3, <1>4, <1>5, <1>7 DEF DataWritten
  <1>12. TextRead' /\ TextsSurvive' /\ NothingIsMadeUp'
    BY <1>1 DEF MessageInv, NothingYet, TextRead, TextsSurvive, NothingIsMadeUp
  <1> QED
    BY <1>8, <1>9, <1>10, <1>11, <1>12 DEF MessageInv

\* A little-endian machine tells the type right.
LEMMA TypeTold ==
    ASSUME Representable, written \in Message,
           <<data[1], data[2]>> = ShortBytes(written.type),
           NEW machine \in Machine, ~machine.bigEndian
    PROVE  getMessageTypeFromBytes(machine) = written.type
  <1>1. PICK s1 \in 0..255, s2 \in 0..255 :
            ShortBytes(written.type) = <<s1, s2>> /\ Signed(Short(<<s1, s2>>)) = written.type
    <2> DEFINE low  == written.type % 256
               high == (written.type \div 256) % 256
    <2>1. /\ low \in 0..255 /\ high \in 0..255
          /\ Signed(Short(ShortBytes(written.type))) = written.type
      BY GivenMessage, ShortComesBack
    <2>2. ShortBytes(written.type) = <<low, high>>
      BY DEF ShortBytes
    <2> HIDE DEF low, high
    <2> QED
      BY <2>1, <2>2
  <1>2. data[1] = s1 /\ data[2] = s2
    BY <1>1
  <1>3. read_bytes(machine, <<s1, s2>>) = <<s1, s2>>
    BY BytesRead
  <1> QED
    BY <1>1, <1>2, <1>3 DEF getMessageTypeFromBytes

\* The end of the string is where it was written, or where it cannot be.
LEMMA EndTold ==
    ASSUME NEW u \in Nat, u < 65536 * 65536,
           <<data[3], data[4], data[5], data[6]>> = LongBytes(u),
           NEW machine \in Machine, NEW size
    PROVE  /\ string_end(machine, size) \in Nat
           /\ ~machine.bigEndian => string_end(machine, size) = 6 + u
           /\ machine.bigEndian /\ u < 65536 =>
                 string_end(machine, size) = 6 + u \/ string_end(machine, size) > 6 + u
  <1>1. PICK a \in Nat, b \in Nat, c \in Nat, d \in Nat : IsInBytes(u, a, b, c, d)
    BY LengthInBytes
  <1>2. data[3] = a /\ data[4] = b /\ data[5] = c /\ data[6] = d
    BY <1>1 DEF IsInBytes
  <1>3. u = a + 256 * b + 65536 * c + 16777216 * d
    BY <1>1 DEF IsInBytes
  <1>4. read_bytes(machine, <<a, b, c, d>>)
            = IF machine.bigEndian THEN <<d, c, b, a>> ELSE <<a, b, c, d>>
    BY BytesRead
  <1>5. ASSUME ~machine.bigEndian
        PROVE  string_end(machine, size) = 6 + u
    <2>1. string_end(machine, size) = 6 + Long(<<a, b, c, d>>)
      BY <1>2, <1>4, <1>5 DEF string_end
    <2>2. Long(<<a, b, c, d>>) = a + 256 * b + 65536 * c + 16777216 * d
      BY DEF Long
    <2> QED
      BY <1>3, <2>1, <2>2
  <1>6. ASSUME machine.bigEndian
        PROVE  string_end(machine, size) = 6 + (d + 256 * c + 65536 * b + 16777216 * a)
    <2>1. string_end(machine, size) = 6 + Long(<<d, c, b, a>>)
      BY <1>2, <1>4, <1>6 DEF string_end
    <2>2. Long(<<d, c, b, a>>) = d + 256 * c + 65536 * b + 16777216 * a
      BY DEF Long
    <2> QED
      BY <2>1, <2>2
  <1>7. ASSUME machine.bigEndian, u < 65536
        PROVE  string_end(machine, size) = 6 + u \/ string_end(machine, size) > 6 + u
    <2>1. c = 0 /\ d = 0 /\ u = a + 256 * b
      BY <1>3, <1>7
    <2>2. string_end(machine, size) = 6 + (65536 * b + 16777216 * a)
      BY <1>6, <1>7, <2>1
    <2>3. 65536 * b + 16777216 * a >= a + 256 * b
      OBVIOUS
    <2> QED
      BY <2>1, <2>2, <2>3
  <1>8. string_end(machine, size) \in Nat
    <2>1. machine.bigEndian \in BOOLEAN
      BY DEF Machine
    <2>2. 6 + (d + 256 * c + 65536 * b + 16777216 * a) \in Nat
      OBVIOUS
    <2> QED
      BY <1>5, <1>6, <2>1, <2>2
  <1> QED
    BY <1>5, <1>7, <1>8

\* As many bytes as a uint32_t can count.
LEMMA LengthFits ==
    ASSUME Representable, MessageTypes, TextWritten, transfer # "idle"
    PROVE  Len(utf8) \in Nat /\ Len(utf8) < 65536 * 65536
  <1>1. PICK u \in Nat, m \in Nat, n \in Nat, t \in Nat :
            /\ u = Len(utf8) /\ m = Len(starts) /\ n = MaxText /\ t = Len(written.text)
    <2>1. Len(utf8) \in Nat /\ Len(starts) \in Nat
      BY DEF MessageTypes
    <2>2. MaxText \in Nat
      BY DEF Representable
    <2>3. Len(written.text) \in Nat
      BY GivenMessage DEF MessageTypes
    <2> QED
      BY <2>1, <2>2, <2>3
  <1>2. u <= 4 * (m - 1) /\ m <= t + 1
    BY <1>1 DEF TextWritten
  <1>3. t <= n
    BY <1>1, GivenMessage DEF MessageTypes
  <1>4. 4 * n < 65536 * 65536
    BY <1>1 DEF Representable
  <1> QED
    BY <1>1, <1>2, <1>3, <1>4

LEMMA ReceiveInv ==
    ASSUME Representable, MessageInv, Receive
    PROVE  MessageInv'
  <1>1. /\ transfer = "written" /\ reader' \in Machine /\ received' \in 0..Len(data)
        /\ told' = IF received' < 2 THEN Refused ELSE getMessageTypeFromBytes(reader')
        /\ cur' = 6 /\ result' = result
        /\ written' = written /\ writer' = writer /\ utf8' = utf8 /\ starts' = starts
        /\ data' = data
    BY DEF Receive
  <1>2. \/ /\ received' >= 6 /\ string_end(reader', received') <= received'
           /\ transfer' = "reading" /\ end' = string_end(reader', received') /\ got' = got
        \/ /\ ~(received' >= 6 /\ string_end(reader', received') <= received')
           /\ transfer' = "read" /\ got' = Refused
    BY DEF Receive
  <1>3. /\ writer \in Machine /\ written \in Message
        /\ utf8 \in Seq(Nat) /\ starts \in Seq(Nat) /\ data \in Seq(Nat)
        /\ got = Unread /\ result = << >>
    BY <1>1 DEF MessageInv, MessageTypes, NothingYet
  <1>4. PICK u \in Nat : u = Len(utf8) /\ u < 65536 * 65536
    BY <1>1, LengthFits DEF MessageInv
  <1>5. /\ Len(data) = 6 + u /\ starts[1] = 0
        /\ <<data[1], data[2]>> = ShortBytes(written.type)
        /\ <<data[3], data[4], data[5], data[6]>> = LongBytes(u)
    BY <1>1, <1>4 DEF MessageInv, DataWritten, TextWritten
  <1>6. PICK r \in Nat : r = received' /\ r <= 6 + u
    BY <1>1, <1>5
  <1>7. ~(reader').bigEndian => getMessageTypeFromBytes(reader') = written.type
    BY <1>1, <1>3, <1>5, TypeTold
  <1>8. /\ string_end(reader', received') \in Nat
        /\ ~(reader').bigEndian => string_end(reader', received') = 6 + u
        /\ (reader').bigEndian /\ u < 65536 =>
              string_end(reader', received') = 6 + u \/ string_end(reader', received') > 6 + u
    BY <1>1, <1>4, <1>5, EndTold
  <1>9. MessageTypes'
    BY <1>1, <1>2, <1>3 DEF MessageTypes
  <1>10. NothingYet'
    BY <1>2, <1>3 DEF NothingYet
  <1>11. TextWritten'
    BY <1>1, TextStays DEF MessageInv
  <1>12. DataWritten'
    BY <1>1, DataStays DEF MessageInv
  <1>13. told' \notin {Unread, Refused} /\ ~(reader').bigEndian => told' = written'.type
    BY <1>1, <1>7
  <1>14. CASE /\ received' >= 6 /\ string_end(reader', received') <= received'
              /\ transfer' = "reading" /\ end' = string_end(reader', received') /\ got' = got
    <2>1. told' = (getMessageTypeFromBytes(reader))'
      <3>1. told' = getMessageTypeFromBytes(reader')
        BY <1>1, <1>6, <1>14
      <3> QED
        BY <1>1, <3>1 DEF getMessageTypeFromBytes
    <2>2. LengthIsClear' => r = 6 + u /\ end' = 6 + u
      <3>1. PICK e \in Nat : e = string_end(reader', received')
        BY <1>8
      <3>2. e <= r /\ e = end'
        BY <1>6, <1>14, <3>1
      <3>3. LengthIsClear' => e = 6 + u \/ e > 6 + u
        BY <1>1, <1>4, <1>8, <3>1 DEF LengthIsClear, Machine
      <3> QED
        BY <1>6, <3>2, <3>3
    <2>3. LengthIsClear' =>
             /\ received' = Len(data') /\ end' = Len(data')
             /\ result' \in Seq(Nat) /\ Len(result') <= Len(written'.text)
             /\ cur' = 6 + starts'[Len(result') + 1]
             /\ Len(result') = 0
      <3>1. Len(written.text) \in Nat
        BY <1>3, GivenMessage
      <3>2. result' = << >> /\ Len(result') = 0 /\ result' \in Seq(Nat)
        BY <1>1, <1>3
      <3> QED
        BY <1>1, <1>5, <1>6, <2>2, <3>1, <3>2
    <2>4. TextRead'
      BY <2>1, <2>3 DEF TextRead
    <2>5. TextsSurvive' /\ NothingIsMadeUp'
      BY <1>3, <1>13, <1>14 DEF TextsSurvive, NothingIsMadeUp
    <2> QED
      BY <1>9, <1>10, <1>11, <1>12, <2>4, <2>5 DEF MessageInv
  <1>15. CASE /\ ~(received' >= 6 /\ string_end(reader', received') <= received')
              /\ transfer' = "read" /\ got' = Refused
    <2>1. TextRead'
      BY <1>15 DEF TextRead
    <2>2. TextsSurvive'
      <3>1. ~(received' = Len(data') /\ ~reader'.bigEndian)
        BY <1>1, <1>4, <1>5, <1>6, <1>8, <1>15
      <3> QED
        BY <3>1 DEF TextsSurvive
    <2>3. NothingIsMadeUp'
      BY <1>13, <1>15 DEF NothingIsMadeUp
    <2> QED
      BY <1>9, <1>10, <1>11, <1>12, <2>1, <2>2, <2>3 DEF MessageInv
  <1> QED
    BY <1>2, <1>14, <1>15

\* What the loop is about to read.
LEMMA NextCharacter ==
    ASSUME Representable, MessageInv, transfer = "reading", LengthIsClear,
           NEW k \in Nat, k = Len(result) + 1, k <= Len(written.text)
    PROVE  /\ written.text[k] \in 0..255
           /\ CharBytes(k) \in Seq(Nat) /\ Len(CharBytes(k)) \in 1..4
           /\ cur \in Nat /\ end \in Nat
           /\ cur + Len(CharBytes(k)) = 6 + starts[k + 1]
           /\ cur + Len(CharBytes(k)) <= end
           /\ \A i \in 1..Len(CharBytes(k)) : data[cur + i] = CharBytes(k)[i]
  <1>1. /\ writer \in Machine /\ written \in Message
        /\ utf8 \in Seq(Nat) /\ starts \in Seq(Nat) /\ data \in Seq(Nat)
    BY DEF MessageInv, MessageTypes
  <1>2. /\ received = Len(data) /\ end = Len(data)
        /\ result \in Seq(Nat) /\ cur = 6 + starts[Len(result) + 1]
    BY DEF MessageInv, TextRead
  <1>3. /\ Len(starts) = Len(written.text) + 1
        /\ Len(data) = 6 + Len(utf8)
        /\ \A i \in 1..Len(utf8) : data[6 + i] = utf8[i]
    BY DEF MessageInv, DataWritten
  <1>4. PICK u \in Nat, t \in Nat : u = Len(utf8) /\ t = Len(written.text)
    <2>1. Len(utf8) \in Nat
      BY <1>1
    <2>2. Len(written.text) \in Nat
      BY <1>1, GivenMessage
    <2> QED
      BY <2>1, <2>2
  <1>5. k \in 1..t
    <2>1. Len(result) \in Nat
      BY <1>2
    <2> QED
      BY <1>4, <2>1
  <1>6. written.text[k] \in 0..255
    <2>1. k \in 1..Len(written.text)
      BY <1>4, <1>5
    <2>2. \A j \in 1..Len(written.text) : written.text[j] \in 0..255
      BY <1>1, GivenMessage
    <2> QED
      BY <2>1, <2>2
  <1>7. CharBytes(k) \in Seq(Nat) /\ Len(CharBytes(k)) \in 1..4
    BY <1>1, <1>6, CharactersAsBytes DEF CharBytes
  <1>8. PICK f \in Nat, n \in 1..4 : f = starts[k] /\ n = Len(CharBytes(k))
    <2>1. starts[k] \in Nat
      <3>1. k \in 1..Len(starts)
        BY <1>3, <1>4, <1>5
      <3> QED
        BY <1>1, <3>1
    <2> QED
      BY <1>7, <2>1
  <1>9. /\ starts[k + 1] = f + n /\ f + n <= u
        /\ \A i \in 1..n : utf8[f + i] = CharBytes(k)[i]
    <2>1. k \in 1..(Len(starts) - 1)
      BY <1>3, <1>4, <1>5
    <2>2. /\ starts[k + 1] = starts[k] + Len(CharBytes(k)) /\ starts[k + 1] <= Len(utf8)
          /\ \A i \in 1..Len(CharBytes(k)) : utf8[starts[k] + i] = CharBytes(k)[i]
      BY <2>1 DEF MessageInv, TextWritten
    <2> QED
      BY <1>4, <1>8, <2>2
  <1>10. cur = 6 + f /\ end = 6 + u
    BY <1>2, <1>3, <1>4, <1>8
  <1>11. ASSUME NEW i \in 1..n
         PROVE  data[cur + i] = CharBytes(k)[i]
    <2>1. f + i \in 1..u /\ cur + i = 6 + (f + i)
      BY <1>9, <1>10
    <2>2. data[6 + (f + i)] = utf8[f + i]
      BY <1>3, <1>4, <2>1
    <2> QED
      BY <1>9, <2>1, <2>2
  <1>12. cur \in Nat /\ end \in Nat /\ cur + n = 6 + (f + n) /\ cur + n <= end
    BY <1>9, <1>10
  <1> QED
    BY <1>6, <1>7, <1>8, <1>9, <1>11, <1>12

\* There is one until the end, and none at it.
LEMMA CharactersLeft ==
    ASSUME Representable, MessageInv, transfer = "reading", LengthIsClear
    PROVE  /\ Len(result) \in Nat /\ Len(result) + 1 \in Nat
           /\ cur < end => Len(result) + 1 <= Len(written.text)
           /\ cur = end => Len(result) = Len(written.text)
  <1>1. written \in Message /\ utf8 \in Seq(Nat)
    BY DEF MessageInv, MessageTypes
  <1>2. /\ end = Len(data) /\ result \in Seq(Nat) /\ Len(result) <= Len(written.text)
        /\ cur = 6 + starts[Len(result) + 1]
    BY DEF MessageInv, TextRead
  <1>3. Len(starts) = Len(written.text) + 1 /\ Len(data) = 6 + Len(utf8)
    BY DEF MessageInv, DataWritten
  <1>4. starts[Len(starts)] = Len(utf8)
    BY DEF MessageInv, TextWritten
  <1>5. PICK u \in Nat, t \in Nat, r \in Nat :
            u = Len(utf8) /\ t = Len(written.text) /\ r = Len(result) /\ r <= t
    <2>1. Len(utf8) \in Nat /\ Len(result) \in Nat
      BY <1>1, <1>2
    <2>2. Len(written.text) \in Nat
      BY <1>1, GivenMessage
    <2> QED
      BY <1>2, <2>1, <2>2
  <1>6. r = t => cur = end
    BY <1>2, <1>3, <1>4, <1>5
  <1>7. ASSUME r < t
        PROVE  cur < end
    <2>1. r + 1 \in Nat /\ r + 1 = Len(result) + 1 /\ r + 1 <= Len(written.text)
      BY <1>5, <1>7
    <2>2. /\ Len(CharBytes(r + 1)) \in 1..4 /\ cur \in Nat /\ end \in Nat
          /\ cur + Len(CharBytes(r + 1)) <= end
      BY <2>1, NextCharacter
    <2>3. PICK n \in 1..4 : n = Len(CharBytes(r + 1))
      BY <2>2
    <2>4. PICK c \in Nat, e \in Nat : c = cur /\ e = end
      BY <2>2
    <2>5. c + n <= e
      BY <2>2, <2>3, <2>4
    <2>6. c < e
      BY <2>5
    <2> QED
      BY <2>4, <2>6
  <1>8. cur \in Int /\ end \in Int
    <2>1. end \in Int
      BY <1>2, <1>3, <1>5
    <2>2. r < t \/ r = t
      BY <1>5
    <2>3. ASSUME r < t
          PROVE  cur \in Int
      <3>1. r + 1 \in Nat /\ r + 1 = Len(result) + 1 /\ r + 1 <= Len(written.text)
        BY <1>5, <2>3
      <3> QED
        BY <3>1, NextCharacter
    <2> QED
      BY <1>6, <2>1, <2>2, <2>3
  <1> QED
    BY <1>5, <1>6, <1>7, <1>8

LEMMA ReadCharacterInv ==
    ASSUME Representable, MessageInv, ReadCharacter
    PROVE  MessageInv'
  <1> DEFINE width == Width(data[cur + 1])
  <1>1. /\ transfer = "reading" /\ transfer' = "reading" /\ cur < end
        /\ width \in 1..(end - cur) /\ cur' = cur + width
        /\ result' = Append(result, CharBefore(cur + width, width))
        /\ written' = written /\ writer' = writer /\ utf8' = utf8 /\ starts' = starts
        /\ data' = data /\ reader' = reader /\ received' = received /\ told' = told
        /\ end' = end /\ got' = got
    BY DEF ReadCharacter
  <1> HIDE DEF width
  <1>2. MessageTypes'
    BY <1>1 DEF MessageInv, MessageTypes
  <1>3. NothingYet'
    BY <1>1 DEF MessageInv, NothingYet
  <1>4. TextWritten'
    BY <1>1, TextStays DEF MessageInv
  <1>5. DataWritten'
    BY <1>1, DataStays DEF MessageInv
  <1>6. told' = (getMessageTypeFromBytes(reader))'
    <2>1. told = getMessageTypeFromBytes(reader)
      BY <1>1 DEF MessageInv, TextRead
    <2> QED
      BY <1>1, <2>1 DEF getMessageTypeFromBytes
  <1>7. ASSUME LengthIsClear
        PROVE  /\ received' = Len(data') /\ end' = Len(data')
               /\ result' \in Seq(Nat) /\ Len(result') <= Len(written'.text)
               /\ cur' = 6 + starts'[Len(result') + 1]
               /\ \A j \in 1..Len(result') :
                     result'[j] = written'.text[j] /\ ~Spoilt(writer', written'.text[j])
    <2>1. PICK k \in Nat : k = Len(result) + 1 /\ k <= Len(written.text) /\ k >= 1
      <3>1. Len(result) + 1 \in Nat /\ Len(result) \in Nat /\ Len(result) + 1 <= Len(written.text)
        BY <1>1, <1>7, CharactersLeft
      <3> QED
        BY <3>1
    <2>2. /\ written.text[k] \in 0..255
          /\ CharBytes(k) \in Seq(Nat) /\ Len(CharBytes(k)) \in 1..4
          /\ cur \in Nat /\ end \in Nat
          /\ cur + Len(CharBytes(k)) = 6 + starts[k + 1]
      BY <1>1, <1>7, <2>1, NextCharacter
    <2>3. \A i \in 1..Len(CharBytes(k)) : data[cur + i] = CharBytes(k)[i]
      BY <1>1, <1>7, <2>1, NextCharacter
    <2>4. PICK n \in 1..4 : n = Len(CharBytes(k))
      BY <2>2
    <2>5. /\ Spoilt(writer, written.text[k]) => Width(CharBytes(k)[1]) = 0
          /\ ~Spoilt(writer, written.text[k]) =>
                /\ Width(CharBytes(k)[1]) = Len(CharBytes(k))
                /\ Len(CharBytes(k)) \in {1, 2}
                /\ CharOf(CharBytes(k)) = written.text[k]
      <3>1. writer \in Machine
        BY DEF MessageInv, MessageTypes
      <3> QED
        BY <2>2, <3>1, CharactersAsBytes DEF CharBytes
    <2>6. width = Width(CharBytes(k)[1])
      <3>1. 1 \in 1..Len(CharBytes(k))
        BY <2>4
      <3> QED
        BY <2>3, <3>1 DEF width
    <2>7. ~Spoilt(writer, written.text[k])
      <3>1. width # 0
        BY <1>1, <2>2
      <3> QED
        BY <2>5, <2>6, <3>1
    <2>8. width = Len(CharBytes(k)) /\ width \in {1, 2}
      BY <2>5, <2>6, <2>7
    <2>9. CharBefore(cur + width, width) = written.text[k]
      <3>1. CASE width = 1
        <4>1. data[cur + 1] = CharBytes(k)[1]
          BY <2>3, <2>8, <3>1
        <4>2. CharBefore(cur + width, width) = data[cur + 1]
          BY <3>1 DEF CharBefore
        <4>3. CharOf(CharBytes(k)) = CharBytes(k)[1]
          BY <2>8, <3>1 DEF CharOf
        <4> QED
          BY <2>5, <2>7, <4>1, <4>2, <4>3
      <3>2. CASE width = 2
        <4>1. data[cur + 1] = CharBytes(k)[1] /\ data[cur + 2] = CharBytes(k)[2]
          BY <2>3, <2>8, <3>2
        <4>2. (cur + 2) - 1 = cur + 1
          BY <2>2
        <4>3. CharBefore(cur + width, width) = (data[cur + 1] % 4) * 64 + (data[cur + 2] % 64)
          BY <3>2, <4>2 DEF CharBefore
        <4>4. CharOf(CharBytes(k)) = (CharBytes(k)[1] % 4) * 64 + (CharBytes(k)[2] % 64)
          BY <2>8, <3>2 DEF CharOf
        <4> QED
          BY <2>5, <2>7, <4>1, <4>3, <4>4
      <3> QED
        BY <2>8, <3>1, <3>2
    <2>10. /\ received = Len(data) /\ end = Len(data) /\ result \in Seq(Nat)
          /\ \A j \in 1..Len(result) :
                result[j] = written.text[j] /\ ~Spoilt(writer, written.text[j])
      BY <1>1, <1>7 DEF MessageInv, TextRead
    <2>11. written.text[k] \in Nat
      <3>1. \A c \in 0..255 : c \in Nat
        OBVIOUS
      <3> QED
        BY <2>2, <3>1
    <2>12. /\ result' \in Seq(Nat) /\ Len(result') = k /\ result'[k] = written.text[k]
           /\ \A j \in 1..(k - 1) : result'[j] = result[j]
      BY <1>1, <2>1, <2>9, <2>10, <2>11
    <2>13. ASSUME NEW j \in 1..k
           PROVE  result'[j] = written.text[j] /\ ~Spoilt(writer, written.text[j])
      <3>1. CASE j = k
        BY <2>7, <2>12, <3>1
      <3>2. CASE j # k
        <4>1. j \in 1..(k - 1) /\ k - 1 = Len(result)
          BY <2>1, <2>10, <3>2
        <4> QED
          BY <2>10, <2>12, <4>1
      <3> QED
        BY <3>1, <3>2
    <2>14. cur' = 6 + starts[k + 1]
      BY <1>1, <2>2, <2>8
    <2> QED
      BY <1>1, <2>1, <2>10, <2>12, <2>13, <2>14
  <1>8. LengthIsClear' => LengthIsClear
    BY <1>1 DEF LengthIsClear
  <1>9. TextRead'
    BY <1>6, <1>7, <1>8 DEF TextRead
  <1>10. TextsSurvive'
    BY <1>1 DEF TextsSurvive
  <1>11. NothingIsMadeUp'
    BY <1>1 DEF MessageInv, NothingYet, NothingIsMadeUp
  <1> QED
    BY <1>2, <1>3, <1>4, <1>5, <1>9, <1>10, <1>11 DEF MessageInv

LEMMA ReadInvalidInv ==
    ASSUME Representable, MessageInv, ReadInvalid
    PROVE  MessageInv'
  <1>1. /\ transfer = "reading" /\ transfer' = "read" /\ got' = Refused /\ cur < end
        /\ Width(data[cur + 1]) \notin 1..(end - cur)
        /\ written' = written /\ writer' = writer /\ utf8' = utf8 /\ starts' = starts
        /\ data' = data /\ reader' = reader /\ received' = received /\ told' = told
    BY DEF ReadInvalid
  <1>2. MessageTypes'
    BY <1>1 DEF MessageInv, MessageTypes
  <1>3. NothingYet'
    BY <1>1 DEF NothingYet
  <1>4. TextWritten'
    BY <1>1, TextStays DEF MessageInv
  <1>5. DataWritten'
    BY <1>1, DataStays DEF MessageInv
  <1>6. TextRead'
    BY <1>1 DEF TextRead
  <1>7. ASSUME LengthIsClear
        PROVE  writer.signedChar /\ ~Plain(written.text)
    <2>1. PICK k \in Nat : k = Len(result) + 1 /\ k <= Len(written.text) /\ k >= 1
      <3>1. Len(result) + 1 \in Nat /\ Len(result) \in Nat /\ Len(result) + 1 <= Len(written.text)
        BY <1>1, <1>7, CharactersLeft
      <3> QED
        BY <3>1
    <2>2. /\ written.text[k] \in 0..255
          /\ CharBytes(k) \in Seq(Nat) /\ Len(CharBytes(k)) \in 1..4
          /\ cur \in Nat /\ end \in Nat
          /\ cur + Len(CharBytes(k)) <= end
      BY <1>1, <1>7, <2>1, NextCharacter
    <2>3. \A i \in 1..Len(CharBytes(k)) : data[cur + i] = CharBytes(k)[i]
      BY <1>1, <1>7, <2>1, NextCharacter
    <2>4. PICK n \in 1..4, p \in Nat, e \in Nat :
               n = Len(CharBytes(k)) /\ p = cur /\ e = end /\ p + n <= e
      BY <2>2
    <2>5. ~Spoilt(writer, written.text[k]) => Width(CharBytes(k)[1]) = Len(CharBytes(k))
      <3>1. writer \in Machine
        BY DEF MessageInv, MessageTypes
      <3> QED
        BY <2>2, <3>1, CharactersAsBytes DEF CharBytes
    <2>6. data[cur + 1] = CharBytes(k)[1]
      <3>1. 1 \in 1..Len(CharBytes(k))
        BY <2>4
      <3> QED
        BY <2>3, <3>1
    <2>7. Len(CharBytes(k)) \in 1..(end - cur)
      BY <2>4
    <2>8. Spoilt(writer, written.text[k])
      BY <1>1, <2>5, <2>6, <2>7
    <2>9. k \in 1..Len(written.text)
      <3>1. Len(written.text) \in Nat
        BY <1>1, GivenMessage DEF MessageInv, MessageTypes
      <3> QED
        BY <2>1, <3>1
    <2>10. ~(written.text[k] < 128)
      <3>1. \A c \in 0..255 : c >= 128 => ~(c < 128)
        OBVIOUS
      <3> QED
        BY <2>2, <2>8, <3>1 DEF Spoilt
    <2> QED
      BY <2>8, <2>9, <2>10 DEF Spoilt, Plain
  <1>8. TextsSurvive'
    <2>1. ~reader.bigEndian => LengthIsClear
      BY DEF LengthIsClear
    <2>2. Plain(written'.text) <=> Plain(written.text)
      BY <1>1 DEF Plain
    <2> QED
      BY <1>1, <1>7, <2>1, <2>2 DEF TextsSurvive
  <1>9. NothingIsMadeUp'
    BY <1>1 DEF MessageInv, NothingIsMadeUp
  <1> QED
    BY <1>2, <1>3, <1>4, <1>5, <1>6, <1>8, <1>9 DEF MessageInv

LEMMA deserializeInv ==
    ASSUME Representable, MessageInv, deserialize
    PROVE  MessageInv'
  <1>1. /\ transfer = "reading" /\ transfer' = "read" /\ cur = end
        /\ got' = [type |-> getMessageTypeFromBytes(reader), text |-> result]
        /\ written' = written /\ writer' = writer /\ utf8' = utf8 /\ starts' = starts
        /\ data' = data /\ reader' = reader /\ received' = received /\ told' = told
    BY DEF deserialize
  <1>2. MessageTypes'
    BY <1>1 DEF MessageInv, MessageTypes
  <1>3. NothingYet'
    BY <1>1 DEF NothingYet
  <1>4. TextWritten'
    BY <1>1, TextStays DEF MessageInv
  <1>5. DataWritten'
    BY <1>1, DataStays DEF MessageInv
  <1>6. TextRead'
    BY <1>1 DEF TextRead
  <1>7. written \in Message /\ reader \in Machine
    BY <1>1 DEF MessageInv, MessageTypes
  <1>8. ASSUME LengthIsClear
        PROVE  /\ received = Len(data) /\ result = written.text
               /\ \A k \in 1..Len(written.text) : ~Spoilt(writer, written.text[k])
    <2>1. /\ received = Len(data) /\ result \in Seq(Nat)
          /\ \A k \in 1..Len(result) :
                result[k] = written.text[k] /\ ~Spoilt(writer, written.text[k])
      BY <1>1, <1>8 DEF MessageInv, TextRead
    <2>2. Len(result) = Len(written.text)
      BY <1>1, <1>8, CharactersLeft
    <2>3. written.text \in Seq(Chars)
      <3>1. PICK n \in 0..MaxText : written.text \in [1..n -> Chars]
        BY <1>7 DEF Message
      <3>2. n \in Nat
        BY DEF Representable
      <3> QED
        BY <3>1, <3>2
    <2>4. result = written.text
      BY <2>1, <2>2, <2>3
    <2> QED
      BY <2>1, <2>2, <2>4
  <1>9. ASSUME LengthIsClear
        PROVE  ~(writer.signedChar /\ ~Plain(written.text))
    <2>1. SUFFICES ASSUME writer.signedChar
                   PROVE  Plain(written.text)
      OBVIOUS
    <2>2. ASSUME NEW k \in 1..Len(written.text)
          PROVE  written.text[k] < 128
      <3>1. ~Spoilt(writer, written.text[k]) /\ written.text[k] \in 0..255
        BY <1>7, <1>8, <1>9, GivenMessage
      <3>2. \A c \in 0..255 : c >= 128 \/ c < 128
        OBVIOUS
      <3> QED
        BY <2>1, <3>1, <3>2 DEF Spoilt
    <2> QED
      BY <2>2 DEF Plain
  <1>10. TextsSurvive'
    <2>1. SUFFICES ASSUME ~reader.bigEndian
                   PROVE  (got = IF writer.signedChar /\ ~Plain(written.text)
                                 THEN Refused ELSE written)'
      BY <1>1 DEF TextsSurvive
    <2>2. LengthIsClear
      BY <2>1 DEF LengthIsClear
    <2>3. <<data[1], data[2]>> = ShortBytes(written.type)
      BY <1>1 DEF MessageInv, DataWritten
    <2>4. getMessageTypeFromBytes(reader) = written.type
      BY <1>7, <2>1, <2>3, TypeTold
    <2>5. got' = written
      <3>1. written = [type |-> written.type, text |-> written.text]
        BY <1>7, GivenMessage
      <3> QED
        BY <1>1, <1>8, <2>2, <2>4, <3>1
    <2>6. ~(writer'.signedChar /\ ~Plain(written'.text))
      BY <1>1, <1>9, <2>2
    <2> QED
      BY <1>1, <2>5, <2>6
  <1>11. NothingIsMadeUp'
    <2>1. told = getMessageTypeFromBytes(reader)
      BY <1>1 DEF MessageInv, TextRead
    <2>2. got'.type = told /\ got'.text = result
      BY <1>1, <2>1
    <2>3. (reader'.bigEndian => Len(utf8') < 65536) => LengthIsClear
      BY <1>1 DEF LengthIsClear
    <2>4. told \notin {Unread, Refused} /\ ~reader.bigEndian => told = written.type
      BY DEF MessageInv, NothingIsMadeUp
    <2> QED
      BY <1>1, <1>8, <2>2, <2>3, <2>4 DEF NothingIsMadeUp
  <1> QED
    BY <1>2, <1>3, <1>4, <1>5, <1>6, <1>10, <1>11 DEF MessageInv

LEMMA NothingElseMessage ==
    ASSUME MessageInv, UNCHANGED messageVars
    PROVE  MessageInv'
  <1>1. /\ transfer' = transfer /\ written' = written /\ writer' = writer /\ utf8' = utf8
        /\ starts' = starts /\ data' = data /\ reader' = reader /\ received' = received
        /\ told' = told /\ cur' = cur /\ end' = end /\ result' = result /\ got' = got
    BY DEF messageVars
  <1>2. MessageTypes' /\ NothingYet' /\ DataWritten'
    BY <1>1 DEF MessageInv, MessageTypes, NothingYet, DataWritten
  <1>3. TextWritten'
    <2>1. \A k : (CharBytes(k))' = CharBytes(k)
      BY <1>1 DEF CharBytes
    <2> QED
      BY <1>1, <2>1 DEF MessageInv, TextWritten
  <1>4. TextRead'
    <2>1. getMessageTypeFromBytes(reader)' = getMessageTypeFromBytes(reader)
      BY <1>1 DEF getMessageTypeFromBytes
    <2>2. LengthIsClear' <=> LengthIsClear
      BY <1>1 DEF LengthIsClear
    <2> QED
      BY <1>1, <2>1, <2>2 DEF MessageInv, TextRead
  <1>5. TextsSurvive' /\ NothingIsMadeUp'
    BY <1>1 DEF MessageInv, TextsSurvive, NothingIsMadeUp, Plain
  <1> QED
    BY <1>2, <1>3, <1>4, <1>5 DEF MessageInv

\* The invariant of the messages, of which the theorems are parts.
LEMMA MessagesInv ==
    ASSUME Representable
    PROVE  MessageSpec => []MessageInv
  <1>1. MessageInit => MessageInv
    BY InitMessageInv
  <1>2. MessageInv /\ [MessageNext]_messageVars => MessageInv'
    BY serializeInv, WriteCharacterInv, AssembleInv, ReceiveInv, ReadCharacterInv,
       ReadInvalidInv, deserializeInv, NothingElseMessage DEF MessageNext
  <1> QED
    BY <1>1, <1>2, PTL DEF MessageSpec

\* A message that arrives whole at a little-endian machine is read as it was written
\* (BinaryData.h:125-201), for every text of at most MaxText bytes and every type.
THEOREM TextsComeThrough ==
    ASSUME Representable
    PROVE  MessageSpec => []TextsSurvive
  <1>1. MessageInv => TextsSurvive
    BY DEF MessageInv
  <1> QED
    BY <1>1, MessagesInv, PTL

\* Whatever part of a message arrives at whatever machine, what is read from it was
\* written, under the type that is told; on a little-endian machine that is the one
\* that was written (BinaryData.h:42-201).
THEOREM NothingInvented ==
    ASSUME Representable
    PROVE  MessageSpec => []NothingIsMadeUp
  <1>1. MessageInv => NothingIsMadeUp
    BY DEF MessageInv
  <1> QED
    BY <1>1, MessagesInv, PTL

-----------------------------------------------------------------------------
(* Base64: the bits that the loops keep. *)

\* What the inner loop takes out of the two bytes read last, and the last step out
\* of the byte read last.
SymbolsOf(x, y) ==
    /\ ((256 * x + y) \div 4) % 64 = y \div 4
    /\ ((256 * x + y) \div 16) % 64 = (x % 4) * 16 + y \div 16
    /\ ((256 * x + y) \div 64) % 64 = (x % 16) * 4 + y \div 64
    /\ (256 * x + y) % 64 = y % 64

RestOf(x, y) ==
    /\ (((256 * x + y) * 256) \div 16) % 64 = (y % 4) * 16
    /\ (((256 * x + y) * 256) \div 64) % 64 = (y % 16) * 4

LEMMA SixBits ==
    ASSUME NEW x \in Nat, NEW y \in Nat, x < 256, y < 256
    PROVE  SymbolsOf(x, y)
  <1>1. ((256 * x + y) \div 4) % 64 = y \div 4
    OBVIOUS
  <1>2. ((256 * x + y) \div 16) % 64 = (x % 4) * 16 + y \div 16
    OBVIOUS
  <1>3. ((256 * x + y) \div 64) % 64 = (x % 16) * 4 + y \div 64
    OBVIOUS
  <1>4. (256 * x + y) % 64 = y % 64
    OBVIOUS
  <1> QED
    BY <1>1, <1>2, <1>3, <1>4 DEF SymbolsOf

LEMMA RestOfBits ==
    ASSUME NEW x \in Nat, NEW y \in Nat, x < 256, y < 256
    PROVE  RestOf(x, y)
  <1>1. PICK q \in Nat, r \in Nat :
               r < 4 /\ y = 4 * q + r /\ y % 4 = r
    <2>1. y \div 4 \in Nat /\ y % 4 \in Nat
      OBVIOUS
    <2>2. y % 4 < 4 /\ y = 4 * (y \div 4) + (y % 4)
      OBVIOUS
    <2> QED
      BY <2>1, <2>2
  <1>2. PICK s \in Nat, t \in Nat :
               t < 16 /\ y = 16 * s + t /\ y % 16 = t
    <2>1. y \div 16 \in Nat /\ y % 16 \in Nat
      OBVIOUS
    <2>2. y % 16 < 16 /\ y = 16 * (y \div 16) + (y % 16)
      OBVIOUS
    <2> QED
      BY <2>1, <2>2
  <1>3. (((256 * x + y) * 256) \div 16) % 64 = (y % 4) * 16
    <2>1. (256 * x + y) * 256 = 16 * (64 * (64 * x + q) + 16 * r)
      BY <1>1
    <2>2. (16 * (64 * (64 * x + q) + 16 * r)) \div 16 = 64 * (64 * x + q) + 16 * r
      OBVIOUS
    <2>3. (64 * (64 * x + q) + 16 * r) % 64 = 16 * r
      BY <1>1
    <2> QED
      BY <1>1, <2>1, <2>2, <2>3
  <1>4. (((256 * x + y) * 256) \div 64) % 64 = (y % 16) * 4
    <2>1. (256 * x + y) * 256 = 64 * (64 * (16 * x + s) + 4 * t)
      BY <1>2
    <2>2. (64 * (64 * (16 * x + s) + 4 * t)) \div 64 = 64 * (16 * x + s) + 4 * t
      OBVIOUS
    <2>3. (64 * (16 * x + s) + 4 * t) % 64 = 4 * t
      BY <1>2
    <2> QED
      BY <1>2, <2>1, <2>2, <2>3
  <1> QED
    BY <1>3, <1>4 DEF RestOf

\* A byte that comes in pushes the one before the last out.
ByteAfter(x, y, b) == ((256 * x + y) * 256 + b) % 65536 = 256 * y + b

LEMMA ByteComesIn ==
    ASSUME NEW x \in Nat, NEW y \in Nat, NEW b \in Nat, x < 256, y < 256, b < 256
    PROVE  ByteAfter(x, y, b)
  BY DEF ByteAfter

\* The bytes that from_base64 takes out of the symbols of three bytes, whatever it
\* carries above their bits.
Last(v, s, t) == v % 4096 = 64 * s + t

FirstOf(v, x, y) ==
    Last(v, x \div 4, (x % 4) * 16 + y \div 16) => (v \div 16) % 256 = x

SecondOf(v, x, y, z) ==
    Last(v, (x % 4) * 16 + y \div 16, (y % 16) * 4 + z \div 64) => (v \div 4) % 256 = y

ThirdOf(v, y, z) ==
    Last(v, (y % 16) * 4 + z \div 64, z % 64) => v % 256 = z

LEMMA FirstByte ==
    ASSUME NEW v \in Nat, NEW x \in Nat, NEW y \in Nat, x < 256, y < 256
    PROVE  FirstOf(v, x, y)
  <1> SUFFICES ASSUME v % 4096 = 64 * (x \div 4) + ((x % 4) * 16 + y \div 16)
               PROVE  (v \div 16) % 256 = x
    BY DEF FirstOf, Last
  <1>1. PICK w \in Nat, u \in Nat :
               /\ u < 4096 /\ v = 4096 * w + u
               /\ v \div 4096 = w /\ v % 4096 = u
    <2>1. v \div 4096 \in Nat /\ v % 4096 \in Nat
      OBVIOUS
    <2>2. v % 4096 < 4096 /\ v = 4096 * (v \div 4096) + (v % 4096)
      OBVIOUS
    <2> QED
      BY <2>1, <2>2
  <1>2. PICK q \in Nat, r \in Nat :
               /\ r < 4 /\ x = 4 * q + r
               /\ x \div 4 = q /\ x % 4 = r
    <2>1. x \div 4 \in Nat /\ x % 4 \in Nat
      OBVIOUS
    <2>2. x % 4 < 4 /\ x = 4 * (x \div 4) + (x % 4)
      OBVIOUS
    <2> QED
      BY <2>1, <2>2
  <1>3. PICK s \in Nat, t \in Nat :
               /\ t < 16 /\ y = 16 * s + t
               /\ y \div 16 = s /\ y % 16 = t
    <2>1. y \div 16 \in Nat /\ y % 16 \in Nat
      OBVIOUS
    <2>2. y % 16 < 16 /\ y = 16 * (y \div 16) + (y % 16)
      OBVIOUS
    <2> QED
      BY <2>1, <2>2
  <1>4. v = 16 * (256 * w + x) + s
    BY <1>1, <1>2, <1>3
  <1>5. s < 16
    BY <1>3
  <1>6. (16 * (256 * w + x) + s) \div 16 = 256 * w + x
    BY <1>5
  <1>7. (256 * w + x) % 256 = x
    OBVIOUS
  <1> QED
    BY <1>4, <1>6, <1>7

LEMMA SecondByte ==
    ASSUME NEW v \in Nat, NEW x \in Nat, NEW y \in Nat, NEW z \in Nat, y < 256, z < 256
    PROVE  SecondOf(v, x, y, z)
  <1> SUFFICES ASSUME v % 4096 = 64 * ((x % 4) * 16 + y \div 16) + ((y % 16) * 4 + z \div 64)
               PROVE  (v \div 4) % 256 = y
    BY DEF SecondOf, Last
  <1>1. PICK w \in Nat, u \in Nat :
               /\ u < 4096 /\ v = 4096 * w + u
               /\ v \div 4096 = w /\ v % 4096 = u
    <2>1. v \div 4096 \in Nat /\ v % 4096 \in Nat
      OBVIOUS
    <2>2. v % 4096 < 4096 /\ v = 4096 * (v \div 4096) + (v % 4096)
      OBVIOUS
    <2> QED
      BY <2>1, <2>2
  <1>2. PICK q \in Nat, r \in Nat :
               /\ r < 4 /\ x = 4 * q + r
               /\ x \div 4 = q /\ x % 4 = r
    <2>1. x \div 4 \in Nat /\ x % 4 \in Nat
      OBVIOUS
    <2>2. x % 4 < 4 /\ x = 4 * (x \div 4) + (x % 4)
      OBVIOUS
    <2> QED
      BY <2>1, <2>2
  <1>3. PICK s \in Nat, t \in Nat :
               /\ t < 16 /\ y = 16 * s + t
               /\ y \div 16 = s /\ y % 16 = t
    <2>1. y \div 16 \in Nat /\ y % 16 \in Nat
      OBVIOUS
    <2>2. y % 16 < 16 /\ y = 16 * (y \div 16) + (y % 16)
      OBVIOUS
    <2> QED
      BY <2>1, <2>2
  <1>4. PICK m \in Nat, n \in Nat :
               /\ n < 64 /\ z = 64 * m + n
               /\ z \div 64 = m /\ z % 64 = n
    <2>1. z \div 64 \in Nat /\ z % 64 \in Nat
      OBVIOUS
    <2>2. z % 64 < 64 /\ z = 64 * (z \div 64) + (z % 64)
      OBVIOUS
    <2> QED
      BY <2>1, <2>2
  <1>5. v = 4 * (256 * (4 * w + r) + y) + m
    BY <1>1, <1>2, <1>3, <1>4
  <1>6. m < 4
    BY <1>4
  <1>7. (4 * (256 * (4 * w + r) + y) + m) \div 4 = 256 * (4 * w + r) + y
    BY <1>6
  <1>8. (256 * (4 * w + r) + y) % 256 = y
    OBVIOUS
  <1> QED
    BY <1>5, <1>7, <1>8

LEMMA ThirdByte ==
    ASSUME NEW v \in Nat, NEW y \in Nat, NEW z \in Nat, z < 256
    PROVE  ThirdOf(v, y, z)
  <1> SUFFICES ASSUME v % 4096 = 64 * ((y % 16) * 4 + z \div 64) + (z % 64)
               PROVE  v % 256 = z
    BY DEF ThirdOf, Last
  <1>1. PICK w \in Nat, u \in Nat :
               /\ u < 4096 /\ v = 4096 * w + u
               /\ v \div 4096 = w /\ v % 4096 = u
    <2>1. v \div 4096 \in Nat /\ v % 4096 \in Nat
      OBVIOUS
    <2>2. v % 4096 < 4096 /\ v = 4096 * (v \div 4096) + (v % 4096)
      OBVIOUS
    <2> QED
      BY <2>1, <2>2
  <1>2. PICK s \in Nat, t \in Nat :
               /\ t < 16 /\ y = 16 * s + t
               /\ y \div 16 = s /\ y % 16 = t
    <2>1. y \div 16 \in Nat /\ y % 16 \in Nat
      OBVIOUS
    <2>2. y % 16 < 16 /\ y = 16 * (y \div 16) + (y % 16)
      OBVIOUS
    <2> QED
      BY <2>1, <2>2
  <1>3. PICK m \in Nat, n \in Nat :
               /\ n < 64 /\ z = 64 * m + n
               /\ z \div 64 = m /\ z % 64 = n
    <2>1. z \div 64 \in Nat /\ z % 64 \in Nat
      OBVIOUS
    <2>2. z % 64 < 64 /\ z = 64 * (z \div 64) + (z % 64)
      OBVIOUS
    <2> QED
      BY <2>1, <2>2
  <1>4. v = 256 * (16 * w + t) + z
    BY <1>1, <1>2, <1>3
  <1>5. (256 * (16 * w + t) + z) % 256 = z
    OBVIOUS
  <1> QED
    BY <1>4, <1>5

\* A symbol that comes in moves the one before up.
SymbolOf(v, s, t, c) ==
    Last(v, s, t) => (v * 64 + c) % 65536 \in Nat /\ Last((v * 64 + c) % 65536, t, c)

LEMMA SymbolComesIn ==
    ASSUME NEW v \in Nat, NEW s \in Nat, NEW t \in Nat, NEW c \in Nat, t < 64, c < 64
    PROVE  SymbolOf(v, s, t, c)
  <1> SUFFICES ASSUME v % 4096 = 64 * s + t
               PROVE  /\ (v * 64 + c) % 65536 \in Nat
                      /\ ((v * 64 + c) % 65536) % 4096 = 64 * t + c
    BY DEF SymbolOf, Last
  <1>1. PICK w \in Nat, u \in Nat :
               /\ u < 4096 /\ v = 4096 * w + u
               /\ v \div 4096 = w /\ v % 4096 = u
    <2>1. v \div 4096 \in Nat /\ v % 4096 \in Nat
      OBVIOUS
    <2>2. v % 4096 < 4096 /\ v = 4096 * (v \div 4096) + (v % 4096)
      OBVIOUS
    <2> QED
      BY <2>1, <2>2
  <1>2. v * 64 + c = 4096 * (64 * w + s) + (64 * t + c)
    BY <1>1
  <1>3. (4096 * (64 * w + s) + (64 * t + c)) % 4096 = 64 * t + c
    OBVIOUS
  <1>4. PICK n \in Nat : n = v * 64 + c
    OBVIOUS
  <1>5. n % 65536 \in Nat /\ (n % 65536) % 4096 = n % 4096
    OBVIOUS
  <1> QED
    BY <1>2, <1>3, <1>4, <1>5

-----------------------------------------------------------------------------
(* Base64: the reference, symbol by symbol. *)

LEMMA BytesOfDigits ==
    ASSUME hex \in Seq(0..15)
    PROVE  /\ ByteCount \in Nat
           /\ \A n \in Int : Byte(n) \in Nat /\ Byte(n) < 256
           /\ \A n \in 1..ByteCount : Byte(n) = InputByte(n) /\ InputByte(n) \in 0..255
  <1>1. ByteCount \in Nat /\ 2 * ByteCount <= Len(hex) + 1
    BY DEF ByteCount
  <1>2. ASSUME NEW n \in 1..ByteCount
        PROVE  InputByte(n) \in 0..255
    <2>1. 2 * n - 1 \in 1..Len(hex)
      BY <1>1
    <2>2. hex[2 * n - 1] \in 0..15
      BY <2>1
    <2>3. CASE 2 * n <= Len(hex)
      <3>1. hex[2 * n] \in 0..15
        BY <2>3
      <3>2. \A a, b \in 0..15 : 16 * a + b \in 0..255
        OBVIOUS
      <3>3. 16 * hex[2 * n - 1] + hex[2 * n] \in 0..255
        BY <2>2, <3>1, <3>2
      <3> QED
        BY <2>3, <3>3 DEF InputByte
    <2>4. CASE ~(2 * n <= Len(hex))
      BY <2>2, <2>4 DEF InputByte
    <2> QED
      BY <2>3, <2>4
  <1>3. \A n \in 1..ByteCount : Byte(n) = InputByte(n)
    BY DEF Byte
  <1>4. ASSUME NEW n \in Int
        PROVE  Byte(n) \in Nat /\ Byte(n) < 256
    <2>1. CASE n \in 1..ByteCount
      <3>1. Byte(n) \in 0..255
        BY <1>2, <1>3, <2>1
      <3>2. \A b \in 0..255 : b \in Nat /\ b < 256
        OBVIOUS
      <3> QED
        BY <3>1, <3>2
    <2>2. CASE n \notin 1..ByteCount
      BY <2>2 DEF Byte
    <2> QED
      BY <2>1, <2>2
  <1> QED
    BY <1>1, <1>2, <1>3, <1>4

LEMMA Bytes ==
    ASSUME hex \in Seq(0..15), NEW j \in Nat
    PROVE  /\ Byte(3 * j + 1) \in Nat /\ Byte(3 * j + 1) < 256
           /\ Byte(3 * j + 2) \in Nat /\ Byte(3 * j + 2) < 256
           /\ Byte(3 * j + 3) \in Nat /\ Byte(3 * j + 3) < 256
  <1>1. 3 * j + 1 \in Int /\ 3 * j + 2 \in Int /\ 3 * j + 3 \in Int
    OBVIOUS
  <1> QED
    BY <1>1, BytesOfDigits

LEMMA SextetAt ==
    ASSUME NEW j \in Nat
    PROVE  /\ Sextet(4 * j + 1) = Byte(3 * j + 1) \div 4
           /\ Sextet(4 * j + 2) = (Byte(3 * j + 1) % 4) * 16 + Byte(3 * j + 2) \div 16
           /\ Sextet(4 * j + 3) = (Byte(3 * j + 2) % 16) * 4 + Byte(3 * j + 3) \div 64
           /\ Sextet(4 * j + 4) = Byte(3 * j + 3) % 64
  <1>1. ((4 * j + 1) - 1) \div 4 = j /\ ((4 * j + 1) - 1) % 4 = 0
    OBVIOUS
  <1>2. ((4 * j + 2) - 1) \div 4 = j /\ ((4 * j + 2) - 1) % 4 = 1
    OBVIOUS
  <1>3. ((4 * j + 3) - 1) \div 4 = j /\ ((4 * j + 3) - 1) % 4 = 2
    OBVIOUS
  <1>4. ((4 * j + 4) - 1) \div 4 = j /\ ((4 * j + 4) - 1) % 4 = 3
    OBVIOUS
  <1>5. Sextet(4 * j + 1) = Byte(3 * j + 1) \div 4
    BY <1>1 DEF Sextet
  <1>6. Sextet(4 * j + 2) = (Byte(3 * j + 1) % 4) * 16 + Byte(3 * j + 2) \div 16
    BY <1>2 DEF Sextet
  <1>7. Sextet(4 * j + 3) = (Byte(3 * j + 2) % 16) * 4 + Byte(3 * j + 3) \div 64
    BY <1>3 DEF Sextet
  <1>8. Sextet(4 * j + 4) = Byte(3 * j + 3) % 64
    BY <1>4 DEF Sextet
  <1> QED
    BY <1>5, <1>6, <1>7, <1>8

\* Every symbol is one of the four of its group.
LEMMA Groups ==
    ASSUME NEW k \in Nat, k >= 1
    PROVE  \E j \in Nat : k \in {4 * j + 1, 4 * j + 2, 4 * j + 3, 4 * j + 4}
  <1>1. (k - 1) \div 4 \in Nat /\ (k - 1) % 4 \in {0, 1, 2, 3}
        /\ k - 1 = 4 * ((k - 1) \div 4) + ((k - 1) % 4)
    OBVIOUS
  <1> QED
    BY <1>1

LEMMA SmallSymbols ==
    ASSUME NEW x \in Nat, NEW y \in Nat, x < 256, y < 256
    PROVE  /\ x \div 4 \in 0..63 /\ x % 64 \in 0..63
           /\ (x % 4) * 16 + y \div 16 \in 0..63
           /\ (x % 16) * 4 + y \div 64 \in 0..63
  <1>1. x \div 4 \in 0..63 /\ x % 64 \in 0..63
    OBVIOUS
  <1>2. x % 4 \in 0..3 /\ y \div 16 \in 0..15
    OBVIOUS
  <1>3. x % 16 \in 0..15 /\ y \div 64 \in 0..3
    OBVIOUS
  <1> QED
    BY <1>1, <1>2, <1>3

LEMMA SextetsAreSmall ==
    ASSUME hex \in Seq(0..15), NEW k \in Nat, k >= 1
    PROVE  Sextet(k) \in 0..63
  <1>1. PICK j \in Nat : k \in {4 * j + 1, 4 * j + 2, 4 * j + 3, 4 * j + 4}
    BY Groups
  <1>2. /\ Byte(3 * j + 1) \in Nat /\ Byte(3 * j + 1) < 256
        /\ Byte(3 * j + 2) \in Nat /\ Byte(3 * j + 2) < 256
        /\ Byte(3 * j + 3) \in Nat /\ Byte(3 * j + 3) < 256
    BY Bytes
  <1>3. \A x, y \in Nat : x < 256 /\ y < 256 =>
           /\ x \div 4 \in 0..63 /\ x % 64 \in 0..63
           /\ (x % 4) * 16 + y \div 16 \in 0..63
           /\ (x % 16) * 4 + y \div 64 \in 0..63
    BY SmallSymbols
  <1>4. PICK b1 \in Nat, b2 \in Nat, b3 \in Nat :
           /\ b1 < 256 /\ b1 = Byte(3 * j + 1)
           /\ b2 < 256 /\ b2 = Byte(3 * j + 2)
           /\ b3 < 256 /\ b3 = Byte(3 * j + 3)
    BY <1>2
  <1>5. /\ b1 \div 4 \in 0..63 /\ (b1 % 4) * 16 + b2 \div 16 \in 0..63
        /\ (b2 % 16) * 4 + b3 \div 64 \in 0..63 /\ b3 % 64 \in 0..63
    BY <1>3, <1>4
  <1>6. /\ Sextet(4 * j + 1) = b1 \div 4
        /\ Sextet(4 * j + 2) = (b1 % 4) * 16 + b2 \div 16
        /\ Sextet(4 * j + 3) = (b2 % 16) * 4 + b3 \div 64
        /\ Sextet(4 * j + 4) = b3 % 64
    BY <1>4, SextetAt
  <1> QED
    BY <1>1, <1>5, <1>6

\* How many symbols stand for some bytes.
LEMMA SymbolsOfBytes ==
    ASSUME NEW n \in Nat
    PROVE  /\ (8 * n + 5) \div 6 \in Nat
           /\ 6 * ((8 * n + 5) \div 6) >= 8 * n /\ 6 * ((8 * n + 5) \div 6) <= 8 * n + 5
           /\ (n + 2) \div 3 \in Nat
           /\ (8 * n + 5) \div 6 <= 4 * ((n + 2) \div 3)
           /\ 4 * ((n + 2) \div 3) < (8 * n + 5) \div 6 + 4
  OBVIOUS

LEMMA Counts ==
    ASSUME hex \in Seq(0..15)
    PROVE  /\ ByteCount \in Nat /\ SextetCount \in Nat /\ (ByteCount + 2) \div 3 \in Nat
           /\ 6 * SextetCount >= 8 * ByteCount /\ 6 * SextetCount <= 8 * ByteCount + 5
           /\ SextetCount <= 4 * ((ByteCount + 2) \div 3)
           /\ 4 * ((ByteCount + 2) \div 3) < SextetCount + 4
  <1>1. ByteCount \in Nat
    BY BytesOfDigits
  <1> QED
    BY <1>1, SymbolsOfBytes DEF SextetCount

\* Where the loops are when they have shifted so far.
LEMMA Positions ==
    \A k, n \in Nat :
        /\ 3 * k + 1 = 4 * n => \E j \in Nat : k = 4 * j + 1 /\ n = 3 * j + 1
        /\ 3 * k + 2 = 4 * n => \E j \in Nat : k = 4 * j + 2 /\ n = 3 * j + 2
        /\ 3 * k + 3 = 4 * n => \E j \in Nat : k = 4 * j + 3 /\ n = 3 * j + 3
        /\ 3 * k = 4 * n /\ k >= 1 => \E j \in Nat : k = 4 * j + 4 /\ n = 3 * j + 3
  <1> TAKE k, n \in Nat
  <1>1. 3 * k + 1 = 4 * n => k - n \in Nat /\ k = 4 * (k - n) + 1 /\ n = 3 * (k - n) + 1
    OBVIOUS
  <1>2. 3 * k + 2 = 4 * n => k - n \in Nat /\ k = 4 * (k - n) + 2 /\ n = 3 * (k - n) + 2
    OBVIOUS
  <1>3. 3 * k + 3 = 4 * n => k - n \in Nat /\ k = 4 * (k - n) + 3 /\ n = 3 * (k - n) + 3
    OBVIOUS
  <1>4. 3 * k = 4 * n /\ k >= 1 =>
           k - n - 1 \in Nat /\ k = 4 * (k - n - 1) + 4 /\ n = 3 * (k - n - 1) + 3
    OBVIOUS
  <1> QED
    BY <1>1, <1>2, <1>3, <1>4

\* The definitions that read only the digits.
LEMMA SameDigits ==
    ASSUME hex' = hex
    PROVE  /\ ByteCount' = ByteCount /\ SextetCount' = SextetCount
           /\ \A n \in Int : InputByte(n)' = InputByte(n) /\ Byte(n)' = Byte(n)
           /\ \A k \in Int : Sextet(k)' = Sextet(k)
           /\ Reference' = Reference
  <1>1. ByteCount' = ByteCount
    BY DEF ByteCount
  <1>2. SextetCount' = SextetCount
    BY <1>1 DEF SextetCount
  <1>3. ASSUME NEW n PROVE InputByte(n)' = InputByte(n) /\ Byte(n)' = Byte(n)
    BY <1>1 DEF InputByte, Byte
  <1>4. ASSUME NEW k PROVE Sextet(k)' = Sextet(k)
    BY <1>3 DEF Sextet
  <1>5. Reference' = Reference
    BY <1>1, <1>2, <1>4 DEF Reference
  <1> QED
    BY <1>1, <1>2, <1>3, <1>4, <1>5

LEMMA PowersOfTwo ==
    TwoTo[0] = 1 /\ TwoTo[2] = 4 /\ TwoTo[4] = 16 /\ TwoTo[6] = 64
  BY DEF TwoTo

\* What the inner loop appends, b bits from the end of the two bytes read last.
LEMMA NewSymbol ==
    ASSUME hex \in Seq(0..15), NEW k \in Nat, k >= 1, NEW n \in Nat,
           NEW b \in {0, 2, 4, 6}, 6 * k + b = 8 * n
    PROVE  ShiftRight(256 * Byte(n - 1) + Byte(n), b) % 64 = Sextet(k)
  <1>1. PICK x \in Nat, y \in Nat : x < 256 /\ x = Byte(n - 1) /\ y < 256 /\ y = Byte(n)
    <2>1. n - 1 \in Int /\ n \in Int
      OBVIOUS
    <2> QED
      BY <2>1, BytesOfDigits
  <1>2. /\ ((256 * x + y) \div 4) % 64 = y \div 4
        /\ ((256 * x + y) \div 16) % 64 = (x % 4) * 16 + y \div 16
        /\ ((256 * x + y) \div 64) % 64 = (x % 16) * 4 + y \div 64
        /\ (256 * x + y) % 64 = y % 64
    <2>1. SymbolsOf(x, y)
      BY <1>1, SixBits
    <2> QED
      BY <2>1 DEF SymbolsOf
  <1>3. CASE b = 2
    <2>1. PICK j \in Nat : k = 4 * j + 1 /\ n = 3 * j + 1
      <3>1. 3 * k + 1 = 4 * n
        BY <1>3
      <3> QED
        BY <3>1, Positions
    <2>2. Sextet(k) = y \div 4
      BY <1>1, <2>1, SextetAt
    <2> QED
      BY <1>1, <1>2, <1>3, <2>2, PowersOfTwo DEF ShiftRight
  <1>4. CASE b = 4
    <2>1. PICK j \in Nat : k = 4 * j + 2 /\ n = 3 * j + 2
      <3>1. 3 * k + 2 = 4 * n
        BY <1>4
      <3> QED
        BY <3>1, Positions
    <2>2. n - 1 = 3 * j + 1
      BY <2>1
    <2>3. Sextet(k) = (x % 4) * 16 + y \div 16
      BY <1>1, <2>1, <2>2, SextetAt
    <2> QED
      BY <1>1, <1>2, <1>4, <2>3, PowersOfTwo DEF ShiftRight
  <1>5. CASE b = 6
    <2>1. PICK j \in Nat : k = 4 * j + 3 /\ n = 3 * j + 3
      <3>1. 3 * k + 3 = 4 * n
        BY <1>5
      <3> QED
        BY <3>1, Positions
    <2>2. n - 1 = 3 * j + 2
      BY <2>1
    <2>3. Sextet(k) = (x % 16) * 4 + y \div 64
      BY <1>1, <2>1, <2>2, SextetAt
    <2> QED
      BY <1>1, <1>2, <1>5, <2>3, PowersOfTwo DEF ShiftRight
  <1>6. CASE b = 0
    <2>1. PICK j \in Nat : k = 4 * j + 4 /\ n = 3 * j + 3
      <3>1. 3 * k = 4 * n
        BY <1>6
      <3> QED
        BY <3>1, Positions
    <2>2. Sextet(k) = y % 64
      BY <1>1, <2>1, SextetAt
    <2>3. (256 * x + y) \div 1 = 256 * x + y
      OBVIOUS
    <2> QED
      BY <1>1, <1>2, <1>6, <2>2, <2>3, PowersOfTwo DEF ShiftRight
  <1> QED
    BY <1>3, <1>4, <1>5, <1>6

\* What the last step appends: the bytes that are missing count as zero.
LEMMA LastSymbol ==
    ASSUME hex \in Seq(0..15), NEW k \in Nat, k >= 1,
           val_b \in {-4, -2}, 6 * k + val_b = 8 * ByteCount,
           val = 256 * Byte(ByteCount - 1) + Byte(ByteCount)
    PROVE  ShiftRight(val * 256, val_b + 8) % 64 = Sextet(k)
  <1>0. ByteCount \in Nat
    BY BytesOfDigits
  <1>1. PICK x \in Nat, y \in Nat :
           x < 256 /\ x = Byte(ByteCount - 1) /\ y < 256 /\ y = Byte(ByteCount)
    <2>1. ByteCount - 1 \in Int /\ ByteCount \in Int
      BY <1>0
    <2> QED
      BY <2>1, BytesOfDigits
  <1>2. /\ (((256 * x + y) * 256) \div 16) % 64 = (y % 4) * 16
        /\ (((256 * x + y) * 256) \div 64) % 64 = (y % 16) * 4
    <2>1. RestOf(x, y)
      BY <1>1, RestOfBits
    <2> QED
      BY <2>1 DEF RestOf
  <1>3. Byte(ByteCount + 1) = 0
    BY <1>0 DEF Byte
  <1>4. CASE val_b = -4
    <2>1. PICK j \in Nat : k = 4 * j + 2 /\ ByteCount = 3 * j + 1
      <3>1. ByteCount + 1 \in Nat /\ 3 * k + 2 = 4 * (ByteCount + 1)
        BY <1>0, <1>4
      <3>2. PICK j \in Nat : k = 4 * j + 2 /\ ByteCount + 1 = 3 * j + 2
        BY <1>0, <3>1, Positions
      <3> QED
        BY <1>0, <3>2
    <2>2. Sextet(k) = (y % 4) * 16 + 0 \div 16
      BY <1>1, <1>3, <2>1, SextetAt
    <2>3. 0 \div 16 = 0 /\ val_b + 8 = 4 /\ (y % 4) * 16 + 0 = (y % 4) * 16
      BY <1>4
    <2>4. ShiftRight(val * 256, val_b + 8) = ((256 * x + y) * 256) \div 16
      BY <1>1, <2>3, PowersOfTwo DEF ShiftRight
    <2> QED
      BY <1>2, <2>2, <2>3, <2>4
  <1>5. CASE val_b = -2
    <2>1. PICK j \in Nat : k = 4 * j + 3 /\ ByteCount = 3 * j + 2
      <3>1. ByteCount + 1 \in Nat /\ 3 * k + 3 = 4 * (ByteCount + 1)
        BY <1>0, <1>5
      <3>2. PICK j \in Nat : k = 4 * j + 3 /\ ByteCount + 1 = 3 * j + 3
        BY <1>0, <3>1, Positions
      <3> QED
        BY <1>0, <3>2
    <2>2. Sextet(k) = (y % 16) * 4 + 0 \div 64
      BY <1>1, <1>3, <2>1, SextetAt
    <2>3. 0 \div 64 = 0 /\ val_b + 8 = 6 /\ (y % 16) * 4 + 0 = (y % 16) * 4
      BY <1>5
    <2>4. ShiftRight(val * 256, val_b + 8) = ((256 * x + y) * 256) \div 64
      BY <1>1, <2>3, PowersOfTwo DEF ShiftRight
    <2> QED
      BY <1>2, <2>2, <2>3, <2>4
  <1> QED
    BY <1>4, <1>5

-----------------------------------------------------------------------------
(* Base64: the inductive invariant. *)

Was(k) == IF k >= 1 THEN Sextet(k) ELSE 0

Base64Types ==
    /\ coding \in {"idle", "encoding", "padding", "decoding", "done"}
    /\ hex \in Seq(0..15) /\ text \in Seq(0..64) /\ bytes \in Seq(0..255)
    /\ taken \in Nat /\ val \in Nat /\ val_b \in Int /\ place \in Nat

NothingCoded ==
    coding = "idle" => taken = 0 /\ val = 0 /\ text = << >>

NothingDecoded ==
    coding \in {"idle", "encoding", "padding"} => place = 0 /\ bytes = << >>

\* The symbols so far stand for the bits shifted out, and val holds the two bytes
\* read last.
Encoding ==
    coding = "encoding" =>
        /\ taken <= ByteCount
        /\ val_b \in {-6, -4, -2, 0, 2, 4, 6}
        /\ 6 * Len(text) + val_b + 6 = 8 * taken
        /\ val = 256 * Byte(taken - 1) + Byte(taken)
        /\ \A k \in 1..Len(text) : text[k] = Sextet(k)

Padding ==
    coding = "padding" =>
        /\ SextetCount <= Len(text) /\ Len(text) <= 4 * ((ByteCount + 2) \div 3)
        /\ \A k \in 1..Len(text) : text[k] = IF k <= SextetCount THEN Sextet(k) ELSE Pad

\* The bytes so far are those of the symbols seen, and the 12 lowest bits of val
\* are the two symbols seen last.
Decoding ==
    coding = "decoding" =>
        /\ place <= SextetCount
        /\ val_b \in {-8, -6, -4, -2}
        /\ 6 * place = 8 * Len(bytes) + val_b + 8
        /\ \A k \in Nat : k = place => Last(val, Was(k - 1), Was(k))
        /\ \A n \in 1..Len(bytes) : bytes[n] = Byte(n)

Base64Inv ==
    /\ Base64Types
    /\ NothingCoded /\ NothingDecoded
    /\ Encoding /\ Padding /\ Decoding
    /\ Base64IsExact

-----------------------------------------------------------------------------
\* What from_base64 takes out of the last symbols, b bits from their end.
LEMMA NewByte ==
    ASSUME hex \in Seq(0..15), NEW k \in Nat, NEW l \in Nat,
           NEW b \in {0, 2, 4}, 6 * k = 8 * l + b + 8,
           NEW v \in Nat, Last(v, Was(k - 1), Was(k))
    PROVE  ShiftRight(v, b) % 256 = Byte(l + 1)
  <1>1. CASE b = 4
    <2>1. PICK j \in Nat : k = 4 * j + 2 /\ l = 3 * j
      <3>1. l + 2 \in Nat /\ 3 * k + 2 = 4 * (l + 2)
        BY <1>1
      <3>2. PICK j \in Nat : k = 4 * j + 2 /\ l + 2 = 3 * j + 2
        BY <3>1, Positions
      <3> QED
        BY <3>2
    <2>2. PICK x \in Nat, y \in Nat :
             x < 256 /\ x = Byte(3 * j + 1) /\ y < 256 /\ y = Byte(3 * j + 2)
      BY Bytes
    <2>3. Was(k - 1) = x \div 4 /\ Was(k) = (x % 4) * 16 + y \div 16
      <3>1. k - 1 = 4 * j + 1 /\ k - 1 >= 1 /\ k >= 1
        BY <2>1
      <3> QED
        BY <2>1, <2>2, <3>1, SextetAt DEF Was
    <2>4. FirstOf(v, x, y)
      BY <2>2, FirstByte
    <2>5. (v \div 16) % 256 = x
      BY <2>3, <2>4 DEF FirstOf
    <2>6. ShiftRight(v, b) = v \div 16 /\ l + 1 = 3 * j + 1
      BY <1>1, <2>1, PowersOfTwo DEF ShiftRight
    <2> QED
      BY <2>2, <2>5, <2>6
  <1>2. CASE b = 2
    <2>1. PICK j \in Nat : k = 4 * j + 3 /\ l = 3 * j + 1
      <3>1. l + 2 \in Nat /\ 3 * k + 3 = 4 * (l + 2)
        BY <1>2
      <3>2. PICK j \in Nat : k = 4 * j + 3 /\ l + 2 = 3 * j + 3
        BY <3>1, Positions
      <3> QED
        BY <3>2
    <2>2. PICK x \in Nat, y \in Nat, z \in Nat :
             /\ x < 256 /\ x = Byte(3 * j + 1) /\ y < 256 /\ y = Byte(3 * j + 2)
             /\ z < 256 /\ z = Byte(3 * j + 3)
      BY Bytes
    <2>3. Was(k - 1) = (x % 4) * 16 + y \div 16 /\ Was(k) = (y % 16) * 4 + z \div 64
      <3>1. k - 1 = 4 * j + 2 /\ k - 1 >= 1 /\ k >= 1
        BY <2>1
      <3> QED
        BY <2>1, <2>2, <3>1, SextetAt DEF Was
    <2>4. SecondOf(v, x, y, z)
      BY <2>2, SecondByte
    <2>5. (v \div 4) % 256 = y
      BY <2>3, <2>4 DEF SecondOf
    <2>6. ShiftRight(v, b) = v \div 4 /\ l + 1 = 3 * j + 2
      BY <1>2, <2>1, PowersOfTwo DEF ShiftRight
    <2> QED
      BY <2>2, <2>5, <2>6
  <1>3. CASE b = 0
    <2>1. PICK j \in Nat : k = 4 * j + 4 /\ l + 1 = 3 * j + 3
      <3>1. l + 1 \in Nat /\ k >= 1 /\ 3 * k = 4 * (l + 1)
        BY <1>3
      <3> QED
        BY <3>1, Positions
    <2>2. PICK y \in Nat, z \in Nat :
             y < 256 /\ y = Byte(3 * j + 2) /\ z < 256 /\ z = Byte(3 * j + 3)
      BY Bytes
    <2>3. Was(k - 1) = (y % 16) * 4 + z \div 64 /\ Was(k) = z % 64
      <3>1. k - 1 = 4 * j + 3 /\ k - 1 >= 1 /\ k >= 1
        BY <2>1
      <3> QED
        BY <2>1, <2>2, <3>1, SextetAt DEF Was
    <2>4. ThirdOf(v, y, z)
      BY <2>2, ThirdByte
    <2>5. v % 256 = z
      BY <2>3, <2>4 DEF ThirdOf
    <2>6. ShiftRight(v, b) = v
      <3>1. v \div 1 = v
        OBVIOUS
      <3> QED
        BY <1>3, <3>1, PowersOfTwo DEF ShiftRight
    <2> QED
      BY <2>1, <2>2, <2>5, <2>6
  <1> QED
    BY <1>1, <1>2, <1>3

-----------------------------------------------------------------------------
LEMMA InitBase64Inv ==
    ASSUME Base64Init
    PROVE  Base64Inv
  BY DEF Base64Init, Base64Inv, Base64Types, NothingCoded, NothingDecoded, Encoding, Padding,
         Decoding, Base64IsExact

LEMMA AddDigitInv ==
    ASSUME Digits \subseteq 0..15, Base64Inv, AddDigit
    PROVE  Base64Inv'
  <1>1. Base64Types'
    BY DEF Base64Inv, Base64Types, AddDigit
  <1>2. coding = "idle" /\ coding' = "idle"
    BY DEF AddDigit
  <1>3. NothingCoded' /\ NothingDecoded'
    BY <1>2 DEF Base64Inv, AddDigit, NothingCoded, NothingDecoded
  <1>4. Encoding' /\ Padding' /\ Decoding' /\ Base64IsExact'
    BY <1>2 DEF Encoding, Padding, Decoding, Base64IsExact
  <1> QED
    BY <1>1, <1>3, <1>4 DEF Base64Inv

LEMMA to_base_64Inv ==
    ASSUME Base64Inv, to_base_64
    PROVE  Base64Inv'
  <1>1. Base64Types'
    BY DEF Base64Inv, Base64Types, to_base_64
  <1>2. coding = "idle" /\ coding' = "encoding"
    BY DEF to_base_64
  <1>3. NothingCoded' /\ NothingDecoded'
    BY <1>2 DEF Base64Inv, to_base_64, NothingCoded, NothingDecoded
  <1>4. Encoding'
    <2>1. taken' = 0 /\ val' = 0 /\ val_b' = -6 /\ text' = << >>
      BY <1>2 DEF Base64Inv, to_base_64, NothingCoded
    <2>2. ByteCount \in Nat /\ ByteCount' = ByteCount
      <3>1. hex \in Seq(0..15) /\ hex' = hex
        BY DEF Base64Inv, Base64Types, to_base_64
      <3> QED
        BY <3>1, BytesOfDigits, SameDigits
    <2>3. (Byte(taken - 1) = 0 /\ Byte(taken) = 0)'
      BY <2>1, <2>2 DEF Byte
    <2>4. (taken <= ByteCount)'
      BY <2>1, <2>2
    <2>5. (6 * Len(text) + val_b + 6 = 8 * taken)' /\ (val_b \in {-6, -4, -2, 0, 2, 4, 6})'
      BY <2>1
    <2>6. (val = 256 * Byte(taken - 1) + Byte(taken))'
      BY <2>1, <2>3
    <2>7. (\A k \in 1..Len(text) : text[k] = Sextet(k))'
      BY <2>1
    <2> QED
      BY <2>4, <2>5, <2>6, <2>7 DEF Encoding
  <1>5. Padding' /\ Decoding' /\ Base64IsExact'
    BY <1>2 DEF Padding, Decoding, Base64IsExact
  <1> QED
    BY <1>1, <1>3, <1>4, <1>5 DEF Base64Inv

LEMMA EncodeByteInv ==
    ASSUME Base64Inv, EncodeByte
    PROVE  Base64Inv'
  <1>1. /\ coding = "encoding" /\ coding' = "encoding"
        /\ hex' = hex /\ text' = text /\ place' = place /\ bytes' = bytes
        /\ val_b < 0 /\ val_b' = val_b + 8 /\ taken < ByteCount /\ taken' = taken + 1
    BY DEF EncodeByte
  <1>2. /\ hex \in Seq(0..15) /\ text \in Seq(0..64) /\ bytes \in Seq(0..255)
        /\ taken \in Nat /\ val \in Nat /\ val_b \in Int /\ place \in Nat
    BY DEF Base64Inv, Base64Types
  <1>3. PICK x \in Nat, y \in Nat, z \in Nat :
           /\ x < 256 /\ x = Byte(taken - 1) /\ y < 256 /\ y = Byte(taken)
           /\ z < 256 /\ z = Byte(taken + 1)
    <2>1. taken - 1 \in Int /\ taken \in Int /\ taken + 1 \in Int
      BY <1>2
    <2> QED
      BY <1>2, <2>1, BytesOfDigits
  <1>4. val = 256 * x + y
    BY <1>1, <1>3 DEF Base64Inv, Encoding
  <1>5. val' = 256 * y + z
    <2>1. taken + 1 \in 1..ByteCount
      BY <1>1, <1>2, BytesOfDigits
    <2>2. InputByte(taken + 1) = z
      BY <1>2, <1>3, <2>1, BytesOfDigits
    <2>3. val' = (val * 256 + z) % 65536
      BY <2>2 DEF EncodeByte, ValSize
    <2>4. ByteAfter(x, y, z)
      BY <1>3, ByteComesIn
    <2> QED
      BY <1>4, <2>3, <2>4 DEF ByteAfter
  <1>6. Base64Types'
    BY <1>1, <1>2, <1>5 DEF Base64Types
  <1>7. NothingCoded' /\ NothingDecoded'
    BY <1>1 DEF Base64Inv, NothingCoded, NothingDecoded
  <1>8. Encoding'
    <2>1. (taken <= ByteCount)'
      <3>1. ByteCount \in Nat /\ ByteCount' = ByteCount
        BY <1>1, <1>2, SameDigits, BytesOfDigits
      <3> QED
        BY <1>1, <1>2, <3>1
    <2>2. (val_b \in {-6, -4, -2, 0, 2, 4, 6} /\ 6 * Len(text) + val_b + 6 = 8 * taken)'
      <3>1. val_b \in {-6, -4, -2, 0, 2, 4, 6} /\ 6 * Len(text) + val_b + 6 = 8 * taken
        BY <1>1 DEF Base64Inv, Encoding
      <3>2. Len(text) \in Nat
        BY <1>2
      <3>3. val_b \in {-6, -4, -2} /\ val_b' \in {2, 4, 6}
        BY <1>1, <3>1
      <3>4. 6 * Len(text) + (val_b + 8) + 6 = 8 * (taken + 1)
        <4>1. PICK l \in Nat, n \in Nat, b \in Int : l = Len(text) /\ n = taken /\ b = val_b
          BY <1>2, <3>2
        <4>2. 6 * l + b + 6 = 8 * n
          BY <3>1, <4>1
        <4>3. 6 * l + (b + 8) + 6 = 8 * (n + 1)
          BY <4>2
        <4> QED
          BY <4>1, <4>3
      <3>5. (6 * Len(text) + val_b + 6 = 8 * taken)'
        BY <1>1, <3>4
      <3> QED
        BY <3>3, <3>5
    <2>3. (val = 256 * Byte(taken - 1) + Byte(taken))'
      <3>1. taken' - 1 = taken
        BY <1>1, <1>2
      <3>2. (Byte(taken - 1))' = y /\ (Byte(taken))' = z
        BY <1>1, <1>3, <3>1 DEF Byte, InputByte, ByteCount
      <3> QED
        BY <1>5, <3>2
    <2>4. (\A k \in 1..Len(text) : text[k] = Sextet(k))'
      BY <1>1, SameDigits DEF Base64Inv, Encoding
    <2> QED
      BY <2>1, <2>2, <2>3, <2>4 DEF Encoding
  <1>9. Padding' /\ Decoding' /\ Base64IsExact'
    BY <1>1 DEF Padding, Decoding, Base64IsExact
  <1> QED
    BY <1>6, <1>7, <1>8, <1>9 DEF Base64Inv

LEMMA EncodeSymbolInv ==
    ASSUME Base64Inv, EncodeSymbol
    PROVE  Base64Inv'
  <1>1. /\ coding = "encoding" /\ coding' = "encoding"
        /\ hex' = hex /\ taken' = taken /\ val' = val /\ place' = place /\ bytes' = bytes
        /\ val_b >= 0 /\ val_b' = val_b - 6
        /\ text' = Append(text, ShiftRight(val, val_b) % 64)
    BY DEF EncodeSymbol
  <1>2. /\ hex \in Seq(0..15) /\ text \in Seq(0..64) /\ bytes \in Seq(0..255)
        /\ taken \in Nat /\ val \in Nat /\ val_b \in Int /\ place \in Nat
    BY DEF Base64Inv, Base64Types
  <1>3. /\ taken <= ByteCount
        /\ val_b \in {-6, -4, -2, 0, 2, 4, 6}
        /\ 6 * Len(text) + val_b + 6 = 8 * taken
        /\ val = 256 * Byte(taken - 1) + Byte(taken)
        /\ \A k \in 1..Len(text) : text[k] = Sextet(k)
    BY <1>1 DEF Base64Inv, Encoding
  <1>4. val_b \in {0, 2, 4, 6} /\ val_b' \in {-6, -4, -2, 0}
    BY <1>1, <1>3
  <1> DEFINE k == Len(text) + 1
  <1>5. Len(text) \in Nat /\ k \in Nat /\ k >= 1 /\ 6 * k + val_b = 8 * taken
    BY <1>2, <1>3
  <1>6. ShiftRight(val, val_b) % 64 = Sextet(k)
    <2> HIDE DEF k
    <2> QED
      BY <1>2, <1>3, <1>4, <1>5, NewSymbol
  <1>7. Sextet(k) \in 0..63
    BY <1>2, <1>5, SextetsAreSmall
  <1>8. /\ text' \in Seq(0..64) /\ Len(text') = k
        /\ text'[k] = Sextet(k) /\ \A i \in 1..Len(text) : text'[i] = text[i]
    BY <1>1, <1>2, <1>6, <1>7
  <1>9. Base64Types'
    BY <1>1, <1>2, <1>4, <1>8 DEF Base64Types
  <1>10. NothingCoded' /\ NothingDecoded'
    BY <1>1 DEF Base64Inv, NothingCoded, NothingDecoded
  <1>11. Encoding'
    <2>1. (taken <= ByteCount)'
      BY <1>1, <1>3, SameDigits
    <2>2. (val_b \in {-6, -4, -2, 0, 2, 4, 6})'
      BY <1>4
    <2>3. (6 * Len(text) + val_b + 6 = 8 * taken)'
      <3>1. 6 * k + (val_b - 6) + 6 = 8 * taken
        BY <1>2, <1>5
      <3> QED
        BY <1>1, <1>8, <3>1
    <2>4. (val = 256 * Byte(taken - 1) + Byte(taken))'
      BY <1>1, <1>3 DEF Byte, InputByte, ByteCount
    <2>5. (\A i \in 1..Len(text) : text[i] = Sextet(i))'
      <3> SUFFICES ASSUME NEW i \in 1..Len(text')
                   PROVE  text'[i] = Sextet(i)'
        OBVIOUS
      <3>1. Sextet(i)' = Sextet(i)
        BY <1>1, SameDigits
      <3>2. CASE i = k
        BY <1>8, <3>1, <3>2
      <3>3. CASE i # k
        <4>1. i \in 1..Len(text)
          BY <1>5, <1>8, <3>3
        <4> QED
          BY <1>3, <1>8, <3>1, <4>1
      <3> QED
        BY <3>2, <3>3
    <2> QED
      BY <2>1, <2>2, <2>3, <2>4, <2>5 DEF Encoding
  <1>12. Padding' /\ Decoding' /\ Base64IsExact'
    BY <1>1 DEF Padding, Decoding, Base64IsExact
  <1> QED
    BY <1>9, <1>10, <1>11, <1>12 DEF Base64Inv

LEMMA EncodeRestInv ==
    ASSUME Base64Inv, EncodeRest
    PROVE  Base64Inv'
  <1>1. /\ coding = "encoding" /\ coding' = "padding"
        /\ hex' = hex /\ taken' = taken /\ val' = val /\ val_b' = val_b
        /\ place' = place /\ bytes' = bytes
        /\ val_b < 0 /\ taken = ByteCount
        /\ text' = IF val_b > -6 THEN Append(text, ShiftRight(val * 256, val_b + 8) % 64)
                   ELSE text
    BY DEF EncodeRest
  <1>2. /\ hex \in Seq(0..15) /\ text \in Seq(0..64) /\ bytes \in Seq(0..255)
        /\ taken \in Nat /\ val \in Nat /\ val_b \in Int /\ place \in Nat
    BY DEF Base64Inv, Base64Types
  <1>3. /\ val_b \in {-6, -4, -2, 0, 2, 4, 6}
        /\ 6 * Len(text) + val_b + 6 = 8 * ByteCount
        /\ val = 256 * Byte(ByteCount - 1) + Byte(ByteCount)
        /\ \A k \in 1..Len(text) : text[k] = Sextet(k)
    BY <1>1 DEF Base64Inv, Encoding
  <1>4. /\ Len(text) \in Nat /\ ByteCount \in Nat
        /\ SextetCount \in Nat
        /\ 6 * SextetCount >= 8 * ByteCount /\ 6 * SextetCount <= 8 * ByteCount + 5
        /\ SextetCount <= 4 * ((ByteCount + 2) \div 3)
    BY <1>1, <1>2, Counts
  <1>5. /\ text' \in Seq(0..64) /\ Len(text') = SextetCount
        /\ \A i \in 1..SextetCount : text'[i] = Sextet(i)
    <2>1. CASE val_b = -6
      <3>1. SextetCount = Len(text)
        BY <1>3, <1>4, <2>1
      <3>2. text' = text
        BY <1>1, <2>1
      <3> QED
        BY <1>2, <1>3, <3>1, <3>2
    <2>2. CASE val_b \in {-4, -2}
      <3> DEFINE k == Len(text) + 1
      <3>1. k \in Nat /\ k >= 1 /\ 6 * k + val_b = 8 * ByteCount
        BY <1>3, <1>4, <2>2
      <3>2. SextetCount = k
        BY <1>4, <3>1, <2>2
      <3>3. ShiftRight(val * 256, val_b + 8) % 64 = Sextet(k)
        <4> HIDE DEF k
        <4> QED
          BY <1>2, <1>3, <2>2, <3>1, LastSymbol
      <3>4. Sextet(k) \in 0..63
        BY <1>2, <3>1, SextetsAreSmall
      <3>5. text' = Append(text, Sextet(k))
        BY <1>1, <2>2, <3>3
      <3>6. /\ text' \in Seq(0..64) /\ Len(text') = k
            /\ text'[k] = Sextet(k) /\ \A i \in 1..Len(text) : text'[i] = text[i]
        BY <1>2, <3>4, <3>5
      <3>7. ASSUME NEW i \in 1..k
            PROVE  text'[i] = Sextet(i)
        <4>1. CASE i = k
          BY <3>6, <4>1
        <4>2. CASE i # k
          <5>1. i \in 1..Len(text)
            BY <1>4, <4>2
          <5> QED
            BY <1>3, <3>6, <5>1
        <4> QED
          BY <4>1, <4>2
      <3> QED
        BY <3>2, <3>6, <3>7
    <2> QED
      BY <1>1, <1>3, <2>1, <2>2
  <1>6. Base64Types'
    BY <1>1, <1>2, <1>5 DEF Base64Types
  <1>7. NothingCoded' /\ NothingDecoded'
    BY <1>1 DEF Base64Inv, NothingCoded, NothingDecoded
  <1>8. Padding'
    <2>1. SextetCount' = SextetCount /\ ByteCount' = ByteCount
      BY <1>1, SameDigits
    <2>2. (\A i \in 1..Len(text) : text[i] = IF i <= SextetCount THEN Sextet(i) ELSE Pad)'
      <3> SUFFICES ASSUME NEW i \in 1..Len(text')
                   PROVE  text'[i] = IF i <= SextetCount' THEN Sextet(i)' ELSE Pad
        OBVIOUS
      <3>1. Sextet(i)' = Sextet(i)
        BY <1>1, SameDigits
      <3>2. i \in 1..SextetCount /\ i <= SextetCount
        BY <1>4, <1>5
      <3> QED
        BY <1>5, <2>1, <3>1, <3>2
    <2>3. SextetCount' <= Len(text') /\ Len(text') <= 4 * ((ByteCount' + 2) \div 3)
      BY <1>4, <1>5, <2>1
    <2> QED
      BY <2>2, <2>3 DEF Padding
  <1>9. Encoding' /\ Decoding' /\ Base64IsExact'
    BY <1>1 DEF Encoding, Decoding, Base64IsExact
  <1> QED
    BY <1>6, <1>7, <1>8, <1>9 DEF Base64Inv

LEMMA AddPadInv ==
    ASSUME Base64Inv, AddPad
    PROVE  Base64Inv'
  <1>1. /\ coding = "padding" /\ coding' = "padding"
        /\ hex' = hex /\ taken' = taken /\ val' = val /\ val_b' = val_b
        /\ place' = place /\ bytes' = bytes
        /\ Len(text) % 4 # 0 /\ text' = Append(text, Pad)
    BY DEF AddPad
  <1>2. /\ hex \in Seq(0..15) /\ text \in Seq(0..64) /\ bytes \in Seq(0..255)
        /\ taken \in Nat /\ val \in Nat /\ val_b \in Int /\ place \in Nat
    BY DEF Base64Inv, Base64Types
  <1>3. /\ SextetCount <= Len(text) /\ Len(text) <= 4 * ((ByteCount + 2) \div 3)
        /\ \A k \in 1..Len(text) : text[k] = IF k <= SextetCount THEN Sextet(k) ELSE Pad
    BY <1>1 DEF Base64Inv, Padding
  <1>4. /\ Len(text) \in Nat /\ SextetCount \in Nat /\ (ByteCount + 2) \div 3 \in Nat
    BY <1>2, Counts
  <1>5. Len(text) + 1 <= 4 * ((ByteCount + 2) \div 3)
    <2>1. \A q \in Nat : (4 * q) % 4 = 0
      OBVIOUS
    <2>2. Len(text) # 4 * ((ByteCount + 2) \div 3)
      BY <1>1, <1>4, <2>1
    <2> QED
      BY <1>3, <1>4, <2>2
  <1>6. /\ text' \in Seq(0..64) /\ Len(text') = Len(text) + 1
        /\ text'[Len(text) + 1] = Pad /\ \A i \in 1..Len(text) : text'[i] = text[i]
    BY <1>1, <1>2 DEF Pad
  <1>7. Base64Types'
    BY <1>1, <1>2, <1>6 DEF Base64Types
  <1>8. NothingCoded' /\ NothingDecoded'
    BY <1>1 DEF Base64Inv, NothingCoded, NothingDecoded
  <1>9. Padding'
    <2>1. SextetCount' = SextetCount /\ ByteCount' = ByteCount
      BY <1>1, SameDigits
    <2>2. (\A i \in 1..Len(text) : text[i] = IF i <= SextetCount THEN Sextet(i) ELSE Pad)'
      <3> SUFFICES ASSUME NEW i \in 1..Len(text')
                   PROVE  text'[i] = IF i <= SextetCount' THEN Sextet(i)' ELSE Pad
        OBVIOUS
      <3>1. Sextet(i)' = Sextet(i)
        BY <1>1, SameDigits
      <3>2. CASE i = Len(text) + 1
        <4>1. ~(i <= SextetCount)
          BY <1>3, <1>4, <3>2
        <4> QED
          BY <1>6, <2>1, <3>2, <4>1
      <3>3. CASE i # Len(text) + 1
        <4>1. i \in 1..Len(text)
          BY <1>4, <1>6, <3>3
        <4> QED
          BY <1>3, <1>6, <2>1, <3>1, <4>1
      <3> QED
        BY <3>2, <3>3
    <2>3. SextetCount' <= Len(text') /\ Len(text') <= 4 * ((ByteCount' + 2) \div 3)
      BY <1>3, <1>4, <1>5, <1>6, <2>1
    <2> QED
      BY <2>2, <2>3 DEF Padding
  <1>10. Encoding' /\ Decoding' /\ Base64IsExact'
    BY <1>1 DEF Encoding, Decoding, Base64IsExact
  <1> QED
    BY <1>7, <1>8, <1>9, <1>10 DEF Base64Inv

LEMMA from_base64Inv ==
    ASSUME Base64Inv, from_base64
    PROVE  Base64Inv'
  <1>1. /\ coding = "padding" /\ coding' = "decoding"
        /\ hex' = hex /\ taken' = taken /\ val' = 0 /\ val_b' = -8 /\ text' = text
        /\ place' = place /\ bytes' = bytes
        /\ Len(text) % 4 = 0
    BY DEF from_base64
  <1>2. /\ hex \in Seq(0..15) /\ text \in Seq(0..64) /\ bytes \in Seq(0..255)
        /\ taken \in Nat /\ place \in Nat
    BY DEF Base64Inv, Base64Types
  <1>3. /\ SextetCount <= Len(text) /\ Len(text) <= 4 * ((ByteCount + 2) \div 3)
        /\ \A k \in 1..Len(text) : text[k] = IF k <= SextetCount THEN Sextet(k) ELSE Pad
    BY <1>1 DEF Base64Inv, Padding
  <1>4. /\ Len(text) \in Nat /\ SextetCount \in Nat /\ (ByteCount + 2) \div 3 \in Nat
        /\ 4 * ((ByteCount + 2) \div 3) < SextetCount + 4
    BY <1>2, Counts
  <1>5. Len(text) = 4 * ((ByteCount + 2) \div 3)
    BY <1>1, <1>3, <1>4
  <1>6. text = Reference
    <2>1. text = [k \in 1..Len(text) |-> text[k]]
      BY <1>2
    <2> QED
      BY <1>3, <1>5, <2>1 DEF Reference
  <1>7. place = 0 /\ bytes = << >>
    BY <1>1 DEF Base64Inv, NothingDecoded
  <1>8. Base64Types'
    BY <1>1, <1>2 DEF Base64Types
  <1>9. Decoding'
    <2>1. (place <= SextetCount)'
      BY <1>1, <1>4, <1>7, SameDigits
    <2>2. (val_b \in {-8, -6, -4, -2} /\ 6 * place = 8 * Len(bytes) + val_b + 8)'
      BY <1>1, <1>7
    <2>3. (\A k \in Nat : k = place => Last(val, Was(k - 1), Was(k)))'
      <3>1. place' = 0 /\ val' = 0 /\ 0 % 4096 = 64 * 0 + 0
        BY <1>1, <1>7
      <3> QED
        BY <3>1 DEF Last, Was
    <2>4. (\A n \in 1..Len(bytes) : bytes[n] = Byte(n))'
      BY <1>1, <1>7
    <2> QED
      BY <2>1, <2>2, <2>3, <2>4 DEF Decoding
  <1>10. Base64IsExact'
    BY <1>1, <1>6, SameDigits DEF Base64IsExact
  <1>11. NothingCoded' /\ NothingDecoded' /\ Encoding' /\ Padding'
    BY <1>1 DEF NothingCoded, NothingDecoded, Encoding, Padding
  <1> QED
    BY <1>8, <1>9, <1>10, <1>11 DEF Base64Inv

\* Where from_base64 ends, and what it finds before.
LEMMA EndOfSymbols ==
    ASSUME hex \in Seq(0..15), text = Reference, place \in Nat, place <= SextetCount
    PROVE  /\ ~AtEnd => place + 1 <= SextetCount /\ text[place + 1] = Sextet(place + 1)
           /\ AtEnd => place = SextetCount
  <1>1. /\ SextetCount \in Nat /\ (ByteCount + 2) \div 3 \in Nat
        /\ SextetCount <= 4 * ((ByteCount + 2) \div 3)
    BY Counts
  <1> DEFINE r == 4 * ((ByteCount + 2) \div 3)
  <1>2. r \in Nat /\ SextetCount <= r
    BY <1>1
  <1>3. text = [k \in 1..r |-> IF k <= SextetCount THEN Sextet(k) ELSE Pad]
    BY DEF Reference
  <1> HIDE DEF r
  <1>4. Len(text) = r
    <2>1. DOMAIN text = 1..r
      BY <1>3
    <2>2. text \in Seq(0..64)
      <3>1. ASSUME NEW k \in 1..r
            PROVE  (IF k <= SextetCount THEN Sextet(k) ELSE Pad) \in 0..64
        <4>1. Sextet(k) \in 0..63
          BY <1>2, SextetsAreSmall
        <4> QED
          BY <4>1 DEF Pad
      <3> QED
        BY <1>2, <1>3, <3>1
    <2> QED
      BY <1>2, <2>1, <2>2
  <1>5. ASSUME ~AtEnd
        PROVE  place + 1 <= SextetCount /\ text[place + 1] = Sextet(place + 1)
    <2>1. place < r /\ text[place + 1] # Pad
      BY <1>4, <1>5 DEF AtEnd
    <2>2. place + 1 \in 1..r
      BY <1>2, <2>1
    <2> QED
      BY <1>3, <2>1, <2>2
  <1>6. ASSUME AtEnd
        PROVE  place = SextetCount
    <2>1. SUFFICES ASSUME place < SextetCount
                   PROVE  FALSE
      BY <1>1
    <2>2. place + 1 \in 1..r /\ place + 1 <= SextetCount /\ place < r
      BY <1>1, <1>2, <2>1
    <2>3. text[place + 1] = Sextet(place + 1)
      BY <1>3, <2>2
    <2>4. Sextet(place + 1) \in 0..63
      BY SextetsAreSmall
    <2>5. text[place + 1] # 64
      <3>1. \A n \in 0..63 : n # 64
        OBVIOUS
      <3> QED
        BY <2>3, <2>4, <3>1
    <2>6. place < Len(text)
      BY <1>4, <2>2
    <2> QED
      BY <1>6, <2>5, <2>6 DEF AtEnd, Pad
  <1> QED
    BY <1>5, <1>6

LEMMA WasIsSmall ==
    ASSUME hex \in Seq(0..15), NEW k \in Int
    PROVE  Was(k) \in Nat /\ Was(k) < 64
  <1>1. CASE k >= 1
    <2>1. Sextet(k) \in 0..63
      BY <1>1, SextetsAreSmall
    <2>2. \A n \in 0..63 : n \in Nat /\ n < 64
      OBVIOUS
    <2>3. Was(k) = Sextet(k)
      BY <1>1 DEF Was
    <2> QED
      BY <2>1, <2>2, <2>3
  <1>2. CASE ~(k >= 1)
    BY <1>2 DEF Was
  <1> QED
    BY <1>1, <1>2

LEMMA DecodeSymbolInv ==
    ASSUME Base64Inv, DecodeSymbol
    PROVE  Base64Inv'
  <1>1. /\ coding = "decoding" /\ coding' = "decoding" /\ ~AtEnd
        /\ hex' = hex /\ taken' = taken /\ text' = text
        /\ place' = place + 1
        /\ val' = (val * 64 + text[place + 1]) % 65536
    BY DEF DecodeSymbol, ValSize
  <1>2. /\ hex \in Seq(0..15) /\ text \in Seq(0..64) /\ bytes \in Seq(0..255)
        /\ taken \in Nat /\ val \in Nat /\ val_b \in Int /\ place \in Nat
    BY DEF Base64Inv, Base64Types
  <1>3. /\ place <= SextetCount
        /\ val_b \in {-8, -6, -4, -2}
        /\ 6 * place = 8 * Len(bytes) + val_b + 8
        /\ Last(val, Was(place - 1), Was(place))
        /\ \A n \in 1..Len(bytes) : bytes[n] = Byte(n)
        /\ text = Reference
    BY <1>1, <1>2 DEF Base64Inv, Decoding, Base64IsExact
  <1>4. PICK k \in Nat : k = place + 1
    BY <1>2
  <1>5. PICK b \in {-2, 0, 2, 4} : b = val_b + 6
    BY <1>2, <1>3
  <1>6. PICK l \in Nat : l = Len(bytes)
    BY <1>2
  <1>7. k >= 1 /\ k - 1 = place /\ k <= SextetCount /\ text[k] = Sextet(k)
    BY <1>1, <1>2, <1>3, <1>4, EndOfSymbols
  <1>8. 6 * k = 8 * l + b + 8
    <2>1. 6 * place = 8 * l + val_b + 8
      BY <1>3, <1>6
    <2>2. place \in Int /\ val_b \in Int
      BY <1>2
    <2> QED
      BY <1>4, <1>5, <2>1, <2>2
  <1>9. val' \in Nat /\ Last(val', Was(k - 1), Was(k))
    <2>1. Was(k) = Sextet(k)
      BY <1>7 DEF Was
    <2>2. place - 1 \in Int /\ place \in Int /\ k \in Int
      BY <1>2, <1>4
    <2>3. /\ Was(place - 1) \in Nat
          /\ Was(place) \in Nat /\ Was(place) < 64 /\ Was(k) \in Nat /\ Was(k) < 64
      BY <1>2, <2>2, WasIsSmall
    <2>4. SymbolOf(val, Was(place - 1), Was(place), Was(k))
      BY <1>2, <2>3, SymbolComesIn
    <2>5. val' = (val * 64 + Was(k)) % 65536
      BY <1>1, <1>4, <1>7, <2>1
    <2> QED
      BY <1>3, <1>7, <2>4, <2>5 DEF SymbolOf
  <1>10. /\ bytes' \in Seq(0..255)
         /\ val_b' \in {-8, -6, -4, -2} /\ 6 * k = 8 * Len(bytes') + val_b' + 8
         /\ \A n \in 1..Len(bytes') : bytes'[n] = Byte(n)
    <2>1. /\ b >= 0 => bytes' = Append(bytes, ShiftRight(val', b) % 256) /\ val_b' = b - 8
          /\ ~(b >= 0) => bytes' = bytes /\ val_b' = b
      BY <1>5 DEF DecodeSymbol
    <2>2. CASE b = -2
      <3>1. bytes' = bytes /\ val_b' = -2
        BY <2>1, <2>2
      <3>2. 6 * k = 8 * Len(bytes) + (-2) + 8
        BY <1>6, <1>8, <2>2
      <3> QED
        BY <1>2, <1>3, <3>1, <3>2
    <2>3. CASE b # -2
      <3>1. b \in {0, 2, 4} /\ b >= 0
        BY <2>3
      <3>2. ShiftRight(val', b) % 256 = Byte(l + 1)
        BY <1>2, <1>8, <1>9, <3>1, NewByte
      <3>3. Byte(l + 1) \in 0..255
        <4>1. l + 1 \in Int
          OBVIOUS
        <4>2. Byte(l + 1) \in Nat /\ Byte(l + 1) < 256
          BY <1>2, <4>1, BytesOfDigits
        <4>3. \A n \in Nat : n < 256 => n \in 0..255
          OBVIOUS
        <4> QED
          BY <4>2, <4>3
      <3>4. bytes' = Append(bytes, Byte(l + 1)) /\ val_b' = b - 8
        BY <2>1, <3>1, <3>2
      <3>5. /\ bytes' \in Seq(0..255) /\ Len(bytes') = l + 1
            /\ bytes'[l + 1] = Byte(l + 1) /\ \A n \in 1..l : bytes'[n] = bytes[n]
        BY <1>2, <1>6, <3>3, <3>4
      <3>6. val_b' \in {-8, -6, -4} /\ 6 * k = 8 * (l + 1) + val_b' + 8
        BY <1>8, <3>1, <3>4
      <3>7. ASSUME NEW n \in 1..(l + 1)
            PROVE  bytes'[n] = Byte(n)
        <4>1. CASE n = l + 1
          BY <3>5, <4>1
        <4>2. CASE n # l + 1
          <5>1. n \in 1..l
            BY <4>2
          <5> QED
            BY <1>3, <1>6, <3>5, <5>1
        <4> QED
          BY <4>1, <4>2
      <3> QED
        BY <3>5, <3>6, <3>7
    <2> QED
      BY <2>2, <2>3
  <1>11. Base64Types'
    BY <1>1, <1>2, <1>9, <1>10 DEF Base64Types
  <1>12. Decoding'
    <2>1. (place <= SextetCount)'
      BY <1>1, <1>4, <1>7, SameDigits
    <2>2. (val_b \in {-8, -6, -4, -2} /\ 6 * place = 8 * Len(bytes) + val_b + 8)'
      BY <1>1, <1>4, <1>10
    <2>3. (\A i \in Nat : i = place => Last(val, Was(i - 1), Was(i)))'
      <3>1. place' = k
        BY <1>1, <1>4
      <3>2. (Was(k))' = Was(k) /\ (Was(k - 1))' = Was(k - 1)
        <4>1. k \in Int /\ k - 1 \in Int
          OBVIOUS
        <4> QED
          BY <1>1, <4>1, SameDigits DEF Was
      <3>3. (Last(val, Was(k - 1), Was(k)))'
        BY <1>9, <3>2 DEF Last
      <3> QED
        BY <3>1, <3>3
    <2>4. (\A n \in 1..Len(bytes) : bytes[n] = Byte(n))'
      BY <1>1, <1>10, SameDigits
    <2> QED
      BY <2>1, <2>2, <2>3, <2>4 DEF Decoding
  <1>13. Base64IsExact'
    BY <1>1, <1>3, SameDigits DEF Base64IsExact
  <1>14. NothingCoded' /\ NothingDecoded' /\ Encoding' /\ Padding'
    BY <1>1 DEF NothingCoded, NothingDecoded, Encoding, Padding
  <1> QED
    BY <1>11, <1>12, <1>13, <1>14 DEF Base64Inv

LEMMA DecodeEndInv ==
    ASSUME Base64Inv, DecodeEnd
    PROVE  Base64Inv'
  <1>1. /\ coding = "decoding" /\ coding' = "done" /\ AtEnd
        /\ hex' = hex /\ taken' = taken /\ val' = val /\ val_b' = val_b
        /\ text' = text /\ place' = place /\ bytes' = bytes
    BY DEF DecodeEnd
  <1>2. /\ hex \in Seq(0..15) /\ bytes \in Seq(0..255) /\ val_b \in Int /\ place \in Nat
    BY DEF Base64Inv, Base64Types
  <1>3. /\ place <= SextetCount
        /\ val_b \in {-8, -6, -4, -2}
        /\ 6 * place = 8 * Len(bytes) + val_b + 8
        /\ \A n \in 1..Len(bytes) : bytes[n] = Byte(n)
        /\ text = Reference
    BY <1>1 DEF Base64Inv, Decoding, Base64IsExact
  <1>4. place = SextetCount
    BY <1>1, <1>2, <1>3, EndOfSymbols
  <1>5. Len(bytes) = ByteCount
    <2>1. PICK n \in Nat, m \in Nat, l \in Nat, b \in {-8, -6, -4, -2} :
             n = ByteCount /\ m = SextetCount /\ l = Len(bytes) /\ b = val_b
      <3>1. ByteCount \in Nat /\ SextetCount \in Nat
        BY <1>2, Counts
      <3>2. Len(bytes) \in Nat
        BY <1>2
      <3> QED
        BY <1>3, <3>1, <3>2
    <2>2. 6 * m = 8 * l + b + 8
      BY <1>3, <1>4, <2>1
    <2>3. 6 * m >= 8 * n /\ 6 * m <= 8 * n + 5
      BY <1>2, <2>1, Counts
    <2>4. l = n
      BY <2>2, <2>3
    <2> QED
      BY <2>1, <2>4
  <1>6. bytes = [n \in 1..ByteCount |-> InputByte(n)]
    <2>1. bytes = [n \in 1..Len(bytes) |-> bytes[n]]
      BY <1>2
    <2>2. \A n \in 1..ByteCount : bytes[n] = InputByte(n)
      BY <1>2, <1>3, <1>5, BytesOfDigits
    <2> QED
      BY <1>5, <2>1, <2>2
  <1>7. Base64IsExact'
    <2>1. [n \in 1..ByteCount |-> InputByte(n)]' = [n \in 1..ByteCount |-> InputByte(n)]
      BY <1>1 DEF InputByte, ByteCount
    <2> QED
      BY <1>1, <1>3, <1>6, <2>1, SameDigits DEF Base64IsExact
  <1>8. Base64Types'
    BY <1>1 DEF Base64Inv, Base64Types
  <1>9. NothingCoded' /\ NothingDecoded' /\ Encoding' /\ Padding' /\ Decoding'
    BY <1>1 DEF NothingCoded, NothingDecoded, Encoding, Padding, Decoding
  <1> QED
    BY <1>7, <1>8, <1>9 DEF Base64Inv

LEMMA NothingElseBase64 ==
    ASSUME Base64Inv, PassOver \/ UNCHANGED base64Vars
    PROVE  Base64Inv'
  <1>1. UNCHANGED <<coding, hex, taken, val, val_b, text, place, bytes>>
    BY DEF PassOver, base64Vars
  <1>2. Base64Types' /\ NothingCoded' /\ NothingDecoded'
    BY <1>1 DEF Base64Inv, Base64Types, NothingCoded, NothingDecoded
  <1>3. /\ ByteCount' = ByteCount /\ SextetCount' = SextetCount /\ Reference' = Reference
        /\ \A k \in Int : Sextet(k)' = Sextet(k)
        /\ \A n \in Int : Byte(n)' = Byte(n)
    BY <1>1, SameDigits
  <1>4. Encoding'
    <2>1. (Byte(taken - 1))' = Byte(taken - 1) /\ (Byte(taken))' = Byte(taken)
      BY <1>1 DEF Byte, InputByte, ByteCount
    <2> QED
      BY <1>1, <1>3, <2>1 DEF Base64Inv, Encoding
  <1>5. Padding'
    BY <1>1, <1>3 DEF Base64Inv, Padding
  <1>6. Decoding'
    <2>1. ASSUME NEW k \in Nat
          PROVE  (Was(k - 1))' = Was(k - 1) /\ (Was(k))' = Was(k)
      BY <1>3 DEF Was
    <2>2. SUFFICES ASSUME coding = "decoding"
                   PROVE  Decoding'
      BY <1>1 DEF Decoding
    <2>3. /\ place <= SextetCount /\ val_b \in {-8, -6, -4, -2}
          /\ 6 * place = 8 * Len(bytes) + val_b + 8
          /\ \A k \in Nat : k = place => Last(val, Was(k - 1), Was(k))
          /\ \A n \in 1..Len(bytes) : bytes[n] = Byte(n)
      BY <2>2 DEF Base64Inv, Decoding
    <2>4. (\A k \in Nat : k = place => Last(val, Was(k - 1), Was(k)))'
      BY <1>1, <2>1, <2>3 DEF Last
    <2>5. (\A n \in 1..Len(bytes) : bytes[n] = Byte(n))'
      BY <1>1, <1>3, <2>3
    <2> QED
      BY <1>1, <1>3, <2>3, <2>4, <2>5 DEF Decoding
  <1>7. Base64IsExact'
    <2>1. [n \in 1..ByteCount |-> InputByte(n)]' = [n \in 1..ByteCount |-> InputByte(n)]
      BY <1>1 DEF InputByte, ByteCount
    <2> QED
      BY <1>1, <1>3, <2>1 DEF Base64Inv, Base64IsExact
  <1> QED
    BY <1>2, <1>4, <1>5, <1>6, <1>7 DEF Base64Inv

\* to_base_64 makes base64 of any bytes, and from_base64 gives them back, whatever
\* stands between the characters (Utilities.h:47-95).
THEOREM Base64Exact ==
    ASSUME Digits \subseteq 0..15
    PROVE  Base64Spec => []Base64IsExact
  <1>1. Base64Init => Base64Inv
    BY InitBase64Inv
  <1>2. Base64Inv /\ [Base64Next]_base64Vars => Base64Inv'
    <2> SUFFICES ASSUME Base64Inv, [Base64Next]_base64Vars
                 PROVE  Base64Inv'
      OBVIOUS
    <2>1. CASE AddDigit
      BY <2>1, AddDigitInv
    <2>2. CASE to_base_64
      BY <2>2, to_base_64Inv
    <2>3. CASE EncodeByte
      BY <2>3, EncodeByteInv
    <2>4. CASE EncodeSymbol
      BY <2>4, EncodeSymbolInv
    <2>5. CASE EncodeRest
      BY <2>5, EncodeRestInv
    <2>6. CASE AddPad
      BY <2>6, AddPadInv
    <2>7. CASE from_base64
      BY <2>7, from_base64Inv
    <2>8. CASE DecodeSymbol
      BY <2>8, DecodeSymbolInv
    <2>9. CASE DecodeEnd
      BY <2>9, DecodeEndInv
    <2>10. CASE PassOver \/ UNCHANGED base64Vars
      BY <2>10, NothingElseBase64
    <2> QED
      BY <2>1, <2>2, <2>3, <2>4, <2>5, <2>6, <2>7, <2>8, <2>9, <2>10 DEF Base64Next
  <1>3. Base64Inv => Base64IsExact
    BY DEF Base64Inv
  <1> QED
    BY <1>1, <1>2, <1>3, PTL DEF Base64Spec

=============================================================================
