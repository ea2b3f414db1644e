----------------------------- MODULE BinaryData -----------------------------
(***************************************************************************)
(* Messages as bytes (common/BinaryData.h): a BinaryMessage is its type, a *)
(* short, and its payload, here that of an Error: a string, which is its   *)
(* length in bytes and its characters in UTF-8.  Strings are written and   *)
(* read in loops, character by character.                                  *)
(*                                                                         *)
(* What the code does depends on the machine: on the order of the bytes of *)
(* an integer in memory, and on whether a char is signed.  One machine     *)
(* writes a message, another reads what has arrived of it.                 *)
(***************************************************************************)
EXTENDS Integers, Sequences

CONSTANTS
    Types,     \* bound: the message types tried
    Chars,     \* bound: the characters tried, as bytes
    MaxText,   \* bound: characters in a string
    Refused,   \* a std::runtime_error was thrown
    Unread     \* nothing has been read

Machine == [bigEndian : BOOLEAN, signedChar : BOOLEAN]

Message == [type : Types, text : UNION {[1..n -> Chars] : n \in 0..MaxText}]

VARIABLES
    transfer,   \* "idle", "writing", "written", "reading" or "read"
    written,    \* the message that is written
    writer,     \* the machine that writes it
    utf8,       \* the bytes of its characters so far
    starts,     \* history: how many of them there were before each character
    data,       \* all bytes of the message
    reader,     \* the machine that reads them
    received,   \* how many of the bytes it was given
    told,       \* what getMessageTypeFromBytes says
    cur, end,   \* how far read_string_from_bytes is, and where the string ends
    result,     \* the characters it has read
    got         \* what deserialize makes of the bytes

messageVars == <<transfer, written, writer, utf8, starts, data, reader, received, told,
                 cur, end, result, got>>

-----------------------------------------------------------------------------
Reversed(bs) == [i \in 1..Len(bs) |-> bs[Len(bs) + 1 - i]]

\* Bytes of an integer from the lowest to the highest, and the integer they are.
ShortBytes(n) == <<n % 256, (n \div 256) % 256>>
LongBytes(n)  == <<n % 256, (n \div 256) % 256, (n \div 65536) % 256, (n \div 16777216) % 256>>

Short(bs) == bs[1] + 256 * bs[2]
Long(bs)  == bs[1] + 256 * bs[2] + 65536 * bs[3] + 16777216 * bs[4]

\* How a machine has an integer's bytes in memory.
InMemory(machine, bs) == IF machine.bigEndian THEN Reversed(bs) ELSE bs

\* Bytes are turned round on machines that are not little-endian: the network's
\* order is that of the others.
network_order(machine, bs) == IF machine.bigEndian THEN Reversed(bs) ELSE bs

to_bytes(machine, bs) == network_order(machine, InMemory(machine, bs))

\* read_bytes turns round what from_bytes has turned round already, and the machine
\* takes what it then has in memory for an integer.
read_bytes(machine, bs) ==
    InMemory(machine, network_order(machine, network_order(machine, bs)))

Signed(n) == IF n < 32768 THEN n ELSE n - 65536

-----------------------------------------------------------------------------
\* A char as a char32_t.  That of a negative char is among the largest; it is
\* the negative number here, whose last bits are the same.
AsChar32(machine, c) == IF machine.signedChar /\ c >= 128 THEN c - 256 ELSE c

\* Defect considered: the character at the border is taken for one byte.
Utf8From129(c) ==
    CASE c \in 0..128 -> <<c>>
      [] c \in 129..2047 -> <<192 + c \div 64, 128 + (c % 64)>>
      [] OTHER -> <<255, 128 + ((c \div 4096) % 64), 128 + ((c \div 64) % 64), 128 + (c % 64)>>

\* No char is between 0x800 and 0xFFFF, and those beyond have all bits set that
\* go to the first byte.
Utf8(c) ==
    CASE c \in 0..127 -> <<c>>
      [] c \in 128..2047 -> <<192 + c \div 64, 128 + (c % 64)>>
      [] OTHER -> <<255, 128 + ((c \div 4096) % 64), 128 + ((c \div 64) % 64), 128 + (c % 64)>>

\* The bytes of a character, by the first of them; 0 if it can be none.
Width(byte) ==
    CASE byte \in 0..127   -> 1
      [] byte \in 192..223 -> 2
      [] byte \in 224..239 -> 3
      [] byte \in 240..247 -> 4
      [] OTHER -> 0

\* A code point is cut down to a char: of its last two bytes, eight bits are left.
CharBefore(last, width) ==
    IF width = 1 THEN data[last] ELSE (data[last - 1] % 4) * 64 + (data[last] % 64)

-----------------------------------------------------------------------------
MessageInit ==
    /\ transfer = "idle"
    /\ written = [type |-> 0, text |-> << >>]
    /\ writer = [bigEndian |-> FALSE, signedChar |-> FALSE] /\ reader = writer
    /\ utf8 = << >> /\ starts = <<0>> /\ data = << >>
    /\ received = 0 /\ told = Unread
    /\ cur = 0 /\ end = 0 /\ result = << >> /\ got = Unread

serialize ==
    /\ transfer = "idle" /\ transfer' = "writing"
    /\ written' \in Message
    /\ writer' \in Machine
    /\ UNCHANGED <<utf8, starts, data, reader, received, told, cur, end, result, got>>

\* One turn of the loop of string_to_bytes.
WriteCharacter ==
    /\ transfer = "writing" /\ Len(starts) <= Len(written.text)
    /\ utf8' = utf8 \o Utf8(AsChar32(writer, written.text[Len(starts)]))
    /\ starts' = Append(starts, Len(utf8'))
    /\ UNCHANGED <<transfer, written, writer, data, reader, received, told, cur, end, result, got>>

\* The length comes before the characters, and the type before both.
Assemble ==
    /\ transfer = "writing" /\ Len(starts) = Len(written.text) + 1
    /\ transfer' = "written"
    /\ data' = to_bytes(writer, ShortBytes(written.type))
                 \o (to_bytes(writer, LongBytes(Len(utf8))) \o utf8)
    /\ UNCHANGED <<written, writer, utf8, starts, reader, received, told, cur, end, result, got>>

\* The type, of at least two bytes.
getMessageTypeFromBytes(machine) == Signed(Short(read_bytes(machine, <<data[1], data[2]>>)))

\* Defect considered: a string may be shorter than its length says.
string_end_short(machine, size) == size

\* Where the length says that the string ends, of at least six bytes.
string_end(machine, size) ==
    6 + Long(read_bytes(machine, <<data[3], data[4], data[5], data[6]>>))

\* All of the message has arrived, or some of it.  Its type is told beforehand, and
\* deserialize refuses what is too short for its type, its length or its string.
Receive ==
    /\ transfer = "written"
    /\ reader' \in Machine
    /\ received' \in 0..Len(data)
    /\ told' = IF received' < 2 THEN Refused ELSE getMessageTypeFromBytes(reader')
    /\ IF received' >= 6 /\ string_end(reader', received') <= received'
       THEN transfer' = "reading" /\ end' = string_end(reader', received') /\ got' = got
       ELSE transfer' = "read" /\ end' = end /\ got' = Refused
    /\ cur' = 6
    /\ UNCHANGED <<written, writer, utf8, starts, data, result>>

\* One turn of the loop of read_string_from_bytes: a character, or none.
ReadCharacter ==
    /\ transfer = "reading" /\ cur < end
    /\ LET width == Width(data[cur + 1])
       IN  /\ width \in 1..(end - cur)
           /\ cur' = cur + width
           /\ result' = Append(result, CharBefore(cur + width, width))
    /\ UNCHANGED <<transfer, written, writer, utf8, starts, data, reader, received, told, end, got>>

ReadInvalid ==
    /\ transfer = "reading" /\ cur < end
    /\ Width(data[cur + 1]) \notin 1..(end - cur)
    /\ transfer' = "read" /\ got' = Refused
    /\ UNCHANGED <<written, writer, utf8, starts, data, reader, received, told, cur, end, result>>

deserialize ==
    /\ transfer = "reading" /\ cur = end
    /\ transfer' = "read"
    /\ got' = [type |-> getMessageTypeFromBytes(reader), text |-> result]
    /\ UNCHANGED <<written, writer, utf8, starts, data, reader, received, told, cur, end, result>>

MessageNext ==
    \/ serialize \/ WriteCharacter \/ Assemble
    \/ Receive \/ ReadCharacter \/ ReadInvalid \/ deserialize

MessageSpec == MessageInit /\ [][MessageNext]_messageVars

-----------------------------------------------------------------------------
Plain(text) == \A i \in 1..Len(text) : text[i] < 128

\* A message that arrives whole at a little-endian machine is read as it was
\* written, on whatever machine; except that a machine with signed chars writes
\* other characters than those of ASCII as bytes that nobody reads
\* (BinaryData.h:125-201).
TextsSurvive ==
    transfer = "read" /\ received = Len(data) /\ ~reader.bigEndian =>
        got = IF writer.signedChar /\ ~Plain(written.text) THEN Refused ELSE written

\* Whatever arrives where: a little-endian machine is told the type that was
\* written; and on any machine, a message that is not refused has arrived whole and
\* has the type that is told and the text that was written.  Only a big-endian
\* machine that is sent 64 KB of text may take a part for the whole: the length,
\* turned round, is then perhaps less than it was (BinaryData.h:42-201).
NothingIsMadeUp ==
    /\ told \notin {Unread, Refused} /\ ~reader.bigEndian => told = written.type
    /\ got \notin {Unread, Refused} /\ (reader.bigEndian => Len(utf8) < 65536) =>
          received = Len(data) /\ got.type = told /\ got.text = written.text

=============================================================================
