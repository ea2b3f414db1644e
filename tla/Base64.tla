------------------------------- MODULE Base64 -------------------------------
(***************************************************************************)
(* The base64 pair of common/Utilities.h, loop by loop.  to_base_64 takes  *)
(* bytes written in hexadecimal, as sha1.hpp gives them to the handshake;  *)
(* what it returns is given to from_base64, which gives the bytes          *)
(* themselves, perhaps with characters in between that stand for nothing.  *)
(*                                                                         *)
(* A character of base64 is the number it stands for, 64 the sign '='.     *)
(* Both functions shift all they read through one integer and look at its  *)
(* 12 lowest bits: it is kept in 16 here.                                  *)
(***************************************************************************)
EXTENDS Integers, Sequences

CONSTANTS
    Digits,      \* bound: the hexadecimal digits tried
    MaxDigits,   \* bound: digits in an input
    MaxSkipped   \* bound: characters between those of base64

VARIABLES
    coding,      \* "idle", "encoding", "padding", "decoding" or "done"
    hex,         \* what is given to to_base_64
    taken,       \* bytes its loop has seen
    val, val_b,  \* of the function that runs
    text,        \* what to_base_64 returns
    place,       \* characters of it that from_base64 has seen
    skipped,     \* characters it has seen in between
    bytes        \* what from_base64 returns

base64Vars == <<coding, hex, taken, val, val_b, text, place, skipped, bytes>>

Pad == 64

\* How many bits of val are kept, as the number of its values.
ValSize == 65536

TwoTo == [bits \in 0..6 |-> IF bits = 0 THEN 1 ELSE <<2, 4, 8, 16, 32, 64>>[bits]]

ShiftRight(n, bits) == n \div TwoTo[bits]

-----------------------------------------------------------------------------
\* A digit that is left over at the end is a byte of its own.
ByteCount == (Len(hex) + 1) \div 2

InputByte(n) == IF 2 * n <= Len(hex) THEN 16 * hex[2 * n - 1] + hex[2 * n] ELSE hex[2 * n - 1]

Base64Init ==
    /\ coding = "idle" /\ hex = << >>
    /\ taken = 0 /\ val = 0 /\ val_b = 0 /\ text = << >>
    /\ place = 0 /\ skipped = 0 /\ bytes = << >>

AddDigit ==
    /\ coding = "idle" /\ Len(hex) < MaxDigits
    /\ \E d \in Digits : hex' = Append(hex, d)
    /\ UNCHANGED <<coding, taken, val, val_b, text, place, skipped, bytes>>

to_base_64 ==
    /\ coding = "idle"
    /\ coding' = "encoding" /\ val_b' = -6
    /\ UNCHANGED <<hex, taken, val, text, place, skipped, bytes>>

\* One turn of the outer loop, up to the inner one.
EncodeByte ==
    /\ coding = "encoding" /\ val_b < 0 /\ taken < ByteCount
    /\ taken' = taken + 1
    /\ val' = (val * 256 + InputByte(taken + 1)) % ValSize
    /\ val_b' = val_b + 8
    /\ UNCHANGED <<coding, hex, text, place, skipped, bytes>>

\* One turn of the inner loop.
EncodeSymbol ==
    /\ coding = "encoding" /\ val_b >= 0
    /\ text' = Append(text, ShiftRight(val, val_b) % 64)
    /\ val_b' = val_b - 6
    /\ UNCHANGED <<coding, hex, taken, val, place, skipped, bytes>>

\* Defect considered: the bits left over are not moved up.
EncodeRestUnshifted ==
    /\ coding = "encoding" /\ val_b < 0 /\ taken = ByteCount
    /\ text' = IF val_b > -6 THEN Append(text, val % TwoTo[val_b + 6]) ELSE text
    /\ coding' = "padding"
    /\ UNCHANGED <<hex, taken, val, val_b, place, skipped, bytes>>

EncodeRest ==
    /\ coding = "encoding" /\ val_b < 0 /\ taken = ByteCount
    /\ text' = IF val_b > -6 THEN Append(text, ShiftRight(val * 256, val_b + 8) % 64) ELSE text
    /\ coding' = "padding"
    /\ UNCHANGED <<hex, taken, val, val_b, place, skipped, bytes>>

AddPad ==
    /\ coding = "padding" /\ Len(text) % 4 # 0
    /\ text' = Append(text, Pad)
    /\ UNCHANGED <<coding, hex, taken, val, val_b, place, skipped, bytes>>

\* to_base_64 has returned, and from_base64 is called with what it returned.
from_base64 ==
    /\ coding = "padding" /\ Len(text) % 4 = 0
    /\ coding' = "decoding" /\ val' = 0 /\ val_b' = -8
    /\ UNCHANGED <<hex, taken, text, place, skipped, bytes>>

AtEnd == place < Len(text) => text[place + 1] = Pad

\* One turn of its loop.
DecodeSymbol ==
    /\ coding = "decoding" /\ ~AtEnd
    /\ place' = place + 1
    /\ val' = (val * 64 + text[place + 1]) % ValSize
    /\ LET bits == val_b + 6
       IN  IF bits >= 0
           THEN bytes' = Append(bytes, ShiftRight(val', bits) % 256) /\ val_b' = bits - 8
           ELSE bytes' = bytes /\ val_b' = bits
    /\ UNCHANGED <<coding, hex, taken, text, skipped>>

\* A turn that finds a character that stands for nothing.
PassOver ==
    /\ coding = "decoding" /\ skipped < MaxSkipped
    /\ skipped' = skipped + 1
    /\ UNCHANGED <<coding, hex, taken, val, val_b, text, place, bytes>>

\* The first '=' ends the loop, or the end of the text.
DecodeEnd ==
    /\ coding = "decoding" /\ AtEnd
    /\ coding' = "done"
    /\ UNCHANGED <<hex, taken, val, val_b, text, place, skipped, bytes>>

Base64Next ==
    \/ AddDigit \/ to_base_64 \/ EncodeByte \/ EncodeSymbol \/ EncodeRest \/ AddPad
    \/ from_base64 \/ DecodeSymbol \/ PassOver \/ DecodeEnd

Base64Spec == Base64Init /\ [][Base64Next]_base64Vars

-----------------------------------------------------------------------------
\* Base64 by its definition (RFC 4648): three bytes are four symbols of six bits,
\* bytes that are missing count as zero, and '=' fills up the last four symbols.
Byte(n) == IF n \in 1..ByteCount THEN InputByte(n) ELSE 0

Sextet(k) ==
    LET n == 3 * ((k - 1) \div 4)
        r == (k - 1) % 4
    IN  IF r = 0 THEN Byte(n + 1) \div 4
        ELSE IF r = 1 THEN (Byte(n + 1) % 4) * 16 + Byte(n + 2) \div 16
        ELSE IF r = 2 THEN (Byte(n + 2) % 16) * 4 + Byte(n + 3) \div 64
        ELSE Byte(n + 3) % 64

SextetCount == (8 * ByteCount + 5) \div 6

Reference ==
    [k \in 1..(4 * ((ByteCount + 2) \div 3)) |-> IF k <= SextetCount THEN Sextet(k) ELSE Pad]

\* What to_base_64 makes of the digits is base64, and from_base64 finds the bytes
\* in it again, whatever stands between the characters: at every length, though
\* both carry bits from one turn of their loop to the next and drop some at the end
\* (Utilities.h:47-95).
Base64IsExact ==
    /\ coding \in {"decoding", "done"} => text = Reference
    /\ coding = "done" => bytes = [n \in 1..ByteCount |-> InputByte(n)]

=============================================================================
