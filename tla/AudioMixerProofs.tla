-------------------------- MODULE AudioMixerProofs --------------------------
(***************************************************************************)
(* That mix() keeps the level of what it mixes, for packets of any number  *)
(* and length and for samples of any width.                                *)
(*                                                                         *)
(* The sum at a place is at most as loud as so many samples as were added  *)
(* there (Bounded), so their average is as loud as one, and half of it     *)
(* never clips; and where one packet only has been added the sum is its    *)
(* sample and the count is one (Alone).                                    *)
(***************************************************************************)
EXTENDS AudioMixer, SequenceTheorems, TLAPS

\* What the theorems assume of the constants: samples of the range, and no more
\* packets than a sum has room for.  With 16 and 32 bits that is 65535 packets.
MixerConstants ==
    /\ HalfRange \in Nat \ {0}
    /\ Levels \subseteq MinSample..MaxSample
    /\ MaxSamples \in Nat /\ MaxPackets \in Nat /\ MaxSum \in Nat
    /\ MaxPackets * HalfRange <= MaxSum

-----------------------------------------------------------------------------
\* Division.
LEMMA QuotientBelow ==
    ASSUME NEW a \in Nat, NEW c \in Nat, c > 0
    PROVE  a \div c \in Nat /\ c * (a \div c) <= a
  OBVIOUS

LEMMA FactorBelow ==
    ASSUME NEW q \in Nat, NEW c \in Nat, c > 0, NEW h \in Nat, c * q <= c * h
    PROVE  q <= h
  <1> SUFFICES ASSUME q >= h + 1 PROVE FALSE
    OBVIOUS
  <1>1. c * q >= c * (h + 1)
    OBVIOUS
  <1>2. c * (h + 1) = c * h + c
    OBVIOUS
  <1>3. c * h \in Nat /\ c * q \in Nat
    OBVIOUS
  <1> QED
    BY <1>1, <1>2, <1>3

LEMMA QuotientBounded ==
    ASSUME NEW a \in Nat, NEW c \in Nat, c > 0, NEW h \in Nat, a <= c * h
    PROVE  a \div c \in Nat /\ a \div c <= h
  <1> DEFINE q == a \div c
  <1>1. q \in Nat /\ c * q <= a
    BY QuotientBelow
  <1>2. c * h \in Nat /\ c * q \in Nat
    BY <1>1
  <1> HIDE DEF q
  <1>3. c * q <= c * h
    BY <1>1, <1>2
  <1>4. q <= h
    BY <1>1, <1>3, FactorBelow
  <1> QED
    BY <1>1, <1>4 DEF q

LEMMA ProductGrows ==
    ASSUME NEW a \in Nat, NEW b \in Nat, a <= b, NEW h \in Nat
    PROVE  a * h <= b * h
  OBVIOUS

\* An average is no louder than the loudest of what is averaged.
LEMMA AverageBounded ==
    ASSUME NEW a \in Int, NEW c \in Nat, c > 0, NEW h \in Nat,
           -(c * h) <= a, a <= c * h
    PROVE  CDiv(a, c) \in Int /\ -h <= CDiv(a, c) /\ CDiv(a, c) <= h
  <1>1. c * h \in Nat
    OBVIOUS
  <1>2. CASE a >= 0
    <2>1. a \in Nat
      BY <1>2
    <2>2. a \div c \in Nat /\ a \div c <= h
      BY <2>1, QuotientBounded
    <2>3. CDiv(a, c) = a \div c
      BY <1>2 DEF CDiv
    <2> HIDE DEF CDiv
    <2> QED
      BY <2>2, <2>3
  <1>3. CASE ~ (a >= 0)
    <2> DEFINE b == -a
    <2>1. b \in Nat /\ b <= c * h
      BY <1>1, <1>3
    <2>2. CDiv(a, c) = -(b \div c)
      BY <1>3 DEF CDiv
    <2> HIDE DEF b
    <2>3. b \div c \in Nat /\ b \div c <= h
      BY <2>1, QuotientBounded
    <2> QED
      BY <2>2, <2>3
  <1> QED
    BY <1>2, <1>3

\* Half of a sample is inside the range, with room to spare.
LEMMA HalfFits ==
    ASSUME HalfRange \in Nat \ {0}, NEW a \in Int, -HalfRange <= a, a <= HalfRange
    PROVE  /\ Clamp(CDiv(a, 2)) \in Int
           /\ Abs(Clamp(CDiv(a, 2))) <= HalfRange \div 2
  <1> DEFINE half == CDiv(a, 2)
             quarter == HalfRange \div 2
  <1>1. half \in Int /\ -quarter <= half /\ half <= quarter
    BY DEF CDiv
  <1>2. quarter \in Nat /\ quarter <= HalfRange - 1
    OBVIOUS
  <1> HIDE DEF half, quarter
  <1>3. Clamp(half) = half
    BY <1>1, <1>2 DEF Clamp, MinSample, MaxSample
  <1>4. Abs(half) <= quarter
    BY <1>1, <1>2 DEF Abs
  <1> QED
    BY <1>1, <1>3, <1>4 DEF half, quarter

LEMMA NormalizeFits ==
    ASSUME HalfRange \in Nat \ {0}, NEW sum \in Int, NEW count \in Nat,
           -(count * HalfRange) <= sum, sum <= count * HalfRange
    PROVE  /\ normalize(sum, count) \in Int
           /\ Abs(normalize(sum, count)) <= HalfRange \div 2
  <1>1. CASE count > 0
    <2>1. /\ CDiv(sum, count) \in Int
          /\ -HalfRange <= CDiv(sum, count) /\ CDiv(sum, count) <= HalfRange
      BY <1>1, AverageBounded
    <2>2. normalize(sum, count) = Clamp(CDiv(CDiv(sum, count), 2))
      BY <1>1 DEF normalize
    <2> QED
      BY <2>1, <2>2, HalfFits
  <1>2. CASE ~ (count > 0)
    BY <1>2 DEF normalize, Abs
  <1> QED
    BY <1>1, <1>2

-----------------------------------------------------------------------------
\* The sums and counts after n packets have been added up: no sum is louder than
\* its count allows, and what nobody or one packet has reached is as it was.
Bounded(n, max, sums, counts) ==
    \A i \in 1..max :
        /\ counts[i] <= n
        /\ -(counts[i] * HalfRange) <= sums[i]
        /\ sums[i] <= counts[i] * HalfRange

Alone(ps, lens, n, max, sums, counts) ==
    \A i \in 1..max :
        /\ (\A k \in 1..n : lens[k] < i) => sums[i] = 0 /\ counts[i] = 0
        /\ \A k \in 1..n :
              i <= lens[k] /\ (\A other \in 1..n \ {k} : lens[other] < i)
                 => sums[i] = ps[k][i] /\ counts[i] = 1

\* The first samples of a packet are in the range.
InRange(p, length) ==
    \A i \in 1..length : p[i] \in Int /\ -HalfRange <= p[i] /\ p[i] <= HalfRange

\* What adding a packet makes of the sums and of the counts.
SumsWith(max, sums, p, length) ==
    [i \in 1..max |-> IF i <= length THEN sums[i] + p[i] ELSE sums[i]]
CountsWith(max, counts, length) ==
    [i \in 1..max |-> IF i <= length THEN counts[i] + 1 ELSE counts[i]]

\* One sample more.
LEMMA OneMore ==
    ASSUME NEW c \in Nat, NEW h \in Nat, NEW s \in Int, NEW x \in Int,
           -h <= x, x <= h, -(c * h) <= s, s <= c * h
    PROVE  -((c + 1) * h) <= s + x /\ s + x <= (c + 1) * h
  <1>1. (c + 1) * h = c * h + h /\ c * h \in Nat
    OBVIOUS
  <1> QED
    BY <1>1

LEMMA AddBounded ==
    ASSUME HalfRange \in Nat, NEW n \in Nat, NEW max \in Nat,
           NEW sums \in [1..max -> Int], NEW counts \in [1..max -> Nat],
           Bounded(n, max, sums, counts),
           NEW length \in Nat, NEW p, InRange(p, length)
    PROVE  /\ SumsWith(max, sums, p, length) \in [1..max -> Int]
           /\ CountsWith(max, counts, length) \in [1..max -> Nat]
           /\ Bounded(n + 1, max, SumsWith(max, sums, p, length), CountsWith(max, counts, length))
  <1> DEFINE sums2 == SumsWith(max, sums, p, length)
             counts2 == CountsWith(max, counts, length)
  <1> HIDE DEF sums2, counts2
  <1>1. ASSUME NEW i \in 1..max
        PROVE  /\ sums2[i] \in Int /\ counts2[i] \in Nat
               /\ counts2[i] <= n + 1
               /\ -(counts2[i] * HalfRange) <= sums2[i]
               /\ sums2[i] <= counts2[i] * HalfRange
    <2>1. /\ counts[i] <= n
          /\ -(counts[i] * HalfRange) <= sums[i] /\ sums[i] <= counts[i] * HalfRange
      BY DEF Bounded
    <2>2. sums[i] \in Int /\ counts[i] \in Nat
      OBVIOUS
    <2>3. counts[i] <= n
      BY <2>1
    <2>4. CASE i <= length
      <3>1. p[i] \in Int /\ -HalfRange <= p[i] /\ p[i] <= HalfRange
        BY <2>4 DEF InRange
      <3>2. sums2[i] = sums[i] + p[i] /\ counts2[i] = counts[i] + 1
        BY <2>4 DEF sums2, counts2, SumsWith, CountsWith
      <3>3. /\ -((counts[i] + 1) * HalfRange) <= sums[i] + p[i]
            /\ sums[i] + p[i] <= (counts[i] + 1) * HalfRange
        BY <2>1, <2>2, <3>1, OneMore
      <3>4. sums2[i] \in Int
        BY <2>2, <3>1, <3>2
      <3>5. counts2[i] \in Nat /\ counts2[i] <= n + 1
        BY <2>2, <2>3, <3>2
      <3> QED
        BY <3>2, <3>3, <3>4, <3>5
    <2>5. CASE ~ (i <= length)
      <3>1. sums2[i] = sums[i] /\ counts2[i] = counts[i]
        BY <2>5 DEF sums2, counts2, SumsWith, CountsWith
      <3> QED
        BY <2>1, <2>2, <2>3, <3>1
    <2> QED
      BY <2>4, <2>5
  <1>2. sums2 \in [1..max -> Int] /\ counts2 \in [1..max -> Nat]
    BY <1>1 DEF sums2, counts2, SumsWith, CountsWith
  <1> QED
    BY <1>1, <1>2 DEF Bounded, sums2, counts2

LEMMA UpToNext ==
    ASSUME NEW n \in Nat
    PROVE  /\ \A k \in 1..n : k \in 1..(n + 1) /\ k # n + 1
           /\ \A k \in 1..(n + 1) : k = n + 1 \/ k \in 1..n
           /\ n + 1 \in 1..(n + 1)
  OBVIOUS

LEMMA AddAlone ==
    ASSUME NEW n \in Nat, NEW max \in Nat,
           NEW sums \in [1..max -> Int], NEW counts \in [1..max -> Nat],
           NEW total \in Nat, n < total, NEW lens \in [1..total -> Nat],
           NEW ps, Alone(ps, lens, n, max, sums, counts),
           \A i \in 1..lens[n + 1] : ps[n + 1][i] \in Int,
           NEW sums2, sums2 = SumsWith(max, sums, ps[n + 1], lens[n + 1]),
           NEW counts2, counts2 = CountsWith(max, counts, lens[n + 1])
    PROVE  Alone(ps, lens, n + 1, max, sums2, counts2)
  <1> SUFFICES ASSUME NEW i \in 1..max
      PROVE  /\ (\A k \in 1..(n + 1) : lens[k] < i) => sums2[i] = 0 /\ counts2[i] = 0
             /\ \A k \in 1..(n + 1) :
                   i <= lens[k] /\ (\A other \in 1..(n + 1) \ {k} : lens[other] < i)
                      => sums2[i] = ps[k][i] /\ counts2[i] = 1
    BY DEF Alone
  <1>1. /\ \A k \in 1..n : k \in 1..(n + 1) /\ k # n + 1
        /\ \A k \in 1..(n + 1) : k = n + 1 \/ k \in 1..n
        /\ \A k \in 1..(n + 1) : lens[k] \in Nat
        /\ n + 1 \in 1..(n + 1)
    <2>1. \A k \in 1..(n + 1) : k \in 1..total
      OBVIOUS
    <2>2. \A k \in 1..(n + 1) : lens[k] \in Nat
      BY <2>1
    <2> QED
      BY <2>2, UpToNext
  <1>2. sums[i] \in Int /\ counts[i] \in Nat
    OBVIOUS
  <1>3. (\A k \in 1..n : lens[k] < i) => sums[i] = 0 /\ counts[i] = 0
    BY DEF Alone
  <1>4. ASSUME \A k \in 1..(n + 1) : lens[k] < i
        PROVE  sums2[i] = 0 /\ counts2[i] = 0
    <2>1. ~ (i <= lens[n + 1])
      BY <1>1, <1>4
    <2>2. sums2[i] = sums[i] /\ counts2[i] = counts[i]
      BY <2>1 DEF SumsWith, CountsWith
    <2> QED
      BY <1>1, <1>3, <1>4, <2>2
  <1>5. ASSUME NEW k \in 1..(n + 1), i <= lens[k],
               \A other \in 1..(n + 1) \ {k} : lens[other] < i
        PROVE  sums2[i] = ps[k][i] /\ counts2[i] = 1
    <2>1. CASE k = n + 1
      <3>1. sums[i] = 0 /\ counts[i] = 0
        BY <1>1, <1>3, <1>5, <2>1
      <3>2. sums2[i] = sums[i] + ps[n + 1][i] /\ counts2[i] = counts[i] + 1
        BY <1>5, <2>1 DEF SumsWith, CountsWith
      <3>3. ps[n + 1][i] \in Int
        BY <1>1, <1>5, <2>1
      <3> QED
        BY <2>1, <3>1, <3>2, <3>3
    <2>2. CASE k \in 1..n
      <3>1. ~ (i <= lens[n + 1])
        <4>1. n + 1 \in 1..(n + 1) \ {k}
          BY <2>2
        <4>2. lens[n + 1] < i
          BY <1>5, <4>1
        <4>3. i \in Nat /\ lens[n + 1] \in Nat
          BY <4>1
        <4> QED
          BY <4>2, <4>3
      <3>2. sums2[i] = sums[i] /\ counts2[i] = counts[i]
        BY <3>1 DEF SumsWith, CountsWith
      <3>3. \A other \in 1..n \ {k} : lens[other] < i
        BY <1>1, <1>5
      <3>4. sums[i] = ps[k][i] /\ counts[i] = 1
        BY <1>5, <2>2, <3>3 DEF Alone
      <3> QED
        BY <3>2, <3>4
    <2> QED
      BY <1>1, <2>1, <2>2
  <1> QED
    BY <1>4, <1>5

-----------------------------------------------------------------------------
Lens == [k \in 1..Len(packets) |-> Len(packets[k])]

MixTypes ==
    /\ packets \in Seq(Packet) /\ Len(packets) <= MaxPackets
    /\ stage \in {"collecting", "measuring", "adding", "returned"}
    /\ visited \in 0..Len(packets) /\ maxSampleCount \in Nat

\* The first loop has found the longest of the packets it has seen.
Longest ==
    /\ stage = "collecting" => visited = 0 /\ maxSampleCount = 0
    /\ stage = "measuring" => \A k \in 1..visited : Lens[k] <= maxSampleCount
    /\ stage \in {"adding", "returned"} =>
          \A k \in 1..Len(packets) : Lens[k] <= maxSampleCount

\* The second one has added up the packets it has seen.
Added ==
    /\ stage \in {"adding", "returned"} =>
          /\ mixBuffer \in [1..maxSampleCount -> Int]
          /\ sampleCounts \in [1..maxSampleCount -> Nat]
          /\ Bounded(visited, maxSampleCount, mixBuffer, sampleCounts)
          /\ Alone(packets, Lens, visited, maxSampleCount, mixBuffer, sampleCounts)
    /\ stage \notin {"adding", "returned"} => mixBuffer = << >> /\ sampleCounts = << >>

Returned ==
    /\ stage = "returned" =>
          /\ visited = Len(packets)
          /\ DOMAIN outputBuffer = 1..maxSampleCount
          /\ \A i \in 1..maxSampleCount :
                outputBuffer[i] = normalize(mixBuffer[i], sampleCounts[i])
    /\ stage # "returned" => outputBuffer = << >>

MixInv == MixTypes /\ Longest /\ Added /\ Returned

\* What the packets are made of.
LEMMA PacketsKnown ==
    ASSUME MixerConstants, packets \in Seq(Packet)
    PROVE  /\ Len(packets) \in Nat
           /\ Lens \in [1..Len(packets) -> Nat]
           /\ \A k \in 1..Len(packets) : InRange(packets[k], Lens[k])
  <1>1. Len(packets) \in Nat
    BY LenProperties
  <1>2. ASSUME NEW k \in 1..Len(packets)
        PROVE  /\ Len(packets[k]) \in Nat /\ Lens[k] = Len(packets[k])
               /\ \A i \in 1..Lens[k] : packets[k][i] \in Levels
    <2>1. packets[k] \in Packet
      BY ElementOfSeq
    <2>2. PICK n \in 0..MaxSamples : packets[k] \in [1..n -> Levels]
      BY <2>1 DEF Packet
    <2>3. n \in Nat
      BY <2>2 DEF MixerConstants
    <2>4. Len(packets[k]) = n
      BY <2>2, <2>3
    <2>5. Lens[k] = n
      BY <2>4 DEF Lens
    <2> QED
      BY <2>2, <2>3, <2>4, <2>5
  <1>3. \A x \in Levels : x \in Int /\ -HalfRange <= x /\ x <= HalfRange
    BY DEF MixerConstants, MinSample, MaxSample
  <1>4. Lens \in [1..Len(packets) -> Nat]
    BY <1>2 DEF Lens
  <1> QED
    BY <1>1, <1>2, <1>3, <1>4 DEF InRange

-----------------------------------------------------------------------------
LEMMA InitMix == MixerConstants /\ MixerInit => MixInv
  <1> SUFFICES ASSUME MixerConstants, MixerInit PROVE MixInv
    OBVIOUS
  <1>1. MixTypes
    BY DEF MixerInit, MixTypes, MixerConstants
  <1> QED
    BY <1>1 DEF MixerInit, MixInv, Longest, Added, Returned

LEMMA HandInMix ==
    ASSUME MixerConstants, MixInv, HandIn
    PROVE  MixInv'
  <1>1. PICK p \in Packet : packets' = Append(packets, p)
    BY DEF HandIn
  <1>2. /\ stage = "collecting" /\ stage' = stage
        /\ UNCHANGED <<visited, maxSampleCount, mixBuffer, sampleCounts, outputBuffer>>
    BY DEF HandIn
  <1>3. MixTypes'
    <2>1. packets' \in Seq(Packet) /\ Len(packets') = Len(packets) + 1
      BY <1>1, AppendProperties DEF MixInv, MixTypes
    <2> DEFINE n == Len(packets)
               m == Len(packets')
    <2>2. n \in Nat /\ m = n + 1 /\ n < MaxPackets /\ MaxPackets \in Nat
      BY <2>1, LenProperties DEF MixInv, MixTypes, HandIn, MixerConstants
    <2>3. visited \in 0..n /\ visited' = visited
      BY <1>2 DEF MixInv, MixTypes
    <2> HIDE DEF n, m
    <2>4. m <= MaxPackets /\ visited' \in 0..m
      BY <2>2, <2>3
    <2>5. maxSampleCount' \in Nat
      BY <1>2 DEF MixInv, MixTypes
    <2> QED
      BY <1>2, <2>1, <2>4, <2>5 DEF MixTypes, m
  <1>4. Longest'
    BY <1>2 DEF MixInv, Longest
  <1>5. Added' /\ Returned'
    BY <1>2 DEF MixInv, Added, Returned
  <1> QED
    BY <1>3, <1>4, <1>5 DEF MixInv

LEMMA CallMix ==
    ASSUME MixerConstants, MixInv, Call
    PROVE  MixInv'
  <1>1. /\ stage = "collecting"
        /\ UNCHANGED <<packets, visited, maxSampleCount, mixBuffer, sampleCounts, outputBuffer>>
    BY DEF Call
  <1>2. visited = 0 /\ maxSampleCount = 0
    BY <1>1 DEF MixInv, Longest
  <1>3. mixBuffer = << >> /\ sampleCounts = << >> /\ outputBuffer = << >>
    BY <1>1 DEF MixInv, Added, Returned
  <1>4. Lens' = Lens
    BY <1>1 DEF Lens
  <1>5. CASE packets = << >>
    <2>1. stage' = "returned" /\ Len(packets) = 0
      BY <1>5 DEF Call
    <2>2. MixTypes' /\ Longest' /\ Returned'
      BY <1>1, <1>2, <1>3, <2>1 DEF MixInv, MixTypes, Longest, Returned
    <2>3. Added'
      BY <1>1, <1>2, <1>3, <2>1 DEF Added, Bounded, Alone
    <2> QED
      BY <2>2, <2>3 DEF MixInv
  <1>6. CASE packets # << >>
    <2>1. stage' = "measuring"
      BY <1>6 DEF Call
    <2>2. MixTypes' /\ Returned' /\ Added'
      BY <1>1, <1>3, <2>1 DEF MixInv, MixTypes, Returned, Added
    <2>3. Longest'
      BY <1>1, <1>2, <2>1 DEF Longest
    <2> QED
      BY <2>2, <2>3 DEF MixInv
  <1> QED
    BY <1>5, <1>6

LEMMA MeasureMix ==
    ASSUME MixerConstants, MixInv, Measure
    PROVE  MixInv'
  <1> DEFINE n == Len(packets)
             length == Lens[visited + 1]
  <1>1. /\ stage = "measuring" /\ visited < n /\ visited' = visited + 1
        /\ UNCHANGED <<packets, stage, mixBuffer, sampleCounts, outputBuffer>>
    BY DEF Measure
  <1>2. /\ n \in Nat /\ Lens \in [1..n -> Nat] /\ n <= MaxPackets
        /\ visited \in 0..n /\ maxSampleCount \in Nat
    BY PacketsKnown DEF MixInv, MixTypes
  <1>3. visited + 1 \in 1..n /\ length \in Nat
    <2> HIDE DEF n
    <2>1. visited + 1 \in 1..n
      BY <1>1, <1>2
    <2> QED
      BY <1>2, <2>1
  <1>4. maxSampleCount' = IF length > maxSampleCount THEN length ELSE maxSampleCount
    BY <1>3 DEF Measure, Lens
  <1>5. Lens' = Lens
    BY <1>1 DEF Lens
  <1> HIDE DEF n, length
  <1>6. /\ maxSampleCount' \in Nat /\ maxSampleCount' >= maxSampleCount
        /\ maxSampleCount' >= length
    BY <1>2, <1>3, <1>4
  <1>7. MixTypes'
    <2>1. visited' \in 0..n
      BY <1>1, <1>3
    <2> QED
      BY <1>1, <1>6, <2>1 DEF MixInv, MixTypes, n
  <1>8. \A k \in 1..visited' : Lens[k] <= maxSampleCount'
    <2>1. TAKE k \in 1..visited'
    <2>2. k \in 1..n /\ (k \in 1..visited \/ k = visited + 1)
      BY <1>1, <1>2, <1>3
    <2>3. Lens[k] \in Nat
      BY <1>2, <2>2
    <2>4. Lens[k] <= maxSampleCount \/ Lens[k] = length
      BY <1>1, <2>2 DEF MixInv, Longest, length
    <2> QED
      BY <1>2, <1>3, <1>6, <2>3, <2>4
  <1>9. Longest'
    BY <1>1, <1>5, <1>8 DEF Longest
  <1>10. Added' /\ Returned'
    BY <1>1 DEF MixInv, Added, Returned
  <1> QED
    BY <1>7, <1>9, <1>10 DEF MixInv

LEMMA AllocateMix ==
    ASSUME MixerConstants, MixInv, Allocate
    PROVE  MixInv'
  <1>1. /\ stage = "measuring" /\ visited = Len(packets)
        /\ stage' = "adding" /\ visited' = 0
        /\ UNCHANGED <<packets, maxSampleCount, outputBuffer>>
    BY DEF Allocate
  <1>2. Lens' = Lens
    BY <1>1 DEF Lens
  <1>3. Len(packets) \in Nat /\ HalfRange \in Nat /\ maxSampleCount \in Nat
    BY PacketsKnown DEF MixInv, MixTypes, MixerConstants
  <1>4. MixTypes'
    BY <1>1, <1>3 DEF MixInv, MixTypes
  <1>5. Longest'
    BY <1>1, <1>2 DEF MixInv, Longest
  <1>6. /\ mixBuffer' = [i \in 1..maxSampleCount |-> 0]
        /\ sampleCounts' = [i \in 1..maxSampleCount |-> 0]
    BY DEF Allocate
  <1>7. Bounded(0, maxSampleCount, mixBuffer', sampleCounts')
    BY <1>3, <1>6 DEF Bounded
  <1>8. Alone(packets, Lens, 0, maxSampleCount, mixBuffer', sampleCounts')
    BY <1>6 DEF Alone
  <1>9. Added'
    BY <1>1, <1>2, <1>6, <1>7, <1>8 DEF Added
  <1>10. Returned'
    BY <1>1 DEF MixInv, Returned
  <1> QED
    BY <1>4, <1>5, <1>9, <1>10 DEF MixInv

LEMMA AddMix ==
    ASSUME MixerConstants, MixInv, Add
    PROVE  MixInv'
  <1> DEFINE n == Len(packets)
             p == packets[visited + 1]
             length == Lens[visited + 1]
  <1>1. /\ stage = "adding" /\ visited < n /\ visited' = visited + 1
        /\ UNCHANGED <<packets, stage, maxSampleCount, outputBuffer>>
    BY DEF Add
  <1>2. /\ n \in Nat /\ Lens \in [1..n -> Nat] /\ visited \in 0..n
        /\ maxSampleCount \in Nat /\ HalfRange \in Nat
    BY PacketsKnown DEF MixInv, MixTypes, MixerConstants
  <1>3. /\ mixBuffer \in [1..maxSampleCount -> Int]
        /\ sampleCounts \in [1..maxSampleCount -> Nat]
        /\ Bounded(visited, maxSampleCount, mixBuffer, sampleCounts)
        /\ Alone(packets, Lens, visited, maxSampleCount, mixBuffer, sampleCounts)
    BY <1>1 DEF MixInv, Added
  <1>4. visited \in Nat /\ visited + 1 \in 1..n
    <2> HIDE DEF n
    <2> QED
      BY <1>1, <1>2
  <1>5. length \in Nat /\ Len(p) = length
    BY <1>2, <1>4 DEF Lens
  <1>6. InRange(p, length)
    BY <1>4, PacketsKnown DEF MixInv, MixTypes
  <1>7. DOMAIN mixBuffer = 1..maxSampleCount /\ DOMAIN sampleCounts = 1..maxSampleCount
    BY <1>3
  <1> HIDE DEF length
  <1>8. /\ mixBuffer' = SumsWith(maxSampleCount, mixBuffer, p, length)
        /\ sampleCounts' = CountsWith(maxSampleCount, sampleCounts, length)
    BY <1>5, <1>7 DEF Add, SumsWith, CountsWith
  <1> HIDE DEF n, p
  <1>9. /\ mixBuffer' \in [1..maxSampleCount -> Int]
        /\ sampleCounts' \in [1..maxSampleCount -> Nat]
        /\ Bounded(visited + 1, maxSampleCount, mixBuffer', sampleCounts')
    <2>1. HalfRange \in Nat /\ visited \in Nat /\ maxSampleCount \in Nat /\ length \in Nat
      BY <1>2, <1>4, <1>5
    <2> QED
      BY <1>3, <1>6, <1>8, <2>1, AddBounded
  <1>10. Alone(packets, Lens, visited + 1, maxSampleCount, mixBuffer', sampleCounts')
    <2>1. \A i \in 1..length : p[i] \in Int
      BY <1>6 DEF InRange
    <2> QED
      BY <1>1, <1>2, <1>3, <1>4, <1>8, <2>1, AddAlone DEF p, length
  <1>11. Lens' = Lens
    BY <1>1 DEF Lens
  <1>12. MixTypes'
    <2>1. visited' \in 0..n
      BY <1>1, <1>2, <1>4
    <2> QED
      BY <1>1, <2>1 DEF MixInv, MixTypes, n
  <1>13. Longest' /\ Returned'
    BY <1>1, <1>11 DEF MixInv, Longest, Returned
  <1>14. Added'
    BY <1>1, <1>9, <1>10, <1>11 DEF Added
  <1> QED
    BY <1>12, <1>13, <1>14 DEF MixInv

LEMMA NormalizeMix ==
    ASSUME MixInv, Normalize
    PROVE  MixInv'
  <1>1. /\ stage = "adding" /\ visited = Len(packets) /\ stage' = "returned"
        /\ UNCHANGED <<packets, visited, maxSampleCount, mixBuffer, sampleCounts>>
    BY DEF Normalize
  <1>2. Lens' = Lens
    BY <1>1 DEF Lens
  <1>3. MixTypes' /\ Longest'
    BY <1>1, <1>2 DEF MixInv, MixTypes, Longest
  <1>4. Added'
    BY <1>1, <1>2 DEF MixInv, Added
  <1>5. Returned'
    BY <1>1 DEF Normalize, Returned
  <1> QED
    BY <1>3, <1>4, <1>5 DEF MixInv

LEMMA NextMix ==
    ASSUME MixerConstants
    PROVE  MixInv /\ [MixerNext]_mixerVars => MixInv'
  <1> SUFFICES ASSUME MixInv, [MixerNext]_mixerVars PROVE MixInv'
    OBVIOUS
  <1>1. CASE UNCHANGED mixerVars
    <2>1. UNCHANGED <<packets, stage, visited, maxSampleCount, mixBuffer, sampleCounts,
                      outputBuffer, Lens>>
      BY <1>1 DEF mixerVars, Lens
    <2> QED
      BY <2>1 DEF MixInv, MixTypes, Longest, Added, Returned
  <1> QED
    BY <1>1, HandInMix, CallMix, MeasureMix, AllocateMix, AddMix, NormalizeMix DEF MixerNext

-----------------------------------------------------------------------------
LEMMA LevelsKept == MixerConstants /\ MixInv => NothingClips /\ TailsKeepTheirLevel
  <1> SUFFICES ASSUME MixerConstants, MixInv
               PROVE  NothingClips /\ TailsKeepTheirLevel
    OBVIOUS
  <1>1. CASE stage # "returned"
    BY <1>1 DEF MixInv, Returned, NothingClips, TailsKeepTheirLevel
  <1>2. CASE stage = "returned"
    <2> DEFINE n == Len(packets)
    <2>1. /\ mixBuffer \in [1..maxSampleCount -> Int]
          /\ sampleCounts \in [1..maxSampleCount -> Nat]
          /\ Bounded(visited, maxSampleCount, mixBuffer, sampleCounts)
          /\ Alone(packets, Lens, visited, maxSampleCount, mixBuffer, sampleCounts)
      BY <1>2 DEF MixInv, Added
    <2>2. /\ visited = n
          /\ DOMAIN outputBuffer = 1..maxSampleCount
          /\ \A i \in 1..maxSampleCount :
                outputBuffer[i] = normalize(mixBuffer[i], sampleCounts[i])
      BY <1>2 DEF MixInv, Returned
    <2>3. /\ n \in Nat /\ Lens \in [1..n -> Nat] /\ maxSampleCount \in Nat
          /\ HalfRange \in Nat \ {0}
      BY PacketsKnown DEF MixInv, MixTypes, MixerConstants
    <2>4. \A k \in 1..n : Lens[k] = Len(packets[k]) /\ Lens[k] <= maxSampleCount
      BY <1>2 DEF MixInv, Longest, Lens
    <2> HIDE DEF n
    <2>5. NothingClips
      <3> SUFFICES ASSUME NEW i \in 1..maxSampleCount
                   PROVE  Abs(outputBuffer[i]) <= HalfRange \div 2
        BY <2>2 DEF NothingClips
      <3>1. /\ mixBuffer[i] \in Int /\ sampleCounts[i] \in Nat
            /\ -(sampleCounts[i] * HalfRange) <= mixBuffer[i]
            /\ mixBuffer[i] <= sampleCounts[i] * HalfRange
        BY <2>1 DEF Bounded
      <3>2. Abs(normalize(mixBuffer[i], sampleCounts[i])) <= HalfRange \div 2
        BY <2>3, <3>1, NormalizeFits
      <3> QED
        BY <2>2, <3>2
    <2>6. TailsKeepTheirLevel
      <3> SUFFICES ASSUME NEW k \in 1..n, NEW i \in 1..Lens[k],
                          \A other \in 1..n \ {k} : Lens[other] < i
                   PROVE  outputBuffer[i] = normalize(packets[k][i], 1)
        BY <2>4 DEF TailsKeepTheirLevel, n
      <3>1. i \in 1..maxSampleCount /\ i <= Lens[k]
        BY <2>3, <2>4
      <3>2. mixBuffer[i] = packets[k][i] /\ sampleCounts[i] = 1
        BY <2>1, <2>2, <3>1 DEF Alone
      <3> QED
        BY <2>2, <3>1, <3>2
    <2> QED
      BY <2>5, <2>6
  <1> QED
    BY <1>1, <1>2

\* A sum has no more terms than there are packets.
LEMMA SumsInRange == MixerConstants /\ MixInv => SumsFit
  <1> SUFFICES ASSUME MixerConstants, MixInv, NEW i \in DOMAIN mixBuffer
               PROVE  Abs(mixBuffer[i]) <= MaxSum
    BY DEF SumsFit
  <1>1. stage \in {"adding", "returned"}
    BY DEF MixInv, Added
  <1>2. /\ mixBuffer \in [1..maxSampleCount -> Int]
        /\ sampleCounts \in [1..maxSampleCount -> Nat]
        /\ Bounded(visited, maxSampleCount, mixBuffer, sampleCounts)
    BY <1>1 DEF MixInv, Added
  <1> DEFINE c == sampleCounts[i]
             s == mixBuffer[i]
             n == Len(packets)
  <1>3. c \in Nat /\ s \in Int
    BY <1>2
  <1>4. c <= visited /\ -(c * HalfRange) <= s /\ s <= c * HalfRange
    BY <1>2 DEF Bounded
  <1>5. n \in Nat /\ visited \in 0..n /\ n <= MaxPackets
    BY PacketsKnown DEF MixInv, MixTypes
  <1>6. /\ MaxPackets \in Nat /\ HalfRange \in Nat /\ MaxSum \in Nat
        /\ MaxPackets * HalfRange <= MaxSum
    BY DEF MixerConstants
  <1> HIDE DEF c, s, n
  <1>7. c <= MaxPackets
    BY <1>3, <1>4, <1>5, <1>6
  <1>8. c * HalfRange <= MaxPackets * HalfRange
    BY <1>3, <1>6, <1>7, ProductGrows
  <1>9. c * HalfRange \in Nat /\ MaxPackets * HalfRange \in Nat
    BY <1>3, <1>6
  <1>10. Abs(s) <= MaxSum
    BY <1>3, <1>4, <1>6, <1>8, <1>9 DEF Abs
  <1> QED
    BY <1>10 DEF s

-----------------------------------------------------------------------------
\* However many packets are mixed and however long they are, no sample of the mix
\* is clipped, what one packet alone reaches keeps the level it has without the
\* others, and no sum overflows the int32_t it is kept in (AudioMixer.h:14-45).
THEOREM MixesKeepTheirLevels == ASSUME MixerConstants PROVE MixerSpec => []LevelsAreKept
  <1>1. MixerInit => MixInv
    BY InitMix
  <1>2. MixInv /\ [MixerNext]_mixerVars => MixInv'
    BY NextMix
  <1>3. MixInv => LevelsAreKept
    BY LevelsKept, SumsInRange DEF LevelsAreKept
  <1> QED
    BY <1>1, <1>2, <1>3, PTL DEF MixerSpec

=============================================================================
