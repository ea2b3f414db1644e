----------------------------- MODULE AudioMixer -----------------------------
(***************************************************************************)
(* How the packets of a mix become one packet (server/AudioMixer.h).       *)
(*                                                                         *)
(* A packet is the sequence of its 16-bit samples; a last odd byte is part *)
(* of none.  The range of a sample and that of a sum are parameters.  The  *)
(* caller collects packets and calls mix(), which walks through them       *)
(* twice: to find the longest, and to add up what they have at each place. *)
(***************************************************************************)
EXTENDS Integers, Sequences

CONSTANTS
    HalfRange,    \* 2^15: samples are -HalfRange to HalfRange - 1
    MaxSum,       \* 2^31 - 1: the largest sum an int32_t holds
    Levels,       \* bound: the sample values tried
    MaxSamples,   \* bound: samples in a packet
    MaxPackets    \* bound: packets in a mix

MinSample == -HalfRange
MaxSample == HalfRange - 1

VARIABLES
    packets,          \* packetsToMix, which mix() is given
    stage,            \* "collecting", "measuring", "adding" or "returned"
    visited,          \* how many packets the loop under way has seen
    maxSampleCount,
    mixBuffer,        \* the sum at each sample
    sampleCounts,     \* how many packets it adds up
    outputBuffer      \* the samples of the packet that mix() returns

mixerVars == <<packets, stage, visited, maxSampleCount, mixBuffer, sampleCounts, outputBuffer>>

Packet == UNION {[1..n -> Levels] : n \in 0..MaxSamples}

-----------------------------------------------------------------------------
\* Division of the C language, towards zero.
CDiv(a, b) == IF a >= 0 THEN a \div b ELSE -((-a) \div b)

Abs(a) == IF a >= 0 THEN a ELSE -a

Clamp(a) == IF a < MinSample THEN MinSample ELSE IF a > MaxSample THEN MaxSample ELSE a

\* The average, then half of it: multiplying by 0.5f is exact for 16 bits, and the
\* conversion back to an integer drops the fraction.
normalize(sum, count) == IF count > 0 THEN Clamp(CDiv(CDiv(sum, count), 2)) ELSE 0

-----------------------------------------------------------------------------
MixerInit ==
    /\ packets = << >> /\ stage = "collecting"
    /\ visited = 0 /\ maxSampleCount = 0
    /\ mixBuffer = << >> /\ sampleCounts = << >> /\ outputBuffer = << >>

\* The caller inserts the packets of one buffer after the other.
HandIn ==
    /\ stage = "collecting" /\ Len(packets) < MaxPackets
    /\ \E p \in Packet : packets' = Append(packets, p)
    /\ UNCHANGED <<stage, visited, maxSampleCount, mixBuffer, sampleCounts, outputBuffer>>

\* Without packets mix() returns an empty one.
Call ==
    /\ stage = "collecting"
    /\ stage' = IF packets = << >> THEN "returned" ELSE "measuring"
    /\ UNCHANGED <<packets, visited, maxSampleCount, mixBuffer, sampleCounts, outputBuffer>>

\* The longest packet decides how many samples the mix has.
Measure ==
    /\ stage = "measuring" /\ visited < Len(packets)
    /\ visited' = visited + 1
    /\ maxSampleCount' = LET n == Len(packets[visited + 1])
                         IN  IF n > maxSampleCount THEN n ELSE maxSampleCount
    /\ UNCHANGED <<packets, stage, mixBuffer, sampleCounts, outputBuffer>>

Allocate ==
    /\ stage = "measuring" /\ visited = Len(packets)
    /\ stage' = "adding" /\ visited' = 0
    /\ mixBuffer' = [i \in 1..maxSampleCount |-> 0]
    /\ sampleCounts' = [i \in 1..maxSampleCount |-> 0]
    /\ UNCHANGED <<packets, maxSampleCount, outputBuffer>>

\* Defect considered: a packet counts where it has ended, too.
AddCountsAll ==
    /\ stage = "adding" /\ visited < Len(packets)
    /\ visited' = visited + 1
    /\ LET p == packets[visited + 1]
       IN  /\ mixBuffer' = [i \in DOMAIN mixBuffer |->
                              IF i <= Len(p) THEN mixBuffer[i] + p[i] ELSE mixBuffer[i]]
           /\ sampleCounts' = [i \in DOMAIN sampleCounts |-> sampleCounts[i] + 1]
    /\ UNCHANGED <<packets, stage, maxSampleCount, outputBuffer>>

Add ==
    /\ stage = "adding" /\ visited < Len(packets)
    /\ visited' = visited + 1
    /\ LET p == packets[visited + 1]
       IN  /\ mixBuffer' = [i \in DOMAIN mixBuffer |->
                              IF i <= Len(p) THEN mixBuffer[i] + p[i] ELSE mixBuffer[i]]
           /\ sampleCounts' = [i \in DOMAIN sampleCounts |->
                                 IF i <= Len(p) THEN sampleCounts[i] + 1 ELSE sampleCounts[i]]
    /\ UNCHANGED <<packets, stage, maxSampleCount, outputBuffer>>

Normalize ==
    /\ stage = "adding" /\ visited = Len(packets)
    /\ stage' = "returned"
    /\ outputBuffer' = [i \in 1..maxSampleCount |-> normalize(mixBuffer[i], sampleCounts[i])]
    /\ UNCHANGED <<packets, visited, maxSampleCount, mixBuffer, sampleCounts>>

MixerNext == HandIn \/ Call \/ Measure \/ Allocate \/ Add \/ Normalize

MixerSpec == MixerInit /\ [][MixerNext]_mixerVars

-----------------------------------------------------------------------------
\* Averaging and halving leave no sample to clip: the loudest mix is half as loud
\* as the loudest sample could be.
NothingClips ==
    \A i \in DOMAIN outputBuffer : Abs(outputBuffer[i]) <= HalfRange \div 2

\* Nor does it depend on who has ended: a sample that only one packet reaches has
\* the level it would have if that packet had been mixed alone, however many
\* shorter ones were mixed with it.
TailsKeepTheirLevel ==
    stage = "returned" =>
        \A k \in 1..Len(packets) : \A i \in 1..Len(packets[k]) :
            (\A other \in 1..Len(packets) \ {k} : Len(packets[other]) < i)
                => outputBuffer[i] = normalize(packets[k][i], 1)

\* No sum leaves the 32 bits it is kept in.
SumsFit == \A i \in DOMAIN mixBuffer : Abs(mixBuffer[i]) <= MaxSum

\* What mix() promises of every mix, from the first packet collected to the
\* samples it returns (AudioMixer.h:9-50).
LevelsAreKept == NothingClips /\ TailsKeepTheirLevel /\ SumsFit

=============================================================================
