-------------------------- MODULE SyncWordCorrelator --------------------------
(***************************************************************************)
(* The block correlate_sync_word_bb: finds the starts of frames in the bit *)
(* stream.  It slides over the stream with a counter of alternating bits   *)
(* (the preamble) and two shift registers that are fed from further ahead, *)
(* one with the start of frame delimiter that must follow, one with the    *)
(* PHY header behind that.  All three live on from one call of work to the *)
(* next.  The bits themselves pass unchanged.                              *)
(*                                                                         *)
(* Definitions named Op_fault are seeded faults of Op, used by no action.  *)
(***************************************************************************)
EXTENDS Integers, FiniteSets

CONSTANTS
  PreambleBits,   \* correlation_preamble_bits: 16 in the code
  SfdBits,        \* sfd_bits: 16 in the code
  OnAirPhrBits,   \* on_air_phr_bits: 16 uncoded, 32 coded
  RegisterBits,   \* width of d_phr_data: 32
  Sfd,            \* d_sfd, the delimiter as a number, first bit highest
  FrameLength,    \* header as received -> length it announces: the identity
                  \* on its low bits, or decode_coded_phr for a coded frame
  AirHorizon      \* bound: number of bits received

\* Two to the power of n, and the values of a register of so many bits.
Power2(n) == LET p[i \in 0 .. n] == IF i = 0 THEN 1 ELSE 2 * p[i - 1] IN p[n]
Register(bits) == 0 .. Power2(bits) - 1

ASSUME CorrelatorConstants ==
  /\ PreambleBits \in Nat \ {0}
  /\ SfdBits \in Nat \ {0}
  /\ OnAirPhrBits \in Nat \ {0}
  /\ RegisterBits \in Nat /\ RegisterBits >= OnAirPhrBits
  /\ Sfd \in Register(SfdBits)
  /\ FrameLength \in [Register(OnAirPhrBits) -> Nat]
  /\ AirHorizon \in Nat

\* set_history: the stream starts with as many zeros as the block looks ahead.
LookAhead == SfdBits + OnAirPhrBits

VARIABLES
  air,            \* the stream: LookAhead zeros, then the bits received
  size,           \* its length so far
  processed,      \* nitems_read(0) = nitems_written(0)
  counter,        \* d_preamble_bit_counter
  lastBit,        \* d_preamble_last_bit
  sfdData,        \* d_sfd_data
  phrData,        \* d_phr_data
  detections      \* wisun-packet tags, with the wisun-preamble-length put at the
                  \* same offset: [off, length, preamble]

registers == <<counter, lastBit, sfdData, phrData>>
vars == <<air, size, processed, registers, detections>>

Init ==
  /\ air = [k \in 0 .. LookAhead - 1 |-> 0]
  /\ size = LookAhead
  /\ processed = 0
  /\ counter = 0
  /\ lastBit = 2
  /\ sfdData = 0
  /\ phrData = 0
  /\ detections = {}

Receive ==
  /\ size < LookAhead + AirHorizon
  /\ \E b \in {0, 1} : air' = [k \in 0 .. size |-> IF k < size THEN air[k] ELSE b]
  /\ size' = size + 1
  /\ UNCHANGED <<processed, registers, detections>>

-----------------------------------------------------------------------------
Shifted_unbounded(register, bit, bits) == 2 * register + bit
Shifted(register, bit, bits) == (2 * register + bit) % Power2(bits)

\* The registers after the item at offset k.
Step_restarted(r, k) ==
  [counter |-> IF air[k] # r.lastBit \/ k = processed THEN r.counter + 1 ELSE 1,
   lastBit |-> air[k],
   sfdData |-> Shifted(r.sfdData, air[k + SfdBits], SfdBits),
   phrData |-> Shifted(r.phrData, air[k + LookAhead], RegisterBits)]
Step(r, k) ==
  [counter |-> IF air[k] # r.lastBit THEN r.counter + 1 ELSE 1,
   lastBit |-> air[k],
   sfdData |-> Shifted(r.sfdData, air[k + SfdBits], SfdBits),
   phrData |-> Shifted(r.phrData, air[k + LookAhead], RegisterBits)]

Header(r) == r.phrData % Power2(OnAirPhrBits)

\* A frame starts behind the item, unless it announces no length.
Detected(r) ==
  /\ r.counter >= PreambleBits
  /\ r.lastBit = 1
  /\ r.sfdData = Sfd
  /\ FrameLength[Header(r)] # 0

\* The registers after each of the next n items.
RegistersAfter(n) ==
  LET after[i \in 0 .. n] ==
        IF i = 0 THEN [counter |-> counter, lastBit |-> lastBit,
                       sfdData |-> sfdData, phrData |-> phrData]
        ELSE Step(after[i - 1], processed + (i - 1))
  IN  after

Correlate ==
  \E n \in 1 .. size - LookAhead - processed :
    LET after == RegistersAfter(n)
    IN  /\ processed' = processed + n
        /\ counter' = after[n].counter
        /\ lastBit' = after[n].lastBit
        /\ sfdData' = after[n].sfdData
        /\ phrData' = after[n].phrData
        /\ detections' = detections \cup
             {[off |-> processed + i, length |-> FrameLength[Header(after[i])],
               preamble |-> after[i].counter] :
                i \in {j \in 1 .. n : Detected(after[j])}}
        /\ UNCHANGED <<air, size>>

Next == Receive \/ Correlate

Spec == Init /\ [][Next]_vars

-----------------------------------------------------------------------------
TypeOK ==
  /\ air \in [0 .. size - 1 -> {0, 1}]
  /\ size \in LookAhead .. LookAhead + AirHorizon
  /\ processed \in 0 .. size - LookAhead
  /\ counter \in 0 .. processed
  /\ lastBit \in 0 .. 2
  /\ sfdData \in Register(SfdBits)
  /\ phrData \in Register(RegisterBits)
  /\ \A d \in detections : d.off \in 1 .. processed /\ d.length > 0

\* The number that n bits of the stream from offset k on spell.
Number(bits, k, n) ==
  LET value[i \in 0 .. n] ==
        IF i = 0 THEN 0 ELSE 2 * value[i - 1] + bits[k + (i - 1)]
  IN  value[n]

\* What a start of frame at offset k is in the stream itself.
IsStart(k) ==
  /\ k >= PreambleBits
  /\ \A j \in k - PreambleBits + 1 .. k - 1 : air[j] # air[j - 1]
  /\ air[k - 1] = 1
  /\ Number(air, k, SfdBits) = Sfd
  /\ FrameLength[Number(air, k + SfdBits, OnAirPhrBits)] # 0

\* The bits that alternate up to offset k.
Preamble(k) ==
  Cardinality({j \in 0 .. k - 1 : \A i \in j + 1 .. k - 1 : air[i] # air[i - 1]})

\* The detections are the starts of frames the stream has, with the lengths
\* they announce and the length of the preamble before them: the registers hold
\* what the stream holds, from its first bit on, in spite of the values they start
\* with and of where calls end
\* (correlate_sync_word_bb_impl.cc:93-184).
DetectionsAreStarts ==
  detections =
    {[off |-> k, length |-> FrameLength[Number(air, k + SfdBits, OnAirPhrBits)],
      preamble |-> Preamble(k)] :
       k \in {j \in 1 .. processed : IsStart(j)}}
=============================================================================
