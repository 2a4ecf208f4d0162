--------------------------------- MODULE Fec ---------------------------------
(***************************************************************************)
(* Forward error correction of a coded frame and the frame check sequence: *)
(* lib/fec.cc, which receives, and python/wisun/fec.py, the encoder of the *)
(* tests, which says what is on air.  A bit is 0 or 1, a code symbol the   *)
(* pair of bits <<u1, u0>>, u1 sent first.  Sequences of both are in the   *)
(* order of transmission unless a comment says otherwise.                  *)
(*                                                                         *)
(* Definitions named Op_fault are seeded faults of Op, used by nothing.    *)
(***************************************************************************)
EXTENDS Integers, Sequences

Bit == {0, 1}

-----------------------------------------------------------------------------
(* Interleaver *)

BlockSymbols == 16

\* Where in its block the symbol transmitted k-th was taken from.
Source(k) == 15 - 4 * (k % 4) - k \div 4

\* Index of the first symbol of the block that symbol i is in, and the
\* symbol's place in the block.  Indices are from 1, places from 0.
BlockStart(i) == i - ((i - 1) % BlockSymbols)
Place(i) == (i - 1) % BlockSymbols

Interleaved(symbols) ==
  [i \in 1 .. Len(symbols) |-> symbols[BlockStart(i) + Source(Place(i))]]

ReceivedAs(t) == CHOOSE k \in 0 .. BlockSymbols - 1 : Source(k) = t

Deinterleaved(symbols) ==
  [i \in 1 .. Len(symbols) |-> symbols[BlockStart(i) + ReceivedAs(Place(i))]]

-----------------------------------------------------------------------------
(* Convolutional code *)

\* The state, 0 to 7, is made of the last three bits, the last one lowest.
Output ==
  [state \in 0 .. 7 |-> [bit \in Bit |->
     LET b1 == state % 2
         b2 == (state \div 2) % 2
         b3 == state \div 4
     IN  <<(1 + bit + b2 + b3) % 2, (1 + bit + b1 + b2 + b3) % 2>>]]

\* The encoder, which starts as after three zeros.
Encoded(bits) ==
  LET b(i) == IF i < 1 THEN 0 ELSE bits[i]
  IN  [i \in 1 .. Len(bits) |->
         Output[b(i - 1) + 2 * b(i - 2) + 4 * b(i - 3)][bits[i]]]

Differs(a, b) == IF a = b THEN 0 ELSE 1
Disagreement(s, r) == Differs(s[1], r[1]) + Differs(s[2], r[2])

\* Survivors: for every state reached, the best way into it.  `bits' is what
\* the trace back over the predecessors kept by the code would read.
Start == {[state |-> 0, from |-> 0, metric |-> 0, bits |-> <<>>]}

NextState(state, bit) == bit + 2 * (state % 4)

Branch(s, bit, symbol) ==
  [state |-> NextState(s.state, bit), from |-> s.state,
   metric |-> s.metric + Disagreement(Output[s.state][bit], symbol),
   bits |-> Append(s.bits, bit)]

\* States are tried in ascending order; only a better branch replaces one.
Wins_last(b, rival) == b.from >= rival.from
Wins(b, rival) ==
  b.metric < rival.metric \/ (b.metric = rival.metric /\ b.from <= rival.from)

\* Branches meet in a state if their bit and the two before are the same.
Extended(survivors, symbol) ==
  UNION {LET meeting == {Branch(s, bit, symbol) :
                           s \in {q \in survivors : q.state % 4 = before}}
         IN  {b \in meeting : \A rival \in meeting : Wins(b, rival)} :
           bit \in Bit, before \in 0 .. 3}

\* The trace back starts at the best state, the first one of several.
Best_terminated(survivors) == CHOOSE b \in survivors : b.state = 0
Best(survivors) ==
  CHOOSE b \in survivors :
    \A q \in survivors :
      b.metric < q.metric \/ (b.metric = q.metric /\ b.state <= q.state)

\* viterbi_decode of deinterleaved symbols: the bits and the path metric.
Decoded(symbols) ==
  LET survivors[i \in 0 .. Len(symbols)] ==
        IF i = 0 THEN Start ELSE Extended(survivors[i - 1], symbols[i])
  IN  Best(survivors[Len(symbols)])

-----------------------------------------------------------------------------
(* Lengths *)

PhrOctets == 2
TailBits == 3

\* Octets on air of a frame whose PHY header announces frameLength.
CodedLength_oneOctet(frameLength) == (frameLength + PhrOctets + 1) * 2
CodedLength(frameLength) ==
  LET octets == frameLength + PhrOctets
  IN  (octets + (IF octets % 2 = 1 THEN 1 ELSE 2)) * 2

PadBits(frameLength) ==
  8 * (IF (frameLength + PhrOctets) % 2 = 1 THEN 1 ELSE 2) - TailBits

-----------------------------------------------------------------------------
(* Frame check sequence: the register is the set of its bits that are one *)

FcsBits(fcs16) == IF fcs16 THEN 16 ELSE 32

\* 0x8408 and 0xedb88320.
Polynomial(fcs16) ==
  IF fcs16 THEN {15, 10, 3}
  ELSE {31, 30, 29, 27, 26, 24, 23, 21, 20, 19, 15, 11, 9, 8, 5}

Xor(a, b) == (a \ b) \cup (b \ a)

Seed(fcs16) == IF fcs16 THEN {} ELSE 0 .. 31

\* The octets are taken in least significant bit first, as they are sent.
Shifted(crc, bit, fcs16) ==
  LET down == {k - 1 : k \in crc \ {0}}
  IN  IF (0 \in crc) # (bit = 1) THEN Xor(down, Polynomial(fcs16)) ELSE down

\* The sequence in the order it is sent in, least significant bit first.
Fcs(bits, fcs16) ==
  LET after[n \in 0 .. Len(bits)] ==
        IF n = 0 THEN Seed(fcs16) ELSE Shifted(after[n - 1], bits[n], fcs16)
      crc == Xor(after[Len(bits)], Seed(fcs16))
  IN  [k \in 1 .. FcsBits(fcs16) |-> IF k - 1 \in crc THEN 1 ELSE 0]

FcsValid_firstOctet(psdu, fcs16) ==
  LET n == Len(psdu) - FcsBits(fcs16)
  IN  n >= 0 /\ SubSeq(psdu, n + 1, n + 8) = SubSeq(Fcs(SubSeq(psdu, 1, n), fcs16), 1, 8)
FcsValid(psdu, fcs16) ==
  LET n == Len(psdu) - FcsBits(fcs16)
  IN  n >= 0 /\ SubSeq(psdu, n + 1, Len(psdu)) = Fcs(SubSeq(psdu, 1, n), fcs16)
=============================================================================
