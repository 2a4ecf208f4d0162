---------------------------- MODULE FrameReception ----------------------------
(***************************************************************************)
(* The way of one frame from the air to a checked PDU, with bits damaged   *)
(* on air: the sync word correlator reads the PHY header off the front and *)
(* so decides how much is collected (correlate_sync_word_bb); what was     *)
(* collected is decoded and checked (pdu_fec_decode), or, for an uncoded   *)
(* frame, only checked (pdu_fcs_check).  Finding the frame, whitening and  *)
(* the cutting itself are modelled by SyncWordCorrelator, DataWhitening    *)
(* and PacketDataGate; here the air starts behind the delimiter.           *)
(*                                                                         *)
(* Definitions named Op_fault are seeded faults of Op, used by no action.  *)
(***************************************************************************)
EXTENDS Fec, FiniteSets

CONSTANT
  Setups       \* what is sent and to whom: [payload, a sequence of whole
               \* octets in bits; fcs16, FCS type; coded; pad, the value of
               \* padding bits; drop, drop_invalid_frames; jammed, indices of
               \* bits another transmission damages; errors, bound on the bits
               \* damaged beyond those]

ASSUME ReceptionConstants ==
  \A s \in Setups :
    /\ s.payload \in Seq(Bit) /\ Len(s.payload) % 8 = 0
    /\ s.fcs16 \in BOOLEAN /\ s.coded \in BOOLEAN /\ s.drop \in BOOLEAN
    /\ s.pad \in Bit
    /\ s.errors \in Nat

\* The length of a frame has 11 bits in its header (fec.py:155).
ASSUME FramesFitHeader ==
  \A s \in Setups : Len(s.payload) + FcsBits(s.fcs16) <= 8 * 2047

VARIABLES
  setup,       \* the one of Setups at hand
  air,         \* the bits received behind the start of frame delimiter
  damaged,     \* the indices of those that are not as sent
  expected,    \* wisun-phr, the header the correlator read; <<>> before
  pdu,         \* the bits collected, <<>> before
  published,   \* PDUs published: [header, psdu, metric, valid], at most one
  outcome      \* what became of the frame so far

vars == <<setup, air, damaged, expected, pdu, published, outcome>>

-----------------------------------------------------------------------------
(* PHY header: 16 bits, most significant first *)

PhrBits == 8 * PhrOctets

\* Bit 3: FCS type; bit 4: whitening, on; bits 5 to 15: frame length.
Phr(frameLength, fcs16) ==
  [k \in 1 .. PhrBits |->
     CASE k < 4 -> 0
       [] k = 4 -> IF fcs16 THEN 1 ELSE 0
       [] k = 5 -> 1
       [] OTHER -> (frameLength \div 2 ^ (PhrBits - k)) % 2]

FrameLength(phr) ==
  LET value[k \in 5 .. PhrBits] ==
        IF k = 5 THEN 0 ELSE 2 * value[k - 1] + phr[k]
  IN  value[PhrBits]

Fcs16(phr) == phr[4] = 1

-----------------------------------------------------------------------------
(* What is on air *)

Psdu(s) == s.payload \o Fcs(s.payload, s.fcs16)
Header(s) == Phr(Len(Psdu(s)) \div 8, s.fcs16)

\* Code symbols to bits and back.
Bits(symbols) ==
  [i \in 1 .. 2 * Len(symbols) |-> symbols[(i + 1) \div 2][2 - (i % 2)]]
Symbols(bits) ==
  [i \in 1 .. Len(bits) \div 2 |-> <<bits[2 * i - 1], bits[2 * i]>>]

Padding(s) ==
  [i \in 1 .. TailBits + PadBits(Len(Psdu(s)) \div 8) |->
     IF i <= TailBits THEN 0 ELSE s.pad]

OnAir(s) ==
  IF s.coded THEN Bits(Interleaved(Encoded(Header(s) \o Psdu(s) \o Padding(s))))
  ELSE Header(s) \o Psdu(s)

ASSUME JammedOnAir == \A s \in Setups : s.jammed \subseteq 1 .. Len(OnAir(s))

Init ==
  /\ setup \in Setups
  /\ damaged = setup.jammed
  /\ air = LET sent == OnAir(setup)
           IN  [i \in DOMAIN sent |-> IF i \in damaged THEN 1 - sent[i] ELSE sent[i]]
  /\ expected = <<>>
  /\ pdu = <<>>
  /\ published = {}
  /\ outcome = "on air"

Damage ==
  /\ outcome = "on air"
  /\ Cardinality(damaged \ setup.jammed) < setup.errors
  /\ \E i \in DOMAIN air \ damaged :
       /\ damaged' = damaged \cup {i}
       /\ air' = [air EXCEPT ![i] = 1 - @]
  /\ UNCHANGED <<setup, expected, pdu, published, outcome>>

-----------------------------------------------------------------------------
(* correlate_sync_word_bb *)

\* The header of a coded frame is its first block, decoded on its own.
DecodeCodedPhr(bits) == Decoded(Deinterleaved(Symbols(bits))).bits

HeaderHeard ==
  IF setup.coded THEN DecodeCodedPhr(SubSeq(air, 1, 2 * PhrBits))
  ELSE SubSeq(air, 1, PhrBits)

\* Octets collected behind the delimiter.
PacketOctets(frameLength) ==
  IF setup.coded THEN CodedLength(frameLength) ELSE PhrOctets + frameLength

\* What follows the frame on air is not modelled: a frame that announces more
\* than was sent keeps being collected.
Acquire ==
  /\ outcome = "on air"
  /\ expected' = HeaderHeard
  /\ LET frameLength == FrameLength(expected')
         collected == 8 * PacketOctets(frameLength)
     IN  IF frameLength = 0
         THEN outcome' = "ignored" /\ pdu' = <<>>
         ELSE IF collected > Len(air)
         THEN outcome' = "collecting" /\ pdu' = <<>>
         ELSE outcome' = "collected" /\ pdu' = SubSeq(air, 1, collected)
  /\ UNCHANGED <<setup, air, damaged, published>>

-----------------------------------------------------------------------------
Drop(reason) ==
  /\ outcome' = reason
  /\ UNCHANGED <<setup, air, damaged, expected, pdu, published>>

\* A frame with a wrong check sequence is dropped, or forwarded as such.
CheckFcs(header, psdu, metric) ==
  LET valid == FcsValid(psdu, Fcs16(header))
  IN  IF ~valid /\ setup.drop THEN Drop("wrong FCS")
      ELSE /\ published' = {[header |-> header, psdu |-> psdu,
                             metric |-> metric, valid |-> valid]}
           /\ outcome' = "published"
           /\ UNCHANGED <<setup, air, damaged, expected, pdu>>

(* pdu_fec_decode: handle_msg *)

MetricLimitDivisor == 8

\* What the code does with a header that differs from `expected' is to log it.
DecodeCoded ==
  /\ outcome = "collected" /\ setup.coded
  /\ IF pdu = <<>> THEN Drop("short")
     ELSE IF Len(pdu) % (2 * BlockSymbols) # 0 THEN Drop("no whole blocks")
     ELSE LET symbols == Symbols(pdu)
              decoded == Decoded(Deinterleaved(symbols))
              header == SubSeq(decoded.bits, 1, PhrBits)
              end == PhrBits + 8 * FrameLength(header)
          IN  IF decoded.metric > Len(symbols) \div MetricLimitDivisor
              THEN Drop("no frame")
              ELSE IF end > Len(decoded.bits) THEN Drop("does not fit")
              ELSE CheckFcs(header, SubSeq(decoded.bits, PhrBits + 1, end),
                            decoded.metric)

(* pdu_fcs_check: handle_msg; it reports no metric *)

CheckUncoded ==
  /\ outcome = "collected" /\ ~setup.coded
  /\ IF Len(pdu) < PhrBits THEN Drop("short")
     ELSE CheckFcs(SubSeq(pdu, 1, PhrBits), SubSeq(pdu, PhrBits + 1, Len(pdu)), 0)

Next == Damage \/ Acquire \/ DecodeCoded \/ CheckUncoded

Spec == Init /\ [][Next]_vars

-----------------------------------------------------------------------------
Final == {"ignored", "collecting", "published", "wrong FCS", "short",
          "no whole blocks", "no frame", "does not fit"}

TypeOK ==
  /\ setup \in Setups
  /\ air \in [1 .. Len(air) -> Bit]
  /\ setup.jammed \subseteq damaged /\ damaged \subseteq DOMAIN air
  /\ Cardinality(damaged \ setup.jammed) <= setup.errors
  /\ expected = <<>> \/ expected \in [1 .. PhrBits -> Bit]
  /\ outcome \in Final \cup {"on air", "collected"}
  /\ outcome = "collected" => Len(pdu) > 0 /\ Len(pdu) % 8 = 0
  /\ outcome \notin {"short", "no whole blocks"}
  /\ published # {} <=> outcome = "published"

\* The damaged bits in the first block, which is the PHY header.
DamagedHeaderBits == {i \in damaged : i <= 2 * PhrBits}

\* A coded frame with one bit damaged anywhere, or with two of which at most
\* one is in the PHY header, is published exactly as it was sent, as valid, and
\* with a path metric of no more than the damage and of one for one bit:
\* whatever the padding, although the header is decoded twice, on its own and
\* with the rest, and its last bits may come out differently
\* (pdu_fec_decode_impl.cc:61-200, correlate_sync_word_bb_impl.cc:67-82).
ErrorsCorrected ==
  /\ setup.coded
  /\ outcome \in Final
  /\ Cardinality(damaged) <= 2 /\ Cardinality(DamagedHeaderBits) <= 1
  => \E p \in published :
       /\ p.header = Header(setup) /\ p.psdu = Psdu(setup) /\ p.valid
       /\ p.metric <= Cardinality(damaged)
       /\ Cardinality(damaged) = 1 => p.metric = 1

\* A PDU published as valid holds the PSDU that was sent, and for a coded frame
\* the header as well: neither a header read wrong, which changes where the
\* frame ends and which check sequence is looked for, nor a wrong correction
\* makes up a valid frame.  The check sequence does not cover the header, so
\* of an uncoded one the bits without a meaning here may differ
\* (fec.cc:133-168, pdu_fcs_check_impl.cc:84-127).
ValidMeansSent ==
  \A p \in published :
    p.valid => /\ p.psdu = Psdu(setup)
               /\ Fcs16(p.header) = setup.fcs16
               /\ setup.coded => p.header = Header(setup)

Distance(a, b) ==
  LET d[i \in 0 .. Len(a)] == IF i = 0 THEN 0 ELSE d[i - 1] + Disagreement(a[i], b[i])
  IN  d[Len(a)]

NearestSymbols == 6

\* The decoder returns a code word nearest to what was received, and as path
\* metric the number of bits they differ in: the recursion over the survivors
\* against a search among all words, on the first symbols of the air, with
\* all the damage the bound allows (fec.cc:39-119).
SurvivorIsNearest ==
  outcome = "on air" /\ damaged \subseteq 1 .. 2 * NearestSymbols =>
    LET received == Symbols(SubSeq(air, 1, 2 * NearestSymbols))
        decoded == Decoded(received)
    IN  /\ Distance(Encoded(decoded.bits), received) = decoded.metric
        /\ \A word \in [1 .. NearestSymbols -> Bit] :
             decoded.metric <= Distance(Encoded(word), received)
=============================================================================
