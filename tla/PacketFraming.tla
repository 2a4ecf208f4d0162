---------------------------- MODULE PacketFraming ----------------------------
(***************************************************************************)
(* From detections to PDUs: the gate, the de-whitening, the packing of     *)
(* bits into octets and the forming of PDUs, as connected by               *)
(* baseband_channel_receiver.py.  Every block runs in a thread of its own  *)
(* and sees the others through bounded buffers and the tags on them.       *)
(*                                                                         *)
(* The packer (unpacked_to_packed_bb) and the last block                   *)
(* (tagged_stream_to_pdu) are GNU Radio's: they are modelled from what the *)
(* receiver relies on.                                                     *)
(***************************************************************************)
EXTENDS PacketDataGate, Sequences

CONSTANTS
  HeaderBits,     \* d_header_bits of the de-whitening block
  WhiteBuffer,    \* items its output buffer holds
  PackedBuffer    \* octets the packer's output buffer holds

ASSUME FramingConstants ==
  /\ HeaderBits \in Nat \ {0}
  /\ WhiteBuffer \in Nat /\ WhiteBuffer >= OctetBits
  /\ PackedBuffer \in Nat /\ PackedBuffer >= MaxOctets

\* The packer rounds tags to octets: of two detections less than half an octet
\* apart the later one would replace the length of the frame.  The correlator
\* does not put them so close: with the delimiters of parameters.py:23, 24 they
\* are more than sixteen bits apart (DetectionsAreApart, SyncWordCorrelatorProofs).
ASSUME DetectionsSpaced ==
  \A s \in Streams : \A p, q \in Position :
    (p < q /\ s[p].octets > 0 /\ s[q].octets > 0) => 2 * (q - p) >= OctetBits

VARIABLES
  white,          \* de-whitened items: index of the PN9 bit applied
  whiteDrained,   \* items of them that were packed
  state,          \* the de-whitening block's counters
  packedTags,     \* tags on the octets, with [seq] the offset they came from
  taken,          \* octets consumed by the last block
  pdus,           \* the PDUs posted: [from, octets, rssi]
  failed          \* the last block found no length tag and threw

whitening == <<white, state>>
assembly == <<taken, pdus, failed>>
allVars == <<vars, whitening, whiteDrained, packedTags, assembly>>

W == INSTANCE DataWhitening

FramingInit ==
  /\ Init
  /\ W!InitWhitening
  /\ whiteDrained = 0
  /\ packedTags = {}
  /\ taken = 0
  /\ pdus = <<>>
  /\ failed = FALSE

GateStep ==
  /\ Arrive \/ Work
  /\ UNCHANGED <<whitening, whiteDrained, packedTags, assembly>>

WhitenStep ==
  /\ W!Whiten
  /\ UNCHANGED <<input, read, out, remaining, flags, packetOffset, packetRssi,
                 packets, packedTags, assembly>>

-----------------------------------------------------------------------------
(***************************************************************************)
(* unpacked_to_packed_bb: OctetBits items become one octet; a tag moves to *)
(* the octet its offset, divided and rounded to the nearest, names.        *)
(***************************************************************************)
packedOctets == whiteDrained \div OctetBits
Rescaled(off) == (2 * off + OctetBits) \div (2 * OctetBits)

Pack ==
  /\ \E n \in 1 .. PackedBuffer - (packedOctets - taken) :
       /\ whiteDrained + n * OctetBits <= drained
       /\ whiteDrained' = whiteDrained + n * OctetBits
       /\ packedTags' = packedTags \cup
            {[off |-> Rescaled(t.off), key |-> t.key, val |-> t.val, seq |-> t.off] :
               t \in {u \in tags : u.off \in whiteDrained .. whiteDrained' - 1}}
  /\ UNCHANGED <<vars, whitening, assembly>>

-----------------------------------------------------------------------------
(***************************************************************************)
(* tagged_stream_to_pdu: a length tag must be on the next octet, the last  *)
(* one put there counts; as many octets make a PDU, and of the packet-rssi *)
(* tags on them the last one becomes its metadata.                         *)
(***************************************************************************)
TagsAt(key, offsets) == {t \in packedTags : t.key = key /\ t.off \in offsets}
LastPut(S) == CHOOSE t \in S : \A u \in S : u.seq <= t.seq

Assemble ==
  /\ ~failed
  /\ packedOctets > taken
  /\ LET lengths == TagsAt("wisun-packet", {taken})
     IN  /\ lengths # {}
         /\ LET octets == LastPut(lengths).val
                rssis == TagsAt("packet-rssi", taken .. taken + octets - 1)
            IN  /\ packedOctets - taken >= octets
                /\ taken' = taken + octets
                /\ pdus' = Append(pdus,
                     [from |-> taken, octets |-> octets,
                      rssi |-> IF rssis = {} THEN None ELSE LastPut(rssis).val])
  /\ UNCHANGED <<vars, whitening, whiteDrained, packedTags, failed>>

Throw ==
  /\ ~failed
  /\ packedOctets > taken
  /\ TagsAt("wisun-packet", {taken}) = {}
  /\ failed' = TRUE
  /\ UNCHANGED <<vars, whitening, whiteDrained, packedTags, taken, pdus>>

FramingNext == GateStep \/ WhitenStep \/ Pack \/ Assemble \/ Throw

FramingSpec == FramingInit /\ [][FramingNext]_allVars

\* Each block has a thread that runs it whenever it can run.
FairFramingSpec ==
  /\ FramingSpec
  /\ WF_allVars(Work /\ GateStep)
  /\ WF_allVars(WhitenStep)
  /\ WF_allVars(Pack)
  /\ WF_allVars(Assemble \/ Throw)

-----------------------------------------------------------------------------
\* The frame of the input stream that a PDU was cut from: its first octet's
\* first bit, traced back through the packer, the de-whitening and the gate.
FrameOf(pdu) == [at |-> out[OctetBits * pdu.from], octets |-> pdu.octets]

Delivered == INSTANCE FrameStream
               WITH frames <- [i \in 1 .. Len(pdus) |-> FrameOf(pdus[i])]

\* The chain delivers the frames of the stream: each detection outside an
\* earlier frame once, in order, with its own length, all of them unless it
\* fails, which ThrowsOnlyAfterWrap puts behind the wrap of the tag offset.
DeliversFrames == Delivered!Spec

\* Until the gate's tag offset wraps, a PDU is a whole frame: it starts where a
\* length tag was, has as many octets as this tells, and these are the frame's
\* bits, in order.
PdusAreFrames ==
  read - written < IntHalf =>
    \A i \in DOMAIN pdus :
      LET fr == FrameOf(pdus[i])
      IN  /\ HasLength(fr.at) /\ fr.octets = stream[fr.at].octets
          /\ \A j \in 0 .. OctetBits * fr.octets - 1 :
               out[OctetBits * pdus[i].from + j] = fr.at + j

\* The block that forms PDUs finds an octet without a length tag where a PDU
\* should start, which ends the receiver, only once the gate has discarded more
\* items than an int can count (packet_data_gate_bb_impl.cc:116).
ThrowsOnlyAfterWrap == failed => read - written >= IntHalf

\* Until the gate's tag offset wraps, every bit of a PDU is de-whitened, or left
\* alone in a header, as the last detection in its frame wants: the one the frame
\* starts with, or one inside the frame, which restarts the sequence.  Neither a
\* frame cut short before, nor a detection inside the frame before, nor where the
\* calls of work end has an effect (data_whitening_bb_impl.cc:83-106).
Governs(last, at, p) ==
  last \in at .. p /\ HasLength(last) /\ \A q \in last + 1 .. p : ~HasLength(q)
Pn9Index(last, p) ==
  IF p - last \in HeaderBits .. OctetBits * stream[last].octets - 1
  THEN p - last - HeaderBits + 1 ELSE 0
PdusDewhitened ==
  read - written < IntHalf =>
    \A i \in DOMAIN pdus :
      LET fr == FrameOf(pdus[i])
      IN  \A j \in 0 .. OctetBits * fr.octets - 1 :
            \E last \in fr.at .. fr.at + j :
              /\ Governs(last, fr.at, fr.at + j)
              /\ white[OctetBits * pdus[i].from + j] = Pn9Index(last, fr.at + j)

\* Until the gate's tag offset wraps, a PDU whose frame has its second reading
\* before its last half octet carries that reading.  The tag goes to the first
\* item of the call that met the reading, and is rounded to an octet: a later
\* one ends up on the PDU behind, where it must not displace that PDU's own.
RssiIsOwn ==
  read - written < IntHalf =>
    \A i \in DOMAIN pdus :
      LET fr == FrameOf(pdus[i])
          bits == OctetBits * fr.octets
          inFrame == {p \in fr.at .. fr.at + bits - 1 : HasReading(p)}
          second == {p \in inFrame : \E q \in inFrame : {r \in inFrame : r < p} = {q}}
      IN  \A p \in second :
            2 * (p - fr.at) < 2 * bits - OctetBits => pdus[i].rssi = stream[p].rssi
=============================================================================
