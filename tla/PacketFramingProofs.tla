------------------------- MODULE PacketFramingProofs -------------------------
(***************************************************************************)
(* From the gate to the PDUs, proved for every stream, all buffer sizes    *)
(* and every interleaving of the blocks: until the gate's tag offset wraps *)
(* the chain delivers the frames of the stream, each bit de-whitened as    *)
(* its frame wants and with the RSSI of its own, and does not throw.       *)
(***************************************************************************)
EXTENDS PacketFraming, PacketDataGateProofs, SequenceTheorems

-----------------------------------------------------------------------------
(***************************************************************************)
(* The gate inside the chain.                                              *)
(***************************************************************************)

\* Whatever the chain does is a step of the gate or none: the next block
\* consuming its output is its Drain.
LEMMA ChainStepIsGateStep == [FramingNext]_allVars => [Next]_vars
<1> SUFFICES ASSUME [FramingNext]_allVars PROVE [Next]_vars
  OBVIOUS
<1>1. CASE GateStep
  BY <1>1 DEF GateStep, Next
<1>2. CASE WhitenStep
  <2>1. Drain
    BY <1>2 DEF WhitenStep, W!Whiten, Drain, output
  <2> QED BY <2>1 DEF Next
<1>3. CASE Pack \/ Assemble \/ Throw \/ UNCHANGED allVars
  BY <1>3 DEF Pack, Assemble, Throw, allVars, vars
<1> QED BY <1>1, <1>2, <1>3 DEF FramingNext

\* The gate in the chain is the gate on its own: all that is proved of it holds.
THEOREM ChainRunsGate == FramingSpec => Spec
<1>1. FramingInit => Init
  BY DEF FramingInit
<1> QED BY <1>1, ChainStepIsGateStep, PTL DEF FramingSpec, Spec

\* What a length tag and an RSSI tag carry.
TagValue(t) ==
  /\ t.key = "wisun-packet" => t.val \in 1 .. MaxOctets
  /\ t.key = "packet-rssi" => t.val \in Levels

LEMMA NewTagsBehind ==
  ASSUME TypeOK, NEW n \in Nat, Copied(n), NEW t \in Propagated(n) \cup RssiTags(n)
  PROVE  t.off \in Nat /\ t.off >= written /\ TagValue(t)
<1>1. /\ read \in Nat /\ written \in Nat /\ written <= read /\ read + n <= avail
      /\ avail <= Horizon
  BY CursorTypes DEF Copied, Cursors
<1>2. CurrentTagOffset \in Int /\ CurrentTagOffset <= read - written
  <2>1. read - written \in Nat
    BY <1>1
  <2> QED BY <2>1, ToIntValue DEF CurrentTagOffset
<1>3. ASSUME NEW p \in Window(n)
      PROVE  /\ p - CurrentTagOffset \in Nat /\ p - CurrentTagOffset >= written
             /\ stream[p].octets \in 0 .. MaxOctets
             /\ stream[p].rssi \in Levels \cup {None}
  <2>1. p \in Int /\ read <= p
    BY <1>1 DEF Window
  <2>2. p \in Position
    BY <1>1, CursorTypes, GateConstants DEF Window, Position, Cursors
  <2> QED BY <1>1, <1>2, <2>1, <2>2, ItemFields DEF TypeOK
<1>4. CASE t \in Propagated(n)
  <2>1. PICK p \in Window(n) : t \in ItemTags(p, p - CurrentTagOffset)
    BY <1>4 DEF Propagated
  <2>2. CASE t = Tag(p - CurrentTagOffset, "rssi", stream[p].rssi)
    BY <1>3, <2>2 DEF Tag, TagValue
  <2>3. CASE t = Tag(p - CurrentTagOffset, "wisun-packet", stream[p].octets)
             /\ stream[p].octets # 0
    <3>1. stream[p].octets \in 1 .. MaxOctets
      BY <1>3, <2>3, GateConstants
    <3> QED BY <1>3, <2>3, <3>1 DEF Tag, TagValue
  <2> QED BY <2>1, <2>2, <2>3 DEF ItemTags
<1>5. CASE t \in RssiTags(n)
  <2>1. /\ \A p \in Reported(n) : p \in Window(n)
        /\ \A p \in RssiSource(n) : p \in Window(n) /\ HasReading(p)
    BY DEF Reported, LowReadings, RssiSource, Candidates, Readings
  <2>2. CASE \E p \in Reported(n) :
               t = Tag(p - CurrentTagOffset, "packet-truncated",
                       p - CurrentTagOffset - packetOffset)
    BY <1>3, <2>1, <2>2 DEF Tag, TagValue
  <2>3. CASE \E p \in RssiSource(n) : t = Tag(written, "packet-rssi", stream[p].rssi)
    BY <1>1, <1>3, <2>1, <2>3 DEF Tag, TagValue, HasReading
  <2> QED BY <1>5, <2>2, <2>3 DEF RssiTags
<1> QED BY <1>4, <1>5

\* What the blocks behind the gate can rely on: it only adds to its output, at the
\* end.
LEMMA GateProgress ==
  ASSUME FramingInv, [Next]_vars
  PROVE  /\ stream' = stream
         /\ written <= written' /\ read - written <= read' - written'
         /\ drained <= drained'
         /\ \A k \in 0 .. written - 1 : out'[k] = out[k]
         /\ packets \subseteq packets'
         /\ \A pk \in packets' \ packets : pk.out = written /\ remaining = 0
         /\ tags \subseteq tags'
         /\ \A t \in tags' \ tags : t.off \in Nat /\ t.off >= written /\ TagValue(t)
<1>1. TypeOK /\ Cursors
  BY CursorTypes DEF FramingInv
<1> USE DEF Cursors
<1>2. CASE Arrive \/ Drain \/ UNCHANGED vars
  BY <1>1, <1>2 DEF Arrive, Drain, vars, input, output, flags
<1>3. ASSUME NEW ninput \in Nat, DiscardAll(ninput)
      PROVE  /\ read' = read + ninput /\ remaining = 0
             /\ UNCHANGED <<stream, written, drained, out, packets, tags>>
  BY <1>3 DEF DiscardAll, input, output
<1>4. ASSUME NEW ninput \in Nat, OpenPacket(ninput)
      PROVE  /\ read' \in Nat /\ read <= read' /\ remaining = 0
             /\ \E p : packets' = packets \cup {[at |-> p, out |-> written]}
             /\ UNCHANGED <<stream, written, drained, out, tags>>
  BY <1>1, <1>4 DEF OpenPacket, Window, input, output
<1>5. ASSUME NEW n \in Nat, Copied(n)
      PROVE  /\ written' = written + n /\ read' = read + n
             /\ \A k \in 0 .. written - 1 : out'[k] = out[k]
             /\ \A t \in tags' \ tags : t.off \in Nat /\ t.off >= written /\ TagValue(t)
             /\ tags \subseteq tags'
             /\ UNCHANGED <<stream, drained, packets>>
  <2>1. /\ written' = written + n /\ read' = read + n
        /\ UNCHANGED <<stream, drained, packets>>
        /\ tags' = tags \cup Propagated(n) \cup RssiTags(n)
    BY <1>5 DEF Copied, input
  <2>2. \A k \in 0 .. written - 1 : out'[k] = out[k]
    <3>1. \A k \in 0 .. written - 1 : k \in 0 .. written + n - 1 /\ k < written
      BY <1>1
    <3> QED BY <1>5, <3>1 DEF Copied
  <2> QED BY <1>1, <1>5, <2>1, <2>2, NewTagsBehind
<1>6. CASE \E ninput \in Nat : DiscardAll(ninput)
  BY <1>1, <1>3, <1>6
<1>7. CASE \E ninput \in Nat : OpenPacket(ninput)
  BY <1>1, <1>4, <1>7
<1>8. CASE \E n \in Nat : Copied(n)
  BY <1>1, <1>5, <1>8
<1> QED BY <1>1, <1>2, <1>6, <1>7, <1>8, StepCases

-----------------------------------------------------------------------------
(***************************************************************************)
(* Arithmetic of the packer.                                               *)
(***************************************************************************)

LEMMA OctetArithmetic ==
  ASSUME NEW a \in Nat, NEW b \in Nat
  PROVE  /\ OctetBits * a \in Nat
         /\ OctetBits * (a + b) = OctetBits * a + OctetBits * b
         /\ a <= b <=> OctetBits * a <= OctetBits * b
         /\ a < b <=> OctetBits * a < OctetBits * b
         /\ b > 0 => OctetBits * b >= OctetBits
         /\ (OctetBits * a) \div OctetBits = a
<1>1. OctetBits \in Nat /\ OctetBits > 0
  BY GateConstants
<1>2. OctetBits * a \in Nat /\ OctetBits * b \in Nat
      /\ OctetBits * (a + b) = OctetBits * a + OctetBits * b
  BY <1>1
<1>3. ASSUME NEW c \in Nat, NEW d \in Nat, c < d
      PROVE  OctetBits * c < OctetBits * d
  <2>1. OctetBits * d = OctetBits * c + OctetBits * (d - c)
    BY <1>1
  <2>2. d - c \in Nat /\ d - c > 0
    BY <1>3
  <2>3. OctetBits * (d - c) > 0
    BY <1>1, <2>2
  <2>4. OctetBits * c \in Nat /\ OctetBits * (d - c) \in Nat
    BY <1>1, <2>2
  <2> QED BY <2>1, <2>3, <2>4
<1>4. b > 0 => OctetBits * b >= OctetBits
  <2>1. OctetBits * b = OctetBits + OctetBits * (b - 1)
    BY <1>1
  <2>2. b > 0 => OctetBits * (b - 1) \in Nat
    BY <1>1
  <2> QED BY <1>1, <1>2, <2>1, <2>2
<1>5. (OctetBits * a) \div OctetBits = a
  BY <1>1
<1>6. a = b => OctetBits * a = OctetBits * b
  OBVIOUS
<1>7. (a < b => OctetBits * a < OctetBits * b) /\ (b < a => OctetBits * b < OctetBits * a)
  BY <1>3
<1> QED BY <1>1, <1>2, <1>4, <1>5, <1>6, <1>7

\* A tag moves to the octet whose first bit is the nearest.
LEMMA RescaledIsNearest ==
  ASSUME NEW off \in Nat, NEW m \in Nat
  PROVE  /\ Rescaled(off) \in Nat
         /\ Rescaled(off) = m <=> /\ 2 * (OctetBits * m) <= 2 * off + OctetBits
                                  /\ 2 * off < 2 * (OctetBits * m) + OctetBits
<1> DEFINE d == 2 * OctetBits
           x == 2 * off + OctetBits
<1>1. OctetBits \in Nat /\ d \in Nat /\ d > 0 /\ x \in Nat
  BY GateConstants
<1>2. Rescaled(off) = x \div d
  BY DEF Rescaled
<1>3. 2 * (OctetBits * m) = d * m
  BY <1>1
<1>5. d * m <= x /\ x < d * m + d <=> /\ 2 * (OctetBits * m) <= 2 * off + OctetBits
                                      /\ 2 * off < 2 * (OctetBits * m) + OctetBits
  <2>1. OctetBits * m \in Nat
    BY <1>1
  <2> QED BY <1>1, <1>3, <2>1
<1> HIDE DEF d, x
<1>4. PICK q \in Nat, r \in 0 .. d - 1 : x = d * q + r /\ x \div d = q
  BY <1>1
<1>6. q = m <=> d * m <= x /\ x < d * m + d
  <2>1. q = m => d * m <= x /\ x < d * m + d
    BY <1>1, <1>4
  <2>2. ASSUME q < m PROVE d * m > x
    <3>1. d * m = d * q + d + d * (m - q - 1) /\ d * (m - q - 1) \in Nat /\ d * q \in Nat
      BY <1>1, <2>2
    <3> QED BY <1>1, <1>4, <3>1
  <2>3. ASSUME m < q PROVE x >= d * m + d
    <3>1. d * q = d * m + d + d * (q - m - 1) /\ d * (q - m - 1) \in Nat /\ d * m \in Nat
      BY <1>1, <2>3
    <3> QED BY <1>1, <1>4, <3>1
  <2>4. d * m \in Nat
    BY <1>1
  <2> QED BY <1>1, <1>4, <2>1, <2>2, <2>3, <2>4
<1> QED BY <1>2, <1>4, <1>5, <1>6

-----------------------------------------------------------------------------
(***************************************************************************)
(* The invariant of the chain.                                             *)
(***************************************************************************)
Wrapped == read - written >= IntHalf

\* The packer's and the last block's positions.
ChainTypes ==
  /\ stream \in Streams
  /\ whiteDrained \in Nat /\ whiteDrained <= drained
  /\ packedOctets \in Nat /\ whiteDrained = OctetBits * packedOctets
  /\ taken \in Nat /\ taken <= packedOctets
  /\ failed \in BOOLEAN
  /\ \A t \in tags : t.off \in Nat /\ TagValue(t)

\* A frame comes out of the gate at an octet of the packer's.
FramesAligned == \A pk \in packets : \E m \in 0 .. pk.out : pk.out = OctetBits * m

\* The tags on the octets are those of the bits packed so far.
Moved(t) == [off |-> Rescaled(t.off), key |-> t.key, val |-> t.val, seq |-> t.off]
TagsMoved == packedTags = {Moved(t) : t \in {u \in tags : u.off < whiteDrained}}

\* The PDUs are frames that lie side by side, and the next one starts where a
\* frame does.
PduIsFrame(i, pk) ==
  /\ OctetBits * pdus[i].from = pk.out
  /\ pdus[i].octets = stream[pk.at].octets
PdusInARow ==
  /\ pdus \in Seq([from : Nat, octets : 1 .. MaxOctets, rssi : Levels \cup {None}])
  /\ pdus = <<>> => taken = 0
  /\ pdus # <<>> => taken = pdus[Len(pdus)].from + pdus[Len(pdus)].octets
  /\ \A i \in 1 .. Len(pdus) : pdus[i].from + pdus[i].octets <= taken
PdusOnFrames ==
  ~Wrapped =>
    /\ ~failed
    /\ \A pk \in packets :
         ~(pk.out < OctetBits * taken /\ OctetBits * taken < pk.out + PacketBits(pk))
    /\ \A i \in 1 .. Len(pdus) : \E pk \in packets : PduIsFrame(i, pk)

ChainInv ==
  /\ FramingInv /\ ChainTypes /\ FramesAligned /\ TagsMoved
  /\ PdusInARow /\ PdusOnFrames

LEMMA ChainInit == FramingInit => ChainInv
<1> SUFFICES ASSUME FramingInit PROVE ChainInv
  OBVIOUS
<1>1. /\ Init /\ whiteDrained = 0 /\ packedTags = {} /\ taken = 0 /\ pdus = <<>>
      /\ failed = FALSE
  BY DEF FramingInit
<1>2. /\ drained = 0 /\ packets = {} /\ tags = {}
  BY <1>1 DEF Init
<1>3. packedOctets = 0 /\ OctetBits * 0 = 0
  BY <1>1, GateConstants DEF packedOctets
<1>4. FramingInv
  BY <1>1, FramingInvInit
<1>5. ChainTypes
  <2>1. whiteDrained = OctetBits * packedOctets /\ packedOctets \in Nat
    BY <1>1, <1>3
  <2>2. whiteDrained \in Nat /\ whiteDrained <= drained /\ taken \in Nat
        /\ taken <= packedOctets
    BY <1>1, <1>2, <1>3
  <2>3. failed \in BOOLEAN /\ \A t \in tags : t.off \in Nat /\ TagValue(t)
    BY <1>1, <1>2
  <2>4. stream \in Streams
    BY <1>1 DEF Init
  <2> QED BY <2>1, <2>2, <2>3, <2>4 DEF ChainTypes
<1>6. FramesAligned /\ TagsMoved
  BY <1>1, <1>2 DEF FramesAligned, TagsMoved
<1>7. PdusInARow
  BY <1>1 DEF PdusInARow
<1>8. PdusOnFrames
  BY <1>1, <1>2 DEF PdusOnFrames
<1> QED BY <1>4, <1>5, <1>6, <1>7, <1>8 DEF ChainInv

\* While nothing remains of a frame, the gate has written whole octets.
LEMMA WrittenAligned ==
  ASSUME FramingInv, FramesAligned, remaining = 0
  PROVE  \E m \in 0 .. written : written = OctetBits * m
<1>1. TypeOK /\ Cursors
  BY CursorTypes DEF FramingInv
<1>2. CASE written = 0
  <2>1. OctetBits * 0 = 0
    BY GateConstants
  <2> QED BY <1>2, <2>1
<1>3. CASE written > 0
  <2>1. written - 1 \in 0 .. written - 1
    BY <1>1, <1>3 DEF Cursors
  <2>2. PICK pk \in packets : InOutput(written - 1, pk)
    BY <2>1 DEF FramingInv, OnlyPacketBits
  <2>3. Finished(pk)
    BY DEF FramingInv, FramesInOrder, Current
  <2>4. pk.out \in Nat /\ PacketBits(pk) \in Nat /\ stream[pk.at].octets \in Nat
    BY <1>1, PacketFacts, ItemFields, GateConstants DEF TypeOK
  <2>5. written = pk.out + PacketBits(pk)
    BY <1>1, <2>2, <2>3, <2>4 DEF InOutput, Finished, Cursors
  <2>6. PICK m \in 0 .. pk.out : pk.out = OctetBits * m
    BY DEF FramesAligned
  <2>7. written = OctetBits * (m + stream[pk.at].octets)
    <3>1. m \in Nat
      BY <2>4, <2>6
    <3>2. OctetBits * (m + stream[pk.at].octets)
            = OctetBits * m + OctetBits * stream[pk.at].octets
      BY <2>4, <3>1, OctetArithmetic
    <3> QED BY <2>5, <2>6, <3>2 DEF PacketBits
  <2>8. m + stream[pk.at].octets <= OctetBits * (m + stream[pk.at].octets)
    <3>1. \A x \in Nat : x <= OctetBits * x
      <4> SUFFICES ASSUME NEW x \in Nat PROVE x <= OctetBits * x
        OBVIOUS
      <4>1. OctetBits * x = x + (OctetBits - 1) * x /\ (OctetBits - 1) * x \in Nat
        BY GateConstants
      <4> QED BY <4>1
    <3>2. m + stream[pk.at].octets \in Nat
      BY <2>4
    <3> QED BY <3>1, <3>2
  <2> QED BY <1>1, <2>4, <2>7, <2>8 DEF Cursors
<1> QED BY <1>1, <1>2, <1>3 DEF Cursors

\* A step of the gate, its output drained included, while the blocks behind the
\* de-whitening stand still.
LEMMA ChainGateStep ==
  ASSUME ChainInv, FramingInv', [Next]_vars,
         UNCHANGED <<whiteDrained, packedTags, taken, pdus, failed>>
  PROVE  ChainInv'
<1>1. /\ stream' = stream
      /\ written <= written' /\ read - written <= read' - written'
      /\ drained <= drained'
      /\ packets \subseteq packets'
      /\ \A pk \in packets' \ packets : pk.out = written /\ remaining = 0
      /\ tags \subseteq tags'
      /\ \A t \in tags' \ tags : t.off \in Nat /\ t.off >= written /\ TagValue(t)
  BY GateProgress DEF ChainInv
<1>2. /\ Cursors /\ Cursors' /\ TypeOK
      /\ drained <= written
  BY CursorTypes DEF ChainInv, FramingInv, TypeOK, Cursors
<1>3. packedOctets' = packedOctets
  BY DEF packedOctets
<1>4. ChainTypes'
  <2>1. \A t : TagValue(t)' = TagValue(t)
    BY DEF TagValue
  <2>2. ChainTypes
    BY DEF ChainInv
  <2> QED BY <1>1, <1>2, <1>3, <2>1, <2>2 DEF ChainTypes, Cursors
<1>5. FramesAligned'
  <2>1. ASSUME NEW pk \in packets' PROVE \E m \in 0 .. pk.out : pk.out = OctetBits * m
    <3>1. CASE pk \in packets
      BY <3>1 DEF ChainInv, FramesAligned
    <3>2. CASE pk \notin packets
      <4>1. pk.out = written /\ remaining = 0
        BY <1>1, <2>1, <3>2
      <4> QED BY <4>1, WrittenAligned DEF ChainInv
    <3> QED BY <3>1, <3>2
  <2> QED BY <2>1 DEF FramesAligned
<1>6. TagsMoved'
  <2>1. {u \in tags' : u.off < whiteDrained} = {u \in tags : u.off < whiteDrained}
    <3>1. whiteDrained \in Nat /\ whiteDrained <= written
      BY <1>2 DEF ChainInv, ChainTypes, Cursors
    <3>2. \A t \in tags' \ tags : ~(t.off < whiteDrained)
      BY <1>1, <1>2, <3>1 DEF Cursors
    <3> QED BY <1>1, <3>2
  <2> QED BY <2>1 DEF ChainInv, TagsMoved, Moved, Rescaled
<1>7. PdusInARow'
  BY DEF ChainInv, PdusInARow
<1>8. PdusOnFrames'
  <2> SUFFICES ASSUME ~Wrapped' PROVE PdusOnFrames'
    BY DEF PdusOnFrames
  <2>1. ~Wrapped
    <3>1. read \in Nat /\ written \in Nat /\ IntHalf \in Nat
      BY <1>2, GateConstants DEF Cursors
    <3>2. PICK r \in Nat, w \in Nat : read' = r /\ written' = w
      BY <1>2 DEF Cursors
    <3>3. read - written <= r - w /\ ~(r - w >= IntHalf)
      BY <1>1, <3>2 DEF Wrapped
    <3> QED BY <3>1, <3>3 DEF Wrapped
  <2>2. /\ ~failed
        /\ \A pk \in packets :
             ~(pk.out < OctetBits * taken /\ OctetBits * taken < pk.out + PacketBits(pk))
        /\ \A i \in 1 .. Len(pdus) : \E pk \in packets : PduIsFrame(i, pk)
    BY <2>1 DEF ChainInv, PdusOnFrames
  <2>3. \A pk : PacketBits(pk)' = PacketBits(pk)
    BY <1>1 DEF PacketBits
  <2>4. OctetBits * taken \in Nat /\ OctetBits * taken <= written
    <3>1. /\ whiteDrained \in Nat /\ whiteDrained <= drained
          /\ packedOctets \in Nat /\ whiteDrained = OctetBits * packedOctets
          /\ taken \in Nat /\ taken <= packedOctets
      BY DEF ChainInv, ChainTypes
    <3>2. OctetBits * taken \in Nat /\ OctetBits * taken <= OctetBits * packedOctets
      BY <3>1, OctetArithmetic
    <3> QED BY <1>2, <3>1, <3>2 DEF Cursors
  <2>5. \A pk \in packets' :
           ~(pk.out < OctetBits * taken /\ OctetBits * taken < pk.out + PacketBits(pk))
    BY <1>1, <1>2, <2>2, <2>4 DEF Cursors
  <2>6. \A i, pk : PduIsFrame(i, pk)' = PduIsFrame(i, pk)
    BY <1>1 DEF PduIsFrame
  <2>7. \A i \in 1 .. Len(pdus) : \E pk \in packets' : PduIsFrame(i, pk)
    BY <1>1, <2>2
  <2> QED BY <2>2, <2>3, <2>5, <2>6, <2>7 DEF PdusOnFrames
<1> QED BY <1>4, <1>5, <1>6, <1>7, <1>8 DEF ChainInv

\* The packer turns whole octets of the bits before it into octets.
LEMMA ChainPackStep ==
  ASSUME ChainInv, Pack
  PROVE  ChainInv'
<1>1. PICK n \in 1 .. PackedBuffer - (packedOctets - taken) :
         /\ whiteDrained + n * OctetBits <= drained
         /\ whiteDrained' = whiteDrained + n * OctetBits
         /\ packedTags' = packedTags \cup
              {[off |-> Rescaled(t.off), key |-> t.key, val |-> t.val, seq |-> t.off] :
                 t \in {u \in tags : u.off \in whiteDrained .. whiteDrained' - 1}}
  BY DEF Pack
<1>2. UNCHANGED vars /\ UNCHANGED <<taken, pdus, failed>>
  BY DEF Pack, assembly
<1>3. ChainTypes
  BY DEF ChainInv
<1>4. n \in Nat /\ n > 0
  BY <1>1, <1>3, FramingConstants DEF ChainTypes
<1>5. /\ whiteDrained' = OctetBits * (packedOctets + n)
      /\ packedOctets' = packedOctets + n
      /\ whiteDrained' \in Nat /\ whiteDrained < whiteDrained'
  <2>1. packedOctets \in Nat /\ packedOctets + n \in Nat
    BY <1>3, <1>4 DEF ChainTypes
  <2>2. whiteDrained' = OctetBits * (packedOctets + n)
    <3>1. n * OctetBits = OctetBits * n
      BY <1>4, GateConstants
    <3>2. OctetBits * (packedOctets + n) = OctetBits * packedOctets + OctetBits * n
      BY <1>4, <2>1, OctetArithmetic
    <3> QED BY <1>1, <1>3, <3>1, <3>2 DEF ChainTypes
  <2>3. packedOctets' = packedOctets + n
    <3>1. (OctetBits * (packedOctets + n)) \div OctetBits = packedOctets + n
      BY <2>1, OctetArithmetic
    <3> QED BY <2>2, <3>1 DEF packedOctets
  <2>4. packedOctets < packedOctets + n
    BY <1>4, <2>1
  <2>5. /\ OctetBits * packedOctets < OctetBits * (packedOctets + n)
        /\ OctetBits * (packedOctets + n) \in Nat
    BY <2>1, <2>4, OctetArithmetic
  <2> QED BY <1>3, <2>2, <2>3, <2>5 DEF ChainTypes
<1>6. FramingInv'
  <2>1. FramingInv
    BY DEF ChainInv
  <2>2. [Next]_vars
    BY <1>2
  <2> QED BY <2>1, <2>2, FramingStep
<1>7. ChainTypes'
  <2>1. /\ drained' = drained /\ tags' = tags /\ taken' = taken /\ failed' = failed
        /\ stream' = stream /\ stream \in Streams
    BY <1>2, <1>3 DEF vars, output, input, ChainTypes
  <2>2. whiteDrained' <= drained
    BY <1>1
  <2>3. \A t : TagValue(t)' = TagValue(t)
    BY DEF TagValue
  <2>4. taken \in Nat /\ packedOctets' \in Nat /\ taken <= packedOctets'
    BY <1>3, <1>4, <1>5 DEF ChainTypes
  <2>5. failed \in BOOLEAN /\ \A t \in tags : t.off \in Nat /\ TagValue(t)
    BY <1>3 DEF ChainTypes
  <2> QED BY <1>5, <2>1, <2>2, <2>3, <2>4, <2>5 DEF ChainTypes
<1>8. FramesAligned' /\ PdusInARow' /\ PdusOnFrames'
  BY <1>2 DEF ChainInv, FramesAligned, PdusInARow, PdusOnFrames, vars, output, input,
              Wrapped, PacketBits, PduIsFrame
<1>9. TagsMoved'
  <2>1. tags' = tags
    BY <1>2 DEF vars, output
  <2>2. packedTags = {Moved(t) : t \in {u \in tags : u.off < whiteDrained}}
    BY DEF ChainInv, TagsMoved
  <2>3. packedTags' = packedTags \cup
          {Moved(t) : t \in {u \in tags : u.off \in whiteDrained .. whiteDrained' - 1}}
    BY <1>1 DEF Moved
  <2>4. \A t \in tags : t.off \in Nat
    BY <1>3 DEF ChainTypes
  <2>5. whiteDrained \in Nat
    BY <1>3 DEF ChainTypes
  <2>6. \A u \in tags : /\ u.off < whiteDrained => u.off < whiteDrained'
                        /\ u.off \in whiteDrained .. whiteDrained' - 1 => u.off < whiteDrained'
                        /\ u.off < whiteDrained' => \/ u.off < whiteDrained
                                                   \/ u.off \in whiteDrained .. whiteDrained' - 1
    BY <1>5, <2>4, <2>5
  <2>7. packedTags' = {Moved(t) : t \in {u \in tags : u.off < whiteDrained'}}
    BY <2>2, <2>3, <2>6
  <2>8. \A t : Moved(t)' = Moved(t)
    BY DEF Moved, Rescaled
  <2> QED BY <2>1, <2>7, <2>8 DEF TagsMoved
<1> QED BY <1>6, <1>7, <1>8, <1>9 DEF ChainInv

-----------------------------------------------------------------------------
(***************************************************************************)
(* The last block: what the length tags on the octets say.                 *)
(***************************************************************************)

\* Of the tags put on some octets there is a last one.
LEMMA LastPutIsLast ==
  ASSUME ChainTypes, TagsMoved, NEW S \in SUBSET packedTags, S # {}
  PROVE  LastPut(S) \in S /\ \A u \in S : u.seq <= LastPut(S).seq
<1> DEFINE T == {t.seq : t \in S}
<1>1. \A t \in S : t.seq \in Nat /\ t.seq <= whiteDrained
  BY DEF ChainTypes, TagsMoved, Moved
<1>2. T \in SUBSET Nat /\ T # {} /\ \A k \in T : k <= whiteDrained
  BY <1>1
<1>3. PICK m \in T : \A k \in T : k <= m
  <2>1. whiteDrained \in Nat
    BY DEF ChainTypes
  <2> HIDE DEF T
  <2> QED BY <1>2, <2>1, GreatestNatural
<1>4. PICK t \in S : t.seq = m
  OBVIOUS
<1>5. \A u \in S : u.seq <= t.seq
  BY <1>3, <1>4
<1> QED BY <1>5 DEF LastPut

\* Where the last block is to find a length tag, a frame starts, and its length
\* tag is there.
LEMMA FrameAtTaken ==
  ASSUME ChainInv, ~Wrapped, packedOctets > taken
  PROVE  \E pk \in packets :
           /\ pk.out = OctetBits * taken /\ pk.out \in 0 .. written - 1
           /\ out[pk.out] = pk.at
           /\ Moved(Tag(pk.out, "wisun-packet", stream[pk.at].octets))
                \in TagsAt("wisun-packet", {taken})
<1> DEFINE first == OctetBits * taken
<1>1. TypeOK /\ Cursors
  BY CursorTypes DEF ChainInv, FramingInv
<1>2. /\ taken \in Nat /\ packedOctets \in Nat /\ taken < packedOctets
      /\ whiteDrained = OctetBits * packedOctets /\ whiteDrained <= drained
      /\ whiteDrained \in Nat
  BY DEF ChainInv, ChainTypes
<1>3. first \in Nat /\ first < whiteDrained
  BY <1>2, OctetArithmetic
<1>4. drained <= written
  BY <1>1 DEF TypeOK, Cursors
<1>5. first \in 0 .. written - 1
  BY <1>1, <1>2, <1>3, <1>4 DEF Cursors
<1>6. PICK pk \in packets : InOutput(first, pk)
  BY <1>5 DEF ChainInv, FramingInv, OnlyPacketBits
<1>7. /\ pk.out \in Nat /\ PacketBits(pk) \in Nat /\ PacketBits(pk) > 0
      /\ HasLength(pk.at) /\ pk.at \in Position
  BY <1>1, PacketFacts DEF ChainInv, FramingInv, DetectionsHandled
<1>8. pk.out = first
  <2>1. ~(pk.out < first /\ first < pk.out + PacketBits(pk))
    BY DEF ChainInv, PdusOnFrames
  <2>2. pk.out <= first /\ first < pk.out + PacketBits(pk)
    BY <1>3, <1>6, <1>7 DEF InOutput
  <2> QED BY <1>3, <1>7, <2>1, <2>2
<1>9. out[first] = pk.at
  <2>1. out[first] = pk.at + (first - pk.out)
    BY <1>5, <1>6 DEF ChainInv, FramingInv, PacketsIntact
  <2>2. pk.at \in Int
    BY <1>7, GateConstants DEF Position
  <2> QED BY <1>3, <1>8, <2>1, <2>2
<1> DEFINE t == Tag(pk.out, "wisun-packet", stream[pk.at].octets)
<1>10. t \in tags
  <2>1. TagsOnTheirItems
    <3>1. read - written < IntHalf
      BY <1>1, GateConstants DEF Wrapped, Cursors
    <3> QED BY <3>1 DEF ChainInv, FramingInv, TagsOnTheirItemsBeforeWrap
  <2>2. ItemTags(out[first], first) \subseteq PropagatedTags
    BY <1>5, <2>1 DEF TagsOnTheirItems
  <2>3. stream[pk.at].octets # 0
    BY <1>7 DEF HasLength
  <2>4. t \in ItemTags(out[first], first)
    BY <1>8, <1>9, <2>3 DEF ItemTags
  <2> QED BY <2>2, <2>4 DEF PropagatedTags
<1>11. Moved(t) \in packedTags
  <2>1. t.off = first
    BY <1>8 DEF Tag
  <2> QED BY <1>3, <1>10, <2>1 DEF ChainInv, TagsMoved
<1>12. Moved(t).key = "wisun-packet" /\ Moved(t).off = taken
  <2>1. Rescaled(first) = taken
    <3>1. OctetBits \in Nat /\ OctetBits > 0
      BY GateConstants
    <3>2. 2 * first <= 2 * first + OctetBits /\ 2 * first < 2 * first + OctetBits
      BY <1>3, <3>1
    <3> HIDE DEF first
    <3>3. first = OctetBits * taken
      BY DEF first
    <3> QED BY <1>2, <1>3, <3>2, <3>3, RescaledIsNearest
  <2> QED BY <1>8, <2>1 DEF Moved, Tag
<1> QED BY <1>5, <1>8, <1>9, <1>11, <1>12 DEF TagsAt

\* The length found there is that frame's: a tag rounded onto its first octet
\* from elsewhere was put there before.
LEMMA LengthAtTaken ==
  ASSUME ChainInv, ~Wrapped, NEW pk \in packets,
         pk.out = OctetBits * taken, pk.out \in 0 .. written - 1, out[pk.out] = pk.at,
         Moved(Tag(pk.out, "wisun-packet", stream[pk.at].octets))
           \in TagsAt("wisun-packet", {taken})
  PROVE  LastPut(TagsAt("wisun-packet", {taken})).val = stream[pk.at].octets
<1> DEFINE lengths == TagsAt("wisun-packet", {taken})
<1>1. TypeOK /\ Cursors
  BY CursorTypes DEF ChainInv, FramingInv
<1>2. ChainTypes /\ TagsMoved
  BY DEF ChainInv
<1>3. /\ taken \in Nat /\ OctetBits \in Nat /\ OctetBits > 0
      /\ pk.out \in Nat
  BY <1>2, GateConstants DEF ChainTypes
<1>4. TagsOnTheirItems
  <2>1. read - written < IntHalf
    BY <1>1, GateConstants DEF Wrapped, Cursors
  <2> QED BY <2>1 DEF ChainInv, FramingInv, TagsOnTheirItemsBeforeWrap
<1>5. ASSUME NEW u \in lengths
      PROVE  u.seq <= pk.out /\ (u.seq = pk.out => u.val = stream[pk.at].octets)
  <2>1. PICK t \in tags : u = Moved(t)
    BY <1>2 DEF TagsAt, TagsMoved
  <2>2. t.key = "wisun-packet" /\ Rescaled(t.off) = taken /\ u.seq = t.off
        /\ u.val = t.val
    BY <2>1 DEF TagsAt, Moved
  <2>3. PICK k \in 0 .. written - 1 : t \in ItemTags(out[k], k)
    BY <1>4, <2>2 DEF TagsOnTheirItems, PropagatedTags
  <2>4. t = Tag(k, "wisun-packet", stream[out[k]].octets) /\ stream[out[k]].octets # 0
    BY <2>2, <2>3 DEF ItemTags, Tag
  <2>5. t.off = k /\ t.val = stream[out[k]].octets /\ k \in Nat
    BY <1>1, <2>4 DEF Tag, Cursors
  <2>6. 2 * k < 2 * pk.out + OctetBits
    BY <1>3, <2>2, <2>5, RescaledIsNearest
  <2>7. ASSUME pk.out < k PROVE FALSE
    <3>1. /\ PacketBits(pk) \in Nat /\ HasLength(pk.at)
          /\ pk.at \in Position /\ pk.at \in Nat
      BY <1>1, PacketFacts DEF ChainInv, FramingInv, DetectionsHandled
    <3>2. PacketBits(pk) >= OctetBits
      <4>1. stream[pk.at].octets \in Nat /\ stream[pk.at].octets > 0
        BY <1>1, <3>1, ItemFields, GateConstants DEF HasLength, TypeOK
      <4> QED BY <4>1, OctetArithmetic DEF PacketBits
    <3>3. InOutput(k, pk)
      BY <1>3, <2>5, <2>6, <2>7, <3>1, <3>2 DEF InOutput
    <3>4. out[k] = pk.at + (k - pk.out)
      BY <3>3 DEF ChainInv, FramingInv, PacketsIntact
    <3>5. out[k] \in Position
      <4>1. out[k] \in 0 .. read - 1
        BY <1>1 DEF TypeOK
      <4> QED BY <1>1, <4>1, GateConstants DEF Cursors, Position
    <3>6. stream[out[k]].octets > 0
      BY <1>1, <2>4, <3>5, ItemFields, GateConstants DEF TypeOK
    <3>7. 2 * (out[k] - pk.at) >= OctetBits
      <4>1. pk.at < out[k]
        BY <1>3, <2>5, <2>7, <3>1, <3>4
      <4> QED BY <1>2, <3>1, <3>5, <3>6, <4>1, DetectionsSpaced DEF ChainTypes, HasLength
    <3>8. out[k] - pk.at = k - pk.out
      BY <1>3, <2>5, <3>1, <3>4
    <3> QED BY <1>3, <2>5, <2>6, <3>7, <3>8
  <2> QED BY <1>3, <2>2, <2>5, <2>7
<1>6. /\ LastPut(lengths) \in lengths
      /\ \A u \in lengths : u.seq <= LastPut(lengths).seq
  <2>1. lengths \in SUBSET packedTags /\ lengths # {}
    BY DEF TagsAt
  <2> HIDE DEF lengths
  <2> QED BY <1>2, <2>1, LastPutIsLast
<1>7. pk.out <= LastPut(lengths).seq
  <2>1. Moved(Tag(pk.out, "wisun-packet", stream[pk.at].octets)).seq = pk.out
    BY DEF Moved, Tag
  <2> QED BY <1>6, <2>1
<1>8. LastPut(lengths).seq \in Nat
  <2>1. \A u \in packedTags : u.seq \in Nat
    BY <1>2 DEF TagsMoved, Moved, ChainTypes
  <2> QED BY <1>6, <2>1 DEF TagsAt
<1>9. /\ LastPut(lengths).seq <= pk.out
      /\ LastPut(lengths).seq = pk.out => LastPut(lengths).val = stream[pk.at].octets
  <2> HIDE DEF lengths
  <2> QED BY <1>5, <1>6
<1>10. LastPut(lengths).seq = pk.out
  <2> HIDE DEF lengths
  <2> QED BY <1>3, <1>7, <1>8, <1>9
<1> QED BY <1>9, <1>10

\* The last block takes a frame's octets and makes a PDU of them.
LEMMA ChainAssembleStep ==
  ASSUME ChainInv, Assemble
  PROVE  ChainInv'
<1> DEFINE lengths == TagsAt("wisun-packet", {taken})
           octets == LastPut(lengths).val
           rssis == TagsAt("packet-rssi", taken .. taken + octets - 1)
           pdu == [from |-> taken, octets |-> octets,
                   rssi |-> IF rssis = {} THEN None ELSE LastPut(rssis).val]
           Pdu == [from : Nat, octets : 1 .. MaxOctets, rssi : Levels \cup {None}]
<1>1. /\ ~failed /\ packedOctets > taken /\ lengths # {}
      /\ packedOctets - taken >= octets
      /\ taken' = taken + octets
      /\ pdus' = Append(pdus, pdu)
      /\ UNCHANGED <<vars, whitening, whiteDrained, packedTags, failed>>
  BY DEF Assemble
<1>2. ChainTypes /\ TagsMoved /\ PdusInARow
  BY DEF ChainInv
<1>3. \A t \in packedTags : TagValue(t)
  BY <1>2 DEF ChainTypes, TagsMoved, Moved, TagValue
<1>4. octets \in 1 .. MaxOctets /\ octets \in Nat /\ octets > 0
  <2>1. LastPut(lengths) \in lengths
    <3>1. lengths \in SUBSET packedTags
      BY DEF TagsAt
    <3> HIDE DEF lengths
    <3> QED BY <1>1, <1>2, <3>1, LastPutIsLast
  <2>2. octets \in 1 .. MaxOctets
    BY <1>3, <2>1 DEF TagsAt, TagValue
  <2> HIDE DEF octets
  <2> QED BY <2>2, GateConstants
<1>5. pdu \in Pdu
  <2>1. rssis # {} => LastPut(rssis).val \in Levels
    <3>1. rssis \in SUBSET packedTags
      BY DEF TagsAt
    <3>2. rssis # {} => LastPut(rssis) \in rssis
      <4> HIDE DEF rssis
      <4> QED BY <1>2, <3>1, LastPutIsLast
    <3> QED BY <1>3, <3>2 DEF TagsAt, TagValue
  <2>2. taken \in Nat
    BY <1>2 DEF ChainTypes
  <2> HIDE DEF octets, rssis
  <2> QED BY <1>4, <2>1, <2>2
<1>6. /\ taken' \in Nat /\ packedOctets' = packedOctets /\ taken' <= packedOctets
      /\ taken < taken' /\ taken \in Nat
  <2>1. taken \in Nat /\ packedOctets \in Nat
    BY <1>2 DEF ChainTypes
  <2> HIDE DEF octets
  <2> QED BY <1>1, <1>4, <2>1 DEF packedOctets
<1>7. FramingInv' /\ FramesAligned' /\ TagsMoved'
  <2>1. FramingInv'
    BY <1>1, FramingStep DEF ChainInv
  <2> QED BY <1>1, <2>1 DEF ChainInv, FramesAligned, TagsMoved, vars, output, Moved, Rescaled
<1>8. ChainTypes'
  <2>1. \A t : TagValue(t)' = TagValue(t)
    BY DEF TagValue
  <2>2. /\ stream' = stream /\ whiteDrained' = whiteDrained /\ drained' = drained
        /\ tags' = tags /\ failed' = failed
    BY <1>1 DEF vars, input, output
  <2> HIDE DEF octets
  <2> QED BY <1>2, <1>6, <2>1, <2>2 DEF ChainTypes
<1>9. /\ pdus \in Seq(Pdu) /\ pdus' \in Seq(Pdu) /\ Len(pdus) \in Nat
      /\ Len(pdus') = Len(pdus) + 1 /\ pdus' # <<>>
      /\ pdus'[Len(pdus) + 1] = pdu
      /\ \A i \in 1 .. Len(pdus) : pdus'[i] = pdus[i]
  <2>1. pdus \in Seq(Pdu)
    BY <1>2 DEF PdusInARow
  <2> HIDE DEF Pdu, pdu
  <2> QED BY <1>1, <1>5, <2>1, AppendProperties
<1>10. pdu.from = taken /\ pdu.octets = octets
  OBVIOUS
<1>11. \A i \in 1 .. Len(pdus') : i \in 1 .. Len(pdus) \/ i = Len(pdus) + 1
  BY <1>9
<1>12. PdusInARow'
  <2>1. taken' = pdus'[Len(pdus')].from + pdus'[Len(pdus')].octets
    <3> HIDE DEF pdu, octets
    <3> QED BY <1>1, <1>9, <1>10
  <2>2. ASSUME NEW i \in 1 .. Len(pdus')
        PROVE  pdus'[i].from + pdus'[i].octets <= taken'
    <3>1. CASE i \in 1 .. Len(pdus)
      <4>1. pdus[i].from + pdus[i].octets <= taken
        BY <1>2, <3>1 DEF PdusInARow
      <4>2. pdus[i] \in Pdu
        <5> HIDE DEF Pdu, pdu, octets
        <5> QED BY <1>9, <3>1, ElementOfSeq
      <4>3. pdus[i].from \in Nat /\ pdus[i].octets \in Nat
        BY <4>2, GateConstants
      <4> HIDE DEF Pdu, pdu
      <4> QED BY <1>6, <1>9, <3>1, <4>1, <4>3
    <3>2. CASE i = Len(pdus) + 1
      <4> HIDE DEF Pdu, pdu
      <4> QED BY <1>6, <1>9, <2>1, <3>2
    <3> QED BY <1>11, <2>2, <3>1, <3>2
  <2>3. pdus' \in Seq(Pdu) /\ pdus' # <<>>
    BY <1>9
  <2> HIDE DEF pdu, octets
  <2> QED BY <2>1, <2>2, <2>3 DEF PdusInARow
<1>13. PdusOnFrames'
  <2> SUFFICES ASSUME ~Wrapped' PROVE PdusOnFrames'
    BY DEF PdusOnFrames
  <2>1. /\ stream' = stream /\ packets' = packets /\ ~Wrapped
        /\ written' = written /\ read' = read /\ failed' = failed
    BY <1>1 DEF vars, input, output, Wrapped
  <2>2. PICK pk \in packets :
           /\ pk.out = OctetBits * taken /\ pk.out \in 0 .. written - 1
           /\ out[pk.out] = pk.at
           /\ Moved(Tag(pk.out, "wisun-packet", stream[pk.at].octets)) \in lengths
    BY <1>1, <2>1, FrameAtTaken
  <2>3. octets = stream[pk.at].octets
    BY <2>1, <2>2, LengthAtTaken
  <2>4. OctetBits * taken' = pk.out + PacketBits(pk)
    <3>1. OctetBits * (taken + octets) = OctetBits * taken + OctetBits * octets
      <4> HIDE DEF octets
      <4> QED BY <1>4, <1>6, OctetArithmetic
    <3> HIDE DEF octets
    <3> QED BY <1>1, <2>2, <2>3, <3>1 DEF PacketBits
  <2>5. ASSUME NEW pl \in packets
        PROVE  ~(pl.out < OctetBits * taken' /\ OctetBits * taken' < pl.out + PacketBits(pl))
    <3>1. TypeOK
      BY DEF ChainInv, FramingInv
    <3>2. /\ pk.out \in Nat /\ PacketBits(pk) \in Nat
          /\ pl.out \in Nat /\ PacketBits(pl) \in Nat
      BY <3>1, PacketFacts
    <3>3. pk = pl \/ Before(pk, pl) \/ Before(pl, pk)
      BY DEF ChainInv, FramingInv, FramesInOrder
    <3>4. Before(pk, pl) => pk.out + PacketBits(pk) <= pl.out
      BY DEF Before
    <3>5. Before(pl, pk) => pl.out + PacketBits(pl) <= pk.out
      BY DEF Before
    <3> HIDE DEF octets
    <3> QED BY <2>4, <3>2, <3>3, <3>4, <3>5
  <2>6. ASSUME NEW i \in 1 .. Len(pdus')
        PROVE  \E pl \in packets : PduIsFrame(i, pl)'
    <3>1. CASE i \in 1 .. Len(pdus)
      <4>1. PICK pl \in packets : PduIsFrame(i, pl)
        BY <2>1, <3>1 DEF ChainInv, PdusOnFrames
      <4>2. PduIsFrame(i, pl)'
        BY <1>9, <2>1, <3>1, <4>1 DEF PduIsFrame
      <4> QED BY <4>2
    <3>2. CASE i = Len(pdus) + 1
      <4>1. PduIsFrame(i, pk)'
        BY <1>9, <1>10, <2>1, <2>2, <2>3, <3>2 DEF PduIsFrame
      <4> QED BY <4>1
    <3> QED BY <1>11, <2>6, <3>1, <3>2
  <2>7. \A pl : PacketBits(pl)' = PacketBits(pl)
    BY <2>1 DEF PacketBits
  <2>8. ~failed'
    BY <1>1, <2>1
  <2> HIDE DEF pdu, octets, lengths
  <2> QED BY <2>1, <2>5, <2>6, <2>7, <2>8 DEF PdusOnFrames
<1> QED BY <1>7, <1>8, <1>12, <1>13 DEF ChainInv

\* It does not throw before the wrap.
LEMMA ChainThrowStep ==
  ASSUME ChainInv, Throw
  PROVE  ChainInv'
<1>1. /\ packedOctets > taken /\ TagsAt("wisun-packet", {taken}) = {}
      /\ failed' = TRUE
      /\ UNCHANGED <<vars, whitening, whiteDrained, packedTags, taken, pdus>>
  BY DEF Throw
<1>2. Wrapped /\ Wrapped'
  <2>1. Wrapped
    BY <1>1, FrameAtTaken
  <2> QED BY <1>1, <2>1 DEF Wrapped, vars, output
<1>3. FramingInv' /\ FramesAligned' /\ TagsMoved' /\ PdusInARow'
  <2>1. FramingInv'
    BY <1>1, FramingStep DEF ChainInv
  <2> QED BY <1>1, <2>1
          DEF ChainInv, FramesAligned, TagsMoved, PdusInARow, vars, output, Moved, Rescaled
<1>4. ChainTypes'
  <2>1. \A t : TagValue(t)' = TagValue(t)
    BY DEF TagValue
  <2>2. /\ stream' = stream /\ whiteDrained' = whiteDrained /\ drained' = drained
        /\ tags' = tags /\ taken' = taken /\ packedOctets' = packedOctets
        /\ failed' \in BOOLEAN
    BY <1>1 DEF vars, input, output, packedOctets
  <2> QED BY <2>1, <2>2 DEF ChainInv, ChainTypes
<1>5. PdusOnFrames'
  BY <1>2 DEF PdusOnFrames
<1> QED BY <1>3, <1>4, <1>5 DEF ChainInv

LEMMA ChainStep == ChainInv /\ [FramingNext]_allVars => ChainInv'
<1> SUFFICES ASSUME ChainInv, [FramingNext]_allVars PROVE ChainInv'
  OBVIOUS
<1>1. FramingInv' /\ [Next]_vars
  BY ChainStepIsGateStep, FramingStep DEF ChainInv
<1>2. CASE GateStep \/ WhitenStep \/ UNCHANGED allVars
  <2>1. UNCHANGED <<whiteDrained, packedTags, taken, pdus, failed>>
    BY <1>2 DEF GateStep, WhitenStep, W!Whiten, allVars, assembly
  <2> QED BY <1>1, <2>1, ChainGateStep
<1> QED BY <1>2, ChainPackStep, ChainAssembleStep, ChainThrowStep DEF FramingNext

\* The invariant of the chain holds in every reachable state.
THEOREM ChainCorrect == FramingSpec => []ChainInv
BY ChainInit, ChainStep, PTL DEF FramingSpec

\* The octets of the PDUs have gone through the packer, their bits are in the
\* gate's output.
LEMMA PduInOutput ==
  ASSUME ChainInv, NEW i \in 1 .. Len(pdus)
  PROVE  /\ pdus[i].from \in Nat /\ pdus[i].octets \in 1 .. MaxOctets
         /\ OctetBits * pdus[i].from \in Nat
         /\ OctetBits * pdus[i].octets \in Nat /\ OctetBits * pdus[i].octets > 0
         /\ OctetBits * pdus[i].from + OctetBits * pdus[i].octets <= drained
         /\ OctetBits * pdus[i].from + OctetBits * pdus[i].octets <= written
<1> DEFINE Pdu == [from : Nat, octets : 1 .. MaxOctets, rssi : Levels \cup {None}]
<1>1. ChainTypes /\ PdusInARow /\ TypeOK /\ Cursors
  BY CursorTypes DEF ChainInv, FramingInv
<1>2. pdus[i] \in Pdu
  <2>1. pdus \in Seq(Pdu)
    BY <1>1 DEF PdusInARow
  <2> HIDE DEF Pdu
  <2> QED BY <2>1, ElementOfSeq
<1>3. pdus[i].from \in Nat /\ pdus[i].octets \in 1 .. MaxOctets
  BY <1>2
<1>4. pdus[i].octets \in Nat /\ pdus[i].octets > 0 /\ OctetBits \in Nat /\ OctetBits > 0
  BY <1>3, GateConstants
<1>5. /\ OctetBits * pdus[i].from \in Nat /\ OctetBits * pdus[i].octets \in Nat
      /\ OctetBits * pdus[i].octets > 0
      /\ OctetBits * (pdus[i].from + pdus[i].octets)
           = OctetBits * pdus[i].from + OctetBits * pdus[i].octets
  <2>1. /\ OctetBits * pdus[i].from \in Nat
        /\ OctetBits * (pdus[i].from + pdus[i].octets)
             = OctetBits * pdus[i].from + OctetBits * pdus[i].octets
    BY <1>3, <1>4, OctetArithmetic
  <2>2. OctetBits * pdus[i].octets \in Nat /\ OctetBits * pdus[i].octets >= OctetBits
    BY <1>4, OctetArithmetic
  <2> QED BY <1>4, <2>1, <2>2
<1>6. OctetBits * (pdus[i].from + pdus[i].octets) <= OctetBits * packedOctets
  <2>1. /\ pdus[i].from + pdus[i].octets \in Nat /\ packedOctets \in Nat
        /\ pdus[i].from + pdus[i].octets <= packedOctets
    <3>1. pdus[i].from + pdus[i].octets <= taken
      BY <1>1 DEF PdusInARow
    <3> QED BY <1>1, <1>3, <1>4, <3>1 DEF ChainTypes
  <2> QED BY <2>1, OctetArithmetic
<1>7. OctetBits * packedOctets <= drained /\ drained <= written
  <2>1. drained \in Nat /\ written \in Nat /\ drained <= written
    BY <1>1 DEF TypeOK, Cursors
  <2> QED BY <1>1, <2>1 DEF ChainTypes
<1>8. drained \in Nat /\ written \in Nat /\ OctetBits * packedOctets \in Nat
  BY <1>1 DEF Cursors, ChainTypes
<1> QED BY <1>3, <1>5, <1>6, <1>7, <1>8

\* A PDU that is a frame has the frame's bits.
LEMMA PduHasFrameBits ==
  ASSUME ChainInv, NEW i \in 1 .. Len(pdus), NEW pk \in packets, PduIsFrame(i, pk)
  PROVE  /\ FrameOf(pdus[i]) = [at |-> pk.at, octets |-> stream[pk.at].octets]
         /\ HasLength(pk.at) /\ pk.at \in Nat
         /\ \A j \in 0 .. OctetBits * pdus[i].octets - 1 :
              /\ OctetBits * pdus[i].from + j \in 0 .. written - 1
              /\ out[OctetBits * pdus[i].from + j] = pk.at + j
<1> DEFINE first == OctetBits * pdus[i].from
           size == OctetBits * pdus[i].octets
<1>1. TypeOK /\ Cursors
  BY CursorTypes DEF ChainInv, FramingInv
<1>2. HasLength(pk.at) /\ pk.at \in Nat
  BY <1>1, PacketFacts DEF ChainInv, FramingInv, DetectionsHandled
<1>3. /\ first \in Nat /\ size \in Nat /\ size > 0 /\ first + size <= written
      /\ written \in Nat
  BY <1>1, PduInOutput DEF Cursors
<1>4. pk.out = first /\ PacketBits(pk) = size
  BY DEF PduIsFrame, PacketBits
<1>5. ASSUME NEW j \in 0 .. size - 1
      PROVE  first + j \in 0 .. written - 1 /\ out[first + j] = pk.at + j
  <2> HIDE DEF first, size
  <2>1. first + j \in 0 .. written - 1 /\ InOutput(first + j, pk)
    BY <1>3, <1>4 DEF InOutput
  <2>2. out[first + j] = pk.at + ((first + j) - pk.out)
    BY <2>1 DEF ChainInv, FramingInv, PacketsIntact
  <2> QED BY <1>2, <1>3, <1>4, <2>1, <2>2
<1>6. out[first] = pk.at
  <2>1. out[first + 0] = pk.at + 0
    <3> HIDE DEF first, size
    <3> QED BY <1>3, <1>5
  <2> QED BY <1>2, <1>3, <2>1
<1>7. FrameOf(pdus[i]) = [at |-> pk.at, octets |-> stream[pk.at].octets]
  BY <1>6 DEF FrameOf, PduIsFrame
<1> QED BY <1>2, <1>5, <1>7

\* A PDU is a whole frame of the stream until the gate's tag offset wraps,
\* whatever the blocks' speeds and buffers.
THEOREM PdusAreWholeFrames == FramingSpec => []PdusAreFrames
<1>1. ChainInv => PdusAreFrames
  <2> SUFFICES ASSUME ChainInv, read - written < IntHalf, NEW i \in DOMAIN pdus
               PROVE  LET fr == FrameOf(pdus[i])
                      IN  /\ HasLength(fr.at) /\ fr.octets = stream[fr.at].octets
                          /\ \A j \in 0 .. OctetBits * fr.octets - 1 :
                               out[OctetBits * pdus[i].from + j] = fr.at + j
    BY DEF PdusAreFrames
  <2>1. ~Wrapped
    <3>1. Cursors
      BY CursorTypes DEF ChainInv, FramingInv
    <3> QED BY <3>1, GateConstants DEF Wrapped, Cursors
  <2>2. i \in 1 .. Len(pdus)
    BY DEF ChainInv, PdusInARow
  <2>3. PICK pk \in packets : PduIsFrame(i, pk)
    BY <2>1, <2>2 DEF ChainInv, PdusOnFrames
  <2>4. /\ FrameOf(pdus[i]) = [at |-> pk.at, octets |-> stream[pk.at].octets]
        /\ HasLength(pk.at)
        /\ \A j \in 0 .. OctetBits * pdus[i].octets - 1 :
             out[OctetBits * pdus[i].from + j] = pk.at + j
    BY <2>2, <2>3, PduHasFrameBits
  <2>5. pdus[i].octets = stream[pk.at].octets
    BY <2>3 DEF PduIsFrame
  <2> QED BY <2>4, <2>5
<1> QED BY <1>1, ChainCorrect, PTL

\* The block that forms PDUs always finds its length tag until that wrap.
THEOREM NoThrowBeforeWrap == FramingSpec => []ThrowsOnlyAfterWrap
<1>1. ChainInv => ThrowsOnlyAfterWrap
  BY DEF ChainInv, PdusOnFrames, Wrapped, ThrowsOnlyAfterWrap
<1> QED BY <1>1, ChainCorrect, PTL

-----------------------------------------------------------------------------
(***************************************************************************)
(* De-whitening: the counters of the block tell how far it is from the     *)
(* detection that governs the item it is at.                               *)
(***************************************************************************)
Counters == [header : Nat, payload : Nat, pn9 : Nat]

\* What the counters are before the item that comes `bit' items behind the first
\* of a frame of `size' items.
ReadyFor(s, size, bit) ==
  IF size <= HeaderBits THEN s.header = 0 /\ s.payload = 0
  ELSE /\ s.header = IF bit < HeaderBits THEN HeaderBits - bit ELSE 0
       /\ s.payload = IF bit < HeaderBits THEN size - HeaderBits
                      ELSE IF bit < size THEN size - bit ELSE 0
       /\ s.payload > 0 => s.pn9 = IF bit < HeaderBits THEN 0 ELSE bit - HeaderBits

LEMMA CountersStart ==
  ASSUME NEW s \in Counters, NEW octets \in Nat
  PROVE  /\ W!StartPacket(s, octets) \in Counters
         /\ ReadyFor(W!StartPacket(s, octets), OctetBits * octets, 0)
<1>1. OctetBits * octets \in Nat
  BY OctetArithmetic
<1>2. PICK size \in Nat : size = OctetBits * octets
  BY <1>1
<1>3. HeaderBits \in Nat /\ HeaderBits > 0
  BY FramingConstants
<1>4. CASE size <= HeaderBits
  <2>1. PICK r : r = W!StartPacket(s, octets)
    OBVIOUS
  <2>2. r = [s EXCEPT !.header = 0, !.payload = 0]
    BY <1>2, <1>4, <2>1 DEF W!StartPacket
  <2>3. r = [header |-> 0, payload |-> 0, pn9 |-> s.pn9]
    BY <2>2 DEF Counters
  <2>4. r \in Counters /\ r.header = 0 /\ r.payload = 0
    BY <2>3 DEF Counters
  <2>5. ReadyFor(r, size, 0)
    BY <1>4, <2>4 DEF ReadyFor
  <2> QED BY <1>2, <2>1, <2>4, <2>5
<1>5. CASE ~(size <= HeaderBits)
  <2>1. W!StartPacket(s, octets)
          = [header |-> HeaderBits, payload |-> size - HeaderBits, pn9 |-> 0]
    BY <1>2, <1>5 DEF W!StartPacket
  <2>2. size - HeaderBits \in Nat
    BY <1>3, <1>5
  <2> QED BY <1>2, <1>3, <1>5, <2>1, <2>2 DEF Counters, ReadyFor
<1> QED BY <1>4, <1>5

LEMMA CountersAdvance ==
  ASSUME NEW s \in Counters
  PROVE  /\ W!AfterItem(s) \in Counters
         /\ \A size, bit \in Nat :
              ReadyFor(s, size, bit) =>
                /\ ReadyFor(W!AfterItem(s), size, bit + 1)
                /\ W!Applied(s) = IF bit \in HeaderBits .. size - 1
                                  THEN bit - HeaderBits + 1 ELSE 0
<1>1. HeaderBits \in Nat /\ HeaderBits > 0
  BY FramingConstants
<1>2. PICK h \in Nat, p \in Nat, x \in Nat : s = [header |-> h, payload |-> p, pn9 |-> x]
  BY DEF Counters
<1>3. PICK r : r = W!AfterItem(s)
  OBVIOUS
<1>4. /\ r.header = IF h > 0 THEN h - 1 ELSE 0
      /\ r.payload = IF h = 0 /\ p > 0 THEN p - 1 ELSE p
      /\ r.pn9 = IF h = 0 /\ p > 0 THEN x + 1 ELSE x
      /\ r \in Counters
  <2>1. CASE h > 0
    <3>1. r = [s EXCEPT !.header = h - 1]
      BY <1>2, <1>3, <2>1 DEF W!AfterItem
    <3> QED BY <1>2, <2>1, <3>1 DEF Counters
  <2>2. CASE h = 0 /\ p > 0
    <3>1. r = [s EXCEPT !.payload = p - 1, !.pn9 = x + 1]
      BY <1>2, <1>3, <2>2 DEF W!AfterItem
    <3>2. PICK y \in Nat, z \in Nat : y = p - 1 /\ z = x + 1
      BY <2>2
    <3>3. r = [s EXCEPT !.payload = y, !.pn9 = z]
      BY <3>1, <3>2
    <3>4. r.header = s.header /\ r.payload = y /\ r.pn9 = z /\ r \in Counters
      BY <3>3 DEF Counters
    <3> QED BY <1>2, <2>2, <3>2, <3>4
  <2>3. CASE h = 0 /\ p = 0
    BY <1>2, <1>3, <2>3 DEF W!AfterItem
  <2> QED BY <2>1, <2>2, <2>3
<1>5. W!Applied(s) = IF h = 0 /\ p > 0 THEN x + 1 ELSE 0
  BY <1>2 DEF W!Applied, W!Plain
<1>6. ASSUME NEW size \in Nat, NEW bit \in Nat, ReadyFor(s, size, bit)
      PROVE  /\ ReadyFor(r, size, bit + 1)
             /\ W!Applied(s) = IF bit \in HeaderBits .. size - 1
                               THEN bit - HeaderBits + 1 ELSE 0
  <2>1. CASE size <= HeaderBits
    BY <1>1, <1>2, <1>4, <1>5, <1>6, <2>1 DEF ReadyFor
  <2>2. CASE ~(size <= HeaderBits) /\ bit < HeaderBits
    <3>1. h = HeaderBits - bit /\ p = size - HeaderBits /\ h > 0 /\ p > 0 /\ x = 0
      BY <1>1, <1>2, <1>6, <2>2 DEF ReadyFor
    <3> QED BY <1>1, <1>4, <1>5, <2>2, <3>1 DEF ReadyFor
  <2>3. CASE ~(size <= HeaderBits) /\ ~(bit < HeaderBits) /\ bit < size
    <3>1. h = 0 /\ p = size - bit /\ p > 0 /\ x = bit - HeaderBits
      BY <1>1, <1>2, <1>6, <2>3 DEF ReadyFor
    <3> QED BY <1>1, <1>4, <1>5, <2>3, <3>1 DEF ReadyFor
  <2>4. CASE ~(size <= HeaderBits) /\ ~(bit < HeaderBits) /\ ~(bit < size)
    <3>1. h = 0 /\ p = 0
      BY <1>1, <1>2, <1>6, <2>4 DEF ReadyFor
    <3> QED BY <1>1, <1>4, <1>5, <2>4, <3>1 DEF ReadyFor
  <2> QED BY <2>1, <2>2, <2>3, <2>4
<1> QED BY <1>3, <1>4, <1>6

\* The counters when a tag on the item restarts the block, and when none does.
LEMMA CountersAtItem ==
  ASSUME ChainTypes, NEW s \in Counters, NEW k \in Nat
  PROVE  /\ W!AtItem(s, k) \in Counters
         /\ ~Wrapped /\ ChainInv /\ k < written =>
              W!AtItem(s, k) = IF HasLength(out[k])
                               THEN W!StartPacket(s, stream[out[k]].octets) ELSE s
<1> DEFINE starts == {t \in tags : t.key = "wisun-packet" /\ t.off = k}
           start == CHOOSE t \in starts : TRUE
<1>1. W!AtItem(s, k) = IF starts = {} THEN s ELSE W!StartPacket(s, start.val)
  BY DEF W!AtItem
<1>2. starts # {} => start \in starts
  <2> HIDE DEF starts
  <2> QED OBVIOUS
<1>3. W!AtItem(s, k) \in Counters
  <2>1. CASE starts = {}
    <3> HIDE DEF starts, start
    <3> QED BY <1>1, <2>1
  <2>2. CASE starts # {}
    <3>1. start \in tags /\ start.key = "wisun-packet"
      BY <1>2, <2>2
    <3> HIDE DEF starts, start
    <3>2. start.val \in Nat
      BY <3>1, GateConstants DEF ChainTypes, TagValue
    <3> QED BY <1>1, <2>2, <3>2, CountersStart
  <2> QED BY <2>1, <2>2
<1>4. ASSUME ~Wrapped, ChainInv, k < written
      PROVE  W!AtItem(s, k) = IF HasLength(out[k])
                              THEN W!StartPacket(s, stream[out[k]].octets) ELSE s
  <2>1. Cursors /\ TypeOK
    BY <1>4, CursorTypes DEF ChainInv, FramingInv
  <2>2. k \in 0 .. written - 1
    BY <1>4, <2>1 DEF Cursors
  <2>3. TagsOnTheirItems
    <3>1. read - written < IntHalf
      BY <1>4, <2>1, GateConstants DEF Wrapped, Cursors
    <3> QED BY <1>4, <3>1 DEF ChainInv, FramingInv, TagsOnTheirItemsBeforeWrap
  <2>4. stream[out[k]].octets \in Nat
    <3>1. out[k] \in Position
      <4>1. out[k] \in 0 .. read - 1
        BY <2>1, <2>2 DEF TypeOK
      <4> QED BY <2>1, <4>1, GateConstants DEF Cursors, Position
    <3> QED BY <2>1, <3>1, ItemFields, GateConstants DEF TypeOK
  <2>5. ASSUME NEW t \in starts
        PROVE  HasLength(out[k]) /\ t.val = stream[out[k]].octets
    <3>1. PICK j \in 0 .. written - 1 : t \in ItemTags(out[j], j)
      BY <2>3 DEF TagsOnTheirItems, PropagatedTags
    <3>2. t = Tag(j, "wisun-packet", stream[out[j]].octets) /\ stream[out[j]].octets # 0
      BY <3>1 DEF ItemTags, Tag
    <3>3. j = k
      BY <3>2 DEF Tag
    <3> QED BY <2>4, <3>2, <3>3 DEF Tag, HasLength
  <2>6. HasLength(out[k]) => starts # {}
    <3> SUFFICES ASSUME HasLength(out[k]) PROVE starts # {}
      OBVIOUS
    <3> DEFINE t == Tag(k, "wisun-packet", stream[out[k]].octets)
    <3>1. t \in ItemTags(out[k], k)
      BY <2>4 DEF ItemTags, HasLength
    <3>2. t \in tags
      BY <2>2, <2>3, <3>1 DEF TagsOnTheirItems, PropagatedTags
    <3>3. t.key = "wisun-packet" /\ t.off = k
      BY DEF Tag
    <3> QED BY <3>2, <3>3
  <2> HIDE DEF starts, start
  <2> QED BY <1>1, <1>2, <2>5, <2>6
<1> QED BY <1>3, <1>4

\* The states in which the items of a call are processed, one from the other.
LEMMA CountersOfItems ==
  ASSUME ChainTypes, drained \in Nat, state \in Counters, NEW n \in Nat, n > 0
  PROVE  LET at == W!ItemStates(n)
         IN  /\ \A i \in 0 .. n - 1 : at[i] \in Counters
             /\ at[0] = W!AtItem(state, drained)
             /\ \A i \in 1 .. n - 1 : at[i] = W!AtItem(W!AfterItem(at[i - 1]), drained + i)
<1> DEFINE step == [j \in Nat |-> [s \in Counters |-> W!AtItem(W!AfterItem(s), drained + j)]]
           start == W!AtItem(state, drained)
           m == n - 1
<1>1. m \in Nat
  OBVIOUS
<1>2. \A j \in Nat, s \in Counters :
        /\ W!AfterItem(s) \in Counters
        /\ W!AtItem(W!AfterItem(s), drained + j) \in Counters
  <2> TAKE j \in Nat, s \in Counters
  <2>1. W!AfterItem(s) \in Counters
    BY CountersAdvance
  <2>2. drained + j \in Nat
    OBVIOUS
  <2> QED BY <2>1, <2>2, CountersAtItem
<1>3. start \in Counters
  BY CountersAtItem
<1>4. step \in [Nat -> [Counters -> Counters]]
  BY <1>2
<1>5. PICK f \in [0 .. m -> Counters] : Recursive(f, m, start, step)
  <2> HIDE DEF step, start, m, Counters
  <2> QED BY <1>1, <1>3, <1>4, FiniteRecursion
<1>6. /\ f[0] = W!AtItem(state, drained)
      /\ \A i \in 1 .. m : f[i] = W!AtItem(W!AfterItem(f[i - 1]), drained + i)
  <2>1. \A i \in 1 .. m : i \in Nat /\ i - 1 \in 0 .. m
    BY <1>1
  <2>2. \A i \in 1 .. m : f[i - 1] \in Counters
    <3> HIDE DEF Counters, m
    <3> QED BY <1>5, <2>1
  <2>3. \A i \in 1 .. m : step[i][f[i - 1]] = W!AtItem(W!AfterItem(f[i - 1]), drained + i)
    <3> HIDE DEF Counters, m
    <3> QED BY <2>1, <2>2
  <2> HIDE DEF step, m
  <2> QED BY <1>5, <2>3 DEF Recursive
<1>7. f = [i \in 0 .. m |-> W!AtItem(IF i = 0 THEN state ELSE W!AfterItem(f[i - 1]), drained + i)]
  <2>1. \A i \in 0 .. m : i # 0 => i \in 1 .. m
    BY <1>1
  <2>2. \A i \in 0 .. m :
          f[i] = W!AtItem(IF i = 0 THEN state ELSE W!AfterItem(f[i - 1]), drained + i)
    <3> TAKE i \in 0 .. m
    <3>1. CASE i = 0
      <4>1. drained + i = drained
        BY <3>1
      <4> QED BY <1>6, <3>1, <4>1
    <3>2. CASE i # 0
      <4> HIDE DEF m
      <4> QED BY <1>6, <2>1, <3>2
    <3> QED BY <3>1, <3>2
  <2> HIDE DEF m, Counters
  <2> QED BY <1>5, <2>2
<1>8. PICK g : g = W!ItemStates(n)
  OBVIOUS
<1>9. g = [i \in 0 .. m |-> W!AtItem(IF i = 0 THEN state ELSE W!AfterItem(g[i - 1]), drained + i)]
  BY <1>7, <1>8 DEF W!ItemStates
<1>10. Equal(g, f, m)
  <2>1. \A i \in 1 .. m : i \in 0 .. m /\ i # 0
    BY <1>1
  <2>2. 0 \in 0 .. m
    BY <1>1
  <2> HIDE DEF m
  <2>3. Alike(g, f, m)
    BY <1>7, <1>9, <2>1, <2>2 DEF Alike
  <2> QED BY <1>1, <2>3, RecursionUnique
<1>11. \A i \in 0 .. m : g[i] = f[i] /\ g[i] \in Counters
  <2> HIDE DEF m, Counters
  <2> QED BY <1>5, <1>10 DEF Equal
<1>12. g[0] = W!AtItem(state, drained)
  BY <1>1, <1>6, <1>11
<1>13. \A i \in 1 .. m : g[i] = W!AtItem(W!AfterItem(g[i - 1]), drained + i)
  <2>1. \A i \in 1 .. m : i \in 0 .. m /\ i - 1 \in 0 .. m
    BY <1>1
  <2> HIDE DEF m
  <2> QED BY <1>6, <1>11, <2>1
<1> QED BY <1>8, <1>11, <1>12, <1>13

\* What has been written says how each bit is to be treated, the counters how the
\* next one of the frame is.
TreatedRight(pk, last) ==
  \A k \in 0 .. drained - 1 :
    InOutput(k, pk) /\ Governs(last, pk.at, out[k]) => white[k] = Pn9Index(last, out[k])
ReadyForNext(pk, last) ==
  (drained > 0 /\ InOutput(drained - 1, pk) /\ Governs(last, pk.at, out[drained - 1])) =>
    ReadyFor(state, OctetBits * stream[last].octets, out[drained - 1] - last + 1)
WhiteInv ==
  /\ state \in Counters
  /\ ~Wrapped =>
       \A pk \in packets, last \in Nat : TreatedRight(pk, last) /\ ReadyForNext(pk, last)

\* The bits of a frame lie side by side.
LEMMA BitsOfFrame ==
  ASSUME ChainInv, NEW pk \in packets, NEW k \in 0 .. written - 1, InOutput(k, pk)
  PROVE  /\ pk.at \in Nat /\ pk.out \in Nat /\ k \in Nat /\ out[k] \in Nat
         /\ out[k] = pk.at + (k - pk.out)
         /\ k > pk.out => InOutput(k - 1, pk) /\ out[k - 1] = out[k] - 1
         /\ \A last \in pk.at .. out[k] : OctetBits * stream[last].octets \in Nat
                                       /\ stream[last].octets \in Nat
<1>1. TypeOK /\ Cursors
  BY CursorTypes DEF ChainInv, FramingInv
<1>2. pk.at \in Nat /\ pk.out \in Nat /\ PacketBits(pk) \in Nat
  BY <1>1, PacketFacts
<1>3. k \in Nat /\ out[k] = pk.at + (k - pk.out) /\ out[k] \in 0 .. read - 1
  BY <1>1 DEF ChainInv, FramingInv, PacketsIntact, TypeOK, Cursors
<1>4. ASSUME k > pk.out
      PROVE  InOutput(k - 1, pk) /\ out[k - 1] = out[k] - 1
  <2>1. InOutput(k - 1, pk) /\ k - 1 \in 0 .. written - 1
    BY <1>1, <1>2, <1>3, <1>4 DEF InOutput, Cursors
  <2>2. out[k - 1] = pk.at + ((k - 1) - pk.out)
    BY <2>1 DEF ChainInv, FramingInv, PacketsIntact
  <2> QED BY <1>2, <1>3, <2>1, <2>2
<1>5. ASSUME NEW last \in pk.at .. out[k]
      PROVE  OctetBits * stream[last].octets \in Nat /\ stream[last].octets \in Nat
  <2>1. last \in Position
    BY <1>1, <1>2, <1>3, GateConstants DEF Position, Cursors
  <2>2. stream[last].octets \in Nat
    BY <1>1, <2>1, ItemFields, GateConstants DEF TypeOK
  <2> QED BY <2>2, OctetArithmetic
<1> QED BY <1>1, <1>2, <1>3, <1>4, <1>5 DEF Cursors

\* From one item to the next: a detection on it starts again, else it is one further
\* from the last.
LEMMA CountersForward ==
  ASSUME ChainInv, ~Wrapped, NEW prev \in Counters,
         NEW pk \in packets, NEW k \in 0 .. written - 1, InOutput(k, pk),
         NEW last \in Nat, Governs(last, pk.at, out[k]),
         k > pk.out /\ Governs(last, pk.at, out[k] - 1) =>
           ReadyFor(prev, OctetBits * stream[last].octets, out[k] - last)
  PROVE  ReadyFor(W!AtItem(prev, k), OctetBits * stream[last].octets, out[k] - last)
<1>1. /\ pk.at \in Nat /\ pk.out \in Nat /\ k \in Nat /\ out[k] \in Nat
      /\ out[k] = pk.at + (k - pk.out)
      /\ last \in pk.at .. out[k]
      /\ stream[last].octets \in Nat
  BY BitsOfFrame DEF Governs
<1>2. W!AtItem(prev, k) = IF HasLength(out[k])
                          THEN W!StartPacket(prev, stream[out[k]].octets) ELSE prev
  <2>1. ChainTypes /\ k < written
    <3>1. written \in Nat
      BY CursorTypes DEF ChainInv, FramingInv, Cursors
    <3> QED BY <1>1, <3>1 DEF ChainInv
  <2> QED BY <1>1, <2>1, CountersAtItem
<1>3. CASE last = out[k]
  <2>1. W!AtItem(prev, k) = W!StartPacket(prev, stream[last].octets)
    BY <1>2, <1>3 DEF Governs
  <2>2. out[k] - last = 0
    BY <1>1, <1>3
  <2> QED BY <1>1, <2>1, <2>2, CountersStart
<1>4. CASE last # out[k]
  <2>1. last < out[k] /\ out[k] \in last + 1 .. out[k]
    BY <1>1, <1>4
  <2>2. W!AtItem(prev, k) = prev
    BY <1>2, <2>1 DEF Governs
  <2>3. k > pk.out
    BY <1>1, <2>1
  <2>4. Governs(last, pk.at, out[k] - 1)
    <3>1. last \in pk.at .. out[k] - 1
      BY <1>1, <2>1
    <3>2. \A q \in last + 1 .. out[k] - 1 : q \in last + 1 .. out[k]
      BY <1>1
    <3> QED BY <3>1, <3>2 DEF Governs
  <2> QED BY <2>2, <2>3, <2>4
<1> QED BY <1>3, <1>4

\* A call of work treats every bit as its detection wants.
LEMMA WhitenCall ==
  ASSUME ChainInv, WhiteInv, WhitenStep
  PROVE  WhiteInv'
<1>1. PICK n \in 1 .. written - drained :
         LET at == W!ItemStates(n)
         IN  /\ white' = [k \in 0 .. drained + n - 1 |->
                            IF k < drained THEN white[k] ELSE W!Applied(at[k - drained])]
             /\ state' = W!AfterItem(at[n - 1])
             /\ drained' = drained + n
  BY DEF WhitenStep, W!Whiten
<1>2. UNCHANGED <<stream, read, out, written, packets>>
  BY DEF WhitenStep, W!Whiten, input
<1>3. TypeOK /\ Cursors /\ ChainTypes
  BY CursorTypes DEF ChainInv, FramingInv
<1>4. n \in Nat /\ n > 0 /\ drained \in Nat /\ written \in Nat /\ drained + n <= written
  BY <1>3 DEF Cursors
<1>5. PICK at :
        /\ white' = [k \in 0 .. drained + n - 1 |->
                       IF k < drained THEN white[k] ELSE W!Applied(at[k - drained])]
        /\ state' = W!AfterItem(at[n - 1])
        /\ drained' = drained + n
        /\ \A i \in 0 .. n - 1 : at[i] \in Counters
        /\ at[0] = W!AtItem(state, drained)
        /\ \A i \in 1 .. n - 1 : at[i] = W!AtItem(W!AfterItem(at[i - 1]), drained + i)
  <2>1. state \in Counters
    BY DEF WhiteInv
  <2> HIDE DEF Counters
  <2> QED BY <1>1, <1>3, <1>4, <2>1, CountersOfItems
<1>6. state' \in Counters
  <2>1. n - 1 \in 0 .. n - 1
    BY <1>4
  <2> HIDE DEF Counters
  <2> QED BY <1>5, <2>1, CountersAdvance
<1> DEFINE Ready(i) ==
      \A pk \in packets, last \in Nat :
        InOutput(drained + i, pk) /\ Governs(last, pk.at, out[drained + i]) =>
          ReadyFor(at[i], OctetBits * stream[last].octets, out[drained + i] - last)
<1>7. ASSUME ~Wrapped, NEW i \in 0 .. n - 1
      PROVE  Ready(i)
  <2> DEFINE S == {j \in Nat : j < n => Ready(j)}
  <2>1. 0 \in S
    <3> SUFFICES ASSUME NEW pk \in packets, NEW last \in Nat, InOutput(drained + 0, pk),
                        Governs(last, pk.at, out[drained + 0])
                 PROVE  ReadyFor(at[0], OctetBits * stream[last].octets,
                                 out[drained + 0] - last)
      OBVIOUS
    <3>1. drained + 0 = drained /\ drained \in 0 .. written - 1
      BY <1>4
    <3>2. InOutput(drained, pk) /\ Governs(last, pk.at, out[drained])
      BY <3>1
    <3>3. ASSUME drained > pk.out, Governs(last, pk.at, out[drained] - 1)
          PROVE  ReadyFor(state, OctetBits * stream[last].octets, out[drained] - last)
      <4>1. /\ InOutput(drained - 1, pk) /\ out[drained - 1] = out[drained] - 1
            /\ out[drained] \in Nat /\ pk.out \in Nat
        BY <3>1, <3>2, <3>3, BitsOfFrame
      <4>2. drained > 0
        BY <1>4, <3>3, <4>1
      <4>3. ReadyFor(state, OctetBits * stream[last].octets, out[drained - 1] - last + 1)
        BY <1>7, <3>3, <4>1, <4>2 DEF WhiteInv, ReadyForNext
      <4>4. out[drained - 1] - last + 1 = out[drained] - last
        BY <4>1
      <4> QED BY <4>3, <4>4
    <3>4. state \in Counters
      BY DEF WhiteInv
    <3> HIDE DEF Counters
    <3>5. ReadyFor(W!AtItem(state, drained), OctetBits * stream[last].octets,
                   out[drained] - last)
      BY <1>7, <3>1, <3>2, <3>3, <3>4, CountersForward
    <3> QED BY <1>5, <3>1, <3>5
  <2>2. ASSUME NEW j \in S PROVE j + 1 \in S
    <3>1. j \in Nat /\ j + 1 \in Nat
      OBVIOUS
    <3> SUFFICES ASSUME j + 1 < n, NEW pk \in packets, NEW last \in Nat,
                        InOutput(drained + (j + 1), pk),
                        Governs(last, pk.at, out[drained + (j + 1)])
                 PROVE  ReadyFor(at[j + 1], OctetBits * stream[last].octets,
                                 out[drained + (j + 1)] - last)
      BY <3>1
    <3>2. PICK k \in Nat : k = drained + (j + 1)
      BY <1>4, <3>1
    <3>3. k \in 0 .. written - 1 /\ k - 1 = drained + j /\ j \in 0 .. n - 1
          /\ j + 1 \in 1 .. n - 1 /\ (j + 1) - 1 = j
      BY <1>4, <3>1, <3>2
    <3>4. at[j] \in Counters /\ at[j + 1] = W!AtItem(W!AfterItem(at[j]), k)
      <4> HIDE DEF Counters
      <4> QED BY <1>5, <3>2, <3>3
    <3>5. ASSUME k > pk.out, Governs(last, pk.at, out[k] - 1)
          PROVE  ReadyFor(W!AfterItem(at[j]), OctetBits * stream[last].octets, out[k] - last)
      <4>1. /\ InOutput(k - 1, pk) /\ out[k - 1] = out[k] - 1 /\ out[k] \in Nat
            /\ \A l \in pk.at .. out[k] : OctetBits * stream[l].octets \in Nat
            /\ pk.at \in Nat
        BY <3>2, <3>3, <3>5, BitsOfFrame
      <4>2. Ready(j)
        BY <1>4, <3>1, <3>3
      <4>3. ReadyFor(at[j], OctetBits * stream[last].octets, out[k - 1] - last)
        BY <3>3, <3>5, <4>1, <4>2
      <4>4. /\ out[k - 1] - last \in Nat /\ (out[k - 1] - last) + 1 = out[k] - last
            /\ OctetBits * stream[last].octets \in Nat
        <5>1. last \in pk.at .. out[k] - 1
          BY <3>5 DEF Governs
        <5>2. last \in pk.at .. out[k]
          BY <4>1, <5>1
        <5> QED BY <4>1, <5>1, <5>2
      <4> HIDE DEF Counters
      <4> QED BY <3>4, <4>3, <4>4, CountersAdvance
    <3>6. W!AfterItem(at[j]) \in Counters
      <4> HIDE DEF Counters
      <4> QED BY <3>4, CountersAdvance
    <3>7. InOutput(k, pk) /\ Governs(last, pk.at, out[k])
      BY <3>2
    <3> HIDE DEF Counters
    <3>8. ReadyFor(W!AtItem(W!AfterItem(at[j]), k), OctetBits * stream[last].octets,
                   out[k] - last)
      BY <1>7, <3>3, <3>5, <3>6, <3>7, CountersForward
    <3> QED BY <3>2, <3>4, <3>8
  <2>3. S \in SUBSET Nat
    OBVIOUS
  <2>4. S = Nat
    <3> HIDE DEF S
    <3> QED BY <2>1, <2>2, <2>3, SetInduction
  <2>5. i \in Nat /\ i < n
    BY <1>4
  <2> HIDE DEF Ready
  <2> QED BY <2>4, <2>5
<1>8. ASSUME ~Wrapped, NEW i \in 0 .. n - 1, NEW pk \in packets, NEW last \in Nat,
             InOutput(drained + i, pk), Governs(last, pk.at, out[drained + i])
      PROVE  /\ W!Applied(at[i]) = Pn9Index(last, out[drained + i])
             /\ ReadyFor(W!AfterItem(at[i]), OctetBits * stream[last].octets,
                         out[drained + i] - last + 1)
  <2>1. PICK k \in Nat : k = drained + i
    BY <1>4
  <2>2. k \in 0 .. written - 1
    BY <1>4, <2>1
  <2>3. /\ pk.at \in Nat /\ out[k] \in Nat
        /\ \A l \in pk.at .. out[k] : OctetBits * stream[l].octets \in Nat
    BY <1>8, <2>1, <2>2, BitsOfFrame
  <2>4. last \in pk.at .. out[k]
    BY <1>8, <2>1 DEF Governs
  <2>5. PICK bit \in Nat : bit = out[k] - last
    BY <2>3, <2>4
  <2>6. PICK size \in Nat : size = OctetBits * stream[last].octets
    BY <2>3, <2>4
  <2>7. at[i] \in Counters
    <3> HIDE DEF Counters
    <3> QED BY <1>5
  <2>8. ReadyFor(at[i], size, bit)
    <3>1. Ready(i)
      BY <1>7, <1>8
    <3> QED BY <1>8, <2>1, <2>5, <2>6, <3>1
  <2>9. /\ ReadyFor(W!AfterItem(at[i]), size, bit + 1)
        /\ W!Applied(at[i]) = IF bit \in HeaderBits .. size - 1
                              THEN bit - HeaderBits + 1 ELSE 0
    <3> HIDE DEF Counters
    <3> QED BY <2>7, <2>8, CountersAdvance
  <2> QED BY <2>1, <2>5, <2>6, <2>9 DEF Pn9Index
<1> HIDE DEF Ready
<1>10. \A s, size, bit : ReadyFor(s, size, bit)' <=> ReadyFor(s, size, bit)
  BY DEF ReadyFor
<1>9. ASSUME ~Wrapped', NEW pk \in packets', NEW last \in Nat
      PROVE  TreatedRight(pk, last)' /\ ReadyForNext(pk, last)'
  <2>1. ~Wrapped /\ pk \in packets
    BY <1>2, <1>9 DEF Wrapped
  <2>2. \A p : /\ Governs(last, pk.at, p)' <=> Governs(last, pk.at, p)
               /\ Pn9Index(last, p)' = Pn9Index(last, p)
               /\ InOutput(p, pk)' <=> InOutput(p, pk)
    BY <1>2 DEF Governs, Pn9Index, InOutput, PacketBits, HasLength
  <2>3. ASSUME NEW k \in 0 .. drained' - 1, InOutput(k, pk), Governs(last, pk.at, out[k])
        PROVE  white'[k] = Pn9Index(last, out[k])
    <3>0. k \in 0 .. drained + n - 1 /\ k \in Nat
      BY <1>4, <1>5
    <3>1. CASE k < drained
      <4>1. k \in 0 .. drained - 1
        BY <1>4, <3>0, <3>1
      <4>2. white[k] = Pn9Index(last, out[k])
        BY <2>1, <2>3, <4>1 DEF WhiteInv, TreatedRight
      <4> QED BY <1>5, <3>0, <3>1, <4>2
    <3>2. CASE ~(k < drained)
      <4>1. PICK i \in 0 .. n - 1 : k = drained + i /\ i = k - drained
        BY <1>4, <3>0, <3>2
      <4>2. W!Applied(at[i]) = Pn9Index(last, out[k])
        BY <1>8, <2>1, <2>3, <4>1
      <4>3. white'[k] = W!Applied(at[k - drained])
        BY <1>5, <3>0, <3>2
      <4> QED BY <4>1, <4>2, <4>3
    <3> QED BY <3>1, <3>2
  <2>4. ASSUME InOutput(drained' - 1, pk), Governs(last, pk.at, out[drained' - 1])
        PROVE  ReadyFor(state', OctetBits * stream[last].octets,
                        out[drained' - 1] - last + 1)
    <3>1. n - 1 \in 0 .. n - 1 /\ drained' - 1 = drained + (n - 1)
      BY <1>4, <1>5
    <3>2. ReadyFor(W!AfterItem(at[n - 1]), OctetBits * stream[last].octets,
                   out[drained + (n - 1)] - last + 1)
      BY <1>8, <2>1, <2>4, <3>1
    <3> QED BY <1>5, <3>1, <3>2
  <2>5. TreatedRight(pk, last)'
    BY <1>2, <2>2, <2>3 DEF TreatedRight
  <2>6. ReadyForNext(pk, last)'
    BY <1>2, <1>10, <2>2, <2>4 DEF ReadyForNext
  <2> QED BY <2>5, <2>6
<1> HIDE DEF Counters
<1> QED BY <1>6, <1>9 DEF WhiteInv

\* The other blocks leave what it has done alone.
LEMMA WhitenWaits ==
  ASSUME ChainInv, WhiteInv, [Next]_vars, UNCHANGED <<white, state, drained>>
  PROVE  WhiteInv'
<1>1. /\ stream' = stream /\ read - written <= read' - written'
      /\ \A k \in 0 .. written - 1 : out'[k] = out[k]
      /\ \A pk \in packets' \ packets : pk.out = written
  BY GateProgress DEF ChainInv
<1>2. TypeOK /\ Cursors /\ Cursors'
  <2>1. TypeOK /\ TypeOK'
    BY TypeStep DEF ChainInv, FramingInv
  <2>2. TypeOK => Cursors
    BY CursorTypes
  <2>3. TypeOK' => Cursors'
    BY CursorTypes, PTL
  <2> QED BY <2>1, <2>2, <2>3
<1>3. drained <= written /\ drained \in Nat /\ written \in Nat
  BY <1>2 DEF TypeOK, Cursors
<1>4. ~Wrapped' => ~Wrapped
  <2>1. PICK r \in Nat, w \in Nat : read' = r /\ written' = w
    BY <1>2 DEF Cursors
  <2>2. read - written <= r - w
    BY <1>1, <2>1
  <2>3. read \in Nat /\ written \in Nat /\ IntHalf \in Nat
    BY <1>2, GateConstants DEF Cursors
  <2>4. read - written >= IntHalf => r - w >= IntHalf
    BY <2>2, <2>3
  <2> QED BY <2>1, <2>4 DEF Wrapped
<1>6. \A s, size, bit : ReadyFor(s, size, bit)' <=> ReadyFor(s, size, bit)
  BY DEF ReadyFor
<1>5. ASSUME ~Wrapped', NEW pk \in packets', NEW last \in Nat
      PROVE  TreatedRight(pk, last)' /\ ReadyForNext(pk, last)'
  <2>1. \A p : /\ Governs(last, pk.at, p)' <=> Governs(last, pk.at, p)
               /\ Pn9Index(last, p)' = Pn9Index(last, p)
               /\ InOutput(p, pk)' <=> InOutput(p, pk)
    BY <1>1 DEF Governs, Pn9Index, InOutput, PacketBits, HasLength
  <2>2. \A k \in 0 .. drained - 1 : k \in 0 .. written - 1 /\ out'[k] = out[k] /\ k < written
    BY <1>1, <1>3
  <2>3. drained > 0 => drained - 1 \in 0 .. drained - 1
    BY <1>3
  <2>4. CASE pk \in packets
    <3>1. TreatedRight(pk, last) /\ ReadyForNext(pk, last)
      BY <1>4, <1>5, <2>4 DEF WhiteInv
    <3>2. ASSUME NEW k \in 0 .. drained - 1, InOutput(k, pk), Governs(last, pk.at, out'[k])
          PROVE  white[k] = Pn9Index(last, out'[k])
      BY <2>2, <3>1, <3>2 DEF TreatedRight
    <3>3. ASSUME drained > 0, InOutput(drained - 1, pk), Governs(last, pk.at, out'[drained - 1])
          PROVE  ReadyFor(state, OctetBits * stream[last].octets, out'[drained - 1] - last + 1)
      <4>1. out'[drained - 1] = out[drained - 1]
        BY <2>2, <2>3, <3>3
      <4> QED BY <3>1, <3>3, <4>1 DEF ReadyForNext
    <3>4. TreatedRight(pk, last)'
      BY <2>1, <3>2 DEF TreatedRight
    <3>5. ReadyForNext(pk, last)'
      BY <1>1, <1>6, <2>1, <3>3 DEF ReadyForNext
    <3> QED BY <3>4, <3>5
  <2>5. CASE pk \notin packets
    <3>1. pk.out = written
      BY <1>1, <2>5
    <3>2. \A k \in 0 .. drained - 1 : ~InOutput(k, pk)
      BY <1>3, <2>2, <3>1 DEF InOutput
    <3> QED BY <2>1, <2>3, <3>2 DEF TreatedRight, ReadyForNext
  <2> QED BY <2>4, <2>5
<1>7. state' \in Counters
  BY DEF WhiteInv
<1> HIDE DEF Counters
<1> QED BY <1>5, <1>7 DEF WhiteInv

LEMMA WhiteStep == ChainInv /\ WhiteInv /\ [FramingNext]_allVars => WhiteInv'
<1> SUFFICES ASSUME ChainInv, WhiteInv, [FramingNext]_allVars PROVE WhiteInv'
  OBVIOUS
<1>1. CASE WhitenStep
  BY <1>1, WhitenCall
<1>2. CASE GateStep \/ Pack \/ Assemble \/ Throw \/ UNCHANGED allVars
  <2>1. UNCHANGED <<white, state, drained>>
    BY <1>2 DEF GateStep, Arrive, Work, DiscardAll, OpenPacket, Copy, Pack, Assemble, Throw,
                allVars, vars, whitening
  <2> QED BY <2>1, WhitenWaits, ChainStepIsGateStep
<1> QED BY <1>1, <1>2 DEF FramingNext

\* The de-whitening keeps step with the frames in every reachable state.
THEOREM WhiteningCorrect == FramingSpec => []WhiteInv
<1>1. FramingInit => WhiteInv
  <2> SUFFICES ASSUME FramingInit PROVE WhiteInv
    OBVIOUS
  <2>1. drained = 0 /\ packets = {} /\ state \in Counters
    BY DEF FramingInit, Init, W!InitWhitening, Counters
  <2> HIDE DEF Counters
  <2> QED BY <2>1 DEF WhiteInv
<1> QED BY <1>1, WhiteStep, ChainCorrect, PTL DEF FramingSpec

\* In a frame there is always a last detection: the one it starts with, if no later.
LEMMA SomeDetectionGoverns ==
  ASSUME NEW at \in Nat, HasLength(at), NEW j \in Nat
  PROVE  \E last \in at .. at + j : Governs(last, at, at + j)
<1> DEFINE S == {q \in at .. at + j : HasLength(q)}
<1>1. S \in SUBSET Nat /\ at \in S /\ \A q \in S : q <= at + j
  OBVIOUS
<1>2. PICK last \in S : \A q \in S : q <= last
  <2>1. at + j \in Nat
    OBVIOUS
  <2> HIDE DEF S
  <2> QED BY <1>1, <2>1, GreatestNatural
<1>3. ASSUME NEW q \in last + 1 .. at + j PROVE ~HasLength(q)
  <2>1. last \in Nat /\ q \in Nat /\ q > last /\ at <= last
    OBVIOUS
  <2>2. q \in at .. at + j
    BY <2>1
  <2>3. q \notin S
    <3> HIDE DEF S
    <3> QED BY <1>2, <2>1
  <2> QED BY <2>2, <2>3
<1> QED BY <1>3 DEF Governs

\* Every bit of a PDU is de-whitened as the last detection in its frame wants.
THEOREM PdusAreDewhitened == FramingSpec => []PdusDewhitened
<1>1. ChainInv /\ WhiteInv => PdusDewhitened
  <2> SUFFICES ASSUME ChainInv, WhiteInv, read - written < IntHalf, NEW i \in DOMAIN pdus,
                      NEW j \in 0 .. OctetBits * FrameOf(pdus[i]).octets - 1
               PROVE  LET fr == FrameOf(pdus[i])
                      IN  \E last \in fr.at .. fr.at + j :
                            /\ Governs(last, fr.at, fr.at + j)
                            /\ white[OctetBits * pdus[i].from + j] = Pn9Index(last, fr.at + j)
    BY DEF PdusDewhitened
  <2>1. ~Wrapped /\ Cursors
    <3>1. Cursors
      BY CursorTypes DEF ChainInv, FramingInv
    <3> QED BY <3>1, GateConstants DEF Wrapped, Cursors
  <2>2. i \in 1 .. Len(pdus)
    BY DEF ChainInv, PdusInARow
  <2>3. PICK pk \in packets : PduIsFrame(i, pk)
    BY <2>1, <2>2 DEF ChainInv, PdusOnFrames
  <2>4. /\ FrameOf(pdus[i]) = [at |-> pk.at, octets |-> stream[pk.at].octets]
        /\ HasLength(pk.at) /\ pk.at \in Nat
        /\ \A b \in 0 .. OctetBits * pdus[i].octets - 1 :
             out[OctetBits * pdus[i].from + b] = pk.at + b
    BY <2>2, <2>3, PduHasFrameBits
  <2>5. /\ OctetBits * pdus[i].from = pk.out /\ OctetBits * pdus[i].octets = PacketBits(pk)
        /\ FrameOf(pdus[i]).octets = pdus[i].octets
    BY <2>3, <2>4 DEF PduIsFrame, PacketBits
  <2>6. /\ pk.out \in Nat /\ PacketBits(pk) \in Nat
        /\ pk.out + PacketBits(pk) <= drained /\ drained \in Nat
    <3>1. /\ OctetBits * pdus[i].from \in Nat /\ OctetBits * pdus[i].octets \in Nat
          /\ OctetBits * pdus[i].from + OctetBits * pdus[i].octets <= drained
      BY <2>2, PduInOutput
    <3> QED BY <2>1, <2>5, <3>1 DEF Cursors
  <2>7. j \in Nat /\ j \in 0 .. PacketBits(pk) - 1
    BY <2>5, <2>6
  <2>8. pk.out + j \in 0 .. drained - 1 /\ InOutput(pk.out + j, pk) /\ out[pk.out + j] = pk.at + j
    BY <2>4, <2>5, <2>6, <2>7 DEF InOutput
  <2>9. PICK last \in pk.at .. pk.at + j : Governs(last, pk.at, pk.at + j)
    BY <2>4, <2>7, SomeDetectionGoverns
  <2>10. last \in Nat
    BY <2>4, <2>9
  <2>11. white[pk.out + j] = Pn9Index(last, pk.at + j)
    BY <2>1, <2>8, <2>9, <2>10 DEF WhiteInv, TreatedRight
  <2> QED BY <2>4, <2>5, <2>9, <2>11
<1> QED BY <1>1, ChainCorrect, WhiteningCorrect, PTL

-----------------------------------------------------------------------------
(***************************************************************************)
(* The RSSI of a PDU.                                                      *)
(***************************************************************************)

\* The gate puts the RSSI of a frame on an item of the frame that is not behind
\* the reading.
RssiEarly ==
  \A pk \in packets : \A t \in TagsOn("packet-rssi", pk) :
    \E p \in pk.at .. read - 1 :
      /\ InPacket(p, pk) /\ SecondReading(pk, p) /\ t.val = stream[p].rssi
      /\ t.off - pk.out <= p - pk.at

LEMMA RssiEarlyStep ==
  ASSUME RssiInv, RssiEarly, [Next]_vars
  PROVE  RssiEarly'
<1>1. /\ stream' = stream /\ packets \subseteq packets' /\ tags \subseteq tags'
      /\ \A pk \in packets' \ packets : pk.out = written
  BY GateProgress DEF RssiInv
<1>2. TypeOK /\ Cursors
  BY CursorTypes DEF RssiInv, FramingInv
<1>3. Cursors' /\ read <= read'
  <2>1. TypeOK'
    BY <1>2, TypeStep
  <2>2. Cursors'
    BY <2>1, CursorTypes, PTL
  <2>3. read - written <= read' - written' /\ written <= written'
    BY GateProgress DEF RssiInv
  <2>4. PICK r \in Nat, w \in Nat : read' = r /\ written' = w
    BY <2>2 DEF Cursors
  <2> QED BY <1>2, <2>2, <2>3, <2>4 DEF Cursors
<1>4. \A pk, p : /\ SecondReading(pk, p)' <=> SecondReading(pk, p)
                 /\ InPacket(p, pk)' <=> InPacket(p, pk)
                 /\ InOutput(p, pk)' <=> InOutput(p, pk)
  BY <1>1 DEF SecondReading, ReadingsBefore, HasReading, InPacket, InOutput, PacketBits
<1>5. ASSUME NEW pk \in packets', NEW t \in tags', t.key = "packet-rssi", InOutput(t.off, pk)
      PROVE  \E p \in pk.at .. read' - 1 :
               /\ InPacket(p, pk) /\ SecondReading(pk, p) /\ t.val = stream[p].rssi
               /\ t.off - pk.out <= p - pk.at
  <2>1. CASE t \in tags /\ pk \in packets
    <3>1. PICK p \in pk.at .. read - 1 :
            /\ InPacket(p, pk) /\ SecondReading(pk, p) /\ t.val = stream[p].rssi
            /\ t.off - pk.out <= p - pk.at
      BY <1>5, <2>1 DEF RssiEarly, TagsOn
    <3>2. pk.at \in Nat
      BY <1>2, <2>1, PacketFacts
    <3>3. p \in pk.at .. read' - 1
      BY <1>2, <1>3, <3>1, <3>2 DEF Cursors
    <3> QED BY <3>1, <3>3
  <2>2. CASE t \in tags /\ pk \notin packets
    <3>1. pk.out = written /\ t.off < written /\ t.off \in Nat
      BY <1>1, <1>2, <1>5, <2>2 DEF RssiInv, OwnTagsBehind, TypeOK
    <3> QED BY <1>2, <1>5, <3>1 DEF InOutput, Cursors
  <2>3. CASE t \notin tags
    <3>1. PICK n \in Nat : Copied(n)
      <4>1. ~(tags' \subseteq tags)
        BY <2>3
      <4>2. (\E ninput \in Nat : DiscardAll(ninput) \/ OpenPacket(ninput)) => tags' = tags
        BY DEF DiscardAll, OpenPacket, output
      <4>3. Arrive \/ Drain \/ UNCHANGED vars => tags' = tags
        BY DEF Arrive, Drain, vars, output
      <4> QED BY <1>2, <4>1, <4>2, <4>3, StepCases
    <3>2. PICK cur \in packets : Current(cur)
      <4>1. remaining > 0
        BY <1>2, <3>1 DEF Copied, Cursors
      <4> QED BY <4>1 DEF RssiInv, FramingInv, FramesInOrder
    <3>3. /\ CopyIn(n, cur) /\ RegistersTell(cur) /\ packets' = packets
          /\ read' = read + n /\ tags' = tags \cup Propagated(n) \cup RssiTags(n)
      BY <3>1, <3>2, CopyFacts
    <3>4. PICK p \in RssiSource(n) : t = Tag(written, "packet-rssi", stream[p].rssi)
      BY <1>5, <2>3, <3>3, NewOwnTags
    <3>5. t.off = written /\ t.val = stream[p].rssi
      BY <3>4 DEF Tag
    <3>6. pk = cur
      <4> SUFFICES ASSUME pk # cur PROVE FALSE
        OBVIOUS
      <4>1. Finished(pk)
        BY <3>2, <3>3, OthersFinished DEF RssiInv
      <4>2. pk.out \in Nat /\ PacketBits(pk) \in Nat
        BY <1>2, <3>3, PacketFacts
      <4> QED BY <1>2, <1>5, <3>5, <4>1, <4>2 DEF Finished, InOutput, Cursors
    <3>7. p \in Nat /\ p \in Window(n) /\ SecondReading(cur, p)
      <4>1. p \in Nat
        BY <3>3, CopyWindow DEF RssiSource
      <4> QED BY <3>3, <4>1, SourceIsSecond DEF RegistersTell
    <3>8. read <= p /\ p < read + n /\ InPacket(p, cur)
      BY <3>3, <3>7, CopyWindow
    <3>9. t.off - cur.out <= p - cur.at /\ p \in cur.at .. read' - 1
      BY <3>3, <3>5, <3>7, <3>8 DEF CopyIn
    <3> QED BY <3>5, <3>6, <3>7, <3>8, <3>9
  <2> QED BY <2>1, <2>2, <2>3
<1> QED BY <1>1, <1>4, <1>5 DEF RssiEarly, TagsOn

\* A PDU that is a frame carries the frame's RSSI, if the reading is not too near
\* the end.
SecondInTime(pk, p) ==
  /\ InPacket(p, pk) /\ SecondReading(pk, p)
  /\ 2 * (p - pk.at) < 2 * PacketBits(pk) - OctetBits
PdusCarryRssi ==
  \A i \in 1 .. Len(pdus), pk \in packets :
    PduIsFrame(i, pk) =>
      \A p \in Nat : SecondInTime(pk, p) => pdus[i].rssi = stream[p].rssi

\* Of the tags on the octets of a frame, the last is that of its RSSI.
LEMMA LastIsOwnRssi ==
  ASSUME ChainInv, RssiInv, RssiEarly, packedOctets > taken,
         NEW pk \in packets, NEW octets \in Nat,
         octets = stream[pk.at].octets, pk.out = OctetBits * taken,
         taken + octets <= packedOctets, NEW p \in Nat, SecondInTime(pk, p)
  PROVE  LET rssis == TagsAt("packet-rssi", taken .. taken + octets - 1)
         IN  rssis # {} /\ LastPut(rssis).val = stream[p].rssi
<1> DEFINE rssis == TagsAt("packet-rssi", taken .. taken + octets - 1)
           end == OctetBits * (taken + octets)
<1>1. TypeOK /\ Cursors /\ ChainTypes /\ TagsMoved
  BY CursorTypes DEF ChainInv, FramingInv
<1>2. /\ pk.at \in Nat /\ pk.out \in Nat /\ PacketBits(pk) \in Nat
      /\ OctetBits \in Nat /\ OctetBits > 0 /\ taken \in Nat /\ packedOctets \in Nat
      /\ whiteDrained \in Nat
  BY <1>1, PacketFacts, GateConstants DEF ChainTypes
<1>3. end = pk.out + PacketBits(pk) /\ end \in Nat /\ end <= whiteDrained
  <2>1. end = OctetBits * taken + OctetBits * octets
    BY <1>2, OctetArithmetic
  <2>2. end \in Nat
    BY <1>2
  <2>3. end <= OctetBits * packedOctets
    <3>1. taken + octets \in Nat
      BY <1>2
    <3> QED BY <1>2, <3>1, OctetArithmetic
  <2> HIDE DEF end
  <2> QED BY <1>1, <2>1, <2>2, <2>3 DEF PacketBits, ChainTypes
<1>4. whiteDrained <= written /\ pk.at + PacketBits(pk) <= read
  <2>1. whiteDrained <= drained /\ drained <= written /\ drained \in Nat /\ written \in Nat
    BY <1>1 DEF ChainTypes, TypeOK, Cursors
  <2>2. pk.out + PacketBits(pk) <= written
    <3> HIDE DEF end
    <3> QED BY <1>2, <1>3, <2>1
  <2>3. Finished(pk) \/ Current(pk)
    BY DEF ChainInv, FramingInv, FramesInOrder
  <2> QED BY <1>1, <1>2, <2>1, <2>2, <2>3 DEF Finished, Current, Cursors
<1> HIDE DEF end
\* What makes a tag one of those on the octets.
<1>5. ASSUME NEW off \in Nat
      PROVE  /\ Rescaled(off) < taken + octets <=> 2 * off + OctetBits < 2 * end
             /\ off >= pk.out => Rescaled(off) >= taken
             /\ Rescaled(off) \in Nat
  <2>1. PICK m \in Nat : m = Rescaled(off)
    BY RescaledIsNearest
  <2>2. /\ 2 * (OctetBits * m) <= 2 * off + OctetBits
        /\ 2 * off < 2 * (OctetBits * m) + OctetBits
        /\ OctetBits * m \in Nat
    BY <1>2, <2>1, RescaledIsNearest
  <2>3. m < taken + octets <=> 2 * off + OctetBits < 2 * end
    <3>1. m + 1 \in Nat /\ taken + octets \in Nat /\ OctetBits * (m + 1) = OctetBits * m + OctetBits
      BY <1>2
    <3>2. m < taken + octets => OctetBits * m + OctetBits <= end
      <4>1. m < taken + octets => m + 1 <= taken + octets
        BY <1>2
      <4>2. m + 1 <= taken + octets => OctetBits * (m + 1) <= OctetBits * (taken + octets)
        BY <3>1, OctetArithmetic
      <4> QED BY <3>1, <4>1, <4>2 DEF end
    <3>3. ~(m < taken + octets) => end <= OctetBits * m
      <4>1. ~(m < taken + octets) => taken + octets <= m
        BY <1>2
      <4>2. taken + octets <= m => OctetBits * (taken + octets) <= OctetBits * m
        BY <3>1, OctetArithmetic
      <4> QED BY <4>1, <4>2 DEF end
    <3> QED BY <1>2, <1>3, <2>2, <3>2, <3>3
  <2>4. off >= pk.out => m >= taken
    <3>1. m < taken => OctetBits * m + OctetBits <= pk.out
      <4>1. m < taken => m + 1 <= taken
        BY <1>2
      <4>2. m + 1 \in Nat /\ OctetBits * (m + 1) = OctetBits * m + OctetBits
        BY <1>2
      <4>3. m + 1 <= taken => OctetBits * (m + 1) <= OctetBits * taken
        BY <1>2, <4>2, OctetArithmetic
      <4> QED BY <4>1, <4>2, <4>3
    <3> QED BY <1>2, <2>2, <3>1
  <2> QED BY <2>1, <2>3, <2>4
\* The frame's own tag is one of them.
<1>6. PICK t \in TagsOn("packet-rssi", pk) : t.val = stream[p].rssi
  <2>1. p \in {q \in pk.at .. read - 1 : InPacket(q, pk) /\ SecondReading(pk, q)}
    BY <1>1, <1>2, <1>4 DEF SecondInTime, InPacket, Cursors
  <2>2. {s.val : s \in TagsOn("packet-rssi", pk)} =
          {stream[q].rssi : q \in {x \in pk.at .. read - 1 :
                                     InPacket(x, pk) /\ SecondReading(pk, x)}}
    BY DEF RssiInv, PacketRssiIsSecondReading
  <2> QED BY <2>1, <2>2
<1>7. t \in tags /\ t.key = "packet-rssi" /\ InOutput(t.off, pk) /\ t.off \in Nat
  BY <1>1 DEF TagsOn, TypeOK
<1>8. 2 * t.off + OctetBits < 2 * end
  <2>1. PICK q \in pk.at .. read - 1 :
          SecondReading(pk, q) /\ t.off - pk.out <= q - pk.at
    BY <1>6 DEF RssiEarly
  <2>2. q \in Nat /\ q = p
    <3>1. q \in Nat
      BY <1>1, <1>2 DEF Cursors
    <3> QED BY <1>2, <2>1, <3>1, OneSecondReading DEF SecondInTime
  <2> QED BY <1>2, <1>3, <1>7, <2>1, <2>2 DEF SecondInTime
<1>9. Moved(t) \in rssis /\ Moved(t).seq = t.off
  <2>1. Rescaled(t.off) \in taken .. taken + octets - 1
    BY <1>2, <1>5, <1>7, <1>8 DEF InOutput
  <2>2. t.off < whiteDrained
    BY <1>2, <1>3, <1>7, <1>8
  <2>3. Moved(t) \in packedTags
    BY <1>1, <1>7, <2>2 DEF TagsMoved
  <2>4. Moved(t).key = "packet-rssi" /\ Moved(t).off = Rescaled(t.off) /\ Moved(t).seq = t.off
    BY <1>7 DEF Moved
  <2> QED BY <2>1, <2>3, <2>4 DEF TagsAt
\* The others come from before the frame.
<1>10. ASSUME NEW u \in rssis, u.seq >= pk.out
       PROVE  u.val = stream[p].rssi
  <2>1. PICK s \in tags : u = Moved(s)
    BY <1>1 DEF TagsAt, TagsMoved
  <2>2. /\ s.key = "packet-rssi" /\ s.off = u.seq /\ s.val = u.val
        /\ Rescaled(s.off) \in taken .. taken + octets - 1 /\ s.off \in Nat
    BY <1>1, <2>1 DEF TagsAt, Moved, TypeOK
  <2> HIDE DEF rssis
  <2>3. 2 * s.off + OctetBits < 2 * end
    <3>1. PICK o \in Nat : o = s.off
      BY <2>2
    <3>2. Rescaled(o) < taken + octets
      BY <1>2, <2>2, <3>1
    <3> QED BY <1>5, <3>1, <3>2
  <2>4. InOutput(s.off, pk)
    <3>1. PICK o \in Nat : o = s.off
      BY <2>2
    <3>2. o >= pk.out /\ 2 * o + OctetBits < 2 * end
      BY <1>10, <2>2, <2>3, <3>1
    <3>3. o \in pk.out .. pk.out + PacketBits(pk) - 1
      BY <1>2, <1>3, <3>2
    <3> QED BY <3>1, <3>3 DEF InOutput
  <2>5. s = t
    BY <1>6, <2>2, <2>4 DEF RssiInv, PacketRssiIsSecondReading, TagsOn
  <2> QED BY <1>6, <2>2, <2>5
<1>11. /\ rssis \in SUBSET packedTags /\ rssis # {}
  BY <1>9 DEF TagsAt
<1> HIDE DEF rssis
<1>12. LastPut(rssis) \in rssis /\ Moved(t).seq <= LastPut(rssis).seq
  BY <1>1, <1>9, <1>11, LastPutIsLast
<1>13. LastPut(rssis).seq >= pk.out
  <2>1. LastPut(rssis).seq \in Nat
    BY <1>1, <1>11, <1>12 DEF TagsMoved, Moved, ChainTypes
  <2> QED BY <1>2, <1>7, <1>9, <1>12, <2>1 DEF InOutput
<1>14. rssis # {} /\ LastPut(rssis).val = stream[p].rssi
  BY <1>10, <1>11, <1>12, <1>13
<1> QED BY <1>14 DEF rssis

LEMMA PdusCarryRssiStep ==
  ASSUME ChainInv, RssiInv, RssiEarly, PdusCarryRssi, [FramingNext]_allVars
  PROVE  PdusCarryRssi'
<1>1. /\ stream' = stream
      /\ \A pk \in packets' \ packets : pk.out = written
  BY ChainStepIsGateStep, GateProgress DEF ChainInv
<1>2. \A pk, p : SecondInTime(pk, p)' <=> SecondInTime(pk, p)
  BY <1>1 DEF SecondInTime, SecondReading, ReadingsBefore, HasReading, InPacket, PacketBits
<1>3. CASE Assemble
  <2> DEFINE octets == LastPut(TagsAt("wisun-packet", {taken})).val
             rssis == TagsAt("packet-rssi", taken .. taken + octets - 1)
             pdu == [from |-> taken, octets |-> octets,
                     rssi |-> IF rssis = {} THEN None ELSE LastPut(rssis).val]
             Pdu == [from : Nat, octets : 1 .. MaxOctets, rssi : Levels \cup {None}]
  <2>1. /\ packedOctets > taken /\ packedOctets - taken >= octets
        /\ pdus' = Append(pdus, pdu) /\ packets' = packets
    BY <1>3 DEF Assemble, vars
  <2>2. PICK last \in Nat : last = Len(pdus)
    BY DEF ChainInv, PdusInARow
  <2>3. /\ Len(pdus') = last + 1 /\ pdus'[last + 1] = pdu
        /\ \A i \in 1 .. last : pdus'[i] = pdus[i]
    <3>1. pdus \in Seq(Pdu)
      BY DEF ChainInv, PdusInARow
    <3> HIDE DEF Pdu, pdu
    <3> QED BY <2>1, <2>2, <3>1
  <2>4. pdu.from = taken /\ pdu.octets = octets
        /\ pdu.rssi = IF rssis = {} THEN None ELSE LastPut(rssis).val
    OBVIOUS
  <2>5. ASSUME NEW i \in 1 .. last + 1, NEW pk \in packets, PduIsFrame(i, pk)',
               NEW p \in Nat, SecondInTime(pk, p)
        PROVE  pdus'[i].rssi = stream[p].rssi
    <3>1. CASE i \in 1 .. last
      <4>1. PduIsFrame(i, pk)
        BY <1>1, <2>3, <2>5, <3>1 DEF PduIsFrame
      <4> QED BY <2>2, <2>3, <2>5, <3>1, <4>1 DEF PdusCarryRssi
    <3>2. CASE i = last + 1
      <4>1. OctetBits * taken = pk.out /\ octets = stream[pk.at].octets
        <5> HIDE DEF pdu, octets
        <5> QED BY <1>1, <2>3, <2>4, <2>5, <3>2 DEF PduIsFrame
      <4>2. stream[pk.at].octets \in Nat
        BY PacketFacts, ItemFields, GateConstants DEF ChainInv, FramingInv, TypeOK
      <4>3. taken \in Nat /\ packedOctets \in Nat
        BY DEF ChainInv, ChainTypes
      <4> HIDE DEF octets
      <4>4. octets \in Nat /\ taken + octets <= packedOctets
        BY <2>1, <4>1, <4>2, <4>3
      <4>5. rssis # {} /\ LastPut(rssis).val = stream[p].rssi
        BY <2>1, <2>5, <4>1, <4>4, LastIsOwnRssi
      <4> HIDE DEF rssis, pdu
      <4> QED BY <2>3, <2>4, <3>2, <4>5
    <3> QED BY <2>2, <2>5, <3>1, <3>2
  <2> HIDE DEF octets, rssis, pdu
  <2> QED BY <1>1, <1>2, <2>1, <2>3, <2>5 DEF PdusCarryRssi
<1>4. CASE GateStep \/ WhitenStep \/ Pack \/ Throw \/ UNCHANGED allVars
  <2>1. pdus' = pdus
    BY <1>4 DEF GateStep, WhitenStep, Pack, Throw, allVars, assembly
  <2>2. \A i, pk : PduIsFrame(i, pk)' <=> PduIsFrame(i, pk)
    BY <1>1, <2>1 DEF PduIsFrame
  <2>3. ASSUME NEW i \in 1 .. Len(pdus), NEW pk \in packets', PduIsFrame(i, pk)
        PROVE  pk \in packets
    <3> SUFFICES ASSUME pk \notin packets PROVE FALSE
      OBVIOUS
    <3>1. OctetBits * pdus[i].from = written
      BY <1>1, <2>3 DEF PduIsFrame
    <3>2. written \in Nat
      BY CursorTypes DEF ChainInv, FramingInv, Cursors
    <3> QED BY <3>1, <3>2, PduInOutput
  <2> QED BY <1>1, <1>2, <2>1, <2>2, <2>3 DEF PdusCarryRssi
<1> QED BY <1>3, <1>4 DEF FramingNext

\* The RSSI tags stay near their readings and the PDUs keep theirs in every
\* reachable state.
THEOREM PdusRssiCorrect == FramingSpec => [](RssiEarly /\ PdusCarryRssi)
<1>1. FramingInit => RssiEarly /\ PdusCarryRssi
  BY DEF FramingInit, Init, RssiEarly, PdusCarryRssi
<1>2. FramingSpec => []RssiInv
  BY ChainRunsGate, RssiCorrect, PTL
<1>3. /\ ChainInv /\ RssiInv /\ RssiEarly /\ PdusCarryRssi
      /\ [FramingNext]_allVars
      => RssiEarly' /\ PdusCarryRssi'
  BY ChainStepIsGateStep, RssiEarlyStep, PdusCarryRssiStep
<1> QED BY <1>1, <1>2, <1>3, ChainCorrect, PTL DEF FramingSpec

\* A PDU carries the second reading of its own frame, whatever calls of work the
\* readings fall into and wherever rounding puts the tags of its neighbours.
THEOREM RssiOfEveryPdu == FramingSpec => []RssiIsOwn
<1>1. ChainInv /\ PdusCarryRssi => RssiIsOwn
  <2> DEFINE Bits(fr) == OctetBits * fr.octets
             InFrame(fr) == {p \in fr.at .. fr.at + Bits(fr) - 1 : HasReading(p)}
             Second(fr) == {p \in InFrame(fr) :
                              \E q \in InFrame(fr) : {r \in InFrame(fr) : r < p} = {q}}
  <2> SUFFICES ASSUME ChainInv, PdusCarryRssi, read - written < IntHalf,
                      NEW i \in DOMAIN pdus,
                      NEW p \in Second(FrameOf(pdus[i])),
                      2 * (p - FrameOf(pdus[i]).at)
                        < 2 * Bits(FrameOf(pdus[i])) - OctetBits
               PROVE  pdus[i].rssi = stream[p].rssi
    BY DEF RssiIsOwn
  <2>1. ~Wrapped /\ TypeOK
    <3>1. Cursors
      BY CursorTypes DEF ChainInv, FramingInv
    <3> QED BY <3>1, GateConstants DEF ChainInv, FramingInv, Wrapped, Cursors
  <2>2. i \in 1 .. Len(pdus)
    BY DEF ChainInv, PdusInARow
  <2>3. PICK pk \in packets : PduIsFrame(i, pk)
    BY <2>1, <2>2 DEF ChainInv, PdusOnFrames
  <2>4. PICK fr : fr = FrameOf(pdus[i])
    OBVIOUS
  <2>5. fr.at = pk.at /\ Bits(fr) = PacketBits(pk)
    <3>1. fr = [at |-> pk.at, octets |-> stream[pk.at].octets]
      BY <2>2, <2>3, <2>4, PduHasFrameBits
    <3> QED BY <3>1 DEF PacketBits
  <2>6. pk.at \in Nat /\ PacketBits(pk) \in Nat
    BY <2>1, PacketFacts
  <2>7. p \in Second(fr) /\ 2 * (p - pk.at) < 2 * PacketBits(pk) - OctetBits
    BY <2>4, <2>5
  <2>8. p \in pk.at .. pk.at + PacketBits(pk) - 1 /\ HasReading(p) /\ p \in Nat
    BY <2>5, <2>6, <2>7
  <2>9. SecondReading(pk, p)
    <3>1. PICK q \in InFrame(fr) : {r \in InFrame(fr) : r < p} = {q}
      BY <2>7
    <3>2. {r \in InFrame(fr) : r < p} = ReadingsBefore(pk, p)
      BY <2>5, <2>6, <2>8 DEF ReadingsBefore
    <3>3. q \in pk.at .. p - 1
      <4>1. q \in ReadingsBefore(pk, p)
        BY <3>1, <3>2
      <4> QED BY <4>1 DEF ReadingsBefore
    <3> QED BY <2>8, <3>1, <3>2, <3>3 DEF SecondReading
  <2>10. SecondInTime(pk, p)
    BY <2>7, <2>8, <2>9 DEF SecondInTime, InPacket
  <2> QED BY <2>2, <2>3, <2>8, <2>10 DEF PdusCarryRssi
<1> QED BY <1>1, ChainCorrect, PdusRssiCorrect, PTL

-----------------------------------------------------------------------------
(***************************************************************************)
(* The chain implements FrameStream.                                       *)
(***************************************************************************)
Frames == [i \in 1 .. Len(pdus) |-> FrameOf(pdus[i])]

FramesTyped ==
  /\ Len(pdus) \in Nat /\ Len(Frames) = Len(pdus)
  /\ \E S : Frames \in Seq(S)
  /\ \A i \in 1 .. Len(pdus) : Frames[i] = FrameOf(pdus[i])

LEMMA FramesIsASeq == ChainInv => FramesTyped
<1> DEFINE F == {FrameOf(pdus[i]) : i \in 1 .. Len(pdus)}
<1>1. ChainInv => Len(pdus) \in Nat
  BY DEF ChainInv, PdusInARow
<1>2. Frames \in [1 .. Len(pdus) -> F]
  BY DEF Frames
<1> HIDE DEF F
<1>3. ChainInv => Frames \in Seq(F) /\ Len(Frames) = Len(pdus)
  BY <1>1, <1>2
<1> QED BY <1>1, <1>3 DEF Frames, FramesTyped

\* What is delivered stays as it is: the gate only adds to its output.
LEMMA FramesKept ==
  ASSUME ChainInv, [Next]_vars, pdus' = pdus
  PROVE  Frames' = Frames
<1>1. \A k \in 0 .. written - 1 : out'[k] = out[k]
  BY GateProgress DEF ChainInv
<1>2. ASSUME NEW i \in 1 .. Len(pdus) PROVE FrameOf(pdus[i])' = FrameOf(pdus[i])
  <2>1. OctetBits * pdus[i].from \in 0 .. written - 1
    <3>1. written \in Nat
      BY CursorTypes DEF ChainInv, FramingInv, Cursors
    <3> QED BY <3>1, PduInOutput
  <2> QED BY <1>1, <2>1 DEF FrameOf
<1> QED BY <1>2 DEF Frames

\* The PDU the last block forms is the next frame of the stream.
LEMMA AssembleDelivers ==
  ASSUME ChainInv, ChainInv', ~Wrapped, Assemble
  PROVE  Delivered!Deliver
<1> DEFINE octets == LastPut(TagsAt("wisun-packet", {taken})).val
<1>1. /\ ~failed /\ packedOctets > taken /\ packedOctets - taken >= octets
      /\ \E r : pdus' = Append(pdus, [from |-> taken, octets |-> octets, rssi |-> r])
      /\ UNCHANGED <<vars, failed>>
  BY DEF Assemble
<1>2. TypeOK /\ Cursors /\ PdusInARow /\ ChainTypes /\ FramesInOrder
  BY CursorTypes DEF ChainInv, FramingInv
<1>3. PICK pk \in packets :
        /\ pk.out = OctetBits * taken /\ pk.out \in 0 .. written - 1
        /\ out[pk.out] = pk.at
        /\ Moved(Tag(pk.out, "wisun-packet", stream[pk.at].octets))
             \in TagsAt("wisun-packet", {taken})
  BY <1>1, FrameAtTaken
<1>4. octets = stream[pk.at].octets
  BY <1>3, LengthAtTaken
<1> HIDE DEF octets
<1> DEFINE fr == [at |-> pk.at, octets |-> stream[pk.at].octets]
<1>5. PICK last \in Nat : last = Len(pdus)
  BY <1>2 DEF PdusInARow
<1>6. /\ Len(pdus') = last + 1
      /\ pdus'[last + 1].from = taken /\ pdus'[last + 1].octets = octets
      /\ \A i \in 1 .. last : pdus'[i] = pdus[i]
  <2>1. PICK r : pdus' = Append(pdus, [from |-> taken, octets |-> octets, rssi |-> r])
    BY <1>1
  <2>2. pdus \in Seq([from : Nat, octets : 1 .. MaxOctets, rssi : Levels \cup {None}])
    BY <1>2 DEF PdusInARow
  <2> QED BY <1>5, <2>1, <2>2
<1>7. /\ pk.at \in Nat /\ pk.at \in Position /\ PacketBits(pk) \in Nat
      /\ PacketBits(pk) > 0 /\ HasLength(pk.at) /\ pk.out \in Nat
      /\ \A pl \in packets : /\ pl.at \in Nat /\ pl.out \in Nat
                              /\ PacketBits(pl) \in Nat /\ PacketBits(pl) > 0
  BY <1>2, PacketFacts DEF ChainInv, FramingInv, DetectionsHandled
<1>8. Frames' = Append(Frames, fr)
  <2>1. /\ Len(Frames) = last /\ \A i \in 1 .. last : Frames[i] = FrameOf(pdus[i])
        /\ \E S : Frames \in Seq(S)
    BY <1>5, FramesIsASeq DEF FramesTyped
  <2>2. /\ Len(Frames)' = last + 1 /\ \A i \in 1 .. last + 1 : Frames'[i] = FrameOf(pdus[i])'
        /\ \E S : Frames' \in Seq(S)
    <3>1. FramesTyped'
      BY FramesIsASeq, PTL
    <3> QED BY <1>6, <3>1 DEF FramesTyped
  <2>3. \A i \in 1 .. last : FrameOf(pdus[i])' = FrameOf(pdus[i])
    BY <1>1, <1>6 DEF FrameOf, vars, output
  <2>4. FrameOf(pdus[last + 1])' = fr
    BY <1>1, <1>3, <1>4, <1>6 DEF FrameOf, vars, output
  <2>5. PICK S, T : Frames \in Seq(S) /\ Frames' \in Seq(T)
    BY <2>1, <2>2
  <2> DEFINE U == S \cup T \cup {fr}
  <2>6. Frames \in Seq(U) /\ Frames' \in Seq(U) /\ fr \in U
    BY <2>5, SeqMonotonic
  <2> HIDE DEF U, fr, Frames
  <2>7. /\ Append(Frames, fr) \in Seq(U) /\ Len(Append(Frames, fr)) = last + 1
        /\ \A i \in 1 .. last : Append(Frames, fr)[i] = Frames[i]
        /\ Append(Frames, fr)[last + 1] = fr
    BY <2>1, <2>6, AppendProperties
  <2>8. ASSUME NEW i \in 1 .. last + 1 PROVE Frames'[i] = Append(Frames, fr)[i]
    <3>1. CASE i \in 1 .. last
      BY <2>1, <2>2, <2>3, <2>7, <3>1
    <3>2. CASE i = last + 1
      BY <2>2, <2>4, <2>7, <3>2
    <3>3. i \in 1 .. last \/ i = last + 1
      BY <2>8
    <3> QED BY <3>1, <3>2, <3>3
  <2>9. Len(Frames') = last + 1
    BY <2>2
  <2> QED BY <2>6, <2>7, <2>8, <2>9, SeqEqual
<1>9. Delivered!Resume <= pk.at /\ Delivered!Resume \in Nat
      /\ \A q \in Delivered!Resume .. pk.at - 1 : stream[q].octets = 0
  <2>1. /\ Len(Frames) = last /\ \A i \in 1 .. last : Frames[i] = FrameOf(pdus[i])
        /\ \E S : Frames \in Seq(S)
    BY <1>5, FramesIsASeq DEF FramesTyped
  <2>2. Delivered!Resume = IF last = 0 THEN 0
                           ELSE Frames[last].at + OctetBits * Frames[last].octets
    <3>1. Delivered!Resume = IF Frames = <<>> THEN 0
                             ELSE Frames[Len(Frames)].at + OctetBits * Frames[Len(Frames)].octets
      BY DEF Delivered!Resume, Delivered!End, Frames
    <3>2. Frames = <<>> <=> last = 0
      BY <2>1
    <3> QED BY <2>1, <3>1, <3>2
  <2>3. ASSUME NEW q \in Nat, q < pk.at, stream[q].octets # 0
        PROVE  \E pm \in packets : InPacket(q, pm) /\ Before(pm, pk)
    <3> HasLength(q)
      <4>1. q \in Position
        BY <1>7, <2>3, GateConstants DEF Position
      <4> QED BY <1>2, <2>3, <4>1, ItemFields, GateConstants DEF HasLength, TypeOK
    <3>1. pk.at < read /\ q \in 0 .. read - 1
      <4>1. pk.at < read
        <5>1. Finished(pk) \/ Current(pk)
          BY <1>2 DEF FramesInOrder
        <5>2. out[pk.out] \in 0 .. read - 1
          BY <1>2, <1>3 DEF TypeOK
        <5> QED BY <1>2, <1>3, <5>2 DEF Cursors
      <4> QED BY <1>2, <1>7, <2>3, <4>1 DEF Cursors
    <3>2. PICK pm \in packets : InPacket(q, pm)
      BY <2>3, <3>1 DEF ChainInv, FramingInv, DetectionsHandled
    <3>3. pm = pk \/ Before(pk, pm) \/ Before(pm, pk)
      BY <1>2 DEF FramesInOrder
    <3>4. pm.at <= q
      BY <3>2, <1>7 DEF InPacket
    <3> QED BY <1>7, <2>3, <3>2, <3>3, <3>4 DEF Before
  <2>4. CASE last = 0
    <3>1. OctetBits * taken = 0
      <4>1. pdus = <<>>
        <5> DEFINE Pdu == [from : Nat, octets : 1 .. MaxOctets, rssi : Levels \cup {None}]
        <5>1. pdus \in Seq(Pdu) /\ Len(pdus) = 0
          BY <1>2, <1>5, <2>4 DEF PdusInARow
        <5> HIDE DEF Pdu
        <5> QED BY <5>1, EmptySeq
      <4> QED BY <1>2, <4>1, GateConstants DEF PdusInARow
    <3>2. \A pm \in packets : ~Before(pm, pk)
      BY <1>3, <1>7, <3>1 DEF Before
    <3>3. Delivered!Resume = 0
      BY <2>2, <2>4
    <3> QED BY <1>7, <2>3, <3>2, <3>3
  <2>5. CASE last > 0
    <3>1. last \in 1 .. Len(pdus)
      BY <1>5, <2>5
    <3>2. PICK pl \in packets : PduIsFrame(last, pl)
      BY <3>1 DEF ChainInv, PdusOnFrames
    <3>3. FrameOf(pdus[last]) = [at |-> pl.at, octets |-> stream[pl.at].octets]
      BY <3>1, <3>2, PduHasFrameBits
    <3>4. Delivered!Resume = pl.at + PacketBits(pl)
      BY <1>5, <2>1, <2>2, <2>5, <3>1, <3>3 DEF PacketBits
    <3>5. pk.out = pl.out + PacketBits(pl)
      <4>1. taken = pdus[last].from + pdus[last].octets
        <5>1. pdus # <<>>
          BY <1>5, <2>5
        <5> QED BY <1>2, <1>5, <5>1 DEF PdusInARow
      <4>2. pdus[last].from \in Nat /\ pdus[last].octets \in Nat
        BY <3>1, PduInOutput, GateConstants
      <4>3. OctetBits * taken = OctetBits * pdus[last].from + OctetBits * pdus[last].octets
        BY <4>1, <4>2, OctetArithmetic
      <4> QED BY <1>3, <3>2, <4>3 DEF PduIsFrame, PacketBits
    <3>6. Before(pl, pk)
      BY <1>2, <1>7, <3>5 DEF FramesInOrder, Before
    <3>7. ASSUME NEW q \in Delivered!Resume .. pk.at - 1, stream[q].octets # 0 PROVE FALSE
      <4>1. q \in Nat /\ q < pk.at /\ pl.at + PacketBits(pl) <= q
        BY <1>7, <3>4, <3>7
      <4>2. PICK pm \in packets : InPacket(q, pm) /\ Before(pm, pk)
        BY <2>3, <3>7, <4>1
      <4>3. pm = pl \/ Before(pl, pm) \/ Before(pm, pl)
        BY <1>2 DEF FramesInOrder
      <4>4. pm.at <= q /\ q < pm.at + PacketBits(pm)
        BY <1>7, <4>1, <4>2 DEF InPacket
      <4> QED BY <1>7, <3>5, <4>1, <4>2, <4>3, <4>4 DEF Before
    <3> QED BY <1>7, <3>4, <3>6, <3>7 DEF Before
  <2> QED BY <1>5, <2>4, <2>5
<1>10. Delivered!End(fr) <= avail /\ pk.at <= avail - 1
  <2>1. packedOctets * OctetBits >= pk.out + PacketBits(pk)
    <3>1. octets \in Nat
      BY <1>2, <1>4, <1>7, ItemFields, GateConstants DEF TypeOK
    <3>2. /\ taken \in Nat /\ packedOctets \in Nat /\ taken + octets <= packedOctets
      BY <1>1, <1>2, <3>1 DEF ChainTypes
    <3>3. /\ OctetBits * (taken + octets) = OctetBits * taken + OctetBits * octets
          /\ OctetBits * (taken + octets) <= OctetBits * packedOctets
      <4>1. OctetBits * (taken + octets) = OctetBits * taken + OctetBits * octets
        BY <3>1, <3>2, OctetArithmetic
      <4>2. taken + octets \in Nat
        BY <3>1, <3>2
      <4>3. OctetBits * (taken + octets) <= OctetBits * packedOctets
        BY <3>2, <4>2, OctetArithmetic
      <4> QED BY <4>1, <4>3
    <3>4. packedOctets * OctetBits = OctetBits * packedOctets
      BY <3>2, GateConstants
    <3> QED BY <1>3, <1>4, <3>3, <3>4 DEF PacketBits
  <2>2. pk.out + PacketBits(pk) <= written
    <3>1. packedOctets * OctetBits = whiteDrained
      BY <1>2, GateConstants DEF ChainTypes
    <3>2. drained <= written /\ drained \in Nat /\ whiteDrained \in Nat /\ whiteDrained <= drained
      BY <1>2 DEF TypeOK, Cursors, ChainTypes
    <3> QED BY <1>2, <1>7, <2>1, <3>1, <3>2 DEF Cursors
  <2>3. pk.at + PacketBits(pk) <= read
    <3>1. Finished(pk) \/ Current(pk)
      BY <1>2 DEF FramesInOrder
    <3> QED BY <1>2, <1>7, <2>2, <3>1 DEF Finished, Current, Cursors
  <2>4. Delivered!End(fr) = pk.at + PacketBits(pk)
    BY DEF Delivered!End, PacketBits
  <2> QED BY <1>2, <1>7, <2>3, <2>4 DEF Cursors
<1>11. /\ ~failed /\ UNCHANGED <<stream, avail, failed>>
       /\ stream[pk.at].octets > 0
       /\ pk.at \in Delivered!Resume .. avail - 1
  BY <1>1, <1>2, <1>7, <1>9, <1>10 DEF HasLength, vars, input, Cursors
<1> QED BY <1>8, <1>9, <1>10, <1>11 DEF Delivered!Deliver, Frames

\* Every step until the wrap is a step of FrameStream or leaves it as it is.
LEMMA ChainRefinesStep ==
  ASSUME ChainInv, ChainInv', [FramingNext]_allVars
  PROVE  [~Wrapped => Delivered!Next]_(Delivered!vars)
<1> SUFFICES ASSUME ~Wrapped
             PROVE  Delivered!Next \/ UNCHANGED <<stream, avail, Frames, failed>>
  BY DEF Delivered!vars, Frames
<1>1. [Next]_vars
  BY ChainStepIsGateStep
<1>2. CASE Arrive /\ GateStep
  <2>1. /\ avail < Horizon /\ avail' = avail + 1 /\ stream' = stream
        /\ pdus' = pdus /\ failed' = failed
    BY <1>2 DEF Arrive, GateStep, assembly
  <2>2. Frames' = Frames
    BY <1>1, <2>1, FramesKept
  <2> QED BY <2>1, <2>2 DEF Delivered!Next, Delivered!Arrive, Frames
<1>3. CASE (Work /\ GateStep) \/ WhitenStep \/ Pack \/ UNCHANGED allVars
  <2>1. /\ avail' = avail /\ stream' = stream
    BY <1>3 DEF Work, DiscardAll, OpenPacket, Copy, WhitenStep, Pack, allVars, vars, input
  <2>2. pdus' = pdus /\ failed' = failed
    BY <1>3 DEF GateStep, WhitenStep, Pack, allVars, assembly
  <2>3. Frames' = Frames
    BY <1>1, <2>2, FramesKept
  <2> QED BY <2>1, <2>2, <2>3
<1>4. CASE Assemble
  BY <1>4, AssembleDelivers DEF Delivered!Next
<1>5. CASE Throw
  BY <1>5, FrameAtTaken DEF Throw
<1> QED BY <1>2, <1>3, <1>4, <1>5 DEF FramingNext, GateStep

\* Until the gate's tag offset wraps the chain delivers the frames of the stream,
\* each once, in order, with its own length, and none that it should not.  That
\* it delivers all of them is a liveness property.
THEOREM ChainImplementsFrameStream ==
  FramingSpec => Delivered!Init /\ [][~Wrapped => Delivered!Next]_(Delivered!vars)
<1>1. FramingInit => Delivered!Init
  <2> SUFFICES ASSUME FramingInit PROVE Delivered!Init
    OBVIOUS
  <2>1. Init /\ pdus = <<>> /\ failed = FALSE
    BY DEF FramingInit
  <2>2. ChainInv
    BY ChainInit
  <2>3. Len(pdus) = 0 /\ Len(Frames) = 0 /\ \E S : Frames \in Seq(S)
    BY <2>1, <2>2, FramesIsASeq DEF FramesTyped
  <2>4. Frames = <<>>
    BY <2>3
  <2> QED BY <2>1, <2>4 DEF Delivered!Init, Init, Frames
<1> QED BY <1>1, ChainCorrect, ChainRefinesStep, PTL DEF FramingSpec
=============================================================================
