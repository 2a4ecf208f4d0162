------------------------ MODULE PacketDataGateProofs ------------------------
(***************************************************************************)
(* The gate's framing, proved for every stream, every buffer size and      *)
(* every way the scheduler cuts the stream into calls.                     *)
(***************************************************************************)
EXTENDS PacketDataGate, InductionLemmas

-----------------------------------------------------------------------------
(***************************************************************************)
(* Arithmetic of the conversion to int and of std::min.                    *)
(***************************************************************************)

\* Below IntHalf the conversion to int keeps the value; it never raises a
\* non-negative one (packet_data_gate_bb_impl.cc:116).
LEMMA ToIntValue ==
  ASSUME NEW x \in Nat
  PROVE  /\ ToInt(x) \in Int
         /\ ToInt(x) <= x
         /\ x < IntHalf => ToInt(x) = x
<1> DEFINE m == 2 * IntHalf
           a == x + IntHalf
<1>1. m \in Nat /\ m > 0 /\ a \in Nat /\ IntHalf \in Nat /\ IntHalf > 0
  BY GateConstants
<1> HIDE DEF m, a
<1>2. PICK q \in Nat, r \in 0 .. m - 1 : a = m * q + r /\ a % m = r
  BY <1>1
<1>3. m * q >= 0
  BY <1>1, <1>2
<1>4. r <= a
  BY <1>1, <1>2, <1>3
<1>5. ASSUME x < IntHalf PROVE q = 0
  <2>1. a < m BY <1>5, <1>1 DEF a, m
  <2>2. q >= 1 => m * q >= m BY <1>1
  <2> QED BY <2>1, <2>2, <1>1, <1>2
<1>6. q = 0 => r = a
  BY <1>1, <1>2
<1> QED BY <1>1, <1>2, <1>4, <1>5, <1>6 DEF ToInt, a, m

\* The number of items a call copies is the least of the three bounds.
LEMMA ToProcessBounds ==
  ASSUME NEW ninput \in Nat, NEW noutput \in Nat, remaining \in Nat
  PROVE  /\ ToProcess(ninput, noutput) \in Nat
         /\ ToProcess(ninput, noutput) <= remaining
         /\ ToProcess(ninput, noutput) <= ninput
         /\ ToProcess(ninput, noutput) <= noutput
<1> DEFINE P(n) == n <= remaining /\ n <= ninput /\ n <= noutput
<1>1. \E n \in {remaining, ninput, noutput} : P(n)
  OBVIOUS
<1> QED BY <1>1 DEF ToProcess

-----------------------------------------------------------------------------
(***************************************************************************)
(* Sizes.                                                                  *)
(***************************************************************************)

\* A stream's items have the fields the actions read.
LEMMA ItemFields ==
  ASSUME stream \in [Position -> Item], NEW p \in Position
  PROVE  /\ stream[p].octets \in 0 .. MaxOctets
         /\ stream[p].rssi \in Levels \cup {None}
BY DEF Item

\* A length tag announces at least one and at most the largest number of items.
LEMMA FrameItemsBounds ==
  ASSUME stream \in [Position -> Item], NEW p \in Position
  PROVE  /\ FrameItems(p) \in 0 .. OctetBits * MaxOctets
         /\ HasLength(p) => FrameItems(p) > 0
         /\ \A pk : pk.at = p => PacketBits(pk) = FrameItems(p)
<1> DEFINE o == stream[p].octets
<1>1. o \in 0 .. MaxOctets /\ MaxOctets \in Nat /\ OctetBits \in Nat \ {0}
  BY ItemFields, GateConstants
<1> HIDE DEF o
<1>2. OctetBits * o \in Nat /\ OctetBits * MaxOctets \in Nat
  BY <1>1
<1>3. OctetBits * MaxOctets = OctetBits * o + OctetBits * (MaxOctets - o)
  BY <1>1
<1>4. OctetBits * (MaxOctets - o) \in Nat
  BY <1>1
<1>5. o > 0 => OctetBits * o > 0
  BY <1>1
<1>6. OctetBits * o \in 0 .. OctetBits * MaxOctets
  BY <1>2, <1>3, <1>4
<1>7. FrameItems(p) = OctetBits * o /\ (HasLength(p) <=> o > 0)
  BY DEF FrameItems, HasLength, o
<1>8. \A pk : pk.at = p => PacketBits(pk) = FrameItems(p)
  BY DEF FrameItems, PacketBits
<1> QED BY <1>5, <1>6, <1>7, <1>8

-----------------------------------------------------------------------------
(***************************************************************************)
(* The invariant holds at the start.                                       *)
(***************************************************************************)
LEMMA FramingInvInit == Init => FramingInv
<1> SUFFICES ASSUME Init PROVE FramingInv
  OBVIOUS
<1> USE GateConstants DEF Init
<1>1. TypeOK
  <2>1. 0 .. 0 - 1 = {}
    OBVIOUS
  <2>2. out \in [0 .. written - 1 -> 0 .. read - 1]
    BY <2>1
  <2>3. 0 \in 0 .. OctetBits * MaxOctets
    <3>1. OctetBits * MaxOctets \in Nat
      OBVIOUS
    <3> QED BY <3>1
  <2>4. stream \in [Position -> Item]
    OBVIOUS
  <2>5. /\ avail \in 0 .. Horizon /\ read \in 0 .. avail
        /\ written \in 0 .. read /\ drained \in 0 .. written
        /\ packetOffset \in 0 .. written
    OBVIOUS
  <2>6. /\ rssiDone \in BOOLEAN /\ firstDiscarded \in BOOLEAN
        /\ warningDone \in BOOLEAN
    OBVIOUS
  <2>7. /\ packets \subseteq [at : Position, out : Nat]
        /\ packetRssi \in Levels \cup {0}
    OBVIOUS
  <2> HIDE DEF Init
  <2> QED BY <2>2, <2>3, <2>4, <2>5, <2>6, <2>7 DEF TypeOK, Init
<1>2. NoOverrun
  BY DEF NoOverrun
<1>3. FramesInOrder /\ PacketsIntact /\ OnlyPacketBits /\ DetectionsHandled
  BY DEF FramesInOrder, PacketsIntact, OnlyPacketBits, DetectionsHandled
<1>4. TagsOnTheirItemsBeforeWrap
  BY DEF TagsOnTheirItemsBeforeWrap, TagsOnTheirItems, PropagatedTags
<1> QED BY <1>1, <1>2, <1>3, <1>4 DEF FramingInv

-----------------------------------------------------------------------------
(***************************************************************************)
(* Type correctness.                                                       *)
(***************************************************************************)

\* A call looks at items that have arrived, and copies between none and all
\* of them.
LEMMA CallWindow ==
  ASSUME TypeOK,
         NEW ninput \in 1 .. InputBuffer, NEW noutput \in 1 .. OutputBuffer,
         Called(ninput, noutput)
  PROVE  /\ read \in Nat /\ avail \in Nat /\ written \in Nat /\ drained \in Nat
         /\ ninput \in Nat /\ noutput \in Nat
         /\ ninput > 0 /\ noutput > 0
         /\ read + ninput <= avail /\ avail <= Horizon
         /\ written + noutput <= drained + OutputBuffer
         /\ written <= read /\ drained <= written
         /\ remaining \in Nat
         /\ \A p \in Window(ninput) : p \in Position
<1>1. OctetBits * MaxOctets \in Nat
  BY GateConstants
<1> QED BY <1>1, GateConstants DEF TypeOK, Called, Window, Position

\* What the properties of a copying step need of it: n items from read on are
\* appended to the output.
Copied(n) ==
  /\ n \in Nat /\ n > 0 /\ n <= remaining
  /\ read + n <= avail
  /\ written + n <= drained + OutputBuffer
  /\ out' = [k \in 0 .. written + n - 1 |->
               IF k < written THEN out[k] ELSE read + (k - written)]
  /\ written' = written + n
  /\ read' = read + n
  /\ remaining' = remaining - n
  /\ tags' = tags \cup Propagated(n) \cup RssiTags(n)
  /\ rssiDone' = (rssiDone \/ RssiSource(n) # {})
  /\ firstDiscarded' = (firstDiscarded \/ Readings(n) # {})
  /\ warningDone' = (warningDone \/ Reported(n) # {})
  /\ packetRssi' = NewRssi(n)
  /\ UNCHANGED <<input, drained, packetOffset, packets>>

LEMMA CopyCopies ==
  ASSUME TypeOK,
         NEW ninput \in 1 .. InputBuffer, NEW noutput \in 1 .. OutputBuffer,
         Called(ninput, noutput), Copy(ninput, noutput)
  PROVE  \E n \in Nat : Copied(n)
<1> DEFINE n == ToProcess(ninput, noutput)
<1>1. remaining \in Nat /\ ninput \in Nat /\ noutput \in Nat
  BY CallWindow
<1>2. n \in Nat /\ n <= remaining /\ n <= ninput /\ n <= noutput
  BY <1>1, ToProcessBounds
<1>3. n \in {remaining, ninput, noutput}
  <2>1. \E m \in {remaining, ninput, noutput} :
          m <= remaining /\ m <= ninput /\ m <= noutput
    BY <1>1
  <2> QED BY <2>1 DEF ToProcess
<1>4. n > 0
  BY <1>3, CallWindow DEF Copy
<1>5. read + n <= avail /\ written + n <= drained + OutputBuffer
  BY <1>2, CallWindow, GateConstants
<1>6. Copied(n)
  BY <1>2, <1>4, <1>5 DEF Copy, Copied
<1> QED BY <1>2, <1>6

\* The RSSI the gate keeps is one of the readings.
LEMMA NewRssiType ==
  ASSUME TypeOK, NEW n \in Nat, read + n <= avail
  PROVE  NewRssi(n) \in Levels \cup {0}
<1>1. ASSUME NEW p \in RssiSource(n) PROVE stream[p].rssi \in Levels
  <2>1. p \in Position /\ HasReading(p)
    BY GateConstants
       DEF RssiSource, Candidates, Readings, Window, Position, TypeOK
  <2> QED BY <2>1, ItemFields DEF TypeOK, HasReading
<1>2. CASE RssiSource(n) = {}
  BY <1>2 DEF NewRssi, TypeOK
<1>3. CASE RssiSource(n) # {}
  <2>1. (CHOOSE p \in RssiSource(n) : TRUE) \in RssiSource(n)
    BY <1>3
  <2> QED BY <1>1, <1>3, <2>1 DEF NewRssi
<1> QED BY <1>2, <1>3

\* The tags a copying step adds are well formed, whatever the shift does.
LEMMA NewTagType ==
  ASSUME TypeOK, NEW n \in Nat, NEW t \in Propagated(n) \cup RssiTags(n)
  PROVE  /\ DOMAIN t = {"off", "key", "val"}
         /\ t.off \in Nat
         /\ t.key \in {"wisun-packet", "rssi", "packet-rssi", "packet-truncated"}
<1>1. read \in Nat /\ written \in Nat /\ written <= read
  BY GateConstants DEF TypeOK
<1>2. CurrentTagOffset \in Int /\ CurrentTagOffset <= read - written
  <2>1. read - written \in Nat
    BY <1>1
  <2> QED BY <2>1, ToIntValue DEF CurrentTagOffset
<1>3. ASSUME NEW p \in Window(n) PROVE p - CurrentTagOffset \in Nat
  <2>1. p \in Int /\ read <= p
    BY <1>1 DEF Window
  <2> QED BY <1>1, <1>2, <2>1
<1>4. CASE t \in Propagated(n)
  <2>1. PICK p \in Window(n) : t \in ItemTags(p, p - CurrentTagOffset)
    BY <1>4 DEF Propagated
  <2> QED BY <1>3, <2>1 DEF ItemTags, Tag
<1>5. CASE t \in RssiTags(n)
  <2>1. \A p \in Reported(n) : p \in Window(n)
    BY DEF Reported, LowReadings, Readings
  <2> QED BY <1>1, <1>3, <1>5, <2>1 DEF RssiTags, Tag
<1> QED BY <1>4, <1>5

\* Every step is one of the five below.
LEMMA StepCases ==
  ASSUME TypeOK, [Next]_vars
  PROVE  \/ Arrive
         \/ \E ninput \in Nat : /\ read + ninput <= avail /\ ninput > 0
                                /\ DiscardAll(ninput)
         \/ \E ninput \in Nat : /\ read + ninput <= avail /\ ninput > 0
                                /\ OpenPacket(ninput)
         \/ \E n \in Nat : Copied(n)
         \/ Drain
         \/ UNCHANGED vars
<1>1. CASE Work
  <2>1. PICK ninput \in 1 .. InputBuffer, noutput \in 1 .. OutputBuffer :
           /\ Called(ninput, noutput)
           /\ DiscardAll(ninput) \/ OpenPacket(ninput) \/ Copy(ninput, noutput)
    BY <1>1 DEF Work
  <2>2. ninput \in Nat /\ ninput > 0 /\ read + ninput <= avail
    BY <2>1, CallWindow
  <2>3. CASE Copy(ninput, noutput)
    BY <2>1, <2>3, CopyCopies
  <2> QED BY <2>1, <2>2, <2>3
<1> QED BY <1>1 DEF Next

LEMMA TypeStep == TypeOK /\ [Next]_vars => TypeOK'
<1> SUFFICES ASSUME TypeOK, [Next]_vars PROVE TypeOK'
  OBVIOUS
<1> USE DEF input, output, flags
<1>1. CASE Arrive
  BY <1>1, GateConstants DEF Arrive, TypeOK
<1>2. ASSUME NEW ninput \in Nat, read + ninput <= avail, DiscardAll(ninput)
      PROVE  TypeOK'
  <2>1. read' \in 0 .. avail' /\ written' \in 0 .. read'
    BY <1>2, GateConstants DEF DiscardAll, TypeOK
  <2>2. out' \in [0 .. written' - 1 -> 0 .. read' - 1]
    BY <1>2, GateConstants DEF DiscardAll, TypeOK
  <2> QED BY <1>2, <2>1, <2>2 DEF DiscardAll, TypeOK
<1>3. ASSUME NEW ninput \in Nat, read + ninput <= avail, OpenPacket(ninput)
      PROVE  TypeOK'
  <2>1. PICK p \in Window(ninput) :
           /\ NextLength(p, ninput)
           /\ remaining' = FrameItems(p)
           /\ read' = p
           /\ packets' = packets \cup {[at |-> p, out |-> written]}
    BY <1>3 DEF OpenPacket
  <2>2. p \in Int /\ read <= p /\ p < avail /\ p \in Position
    BY <1>3, GateConstants DEF Window, Position, TypeOK
  <2>3. read' \in 0 .. avail' /\ written' \in 0 .. read'
    BY <1>3, <2>1, <2>2, GateConstants DEF OpenPacket, TypeOK
  <2>4. out' \in [0 .. written' - 1 -> 0 .. read' - 1]
    BY <1>3, <2>1, <2>2, GateConstants DEF OpenPacket, TypeOK
  <2>5. remaining' \in 0 .. OctetBits * MaxOctets
    BY <2>1, <2>2, FrameItemsBounds DEF TypeOK
  <2>6. packets' \subseteq [at : Position, out : Nat]
    BY <2>1, <2>2, GateConstants DEF TypeOK
  <2>7. /\ stream' = stream /\ avail' = avail /\ drained' = drained
        /\ written' = written /\ tags' = tags /\ packetRssi' = packetRssi
        /\ packetOffset' = written
        /\ rssiDone' = FALSE /\ firstDiscarded' = FALSE /\ warningDone' = FALSE
    BY <1>3 DEF OpenPacket, ResetFlags
  <2>8. packetOffset' \in 0 .. written'
    BY <2>7, GateConstants DEF TypeOK
  <2> QED BY <2>3, <2>4, <2>5, <2>6, <2>7, <2>8 DEF TypeOK
<1>4. ASSUME NEW n \in Nat, Copied(n) PROVE TypeOK'
  <2>1. read \in Nat /\ avail \in Nat /\ written \in 0 .. read /\ drained \in 0 .. written
    BY GateConstants DEF TypeOK
  <2>2. read' \in 0 .. avail' /\ written' \in 0 .. read' /\ drained' \in 0 .. written'
    BY <1>4, <2>1 DEF Copied
  <2>3. out' \in [0 .. written' - 1 -> 0 .. read' - 1]
    <3>1. /\ out' = [k \in 0 .. written + n - 1 |->
                       IF k < written THEN out[k] ELSE read + (k - written)]
          /\ written' = written + n
      BY <1>4 DEF Copied
    <3>2. ASSUME NEW k \in 0 .. written + n - 1
          PROVE  (IF k < written THEN out[k] ELSE read + (k - written))
                   \in 0 .. read' - 1
      <4>1. CASE k < written
        <5>1. out[k] \in 0 .. read - 1
          BY <4>1, <2>1 DEF TypeOK
        <5> QED BY <4>1, <5>1, <2>1, <1>4 DEF Copied
      <4>2. CASE ~(k < written)
        BY <4>2, <2>1, <1>4 DEF Copied
      <4> QED BY <4>1, <4>2
    <3> DEFINE copy(k) == IF k < written THEN out[k] ELSE read + (k - written)
    <3> HIDE DEF copy
    <3>3. [k \in 0 .. written + n - 1 |-> copy(k)]
             \in [0 .. written + n - 1 -> 0 .. read' - 1]
      BY <3>2 DEF copy
    <3>4. out' \in [0 .. written + n - 1 -> 0 .. read' - 1]
      BY <3>1, <3>3 DEF copy
    <3>5. 0 .. written' - 1 = 0 .. written + n - 1
      BY <3>1, <2>1
    <3> QED BY <3>4, <3>5
  <2>4. remaining' \in 0 .. OctetBits * MaxOctets
    <3>1. OctetBits * MaxOctets \in Nat
      BY GateConstants
    <3> QED BY <1>4, <3>1 DEF Copied, TypeOK
  <2>5. packetRssi' \in Levels \cup {0}
    BY <1>4, NewRssiType DEF Copied
  <2>6. \A t \in tags' : /\ DOMAIN t = {"off", "key", "val"}
                         /\ t.off \in Nat
                         /\ t.key \in {"wisun-packet", "rssi", "packet-rssi",
                                       "packet-truncated"}
    <3>1. \A t \in Propagated(n) \cup RssiTags(n) :
             /\ DOMAIN t = {"off", "key", "val"}
             /\ t.off \in Nat
             /\ t.key \in {"wisun-packet", "rssi", "packet-rssi",
                           "packet-truncated"}
      BY NewTagType
    <3> QED BY <1>4, <3>1 DEF Copied, TypeOK
  <2>7. stream' = stream /\ avail' = avail /\ packets' = packets
        /\ packetOffset' = packetOffset
    BY <1>4 DEF Copied
  <2>8. /\ rssiDone' \in BOOLEAN /\ firstDiscarded' \in BOOLEAN
        /\ warningDone' \in BOOLEAN
    BY <1>4 DEF Copied, TypeOK
  <2>9. packetOffset' \in 0 .. written'
    BY <1>4, <2>1, <2>7 DEF Copied, TypeOK
  <2> QED BY <2>2, <2>3, <2>4, <2>5, <2>6, <2>7, <2>8, <2>9 DEF TypeOK
<1>5. CASE Drain
  <2>1. drained' \in 0 .. written'
    BY <1>5, GateConstants DEF Drain, TypeOK
  <2> QED BY <1>5, <2>1 DEF Drain, TypeOK
<1>6. CASE UNCHANGED vars
  BY <1>6 DEF vars, TypeOK
<1> QED BY <1>1, <1>2, <1>3, <1>4, <1>5, <1>6, StepCases

\* The registers, cursors and tags of the gate keep their types.
THEOREM TypeCorrect == Spec => []TypeOK
<1>1. Init => TypeOK
  BY FramingInvInit DEF FramingInv
<1> QED BY <1>1, TypeStep, PTL DEF Spec

-----------------------------------------------------------------------------
(***************************************************************************)
(* Framing.                                                                *)
(***************************************************************************)
Cursors ==
  /\ read \in Nat /\ avail \in Nat /\ written \in Nat /\ drained \in Nat
  /\ read <= avail /\ avail <= Horizon /\ written <= read
  /\ remaining \in Nat

LEMMA CursorTypes == TypeOK => Cursors
<1>1. OctetBits * MaxOctets \in Nat
  BY GateConstants
<1> QED BY <1>1, GateConstants DEF TypeOK, Cursors

LEMMA PacketFacts ==
  ASSUME TypeOK, NEW pk \in packets
  PROVE  /\ pk.at \in Position /\ pk.at \in Nat /\ pk.out \in Nat
         /\ PacketBits(pk) \in Nat
         /\ PacketBits(pk) = FrameItems(pk.at)
         /\ HasLength(pk.at) => PacketBits(pk) > 0
<1>1. pk.at \in Position /\ pk.at \in Nat /\ pk.out \in Nat
  BY GateConstants DEF TypeOK, Position
<1>2. OctetBits * MaxOctets \in Nat
  BY GateConstants
<1>3. FrameItems(pk.at) \in Nat
  BY <1>1, <1>2, FrameItemsBounds DEF TypeOK
<1> QED BY <1>1, <1>3, FrameItemsBounds DEF TypeOK

\* A step that leaves the frames and the output alone, and reads no length tag,
\* keeps them in order.
LEMMA SkipStep ==
  ASSUME FramingInv, TypeOK',
         NEW ninput \in Nat, read + ninput <= avail, DiscardAll(ninput)
  PROVE  FramingInv'
<1>1. /\ stream' = stream /\ read' = read + ninput /\ written' = written
      /\ out' = out /\ packets' = packets /\ remaining' = remaining
      /\ tags' = tags /\ drained' = drained /\ remaining = 0
      /\ \A p \in Window(ninput) : ~HasLength(p)
  BY DEF DiscardAll, input, output
<1>2. Cursors /\ TypeOK
  BY CursorTypes DEF FramingInv
<1>3. \A pk : PacketBits(pk)' = PacketBits(pk)
  BY <1>1 DEF PacketBits
<1>4. FramesInOrder'
  <2>1. ASSUME NEW pk \in packets PROVE HasLength(pk.at)' /\ Finished(pk)'
    <3>1. HasLength(pk.at) /\ Finished(pk)
      BY <1>1 DEF FramingInv, FramesInOrder, Current
    <3> QED BY <1>1, <1>2, <1>3, <3>1, PacketFacts
            DEF HasLength, Finished, Cursors
  <2>2. \A pk, pl \in packets : pk = pl \/ Before(pk, pl)' \/ Before(pl, pk)'
    BY <1>1, <1>3 DEF FramingInv, FramesInOrder, Before
  <2> QED BY <1>1, <1>2, <2>1, <2>2 DEF FramesInOrder
<1>5. NoOverrun' /\ PacketsIntact' /\ OnlyPacketBits'
  BY <1>1, <1>3
     DEF FramingInv, NoOverrun, PacketsIntact, OnlyPacketBits, InOutput
<1>6. DetectionsHandled'
  <2>1. ASSUME NEW p \in 0 .. read' - 1, HasLength(p)
        PROVE  \E pk \in packets : InPacket(p, pk)
    <3>1. p \in 0 .. read - 1 \/ p \in Window(ninput)
      BY <1>1, <1>2 DEF Window, Cursors
    <3> QED BY <1>1, <2>1, <3>1 DEF FramingInv, DetectionsHandled
  <2> QED BY <1>1, <1>3, <2>1
          DEF FramingInv, DetectionsHandled, InPacket, HasLength
<1>7. TagsOnTheirItemsBeforeWrap'
  <2>1. read' - written' < IntHalf => read - written < IntHalf
    BY <1>1, <1>2, GateConstants DEF Cursors
  <2>2. TagsOnTheirItems' <=> TagsOnTheirItems
    BY <1>1 DEF TagsOnTheirItems, PropagatedTags, ItemTags
  <2> QED BY <2>1, <2>2 DEF FramingInv, TagsOnTheirItemsBeforeWrap
<1> QED BY <1>4, <1>5, <1>6, <1>7 DEF FramingInv

\* Opening a frame adds one that starts where everything read so far ends.
LEMMA OpenStep ==
  ASSUME FramingInv, TypeOK',
         NEW ninput \in Nat, read + ninput <= avail, OpenPacket(ninput)
  PROVE  FramingInv'
<1>1. PICK p \in Window(ninput) :
         /\ NextLength(p, ninput)
         /\ remaining' = FrameItems(p)
         /\ read' = p
         /\ packets' = packets \cup {[at |-> p, out |-> written]}
  BY DEF OpenPacket
<1>0. PICK new : new = [at |-> p, out |-> written]
  OBVIOUS
<1>2. /\ stream' = stream /\ written' = written /\ out' = out
      /\ tags' = tags /\ drained' = drained /\ remaining = 0
  BY DEF OpenPacket, input, output
<1>3. Cursors /\ TypeOK
  BY CursorTypes DEF FramingInv
<1>4. p \in Nat /\ read <= p /\ p < avail /\ p \in Position
  BY <1>3, GateConstants DEF Cursors, Window, Position
<1>5. /\ HasLength(p)
      /\ \A q \in Nat : read <= q /\ q < p => ~HasLength(q)
  BY <1>1, <1>3, <1>4 DEF NextLength, IsFirst, Window, Cursors
<1>6. \A pk : PacketBits(pk)' = PacketBits(pk)
  BY <1>2 DEF PacketBits
<1>7. /\ PacketBits(new) = FrameItems(p) /\ PacketBits(new) \in Nat
      /\ PacketBits(new) > 0
  <2>1. OctetBits * MaxOctets \in Nat
    BY GateConstants
  <2>2. new.at = p
    BY <1>0
  <2>3. FrameItems(p) \in 0 .. OctetBits * MaxOctets /\ FrameItems(p) > 0
    BY <1>3, <1>4, <1>5, FrameItemsBounds DEF TypeOK
  <2>4. PacketBits(new) = FrameItems(p)
    BY <2>2 DEF PacketBits, FrameItems
  <2> QED BY <2>1, <2>3, <2>4
<1>8. new \in packets' /\ packets' = packets \cup {new}
  BY <1>0, <1>1
<1>9. new.at = p /\ new.out = written
  BY <1>0
<1>10. ASSUME NEW pk \in packets
       PROVE  HasLength(pk.at) /\ Finished(pk) /\ Before(pk, new)
  <2>1. HasLength(pk.at) /\ Finished(pk)
    BY <1>2 DEF FramingInv, FramesInOrder, Current
  <2> QED BY <1>3, <1>4, <1>9, <2>1, PacketFacts DEF Finished, Before, Cursors
<1>11. FramesInOrder'
  <2>1. ASSUME NEW pk \in packets PROVE HasLength(pk.at)' /\ Finished(pk)'
    BY <1>1, <1>2, <1>3, <1>4, <1>6, <1>10, PacketFacts
       DEF HasLength, Finished, Cursors
  <2>2. HasLength(new.at)' /\ Current(new)'
    BY <1>1, <1>2, <1>3, <1>4, <1>5, <1>6, <1>7, <1>9
       DEF HasLength, Current, Cursors
  <2>3. \A pk, pl \in packets : pk = pl \/ Before(pk, pl)' \/ Before(pl, pk)'
    BY <1>6 DEF FramingInv, FramesInOrder, Before
  <2>4. \A pk \in packets : Before(pk, new)'
    BY <1>6, <1>10 DEF Before
  <2> QED BY <1>8, <2>1, <2>2, <2>3, <2>4 DEF FramesInOrder
<1>12. NoOverrun'
  BY <1>2 DEF FramingInv, NoOverrun
<1>13. PacketsIntact'
  <2>1. ASSUME NEW k \in 0 .. written - 1 PROVE ~InOutput(k, new)
    BY <1>3, <1>7, <1>9 DEF InOutput, Cursors
  <2> QED BY <1>2, <1>6, <1>8, <2>1 DEF FramingInv, PacketsIntact, InOutput
<1>14. OnlyPacketBits'
  BY <1>2, <1>6, <1>8 DEF FramingInv, OnlyPacketBits, InOutput
<1>15. DetectionsHandled'
  <2>1. ASSUME NEW q \in 0 .. p - 1, HasLength(q)
        PROVE  \E pk \in packets' : InPacket(q, pk)
    <3>1. q \in 0 .. read - 1
      BY <1>3, <1>4, <1>5, <2>1 DEF Cursors
    <3> QED BY <1>8, <2>1, <3>1 DEF FramingInv, DetectionsHandled
  <2>2. ASSUME NEW pk \in packets
        PROVE  ~InPacket(new.at, pk) /\ ~InPacket(pk.at, new)
    BY <1>3, <1>4, <1>7, <1>9, <1>10, PacketFacts
       DEF Finished, Before, InPacket, Cursors
  <2>3. \A pk, pl \in packets : InPacket(pl.at, pk) => pl = pk
    BY DEF FramingInv, DetectionsHandled
  <2>4. \A pk \in packets' : HasLength(pk.at)
    BY <1>5, <1>8, <1>9, <1>10
  <2>5. \A pk, pl \in packets' : InPacket(pl.at, pk) => pl = pk
    BY <1>8, <2>2, <2>3
  <2>6. /\ \A q, pk : InPacket(q, pk)' = InPacket(q, pk)
        /\ \A q : HasLength(q)' = HasLength(q)
    BY <1>2, <1>6 DEF InPacket, HasLength
  <2> QED BY <1>1, <2>1, <2>4, <2>5, <2>6 DEF DetectionsHandled
<1>16. TagsOnTheirItemsBeforeWrap'
  <2>1. read' - written' < IntHalf => read - written < IntHalf
    BY <1>1, <1>2, <1>3, <1>4, GateConstants DEF Cursors
  <2>2. TagsOnTheirItems' <=> TagsOnTheirItems
    BY <1>2 DEF TagsOnTheirItems, PropagatedTags, ItemTags
  <2> QED BY <2>1, <2>2 DEF FramingInv, TagsOnTheirItemsBeforeWrap
<1> QED BY <1>11, <1>12, <1>13, <1>14, <1>15, <1>16 DEF FramingInv

\* Copying advances the current frame on both sides alike.
LEMMA CopyStep ==
  ASSUME FramingInv, TypeOK', NEW n \in Nat, Copied(n)
  PROVE  FramingInv'
<1>1. /\ stream' = stream /\ packets' = packets /\ drained' = drained
      /\ written' = written + n /\ read' = read + n
      /\ remaining' = remaining - n /\ n > 0 /\ n <= remaining
      /\ tags' = tags \cup Propagated(n) \cup RssiTags(n)
      /\ written + n <= drained + OutputBuffer /\ read + n <= avail
  BY DEF Copied, input
<1>2. Cursors /\ TypeOK
  BY CursorTypes DEF FramingInv
<1>3. /\ \A k \in 0 .. written - 1 : out'[k] = out[k]
      /\ \A k \in written .. written + n - 1 : out'[k] = read + (k - written)
  <2>1. out' = [k \in 0 .. written + n - 1 |->
                  IF k < written THEN out[k] ELSE read + (k - written)]
    BY DEF Copied
  <2>2. ASSUME NEW k \in 0 .. written - 1 PROVE out'[k] = out[k]
    <3>1. k \in 0 .. written + n - 1 /\ k < written
      BY <1>2 DEF Cursors
    <3> QED BY <2>1, <3>1
  <2>3. ASSUME NEW k \in written .. written + n - 1
        PROVE  out'[k] = read + (k - written)
    <3>1. k \in 0 .. written + n - 1 /\ ~(k < written)
      BY <1>2 DEF Cursors
    <3> QED BY <2>1, <3>1
  <2> QED BY <2>2, <2>3
<1>4. \A pk : PacketBits(pk)' = PacketBits(pk)
  BY <1>1 DEF PacketBits
<1>5. PICK cur \in packets : Current(cur)
  BY <1>1, <1>2 DEF FramingInv, FramesInOrder, Cursors
<1>6. /\ cur.at \in Nat /\ cur.out \in Nat
      /\ PacketBits(cur) \in Nat /\ remaining <= PacketBits(cur)
      /\ read = cur.at + (PacketBits(cur) - remaining)
      /\ written = cur.out + (PacketBits(cur) - remaining)
  BY <1>2, <1>5, PacketFacts DEF Current
<1>7. ASSUME NEW pk \in packets, pk # cur
      PROVE  Finished(pk)
  <2>1. Finished(pk) \/ Current(pk)
    BY DEF FramingInv, FramesInOrder
  <2>2. Before(pk, cur) \/ Before(cur, pk)
    BY <1>7 DEF FramingInv, FramesInOrder
  <2>3. ~Current(pk)
    <3>1. pk.at \in Nat /\ PacketBits(pk) \in Nat
      BY <1>2, PacketFacts
    <3> QED BY <1>1, <1>2, <1>6, <2>2, <3>1 DEF Current, Before, Cursors
  <2> QED BY <2>1, <2>3
<1>8. FramesInOrder'
  <2>1. ASSUME NEW pk \in packets, pk # cur PROVE Finished(pk)'
    BY <1>1, <1>2, <1>4, <1>7, <2>1, PacketFacts DEF Finished, Cursors
  <2>2. CASE n < remaining
    <3>1. Current(cur)'
      BY <1>1, <1>2, <1>4, <1>6, <2>2 DEF Current, Cursors
    <3>2. \A pk, pl \in packets : pk = pl \/ Before(pk, pl)' \/ Before(pl, pk)'
      BY <1>4 DEF FramingInv, FramesInOrder, Before
    <3> QED BY <1>1, <2>1, <3>1, <3>2
            DEF FramingInv, FramesInOrder, HasLength
  <2>3. CASE n = remaining
    <3>1. Finished(cur)'
      BY <1>1, <1>2, <1>4, <1>6, <2>3 DEF Finished, Cursors
    <3>2. \A pk, pl \in packets : pk = pl \/ Before(pk, pl)' \/ Before(pl, pk)'
      BY <1>4 DEF FramingInv, FramesInOrder, Before
    <3>3. ~(remaining' > 0)
      BY <1>1, <1>2, <2>3 DEF Cursors
    <3> QED BY <1>1, <2>1, <3>1, <3>2, <3>3
            DEF FramingInv, FramesInOrder, HasLength
  <2> QED BY <1>1, <1>2, <2>2, <2>3 DEF Cursors
<1>9. /\ 0 .. written' - 1 = 0 .. written + n - 1
       /\ 0 .. read' - 1 = 0 .. read + n - 1
  BY <1>1, <1>2 DEF Cursors
<1>10. NoOverrun'
  BY <1>1, <1>2, GateConstants DEF NoOverrun, Cursors
<1>11. ASSUME NEW pk \in packets, NEW k \in written .. written + n - 1
       PROVE  /\ InOutput(k, cur)
              /\ InOutput(k, pk) => pk = cur
  <2>1. InOutput(k, cur)
    BY <1>1, <1>2, <1>6 DEF InOutput, Cursors
  <2>2. ASSUME pk # cur PROVE ~InOutput(k, pk)
    BY <1>2, <1>7, <2>2, PacketFacts DEF Finished, InOutput, Cursors
  <2> QED BY <2>1, <2>2
<1>12. \A k \in 0 .. written + n - 1 :
          k \in 0 .. written - 1 \/ k \in written .. written + n - 1
  BY <1>2 DEF Cursors
<1>13. PacketsIntact'
  <2>1. ASSUME NEW pk \in packets, NEW k \in 0 .. written + n - 1,
               InOutput(k, pk)
        PROVE  out'[k] = pk.at + (k - pk.out)
    <3>1. CASE k \in 0 .. written - 1
      BY <1>3, <2>1, <3>1 DEF FramingInv, PacketsIntact
    <3>2. CASE k \in written .. written + n - 1
      <4>1. pk = cur
        BY <1>11, <2>1, <3>2
      <4> QED BY <1>3, <1>2, <1>6, <3>2, <4>1 DEF Cursors
    <3> QED BY <1>12, <3>1, <3>2
  <2>2. \A k, pk : InOutput(k, pk)' = InOutput(k, pk)
    BY <1>4 DEF InOutput
  <2> QED BY <1>1, <1>9, <2>1, <2>2 DEF PacketsIntact
<1>14. OnlyPacketBits'
  <2>1. ASSUME NEW k \in 0 .. written + n - 1
        PROVE  \E pk \in packets : InOutput(k, pk)
    BY <1>5, <1>11, <1>12 DEF FramingInv, OnlyPacketBits
  <2>2. ASSUME NEW j \in 0 .. written + n - 1, NEW k \in 0 .. written + n - 1,
               j < k
        PROVE  out'[j] < out'[k]
    <3>1. \A i \in 0 .. written - 1 : out[i] \in 0 .. read - 1
      BY <1>2 DEF TypeOK
    <3>2. CASE k \in 0 .. written - 1
      <4>1. j \in 0 .. written - 1
        BY <1>2, <2>2, <3>2 DEF Cursors
      <4> QED BY <1>3, <2>2, <3>2, <4>1 DEF FramingInv, OnlyPacketBits
    <3>3. CASE k \in written .. written + n - 1
      BY <1>3, <1>2, <1>12, <2>2, <3>1, <3>3 DEF Cursors
    <3> QED BY <1>12, <3>2, <3>3
  <2>3. \A k, pk : InOutput(k, pk)' = InOutput(k, pk)
    BY <1>4 DEF InOutput
  <2> QED BY <1>1, <1>9, <2>1, <2>2, <2>3 DEF OnlyPacketBits
<1>15. DetectionsHandled'
  <2>1. ASSUME NEW p \in 0 .. read + n - 1, HasLength(p)
        PROVE  \E pk \in packets : InPacket(p, pk)
    <3>1. CASE p \in 0 .. read - 1
      BY <2>1, <3>1 DEF FramingInv, DetectionsHandled
    <3>2. CASE p \notin 0 .. read - 1
      <4>1. InPacket(p, cur)
        BY <1>1, <1>2, <1>6, <3>2 DEF InPacket, Cursors
      <4> QED BY <1>5, <4>1
    <3> QED BY <3>1, <3>2
  <2>2. /\ \A q, pk : InPacket(q, pk)' = InPacket(q, pk)
        /\ \A q : HasLength(q)' = HasLength(q)
    BY <1>1, <1>4 DEF InPacket, HasLength
  <2>3. \A pk \in packets : /\ HasLength(pk.at)
                            /\ \A pl \in packets : InPacket(pl.at, pk) => pl = pk
    BY DEF FramingInv, DetectionsHandled
  <2> QED BY <1>1, <1>9, <2>1, <2>2, <2>3 DEF DetectionsHandled
<1>16. ASSUME read - written < IntHalf, TagsOnTheirItems
       PROVE  TagsOnTheirItems'
  <2>1. CurrentTagOffset = read - written
    <3>1. read - written \in Nat
      BY <1>2 DEF Cursors
    <3> QED BY <1>16, <3>1, ToIntValue DEF CurrentTagOffset
  <2>2. PropagatedTags' = PropagatedTags \cup Propagated(n)
    <3>1. \A t \in Propagated(n) : t.key \in {"wisun-packet", "rssi"}
      BY DEF Propagated, ItemTags, Tag
    <3>2. \A t \in RssiTags(n) : t.key \notin {"wisun-packet", "rssi"}
      BY DEF RssiTags, Tag
    <3> QED BY <1>1, <3>1, <3>2 DEF PropagatedTags
  <2>3. /\ \A p \in Window(n) : p - CurrentTagOffset \in written .. written + n - 1
        /\ \A k \in written .. written + n - 1 :
             /\ out'[k] \in Window(n) /\ out'[k] - CurrentTagOffset = k
             /\ out'[k] = read + (k - written)
        /\ \A p \in Window(n) : out'[p - CurrentTagOffset] = p
    BY <1>2, <1>3, <2>1 DEF Window, Cursors
  <2>4. ASSUME NEW t \in PropagatedTags'
        PROVE  \E k \in 0 .. written + n - 1 : t \in ItemTags(out'[k], k)
    <3>1. CASE t \in PropagatedTags
      <4>1. PICK k \in 0 .. written - 1 : t \in ItemTags(out[k], k)
        BY <1>16, <3>1 DEF TagsOnTheirItems
      <4>2. k \in 0 .. written + n - 1 /\ out'[k] = out[k]
        BY <1>2, <1>3 DEF Cursors
      <4> QED BY <4>1, <4>2
    <3>2. CASE t \in Propagated(n)
      <4>1. PICK p \in Window(n) : t \in ItemTags(p, p - CurrentTagOffset)
        BY <3>2 DEF Propagated
      <4>2. p - CurrentTagOffset \in 0 .. written + n - 1
        BY <1>2, <2>3 DEF Cursors
      <4> QED BY <2>3, <4>1, <4>2
    <3> QED BY <2>2, <3>1, <3>2
  <2>5. ASSUME NEW k \in 0 .. written + n - 1
        PROVE  ItemTags(out'[k], k) \subseteq PropagatedTags'
    <3>1. CASE k \in 0 .. written - 1
      BY <1>3, <1>16, <2>2, <3>1 DEF TagsOnTheirItems
    <3>2. CASE k \in written .. written + n - 1
      <4>1. ItemTags(out'[k], k) \subseteq Propagated(n)
        BY <2>3, <3>2 DEF Propagated
      <4> QED BY <2>2, <4>1
    <3> QED BY <1>12, <3>1, <3>2
  <2>6. \A k : ItemTags(out[k], k)' = ItemTags(out'[k], k)
    BY <1>1 DEF ItemTags
  <2> QED BY <1>9, <2>4, <2>5, <2>6 DEF TagsOnTheirItems
<1>17. TagsOnTheirItemsBeforeWrap'
  <2>1. read' - written' = read - written
    BY <1>1, <1>2 DEF Cursors
  <2> QED BY <1>16, <2>1 DEF FramingInv, TagsOnTheirItemsBeforeWrap
<1> QED BY <1>8, <1>10, <1>13, <1>14, <1>15, <1>17 DEF FramingInv

LEMMA FramingStep == FramingInv /\ [Next]_vars => FramingInv'
<1> SUFFICES ASSUME FramingInv, [Next]_vars PROVE FramingInv'
  OBVIOUS
<1>1. TypeOK /\ TypeOK'
  BY TypeStep DEF FramingInv
<1>2. ASSUME \/ Arrive \/ Drain \/ UNCHANGED vars
      PROVE  FramingInv'
  <2>1. /\ stream' = stream /\ read' = read /\ written' = written /\ out' = out
        /\ tags' = tags /\ packets' = packets /\ remaining' = remaining
        /\ drained <= drained' /\ drained \in Nat /\ drained' \in Nat
    BY <1>1, <1>2, CursorTypes
       DEF Arrive, Drain, vars, input, output, flags, Cursors
  <2>2. NoOverrun'
    <3>1. written \in Int /\ OutputBuffer \in Int
      BY <1>1, CursorTypes, GateConstants DEF Cursors
    <3>2. NoOverrun
      BY DEF FramingInv
    <3>3. PICK e \in Nat : drained' = e /\ drained <= e /\ drained \in Nat
      BY <2>1
    <3>4. written - e <= OutputBuffer
      BY <3>1, <3>2, <3>3 DEF NoOverrun
    <3> QED BY <2>1, <3>3, <3>4 DEF NoOverrun
  <2>3. FramesInOrder' /\ PacketsIntact' /\ OnlyPacketBits'
    BY <2>1 DEF FramingInv, FramesInOrder, PacketsIntact, OnlyPacketBits,
                HasLength, Finished, Current, Before, PacketBits, InOutput
  <2>4. DetectionsHandled'
    BY <2>1 DEF FramingInv, DetectionsHandled, HasLength, InPacket, PacketBits
  <2>5. TagsOnTheirItemsBeforeWrap'
    BY <2>1 DEF FramingInv, TagsOnTheirItemsBeforeWrap, TagsOnTheirItems,
                PropagatedTags, ItemTags
  <2> QED BY <1>1, <2>2, <2>3, <2>4, <2>5 DEF FramingInv
<1>3. \/ Arrive \/ Drain \/ UNCHANGED vars
      \/ \E ninput \in Nat : read + ninput <= avail /\ DiscardAll(ninput)
      \/ \E ninput \in Nat : read + ninput <= avail /\ OpenPacket(ninput)
      \/ \E n \in Nat : Copied(n)
  BY <1>1, StepCases
<1> QED BY <1>1, <1>2, <1>3, SkipStep, OpenStep, CopyStep

\* The inductive invariant holds in every reachable state.
THEOREM FramingCorrect == Spec => []FramingInv
BY FramingInvInit, FramingStep, PTL DEF Spec

\* No call of general_work writes past the room the output buffer has.
THEOREM OutputFits == Spec => []NoOverrun
<1>1. FramingInv => NoOverrun
  BY DEF FramingInv
<1> QED BY <1>1, FramingCorrect, PTL

\* A frame comes out whole and in order, however it is cut into calls.
THEOREM FramesComeOutWhole == Spec => []PacketsIntact
<1>1. FramingInv => PacketsIntact
  BY DEF FramingInv
<1> QED BY <1>1, FramingCorrect, PTL

\* Nothing but bits of frames comes out, each once and in order.
THEOREM OutputIsFrames == Spec => []OnlyPacketBits
<1>1. FramingInv => OnlyPacketBits
  BY DEF FramingInv
<1> QED BY <1>1, FramingCorrect, PTL

\* No detection is lost and no frame is opened inside another, however the
\* stream is cut into calls.
THEOREM NoDetectionLost == Spec => []DetectionsHandled
<1>1. FramingInv => DetectionsHandled
  BY DEF FramingInv
<1> QED BY <1>1, FramingCorrect, PTL

\* Tags stay on their bits until as many items have been discarded as an int
\* can count.
THEOREM TagsStayAligned == Spec => []TagsOnTheirItemsBeforeWrap
<1>1. FramingInv => TagsOnTheirItemsBeforeWrap
  BY DEF FramingInv
<1> QED BY <1>1, FramingCorrect, PTL
-----------------------------------------------------------------------------
(***************************************************************************)
(* The RSSI of a frame and its truncation.  While a frame is copied the    *)
(* flags tell how many of its readings have been seen.                     *)
(***************************************************************************)
NoReadingSeen(pk) == ~firstDiscarded /\ ~rssiDone /\ ReadingsBefore(pk, read) = {}
OneReadingSeen(pk) ==
  firstDiscarded /\ ~rssiDone /\ \E q \in pk.at .. read - 1 : ReadingsBefore(pk, read) = {q}
SecondReadingSeen(pk) ==
  /\ firstDiscarded /\ rssiDone
  /\ \E p \in pk.at .. read - 1 : SecondReading(pk, p) /\ packetRssi = stream[p].rssi
RegistersTell(pk) ==
  /\ packetOffset = pk.out
  /\ NoReadingSeen(pk) \/ OneReadingSeen(pk) \/ SecondReadingSeen(pk)
  /\ warningDone <=> LowAfterSecond(pk) # {}

\* The tags the gate makes itself are on items it has written.
OwnTagsBehind ==
  /\ \A t \in tags : t.key = "packet-rssi" => t.off < written
  /\ read - written < IntHalf =>
       \A t \in tags : t.key = "packet-truncated" => t.off < written

RssiInv ==
  /\ FramingInv
  /\ \A pk \in packets : Current(pk) => RegistersTell(pk)
  /\ OwnTagsBehind
  /\ PacketRssiIsSecondReading
  /\ TruncationReported

\* A frame has at most one second reading.
LEMMA OneSecondReading ==
  ASSUME NEW pk, pk.at \in Nat, NEW p \in Nat, NEW q \in Nat,
         SecondReading(pk, p), SecondReading(pk, q)
  PROVE  p = q
<1>1. ASSUME NEW x \in Nat, NEW y \in Nat, x < y,
             SecondReading(pk, x), SecondReading(pk, y)
      PROVE  FALSE
  <2>1. PICK a \in pk.at .. x - 1 : ReadingsBefore(pk, x) = {a}
    BY <1>1 DEF SecondReading
  <2>2. PICK b \in pk.at .. y - 1 : ReadingsBefore(pk, y) = {b}
    BY <1>1 DEF SecondReading
  <2>3. a \in ReadingsBefore(pk, y)
    BY <1>1, <2>1 DEF ReadingsBefore
  <2>4. x \in ReadingsBefore(pk, y)
    BY <1>1, <2>1 DEF ReadingsBefore, SecondReading
  <2> QED BY <2>1, <2>2, <2>3, <2>4
<1> QED BY <1>1

\* A set of items has a first one.
LEMMA HasFirst ==
  ASSUME NEW S \in SUBSET Nat, S # {}
  PROVE  \E p \in S : IsFirst(p, S)
BY LeastNatural DEF IsFirst

\* Where a copying step stands in its frame.
CopyIn(n, cur) ==
  /\ cur.at \in Nat /\ cur.out \in Nat /\ read \in Nat /\ written \in Nat
  /\ remaining \in Nat /\ n > 0 /\ n <= remaining
  /\ PacketBits(cur) \in Nat /\ remaining <= PacketBits(cur)
  /\ read = cur.at + (PacketBits(cur) - remaining)
  /\ written = cur.out + (PacketBits(cur) - remaining)

LEMMA CopyWindow ==
  ASSUME NEW n \in Nat, NEW cur, CopyIn(n, cur)
  PROVE  /\ \A p \in Window(n) : p \in Nat /\ read <= p /\ p < read + n /\ InPacket(p, cur)
         /\ Readings(n) \in SUBSET Nat
         /\ Candidates(n) \in SUBSET Nat
         /\ ReadingsBefore(cur, read + n) = ReadingsBefore(cur, read) \cup Readings(n)
         /\ \A p \in Window(n) : ReadingsBefore(cur, p) =
              ReadingsBefore(cur, read) \cup {x \in Readings(n) : x < p}
<1>1. \A p \in Window(n) : p \in Nat /\ read <= p /\ p < read + n /\ InPacket(p, cur)
  BY DEF CopyIn, Window, InPacket
<1>2. Readings(n) \in SUBSET Nat /\ Candidates(n) \in SUBSET Nat
  BY <1>1 DEF Readings, Candidates
<1>3. cur.at .. read + n - 1 = (cur.at .. read - 1) \cup Window(n)
  BY DEF CopyIn, Window
<1>4. ReadingsBefore(cur, read + n) = ReadingsBefore(cur, read) \cup Readings(n)
  <2>1. cur.at .. (read + n) - 1 = (cur.at .. read - 1) \cup Window(n)
    BY <1>3 DEF CopyIn
  <2> QED BY <2>1 DEF ReadingsBefore, Readings
<1>5. ASSUME NEW p \in Window(n)
      PROVE  ReadingsBefore(cur, p) =
               ReadingsBefore(cur, read) \cup {x \in Readings(n) : x < p}
  <2>1. cur.at .. p - 1 = (cur.at .. read - 1) \cup {x \in Window(n) : x < p}
    BY <1>1 DEF CopyIn, Window
  <2> QED BY <2>1 DEF ReadingsBefore, Readings
<1> QED BY <1>1, <1>2, <1>4, <1>5

\* The reading a step chooses as the frame's RSSI is its second one, and it does
\* choose it.
LEMMA SourceIsSecond ==
  ASSUME NEW n \in Nat, NEW cur, CopyIn(n, cur),
         NoReadingSeen(cur) \/ OneReadingSeen(cur) \/ SecondReadingSeen(cur)
  PROVE  \A p \in Nat : p \in RssiSource(n) <=> p \in Window(n) /\ SecondReading(cur, p)
<1> TAKE p \in Nat
<1>1. /\ cur.at \in Nat /\ read \in Nat /\ cur.at <= read
      /\ \A x \in ReadingsBefore(cur, read) : x \in Nat /\ x < read
      /\ \A x \in Readings(n) : x \in Nat /\ read <= x /\ HasReading(x) /\ x \in Window(n)
  BY CopyWindow DEF CopyIn, ReadingsBefore, Readings
<1>2. \A x \in Candidates(n) : x \in Readings(n)
  BY DEF Candidates
<1>3. CASE SecondReadingSeen(cur)
  <2>1. PICK q \in cur.at .. read - 1 : SecondReading(cur, q)
    BY <1>3 DEF SecondReadingSeen
  <2>2. RssiSource(n) = {}
    BY <1>3 DEF SecondReadingSeen, RssiSource, Candidates
  <2>3. p \in Window(n) => ~SecondReading(cur, p)
    BY <1>1, <2>1, CopyWindow, OneSecondReading
  <2> QED BY <2>2, <2>3
<1>4. CASE OneReadingSeen(cur)
  <2>1. PICK q \in cur.at .. read - 1 : ReadingsBefore(cur, read) = {q}
    BY <1>4 DEF OneReadingSeen
  <2>2. Candidates(n) = Readings(n)
    BY <1>4 DEF OneReadingSeen, Candidates
  <2>3. ASSUME p \in RssiSource(n) PROVE p \in Window(n) /\ SecondReading(cur, p)
    <3>1. p \in Readings(n) /\ \A x \in Readings(n) : p <= x
      BY <2>2, <2>3 DEF RssiSource, IsFirst
    <3>2. ReadingsBefore(cur, p) = {q}
      BY <1>1, <2>1, <3>1, CopyWindow
    <3>3. q \in cur.at .. p - 1
      BY <1>1, <3>1
    <3> QED BY <1>1, <3>1, <3>2, <3>3 DEF SecondReading
  <2>4. ASSUME p \in Window(n), SecondReading(cur, p) PROVE p \in RssiSource(n)
    <3>1. p \in Readings(n)
      BY <2>4 DEF Readings, SecondReading
    <3>2. ASSUME NEW x \in Readings(n), x < p PROVE FALSE
      <4>1. x \in ReadingsBefore(cur, p) /\ q \in ReadingsBefore(cur, p)
        BY <2>1, <2>4, <3>2, CopyWindow
      <4> QED BY <1>1, <2>1, <2>4, <3>2, <4>1 DEF SecondReading
    <3>3. \A x \in Readings(n) : p <= x
      BY <1>1, <3>2
    <3> QED BY <2>2, <3>1, <3>3 DEF RssiSource, IsFirst
  <2> QED BY <2>3, <2>4
<1>5. CASE NoReadingSeen(cur)
  <2>1. /\ ReadingsBefore(cur, read) = {}
        /\ Candidates(n) = {x \in Readings(n) : ~IsFirst(x, Readings(n))}
    BY <1>5 DEF NoReadingSeen, Candidates
  <2>2. ASSUME p \in RssiSource(n) PROVE p \in Window(n) /\ SecondReading(cur, p)
    <3>1. /\ p \in Readings(n) /\ ~IsFirst(p, Readings(n))
          /\ \A x \in Readings(n) : ~IsFirst(x, Readings(n)) => p <= x
      BY <2>1, <2>2 DEF RssiSource, IsFirst
    <3>2. PICK f \in Readings(n) : IsFirst(f, Readings(n))
      <4>1. Readings(n) \in SUBSET Nat
        BY CopyWindow
      <4> QED BY <3>1, <4>1, HasFirst
    <3>3. f < p
      BY <1>1, <3>1, <3>2 DEF IsFirst
    <3>4. \A x \in Readings(n) : x < p => x = f
      BY <1>1, <3>1, <3>2 DEF IsFirst
    <3>5. ReadingsBefore(cur, p) = {f}
      <4>1. ReadingsBefore(cur, p) = {x \in Readings(n) : x < p}
        BY <1>1, <2>1, <3>1, CopyWindow
      <4> QED BY <3>2, <3>3, <3>4, <4>1
    <3>6. f \in cur.at .. p - 1
      BY <1>1, <3>2, <3>3
    <3> QED BY <1>1, <3>1, <3>5, <3>6 DEF SecondReading
  <2>3. ASSUME p \in Window(n), SecondReading(cur, p) PROVE p \in RssiSource(n)
    <3>1. p \in Readings(n)
      BY <2>3 DEF Readings, SecondReading
    <3>2. PICK q : {x \in Readings(n) : x < p} = {q}
      <4>1. ReadingsBefore(cur, p) = {x \in Readings(n) : x < p}
        BY <2>1, <2>3, CopyWindow
      <4> QED BY <2>3, <4>1 DEF SecondReading
    <3>3. q \in Readings(n) /\ q < p
      BY <3>2
    <3>4. p \in Candidates(n)
      BY <1>1, <2>1, <3>1, <3>3 DEF IsFirst
    <3>5. ASSUME NEW x \in Candidates(n), x < p PROVE FALSE
      <4>1. x \in Readings(n) /\ ~IsFirst(x, Readings(n))
        BY <2>1
      <4>2. PICK y \in Readings(n) : ~(x <= y)
        BY <4>1 DEF IsFirst
      <4>3. x = q /\ y < x
        BY <1>1, <3>2, <3>5, <4>1, <4>2
      <4>4. y = q
        BY <1>1, <3>1, <3>2, <3>3, <4>2, <4>3
      <4> QED BY <1>1, <4>3, <4>4
    <3> QED BY <1>1, <1>2, <3>1, <3>4, <3>5 DEF RssiSource, IsFirst
  <2> QED BY <2>2, <2>3
<1> QED BY <1>3, <1>4, <1>5

\* Where a second reading has been seen, the gate keeps it.
LEMMA SecondIsKept ==
  ASSUME NEW n \in Nat, NEW cur, CopyIn(n, cur),
         NoReadingSeen(cur) \/ OneReadingSeen(cur) \/ SecondReadingSeen(cur),
         NEW q \in cur.at .. read + n - 1, SecondReading(cur, q)
  PROVE  /\ NewRssi(n) = stream[q].rssi
         /\ rssiDone \/ q \in RssiSource(n)
         /\ q < read => rssiDone
<1>1. cur.at \in Nat /\ read \in Nat /\ q \in Nat /\ cur.at <= q /\ q < read + n
  BY DEF CopyIn
<1>2. CASE q < read
  <2>1. q \in ReadingsBefore(cur, read)
    BY <1>1, <1>2 DEF ReadingsBefore, SecondReading
  <2>2. PICK b \in cur.at .. q - 1 : ReadingsBefore(cur, q) = {b}
    BY DEF SecondReading
  <2>3. b \in ReadingsBefore(cur, read) /\ b # q
    <3>1. b \in ReadingsBefore(cur, q)
      BY <2>2
    <3> QED BY <1>1, <1>2, <3>1 DEF ReadingsBefore
  <2>4. SecondReadingSeen(cur)
    BY <2>1, <2>3 DEF NoReadingSeen, OneReadingSeen
  <2>5. packetRssi = stream[q].rssi
    BY <1>1, <2>4, OneSecondReading DEF SecondReadingSeen
  <2>6. rssiDone /\ RssiSource(n) = {}
    BY <2>4 DEF SecondReadingSeen, RssiSource, Candidates
  <2> QED BY <2>5, <2>6 DEF NewRssi
<1>3. CASE ~(q < read)
  <2>1. q \in Window(n)
    BY <1>1, <1>3 DEF Window
  <2>2. q \in RssiSource(n)
    BY <1>1, <2>1, SourceIsSecond
  <2>3. \A p \in RssiSource(n) : p = q
    <3>1. \A p \in RssiSource(n) : p \in Nat
      BY CopyWindow DEF RssiSource
    <3> QED BY <1>1, <3>1, SourceIsSecond, OneSecondReading
  <2>4. (CHOOSE p \in RssiSource(n) : TRUE) = q
    BY <2>2, <2>3
  <2> QED BY <1>3, <2>2, <2>4 DEF NewRssi
<1> QED BY <1>2, <1>3

\* The readings a step finds too low are those the property means.
LEMMA LowReadingsAreLow ==
  ASSUME NEW n \in Nat, NEW cur, CopyIn(n, cur),
         NoReadingSeen(cur) \/ OneReadingSeen(cur) \/ SecondReadingSeen(cur)
  PROVE  \A p \in Nat :
           p \in LowReadings(n) <=>
             /\ p \in Window(n) /\ HasReading(p)
             /\ \E q \in cur.at .. p - 1 :
                  SecondReading(cur, q) /\ stream[p].rssi < stream[q].rssi - Threshold
<1> TAKE p \in Nat
<1>1. /\ cur.at \in Nat /\ read \in Nat /\ cur.at <= read
      /\ \A x \in Window(n) : x \in Nat /\ read <= x /\ x < read + n
  BY CopyWindow DEF CopyIn
<1>2. ASSUME p \in LowReadings(n)
      PROVE  /\ p \in Window(n) /\ HasReading(p)
             /\ \E q \in cur.at .. p - 1 :
                  SecondReading(cur, q) /\ stream[p].rssi < stream[q].rssi - Threshold
  <2>1. /\ p \in Window(n) /\ HasReading(p)
        /\ rssiDone \/ \E q \in RssiSource(n) : q < p
        /\ stream[p].rssi < NewRssi(n) - Threshold
    BY <1>2 DEF LowReadings, Readings
  <2>2. \E q \in cur.at .. p - 1 : SecondReading(cur, q)
    <3>1. CASE rssiDone
      <4>1. SecondReadingSeen(cur)
        BY <3>1 DEF NoReadingSeen, OneReadingSeen
      <4>2. PICK q \in cur.at .. read - 1 : SecondReading(cur, q)
        BY <4>1 DEF SecondReadingSeen
      <4>3. q \in cur.at .. p - 1
        BY <1>1, <2>1, <4>2
      <4> QED BY <4>2, <4>3
    <3>2. CASE \E q \in RssiSource(n) : q < p
      <4>1. PICK q \in RssiSource(n) : q < p
        BY <3>2
      <4>2. q \in Nat
        BY CopyWindow DEF RssiSource
      <4>3. q \in Window(n) /\ SecondReading(cur, q)
        BY <4>1, <4>2, SourceIsSecond
      <4>4. q \in cur.at .. p - 1
        BY <1>1, <4>1, <4>3
      <4> QED BY <4>3, <4>4
    <3> QED BY <2>1, <3>1, <3>2
  <2>3. PICK q \in cur.at .. p - 1 : SecondReading(cur, q)
    BY <2>2
  <2>4. q \in cur.at .. read + n - 1
    BY <1>1, <2>1
  <2>5. NewRssi(n) = stream[q].rssi
    BY <2>3, <2>4, SecondIsKept
  <2> QED BY <2>1, <2>3, <2>5
<1>3. ASSUME p \in Window(n), HasReading(p),
             NEW q \in cur.at .. p - 1, SecondReading(cur, q),
             stream[p].rssi < stream[q].rssi - Threshold
      PROVE  p \in LowReadings(n)
  <2>1. q \in cur.at .. read + n - 1 /\ q < p
    BY <1>1, <1>3
  <2>2. NewRssi(n) = stream[q].rssi /\ (rssiDone \/ q \in RssiSource(n))
    BY <1>3, <2>1, SecondIsKept
  <2> QED BY <1>3, <2>1, <2>2 DEF LowReadings, Readings
<1> QED BY <1>2, <1>3

\* What is known of a frame does not change while others are copied.
LEMMA FinishedStays ==
  ASSUME NEW pk, pk.at \in Nat, PacketBits(pk) \in Nat, read \in Nat, read' \in Nat,
         read <= read', pk.at + PacketBits(pk) <= read, stream' = stream
  PROVE  /\ {q \in pk.at .. read' - 1 : InPacket(q, pk) /\ SecondReading(pk, q)}
              = {q \in pk.at .. read - 1 : InPacket(q, pk) /\ SecondReading(pk, q)}
         /\ LowAfterSecond(pk)' = LowAfterSecond(pk)
<1>1. \A q : q \in pk.at .. read' - 1 /\ InPacket(q, pk)
               <=> q \in pk.at .. read - 1 /\ InPacket(q, pk)
  BY DEF InPacket
<1>2. \A q : /\ InPacket(q, pk)' = InPacket(q, pk) /\ HasReading(q)' = HasReading(q)
             /\ SecondReading(pk, q)' = SecondReading(pk, q)
  BY DEF InPacket, PacketBits, HasReading, SecondReading, ReadingsBefore
<1>3. LowAfterSecond(pk)' =
        {p \in pk.at .. read' - 1 :
           /\ InPacket(p, pk) /\ HasReading(p)
           /\ \E q \in pk.at .. p - 1 :
                SecondReading(pk, q) /\ stream[p].rssi < stream[q].rssi - Threshold}
  BY <1>2 DEF LowAfterSecond
<1> QED BY <1>1, <1>3 DEF LowAfterSecond

\* Only one frame is being copied.
LEMMA OthersFinished ==
  ASSUME FramingInv, NEW cur \in packets, Current(cur), NEW pk \in packets, pk # cur
  PROVE  Finished(pk) /\ ~Current(pk)
<1>1. Cursors /\ TypeOK
  BY CursorTypes DEF FramingInv
<1>2. /\ cur.at \in Nat /\ PacketBits(cur) \in Nat /\ remaining \in Nat /\ remaining > 0
      /\ remaining <= PacketBits(cur) /\ read = cur.at + (PacketBits(cur) - remaining)
  BY <1>1, PacketFacts DEF Current, Cursors
<1>3. Before(pk, cur) \/ Before(cur, pk)
  BY DEF FramingInv, FramesInOrder
<1>4. ~Current(pk)
  <2>1. pk.at \in Nat /\ PacketBits(pk) \in Nat
    BY <1>1, PacketFacts
  <2> QED BY <1>2, <1>3, <2>1 DEF Current, Before
<1> QED BY <1>4 DEF FramingInv, FramesInOrder

\* What a copying step of a frame does to what is known of it.
LEMMA CopyFacts ==
  ASSUME RssiInv, NEW n \in Nat, Copied(n), NEW cur \in packets, Current(cur)
  PROVE  /\ CopyIn(n, cur) /\ RegistersTell(cur)
         /\ \A p : HasReading(p)' = HasReading(p)
         /\ \A pk, p : /\ ReadingsBefore(pk, p)' = ReadingsBefore(pk, p)
                       /\ SecondReading(pk, p)' = SecondReading(pk, p)
                       /\ InPacket(p, pk)' = InPacket(p, pk)
                       /\ InOutput(p, pk)' = InOutput(p, pk)
         /\ stream' = stream /\ packets' = packets /\ packetOffset' = packetOffset
         /\ read' = read + n /\ written' = written + n
         /\ tags' = tags \cup Propagated(n) \cup RssiTags(n)
         /\ read' - written' = read - written
<1>1. Cursors /\ TypeOK
  BY CursorTypes DEF RssiInv, FramingInv
<1>2. /\ n > 0 /\ n <= remaining /\ stream' = stream /\ packets' = packets
      /\ packetOffset' = packetOffset
      /\ read' = read + n /\ written' = written + n
      /\ tags' = tags \cup Propagated(n) \cup RssiTags(n)
  BY DEF Copied, input
<1>3. CopyIn(n, cur)
  BY <1>1, <1>2, PacketFacts DEF CopyIn, Current, Cursors
<1>4. \A p : HasReading(p)' = HasReading(p)
  BY <1>2 DEF HasReading
<1>5. \A pk, p : /\ ReadingsBefore(pk, p)' = ReadingsBefore(pk, p)
                 /\ InPacket(p, pk)' = InPacket(p, pk)
                 /\ InOutput(p, pk)' = InOutput(p, pk)
  BY <1>2, <1>4 DEF ReadingsBefore, InPacket, InOutput, PacketBits
<1>6. \A pk, p : SecondReading(pk, p)' = SecondReading(pk, p)
  BY <1>4, <1>5 DEF SecondReading
<1>7. read' - written' = read - written
  BY <1>1, <1>2 DEF Cursors
<1> QED BY <1>2, <1>3, <1>4, <1>5, <1>6, <1>7 DEF RssiInv

LEMMA LowReadingsGrow ==
  ASSUME RssiInv, NEW n \in Nat, Copied(n), NEW cur \in packets, Current(cur)
  PROVE  /\ LowAfterSecond(cur)' = LowAfterSecond(cur) \cup LowReadings(n)
         /\ \A p \in LowAfterSecond(cur) : p \in Nat /\ p < read
         /\ \A p \in LowReadings(n) : p \in Nat /\ read <= p
<1>1. /\ CopyIn(n, cur) /\ stream' = stream /\ read' = read + n
      /\ NoReadingSeen(cur) \/ OneReadingSeen(cur) \/ SecondReadingSeen(cur)
      /\ \A p : HasReading(p)' = HasReading(p)
      /\ \A pk, p : /\ SecondReading(pk, p)' = SecondReading(pk, p)
                    /\ InPacket(p, pk)' = InPacket(p, pk)
  BY CopyFacts DEF RegistersTell
<1>2. LowAfterSecond(cur)' =
        {p \in cur.at .. read' - 1 :
           /\ InPacket(p, cur) /\ HasReading(p)
           /\ \E q \in cur.at .. p - 1 :
                SecondReading(cur, q) /\ stream[p].rssi < stream[q].rssi - Threshold}
  BY <1>1 DEF LowAfterSecond
<1>3. /\ \A p : p \in cur.at .. read' - 1 <=> p \in cur.at .. read - 1 \/ p \in Window(n)
      /\ \A p \in Window(n) : p \in Nat /\ read <= p /\ InPacket(p, cur)
      /\ \A p \in cur.at .. read - 1 : p \in Nat /\ p < read
  BY <1>1, CopyWindow DEF CopyIn, Window
<1>4. \A p \in LowReadings(n) : p \in Window(n)
  BY DEF LowReadings, Readings
<1>5. \A p : p \in LowAfterSecond(cur)' <=> p \in LowAfterSecond(cur) \/ p \in LowReadings(n)
  BY <1>1, <1>2, <1>3, <1>4, LowReadingsAreLow DEF LowAfterSecond
<1> QED BY <1>3, <1>4, <1>5 DEF LowAfterSecond

\* The registers tell of the frame what they should after a copying step.
LEMMA RegistersStep ==
  ASSUME RssiInv, NEW n \in Nat, Copied(n), NEW cur \in packets, Current(cur)
  PROVE  RegistersTell(cur)'
<1>1. /\ CopyIn(n, cur) /\ RegistersTell(cur) /\ read' = read + n /\ stream' = stream
      /\ packetOffset' = packetOffset
      /\ NoReadingSeen(cur) \/ OneReadingSeen(cur) \/ SecondReadingSeen(cur)
      /\ \A p : ReadingsBefore(cur, p)' = ReadingsBefore(cur, p)
      /\ \A p : SecondReading(cur, p)' = SecondReading(cur, p)
  BY CopyFacts DEF RegistersTell
<1>2. /\ rssiDone' = (rssiDone \/ RssiSource(n) # {})
      /\ firstDiscarded' = (firstDiscarded \/ Readings(n) # {})
      /\ warningDone' = (warningDone \/ Reported(n) # {})
      /\ packetRssi' = NewRssi(n)
  BY DEF Copied
<1>3. /\ cur.at \in Nat /\ read \in Nat /\ cur.at <= read
      /\ ReadingsBefore(cur, read + n) = ReadingsBefore(cur, read) \cup Readings(n)
      /\ Readings(n) \in SUBSET Nat
      /\ \A x \in Window(n) : x \in Nat /\ read <= x /\ x < read + n
  BY <1>1, CopyWindow DEF CopyIn
<1>4. ReadingsBefore(cur, read)' = ReadingsBefore(cur, read) \cup Readings(n)
  <2>1. ReadingsBefore(cur, read + n)' = ReadingsBefore(cur, read + n)'
    OBVIOUS
  <2>2. ReadingsBefore(cur, read)' = {x \in cur.at .. (read + n) - 1 : HasReading(x)'}
    BY <1>1 DEF ReadingsBefore
  <2>3. \A x : HasReading(x)' = HasReading(x)
    BY <1>1 DEF HasReading
  <2> QED BY <1>3, <2>2, <2>3 DEF ReadingsBefore
<1>5. \A x : x \in cur.at .. read' - 1 <=> x \in cur.at .. read - 1 \/ x \in Window(n)
  BY <1>1, <1>3 DEF Window
<1>6. ASSUME RssiSource(n) # {}
      PROVE  (NoReadingSeen(cur) \/ OneReadingSeen(cur) \/ SecondReadingSeen(cur))'
  <2>1. PICK p \in RssiSource(n) : TRUE
    BY <1>6
  <2>2. p \in Readings(n) /\ p \in Window(n) /\ p \in Nat
    BY <1>3 DEF RssiSource, Candidates, Readings
  <2>3. SecondReading(cur, p)
    BY <1>1, <2>2, SourceIsSecond
  <2>4. p \in cur.at .. read + n - 1
    BY <1>3, <2>2
  <2>5. NewRssi(n) = stream[p].rssi
    BY <1>1, <2>3, <2>4, SecondIsKept
  <2>6. firstDiscarded' /\ rssiDone'
    BY <1>2, <1>6, <2>2
  <2> QED BY <1>1, <1>2, <1>5, <2>2, <2>3, <2>5, <2>6 DEF SecondReadingSeen
<1>7. ASSUME RssiSource(n) = {}, SecondReadingSeen(cur)
      PROVE  (NoReadingSeen(cur) \/ OneReadingSeen(cur) \/ SecondReadingSeen(cur))'
  <2>1. NewRssi(n) = packetRssi
    BY <1>7 DEF NewRssi
  <2>2. PICK p \in cur.at .. read - 1 : SecondReading(cur, p) /\ packetRssi = stream[p].rssi
    BY <1>7 DEF SecondReadingSeen
  <2>3. firstDiscarded' /\ rssiDone'
    BY <1>2, <1>7 DEF SecondReadingSeen
  <2> QED BY <1>1, <1>2, <1>5, <2>1, <2>2, <2>3 DEF SecondReadingSeen
<1>8. ASSUME RssiSource(n) = {}, ~SecondReadingSeen(cur)
      PROVE  (NoReadingSeen(cur) \/ OneReadingSeen(cur) \/ SecondReadingSeen(cur))'
  <2>1. Candidates(n) = {} /\ ~rssiDone
    <3>1. ~rssiDone
      BY <1>1, <1>8 DEF NoReadingSeen, OneReadingSeen
    <3>2. Candidates(n) \in SUBSET Nat
      BY <1>1, CopyWindow
    <3>3. Candidates(n) # {} => \E p \in Candidates(n) : IsFirst(p, Candidates(n))
      BY <3>2, HasFirst
    <3> QED BY <1>8, <3>1, <3>3 DEF RssiSource
  <2>2. CASE OneReadingSeen(cur)
    <3>1. Readings(n) = {}
      BY <2>1, <2>2 DEF Candidates, OneReadingSeen
    <3>2. firstDiscarded' /\ ~rssiDone'
      BY <1>2, <1>8, <2>1, <2>2 DEF OneReadingSeen
    <3>3. PICK q \in cur.at .. read - 1 : ReadingsBefore(cur, read) = {q}
      BY <2>2 DEF OneReadingSeen
    <3>4. ReadingsBefore(cur, read)' = {q}
      BY <1>4, <3>1, <3>3
    <3> QED BY <1>5, <3>2, <3>3, <3>4 DEF OneReadingSeen
  <2>3. CASE NoReadingSeen(cur)
    <3>1. \A p \in Readings(n) : IsFirst(p, Readings(n))
      BY <2>1, <2>3 DEF Candidates, NoReadingSeen
    <3>2. ReadingsBefore(cur, read)' = Readings(n)
      BY <1>4, <2>3 DEF NoReadingSeen
    <3>3. ~rssiDone' /\ (firstDiscarded' <=> Readings(n) # {})
      BY <1>2, <1>8, <2>1, <2>3 DEF NoReadingSeen
    <3>4. CASE Readings(n) = {}
      BY <3>2, <3>3, <3>4 DEF NoReadingSeen
    <3>5. CASE Readings(n) # {}
      <4>1. PICK p \in Readings(n) : TRUE
        BY <3>5
      <4>2. Readings(n) = {p}
        <5>1. \A x \in Readings(n) : x \in Nat /\ p \in Nat /\ x <= p /\ p <= x
          BY <1>3, <3>1 DEF IsFirst
        <5>2. \A x \in Readings(n) : x = p
          BY <5>1
        <5> QED BY <5>2
      <4>3. p \in Window(n)
        BY DEF Readings
      <4> QED BY <1>5, <3>2, <3>3, <3>5, <4>2, <4>3 DEF OneReadingSeen
    <3> QED BY <3>4, <3>5
  <2> QED BY <1>1, <1>8, <2>2, <2>3
<1>9. warningDone' <=> LowAfterSecond(cur)' # {}
  <2>1. /\ LowAfterSecond(cur)' = LowAfterSecond(cur) \cup LowReadings(n)
        /\ LowReadings(n) \in SUBSET Nat
    BY LowReadingsGrow
  <2>2. warningDone <=> LowAfterSecond(cur) # {}
    BY <1>1 DEF RegistersTell
  <2>3. ~warningDone => (Reported(n) # {} <=> LowReadings(n) # {})
    <3>1. LowReadings(n) # {} => \E p \in LowReadings(n) : IsFirst(p, LowReadings(n))
      BY <2>1, HasFirst
    <3> QED BY <3>1 DEF Reported
  <2> QED BY <1>2, <2>1, <2>2, <2>3
<1>10. (packetOffset = cur.out)'
  BY <1>1 DEF RegistersTell
<1> QED BY <1>6, <1>7, <1>8, <1>9, <1>10 DEF RegistersTell

\* The tags of each kind a copying step adds.
LEMMA NewOwnTags ==
  ASSUME NEW n \in Nat, NEW t \in Propagated(n) \cup RssiTags(n)
  PROVE  /\ t.key = "packet-rssi" <=>
              \E p \in RssiSource(n) : t = Tag(written, "packet-rssi", stream[p].rssi)
         /\ t.key = "packet-truncated" <=>
              \E p \in Reported(n) : t = Tag(p - CurrentTagOffset, "packet-truncated",
                                             p - CurrentTagOffset - packetOffset)
<1>1. CASE t \in Propagated(n)
  <2>1. t.key \in {"wisun-packet", "rssi"}
    BY <1>1 DEF Propagated, ItemTags, Tag
  <2> QED BY <2>1 DEF Tag
<1>2. CASE t \in RssiTags(n)
  BY <1>2 DEF RssiTags, Tag
<1> QED BY <1>1, <1>2

LEMMA RssiTagStep ==
  ASSUME RssiInv, NEW n \in Nat, Copied(n), NEW cur \in packets, Current(cur)
  PROVE  PacketRssiIsSecondReading'
<1>1. /\ CopyIn(n, cur) /\ read' = read + n /\ stream' = stream /\ packets' = packets
      /\ tags' = tags \cup Propagated(n) \cup RssiTags(n)
      /\ NoReadingSeen(cur) \/ OneReadingSeen(cur) \/ SecondReadingSeen(cur)
      /\ \A pk, p : /\ SecondReading(pk, p)' = SecondReading(pk, p)
                    /\ InPacket(p, pk)' = InPacket(p, pk)
                    /\ InOutput(p, pk)' = InOutput(p, pk)
  BY CopyFacts DEF RegistersTell
<1>2. Cursors /\ TypeOK /\ FramingInv /\ PacketRssiIsSecondReading
  BY CursorTypes DEF RssiInv, FramingInv
<1> DEFINE rssi == "packet-rssi"
           new == {Tag(written, rssi, stream[p].rssi) : p \in RssiSource(n)}
           Second(pk) == {q \in pk.at .. read - 1 : InPacket(q, pk) /\ SecondReading(pk, q)}
           SecondAfter(pk) == {q \in pk.at .. read' - 1 : InPacket(q, pk) /\ SecondReading(pk, q)}
<1>3. {t \in tags' : t.key = rssi} = {t \in tags : t.key = rssi} \cup new
  <2>1. {t \in Propagated(n) \cup RssiTags(n) : t.key = rssi} = new
    <3>1. \A t \in new : t \in RssiTags(n)
      BY DEF RssiTags
    <3> QED BY <3>1, NewOwnTags
  <2> HIDE DEF new
  <2> QED BY <1>1, <2>1
<1>4. \A t \in new : t.off = written /\ t.key = rssi /\ \E p \in RssiSource(n) : t.val = stream[p].rssi
  BY DEF Tag
<1>5. ASSUME NEW pk \in packets
      PROVE  TagsOn(rssi, pk)' = TagsOn(rssi, pk) \cup {t \in new : InOutput(written, pk)}
  <2> HIDE DEF new
  <2> QED BY <1>1, <1>3, <1>4 DEF TagsOn
<1>6. ASSUME NEW pk \in packets, pk # cur
      PROVE  /\ TagsOn(rssi, pk)' = TagsOn(rssi, pk)
             /\ SecondAfter(pk) = Second(pk)
  <2>1. Finished(pk) /\ pk.at \in Nat /\ pk.out \in Nat /\ PacketBits(pk) \in Nat
    BY <1>2, <1>6, OthersFinished, PacketFacts
  <2>2. ~InOutput(written, pk)
    BY <1>2, <2>1 DEF Finished, InOutput, Cursors
  <2>3. SecondAfter(pk) = Second(pk)
    <3>1. read \in Nat /\ read' \in Nat /\ read <= read' /\ pk.at + PacketBits(pk) <= read
      BY <1>1, <1>2, <2>1 DEF Finished, Cursors
    <3> QED BY <1>1, <2>1, <3>1, FinishedStays
  <2> HIDE DEF new
  <2> QED BY <1>5, <2>2, <2>3
<1>7. /\ TagsOn(rssi, cur)' = TagsOn(rssi, cur) \cup new
      /\ SecondAfter(cur) = Second(cur) \cup RssiSource(n)
  <2>1. InOutput(written, cur)
    BY <1>1 DEF CopyIn, InOutput
  <2>2. TagsOn(rssi, cur)' = TagsOn(rssi, cur) \cup new
    <3> HIDE DEF new
    <3> QED BY <1>5, <2>1
  <2>3. \A p : p \in cur.at .. read' - 1 <=> p \in cur.at .. read - 1 \/ p \in Window(n)
    BY <1>1 DEF CopyIn, Window
  <2>4. /\ \A p \in Window(n) : p \in Nat /\ InPacket(p, cur)
        /\ \A p \in RssiSource(n) : p \in Nat
    BY <1>1, CopyWindow DEF RssiSource
  <2>5. \A p \in Nat : p \in RssiSource(n) <=> p \in Window(n) /\ SecondReading(cur, p)
    BY <1>1, SourceIsSecond
  <2> QED BY <2>2, <2>3, <2>4, <2>5
<1>8. ASSUME NEW pk \in packets
      PROVE  /\ {t.val : t \in TagsOn(rssi, pk)'} = {stream[p].rssi : p \in SecondAfter(pk)}
             /\ \A s, t \in TagsOn(rssi, pk)' : s = t
  <2>1. /\ {t.val : t \in TagsOn(rssi, pk)} = {stream[p].rssi : p \in Second(pk)}
        /\ \A s, t \in TagsOn(rssi, pk) : s = t
    BY <1>2 DEF PacketRssiIsSecondReading
  <2>2. CASE pk # cur
    <3> HIDE DEF Second, SecondAfter
    <3> QED BY <1>6, <2>1, <2>2
  <2>3. CASE pk = cur
    <3>1. {t.val : t \in TagsOn(rssi, cur)'} = {stream[p].rssi : p \in SecondAfter(cur)}
      <4>1. {t.val : t \in new} = {stream[p].rssi : p \in RssiSource(n)}
        <5>1. \A p : Tag(written, rssi, stream[p].rssi).val = stream[p].rssi
          BY DEF Tag
        <5> QED BY <5>1
      <4>2. {t.val : t \in TagsOn(rssi, cur) \cup new}
              = {t.val : t \in TagsOn(rssi, cur)} \cup {t.val : t \in new}
        <5> HIDE DEF new
        <5> QED OBVIOUS
      <4>3. {stream[p].rssi : p \in Second(cur) \cup RssiSource(n)}
              = {stream[p].rssi : p \in Second(cur)} \cup {stream[p].rssi : p \in RssiSource(n)}
        <5> HIDE DEF Second
        <5> QED OBVIOUS
      <4>4. {t.val : t \in TagsOn(rssi, cur)} = {stream[p].rssi : p \in Second(cur)}
        BY <2>1, <2>3
      <4>5. {t.val : t \in TagsOn(rssi, cur)'} = {t.val : t \in TagsOn(rssi, cur) \cup new}
        <5> HIDE DEF new
        <5> QED BY <1>7
      <4>6. {stream[p].rssi : p \in SecondAfter(cur)}
              = {stream[p].rssi : p \in Second(cur) \cup RssiSource(n)}
        <5> HIDE DEF Second, SecondAfter
        <5> QED BY <1>7
      <4> HIDE DEF Second, SecondAfter, new
      <4> QED BY <4>1, <4>2, <4>3, <4>4, <4>5, <4>6
    <3>2. ASSUME NEW p \in RssiSource(n), NEW q \in RssiSource(n) PROVE p = q
      <4>1. p \in Nat /\ q \in Nat
        BY <1>1, CopyWindow DEF RssiSource
      <4> QED BY <1>1, <4>1, SourceIsSecond, OneSecondReading DEF CopyIn
    <3>3. ASSUME NEW p \in RssiSource(n), NEW t \in TagsOn(rssi, cur) PROVE FALSE
      <4>1. t.val \in {stream[q].rssi : q \in Second(cur)}
        <5> HIDE DEF Second
        <5> QED BY <2>1, <2>3
      <4>2. PICK q \in cur.at .. read - 1 : SecondReading(cur, q)
        BY <4>1
      <4>3. p \in Nat /\ p \in Window(n) /\ SecondReading(cur, p)
        <5>1. p \in Nat
          BY <1>1, CopyWindow DEF RssiSource
        <5> QED BY <1>1, <5>1, SourceIsSecond
      <4>4. q \in Nat /\ cur.at \in Nat /\ read \in Nat /\ q < read /\ read <= p
        BY <1>1, <4>2, <4>3, CopyWindow DEF CopyIn
      <4>5. p = q
        BY <4>2, <4>3, <4>4, OneSecondReading
      <4> QED BY <4>3, <4>4, <4>5
    <3>4. \A s, t \in new : s = t
      BY <3>2
    <3>5. new # {} => TagsOn(rssi, cur) = {}
      BY <3>3
    <3> HIDE DEF Second, SecondAfter, new
    <3> QED BY <1>7, <2>1, <2>3, <3>1, <3>4, <3>5
  <2> QED BY <2>2, <2>3
<1>9. ASSUME NEW pk \in packets
      PROVE  {stream[p].rssi : p \in SecondAfter(pk)}
               = {stream[p].rssi : p \in {q \in pk.at .. read - 1 :
                                            InPacket(q, pk) /\ SecondReading(pk, q)}}'
  BY <1>1
<1> HIDE DEF SecondAfter, Second, new
<1> QED BY <1>1, <1>8, <1>9 DEF PacketRssiIsSecondReading

\* Likewise the report of a truncated frame.
LEMMA TruncationStep ==
  ASSUME RssiInv, NEW n \in Nat, Copied(n), NEW cur \in packets, Current(cur)
  PROVE  TruncationReported'
<1>1. /\ CopyIn(n, cur) /\ RegistersTell(cur) /\ stream' = stream /\ packets' = packets
      /\ read' = read + n /\ written' = written + n
      /\ read' - written' = read - written
      /\ tags' = tags \cup Propagated(n) \cup RssiTags(n)
      /\ \A pk, p : InOutput(p, pk)' = InOutput(p, pk)
  BY CopyFacts
<1>2. Cursors /\ TypeOK /\ FramingInv
  BY CursorTypes DEF RssiInv, FramingInv
<1> DEFINE trunc == "packet-truncated"
           new == {Tag(cur.out + (p - cur.at), trunc, p - cur.at) : p \in Reported(n)}
           First(S) == {q \in S : IsFirst(q, S)}
           Reports(pk, S) == {Tag(pk.out + (p - pk.at), trunc, p - pk.at) : p \in First(S)}
<1> SUFFICES ASSUME read - written < IntHalf, NEW pk \in packets
             PROVE  TagsOn(trunc, pk)' = Reports(pk, LowAfterSecond(pk)')
  BY <1>1 DEF TruncationReported, IsFirst
<1>3. TagsOn(trunc, pk) = Reports(pk, LowAfterSecond(pk))
  BY DEF RssiInv, TruncationReported
<1>4. \A p \in Reported(n) : /\ p \in Nat /\ p \in Window(n) /\ p \in LowReadings(n)
                             /\ p - CurrentTagOffset = cur.out + (p - cur.at)
                             /\ p - CurrentTagOffset - packetOffset = p - cur.at
                             /\ InOutput(cur.out + (p - cur.at), cur)
                             /\ written <= cur.out + (p - cur.at)
  <2>1. CurrentTagOffset = read - written
    <3>1. read - written \in Nat
      BY <1>2 DEF Cursors
    <3> QED BY <3>1, ToIntValue DEF CurrentTagOffset
  <2> TAKE p \in Reported(n)
  <2>2. p \in LowReadings(n) /\ p \in Window(n)
    BY DEF Reported, LowReadings, Readings
  <2>3. p \in Nat /\ read <= p /\ p < read + n
    BY <1>1, <2>2, CopyWindow
  <2>4. packetOffset = cur.out
    BY <1>1 DEF RegistersTell
  <2> QED BY <1>1, <2>1, <2>2, <2>3, <2>4 DEF CopyIn, InOutput
<1>5. {t \in tags' : t.key = trunc} = {t \in tags : t.key = trunc} \cup new
  <2>1. {t \in Propagated(n) \cup RssiTags(n) : t.key = trunc} = new
    <3>1. \A p \in Reported(n) : Tag(p - CurrentTagOffset, trunc, p - CurrentTagOffset - packetOffset)
                                   \in RssiTags(n)
      BY DEF RssiTags
    <3>2. \A t \in new : t \in RssiTags(n) /\ t.key = trunc
      BY <1>4, <3>1 DEF Tag
    <3>3. \A t \in Propagated(n) \cup RssiTags(n) : t.key = trunc => t \in new
      BY <1>4, NewOwnTags
    <3> QED BY <3>2, <3>3
  <2> HIDE DEF new
  <2> QED BY <1>1, <2>1
<1>6. \A t \in new : InOutput(t.off, cur) /\ t.key = trunc /\ t.off \in Nat /\ written <= t.off
  BY <1>1, <1>4 DEF Tag, CopyIn
<1>7. CASE pk # cur
  <2>1. Finished(pk) /\ pk.at \in Nat /\ pk.out \in Nat /\ PacketBits(pk) \in Nat
    BY <1>2, <1>7, OthersFinished, PacketFacts
  <2>2. \A t \in new : ~InOutput(t.off, pk)
    BY <1>2, <1>6, <2>1 DEF Finished, InOutput, Cursors
  <2>3. TagsOn(trunc, pk)' = TagsOn(trunc, pk)
    <3> HIDE DEF new
    <3> QED BY <1>1, <1>5, <1>6, <2>2 DEF TagsOn
  <2>4. LowAfterSecond(pk)' = LowAfterSecond(pk)
    <3>1. read \in Nat /\ read' \in Nat /\ read <= read' /\ pk.at + PacketBits(pk) <= read
      BY <1>1, <1>2, <2>1 DEF Finished, Cursors
    <3> QED BY <1>1, <2>1, <3>1, FinishedStays
  <2> QED BY <1>3, <2>3, <2>4
<1>8. CASE pk = cur
  <2>1. TagsOn(trunc, cur)' = TagsOn(trunc, cur) \cup new
    <3> HIDE DEF new
    <3> QED BY <1>1, <1>5, <1>6 DEF TagsOn
  <2>2. /\ LowAfterSecond(cur)' = LowAfterSecond(cur) \cup LowReadings(n)
        /\ \A p \in LowAfterSecond(cur) : p \in Nat /\ p < read
        /\ \A p \in LowReadings(n) : p \in Nat /\ read <= p
        /\ read \in Nat
    BY <1>1, LowReadingsGrow DEF CopyIn
  <2>3. warningDone <=> LowAfterSecond(cur) # {}
    BY <1>1 DEF RegistersTell
  <2>4. First(LowAfterSecond(cur)') = First(LowAfterSecond(cur)) \cup Reported(n)
    <3>1. CASE LowAfterSecond(cur) = {}
      <4>1. Reported(n) = First(LowReadings(n))
        BY <2>3, <3>1 DEF Reported
      <4> QED BY <2>2, <3>1, <4>1
    <3>2. CASE LowAfterSecond(cur) # {}
      <4>1. Reported(n) = {}
        BY <2>3, <3>2 DEF Reported
      <4>2. \A p \in LowReadings(n), q \in LowAfterSecond(cur) : q < p
        BY <2>2
      <4>3. \A p : IsFirst(p, LowAfterSecond(cur)') <=> IsFirst(p, LowAfterSecond(cur))
        <5>1. PICK q \in LowAfterSecond(cur) : TRUE
          BY <3>2
        <5>2. \A p \in LowReadings(n) : ~(p <= q)
          BY <2>2, <4>2
        <5>3. \A p \in LowAfterSecond(cur), x \in LowReadings(n) : p <= x
          BY <2>2
        <5> QED BY <2>2, <5>2, <5>3 DEF IsFirst
      <4> QED BY <2>2, <4>1, <4>3 DEF IsFirst
    <3> QED BY <3>1, <3>2
  <2>5. Reports(cur, LowAfterSecond(cur)') = Reports(cur, LowAfterSecond(cur)) \cup new
    <3> HIDE DEF First
    <3> QED BY <2>4
  <2> HIDE DEF Reports, new
  <2> QED BY <1>3, <1>8, <2>1, <2>5
<1> QED BY <1>7, <1>8

\* The tags the gate makes in a copying step are on items it writes.
LEMMA OwnTagsStep ==
  ASSUME RssiInv, NEW n \in Nat, Copied(n), NEW cur \in packets, Current(cur)
  PROVE  OwnTagsBehind'
<1>1. /\ CopyIn(n, cur) /\ n > 0
      /\ read' = read + n /\ written' = written + n
      /\ read' - written' = read - written
      /\ tags' = tags \cup Propagated(n) \cup RssiTags(n)
  BY CopyFacts DEF CopyIn
<1>2. Cursors /\ TypeOK /\ OwnTagsBehind
  BY CursorTypes DEF RssiInv, FramingInv
<1>3. \A t \in tags : t.off \in Nat
  BY <1>2 DEF TypeOK
<1>4. ASSUME NEW t \in tags', t.key = "packet-rssi"
      PROVE  t.off < written + n
  <2>1. CASE t \in tags
    BY <1>1, <1>2, <1>3, <1>4, <2>1 DEF OwnTagsBehind, CopyIn
  <2>2. CASE t \in Propagated(n) \cup RssiTags(n)
    <3>1. t.off = written
      BY <1>4, <2>2, NewOwnTags DEF Tag
    <3> QED BY <1>1, <3>1 DEF CopyIn
  <2> QED BY <1>1, <2>1, <2>2
<1>5. ASSUME read - written < IntHalf, NEW t \in tags', t.key = "packet-truncated"
      PROVE  t.off < written + n
  <2>1. CASE t \in tags
    BY <1>1, <1>2, <1>3, <1>5, <2>1 DEF OwnTagsBehind, CopyIn
  <2>2. CASE t \in Propagated(n) \cup RssiTags(n)
    <3>1. PICK p \in Reported(n) : t.off = p - CurrentTagOffset
      BY <1>5, <2>2, NewOwnTags DEF Tag
    <3>2. CurrentTagOffset = read - written
      <4>1. read - written \in Nat
        BY <1>2 DEF Cursors
      <4> QED BY <1>5, <4>1, ToIntValue DEF CurrentTagOffset
    <3>3. p \in Nat /\ p < read + n
      <4>1. p \in Window(n)
        BY DEF Reported, LowReadings, Readings
      <4> QED BY <1>1, <4>1, CopyWindow
    <3> QED BY <1>1, <3>1, <3>2, <3>3 DEF CopyIn
  <2> QED BY <1>1, <2>1, <2>2
<1> QED BY <1>1, <1>4, <1>5 DEF OwnTagsBehind

LEMMA RssiCopyStep ==
  ASSUME RssiInv, FramingInv', NEW n \in Nat, Copied(n)
  PROVE  RssiInv'
<1>1. PICK cur \in packets : Current(cur)
  <2>1. remaining > 0
    <3>1. Cursors
      BY CursorTypes DEF RssiInv, FramingInv
    <3> QED BY <3>1 DEF Copied, Cursors
  <2> QED BY <2>1 DEF RssiInv, FramingInv, FramesInOrder
<1>2. packets' = packets
  BY DEF Copied
<1>3. ASSUME NEW pk \in packets, pk # cur PROVE ~Current(pk)'
  <2>1. Finished(pk) /\ pk.at \in Nat /\ PacketBits(pk) \in Nat /\ Cursors
    BY <1>1, <1>3, OthersFinished, PacketFacts, CursorTypes DEF RssiInv, FramingInv
  <2>2. /\ PacketBits(pk)' = PacketBits(pk) /\ read' = read + n
        /\ remaining' = remaining - n /\ n <= remaining
    BY DEF Copied, input, PacketBits
  <2> QED BY <2>1, <2>2 DEF Current, Finished, Cursors
<1> QED BY <1>1, <1>2, <1>3, RegistersStep, OwnTagsStep, RssiTagStep, TruncationStep
        DEF RssiInv

\* What the two properties say of one frame.
RssiRight(pk) ==
  /\ {t.val : t \in TagsOn("packet-rssi", pk)} =
       {stream[p].rssi : p \in {q \in pk.at .. read - 1 :
                                  InPacket(q, pk) /\ SecondReading(pk, q)}}
  /\ \A s, t \in TagsOn("packet-rssi", pk) : s = t
TruncationRight(pk) ==
  read - written < IntHalf =>
    TagsOn("packet-truncated", pk) =
      {Tag(pk.out + (p - pk.at), "packet-truncated", p - pk.at) :
         p \in {q \in LowAfterSecond(pk) : IsFirst(q, LowAfterSecond(pk))}}

LEMMA FrameByFrame ==
  /\ PacketRssiIsSecondReading <=> \A pk \in packets : RssiRight(pk)
  /\ TruncationReported <=> \A pk \in packets : TruncationRight(pk)
BY DEF PacketRssiIsSecondReading, TruncationReported, RssiRight, TruncationRight

\* They go on saying it of a finished frame while the gate moves on without
\* writing.
LEMMA FinishedStaysRight ==
  ASSUME Cursors, TypeOK, NEW pk \in packets, Finished(pk),
         RssiRight(pk), TruncationRight(pk), read' \in Nat, read <= read',
         written' = written, stream' = stream, tags' = tags
  PROVE  RssiRight(pk)' /\ TruncationRight(pk)'
<1>1. /\ pk.at \in Nat /\ PacketBits(pk) \in Nat /\ read \in Nat /\ written \in Nat
      /\ pk.at + PacketBits(pk) <= read
  BY PacketFacts DEF Finished, Cursors
<1>2. \A key : TagsOn(key, pk)' = TagsOn(key, pk)
  BY DEF TagsOn, InOutput, PacketBits
<1>3. /\ LowAfterSecond(pk)' = LowAfterSecond(pk)
      /\ {q \in pk.at .. read' - 1 : InPacket(q, pk) /\ SecondReading(pk, q)}
           = {q \in pk.at .. read - 1 : InPacket(q, pk) /\ SecondReading(pk, q)}
  BY <1>1, FinishedStays
<1>4. \A q : /\ InPacket(q, pk)' = InPacket(q, pk)
             /\ SecondReading(pk, q)' = SecondReading(pk, q)
  BY DEF InPacket, PacketBits, SecondReading, ReadingsBefore, HasReading
<1>5. {q \in pk.at .. read - 1 : InPacket(q, pk) /\ SecondReading(pk, q)}'
        = {q \in pk.at .. read - 1 : InPacket(q, pk) /\ SecondReading(pk, q)}
  BY <1>3, <1>4
<1>6. RssiRight(pk)'
  BY <1>2, <1>5 DEF RssiRight
<1>7. TruncationRight(pk)'
  <2>1. read' - written' < IntHalf => read - written < IntHalf
    <3>1. PICK r \in Nat : read' = r
      OBVIOUS
    <3> QED BY <1>1, <3>1, GateConstants
  <2> QED BY <1>2, <1>3, <2>1 DEF TruncationRight, IsFirst
<1> QED BY <1>6, <1>7

LEMMA RssiSkipStep ==
  ASSUME RssiInv, FramingInv',
         NEW ninput \in Nat, read + ninput <= avail, DiscardAll(ninput)
  PROVE  RssiInv'
<1>1. /\ stream' = stream /\ read' = read + ninput /\ written' = written
      /\ packets' = packets /\ tags' = tags /\ remaining' = 0 /\ remaining = 0
  BY DEF DiscardAll, input, output
<1>2. Cursors /\ TypeOK
  BY CursorTypes DEF RssiInv, FramingInv
<1>3. read' \in Nat /\ read <= read'
  BY <1>1, <1>2 DEF Cursors
<1>4. \A pk \in packets : Finished(pk) /\ ~Current(pk)'
  BY <1>1 DEF RssiInv, FramingInv, FramesInOrder, Current
<1>5. \A pk \in packets : RssiRight(pk)' /\ TruncationRight(pk)'
  BY <1>1, <1>2, <1>3, <1>4, FinishedStaysRight, FrameByFrame DEF RssiInv
<1>6. PacketRssiIsSecondReading' /\ TruncationReported'
  <2>1. /\ PacketRssiIsSecondReading' <=> (\A pk \in packets : RssiRight(pk))'
        /\ TruncationReported' <=> (\A pk \in packets : TruncationRight(pk))'
    BY FrameByFrame, PTL
  <2> QED BY <1>1, <1>5, <2>1
<1>7. OwnTagsBehind'
  <2>1. read' - written' < IntHalf => read - written < IntHalf
    <3>1. PICK r \in Nat : read' = r /\ read <= r
      BY <1>3
    <3> QED BY <1>1, <1>2, <3>1, GateConstants DEF Cursors
  <2> QED BY <1>1, <2>1 DEF RssiInv, OwnTagsBehind
<1> QED BY <1>1, <1>4, <1>6, <1>7 DEF RssiInv

LEMMA RssiOpenStep ==
  ASSUME RssiInv, FramingInv',
         NEW ninput \in Nat, read + ninput <= avail, OpenPacket(ninput)
  PROVE  RssiInv'
<1>1. PICK p \in Window(ninput) :
         read' = p /\ packets' = packets \cup {[at |-> p, out |-> written]}
  BY DEF OpenPacket
<1>2. PICK new : new = [at |-> p, out |-> written]
  OBVIOUS
<1>3. /\ stream' = stream /\ written' = written /\ tags' = tags /\ remaining = 0
      /\ ~firstDiscarded' /\ ~rssiDone' /\ ~warningDone' /\ packetOffset' = written
      /\ packets' = packets \cup {new} /\ new.at = p /\ new.out = written
  BY <1>1, <1>2 DEF OpenPacket, ResetFlags, input, output
<1>4. Cursors /\ TypeOK /\ OwnTagsBehind
  BY CursorTypes DEF RssiInv, FramingInv
<1>5. p \in Nat /\ read <= p /\ read' \in Nat /\ read <= read'
  BY <1>1, <1>4 DEF Cursors, Window
<1>6. \A pk \in packets : Finished(pk)
  BY <1>3 DEF RssiInv, FramingInv, FramesInOrder, Current
<1>7. ASSUME NEW pk \in packets PROVE ~Current(pk)'
  <2>1. pk.at \in Nat /\ PacketBits(pk) \in Nat /\ pk.at + PacketBits(pk) <= read
    BY <1>4, <1>6, PacketFacts DEF Finished
  <2>2. PacketBits(pk)' = PacketBits(pk)
    BY <1>3 DEF PacketBits
  <2> QED BY <1>1, <1>4, <1>5, <2>1, <2>2 DEF Current, Cursors
<1>8. \A pk \in packets : RssiRight(pk)' /\ TruncationRight(pk)'
  BY <1>3, <1>4, <1>5, <1>6, FinishedStaysRight, FrameByFrame DEF RssiInv
<1>9. read' - written' < IntHalf => read - written < IntHalf
  <2>1. PICK r \in Nat : read' = r /\ read <= r
    BY <1>5
  <2> QED BY <1>3, <1>4, <2>1, GateConstants DEF Cursors
<1>10. OwnTagsBehind'
  BY <1>3, <1>4, <1>9 DEF OwnTagsBehind
<1>11. new.at .. read' - 1 = {}
  BY <1>1, <1>3, <1>5
<1>12. ReadingsBefore(new, read)' = {} /\ LowAfterSecond(new)' = {}
  BY <1>11 DEF ReadingsBefore, LowAfterSecond
<1>13. RegistersTell(new)'
  BY <1>3, <1>12 DEF RegistersTell, NoReadingSeen
<1>14. ASSUME NEW t \in tags, InOutput(t.off, new)' PROVE ~(t.off < written)
  BY <1>3, <1>4, <1>14 DEF InOutput, TypeOK, Cursors
<1>15. RssiRight(new)'
  <2>1. TagsOn("packet-rssi", new)' = {}
    BY <1>3, <1>4, <1>14 DEF TagsOn, OwnTagsBehind
  <2> QED BY <1>11, <2>1 DEF RssiRight
<1>16. TruncationRight(new)'
  <2>1. read - written < IntHalf => TagsOn("packet-truncated", new)' = {}
    BY <1>3, <1>4, <1>14 DEF TagsOn, OwnTagsBehind
  <2> QED BY <1>9, <1>12, <2>1 DEF TruncationRight
<1>17. PacketRssiIsSecondReading' /\ TruncationReported'
  <2>1. /\ PacketRssiIsSecondReading' <=> (\A pk \in packets : RssiRight(pk))'
        /\ TruncationReported' <=> (\A pk \in packets : TruncationRight(pk))'
    BY FrameByFrame, PTL
  <2> QED BY <1>3, <1>8, <1>15, <1>16, <2>1
<1> QED BY <1>3, <1>7, <1>10, <1>13, <1>17 DEF RssiInv

LEMMA RssiStep == RssiInv /\ [Next]_vars => RssiInv'
<1> SUFFICES ASSUME RssiInv, [Next]_vars PROVE RssiInv'
  OBVIOUS
<1>1. FramingInv /\ FramingInv' /\ TypeOK
  BY FramingStep DEF RssiInv, FramingInv
<1>2. ASSUME Arrive \/ Drain \/ UNCHANGED vars PROVE RssiInv'
  <2>1. /\ stream' = stream /\ read' = read /\ written' = written /\ tags' = tags
        /\ packets' = packets /\ remaining' = remaining /\ rssiDone' = rssiDone
        /\ firstDiscarded' = firstDiscarded /\ warningDone' = warningDone
        /\ packetOffset' = packetOffset /\ packetRssi' = packetRssi
    BY <1>2 DEF Arrive, Drain, vars, input, output, flags
  <2>2. /\ \A p : HasReading(p)' = HasReading(p)
        /\ \A pk : PacketBits(pk)' = PacketBits(pk)
    BY <2>1 DEF HasReading, PacketBits
  <2>3. /\ \A pk, p : InPacket(p, pk)' = InPacket(p, pk)
        /\ \A pk, p : InOutput(p, pk)' = InOutput(p, pk)
        /\ \A pk, p : ReadingsBefore(pk, p)' = ReadingsBefore(pk, p)
        /\ \A pk : ReadingsBefore(pk, read)' = ReadingsBefore(pk, read)
    BY <2>1, <2>2 DEF InPacket, InOutput, ReadingsBefore
  <2>4. \A pk, p : SecondReading(pk, p)' = SecondReading(pk, p)
    BY <2>2, <2>3 DEF SecondReading
  <2>5. \A pk : LowAfterSecond(pk)' = LowAfterSecond(pk)
    BY <2>1, <2>2, <2>3, <2>4 DEF LowAfterSecond
  <2>6. \A key, pk : TagsOn(key, pk)' = TagsOn(key, pk)
    BY <2>1, <2>3 DEF TagsOn
  <2>7. \A pk \in packets : Current(pk)' => RegistersTell(pk)'
    <3>1. \A pk : /\ Current(pk)' <=> Current(pk)
                  /\ NoReadingSeen(pk)' <=> NoReadingSeen(pk)
                  /\ OneReadingSeen(pk)' <=> OneReadingSeen(pk)
                  /\ SecondReadingSeen(pk)' <=> SecondReadingSeen(pk)
      BY <2>1, <2>2, <2>3, <2>4
         DEF Current, NoReadingSeen, OneReadingSeen, SecondReadingSeen
    <3> QED BY <2>1, <2>5, <3>1 DEF RssiInv, RegistersTell
  <2>8. OwnTagsBehind'
    BY <2>1 DEF RssiInv, OwnTagsBehind
  <2>9. PacketRssiIsSecondReading'
    <3>1. ASSUME NEW pk \in packets PROVE RssiRight(pk)'
      <4>1. {stream[p].rssi : p \in {q \in pk.at .. read - 1 :
                                      InPacket(q, pk) /\ SecondReading(pk, q)}}'
              = {stream[p].rssi : p \in {q \in pk.at .. read - 1 :
                                           InPacket(q, pk) /\ SecondReading(pk, q)}}
        BY <2>1, <2>3, <2>4
      <4>2. RssiRight(pk)
        BY FrameByFrame DEF RssiInv
      <4> QED BY <2>6, <4>1, <4>2 DEF RssiRight
    <3>2. PacketRssiIsSecondReading' <=> (\A pk \in packets : RssiRight(pk))'
      BY FrameByFrame, PTL
    <3> QED BY <2>1, <3>1, <3>2
  <2>10. TruncationReported'
    BY <2>1, <2>5, <2>6 DEF RssiInv, TruncationReported, IsFirst
  <2> QED BY <1>1, <2>1, <2>7, <2>8, <2>9, <2>10 DEF RssiInv
<1>3. \/ Arrive \/ Drain \/ UNCHANGED vars
      \/ \E ninput \in Nat : read + ninput <= avail /\ DiscardAll(ninput)
      \/ \E ninput \in Nat : read + ninput <= avail /\ OpenPacket(ninput)
      \/ \E n \in Nat : Copied(n)
  BY <1>1, StepCases
<1> QED BY <1>1, <1>2, <1>3, RssiSkipStep, RssiOpenStep, RssiCopyStep

LEMMA RssiInvInit == Init => RssiInv
<1> SUFFICES ASSUME Init PROVE RssiInv
  OBVIOUS
<1>1. packets = {} /\ tags = {}
  BY DEF Init
<1> QED BY <1>1, FramingInvInit
        DEF RssiInv, OwnTagsBehind, PacketRssiIsSecondReading, TruncationReported

\* The gate's registers tell at every moment how many readings of the current
\* frame it has passed on, whatever the calls.
THEOREM RssiCorrect == Spec => []RssiInv
BY RssiInvInit, RssiStep, PTL DEF Spec

\* The RSSI of a frame is its second reading, once.
THEOREM RssiOfEveryFrame == Spec => []PacketRssiIsSecondReading
<1>1. RssiInv => PacketRssiIsSecondReading
  BY DEF RssiInv
<1> QED BY <1>1, RssiCorrect, PTL

\* A frame is reported truncated once, at the right bit, until the offset wraps.
THEOREM TruncationOfEveryFrame == Spec => []TruncationReported
<1>1. RssiInv => TruncationReported
  BY DEF RssiInv
<1> QED BY <1>1, RssiCorrect, PTL
=============================================================================
