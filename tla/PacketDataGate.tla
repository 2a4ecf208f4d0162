--------------------------- MODULE PacketDataGate ---------------------------
(***************************************************************************)
(* The block packet_data_gate_bb: the first block behind the sync word     *)
(* correlator.  It reads a stream of bits on which the correlator has put  *)
(* a length tag at the first bit of every frame it detected and the rssi   *)
(* block a power reading now and then, and passes on the bits of frames    *)
(* only.  The scheduler of GNU Radio runs it in a thread of its own and    *)
(* calls general_work with whatever part of the stream has arrived and     *)
(* whatever room the output buffer has: no property may depend on how the  *)
(* stream is cut into calls.                                               *)
(*                                                                         *)
(* An item (one bit) is identified with its offset in the input stream, so *)
(* an output stream is a function from output offsets to input offsets.    *)
(*                                                                         *)
(* Definitions named Op_fault are seeded faults: Op as a slip in the code  *)
(* would have it.  No action uses them; each shows that some property can  *)
(* tell the code from the slip.                                            *)
(***************************************************************************)
EXTENDS Integers

CONSTANTS
  OctetBits,      \* items per octet: 8 in the code
  MaxOctets,      \* largest length a length tag carries
  Levels,         \* RSSI readings, in dB
  Threshold,      \* phy_relative_rssi_threshold, in dB
  Horizon,        \* bound: number of items of an input stream
  Streams,        \* the input streams considered
  InputBuffer,    \* items the input buffer holds
  OutputBuffer,   \* items the output buffer holds
  IntHalf         \* an int holds -IntHalf .. IntHalf-1: 2^31 in the code

None == -1                             \* no reading at an item
Position == 0 .. Horizon - 1
Item == [octets : 0 .. MaxOctets,      \* value of the length tag, 0 = no tag
         rssi : Levels \cup {None}]    \* value of the rssi tag, None = no tag

ASSUME GateConstants ==
  /\ OctetBits \in Nat \ {0}
  /\ MaxOctets \in Nat \ {0}
  /\ Levels \subseteq Nat
  /\ Threshold \in Nat
  /\ Horizon \in Nat
  /\ Streams \subseteq [Position -> Item]
  /\ InputBuffer \in Nat \ {0}
  /\ OutputBuffer \in Nat \ {0}
  /\ IntHalf \in Nat \ {0}

VARIABLES
  stream,         \* the input stream, one of Streams
  avail,          \* items of it that have arrived
  read,           \* nitems_read(0)
  out,            \* output offset -> input offset of the item copied there
  written,        \* nitems_written(0)
  drained,        \* output items the next block has consumed
  tags,           \* the tags put on the output stream
  remaining,      \* d_remaining_samples
  rssiDone,       \* d_packet_rssi_tag_done
  firstDiscarded, \* d_packet_rssi_first_tag_discarded
  warningDone,    \* d_packet_rssi_threshold_warning_done
  packetOffset,   \* d_current_packet_absolute_offset
  packetRssi,     \* d_packet_rssi
  packets         \* history: where the frames opened so far start

input == <<stream, avail>>
output == <<out, written, tags>>
flags == <<rssiDone, firstDiscarded, warningDone>>
vars == <<input, read, output, drained, remaining, flags, packetOffset,
          packetRssi, packets>>

Init ==
  /\ stream \in Streams
  /\ avail = 0
  /\ read = 0
  /\ out = [k \in {} |-> 0]
  /\ written = 0
  /\ drained = 0
  /\ tags = {}
  /\ remaining = 0
  /\ rssiDone = FALSE
  /\ firstDiscarded = FALSE
  /\ warningDone = FALSE
  /\ packetOffset = 0
  /\ packetRssi = 0
  /\ packets = {}

-----------------------------------------------------------------------------
(***************************************************************************)
(* The scheduler.  It runs the block only when there is room for at least  *)
(* one output item, hands over ninput items that have arrived, and reduces *)
(* noutput until forecast() asks for no more than these.                   *)
(***************************************************************************)
Forecast_double(noutput) == 2 * noutput
Forecast(noutput) == noutput

Called(ninput, noutput) ==
  /\ ninput \in 1 .. avail - read
  /\ noutput \in 1 .. OutputBuffer - (written - drained)
  /\ Forecast(noutput) <= ninput

\* Conversion of a 64 bit offset to int: wraps modulo 2 * IntHalf.
ToInt(x) == ((x + IntHalf) % (2 * IntHalf)) - IntHalf

\* The input offsets of the window of n items that a call looks at.
Window(n) == read .. read + n - 1

HasLength(p) == stream[p].octets > 0
HasReading(p) == stream[p].rssi # None

IsFirst(p, S) == p \in S /\ \A q \in S : p <= q

\* general_work between two frames, no length tag in sight.
DiscardAll(ninput) ==
  /\ remaining = 0
  /\ \A p \in Window(ninput) : ~HasLength(p)
  /\ read' = read + ninput
  /\ UNCHANGED <<input, output, drained, remaining, flags, packetOffset,
                 packetRssi, packets>>

\* tags[0]: the first length tag in sight.
NextLength_last(p, ninput) ==
  /\ p \in Window(ninput) /\ HasLength(p)
  /\ \A q \in Window(ninput) : HasLength(q) => q <= p
NextLength(p, ninput) == IsFirst(p, {q \in Window(ninput) : HasLength(q)})

\* The length tag counts octets, the gate items.
FrameItems_octets(p) == stream[p].octets
FrameItems(p) == OctetBits * stream[p].octets

ResetFlags_keepFirst ==
  rssiDone' = FALSE /\ warningDone' = FALSE /\ UNCHANGED firstDiscarded
ResetFlags ==
  rssiDone' = FALSE /\ firstDiscarded' = FALSE /\ warningDone' = FALSE

\* general_work between two frames, up to the first length tag in sight.
OpenPacket(ninput) ==
  /\ remaining = 0
  /\ \E p \in Window(ninput) :
       /\ NextLength(p, ninput)
       /\ remaining' = FrameItems(p)
       /\ read' = p
       /\ packets' = packets \cup {[at |-> p, out |-> written]}
  /\ ResetFlags
  /\ packetOffset' = written
  /\ UNCHANGED <<input, output, drained, packetRssi>>

-----------------------------------------------------------------------------
(***************************************************************************)
(* general_work inside a frame.  n items are copied; every tag on them is  *)
(* put on the output at the offset shifted by current_tag_offset; in the   *)
(* order of the items, the first reading of a frame is discarded, the      *)
(* second becomes the frame's RSSI (tag packet-rssi, at the first item     *)
(* this call writes), and the first later one that is too low is reported  *)
(* (tag packet-truncated, at its own item).                                *)
(***************************************************************************)
ToProcess_noOutput(ninput, noutput) ==
  CHOOSE n \in {remaining, ninput} : n <= remaining /\ n <= ninput
ToProcess_noRemaining(ninput, noutput) ==
  CHOOSE n \in {ninput, noutput} : n <= ninput /\ n <= noutput
ToProcess(ninput, noutput) ==
  CHOOSE n \in {remaining, ninput, noutput} :
    n <= remaining /\ n <= ninput /\ n <= noutput

\* int current_tag_offset = nitems_read(0) - nitems_written(0)
CurrentTagOffset_ofFrame == ToInt(read - packetOffset)
CurrentTagOffset == ToInt(read - written)

Tag(off, key, val) == [off |-> off, key |-> key, val |-> val]

\* The tags of the correlator and of the rssi block on item p, put at off.
ItemTags(p, off) ==
  {Tag(off, "wisun-packet", v) : v \in {stream[p].octets} \ {0}} \cup
  {Tag(off, "rssi", v) : v \in {stream[p].rssi} \ {None}}

Propagated(n) == UNION {ItemTags(p, p - CurrentTagOffset) : p \in Window(n)}

Readings(n) == {p \in Window(n) : HasReading(p)}

\* Readings that may become the RSSI of the frame; the first of them does.
Candidates(n) ==
  {p \in Readings(n) :
     ~rssiDone /\ (firstDiscarded \/ ~IsFirst(p, Readings(n)))}

RssiSource(n) == {p \in Candidates(n) : IsFirst(p, Candidates(n))}

\* d_packet_rssi once the readings of this call are processed.
NewRssi(n) ==
  IF RssiSource(n) = {} THEN packetRssi
  ELSE stream[CHOOSE p \in RssiSource(n) : TRUE].rssi

\* Readings compared with the RSSI of the frame and found too low.
LowReadings(n) ==
  {p \in Readings(n) :
     /\ rssiDone \/ \E q \in RssiSource(n) : q < p
     /\ stream[p].rssi < NewRssi(n) - Threshold}

Reported_again(n) == {p \in LowReadings(n) : IsFirst(p, LowReadings(n))}
Reported(n) ==
  {p \in LowReadings(n) : ~warningDone /\ IsFirst(p, LowReadings(n))}

RssiTags(n) ==
  {Tag(written, "packet-rssi", stream[p].rssi) : p \in RssiSource(n)} \cup
  {Tag(p - CurrentTagOffset, "packet-truncated",
       p - CurrentTagOffset - packetOffset) : p \in Reported(n)}

Copy(ninput, noutput) ==
  /\ remaining > 0
  /\ LET n == ToProcess(ninput, noutput)
     IN  /\ out' = [k \in 0 .. written + n - 1 |->
                      IF k < written THEN out[k] ELSE read + (k - written)]
         /\ written' = written + n
         /\ read' = read + n
         /\ remaining' = remaining - n
         /\ tags' = tags \cup Propagated(n) \cup RssiTags(n)
         /\ rssiDone' = (rssiDone \/ RssiSource(n) # {})
         /\ firstDiscarded' = (firstDiscarded \/ Readings(n) # {})
         /\ warningDone' = (warningDone \/ Reported(n) # {})
         /\ packetRssi' = NewRssi(n)
  /\ UNCHANGED <<input, drained, packetOffset, packets>>

Work ==
  \E ninput \in 1 .. InputBuffer, noutput \in 1 .. OutputBuffer :
    /\ Called(ninput, noutput)
    /\ \/ DiscardAll(ninput)
       \/ OpenPacket(ninput)
       \/ Copy(ninput, noutput)

-----------------------------------------------------------------------------
(***************************************************************************)
(* The blocks on either side: items arrive, with their tags, while there   *)
(* is room for them; the next block takes items from the output.           *)
(***************************************************************************)
Arrive ==
  /\ avail < Horizon
  /\ avail - read < InputBuffer
  /\ avail' = avail + 1
  /\ UNCHANGED <<stream, read, output, drained, remaining, flags,
                 packetOffset, packetRssi, packets>>

Drain ==
  /\ \E n \in 1 .. written - drained : drained' = drained + n
  /\ UNCHANGED <<input, read, output, remaining, flags, packetOffset,
                 packetRssi, packets>>

Next == Arrive \/ Work \/ Drain

Spec == Init /\ [][Next]_vars

\* GNU Radio's thread per block keeps calling a block that can run.
FairSpec == Spec /\ WF_vars(Work) /\ WF_vars(Drain)

-----------------------------------------------------------------------------
(***************************************************************************)
(* What the gate must do, whatever the calls.                              *)
(***************************************************************************)
\* Extent of a frame in the input, and the part of it already in the output.
PacketBits(pk) == OctetBits * stream[pk.at].octets
InPacket(p, pk) == p \in pk.at .. pk.at + PacketBits(pk) - 1
InOutput(k, pk) == k \in pk.out .. pk.out + PacketBits(pk) - 1

TypeOK ==
  /\ stream \in [Position -> Item]
  /\ avail \in 0 .. Horizon
  /\ read \in 0 .. avail
  /\ written \in 0 .. read
  /\ out \in [0 .. written - 1 -> 0 .. read - 1]
  /\ drained \in 0 .. written
  /\ \A t \in tags : /\ DOMAIN t = {"off", "key", "val"}
                     /\ t.off \in Nat
                     /\ t.key \in {"wisun-packet", "rssi", "packet-rssi",
                                   "packet-truncated"}
  /\ remaining \in 0 .. OctetBits * MaxOctets
  /\ rssiDone \in BOOLEAN
  /\ firstDiscarded \in BOOLEAN
  /\ warningDone \in BOOLEAN
  /\ packetOffset \in 0 .. written
  /\ packetRssi \in Levels \cup {0}
  /\ packets \subseteq [at : Position, out : Nat]

\* The output buffer is never overrun, however long the frame and however
\* slow the next block (packet_data_gate_bb_impl.cc:107-113).
NoOverrun == written - drained <= OutputBuffer

\* A frame comes out whole and in order from its first bit on: the k-th bit
\* after the start of its output is the k-th bit after its length tag.
PacketsIntact ==
  \A pk \in packets :
    \A k \in 0 .. written - 1 : InOutput(k, pk) => out[k] = pk.at + (k - pk.out)

\* Only bits of frames come out (packet_data_gate_bb.h: "removes any bits not
\* belonging to a packet"), each of them once, in order.
OnlyPacketBits ==
  /\ \A k \in 0 .. written - 1 : \E pk \in packets : InOutput(k, pk)
  /\ \A j, k \in 0 .. written - 1 : j < k => out[j] < out[k]

\* A detection the gate has gone past is either the start of a frame or lies
\* inside one: none is lost because of where a call ended, and no frame is
\* opened inside another.  With PacketsIntact this makes the output a function
\* of the input stream alone.
DetectionsHandled ==
  /\ \A p \in 0 .. read - 1 :
       HasLength(p) => \E pk \in packets : InPacket(p, pk)
  /\ \A pk \in packets :
       /\ HasLength(pk.at)
       /\ \A pl \in packets : InPacket(pl.at, pk) => pl = pk

\* Every tag of a bit that is passed on is on that very bit in the output, and
\* no tag of a discarded bit gets through: "we propagate tags manually to
\* adjust any offset" (packet_data_gate_bb_impl.cc:54).
PropagatedTags == {t \in tags : t.key \in {"wisun-packet", "rssi"}}
TagsOnTheirItems ==
  /\ \A t \in PropagatedTags :
       \E k \in 0 .. written - 1 : t \in ItemTags(out[k], k)
  /\ \A k \in 0 .. written - 1 : ItemTags(out[k], k) \subseteq PropagatedTags

\* The same as long as fewer items were discarded than an int can count.
TagsOnTheirItemsBeforeWrap == read - written < IntHalf => TagsOnTheirItems

\* A packet-rssi tag is on a frame whose second reading it carries, and every
\* frame whose second reading has been passed on has exactly one.
ReadingsBefore(pk, p) == {x \in pk.at .. p - 1 : HasReading(x)}
SecondReading(pk, p) ==
  HasReading(p) /\ \E q \in pk.at .. p - 1 : ReadingsBefore(pk, p) = {q}
TagsOn(key, pk) == {t \in tags : t.key = key /\ InOutput(t.off, pk)}
PacketRssiIsSecondReading ==
  \A pk \in packets :
    /\ {t.val : t \in TagsOn("packet-rssi", pk)} =
         {stream[p].rssi : p \in {q \in pk.at .. read - 1 :
                                    InPacket(q, pk) /\ SecondReading(pk, q)}}
    /\ \A s, t \in TagsOn("packet-rssi", pk) : s = t

\* Until the tag offset wraps, a frame is reported truncated at most once, at the
\* first reading behind the one chosen as its RSSI that is lower than it by more
\* than the threshold, with the number of its bits before that reading.
LowAfterSecond(pk) ==
  {p \in pk.at .. read - 1 :
     /\ InPacket(p, pk) /\ HasReading(p)
     /\ \E q \in pk.at .. p - 1 :
          SecondReading(pk, q) /\ stream[p].rssi < stream[q].rssi - Threshold}
TruncationReported ==
  read - written < IntHalf =>
    \A pk \in packets :
      TagsOn("packet-truncated", pk) =
        {Tag(pk.out + (p - pk.at), "packet-truncated", p - pk.at) :
           p \in {q \in LowAfterSecond(pk) : IsFirst(q, LowAfterSecond(pk))}}

\* Every item that arrives is read eventually, the last ones of a stream too
\* (forecast asks for no more input than it needs, l.67-75).  The stream being
\* finite, this is to say that the gate always catches up again.
AllItemsRead == []<>(read = avail)

-----------------------------------------------------------------------------
(***************************************************************************)
(* Why these hold: a frame is either finished or the current one, whose    *)
(* progress remaining tells on both sides; frames do not overlap on either *)
(* side.                                                                   *)
(***************************************************************************)
Finished(pk) ==
  pk.at + PacketBits(pk) <= read /\ pk.out + PacketBits(pk) <= written
Current(pk) ==
  /\ remaining \in 1 .. PacketBits(pk)
  /\ read = pk.at + (PacketBits(pk) - remaining)
  /\ written = pk.out + (PacketBits(pk) - remaining)
Before(pk, pl) ==
  pk.at + PacketBits(pk) <= pl.at /\ pk.out + PacketBits(pk) <= pl.out

\* The registers of the gate describe where it is in the stream.
FramesInOrder ==
  /\ \A pk \in packets : HasLength(pk.at) /\ (Finished(pk) \/ Current(pk))
  /\ remaining > 0 => \E pk \in packets : Current(pk)
  /\ \A pk, pl \in packets : pk = pl \/ Before(pk, pl) \/ Before(pl, pk)

\* The inductive invariant of the framing properties.
FramingInv ==
  /\ TypeOK
  /\ NoOverrun
  /\ FramesInOrder
  /\ PacketsIntact
  /\ OnlyPacketBits
  /\ DetectionsHandled
  /\ TagsOnTheirItemsBeforeWrap
=============================================================================
