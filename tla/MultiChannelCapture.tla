------------------------- MODULE MultiChannelCapture -------------------------
(***************************************************************************)
(* How the frames of all channels become one PCAPNG stream.  Every channel *)
(* receiver of a multi_channel_receiver publishes into a block of its own, *)
(* pdu_add_pcapng_header, which puts a section header block (SHB) and an   *)
(* interface description block (IDB) in front of its first frame and turns *)
(* each frame into an enhanced packet block (EPB).  All of them publish    *)
(* into one port, whose messages are written to the FIFO as they come.     *)
(*                                                                         *)
(* A handler publishes up to three messages, one after the other, and the  *)
(* blocks run in threads of their own: between two of them other channels  *)
(* publish theirs.  Here each message_port_pub is a step.                  *)
(*                                                                         *)
(* A frame is one value; the octets of a block are not modelled.           *)
(*                                                                         *)
(* Definitions named Op_fault are seeded faults of Op, used by no action.  *)
(***************************************************************************)
EXTENDS Integers, Sequences, FiniteSets

CONSTANTS
  Channels,          \* the active channels
  Frames,            \* what a frame can be
  PrependSection,    \* d_prepend_section_header_block
  PrependInterface,  \* d_prepend_interface_description_block
  MaxFrames          \* bound: number of frames received on a channel

ASSUME CaptureConstants ==
  /\ PrependSection \in BOOLEAN
  /\ PrependInterface \in BOOLEAN
  /\ MaxFrames \in Nat

VARIABLES
  received,      \* channel -> the frames its receiver has published
  handled,       \* channel -> number of them the header block is done with
  sectionDone,   \* channel -> d_section_header_block_done
  interfaceDone, \* channel -> d_interface_description_block_done
  capture        \* the blocks in the order they were published

vars == <<received, handled, sectionDone, interfaceDone, capture>>

Section(ch) == [kind |-> "SHB", channel |-> ch]
Interface(ch) == [kind |-> "IDB", channel |-> ch]
Packet(ch, frame) == [kind |-> "EPB", channel |-> ch, frame |-> frame]

Init ==
  /\ received = [ch \in Channels |-> <<>>]
  /\ handled = [ch \in Channels |-> 0]
  /\ sectionDone = [ch \in Channels |-> FALSE]
  /\ interfaceDone = [ch \in Channels |-> FALSE]
  /\ capture = <<>>

\* A channel receiver publishes a frame: it is queued in the port.
Receive(ch, frame) ==
  /\ Len(received[ch]) < MaxFrames
  /\ received' = [received EXCEPT ![ch] = Append(@, frame)]
  /\ UNCHANGED <<handled, sectionDone, interfaceDone, capture>>

-----------------------------------------------------------------------------
(* handle_msg, up to and including each of its calls of message_port_pub    *)

\* The handler has a message, taken out of the port or about to be.
Handling(ch) == handled[ch] < Len(received[ch])

SectionMissing(ch) == PrependSection /\ ~sectionDone[ch]

InterfaceMissing(ch) == PrependInterface /\ ~interfaceDone[ch]

PublishSection(ch) ==
  /\ Handling(ch)
  /\ SectionMissing(ch)
  /\ capture' = Append(capture, Section(ch))
  /\ sectionDone' = [sectionDone EXCEPT ![ch] = TRUE]
  /\ UNCHANGED <<received, handled, interfaceDone>>

PublishInterface_first(ch) ==
  /\ Handling(ch)
  /\ InterfaceMissing(ch)
  /\ capture' = Append(capture, Interface(ch))
  /\ interfaceDone' = [interfaceDone EXCEPT ![ch] = TRUE]
  /\ UNCHANGED <<received, handled, sectionDone>>
PublishInterface(ch) ==
  /\ Handling(ch)
  /\ ~SectionMissing(ch)
  /\ InterfaceMissing(ch)
  /\ capture' = Append(capture, Interface(ch))
  /\ interfaceDone' = [interfaceDone EXCEPT ![ch] = TRUE]
  /\ UNCHANGED <<received, handled, sectionDone>>

PublishPacket_latest(ch) ==
  /\ Handling(ch)
  /\ ~SectionMissing(ch)
  /\ ~InterfaceMissing(ch)
  /\ capture' = Append(capture, Packet(ch, received[ch][Len(received[ch])]))
  /\ handled' = [handled EXCEPT ![ch] = @ + 1]
  /\ UNCHANGED <<received, sectionDone, interfaceDone>>
PublishPacket(ch) ==
  /\ Handling(ch)
  /\ ~SectionMissing(ch)
  /\ ~InterfaceMissing(ch)
  /\ capture' = Append(capture, Packet(ch, received[ch][handled[ch] + 1]))
  /\ handled' = [handled EXCEPT ![ch] = @ + 1]
  /\ UNCHANGED <<received, sectionDone, interfaceDone>>

Publish(ch) == PublishSection(ch) \/ PublishInterface(ch) \/ PublishPacket(ch)

Next ==
  \E ch \in Channels :
    \/ \E frame \in Frames : Receive(ch, frame)
    \/ Publish(ch)

Spec == Init /\ [][Next]_vars

-----------------------------------------------------------------------------
(* Properties                                                               *)

Block == [kind : {"SHB", "IDB"}, channel : Channels]
           \cup [kind : {"EPB"}, channel : Channels, frame : Frames]

\* Types of the variables; a handler is never ahead of its port, and describes
\* its interface in a section it has opened.
TypeOK ==
  /\ received \in [Channels -> Seq(Frames)]
  /\ handled \in [Channels -> Nat]
  /\ sectionDone \in [Channels -> BOOLEAN]
  /\ interfaceDone \in [Channels -> BOOLEAN]
  /\ capture \in Seq(Block)
  /\ \A ch \in Channels :
       /\ handled[ch] <= Len(received[ch])
       /\ interfaceDone[ch] /\ PrependSection => sectionDone[ch]

\* The places of channel ch's blocks in the stream, and the rank of the block at
\* a place among those of its channel.
PlacesOf(ch) == {i \in 1 .. Len(capture) : capture[i].channel = ch}
Rank(i) == Cardinality({j \in PlacesOf(capture[i].channel) : j <= i})

\* The header block's output for the frames it has handled, had it been alone
\* (pdu_add_pcapng_header: leading blocks once, then each frame once, in order).
Leading(ch) ==
  (IF sectionDone[ch] THEN <<Section(ch)>> ELSE <<>>)
    \o (IF interfaceDone[ch] THEN <<Interface(ch)>> ELSE <<>>)
Recorded(ch) ==
  Leading(ch) \o [i \in 1 .. handled[ch] |-> Packet(ch, received[ch][i])]

\* Out of the interleaved stream every channel's blocks can be picked: its SHB
\* and its IDB once and first, and every frame once, in the order of reception
\* (handle_msg's three message_port_pub and its two done flags).
FramesRecorded ==
  \A ch \in Channels :
    /\ Cardinality(PlacesOf(ch)) = Len(Recorded(ch))
    /\ \A i \in PlacesOf(ch) : capture[i] = Recorded(ch)[Rank(i)]

\* Every packet block finds in its section, after the latest SHB before it, the
\* description of the interface 0 it names: what a reader needs to parse the
\* packet (interface_id = 0 in handle_msg, sections opened by every channel).
Described(i) ==
  \E d \in 1 .. i - 1 :
    /\ capture[d].kind = "IDB"
    /\ \A s \in d + 1 .. i - 1 : capture[s].kind # "SHB"
InterfacesDescribed ==
  \A i \in 1 .. Len(capture) : capture[i].kind = "EPB" => Described(i)

\* As long as only one channel has received anything: what the one channel of a
\* single-channel sniffer writes can always be parsed.
DescribedForOneChannel ==
  (\A c, d \in Channels : sectionDone[c] /\ sectionDone[d] => c = d)
    => InterfacesDescribed

\* Once every channel that has opened a section has described its interface,
\* what is published next can be parsed: packets that no reader can resolve
\* come only while some handler is between its SHB and its IDB.
ReadableOnceOpened ==
  (capture # <<>> /\ sectionDone = interfaceDone) => Described(Len(capture) + 1)
=============================================================================
