----------------------------- MODULE Channelizer -----------------------------
(***************************************************************************)
(* How Wi-SUN channels and the outputs of the polyphase channelizer go     *)
(* together: the planning of multi_channel_sniffer.py and the conversions  *)
(* of util.py.                                                             *)
(*                                                                         *)
(* Definitions named Op_fault are seeded faults of Op, used by no action.  *)
(***************************************************************************)
EXTENDS Integers

NoFrequency == -1
NoChannel == -1

-----------------------------------------------------------------------------
(* Planning: the channels from lowest to highest, one more at the top and,  *)
(* if need be to make their number even, one more at the bottom.            *)

Span_noSpare(lowest, highest) == highest - lowest + 1
Span(lowest, highest) == highest + 1 - lowest + 1

Bottom(lowest, highest) == lowest - (Span(lowest, highest) % 2)
OutputCount(lowest, highest) == Span(lowest, highest) + (Span(lowest, highest) % 2)

Middle(lowest, highest) ==
  Bottom(lowest, highest) + OutputCount(lowest, highest) \div 2 - 1

-----------------------------------------------------------------------------
(* Conversions                                                              *)

\* Frequency of the output k out of n: those above the middle one wrap.
PfbFrequency(k, n, center, spacing) ==
  IF 2 * k = n THEN NoFrequency
  ELSE IF 2 * k < n THEN center + spacing * k
  ELSE center - spacing * (n - k)

\* The channel that is at frequency f, if any.
WiSunChannel(f, channel0, spacing) ==
  IF f = NoFrequency \/ f < channel0 \/ (f - channel0) % spacing # 0
  THEN NoChannel
  ELSE (f - channel0) \div spacing
=============================================================================
