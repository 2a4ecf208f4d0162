----------------------------- MODULE FrameStream -----------------------------
(***************************************************************************)
(* What the receiver promises behind its sync word correlator: from a      *)
(* stream of bits with detections on it, one PDU per frame, in the order   *)
(* of the stream, each as soon as all its bits may be there.  A detection  *)
(* inside a frame that is being received starts no frame of its own.  A    *)
(* receiver that has failed delivers nothing any more.                     *)
(***************************************************************************)
EXTENDS Integers, Sequences

CONSTANTS OctetBits, Streams, Horizon

VARIABLES
  stream,         \* offset -> [octets, rssi], octets = 0 where nothing starts
  avail,          \* items that have arrived
  frames,         \* sequence of [at, octets]: the frames delivered
  failed          \* a block threw, which ends the receiver

vars == <<stream, avail, frames, failed>>

End(fr) == fr.at + OctetBits * fr.octets

\* Where the search for the next frame starts.
Resume == IF frames = <<>> THEN 0 ELSE End(frames[Len(frames)])

Init == stream \in Streams /\ avail = 0 /\ frames = <<>> /\ failed = FALSE

Arrive ==
  /\ avail < Horizon
  /\ avail' = avail + 1
  /\ UNCHANGED <<stream, frames, failed>>

Deliver ==
  /\ ~failed
  /\ \E p \in Resume .. avail - 1 :
       LET fr == [at |-> p, octets |-> stream[p].octets]
       IN  /\ stream[p].octets > 0
           /\ \A q \in Resume .. p - 1 : stream[q].octets = 0
           /\ End(fr) <= avail
           /\ frames' = Append(frames, fr)
  /\ UNCHANGED <<stream, avail, failed>>

Fail ==
  /\ failed' = TRUE
  /\ UNCHANGED <<stream, avail, frames>>

Next == Arrive \/ Deliver \/ Fail

\* A frame all of whose bits have arrived is delivered, or the receiver fails.
Spec == Init /\ [][Next]_vars /\ WF_vars(Deliver)
=============================================================================
