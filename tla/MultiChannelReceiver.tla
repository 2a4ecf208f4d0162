------------------------ MODULE MultiChannelReceiver ------------------------
(***************************************************************************)
(* Behind the channel receivers of a multi_channel_receiver: every frame   *)
(* goes to the header block of its channel, from where it gets into the    *)
(* capture, and to the one duplicate monitor, which only warns             *)
(* (multi_channel_receiver.py:103-145).  Each of these blocks has a thread *)
(* of its own and handles a frame when it gets to it.                      *)
(***************************************************************************)
EXTENDS MultiChannelCapture

CONSTANTS
  Window,     \* d_window_ms, in ticks of the clock
  History,    \* d_history
  Latency,    \* ticks a frame waits in the monitor's port at most
  MaxTime,    \* bound: the clock stops here
  MaxHeard    \* bound: number of frames received on all channels

ASSUME MonitorConstants == {Window, History, Latency, MaxTime, MaxHeard} \subseteq Nat

VARIABLES clock, port, recent, duplicates, heard, reported

monitorVars == <<clock, port, recent, duplicates, heard, reported>>
receiverVars == <<vars, monitorVars>>

Monitor == INSTANCE DuplicateMonitor

ReceiverInit == Init /\ Monitor!InitMonitor

\* A channel receiver publishes a frame to both subscribers of its port.
Hear(ch, frame) ==
  /\ Len(heard) + Len(port) < MaxHeard
  /\ Receive(ch, frame)
  /\ Monitor!Enqueue(frame)

PublishBlock(ch) == Publish(ch) /\ UNCHANGED monitorVars

CountDuplicates == Monitor!Handle /\ UNCHANGED vars

PassTime == Monitor!Tick /\ UNCHANGED vars

ReceiverNext ==
  \/ \E ch \in Channels : PublishBlock(ch) \/ \E frame \in Frames : Hear(ch, frame)
  \/ CountDuplicates
  \/ PassTime

ReceiverSpec == ReceiverInit /\ [][ReceiverNext]_receiverVars

-----------------------------------------------------------------------------
(* Properties                                                               *)

\* Types of the variables: at most d_history frames are remembered.
ReceiverTypeOK ==
  /\ TypeOK
  /\ clock \in 0 .. MaxTime
  /\ port \in Seq([frame : Frames, came : 0 .. MaxTime])
  /\ recent \in Seq([frame : Frames, arrived : 0 .. MaxTime])
  /\ Len(recent) <= History
  /\ duplicates \in Nat
  /\ heard \in Seq([frame : Frames, came : 0 .. MaxTime, arrived : 0 .. MaxTime])
  /\ reported \subseteq 1 .. Len(heard)

Same(i, j) == heard[i].frame = heard[j].frame

\* duplicates() is the number of frames that were handled less than d_window_ms
\* after an equal one among the d_history before them (test_002, test_003 and
\* test_005): each once, however many it repeats.
DuplicatesCounted ==
  duplicates =
    Cardinality({i \in 1 .. Len(heard) :
      \E j \in 1 .. i - 1 :
        Same(i, j) /\ i - j <= History /\ heard[i].arrived - heard[j].arrived < Window})

\* Two copies of one transmission, which come at nearly the same time, are told
\* of as long as no d_history other frames are handled in between and the delay
\* in the port leaves them inside the window.
CopyReported ==
  \A i \in 1 .. Len(heard) : \A j \in 1 .. i - 1 :
    (Same(i, j) /\ i - j <= History /\ heard[i].came - heard[j].came + Latency < Window)
      => i \in reported

\* A retransmission, which comes later than the window and the delay in the
\* port together, is not told of: the window separates the two.
RetransmissionPasses ==
  \A i \in reported : \E j \in 1 .. i - 1 :
    Same(i, j) /\ heard[i].came - heard[j].came < Window + Latency
=============================================================================
