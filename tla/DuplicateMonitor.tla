--------------------------- MODULE DuplicateMonitor ---------------------------
(***************************************************************************)
(* The block pdu_duplicate_monitor: every channel receiver publishes its   *)
(* frames into it, and it counts the frames that equal one of the last     *)
(* d_history frames handled less than d_window_ms before.                  *)
(*                                                                         *)
(* "Before" is measured when a frame is handled, not when it was received: *)
(* what waits in the port while the block's thread is not scheduled ages   *)
(* there.  Latency is how long that can take, an assumption on the host.   *)
(* A frame is one value; the channel it came on is only logged.            *)
(*                                                                         *)
(* Definitions named Op_fault are seeded faults of Op, used by no action.  *)
(***************************************************************************)
EXTENDS Integers, Sequences

CONSTANTS
  Frames,     \* what a frame can be
  Window,     \* d_window_ms, in ticks of the clock
  History,    \* d_history
  Latency,    \* ticks a frame waits in the port at most
  MaxTime     \* bound: the clock stops here

VARIABLES
  clock,      \* CLOCK_MONOTONIC, in ticks
  port,       \* frames queued in the message port, with the time they came
  recent,     \* d_recent
  duplicates, \* d_duplicates
  heard,      \* history: every frame handled, when it came and was handled
  reported    \* history: which of them were counted

InitMonitor ==
  /\ clock = 0
  /\ port = <<>>
  /\ recent = <<>>
  /\ duplicates = 0
  /\ heard = <<>>
  /\ reported = {}

\* A channel receiver publishes a frame.
Enqueue(frame) ==
  /\ port' = Append(port, [frame |-> frame, came |-> clock])
  /\ UNCHANGED <<clock, recent, duplicates, heard, reported>>

\* Time passes, but never so much that a frame waits longer than Latency.
Tick ==
  /\ clock < MaxTime
  /\ port # <<>> => clock < Head(port).came + Latency
  /\ clock' = clock + 1
  /\ UNCHANGED <<port, recent, duplicates, heard, reported>>

-----------------------------------------------------------------------------
(* handle_msg                                                               *)

\* An earlier frame that the frame handled now repeats.
Repeats_anyTime(earlier, frame) == earlier.frame = frame
Repeats_within(earlier, frame) ==
  clock - earlier.arrived <= Window /\ earlier.frame = frame
Repeats(earlier, frame) ==
  clock - earlier.arrived < Window /\ earlier.frame = frame

\* push_back, then pop_front while there are more than d_history.
Remember_newOnly(frame) ==
  LET pushed == Append(recent, [frame |-> frame, arrived |-> clock])
  IN IF \E i \in 1 .. Len(recent) : Repeats(recent[i], frame) THEN recent
     ELSE IF Len(pushed) > History THEN Tail(pushed) ELSE pushed
Remember_unbounded(frame) ==
  Append(recent, [frame |-> frame, arrived |-> clock])
Remember(frame) ==
  LET pushed == Append(recent, [frame |-> frame, arrived |-> clock])
  IN IF Len(pushed) > History THEN Tail(pushed) ELSE pushed

Handle ==
  /\ port # <<>>
  /\ LET frame == Head(port).frame
         again == \E i \in 1 .. Len(recent) : Repeats(recent[i], frame)
     IN /\ port' = Tail(port)
        /\ recent' = Remember(frame)
        /\ duplicates' = duplicates + (IF again THEN 1 ELSE 0)
        /\ heard' = Append(heard, [frame |-> frame, came |-> Head(port).came,
                                   arrived |-> clock])
        /\ reported' = reported \cup (IF again THEN {Len(heard) + 1} ELSE {})
        /\ UNCHANGED clock
=============================================================================
