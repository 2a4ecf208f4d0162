---------------------- MODULE MultiChannelReceiverProofs ----------------------
(***************************************************************************)
(* Behind the channel receivers of a multi_channel_receiver: what the      *)
(* duplicate monitor reports, for any frames, window, history and delay in *)
(* its port, and what gets into the capture, for any channels and frames   *)
(* and every interleaving of their handlers.                               *)
(***************************************************************************)
EXTENDS MultiChannelReceiver, FiniteSetTheorems, SequenceTheorems, InductionLemmas,
        TLAPS

Time == 0 .. MaxTime
Waiting == [frame : Frames, came : Time]
Remembered == [frame : Frames, arrived : Time]
Heard == [frame : Frames, came : Time, arrived : Time]

MonitorTypes ==
  /\ clock \in Time
  /\ port \in Seq(Waiting)
  /\ recent \in Seq(Remembered)
  /\ heard \in Seq(Heard)

\* The port is a queue: what is in front came first, and none of it has waited
\* for longer than Latency.
PortInOrder ==
  /\ \A i, j \in 1 .. Len(port) : i <= j => port[i].came <= port[j].came
  /\ \A i \in 1 .. Len(port) : port[i].came <= clock /\ clock <= port[i].came + Latency

HandledInTime ==
  \A i \in 1 .. Len(heard) :
    heard[i].came <= heard[i].arrived /\ heard[i].arrived <= heard[i].came + Latency

\* d_recent holds the last d_history frames handled, or all of them.
Forgotten == Len(heard) - Len(recent)
RecentAreLast ==
  /\ Len(recent) <= History
  /\ Forgotten >= 0
  /\ Forgotten > 0 => Len(recent) = History
  /\ \A k \in 1 .. Len(recent) :
       /\ recent[k].frame = heard[Forgotten + k].frame
       /\ recent[k].arrived = heard[Forgotten + k].arrived

\* A frame is reported exactly if it repeats one of the last d_history frames
\* that was handled less than the window before.
RepeatsHeard(i, j) ==
  Same(i, j) /\ i - j <= History /\ heard[i].arrived - heard[j].arrived < Window
ReportedRepeat ==
  reported = {i \in 1 .. Len(heard) : \E j \in 1 .. i - 1 : RepeatsHeard(i, j)}
CountsReported == IsFiniteSet(reported) /\ duplicates = Cardinality(reported)

IInv ==
  /\ MonitorTypes /\ PortInOrder /\ HandledInTime
  /\ RecentAreLast /\ ReportedRepeat /\ CountsReported

-----------------------------------------------------------------------------
LEMMA ConstantTypes == Window \in Nat /\ History \in Nat /\ Latency \in Nat
  BY MonitorConstants

LEMMA TimeIsNatural == MaxTime \in Nat /\ Time \subseteq Nat
<1>1. MaxTime \in Nat
  BY MonitorConstants
<1> QED BY <1>1 DEF Time

LEMMA CameTypes ==
  ASSUME IInv, NEW i \in 1 .. Len(port)
  PROVE  port[i].frame \in Frames /\ port[i].came \in Time /\ port[i].came \in Nat
<1>1. port[i] \in Waiting
  BY DEF IInv, MonitorTypes
<1>2. QED
  BY <1>1, TimeIsNatural DEF Waiting

LEMMA RecentTypes ==
  ASSUME IInv, NEW i \in 1 .. Len(recent)
  PROVE  recent[i].arrived \in Nat
<1>1. recent[i] \in Remembered
  BY DEF IInv, MonitorTypes
<1>2. QED
  BY <1>1, TimeIsNatural DEF Remembered

LEMMA HeardTypes ==
  ASSUME IInv, NEW i \in 1 .. Len(heard)
  PROVE  heard[i].came \in Nat /\ heard[i].arrived \in Nat
<1>1. heard[i] \in Heard
  BY DEF IInv, MonitorTypes
<1>2. QED
  BY <1>1, TimeIsNatural DEF Heard

LEMMA InvariantInit == ReceiverInit => IInv
<1> SUFFICES ASSUME ReceiverInit PROVE IInv
  OBVIOUS
<1>1. /\ clock = 0 /\ port = <<>> /\ recent = <<>> /\ duplicates = 0
      /\ heard = <<>> /\ reported = {}
  BY DEF ReceiverInit, Monitor!InitMonitor
<1>2. MonitorTypes /\ PortInOrder /\ HandledInTime
  BY <1>1, TimeIsNatural DEF MonitorTypes, PortInOrder, HandledInTime, Time
<1>3. RecentAreLast
  BY <1>1, ConstantTypes DEF RecentAreLast, Forgotten
<1>4. ReportedRepeat
  BY <1>1 DEF ReportedRepeat
<1>5. CountsReported
  BY <1>1, FS_EmptySet DEF CountsReported
<1>6. QED
  BY <1>2, <1>3, <1>4, <1>5 DEF IInv

\* A frame goes into the port.
LEMMA HearStep ==
  ASSUME IInv, NEW ch \in Channels, NEW frame \in Frames, Hear(ch, frame)
  PROVE  IInv'
<1>1. /\ port' = Append(port, [frame |-> frame, came |-> clock])
      /\ clock' = clock /\ recent' = recent /\ duplicates' = duplicates
      /\ heard' = heard /\ reported' = reported
  BY DEF Hear, Monitor!Enqueue
<1>2. MonitorTypes'
  BY <1>1 DEF IInv, MonitorTypes, Waiting
<1>3. PortInOrder'
  <2>1. clock \in Time /\ clock \in Nat /\ port \in Seq(Waiting)
    BY TimeIsNatural DEF IInv, MonitorTypes
  <2>2. Len(port') = Len(port) + 1
    BY <1>1, <2>1
  <2>3. ASSUME NEW i \in 1 .. Len(port')
        PROVE  \/ i \in 1 .. Len(port) /\ port'[i] = port[i]
               \/ i = Len(port') /\ port'[i].came = clock
    BY <1>1, <2>1, <2>2
  <2>4. \A i \in 1 .. Len(port) : port[i].came \in Nat
    BY CameTypes
  <2>5. QED
    BY <1>1, <2>1, <2>2, <2>3, <2>4, ConstantTypes DEF IInv, PortInOrder
<1>4. HandledInTime' /\ RecentAreLast' /\ ReportedRepeat' /\ CountsReported'
  BY <1>1 DEF IInv, HandledInTime, RecentAreLast, Forgotten, ReportedRepeat,
              RepeatsHeard, Same, CountsReported
<1>5. QED
  BY <1>2, <1>3, <1>4 DEF IInv

\* Time passes.
LEMMA TickStep ==
  ASSUME IInv, PassTime
  PROVE  IInv'
<1>1. /\ port # <<>> => clock < Head(port).came + Latency
      /\ clock < MaxTime /\ clock' = clock + 1
      /\ port' = port /\ recent' = recent /\ duplicates' = duplicates
      /\ heard' = heard /\ reported' = reported
  BY DEF PassTime, Monitor!Tick
<1>2. MonitorTypes'
  BY <1>1, TimeIsNatural DEF IInv, MonitorTypes, Time
<1>3. PortInOrder'
  <2>1. clock \in Nat /\ port \in Seq(Waiting)
    BY TimeIsNatural DEF IInv, MonitorTypes
  <2>2. \A i \in 1 .. Len(port) : port[i].came \in Nat
    BY CameTypes
  <2>3. ASSUME NEW i \in 1 .. Len(port)
        PROVE  clock < port[i].came + Latency
    <3>1. port # <<>> /\ Head(port) = port[1] /\ 1 \in 1 .. Len(port) /\ 1 <= i
      BY <2>1
    <3>2. port[1].came <= port[i].came
      BY <3>1 DEF IInv, PortInOrder
    <3>3. QED
      BY <1>1, <2>1, <2>2, <3>1, <3>2, ConstantTypes
  <2>4. QED
    BY <1>1, <2>1, <2>2, <2>3, ConstantTypes DEF IInv, PortInOrder
<1>4. HandledInTime' /\ RecentAreLast' /\ ReportedRepeat' /\ CountsReported'
  BY <1>1 DEF IInv, HandledInTime, RecentAreLast, Forgotten, ReportedRepeat,
              RepeatsHeard, Same, CountsReported
<1>5. QED
  BY <1>2, <1>3, <1>4 DEF IInv

\* A frame is handled.
LEMMA HandleStep ==
  ASSUME IInv, CountDuplicates
  PROVE  IInv'
<1> DEFINE first == port[1]
           n == Len(heard)
           r == Len(recent)
           entry == [frame |-> first.frame, arrived |-> clock]
           pushed == Append(recent, entry)
           again == \E k \in 1 .. r :
                      clock - recent[k].arrived < Window /\ recent[k].frame = first.frame
           RepeatsNow(i, j) == /\ heard'[i].frame = heard'[j].frame /\ i - j <= History
                               /\ heard'[i].arrived - heard'[j].arrived < Window
<1>1. /\ clock \in Time /\ clock \in Nat /\ port \in Seq(Waiting)
      /\ recent \in Seq(Remembered) /\ heard \in Seq(Heard)
      /\ n \in Nat /\ r \in Nat
  BY TimeIsNatural DEF IInv, MonitorTypes
<1>2. port # <<>> /\ Head(port) = first /\ 1 \in 1 .. Len(port)
  BY <1>1 DEF CountDuplicates, Monitor!Handle
<1>3. /\ port' = Tail(port) /\ clock' = clock
      /\ recent' = IF Len(pushed) > History THEN Tail(pushed) ELSE pushed
      /\ duplicates' = duplicates + (IF again THEN 1 ELSE 0)
      /\ heard' = Append(heard, [frame |-> first.frame, came |-> first.came,
                                 arrived |-> clock])
      /\ reported' = reported \cup (IF again THEN {n + 1} ELSE {})
  BY <1>2 DEF CountDuplicates, Monitor!Handle, Monitor!Remember, Monitor!Repeats
<1>4. first.frame \in Frames /\ first.came \in Time /\ first.came \in Nat
  BY <1>2, CameTypes
<1> HIDE DEF first
<1>5. entry \in Remembered /\ entry.frame = first.frame /\ entry.arrived = clock
  BY <1>1, <1>4 DEF Remembered
<1>6. /\ Len(heard') = n + 1
      /\ \A i \in 1 .. n : heard'[i] = heard[i]
      /\ heard'[n + 1].frame = first.frame
      /\ heard'[n + 1].came = first.came
      /\ heard'[n + 1].arrived = clock
  BY <1>1, <1>3
<1>7. MonitorTypes'
  <2>1. heard' \in Seq(Heard)
    BY <1>1, <1>3, <1>4 DEF Heard
  <2>2. pushed \in Seq(Remembered) /\ pushed # <<>>
    <3> HIDE DEF entry
    <3> QED BY <1>1, <1>5, AppendProperties
  <2>3. recent' \in Seq(Remembered)
    BY <1>3, <2>2
  <2>4. port' \in Seq(Waiting)
    BY <1>1, <1>2, <1>3
  <2>5. QED
    BY <1>1, <1>3, <2>1, <2>3, <2>4 DEF MonitorTypes
<1>8. PortInOrder'
  <2>1. /\ Len(port') = Len(port) - 1
        /\ \A i \in 1 .. Len(port') : port'[i] = port[i + 1] /\ i + 1 \in 1 .. Len(port)
    BY <1>1, <1>2, <1>3
  <2>2. QED
    BY <1>1, <1>3, <2>1 DEF IInv, PortInOrder
<1>9. HandledInTime'
  <2>1. first.came <= clock /\ clock <= first.came + Latency
    BY <1>2 DEF IInv, PortInOrder, first
  <2>2. QED
    BY <1>1, <1>6, <2>1 DEF IInv, HandledInTime
<1>10. RecentAreLast'
  <2>1. /\ Len(pushed) = r + 1
        /\ \A k \in 1 .. r : pushed[k] = recent[k]
        /\ pushed[r + 1] = entry
    BY <1>1
  <2>2. /\ r <= History /\ n - r >= 0 /\ (n - r > 0 => r = History)
        /\ \A k \in 1 .. r : /\ recent[k].frame = heard[n - r + k].frame
                            /\ recent[k].arrived = heard[n - r + k].arrived
    BY DEF IInv, RecentAreLast, Forgotten
  <2>3. \A k \in 1 .. r + 1 : /\ pushed[k].frame = heard'[n - r + k].frame
                              /\ pushed[k].arrived = heard'[n - r + k].arrived
    <3> SUFFICES ASSUME NEW k \in 1 .. r + 1
                 PROVE  /\ pushed[k].frame = heard'[n - r + k].frame
                        /\ pushed[k].arrived = heard'[n - r + k].arrived
      OBVIOUS
    <3> HIDE DEF pushed, entry
    <3>1. CASE k \in 1 .. r
      <4>1. n - r + k \in 1 .. n
        BY <1>1, <2>2, <3>1
      <4>2. QED
        BY <1>6, <2>1, <2>2, <3>1, <4>1
    <3>2. CASE k = r + 1
      <4>1. n - r + k = n + 1
        BY <1>1, <3>2
      <4>2. QED
        BY <1>5, <1>6, <2>1, <3>2, <4>1
    <3>3. QED
      BY <1>1, <3>1, <3>2
  <2>4. CASE r + 1 > History
    <3>1. recent' = Tail(pushed)
      BY <1>3, <2>1, <2>4
    <3> HIDE DEF entry
    <3>2. pushed \in Seq(Remembered) /\ pushed # <<>>
      BY <1>1, <1>5, AppendProperties
    <3> HIDE DEF pushed
    <3>3. /\ Len(recent') = r
          /\ \A k \in 1 .. r : recent'[k] = pushed[k + 1]
      BY <1>1, <2>1, <3>1, <3>2
    <3>4. Forgotten' = n - r + 1
      BY <1>1, <1>6, <3>3 DEF Forgotten
    <3>5. ASSUME NEW k \in 1 .. r
          PROVE  /\ recent'[k].frame = heard'[Forgotten' + k].frame
                 /\ recent'[k].arrived = heard'[Forgotten' + k].arrived
      <4>1. k + 1 \in 1 .. r + 1 /\ n - r + (k + 1) = Forgotten' + k
        BY <1>1, <3>4
      <4>2. QED
        BY <2>3, <3>3, <4>1
    <3>6. /\ Len(recent') <= History /\ Forgotten' >= 0
          /\ Forgotten' > 0 => Len(recent') = History
      BY <1>1, <2>2, <2>4, <3>3, <3>4, ConstantTypes
    <3>7. QED
      BY <3>3, <3>5, <3>6 DEF RecentAreLast
  <2>5. CASE r + 1 <= History
    <3>1. recent' = pushed
      BY <1>1, <1>3, <2>1, <2>5, ConstantTypes
    <3>2. Len(recent') = r + 1
      BY <2>1, <3>1
    <3>3. Forgotten' = n - r
      BY <1>1, <1>6, <3>2 DEF Forgotten
    <3> HIDE DEF pushed, entry
    <3>4. n = r
      BY <1>1, <2>2, <2>5, ConstantTypes
    <3>5. QED
      BY <1>1, <2>2, <2>3, <2>5, <3>1, <3>2, <3>3, <3>4, ConstantTypes DEF RecentAreLast
  <2>6. QED
    BY <1>1, <2>4, <2>5, ConstantTypes
<1>11. again <=> \E j \in 1 .. n : RepeatsNow(n + 1, j)
  <2>1. /\ r <= History /\ n - r >= 0 /\ (n - r > 0 => r = History)
        /\ \A k \in 1 .. r : /\ recent[k].frame = heard[n - r + k].frame
                            /\ recent[k].arrived = heard[n - r + k].arrived
    BY DEF IInv, RecentAreLast, Forgotten
  <2>2. ASSUME NEW j \in 1 .. n
        PROVE  RepeatsNow(n + 1, j) <=>
                 /\ heard[j].frame = first.frame
                 /\ n + 1 - j <= History
                 /\ clock - heard[j].arrived < Window
    BY <1>6
  <2>3. ASSUME again PROVE \E j \in 1 .. n : RepeatsNow(n + 1, j)
    <3>1. PICK k \in 1 .. r :
            clock - recent[k].arrived < Window /\ recent[k].frame = first.frame
      BY <2>3
    <3>2. n - r + k \in 1 .. n /\ n + 1 - (n - r + k) <= History
      BY <1>1, <2>1, ConstantTypes
    <3>3. QED
      BY <2>1, <2>2, <3>1, <3>2
  <2>4. ASSUME NEW j \in 1 .. n, RepeatsNow(n + 1, j) PROVE again
    <3>1. j - (n - r) \in 1 .. r /\ n - r + (j - (n - r)) = j
      BY <1>1, <2>1, <2>2, <2>4, ConstantTypes
    <3>2. QED
      BY <2>1, <2>2, <2>4, <3>1
  <2> HIDE DEF again
  <2>5. QED
    BY <2>3, <2>4
<1> HIDE DEF again
<1>12. ReportedRepeat'
  <2>1. \A i, j \in 1 .. n : RepeatsNow(i, j) <=> RepeatsHeard(i, j)
    BY <1>6 DEF RepeatsHeard, Same
  <2>2. reported = {i \in 1 .. n : \E j \in 1 .. i - 1 : RepeatsHeard(i, j)}
    BY DEF IInv, ReportedRepeat
  <2>3. ASSUME NEW i \in 1 .. n
        PROVE  i \in reported <=> \E j \in 1 .. i - 1 : RepeatsNow(i, j)
    BY <1>1, <2>1, <2>2
  <2>4. n + 1 \in reported' <=> \E j \in 1 .. n : RepeatsNow(n + 1, j)
    BY <1>1, <1>3, <1>11, <2>2
  <2>5. ASSUME NEW i \in 1 .. n + 1
        PROVE  i \in reported' <=> \E j \in 1 .. i - 1 : RepeatsNow(i, j)
    <3>1. CASE i = n + 1
      <4>1. n + 1 - 1 = n
        BY <1>1
      <4>2. QED
        BY <2>4, <3>1, <4>1
    <3>2. CASE i # n + 1
      <4>1. i \in 1 .. n /\ (i \in reported' <=> i \in reported)
        BY <1>1, <1>3, <3>2
      <4>2. QED
        BY <2>3, <4>1
    <3>3. QED
      BY <3>1, <3>2
  <2>6. reported' \subseteq 1 .. n + 1
    BY <1>1, <1>3, <2>2
  <2>7. reported' = {i \in 1 .. n + 1 : \E j \in 1 .. i - 1 : RepeatsNow(i, j)}
    BY <2>5, <2>6
  <2>8. QED
    BY <1>6, <2>7 DEF ReportedRepeat, RepeatsHeard, Same
<1>13. CountsReported'
  <2>1. IsFiniteSet(reported) /\ duplicates = Cardinality(reported)
    BY DEF IInv, CountsReported
  <2>2. n + 1 \notin reported
    BY <1>1 DEF IInv, ReportedRepeat
  <2>3. CASE again
    <3>1. reported' = reported \cup {n + 1} /\ duplicates' = duplicates + 1
      BY <1>3, <2>3
    <3>2. QED
      BY <2>1, <2>2, <3>1, FS_AddElement DEF CountsReported
  <2>4. CASE ~again
    <3>1. Cardinality(reported) \in Nat
      BY <2>1, FS_CardinalityType
    <3>2. reported' = reported /\ duplicates' = duplicates
      BY <1>3, <2>1, <2>4, <3>1
    <3>3. QED
      BY <2>1, <3>2 DEF CountsReported
  <2>5. QED
    BY <2>3, <2>4
<1>14. QED
  BY <1>7, <1>8, <1>9, <1>10, <1>12, <1>13 DEF IInv

LEMMA Invariant == ReceiverSpec => []IInv
<1>1. IInv /\ [ReceiverNext]_receiverVars => IInv'
  <2> SUFFICES ASSUME IInv, [ReceiverNext]_receiverVars
               PROVE  IInv'
    OBVIOUS
  <2>1. CASE UNCHANGED monitorVars
    BY <2>1 DEF monitorVars, IInv, MonitorTypes, PortInOrder, HandledInTime,
                RecentAreLast, Forgotten, ReportedRepeat, RepeatsHeard, Same, CountsReported
  <2>2. CASE \E ch \in Channels : PublishBlock(ch)
    BY <2>1, <2>2 DEF PublishBlock
  <2>3. CASE \E ch \in Channels, frame \in Frames : Hear(ch, frame)
    BY <2>3, HearStep
  <2>4. CASE CountDuplicates
    BY <2>4, HandleStep
  <2>5. CASE PassTime
    BY <2>5, TickStep
  <2>6. CASE UNCHANGED receiverVars
    BY <2>1, <2>6 DEF receiverVars
  <2>7. QED
    BY <2>2, <2>3, <2>4, <2>5, <2>6 DEF ReceiverNext
<1>2. QED
  BY InvariantInit, <1>1, PTL DEF ReceiverSpec

-----------------------------------------------------------------------------
\* duplicates() is the number of frames that repeat one of the d_history before
\* them inside the window (handle_msg of pdu_duplicate_monitor).
THEOREM CountIsExact == ReceiverSpec => []DuplicatesCounted
<1>1. IInv => DuplicatesCounted
  BY DEF IInv, ReportedRepeat, CountsReported, RepeatsHeard, DuplicatesCounted
<1>2. QED
  BY Invariant, <1>1, PTL

\* Copies that come together are reported, whatever the delay in the port, as long
\* as it leaves them inside the window.
THEOREM CopiesReported == ReceiverSpec => []CopyReported
<1>1. ASSUME IInv, NEW i \in 1 .. Len(heard), NEW j \in 1 .. i - 1,
             Same(i, j), i - j <= History, heard[i].came - heard[j].came + Latency < Window
      PROVE  i \in reported
  <2>1. Len(heard) \in Nat
    BY <1>1 DEF IInv, MonitorTypes
  <2>2. j \in 1 .. Len(heard)
    BY <2>1
  <2>3. /\ heard[i].came \in Nat /\ heard[i].arrived \in Nat
        /\ heard[j].came \in Nat /\ heard[j].arrived \in Nat
    BY <1>1, <2>2, HeardTypes
  <2>4. heard[i].arrived <= heard[i].came + Latency /\ heard[j].came <= heard[j].arrived
    BY <1>1, <2>2 DEF IInv, HandledInTime
  <2>5. heard[i].arrived - heard[j].arrived < Window
    BY <1>1, <2>3, <2>4, ConstantTypes
  <2>6. QED
    BY <1>1, <2>5 DEF IInv, ReportedRepeat, RepeatsHeard
<1>2. IInv => CopyReported
  BY <1>1 DEF CopyReported
<1>3. QED
  BY Invariant, <1>2, PTL

\* What is reported came less than the window and the delay in the port behind an
\* equal frame: a later retransmission is not.
THEOREM RetransmissionsPass == ReceiverSpec => []RetransmissionPasses
<1>1. ASSUME IInv, NEW i \in reported
      PROVE  \E j \in 1 .. i - 1 : Same(i, j) /\ heard[i].came - heard[j].came < Window + Latency
  <2>1. Len(heard) \in Nat
    BY <1>1 DEF IInv, MonitorTypes
  <2>2. i \in 1 .. Len(heard) /\ \E j \in 1 .. i - 1 : RepeatsHeard(i, j)
    BY <1>1 DEF IInv, ReportedRepeat
  <2>3. PICK j \in 1 .. i - 1 : RepeatsHeard(i, j)
    BY <2>2
  <2>4. j \in 1 .. Len(heard)
    BY <2>1, <2>2
  <2>5. /\ heard[i].came \in Nat /\ heard[i].arrived \in Nat
        /\ heard[j].came \in Nat /\ heard[j].arrived \in Nat
    BY <1>1, <2>2, <2>4, HeardTypes
  <2>6. heard[i].came <= heard[i].arrived /\ heard[j].arrived <= heard[j].came + Latency
    BY <1>1, <2>2, <2>4 DEF IInv, HandledInTime
  <2>7. heard[i].came - heard[j].came < Window + Latency
    BY <2>3, <2>5, <2>6, ConstantTypes DEF RepeatsHeard
  <2>8. QED
    BY <2>3, <2>7 DEF RepeatsHeard
<1>2. IInv => RetransmissionPasses
  BY <1>1 DEF RetransmissionPasses
<1>3. QED
  BY Invariant, <1>2, PTL

-----------------------------------------------------------------------------
(***************************************************************************)
(* The capture.                                                            *)
(***************************************************************************)

\* The leading blocks are out before the first packet is, and only if they are
\* asked for.
LeadingFirst ==
  \A ch \in Channels :
    /\ handled[ch] > 0 => /\ PrependSection => sectionDone[ch]
                          /\ PrependInterface => interfaceDone[ch]
    /\ sectionDone[ch] => PrependSection
    /\ interfaceDone[ch] => PrependInterface

\* A channel has one SHB; its IDB comes behind it, and its packets behind that.
SectionIsOpen(i) ==
  PrependSection =>
    \E s \in 1 .. i - 1 : capture[s].kind = "SHB" /\ capture[s].channel = capture[i].channel
InterfaceIsKnown(i) ==
  PrependInterface =>
    \E d \in 1 .. i - 1 : capture[d].kind = "IDB" /\ capture[d].channel = capture[i].channel
BlocksInOrder ==
  /\ \A i \in 1 .. Len(capture) :
       /\ capture[i].kind = "SHB" => sectionDone[capture[i].channel]
       /\ capture[i].kind = "IDB" =>
            interfaceDone[capture[i].channel] /\ SectionIsOpen(i)
       /\ capture[i].kind = "EPB" => InterfaceIsKnown(i)
  /\ \A i, j \in 1 .. Len(capture) :
       (/\ capture[i].kind = "SHB" /\ capture[j].kind = "SHB"
        /\ capture[i].channel = capture[j].channel) => i = j
  /\ \A ch \in Channels :
       /\ sectionDone[ch] =>
            \E s \in 1 .. Len(capture) : capture[s].kind = "SHB" /\ capture[s].channel = ch
       /\ interfaceDone[ch] =>
            \E d \in 1 .. Len(capture) : capture[d].kind = "IDB" /\ capture[d].channel = ch

CaptureInv == TypeOK /\ LeadingFirst /\ BlocksInOrder /\ FramesRecorded

LEMMA BlockFields ==
  ASSUME NEW b \in Block
  PROVE  b.kind \in {"SHB", "IDB", "EPB"} /\ b.channel \in Channels
  BY DEF Block

\* What a channel has recorded is a sequence of blocks of its own.
LEMMA RecordedIsASeq ==
  ASSUME TypeOK, NEW ch \in Channels
  PROVE  /\ Leading(ch) \in Seq(Block)
         /\ Recorded(ch) \in Seq(Block)
         /\ Recorded(ch) = Leading(ch) \o [i \in 1 .. handled[ch] |-> Packet(ch, received[ch][i])]
         /\ [i \in 1 .. handled[ch] |-> Packet(ch, received[ch][i])] \in Seq(Block)
<1>1. Section(ch) \in Block /\ Interface(ch) \in Block
  BY DEF Section, Interface, Block
<1>2. /\ handled[ch] \in Nat /\ handled[ch] <= Len(received[ch])
      /\ received[ch] \in Seq(Frames)
  BY DEF TypeOK
<1>3. \A i \in 1 .. handled[ch] : Packet(ch, received[ch][i]) \in Block
  <2>1. \A i \in 1 .. handled[ch] : received[ch][i] \in Frames
    BY <1>2
  <2> QED BY <2>1 DEF Packet, Block
<1>4. [i \in 1 .. handled[ch] |-> Packet(ch, received[ch][i])] \in Seq(Block)
  BY <1>2, <1>3, IsASeq
<1>5. Leading(ch) \in Seq(Block)
  <2>1. <<>> \in Seq(Block) /\ <<Section(ch)>> \in Seq(Block) /\ <<Interface(ch)>> \in Seq(Block)
    BY <1>1
  <2> QED BY <2>1, ConcatProperties DEF Leading
<1> QED BY <1>4, <1>5, ConcatProperties DEF Recorded

\* Channel ch puts block b into the stream and adds it to what it has recorded.
Puts(ch, b) ==
  /\ b \in Block /\ b.channel = ch
  /\ capture' = Append(capture, b)
  /\ Recorded(ch)' = Append(Recorded(ch), b)
  /\ \A d \in Channels : d # ch => Recorded(d)' = Recorded(d)

LEMMA ChannelPlaces ==
  ASSUME capture \in Seq(Block), NEW ch
  PROVE  /\ IsFiniteSet(PlacesOf(ch))
         /\ \A i \in 1 .. Len(capture) :
              LET before == {j \in PlacesOf(ch) : j <= i}
              IN  IsFiniteSet(before) /\ Cardinality(before) \in Nat
<1>1. IsFiniteSet(1 .. Len(capture))
  BY FS_Interval
<1>2. IsFiniteSet(PlacesOf(ch))
  BY <1>1, FS_Subset DEF PlacesOf
<1> QED BY <1>2, FS_Subset, FS_CardinalityType

\* Every block so far keeps its rank, and the new one is the last of its channel.
LEMMA PutRecords ==
  ASSUME TypeOK, FramesRecorded, NEW ch \in Channels, NEW b, Puts(ch, b)
  PROVE  FramesRecorded'
<1>0. PICK n : n = Len(capture)
  OBVIOUS
<1> DEFINE OldPlaces(d) == {i \in 1 .. n : capture[i].channel = d}
           NewPlaces(d) == {i \in 1 .. n + 1 : capture'[i].channel = d}
           Before(P, i) == {j \in P : j <= i}
<1>1. /\ n \in Nat /\ Len(capture') = n + 1
      /\ \A i \in 1 .. n : capture'[i] = capture[i]
      /\ capture'[n + 1] = b /\ b.channel = ch
      /\ capture \in Seq(Block)
  BY <1>0 DEF TypeOK, Puts
<1>2. /\ \A d \in Channels : PlacesOf(d) = OldPlaces(d) /\ PlacesOf(d)' = NewPlaces(d)
      /\ \A d \in Channels : IsFiniteSet(OldPlaces(d))
  BY <1>0, <1>1, ChannelPlaces DEF PlacesOf
<1>3. \A d \in Channels : NewPlaces(d) = IF d = ch THEN OldPlaces(d) \cup {n + 1} ELSE OldPlaces(d)
  BY <1>1
<1>4. /\ \A i \in 1 .. n : Rank(i) = Cardinality(Before(OldPlaces(capture[i].channel), i))
      /\ \A i \in 1 .. n + 1 : Rank(i)' = Cardinality(Before(NewPlaces(capture'[i].channel), i))
  BY <1>0, <1>1 DEF Rank, PlacesOf
<1>5. ASSUME NEW i \in 1 .. n PROVE Rank(i)' = Rank(i)
  <2>1. capture[i].channel \in Channels
    BY <1>0, <1>1, BlockFields
  <2>2. Before(NewPlaces(capture[i].channel), i) = Before(OldPlaces(capture[i].channel), i)
    BY <1>1, <1>3, <2>1
  <2> HIDE DEF Before, NewPlaces, OldPlaces
  <2> QED BY <1>1, <1>4, <2>2
<1>6. Cardinality(NewPlaces(ch)) = Cardinality(OldPlaces(ch)) + 1
  <2>1. n + 1 \notin OldPlaces(ch)
    BY <1>1
  <2> HIDE DEF NewPlaces, OldPlaces
  <2> QED BY <1>2, <1>3, <2>1, FS_AddElement
<1>7. Rank(n + 1)' = Cardinality(NewPlaces(ch))
  <2>1. Before(NewPlaces(ch), n + 1) = NewPlaces(ch)
    BY <1>1
  <2>2. n + 1 \in 1 .. n + 1 /\ capture'[n + 1].channel = ch
    BY <1>1
  <2> HIDE DEF Before, NewPlaces, OldPlaces
  <2>3. Rank(n + 1)' = Cardinality(Before(NewPlaces(capture'[n + 1].channel), n + 1))
    BY <1>4, <2>2
  <2> QED BY <2>1, <2>2, <2>3
<1>8. \A d \in Channels :
        /\ Cardinality(OldPlaces(d)) = Len(Recorded(d))
        /\ \A i \in OldPlaces(d) : capture[i] = Recorded(d)[Rank(i)]
  <2> HIDE DEF OldPlaces
  <2> QED BY <1>2 DEF FramesRecorded
<1>9. \A d \in Channels : Recorded(d) \in Seq(Block)
  BY RecordedIsASeq
<1>10. ASSUME NEW d \in Channels, d # ch
       PROVE  /\ Cardinality(PlacesOf(d)') = Len(Recorded(d)')
              /\ \A i \in PlacesOf(d)' : capture'[i] = Recorded(d)'[Rank(i)']
  <2>1. PlacesOf(d)' = OldPlaces(d) /\ Recorded(d)' = Recorded(d)
    <3> HIDE DEF OldPlaces, NewPlaces
    <3> QED BY <1>2, <1>3, <1>10 DEF Puts
  <2>2. ASSUME NEW i \in OldPlaces(d) PROVE i \in 1 .. n
    OBVIOUS
  <2> HIDE DEF OldPlaces
  <2> QED BY <1>1, <1>5, <1>8, <2>1, <2>2
<1>11. /\ Cardinality(PlacesOf(ch)') = Len(Recorded(ch)')
       /\ \A i \in PlacesOf(ch)' : capture'[i] = Recorded(ch)'[Rank(i)']
  <2> DEFINE recorded == Recorded(ch)
             m == Len(recorded)
  <2>1. /\ Recorded(ch)' = Append(recorded, b) /\ b \in Block /\ recorded \in Seq(Block)
    BY <1>9 DEF Puts
  <2> HIDE DEF recorded
  <2>2. /\ Len(Recorded(ch)') = m + 1 /\ m \in Nat
        /\ \A k \in 1 .. m : Recorded(ch)'[k] = recorded[k]
        /\ Recorded(ch)'[m + 1] = b
    BY <2>1, AppendProperties, LenProperties
  <2>3. Cardinality(OldPlaces(ch)) = m
    <3> HIDE DEF OldPlaces
    <3> QED BY <1>8 DEF recorded
  <2>4. ASSUME NEW i \in OldPlaces(ch) PROVE Rank(i) \in 1 .. m
    <3>1. i \in 1 .. n /\ capture[i].channel = ch
      OBVIOUS
    <3> DEFINE before == Before(OldPlaces(ch), i)
    <3>2. before \subseteq OldPlaces(ch) /\ i \in before
      BY <3>1
    <3>3. Rank(i) = Cardinality(before)
      <4> HIDE DEF Before, OldPlaces
      <4> QED BY <1>4, <3>1
    <3> HIDE DEF before, OldPlaces
    <3>4. IsFiniteSet(OldPlaces(ch))
      BY <1>2
    <3>5. IsFiniteSet(before) /\ Cardinality(before) <= m
      BY <2>3, <3>2, <3>4, FS_Subset
    <3>6. Cardinality(before) \in Nat /\ Cardinality(before) # 0
      BY <3>2, <3>5, FS_CardinalityType, FS_EmptySet
    <3> QED BY <2>2, <3>3, <3>5, <3>6
  <2>5. Cardinality(PlacesOf(ch)') = m + 1
    <3> HIDE DEF OldPlaces, NewPlaces
    <3> QED BY <1>2, <1>6, <2>3
  <2>6. ASSUME NEW i \in PlacesOf(ch)' PROVE capture'[i] = Recorded(ch)'[Rank(i)']
    <3>1. i \in OldPlaces(ch) \/ i = n + 1
      <4> HIDE DEF OldPlaces, NewPlaces
      <4> QED BY <1>2, <1>3
    <3>2. CASE i \in OldPlaces(ch)
      <4>1. i \in 1 .. n
        BY <3>2
      <4>2. capture[i] = recorded[Rank(i)] /\ Rank(i) \in 1 .. m
        <5> HIDE DEF OldPlaces
        <5> QED BY <1>8, <2>4, <3>2 DEF recorded
      <4> HIDE DEF OldPlaces
      <4> QED BY <1>1, <1>5, <2>2, <4>1, <4>2
    <3>3. CASE i = n + 1
      <4> HIDE DEF OldPlaces, NewPlaces
      <4>1. Rank(n + 1)' = m + 1
        BY <1>7, <1>6, <2>3
      <4>2. capture'[n + 1] = b
        BY <1>1
      <4> HIDE DEF m
      <4> QED BY <2>2, <3>3, <4>1, <4>2
    <3> QED BY <3>1, <3>2, <3>3
  <2> QED BY <2>2, <2>5, <2>6
<1>12. Channels' = Channels
  OBVIOUS
<1> QED BY <1>10, <1>11 DEF FramesRecorded
\* A block that fits behind the ones of its channel keeps the order.
LEMMA PutInOrder ==
  ASSUME TypeOK, BlocksInOrder, NEW ch \in Channels, NEW b, Puts(ch, b),
         b.kind = "SHB" => ~sectionDone[ch],
         b.kind = "IDB" => (PrependSection => sectionDone[ch]),
         b.kind = "EPB" => (PrependInterface => interfaceDone[ch]),
         sectionDone' = [sectionDone EXCEPT ![ch] = @ \/ b.kind = "SHB"],
         interfaceDone' = [interfaceDone EXCEPT ![ch] = @ \/ b.kind = "IDB"]
  PROVE  BlocksInOrder'
<1>0. PICK n : n = Len(capture)
  OBVIOUS
<1>1. /\ n \in Nat /\ Len(capture') = n + 1
      /\ \A i \in 1 .. n : capture'[i] = capture[i]
      /\ capture'[n + 1] = b /\ b.channel = ch
      /\ capture \in Seq(Block)
  BY <1>0 DEF TypeOK, Puts
<1>2. \A i \in 1 .. n : capture[i].channel \in Channels
  BY <1>0, <1>1, BlockFields
<1>3. /\ \A d \in Channels : sectionDone[d] => sectionDone'[d]
      /\ \A d \in Channels : interfaceDone[d] => interfaceDone'[d]
      /\ b.kind = "SHB" => sectionDone'[ch]
      /\ b.kind = "IDB" => interfaceDone'[ch]
      /\ sectionDone'[ch] => sectionDone[ch] \/ b.kind = "SHB"
      /\ interfaceDone'[ch] => interfaceDone[ch] \/ b.kind = "IDB"
      /\ \A d \in Channels : d # ch => /\ sectionDone'[d] => sectionDone[d]
                                       /\ interfaceDone'[d] => interfaceDone[d]
  BY DEF TypeOK
<1>4. ASSUME NEW i \in 1 .. n + 1
      PROVE  /\ capture'[i].kind = "SHB" => sectionDone'[capture'[i].channel]
             /\ capture'[i].kind = "IDB" =>
                  interfaceDone'[capture'[i].channel] /\ SectionIsOpen(i)'
             /\ capture'[i].kind = "EPB" => InterfaceIsKnown(i)'
  <2>1. CASE i \in 1 .. n
    <3>1. \A k \in 1 .. i - 1 : capture'[k] = capture[k]
      BY <1>1, <2>1
    <3>2. capture'[i] = capture[i]
      BY <1>1, <2>1
    <3>3. (SectionIsOpen(i)' <=> SectionIsOpen(i)) /\ (InterfaceIsKnown(i)' <=> InterfaceIsKnown(i))
      BY <3>1, <3>2 DEF SectionIsOpen, InterfaceIsKnown
    <3> QED BY <1>0, <1>2, <1>3, <2>1, <3>2, <3>3 DEF BlocksInOrder
  <2>2. CASE i = n + 1
    <3>1. capture'[i] = b /\ i - 1 = n
      BY <1>1, <2>2
    <3>2. ASSUME b.kind = "IDB" PROVE SectionIsOpen(i)'
      BY <1>0, <1>1, <3>1, <3>2 DEF BlocksInOrder, SectionIsOpen
    <3>3. ASSUME b.kind = "EPB" PROVE InterfaceIsKnown(i)'
      BY <1>0, <1>1, <3>1, <3>3 DEF BlocksInOrder, InterfaceIsKnown
    <3> QED BY <1>1, <1>3, <3>1, <3>2, <3>3
  <2> QED BY <1>1, <2>1, <2>2
<1>5. ASSUME NEW i \in 1 .. n + 1, NEW j \in 1 .. n + 1,
             capture'[i].kind = "SHB", capture'[j].kind = "SHB",
             capture'[i].channel = capture'[j].channel
      PROVE  i = j
  <2>1. \A k \in 1 .. n : capture[k].kind = "SHB" => sectionDone[capture[k].channel]
    BY <1>0 DEF BlocksInOrder
  <2>2. CASE i \in 1 .. n /\ j \in 1 .. n
    BY <1>0, <1>1, <1>5, <2>2 DEF BlocksInOrder
  <2>3. CASE i = n + 1 \/ j = n + 1
    BY <1>1, <1>5, <2>1, <2>3
  <2> QED BY <1>1, <2>2, <2>3
<1>6. ASSUME NEW d \in Channels
      PROVE  /\ sectionDone'[d] =>
                  \E s \in 1 .. n + 1 : capture'[s].kind = "SHB" /\ capture'[s].channel = d
             /\ interfaceDone'[d] =>
                  \E s \in 1 .. n + 1 : capture'[s].kind = "IDB" /\ capture'[s].channel = d
  <2>1. /\ sectionDone[d] =>
             \E s \in 1 .. n + 1 : capture'[s].kind = "SHB" /\ capture'[s].channel = d
        /\ interfaceDone[d] =>
             \E s \in 1 .. n + 1 : capture'[s].kind = "IDB" /\ capture'[s].channel = d
    BY <1>0, <1>1 DEF BlocksInOrder
  <2>2. n + 1 \in 1 .. n + 1
    BY <1>1
  <2> QED BY <1>1, <1>3, <2>1, <2>2
<1> QED BY <1>1, <1>4, <1>5, <1>6 DEF BlocksInOrder

LEMMA PublishStep ==
  ASSUME CaptureInv, NEW ch \in Channels, Publish(ch)
  PROVE  CaptureInv'
<1> DEFINE Packets(c) == [i \in 1 .. handled[c] |-> Packet(c, received[c][i])]
<1>1. /\ received \in [Channels -> Seq(Frames)] /\ handled \in [Channels -> Nat]
      /\ sectionDone \in [Channels -> BOOLEAN] /\ interfaceDone \in [Channels -> BOOLEAN]
      /\ capture \in Seq(Block)
      /\ \A c \in Channels : handled[c] <= Len(received[c])
      /\ \A c \in Channels : interfaceDone[c] /\ PrependSection => sectionDone[c]
  BY DEF CaptureInv, TypeOK
<1>2. /\ handled[ch] > 0 => /\ PrependSection => sectionDone[ch]
                            /\ PrependInterface => interfaceDone[ch]
      /\ PrependSection \in BOOLEAN /\ PrependInterface \in BOOLEAN
  BY CaptureConstants DEF CaptureInv, LeadingFirst
<1>3. \A c \in Channels : /\ Leading(c) \in Seq(Block) /\ Recorded(c) \in Seq(Block)
                          /\ Packets(c) \in Seq(Block) /\ Recorded(c) = Leading(c) \o Packets(c)
  BY RecordedIsASeq DEF CaptureInv
<1>4. ASSUME NEW b, Puts(ch, b), TypeOK', LeadingFirst',
             b.kind = "SHB" => ~sectionDone[ch],
             b.kind = "IDB" => (PrependSection => sectionDone[ch]),
             b.kind = "EPB" => (PrependInterface => interfaceDone[ch]),
             sectionDone' = [sectionDone EXCEPT ![ch] = @ \/ b.kind = "SHB"],
             interfaceDone' = [interfaceDone EXCEPT ![ch] = @ \/ b.kind = "IDB"]
      PROVE  CaptureInv'
  BY <1>4, PutRecords, PutInOrder DEF CaptureInv
<1>5. CASE PublishSection(ch)
  <2> DEFINE b == Section(ch)
  <2>1. /\ handled[ch] < Len(received[ch]) /\ PrependSection /\ ~sectionDone[ch]
        /\ capture' = Append(capture, b)
        /\ sectionDone' = [sectionDone EXCEPT ![ch] = TRUE]
        /\ received' = received /\ handled' = handled /\ interfaceDone' = interfaceDone
    BY <1>5 DEF PublishSection, Handling, SectionMissing
  <2>2. b \in Block /\ b.kind = "SHB" /\ b.channel = ch
    BY DEF Section, Block
  <2>3. ~interfaceDone[ch] /\ handled[ch] = 0
    BY <1>1, <1>2, <2>1
  <2>4. Recorded(ch) = <<>> /\ Recorded(ch)' = <<b>>
    <3>1. Packets(ch) = <<>>
      BY <2>3
    <3>2. Leading(ch) = <<>> /\ Leading(ch)' = <<b>>
      BY <1>1, <2>1, <2>3 DEF Leading
    <3>3. Recorded(ch)' = Leading(ch)' \o Packets(ch)
      BY <2>1 DEF Recorded
    <3>4. Recorded(ch) = Leading(ch) \o Packets(ch)
      <4> HIDE DEF Packets
      <4> QED BY <1>3
    <3> HIDE DEF b, Packets
    <3>5. <<b>> \in Seq(Block) /\ <<b>> \o <<>> = <<b>> /\ <<>> \o <<>> = <<>>
      BY <2>2, ConcatEmptySeq, EmptySeq
    <3> QED BY <3>1, <3>2, <3>3, <3>4, <3>5
  <2>5. ASSUME NEW d \in Channels, d # ch PROVE Recorded(d)' = Recorded(d)
    BY <1>1, <2>1, <2>5 DEF Recorded, Leading
  <2>6. Recorded(ch)' = Append(Recorded(ch), b)
    BY <2>4
  <2>7. TypeOK' /\ LeadingFirst'
    <3>1. capture' \in Seq(Block)
      BY <1>1, <2>1, <2>2
    <3>2. LeadingFirst
      BY DEF CaptureInv
    <3> HIDE DEF b
    <3> QED BY <1>1, <2>1, <3>1, <3>2 DEF TypeOK, LeadingFirst
  <2> HIDE DEF b
  <2>8. Puts(ch, b)
    BY <2>1, <2>2, <2>5, <2>6 DEF Puts
  <2>9. /\ sectionDone' = [sectionDone EXCEPT ![ch] = @ \/ b.kind = "SHB"]
        /\ interfaceDone' = [interfaceDone EXCEPT ![ch] = @ \/ b.kind = "IDB"]
    BY <1>1, <2>1, <2>2
  <2> QED BY <1>4, <2>1, <2>2, <2>7, <2>8, <2>9
<1>6. CASE PublishInterface(ch)
  <2> DEFINE b == Interface(ch)
  <2>1. /\ handled[ch] < Len(received[ch]) /\ (PrependSection => sectionDone[ch])
        /\ PrependInterface /\ ~interfaceDone[ch]
        /\ capture' = Append(capture, b)
        /\ interfaceDone' = [interfaceDone EXCEPT ![ch] = TRUE]
        /\ received' = received /\ handled' = handled /\ sectionDone' = sectionDone
    BY <1>6 DEF PublishInterface, Handling, SectionMissing, InterfaceMissing
  <2>2. b \in Block /\ b.kind = "IDB" /\ b.channel = ch
    BY DEF Interface, Block
  <2>3. handled[ch] = 0
    BY <1>1, <1>2, <2>1
  <2>4. Recorded(ch)' = Append(Recorded(ch), b)
    <3>1. Packets(ch) = <<>>
      BY <2>3
    <3>2. Leading(ch)' = Append(Leading(ch), b)
      BY <1>1, <2>1 DEF Leading
    <3>3. Recorded(ch)' = Leading(ch)' \o Packets(ch)
      BY <2>1 DEF Recorded
    <3>4. Recorded(ch) = Leading(ch)
      <4> HIDE DEF Packets
      <4> QED BY <1>3, <3>1, ConcatEmptySeq
    <3>5. Append(Leading(ch), b) \o <<>> = Append(Leading(ch), b)
      <4> HIDE DEF b
      <4> QED BY <1>3, <2>2, AppendProperties, ConcatEmptySeq
    <3> QED BY <3>1, <3>2, <3>3, <3>4, <3>5
  <2>5. ASSUME NEW d \in Channels, d # ch PROVE Recorded(d)' = Recorded(d)
    BY <1>1, <2>1, <2>5 DEF Recorded, Leading
  <2>7. TypeOK' /\ LeadingFirst'
    <3>1. capture' \in Seq(Block)
      BY <1>1, <2>1, <2>2
    <3>2. LeadingFirst
      BY DEF CaptureInv
    <3> HIDE DEF b
    <3> QED BY <1>1, <2>1, <3>1, <3>2 DEF TypeOK, LeadingFirst
  <2> HIDE DEF b
  <2>8. Puts(ch, b)
    BY <2>1, <2>2, <2>4, <2>5 DEF Puts
  <2>9. /\ sectionDone' = [sectionDone EXCEPT ![ch] = @ \/ b.kind = "SHB"]
        /\ interfaceDone' = [interfaceDone EXCEPT ![ch] = @ \/ b.kind = "IDB"]
    BY <1>1, <2>1, <2>2
  <2> QED BY <1>4, <2>1, <2>2, <2>7, <2>8, <2>9
<1>7. CASE PublishPacket(ch)
  <2> DEFINE h == handled[ch]
             b == Packet(ch, received[ch][h + 1])
  <2>1. /\ h < Len(received[ch]) /\ (PrependSection => sectionDone[ch])
        /\ (PrependInterface => interfaceDone[ch])
        /\ capture' = Append(capture, b)
        /\ handled' = [handled EXCEPT ![ch] = h + 1]
        /\ received' = received /\ sectionDone' = sectionDone /\ interfaceDone' = interfaceDone
    BY <1>7 DEF PublishPacket, Handling, SectionMissing, InterfaceMissing
  <2>2. b \in Block /\ b.kind = "EPB" /\ b.channel = ch
    <3>1. received[ch][h + 1] \in Frames
      BY <1>1, <2>1
    <3> QED BY <3>1 DEF Packet, Block
  <2>3. h \in Nat /\ handled'[ch] = h + 1
    BY <1>1, <2>1
  <2>4. Recorded(ch)' = Append(Recorded(ch), b)
    <3> DEFINE more == [i \in 1 .. h + 1 |-> Packet(ch, received[ch][i])]
    <3>1. more \in Seq(Block) /\ more = Append(Packets(ch), b)
      <4>1. Append(Packets(ch), b) \in Seq(Block)
        <5> HIDE DEF Packets, b
        <5> QED BY <1>3, <2>2
      <4>2. more = Append(Packets(ch), b)
        <5>1. Len(Packets(ch)) = h
          BY <2>3
        <5> HIDE DEF b
        <5>2. /\ Len(Append(Packets(ch), b)) = h + 1
              /\ \A i \in 1 .. h : Append(Packets(ch), b)[i] = Packets(ch)[i]
              /\ Append(Packets(ch), b)[h + 1] = b
          <6> HIDE DEF Packets
          <6> QED BY <1>3, <2>2, <5>1, AppendProperties
        <5>3. more \in Seq(Block) /\ Len(more) = h + 1
          <6>1. \A i \in 1 .. h + 1 : Packet(ch, received[ch][i]) \in Block
            <7>1. \A i \in 1 .. h + 1 : received[ch][i] \in Frames
              BY <1>1, <2>1, <2>3
            <7> QED BY <7>1 DEF Packet, Block
          <6>2. h + 1 \in Nat
            BY <2>3
          <6> HIDE DEF h
          <6>3. more \in Seq(Block)
            BY <6>1, <6>2, IsASeq
          <6> QED BY <6>2, <6>3
        <5>4. \A i \in 1 .. h + 1 : more[i] = Append(Packets(ch), b)[i]
          <6>1. \A i \in 1 .. h : Packets(ch)[i] = more[i]
            BY <2>3
          <6>2. more[h + 1] = b
            BY <2>3 DEF b
          <6> HIDE DEF Packets, more, b, h
          <6> QED BY <2>3, <5>2, <6>1, <6>2
        <5> HIDE DEF Packets, more, b, h
        <5> QED BY <4>1, <5>2, <5>3, <5>4, SeqEqual
      <4> QED BY <4>1, <4>2
    <3>2. Leading(ch)' = Leading(ch)
      BY <2>1 DEF Leading
    <3>3. Recorded(ch)' = Leading(ch)' \o more
      BY <2>1, <2>3 DEF Recorded
    <3>4. Leading(ch) \o Append(Packets(ch), b) = Append(Leading(ch) \o Packets(ch), b)
      <4> HIDE DEF Packets, b
      <4>1. /\ Append(Packets(ch), b) = Packets(ch) \o <<b>>
            /\ Append(Leading(ch) \o Packets(ch), b) = (Leading(ch) \o Packets(ch)) \o <<b>>
        BY <1>3, <2>2, AppendIsConcat, ConcatProperties
      <4>2. <<b>> \in Seq(Block)
        BY <2>2
      <4> QED BY <1>3, <4>1, <4>2, ConcatAssociative
    <3> HIDE DEF Packets, b, more
    <3> QED BY <1>3, <3>1, <3>2, <3>3, <3>4
  <2>5. ASSUME NEW d \in Channels, d # ch PROVE Recorded(d)' = Recorded(d)
    <3>1. handled'[d] = handled[d]
      BY <1>1, <2>1, <2>5
    <3> HIDE DEF h
    <3> QED BY <2>1, <2>5, <3>1 DEF Recorded, Leading
  <2>7. TypeOK' /\ LeadingFirst'
    <3>1. capture' \in Seq(Block)
      BY <1>1, <2>1, <2>2
    <3>2. LeadingFirst
      BY DEF CaptureInv
    <3>3. handled' \in [Channels -> Nat] /\ \A c \in Channels : handled'[c] <= Len(received[c])
      BY <1>1, <2>1, <2>3
    <3> HIDE DEF b, h
    <3>4. TypeOK'
      BY <1>1, <2>1, <3>1, <3>3 DEF TypeOK
    <3>5. LeadingFirst'
      <4>1. \A c \in Channels : c # ch => handled'[c] = handled[c]
        BY <1>1, <2>1
      <4> QED BY <2>1, <3>2, <4>1 DEF LeadingFirst
    <3> QED BY <3>4, <3>5
  <2> HIDE DEF b
  <2>8. Puts(ch, b)
    BY <2>1, <2>2, <2>4, <2>5 DEF Puts
  <2>9. /\ sectionDone' = [sectionDone EXCEPT ![ch] = @ \/ b.kind = "SHB"]
        /\ interfaceDone' = [interfaceDone EXCEPT ![ch] = @ \/ b.kind = "IDB"]
    BY <1>1, <2>1, <2>2
  <2> QED BY <1>4, <2>1, <2>2, <2>7, <2>8, <2>9
<1> QED BY <1>5, <1>6, <1>7 DEF Publish
\* A frame comes: what is recorded are the frames handled, which it does not touch.
LEMMA ReceivePreserves ==
  ASSUME CaptureInv, NEW ch \in Channels, NEW frame \in Frames, Receive(ch, frame)
  PROVE  CaptureInv'
<1>1. /\ received' = [received EXCEPT ![ch] = Append(@, frame)]
      /\ handled' = handled /\ capture' = capture
      /\ sectionDone' = sectionDone /\ interfaceDone' = interfaceDone
  BY DEF Receive
<1>2. received \in [Channels -> Seq(Frames)] /\ handled \in [Channels -> Nat]
  BY DEF CaptureInv, TypeOK
<1>3. \A c \in Channels : /\ received'[c] \in Seq(Frames)
                          /\ Len(received[c]) <= Len(received'[c])
                          /\ \A i \in 1 .. Len(received[c]) : received'[c][i] = received[c][i]
  <2>1. /\ Append(received[ch], frame) \in Seq(Frames)
        /\ Len(Append(received[ch], frame)) = Len(received[ch]) + 1
        /\ \A i \in 1 .. Len(received[ch]) : Append(received[ch], frame)[i] = received[ch][i]
    BY <1>2, AppendProperties
  <2>2. \A c \in Channels :
          received'[c] = IF c = ch THEN Append(received[ch], frame) ELSE received[c]
    BY <1>1, <1>2
  <2>3. \A c \in Channels : Len(received[c]) \in Nat
    BY <1>2
  <2>4. ASSUME NEW c \in Channels
        PROVE  /\ received'[c] \in Seq(Frames)
               /\ Len(received[c]) <= Len(received'[c])
               /\ \A i \in 1 .. Len(received[c]) : received'[c][i] = received[c][i]
    <3>1. CASE c = ch
      <4>1. PICK more : more = Append(received[ch], frame)
        OBVIOUS
      <4>2. received'[c] = more /\ received[c] = received[ch]
        BY <2>2, <3>1, <4>1
      <4>3. Len(more) = Len(received[ch]) + 1 /\ more \in Seq(Frames)
        BY <2>1, <4>1
      <4>4. \A i \in 1 .. Len(received[ch]) : more[i] = received[ch][i]
        BY <2>1, <4>1
      <4>5. Len(received[ch]) <= Len(more)
        BY <2>3, <4>3
      <4> QED BY <4>2, <4>3, <4>4, <4>5
    <3>2. CASE c # ch
      <4>1. received'[c] = received[c] /\ received[c] \in Seq(Frames)
        BY <1>2, <2>2, <3>2
      <4> QED BY <2>3, <4>1
    <3> QED BY <3>1, <3>2
  <2> QED BY <2>4
<1>4. received' \in [Channels -> Seq(Frames)]
  BY <1>1, <1>2, <1>3
<1>5. \A c \in Channels : handled[c] <= Len(received[c]) /\ handled[c] <= Len(received'[c])
  <2>1. \A c \in Channels : Len(received[c]) \in Nat /\ Len(received'[c]) \in Nat
    BY <1>2, <1>4
  <2>2. \A c \in Channels : handled[c] <= Len(received[c])
    BY DEF CaptureInv, TypeOK
  <2> QED BY <1>2, <1>3, <2>1, <2>2
<1>6. TypeOK'
  BY <1>1, <1>4, <1>5 DEF CaptureInv, TypeOK
<1>7. LeadingFirst' /\ BlocksInOrder'
  BY <1>1 DEF CaptureInv, LeadingFirst, BlocksInOrder, SectionIsOpen, InterfaceIsKnown
<1>8. ASSUME NEW c \in Channels PROVE Recorded(c)' = Recorded(c)
  <2>1. \A i \in 1 .. handled[c] : received'[c][i] = received[c][i]
    <3>1. \A i \in 1 .. handled[c] : i \in 1 .. Len(received[c])
      BY <1>2, <1>5
    <3> QED BY <1>3, <3>1
  <2>2. [i \in 1 .. handled[c] |-> Packet(c, received'[c][i])]
          = [i \in 1 .. handled[c] |-> Packet(c, received[c][i])]
    BY <2>1
  <2>3. Leading(c)' = Leading(c)
    BY <1>1 DEF Leading
  <2> QED BY <1>1, <2>2, <2>3 DEF Recorded
<1>9. FramesRecorded'
  BY <1>1, <1>8 DEF CaptureInv, FramesRecorded, PlacesOf, Rank
<1> QED BY <1>6, <1>7, <1>9 DEF CaptureInv

LEMMA CaptureInit == Init => CaptureInv
<1> SUFFICES ASSUME Init PROVE CaptureInv
  OBVIOUS
<1>1. /\ received = [c \in Channels |-> <<>>] /\ handled = [c \in Channels |-> 0]
      /\ sectionDone = [c \in Channels |-> FALSE]
      /\ interfaceDone = [c \in Channels |-> FALSE] /\ capture = <<>>
  BY DEF Init
<1>2. TypeOK
  BY <1>1 DEF TypeOK
<1>3. LeadingFirst /\ BlocksInOrder
  BY <1>1 DEF LeadingFirst, BlocksInOrder
<1>4. ASSUME NEW c \in Channels
      PROVE  PlacesOf(c) = {} /\ Recorded(c) = <<>>
  <2>1. PlacesOf(c) = {}
    BY <1>1 DEF PlacesOf
  <2>2. /\ Leading(c) = <<>> \o <<>>
        /\ [i \in 1 .. handled[c] |-> Packet(c, received[c][i])] = <<>>
    BY <1>1 DEF Leading
  <2>3. <<>> \o <<>> = <<>>
    BY ConcatEmptySeq, EmptySeq
  <2> QED BY <2>1, <2>2, <2>3 DEF Recorded
<1>5. FramesRecorded
  BY <1>4, FS_EmptySet, EmptySeq DEF FramesRecorded
<1> QED BY <1>2, <1>3, <1>5 DEF CaptureInv

\* What is captured, with or without the duplicate monitor.
THEOREM CaptureCorrect == Spec => []CaptureInv
<1>1. CaptureInv /\ [Next]_vars => CaptureInv'
  <2> SUFFICES ASSUME CaptureInv, [Next]_vars PROVE CaptureInv'
    OBVIOUS
  <2>1. CASE \E ch \in Channels, frame \in Frames : Receive(ch, frame)
    BY <2>1, ReceivePreserves
  <2>2. CASE \E ch \in Channels : Publish(ch)
    BY <2>2, PublishStep
  <2>3. CASE UNCHANGED vars
    <3>1. TypeOK' /\ LeadingFirst'
      BY <2>3 DEF vars, CaptureInv, TypeOK, LeadingFirst
    <3>2. BlocksInOrder'
      BY <2>3 DEF vars, CaptureInv, BlocksInOrder, SectionIsOpen, InterfaceIsKnown
    <3>3. \A c \in Channels : Recorded(c)' = Recorded(c)
      BY <2>3 DEF vars, Recorded, Leading
    <3>4. FramesRecorded'
      BY <2>3, <3>3 DEF vars, CaptureInv, FramesRecorded, PlacesOf, Rank
    <3> QED BY <3>1, <3>2, <3>4 DEF CaptureInv
  <2> QED BY <2>1, <2>2, <2>3 DEF Next
<1> QED BY CaptureInit, <1>1, PTL DEF Spec

\* Behind the channel receivers the header blocks run as they do alone: the monitor
\* takes nothing from them.
THEOREM ReceiverCaptures == ReceiverSpec => Spec
<1>1. ReceiverInit => Init
  BY DEF ReceiverInit
<1>2. [ReceiverNext]_receiverVars => [Next]_vars
  <2> SUFFICES ASSUME [ReceiverNext]_receiverVars PROVE [Next]_vars
    OBVIOUS
  <2>1. CASE \E ch \in Channels : PublishBlock(ch)
    BY <2>1 DEF PublishBlock, Next
  <2>2. CASE \E ch \in Channels, frame \in Frames : Hear(ch, frame)
    BY <2>2 DEF Hear, Next
  <2>3. CASE CountDuplicates \/ PassTime
    BY <2>3 DEF CountDuplicates, PassTime
  <2>4. CASE UNCHANGED receiverVars
    BY <2>4 DEF receiverVars
  <2> QED BY <2>1, <2>2, <2>3, <2>4 DEF ReceiverNext
<1> QED BY <1>1, <1>2, PTL DEF ReceiverSpec, Spec

\* Every channel's blocks can be picked out of the stream: its SHB, its IDB and
\* every frame once and in order, whatever the handlers interleave.
THEOREM EveryFrameRecorded == ReceiverSpec => []FramesRecorded
<1>1. CaptureInv => FramesRecorded
  BY DEF CaptureInv
<1> QED BY <1>1, CaptureCorrect, ReceiverCaptures, PTL

LEMMA KindsInCapture ==
  ASSUME CaptureInv, NEW i \in 1 .. Len(capture)
  PROVE  /\ capture[i].kind \in {"SHB", "IDB", "EPB"}
         /\ capture[i].channel \in Channels
         /\ Len(capture) \in Nat
  BY BlockFields DEF CaptureInv, TypeOK

\* A stream with one channel can be parsed: the applications ask for interface
\* descriptions (multi_channel_receiver.py:140, gr-wisun-single-channel-sniffer:99).
THEOREM OneChannelReadable ==
  ASSUME PrependInterface
  PROVE  ReceiverSpec => []DescribedForOneChannel
<1>1. ASSUME CaptureInv,
             \A c, d \in Channels : sectionDone[c] /\ sectionDone[d] => c = d,
             NEW i \in 1 .. Len(capture), capture[i].kind = "EPB"
      PROVE  Described(i)
  <2>1. PICK d \in 1 .. i - 1 : capture[d].kind = "IDB" /\ capture[d].channel = capture[i].channel
    BY <1>1 DEF CaptureInv, BlocksInOrder, InterfaceIsKnown
  <2>2. /\ d \in 1 .. Len(capture) /\ Len(capture) \in Nat
        /\ d + 1 .. i - 1 \subseteq 1 .. Len(capture)
    BY <1>1, <2>1, KindsInCapture
  <2>3. ASSUME NEW s \in d + 1 .. i - 1, capture[s].kind = "SHB" PROVE FALSE
    <3>1. s \in 1 .. Len(capture) /\ s > d
      BY <2>1, <2>2
    <3>2. sectionDone[capture[s].channel] /\ capture[s].channel \in Channels
      BY <1>1, <2>3, <3>1, KindsInCapture DEF CaptureInv, BlocksInOrder
    <3>3. PrependSection
      BY <1>1, <3>2 DEF CaptureInv, LeadingFirst
    <3>4. PICK q \in 1 .. d - 1 : capture[q].kind = "SHB" /\ capture[q].channel = capture[d].channel
      BY <1>1, <2>1, <2>2, <3>3 DEF CaptureInv, BlocksInOrder, SectionIsOpen
    <3>5. q \in 1 .. Len(capture) /\ q < d
      BY <2>2, <3>4
    <3>6. sectionDone[capture[q].channel] /\ capture[q].channel \in Channels
      BY <1>1, <3>4, <3>5, KindsInCapture DEF CaptureInv, BlocksInOrder
    <3>7. capture[q].channel = capture[s].channel
      BY <1>1, <3>2, <3>6
    <3>8. q = s
      BY <1>1, <2>3, <3>1, <3>4, <3>5, <3>7 DEF CaptureInv, BlocksInOrder
    <3> QED BY <2>2, <3>1, <3>5, <3>8
  <2> QED BY <2>1, <2>3 DEF Described
<1>2. CaptureInv => DescribedForOneChannel
  BY <1>1 DEF DescribedForOneChannel, InterfacesDescribed
<1> QED BY <1>2, CaptureCorrect, ReceiverCaptures, PTL

\* Packets that no reader can resolve come only while a handler is between its SHB
\* and its IDB.
THEOREM ReadableBetweenOpenings ==
  ASSUME PrependInterface
  PROVE  ReceiverSpec => []ReadableOnceOpened
<1>1. ASSUME CaptureInv, capture # <<>>, sectionDone = interfaceDone
      PROVE  Described(Len(capture) + 1)
  <2>1. PICK n : n = Len(capture)
    OBVIOUS
  <2>2. n \in Nat /\ n >= 1 /\ (n + 1) - 1 = n
    <3>1. capture \in Seq(Block)
      BY <1>1 DEF CaptureInv, TypeOK
    <3> QED BY <1>1, <2>1, <3>1, EmptySeq
  <2> DEFINE Sections == {s \in 1 .. n : capture[s].kind = "SHB"}
  <2>3. CASE Sections = {}
    <3>1. \E d \in 1 .. n : capture[d].kind = "IDB"
      <4>1. 1 \in 1 .. Len(capture) /\ 1 .. (1 - 1) = {}
        BY <2>1, <2>2
      <4>2. capture[1].kind \in {"IDB", "EPB"}
        BY <1>1, <2>1, <2>3, <4>1, KindsInCapture
      <4>3. capture[1].kind # "EPB"
        BY <1>1, <4>1 DEF CaptureInv, BlocksInOrder, InterfaceIsKnown
      <4> QED BY <2>1, <4>1, <4>2, <4>3
    <3> QED BY <2>1, <2>2, <2>3, <3>1 DEF Described
  <2>4. CASE Sections # {}
    <3>1. PICK s \in Sections : \A k \in Sections : k <= s
      <4>1. Sections \in SUBSET Nat /\ \A k \in Sections : k <= n
        BY <2>2
      <4> HIDE DEF Sections
      <4> QED BY <2>2, <2>4, <4>1, GreatestNatural
    <3>2. s \in 1 .. Len(capture) /\ capture[s].kind = "SHB"
      BY <2>1, <3>1
    <3>3. capture[s].channel \in Channels /\ sectionDone[capture[s].channel]
      BY <1>1, <3>2, KindsInCapture DEF CaptureInv, BlocksInOrder
    <3>4. PICK d \in 1 .. Len(capture) :
            capture[d].kind = "IDB" /\ capture[d].channel = capture[s].channel
      BY <1>1, <3>3 DEF CaptureInv, BlocksInOrder
    <3>5. PrependSection
      BY <1>1, <3>3 DEF CaptureInv, LeadingFirst
    <3>6. PICK q \in 1 .. d - 1 : capture[q].kind = "SHB" /\ capture[q].channel = capture[d].channel
      BY <1>1, <3>4, <3>5 DEF CaptureInv, BlocksInOrder, SectionIsOpen
    <3>7. q \in 1 .. Len(capture) /\ q < d
      BY <2>1, <2>2, <3>4, <3>6
    <3>8. q = s
      BY <1>1, <3>2, <3>4, <3>6, <3>7 DEF CaptureInv, BlocksInOrder
    <3>9. ASSUME NEW k \in d + 1 .. n PROVE capture[k].kind # "SHB"
      <4>1. k \in 1 .. n /\ k > s
        BY <2>1, <2>2, <3>4, <3>7, <3>8, <3>9
      <4> QED BY <2>2, <3>1, <3>2, <4>1
    <3> QED BY <2>1, <2>2, <3>4, <3>9 DEF Described
  <2> QED BY <2>3, <2>4
<1>2. CaptureInv => ReadableOnceOpened
  BY <1>1 DEF ReadableOnceOpened
<1> QED BY <1>2, CaptureCorrect, ReceiverCaptures, PTL

\* The monitor remembers no more than d_history frames, and every time it has is
\* one of the clock's.
THEOREM ReceiverTypesCorrect == ReceiverSpec => []ReceiverTypeOK
<1>1. ASSUME IInv, CaptureInv PROVE ReceiverTypeOK
  <2>1. TypeOK
    BY <1>1 DEF CaptureInv
  <2>2. /\ clock \in 0 .. MaxTime
        /\ port \in Seq([frame : Frames, came : 0 .. MaxTime])
        /\ recent \in Seq([frame : Frames, arrived : 0 .. MaxTime])
        /\ heard \in Seq([frame : Frames, came : 0 .. MaxTime, arrived : 0 .. MaxTime])
    BY <1>1 DEF IInv, MonitorTypes, Waiting, Remembered, Heard, Time
  <2>3. Len(recent) <= History
    BY <1>1 DEF IInv, RecentAreLast
  <2>4. reported \subseteq 1 .. Len(heard)
    BY <1>1 DEF IInv, ReportedRepeat
  <2>5. duplicates \in Nat
    BY <1>1, FS_CardinalityType DEF IInv, CountsReported
  <2> QED BY <2>1, <2>2, <2>3, <2>4, <2>5 DEF ReceiverTypeOK
<1> QED BY <1>1, Invariant, CaptureCorrect, ReceiverCaptures, PTL
=============================================================================
