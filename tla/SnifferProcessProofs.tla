------------------------- MODULE SnifferProcessProofs -------------------------
(***************************************************************************)
(* What a sniffer promises for every command line and any number of        *)
(* signals: it exits without an error only when its flow graph is stopped, *)
(* its packets go to a FIFO, and what is set up before receives the        *)
(* channels asked for: the band that the multi-channel sniffer plans       *)
(* reaches every one, whatever the channels, the spacing and channel 0.    *)
(***************************************************************************)
EXTENDS SnifferProcess, FiniteSetTheorems, SequenceTheorems, InductionLemmas, TLAPS

-----------------------------------------------------------------------------
(* Multiples                                                                *)

LEMMA DivisionLaw ==
  ASSUME NEW s \in Nat \ {0}, NEW x \in Int
  PROVE  /\ x \div s \in Int
         /\ x % s \in 0 .. s - 1
         /\ x = s * (x \div s) + (x % s)
  OBVIOUS

LEMMA SmallMultiple ==
  ASSUME NEW s \in Nat \ {0}, NEW d \in Int, NEW r \in 0 .. s - 1, s * d = r
  PROVE  d = 0
<1>1. CASE d >= 1
  <2>1. s * d >= s
    BY <1>1
  <2>2. QED
    BY <2>1
<1>2. CASE d <= -1
  <2>1. s * d <= -s
    BY <1>2
  <2>2. QED
    BY <2>1
<1>3. QED
  BY <1>1, <1>2

LEMMA Multiple ==
  ASSUME NEW s \in Nat \ {0}, NEW a \in Int
  PROVE  /\ (a * s) % s = 0
         /\ (a * s) \div s = a
<1> DEFINE x == a * s
<1>1. x \in Int
  OBVIOUS
<1> HIDE DEF x
<1>2. /\ x \div s \in Int
      /\ x % s \in 0 .. s - 1
      /\ x = s * (x \div s) + (x % s)
  BY <1>1, DivisionLaw
<1>3. PICK q \in Int, r \in 0 .. s - 1 : q = x \div s /\ r = x % s /\ x = s * q + r
  BY <1>2
<1>4. s * (a - q) = r
  BY <1>3 DEF x
<1>5. a - q = 0
  BY <1>4, SmallMultiple
<1>6. q = a /\ r = 0
  BY <1>4, <1>5
<1>7. QED
  BY <1>3, <1>6 DEF x

-----------------------------------------------------------------------------
(* The band                                                                 *)

\* The number of outputs is even, and the band lies around its middle.
LEMMA PlannedBand ==
  ASSUME NEW lowest \in Nat, NEW highest \in Nat, lowest <= highest
  PROVE  /\ OutputCount(lowest, highest) \in Nat \ {0}
         /\ OutputCount(lowest, highest) % 2 = 0
         /\ Middle(lowest, highest) \in lowest .. highest
         /\ \A channel \in lowest .. highest :
              LET away == channel - Middle(lowest, highest)
              IN  /\ -OutputCount(lowest, highest) < 2 * away
                  /\ 2 * away < OutputCount(lowest, highest)
  BY DEF OutputCount, Middle, Bottom, Span

\* A frequency that is a number of channels away from channel 0 is at the channel
\* of that number, if it is not below channel 0.
LEMMA ChannelOfFrequency ==
  ASSUME NEW spacing \in Nat \ {0}, NEW channel0 \in Nat, NEW a \in Int
  PROVE  WiSunChannel(channel0 + a * spacing, channel0, spacing)
           = IF a >= 0 THEN a ELSE NoChannel
<1> DEFINE f == channel0 + a * spacing
<1>1. f - channel0 = a * spacing
  OBVIOUS
<1>2. (f - channel0) % spacing = 0 /\ (f - channel0) \div spacing = a
  BY <1>1, Multiple
<1>3. CASE a >= 0
  <2>1. a * spacing >= 0
    BY <1>3
  <2>2. f >= channel0 /\ f # NoFrequency
    BY <2>1 DEF NoFrequency
  <2>3. QED
    BY <1>2, <1>3, <2>2 DEF WiSunChannel
<1>4. CASE a < 0
  <2>1. a * spacing < 0
    BY <1>4
  <2>2. f < channel0
    BY <2>1
  <2>3. QED
    BY <1>4, <2>2 DEF WiSunChannel
<1>5. QED
  BY <1>3, <1>4

\* How many channels above the center the output k of n is.
Away(k, n) == IF 2 * k < n THEN k ELSE k - n

\* Output k is at the channel, with the center at the channel of number middle.
IsAt(k, n, middle, channel, spacing, channel0) ==
  WiSunChannel(PfbFrequency(k, n, channel0 + middle * spacing, spacing), channel0, spacing)
    = channel
Reaches(k, n, middle, channel) == 2 * k # n /\ channel = middle + Away(k, n)

\* The channel at an output of the channelizer: none at the split one.
LEMMA ChannelAtOutput ==
  ASSUME NEW n \in Nat \ {0}, NEW k \in 0 .. n - 1, NEW spacing \in Nat \ {0},
         NEW channel0 \in Nat, NEW middle \in Int, NEW channel \in Nat
  PROVE  IsAt(k, n, middle, channel, spacing, channel0) <=> Reaches(k, n, middle, channel)
<1> DEFINE center == channel0 + middle * spacing
           at == WiSunChannel(PfbFrequency(k, n, center, spacing), channel0, spacing)
<1>1. Away(k, n) \in Int
  BY DEF Away
<1>2. PfbFrequency(k, n, center, spacing)
        = IF 2 * k = n THEN NoFrequency ELSE channel0 + (middle + Away(k, n)) * spacing
  <2>1. center + spacing * k = channel0 + (middle + k) * spacing
    OBVIOUS
  <2>2. center - spacing * (n - k) = channel0 + (middle + (k - n)) * spacing
    OBVIOUS
  <2> HIDE DEF center
  <2>3. QED
    BY <2>1, <2>2 DEF PfbFrequency, Away
<1>3. CASE 2 * k = n
  <2>1. at = NoChannel
    BY <1>2, <1>3 DEF WiSunChannel
  <2>2. QED
    BY <1>3, <2>1 DEF NoChannel, IsAt, Reaches
<1>4. CASE 2 * k # n
  <2> DEFINE there == middle + Away(k, n)
  <2>1. there \in Int
    BY <1>1
  <2>2. at = WiSunChannel(channel0 + there * spacing, channel0, spacing)
    BY <1>2, <1>4
  <2>3. at = IF there >= 0 THEN there ELSE NoChannel
    <3> HIDE DEF at, there
    <3>1. QED
      BY <2>1, <2>2, ChannelOfFrequency
  <2> HIDE DEF at
  <2>4. QED
    BY <1>4, <2>1, <2>3 DEF NoChannel, at, IsAt, Reaches
<1>5. QED
  BY <1>3, <1>4

-----------------------------------------------------------------------------
(* Where a channel comes out                                                *)

\* Channels above the center come out in the lower half, those below in the upper.
LEMMA WithinBand ==
  ASSUME NEW n \in Nat \ {0}, NEW middle \in Int, NEW channel \in Int
  PROVE  (\E k \in 0 .. n - 1 : Reaches(k, n, middle, channel))
           <=> -n < 2 * (channel - middle) /\ 2 * (channel - middle) < n
<1>1. ASSUME NEW k \in 0 .. n - 1, Reaches(k, n, middle, channel)
      PROVE  -n < 2 * (channel - middle) /\ 2 * (channel - middle) < n
  BY <1>1 DEF Reaches, Away
<1>2. ASSUME -n < 2 * (channel - middle), 2 * (channel - middle) < n
      PROVE  \E k \in 0 .. n - 1 : Reaches(k, n, middle, channel)
  <2>1. CASE channel >= middle
    <3>1. channel - middle \in 0 .. n - 1 /\ Reaches(channel - middle, n, middle, channel)
      BY <1>2, <2>1 DEF Reaches, Away
    <3> QED BY <3>1
  <2>2. CASE channel < middle
    <3> DEFINE k == n + (channel - middle)
    <3>1. k \in 0 .. n - 1 /\ Reaches(k, n, middle, channel)
      BY <1>2, <2>2 DEF Reaches, Away
    <3> HIDE DEF k
    <3> QED BY <3>1
  <2> QED BY <2>1, <2>2
<1> QED BY <1>1, <1>2

LEMMA ReachedOnce ==
  ASSUME NEW n \in Nat \ {0}, NEW middle \in Int, NEW channel \in Int,
         NEW j \in 0 .. n - 1, Reaches(j, n, middle, channel),
         NEW k \in 0 .. n - 1, Reaches(k, n, middle, channel)
  PROVE  j = k
BY DEF Reaches, Away

LEMMA Remainder ==
  ASSUME NEW m \in Nat \ {0}, NEW x \in Int, NEW q \in Int, NEW r \in 0 .. m - 1,
         x = m * q + r
  PROVE  x % m = r
<1>1. PICK a \in Int, b \in 0 .. m - 1 : x % m = b /\ x = m * a + b
  BY DivisionLaw
<1>2. m * (q - a) = b - r /\ m * (a - q) = r - b
  BY <1>1
<1>3. CASE b >= r
  <2>1. b - r \in 0 .. m - 1 /\ q - a \in Int
    BY <1>1, <1>3
  <2>2. q - a = 0
    BY <1>2, <2>1, SmallMultiple
  <2> QED BY <1>1, <1>2, <2>2
<1>4. CASE b < r
  <2>1. r - b \in 0 .. m - 1 /\ a - q \in Int
    BY <1>1, <1>4
  <2>2. a - q = 0
    BY <1>2, <2>1, SmallMultiple
  <2> QED BY <1>1, <1>2, <2>2
<1> QED BY <1>1, <1>3, <1>4

LEMMA Product ==
  ASSUME NEW s \in Nat \ {0}, NEW a \in Int, NEW b \in Int
  PROVE  /\ a * s \in Int
         /\ a * s < b * s <=> a < b
         /\ a * s = b * s <=> a = b
<1>1. ASSUME NEW c \in Int, NEW d \in Int, c < d PROVE c * s < d * s
  <2>1. (d - c) * s >= s
    BY <1>1
  <2>2. (d - c) * s = d * s - c * s
    OBVIOUS
  <2> QED BY <2>1, <2>2
<1>2. a < b => a * s < b * s
  BY <1>1
<1>3. b < a => b * s < a * s
  BY <1>1
<1>4. a = b => a * s = b * s
  OBVIOUS
<1>5. a * s \in Int /\ b * s \in Int
  OBVIOUS
<1> QED BY <1>2, <1>3, <1>4, <1>5

\* Sampling folds the spectrum onto the output that reaches the channel.
LEMMA Folded ==
  ASSUME NEW n \in Nat \ {0}, NEW middle \in Int, NEW channel \in Int,
         NEW k \in 0 .. n - 1, Reaches(k, n, middle, channel), NEW s \in Nat \ {0}
  PROVE  ((channel - middle) * s) % (n * s) = k * s
<1>1. /\ n * s \in Nat \ {0}
      /\ k * s \in 0 .. n * s - 1
  <2>1. 0 * s <= k * s /\ k * s < n * s
    BY Product
  <2> QED BY <2>1
<1>2. \E q \in Int : (channel - middle) * s = (n * s) * q + k * s
  <2>1. CASE channel - middle = k
    <3>1. (channel - middle) * s = (n * s) * 0 + k * s
      BY <2>1
    <3> QED BY <3>1
  <2>2. CASE channel - middle = k - n
    <3>1. (channel - middle) * s = (n * s) * (-1) + k * s
      BY <2>2
    <3> QED BY <3>1
  <2>3. channel - middle = k \/ channel - middle = k - n
    BY DEF Reaches, Away
  <2> QED BY <2>1, <2>2, <2>3
<1>3. PICK q \in Int : (channel - middle) * s = (n * s) * q + k * s
  BY <1>2
<1>4. PICK x \in Int, m \in Nat \ {0}, r \in Nat :
        /\ x = (channel - middle) * s /\ m = n * s /\ r = k * s
        /\ r \in 0 .. m - 1 /\ x = m * q + r
  <2>1. (channel - middle) * s \in Int
    OBVIOUS
  <2> QED BY <1>1, <1>3, <2>1
<1>5. x % m = r
  BY <1>4, Remainder
<1> QED BY <1>4, <1>5

\* Exactly one output of the channelizer is at each channel asked for
\* (multi_channel_sniffer.py:56-67, util.py:19-47): the band is always wide
\* enough, the split output is at none of them, and the wrapped ones, below the
\* center, are told apart from those above.
THEOREM PlannedBandReachesChannels ==
  ASSUME NEW lowest \in Nat, NEW highest \in Nat, lowest <= highest,
         NEW spacing \in Nat \ {0}, NEW channel0 \in Nat,
         NEW channel \in lowest .. highest
  PROVE  LET n == OutputCount(lowest, highest)
             center == channel0 + Middle(lowest, highest) * spacing
         IN  \E k \in 0 .. n - 1 : \A j \in 0 .. n - 1 :
               WiSunChannel(PfbFrequency(j, n, center, spacing), channel0, spacing) = channel
                 <=> j = k
<1> DEFINE n == OutputCount(lowest, highest)
           middle == Middle(lowest, highest)
           center == channel0 + middle * spacing
           at(j) == WiSunChannel(PfbFrequency(j, n, center, spacing), channel0, spacing)
           k == IF channel >= middle THEN channel - middle ELSE n + (channel - middle)
<1>1. /\ n \in Nat \ {0}
      /\ middle \in Int
      /\ -n < 2 * (channel - middle)
      /\ 2 * (channel - middle) < n
  BY PlannedBand
<1>2. channel \in Nat
  OBVIOUS
<1> HIDE DEF n, middle
<1>3. k \in 0 .. n - 1
  BY <1>1, <1>2
<1>4. ASSUME NEW j \in 0 .. n - 1
      PROVE  at(j) = channel <=> j = k
  <2>1. at(j) = channel <=> IsAt(j, n, middle, channel, spacing, channel0)
    BY DEF IsAt
  <2> HIDE DEF at
  <2>2. IsAt(j, n, middle, channel, spacing, channel0) <=> Reaches(j, n, middle, channel)
    BY <1>1, <1>2, ChannelAtOutput
  <2>3. Reaches(j, n, middle, channel) <=> j = k
    BY <1>1, <1>2 DEF Away, Reaches
  <2>4. QED
    BY <2>1, <2>2, <2>3
<1> HIDE DEF at, k
<1>5. \E i \in 0 .. n - 1 : \A j \in 0 .. n - 1 : at(j) = channel <=> j = i
  BY <1>3, <1>4
<1>6. QED
  BY <1>5 DEF at, n, middle

-----------------------------------------------------------------------------
(* The process                                                              *)

Stages ==
  {"checking", "creating", "configuring", "tuning", "building", "opening",
   "connected", "handling", "started", "prompting", "stopping", "waiting", "ended"}

ProcessTypes ==
  /\ stage \in Stages
  /\ status \in {"none", "ok", "rejected", "exists", "crashed", "killed"}
  /\ path \in {"none", "fifo", "file"}
  /\ graph \in {"idle", "running", "stopping", "stopped"}
  /\ sink \in {"idle", "writing", "blocked"}
  /\ handler \in {"none", "stopping", "waiting"}

\* The program has a status when it has ended, and a handler runs only while the
\* program does, behind the installation of the handlers.
EndedOnce == status # "none" <=> stage = "ended"
HandlerRuns == handler # "none" => HandlersInstalled

\* Between the check and mkfifo nothing but a FIFO gets to the path.
OnlyFifoAppears ==
  /\ stage = "creating" => path \in {"none", "fifo"}
  /\ status = "exists" => path = "fifo"

IInv ==
  ProcessTypes /\ EndedOnce /\ HandlerRuns /\ OnlyFifoAppears /\ OutputIsFifo /\ CleanExit

-----------------------------------------------------------------------------
(* The setup, seen from outside: it gets from stage to stage, or ends with   *)
(* an error.                                                                 *)

LEMMA SetupAdvances ==
  ASSUME IInv, Setup
  PROVE  /\ stage \in {"configuring", "tuning", "building"}
         /\ \/ /\ stage' \in {"configuring", "tuning", "building", "opening", "connected"}
               /\ status' = status
            \/ /\ stage' = "ended"
               /\ status' \in {"rejected", "crashed"}
<1>1. CASE RejectMode
  BY <1>1 DEF RejectMode, End
<1>2. CASE DescribeOfdm
  BY <1>2 DEF DescribeOfdm, End
<1>3. CASE ConfigureMode
  <2>1. stage = "configuring" /\ stage' \in {"configuring", "tuning"} /\ status' = status
    BY <1>3 DEF ConfigureMode
  <2>2. QED
    BY <2>1
<1>4. CASE TuneSingle
  BY <1>4 DEF TuneSingle, End
<1>5. CASE TuneMulti
  BY <1>5 DEF TuneMulti
<1>6. CASE TuneModes
  BY <1>6 DEF TuneModes
<1>7. AfterBuilding \in {stage, "connected", "opening"}
  BY DEF AfterBuilding
<1>8. CASE BuildSingle
  <2>1. stage = "building"
    BY <1>8 DEF BuildSingle
  <2>2. \/ stage' = AfterBuilding /\ status' = status
        \/ stage' = "ended" /\ status' = "crashed"
    BY <1>8 DEF BuildSingle, End
  <2>3. QED
    BY <1>7, <2>1, <2>2
<1>9. CASE BuildMulti
  <2>1. stage = "building"
    BY <1>9 DEF BuildMulti
  <2>2. \/ stage' = AfterBuilding /\ status' = status
        \/ stage' = "ended" /\ status' = "crashed"
    BY <1>9 DEF BuildMulti, End
  <2>3. QED
    BY <1>7, <2>1, <2>2
<1>10. CASE FailAssertion
  BY <1>10 DEF FailAssertion, End
<1>11. QED
  BY <1>1, <1>2, <1>3, <1>4, <1>5, <1>6, <1>8, <1>9, <1>10 DEF Setup

-----------------------------------------------------------------------------
(* The invariant                                                            *)

LEMMA InvariantInit == Init => IInv
  BY DEF Init, IInv, ProcessTypes, Stages, EndedOnce, HandlerRuns, OnlyFifoAppears,
         OutputIsFifo, CleanExit

LEMMA InvariantStep == IInv /\ [Next]_vars => IInv'
<1> SUFFICES ASSUME IInv, [Next]_vars
             PROVE  IInv'
  OBVIOUS
<1> USE DEF IInv, ProcessTypes, Stages, EndedOnce, HandlerRuns, HandlersInstalled,
            OnlyFifoAppears, OutputIsFifo, CleanExit
<1>1. CASE CheckPath
  BY <1>1 DEF CheckPath, End, processVars
<1>2. CASE MakeFifo
  BY <1>2 DEF MakeFifo, End
<1>3. CASE handler = "none" /\ Setup /\ UNCHANGED processVars
  <2>1. /\ path' = path /\ graph' = graph /\ sink' = sink /\ handler' = "none"
    BY <1>3 DEF processVars
  <2>2. /\ stage \in {"configuring", "tuning", "building"}
        /\ \/ /\ stage' \in {"configuring", "tuning", "building", "opening", "connected"}
              /\ status' = status
           \/ /\ stage' = "ended"
              /\ status' \in {"rejected", "crashed"}
    BY <1>3, SetupAdvances
  <2>3. QED
    BY <2>1, <2>2
<1>4. CASE InstallHandlers
  BY <1>4 DEF InstallHandlers, Goto, processVars
<1>5. CASE Start
  BY <1>5 DEF Start, Goto
<1>6. CASE handler = "none" /\ AfterStart
  BY <1>6 DEF AfterStart, End, processVars
<1>7. CASE StopGraph
  BY <1>7 DEF StopGraph, Stop, Goto
<1>8. CASE handler = "none" /\ WaitForGraph
  BY <1>8 DEF WaitForGraph, Wait, End
<1>9. CASE HandlerStop
  BY <1>9 DEF HandlerStop, Stop
<1>10. CASE HandlerWait
  BY <1>10 DEF HandlerWait, Wait, End
<1>11. CASE OpenOutput
  BY <1>11 DEF OpenOutput, Goto, processVars
<1>12. CASE OtherMakesFifo
  BY <1>12 DEF OtherMakesFifo
<1>13. CASE Answer
  BY <1>13 DEF Answer, Goto
<1>14. CASE Signal
  BY <1>14 DEF Signal, End
<1>15. CASE UNCHANGED vars
  BY <1>15 DEF vars, processVars
<1>16. CASE Write \/ FileSink \/ Drain
  BY <1>16 DEF Write, FileSink, Written, Fill, Drain, Turn
<1>17. QED
  BY <1>1, <1>2, <1>3, <1>4, <1>5, <1>6, <1>7, <1>8, <1>9, <1>10, <1>11, <1>12,
     <1>13, <1>14, <1>15, <1>16 DEF Next, Program, Main

LEMMA Invariant == Spec => []IInv
  BY InvariantInit, InvariantStep, PTL DEF Spec

\* A sniffer that exits without an error has stopped its flow graph and waited for
\* it, whatever signals arrived, and how often, while it was doing so
\* (cli.py:185-205).
THEOREM ExitsClean == Spec => []CleanExit
<1>1. IInv => CleanExit
  BY DEF IInv
<1>2. QED
  BY Invariant, <1>1, PTL

\* What the output is opened as is a FIFO, whoever else makes it between the check
\* and mkfifo (cli.py:135-146).
THEOREM OutputStaysFifo == Spec => []OutputIsFifo
<1>1. IInv => OutputIsFifo
  BY DEF IInv
<1>2. QED
  BY Invariant, <1>1, PTL

-----------------------------------------------------------------------------
(* The tables.                                                              *)

LEMMA PlanFacts ==
  ASSUME NEW plan \in PlanIds
  PROVE  /\ Spacing(plan) \in Nat \ {0} /\ Spacing(plan) <= 1800
         /\ Channel0(plan) \in Nat /\ Channel0(plan) >= 300
         /\ plan \notin {4, 5, 24} => Spacing(plan) <= 600
<1>1. \A row \in ChannelPlans :
        /\ row[2] \in Nat \ {0} /\ row[2] <= 1800 /\ row[3] \in Nat /\ row[3] >= 300
        /\ row[1] \notin {4, 5, 24} => row[2] <= 600
  BY DEF ChannelPlans
<1>2. \E row \in ChannelPlans : row[1] = plan
  BY DEF PlanIds
<1>3. Lookup(ChannelPlans, plan) \in ChannelPlans /\ Lookup(ChannelPlans, plan)[1] = plan
  <2> HIDE DEF ChannelPlans
  <2> QED BY <1>2 DEF Lookup
<1> HIDE DEF ChannelPlans
<1> QED BY <1>1, <1>3 DEF Spacing, Channel0

LEMMA RowFields ==
  ASSUME NEW domain, NEW plan, NEW total, NEW modes, NEW mask
  PROVE  LET row == Row(domain, plan, total, modes, mask)
         IN  /\ row.domain = domain /\ row.plan = plan /\ row.total = total
             /\ row.modes = modes /\ row.mask = mask
  BY DEF Row

\* There are channels in every plan, and the widest plans have OFDM modes only.
LEMMA RowFacts ==
  ASSUME NEW row \in SupportedParameters
  PROVE  /\ row.total \in Nat \ {0}
         /\ row.plan \in {4, 5, 24} =>
              \E type \in {2, 3}, first \in {2, 3} : row.modes = Ofdm(type, first .. 6)
<1>1. row.total \in Nat \ {0}
  BY RowFields, SMTT(60) DEF SupportedParameters
<1>2. row.plan \in {4, 5, 24} =>
        \E type \in {2, 3}, first \in {2, 3} : row.modes = Ofdm(type, first .. 6)
  BY RowFields, SMTT(60) DEF SupportedParameters
<1> QED BY <1>1, <1>2

LEMMA ParametersOfPlan ==
  ASSUME NEW domain, NEW plan, IsSupported(domain, plan)
  PROVE  /\ Parameters(domain, plan) \in SupportedParameters
         /\ Parameters(domain, plan).plan = plan
  BY DEF IsSupported, Parameters

LEMMA SymbolRates ==
  ASSUME NEW mode \in DOMAIN PhyModesFsk
  PROVE  PhyModesFsk[mode].rate \in {50, 100, 150, 200, 300}
  BY DEF PhyModesFsk

LEMMA ModesDistinct ==
  ASSUME NEW p \in PhyModes, NEW q \in PhyModes,
         p.rate = q.rate, p.index = q.index, p.spacing = q.spacing
  PROVE  p = q
  BY DEF PhyModes

LEMMA AtMostOneLabel ==
  ASSUME NEW phy, NEW spacing
  PROVE  Cardinality(PhyLabel(phy, spacing)) <= 1
<1> DEFINE L == PhyLabel(phy, spacing)
<1>1. \A x, y \in L : x = y
  BY ModesDistinct DEF PhyLabel
<1>2. L = {} \/ \E x : L = {x}
  <2> HIDE DEF L
  <2> QED BY <1>1
<1>3. Cardinality({}) = 0 /\ \A x : Cardinality({x}) = 1
  BY FS_EmptySet, FS_Singleton
<1> HIDE DEF L
<1>4. Cardinality(L) \in {0, 1}
  BY <1>2, <1>3
<1> QED BY <1>4 DEF L

\* The channels of a plan.
LEMMA ChannelsOfPlan ==
  ASSUME NEW plan, NEW row \in SupportedParameters, row.plan = plan
  PROVE  /\ PlanChannels(plan, row.mask) \in SUBSET Nat
         /\ \E bound \in Nat : \A c \in PlanChannels(plan, row.mask) : c <= bound
         /\ MaskChannels(plan, row.mask) \subseteq PlanChannels(plan, row.mask)
         /\ MaskChannels(plan, row.mask) # {}
<1>1. Len(row.mask) \in Nat
  BY TablesAgree
<1>2. \A c \in PlanChannels(plan, row.mask) : c \in Nat /\ c <= 8 * Len(row.mask)
  BY <1>1 DEF PlanChannels
<1>3. Cardinality(MaskChannels(plan, row.mask)) = row.total /\ row.total # 0
  BY TablesAgree, RowFacts
<1>4. MaskChannels(plan, row.mask) # {}
  BY <1>3, FS_EmptySet
<1>5. MaskChannels(plan, row.mask) \subseteq PlanChannels(plan, row.mask)
  BY DEF MaskChannels
<1>6. 8 * Len(row.mask) \in Nat
  BY <1>1
<1> QED BY <1>2, <1>4, <1>5, <1>6

-----------------------------------------------------------------------------
(* What build_configuration accepts.                                        *)

Modes == [plan : Int, type : Int, mode : Int]
Accepted(m) == ~Rejected(m) /\ ~IsOfdm(PhyModeId(m))
Configs == {Configuration(m) : m \in {x \in Modes : Accepted(x)}}

\* What a configuration promises to the rest of the application.
Sound(c) ==
  /\ c.plan \in PlanIds
  /\ c.channels \in SUBSET Nat /\ c.channels # {}
  /\ \E bound \in Nat : \A ch \in c.channels : ch <= bound
  /\ c.outside = {ch \in c.channels : ~InMask(ch, Parameters(command.domain, c.plan).mask)}
  /\ command.maskOnly => c.outside = {}
  /\ c.symbolRate \in {50, 100, 150, 200, 300}
  /\ Spacing(c.plan) <= 600
  /\ Cardinality(c.label) <= 1

LEMMA AcceptedModes ==
  ASSUME NEW m \in Modes, Accepted(m)
  PROVE  /\ m.plan \in PlanIds
         /\ IsSupported(command.domain, m.plan)
         /\ IsFsk(PhyModeId(m)) /\ PhyMode(PhyModeId(m)) \in DOMAIN PhyModesFsk
         /\ PhyModeId(m) \in Parameters(command.domain, m.plan).modes
         /\ \A c \in command.channels :
              /\ c \in PlanChannels(m.plan, Parameters(command.domain, m.plan).mask)
              /\ command.maskOnly => InMask(c, Parameters(command.domain, m.plan).mask)
<1>1. PhyType(PhyModeId(m)) \in 0 .. 5 /\ PhyType(PhyModeId(m)) \notin {2, 3, 4, 5}
  BY DEF Accepted, Rejected, IsOfdm, PhyTypes
<1>2. IsFsk(PhyModeId(m))
  BY <1>1 DEF IsFsk
<1> QED BY <1>2 DEF Accepted, Rejected

LEMMA NarrowChannels ==
  ASSUME NEW m \in Modes, Accepted(m)
  PROVE  Spacing(m.plan) <= 600
<1> DEFINE row == Parameters(command.domain, m.plan)
           id == PhyModeId(m)
<1>1. row \in SupportedParameters /\ row.plan = m.plan /\ id \in row.modes /\ IsFsk(id)
  BY AcceptedModes, ParametersOfPlan
<1>2. m.plan \in PlanIds
  BY AcceptedModes
<1>3. ASSUME m.plan \in {4, 5, 24} PROVE FALSE
  <2>1. PICK type \in {2, 3}, first \in {2, 3} : row.modes = Ofdm(type, first .. 6)
    <3> HIDE DEF row
    <3> QED BY <1>1, <1>3, RowFacts
  <2>2. PICK k \in first .. 6 : id = 16 * type + k
    BY <1>1, <2>1 DEF Ofdm
  <2>3. id \div 16 = type
    BY <2>2
  <2> QED BY <1>1, <2>3 DEF IsFsk, PhyType
<1> QED BY <1>2, <1>3, PlanFacts

LEMMA ConfigsAreSound ==
  ASSUME NEW c \in Configs
  PROVE  Sound(c)
<1>1. PICK m \in Modes : Accepted(m) /\ c = Configuration(m)
  BY DEF Configs
<1> DEFINE row == Parameters(command.domain, m.plan)
           channels == ActiveChannels(m.plan, row.mask)
<1>2. row \in SupportedParameters /\ row.plan = m.plan
  BY <1>1, AcceptedModes, ParametersOfPlan
<1>3. /\ PlanChannels(m.plan, row.mask) \in SUBSET Nat
      /\ \E bound \in Nat : \A x \in PlanChannels(m.plan, row.mask) : x <= bound
      /\ MaskChannels(m.plan, row.mask) \subseteq PlanChannels(m.plan, row.mask)
      /\ MaskChannels(m.plan, row.mask) # {}
  <2> HIDE DEF row
  <2> QED BY <1>2, ChannelsOfPlan
<1>4. \A x \in command.channels :
        x \in PlanChannels(m.plan, row.mask) /\ (command.maskOnly => InMask(x, row.mask))
  BY <1>1, AcceptedModes
<1>5. /\ c.plan = m.plan /\ c.channels = channels
      /\ c.outside = {x \in channels : ~InMask(x, row.mask)}
      /\ c.symbolRate = PhyModesFsk[PhyMode(PhyModeId(m))].rate
      /\ c.label = PhyLabel(PhyModesFsk[PhyMode(PhyModeId(m))], Spacing(m.plan))
  BY <1>1 DEF Configuration
<1> HIDE DEF row
<1>6. channels \subseteq PlanChannels(m.plan, row.mask) /\ channels # {}
  BY <1>3, <1>4 DEF ActiveChannels
<1>7. command.maskOnly => \A x \in channels : InMask(x, row.mask)
  BY <1>4 DEF ActiveChannels, MaskChannels
<1> HIDE DEF channels
<1>8. c.symbolRate \in {50, 100, 150, 200, 300}
  BY <1>1, <1>5, AcceptedModes, SymbolRates
<1>9. Cardinality(c.label) <= 1
  BY <1>5, AtMostOneLabel
<1>10. m.plan \in PlanIds /\ Spacing(m.plan) <= 600
  BY <1>1, AcceptedModes, NarrowChannels
<1>11. c.outside = {x \in c.channels :
                      ~InMask(x, Parameters(command.domain, c.plan).mask)}
  BY <1>5 DEF row
<1>12. command.maskOnly => c.outside = {}
  BY <1>5, <1>7
<1>13. /\ c.channels \in SUBSET Nat /\ c.channels # {}
       /\ \E bound \in Nat : \A ch \in c.channels : ch <= bound
  BY <1>3, <1>5, <1>6
<1> QED BY <1>5, <1>8, <1>9, <1>10, <1>11, <1>12, <1>13 DEF Sound

-----------------------------------------------------------------------------
(* The asserts of a multi-channel receiver.                                 *)

\* Every active channel is at some output: the last assert.
AllReached(c) == {p[2] : p \in ActiveOutputs(c)} = c.channels

TunerTypes ==
  /\ tuner.rate \in Nat \ {0} /\ tuner.center \in Nat
  /\ command.oversampling \in Nat \ {0}

\* The sampled band as a number of outputs around a channel.
Band(c, n, middle) ==
  /\ n \in Nat \ {0} /\ middle \in Int
  /\ tuner.rate = n * Spacing(c.plan)
  /\ tuner.rate \div Spacing(c.plan) = n
  /\ tuner.center = Channel0(c.plan) + middle * Spacing(c.plan)

LEMMA Negated ==
  ASSUME NEW s \in Nat \ {0}, NEW a \in Int
  PROVE  a % s = 0 <=> (-a) % s = 0
<1>1. ASSUME NEW b \in Int, b % s = 0 PROVE (-b) % s = 0
  <2>1. PICK q \in Int : b = s * q + 0
    BY <1>1, DivisionLaw
  <2>2. -b = s * (-q) + 0 /\ -q \in Int /\ -b \in Int /\ 0 \in 0 .. s - 1
    BY <2>1
  <2> QED BY <2>2, Remainder
<1>2. -(-a) = a /\ -a \in Int
  OBVIOUS
<1> QED BY <1>1, <1>2

LEMMA BandExists ==
  ASSUME NEW c, Sound(c), TunerTypes,
         tuner.rate % Spacing(c.plan) = 0,
         (tuner.center - Channel0(c.plan)) % Spacing(c.plan) = 0
  PROVE  \E n \in Nat \ {0}, middle \in Int : Band(c, n, middle)
<1>1. PICK s \in Nat \ {0}, rate \in Nat \ {0}, away \in Int :
        /\ s = Spacing(c.plan) /\ rate = tuner.rate
        /\ away = tuner.center - Channel0(c.plan)
  BY PlanFacts DEF Sound, TunerTypes
<1>2. PICK n \in Int : n = rate \div s /\ rate = s * n + (rate % s)
  <2>1. rate \in Int
    OBVIOUS
  <2>2. rate \div s \in Int /\ rate = s * (rate \div s) + (rate % s)
    BY <2>1, DivisionLaw
  <2> QED BY <2>2
<1>3. rate = s * n
  BY <1>1, <1>2
<1>4. n \in Nat \ {0}
  <2>1. CASE n <= 0
    <3>1. s * n <= 0
      BY <2>1
    <3> QED BY <1>3, <3>1
  <2> QED BY <2>1
<1>5. PICK middle \in Int : away = s * middle + (away % s)
  BY DivisionLaw
<1>6. away = middle * s
  BY <1>1, <1>5
<1>7. tuner.center = Channel0(c.plan) + middle * s
  BY <1>1, <1>6, PlanFacts DEF Sound, TunerTypes
<1>8. tuner.rate = n * Spacing(c.plan) /\ tuner.rate \div Spacing(c.plan) = n
  BY <1>1, <1>2, <1>3
<1> QED BY <1>1, <1>4, <1>7, <1>8 DEF Band

LEMMA BandMultiples ==
  ASSUME NEW c, Sound(c), NEW n \in Nat \ {0}, NEW middle \in Int, Band(c, n, middle)
  PROVE  /\ tuner.rate % Spacing(c.plan) = 0
         /\ (tuner.center - Channel0(c.plan)) % Spacing(c.plan) = 0
         /\ (Channel0(c.plan) - tuner.center) % Spacing(c.plan) = 0
<1>1. Spacing(c.plan) \in Nat \ {0} /\ Channel0(c.plan) \in Nat
  BY PlanFacts DEF Sound
<1>2. tuner.rate % Spacing(c.plan) = 0
  BY <1>1, Multiple DEF Band
<1>3. /\ middle * Spacing(c.plan) \in Int
      /\ tuner.center - Channel0(c.plan) = middle * Spacing(c.plan)
      /\ Channel0(c.plan) - tuner.center = -(middle * Spacing(c.plan))
  BY <1>1 DEF Band
<1>4. (middle * Spacing(c.plan)) % Spacing(c.plan) = 0
  BY <1>1, Multiple
<1>5. (-(middle * Spacing(c.plan))) % Spacing(c.plan) = 0
  BY <1>1, <1>3, <1>4, Negated
<1> QED BY <1>2, <1>3, <1>4, <1>5

LEMMA OutputReaches ==
  ASSUME NEW c, Sound(c), NEW n \in Nat \ {0}, NEW middle \in Int, Band(c, n, middle),
         NEW k \in 0 .. n - 1, NEW channel \in Nat
  PROVE  OutputChannel(c, k, n) = channel <=> Reaches(k, n, middle, channel)
<1>1. OutputChannel(c, k, n) = channel
        <=> IsAt(k, n, middle, channel, Spacing(c.plan), Channel0(c.plan))
  BY DEF Band, OutputChannel, IsAt
<1>2. Spacing(c.plan) \in Nat \ {0} /\ Channel0(c.plan) \in Nat
  BY PlanFacts DEF Sound
<1> QED BY <1>1, <1>2, ChannelAtOutput

LEMMA ActiveOutput ==
  ASSUME NEW c, Sound(c), NEW n \in Nat \ {0}, NEW middle \in Int, Band(c, n, middle)
  PROVE  \A p : p \in ActiveOutputs(c) <=>
           \E k \in 0 .. n - 1, channel \in c.channels :
             p = <<k, channel>> /\ Reaches(k, n, middle, channel)
<1>1. ActiveOutputs(c) =
        {p \in {<<k, OutputChannel(c, k, n)>> : k \in 0 .. n - 1} : p[2] \in c.channels}
  BY DEF ActiveOutputs, Band
<1>2. \A k \in 0 .. n - 1, channel \in c.channels :
        OutputChannel(c, k, n) = channel <=> Reaches(k, n, middle, channel)
  BY OutputReaches DEF Sound
<1>3. \A p : p \in ActiveOutputs(c) <=>
        \E k \in 0 .. n - 1 : p = <<k, OutputChannel(c, k, n)>> /\ p[2] \in c.channels
  BY <1>1
<1>4. \A k, x : <<k, x>>[2] = x
  OBVIOUS
<1>5. \A p : p \in ActiveOutputs(c) <=>
        \E k \in 0 .. n - 1 : /\ p = <<k, OutputChannel(c, k, n)>>
                              /\ OutputChannel(c, k, n) \in c.channels
  BY <1>3, <1>4
<1> QED BY <1>2, <1>5

LEMMA ReachedChannels ==
  ASSUME NEW c, Sound(c), NEW n \in Nat \ {0}, NEW middle \in Int, Band(c, n, middle)
  PROVE  AllReached(c) <=>
           \A channel \in c.channels : \E k \in 0 .. n - 1 : Reaches(k, n, middle, channel)
<1>1. \A p : p \in ActiveOutputs(c) <=>
           \E k \in 0 .. n - 1, channel \in c.channels :
             p = <<k, channel>> /\ Reaches(k, n, middle, channel)
  BY ActiveOutput
<1>2. \A k, x : <<k, x>>[2] = x
  OBVIOUS
<1>3. \A channel : channel \in {p[2] : p \in ActiveOutputs(c)} <=>
        channel \in c.channels /\ \E k \in 0 .. n - 1 : Reaches(k, n, middle, channel)
  <2> TAKE channel
  <2>1. ASSUME NEW p \in ActiveOutputs(c), p[2] = channel
        PROVE channel \in c.channels /\ \E k \in 0 .. n - 1 : Reaches(k, n, middle, channel)
    BY <1>1, <1>2, <2>1
  <2>2. ASSUME channel \in c.channels, NEW k \in 0 .. n - 1, Reaches(k, n, middle, channel)
        PROVE  <<k, channel>> \in ActiveOutputs(c)
    BY <1>1, <2>2
  <2>3. ASSUME channel \in c.channels, NEW k \in 0 .. n - 1, Reaches(k, n, middle, channel)
        PROVE  channel \in {p[2] : p \in ActiveOutputs(c)}
    BY <1>2, <2>2, <2>3
  <2> QED BY <2>1, <2>3
<1> QED BY <1>3 DEF AllReached

InSampledBand(c, channel) ==
  LET offset == ChannelFrequency(c.plan, channel) - tuner.center
  IN  -tuner.rate < 2 * offset /\ 2 * offset < tuner.rate

LEMMA BandHolds ==
  ASSUME NEW c, Sound(c), NEW n \in Nat \ {0}, NEW middle \in Int, Band(c, n, middle),
         NEW channel \in Nat
  PROVE  InSampledBand(c, channel)
           <=> -n < 2 * (channel - middle) /\ 2 * (channel - middle) < n
<1>1. PICK s \in Nat \ {0}, c0 \in Nat : s = Spacing(c.plan) /\ c0 = Channel0(c.plan)
  BY PlanFacts DEF Sound
<1>2. PICK d \in Int : d = channel - middle
  OBVIOUS
<1>3. ChannelFrequency(c.plan, channel) - tuner.center = d * s
  <2>1. ChannelFrequency(c.plan, channel) - tuner.center = (c0 + channel * s) - (c0 + middle * s)
    BY <1>1 DEF ChannelFrequency, Band
  <2>2. (c0 + channel * s) - (c0 + middle * s) = d * s
    BY <1>2
  <2> QED BY <2>1, <2>2
<1>4. tuner.rate = n * s
  BY <1>1 DEF Band
<1>5. /\ (-n) * s < (2 * d) * s <=> -n < 2 * d
      /\ (2 * d) * s < n * s <=> 2 * d < n
  BY Product
<1>6. (-n) * s = -(n * s) /\ (2 * d) * s = 2 * (d * s)
  OBVIOUS
<1>7. -n < 2 * d /\ 2 * d < n <=> -(n * s) < 2 * (d * s) /\ 2 * (d * s) < n * s
  BY <1>5, <1>6
<1> QED BY <1>2, <1>3, <1>4, <1>7 DEF InSampledBand

\* The asserts of a multi-channel receiver hold exactly if the sampled band covers
\* its channels.
LEMMA CoversIffReceived ==
  ASSUME NEW c, Sound(c), TunerTypes
  PROVE  Covers(c) <=> Receivable(c) /\ AllReached(c)
<1>1. PICK s \in Nat \ {0}, c0 \in Nat : s = Spacing(c.plan) /\ c0 = Channel0(c.plan)
  BY PlanFacts DEF Sound
<1>2. c.symbolRate \in Nat \ {0}
  BY DEF Sound
<1>3. (tuner.center - Channel0(c.plan)) % Spacing(c.plan) = 0
        <=> (Channel0(c.plan) - tuner.center) % Spacing(c.plan) = 0
  <2>1. PICK a \in Int : a = tuner.center - c0
    BY DEF TunerTypes
  <2>2. c0 - tuner.center = -a
    BY <2>1 DEF TunerTypes
  <2>3. a % s = 0 <=> (-a) % s = 0
    BY Negated
  <2> QED BY <1>1, <2>1, <2>2, <2>3
<1>4. Spacing(c.plan) % c.symbolRate = 0
        => (command.oversampling * Spacing(c.plan)) % c.symbolRate = 0
  <2> SUFFICES ASSUME s % c.symbolRate = 0
               PROVE  (command.oversampling * s) % c.symbolRate = 0
    BY <1>1
  <2>1. PICK o \in Nat, m \in Nat \ {0} : o = command.oversampling /\ m = c.symbolRate
    BY <1>2 DEF TunerTypes
  <2>2. PICK q \in Int : q = s \div m /\ s = m * q + (s % m)
    <3>1. s \in Int
      OBVIOUS
    <3>2. s \div m \in Int /\ s = m * (s \div m) + (s % m)
      BY <3>1, DivisionLaw
    <3> QED BY <3>2
  <2>3. s = q * m
    BY <2>1, <2>2
  <2>4. o * s = (o * q) * m /\ o * q \in Int
    BY <2>3
  <2>5. ((o * q) * m) % m = 0
    BY <2>4, Multiple
  <2>6. (o * s) % m = 0
    BY <2>4, <2>5
  <2> QED BY <2>1, <2>6
<1>5. ASSUME NEW n \in Nat \ {0}, NEW middle \in Int, Band(c, n, middle)
      PROVE  AllReached(c) <=> \A channel \in c.channels : InSampledBand(c, channel)
  <2>1. \A channel \in c.channels :
          (\E k \in 0 .. n - 1 : Reaches(k, n, middle, channel))
            <=> InSampledBand(c, channel)
    <3> TAKE channel \in c.channels
    <3>1. channel \in Nat
      BY DEF Sound
    <3> QED BY <1>5, <3>1, BandHolds, WithinBand
  <2> QED BY <1>5, <2>1, ReachedChannels
<1>6. (/\ tuner.rate % Spacing(c.plan) = 0
       /\ (tuner.center - Channel0(c.plan)) % Spacing(c.plan) = 0)
      => (AllReached(c) <=> \A channel \in c.channels : InSampledBand(c, channel))
  BY <1>5, BandExists
<1>7. Covers(c) <=>
        /\ tuner.rate % Spacing(c.plan) = 0
        /\ (tuner.center - Channel0(c.plan)) % Spacing(c.plan) = 0
        /\ \A channel \in c.channels : InSampledBand(c, channel)
        /\ Spacing(c.plan) % c.symbolRate = 0
        /\ (tuner.rate \div Spacing(c.plan)) % command.oversampling = 0
  BY DEF Covers, InSampledBand
<1> QED BY <1>3, <1>4, <1>6, <1>7 DEF Receivable, IsWhole

-----------------------------------------------------------------------------
(* The receivers of one configuration.                                      *)

\* The receiver at output k, which is at that channel.
ReceiverAt(c, k, channel) ==
  [output |-> k, number |-> channel, outside |-> channel \in c.outside,
   samples |-> SamplesPerSymbol(c)]

LEMMA ReceiverFields ==
  ASSUME NEW c, NEW k, NEW channel
  PROVE  /\ ReceiverAt(c, k, channel).output = k
         /\ ReceiverAt(c, k, channel).number = channel
         /\ ReceiverAt(c, k, channel).outside = (channel \in c.outside)
  BY DEF ReceiverAt

LEMMA ReceiversAre ==
  ASSUME NEW c, Sound(c), NEW n \in Nat \ {0}, NEW middle \in Int, Band(c, n, middle)
  PROVE  \A r : r \in ChannelReceivers(c) <=>
           \E k \in 0 .. n - 1, channel \in c.channels :
             r = ReceiverAt(c, k, channel) /\ Reaches(k, n, middle, channel)
<1>1. \A p : p \in ActiveOutputs(c) <=>
           \E k \in 0 .. n - 1, channel \in c.channels :
             p = <<k, channel>> /\ Reaches(k, n, middle, channel)
  BY ActiveOutput
<1>2. \A r : r \in ChannelReceivers(c) <=>
        \E p \in ActiveOutputs(c) : r = ReceiverAt(c, p[1], p[2])
  BY DEF ChannelReceivers, ReceiverAt
<1>3. ASSUME NEW r, NEW p \in ActiveOutputs(c), r = ReceiverAt(c, p[1], p[2])
      PROVE  \E k \in 0 .. n - 1, channel \in c.channels :
               r = ReceiverAt(c, k, channel) /\ Reaches(k, n, middle, channel)
  <2>1. PICK k \in 0 .. n - 1, channel \in c.channels :
          p = <<k, channel>> /\ Reaches(k, n, middle, channel)
    BY <1>1, <1>3
  <2>2. p[1] = k /\ p[2] = channel
    BY <2>1
  <2> QED BY <1>3, <2>1, <2>2
<1>4. ASSUME NEW r, NEW k \in 0 .. n - 1, NEW channel \in c.channels,
             r = ReceiverAt(c, k, channel), Reaches(k, n, middle, channel)
      PROVE  \E p \in ActiveOutputs(c) : r = ReceiverAt(c, p[1], p[2])
  <2> DEFINE p == <<k, channel>>
  <2>1. p[1] = k /\ p[2] = channel
    OBVIOUS
  <2>2. p \in ActiveOutputs(c)
    BY <1>1, <1>4
  <2> HIDE DEF p
  <2> QED BY <1>4, <2>1, <2>2
<1> QED BY <1>2, <1>3, <1>4

LEMMA SamplesType ==
  ASSUME NEW c, Sound(c), TunerTypes, Receivable(c)
  PROVE  SamplesPerSymbol(c) \in Nat \ {0}
<1>1. PICK s \in Nat \ {0}, o \in Nat \ {0}, m \in Nat \ {0} :
        s = Spacing(c.plan) /\ o = command.oversampling /\ m = c.symbolRate
  BY PlanFacts DEF Sound, TunerTypes
<1>2. s % m = 0
  BY <1>1 DEF Receivable, IsWhole
<1>3. s >= m
  <2>1. CASE s < m
    <3>1. s = m * 0 + s /\ s \in 0 .. m - 1 /\ s \in Int
      BY <2>1
    <3>2. s % m = s
      BY <3>1, Remainder
    <3> QED BY <1>2, <3>2
  <2> QED BY <2>1
<1>4. PICK x \in Nat : x = o * s
  OBVIOUS
<1>5. x >= m
  <2>1. (o - 1) * s >= 0
    OBVIOUS
  <2>2. o * s = (o - 1) * s + s
    OBVIOUS
  <2> QED BY <1>3, <1>4, <2>1, <2>2
<1>6. x \div m \in Int /\ x % m \in 0 .. m - 1 /\ x = m * (x \div m) + (x % m)
  <2>1. x \in Int
    OBVIOUS
  <2> QED BY <2>1, DivisionLaw
<1>7. PICK q \in Int, r \in 0 .. m - 1 : q = x \div m /\ x = m * q + r
  BY <1>6
<1>8. q >= 1
  <2>1. CASE q <= 0
    <3>1. m * q <= 0
      BY <2>1
    <3> QED BY <1>5, <1>7, <3>1
  <2> QED BY <2>1
<1>9. SamplesPerSymbol(c) = q
  BY <1>1, <1>4, <1>7 DEF SamplesPerSymbol
<1> QED BY <1>8, <1>9

LEMMA ReceiversTyped ==
  ASSUME NEW c, Sound(c), TunerTypes, Receivable(c), AllReached(c)
  PROVE  ChannelReceivers(c) \in SUBSET Receiver
<1>1. Covers(c)
  BY CoversIffReceived
<1>2. PICK n \in Nat \ {0}, middle \in Int : Band(c, n, middle)
  BY <1>1, BandExists DEF Covers
<1>3. SamplesPerSymbol(c) \in Nat \ {0}
  BY SamplesType
<1>4. ASSUME NEW k \in 0 .. n - 1, NEW channel \in c.channels
      PROVE  ReceiverAt(c, k, channel) \in Receiver
  <2>1. k \in Nat /\ channel \in Nat /\ (channel \in c.outside) \in BOOLEAN
    BY DEF Sound
  <2> QED BY <1>3, <2>1 DEF ReceiverAt, Receiver
<1> QED BY <1>2, <1>4, ReceiversAre

\* Every channel is heard by one receiver, its own.
LEMMA HeardByOne ==
  ASSUME NEW c, Sound(c), TunerTypes, Receivable(c), AllReached(c), NEW channel \in c.channels
  PROVE  \E r : /\ Hearing(ChannelReceivers(c), ChannelFrequency(c.plan, channel),
                           Spacing(c.plan)) = {r}
                /\ r.number = channel /\ r.outside = (channel \in c.outside)
<1> DEFINE hearing == Hearing(ChannelReceivers(c), ChannelFrequency(c.plan, channel),
                              Spacing(c.plan))
<1>1. Covers(c)
  BY CoversIffReceived
<1>2. PICK n \in Nat \ {0}, middle \in Int : Band(c, n, middle)
  BY <1>1, BandExists DEF Covers
<1>3. PICK k \in 0 .. n - 1 : Reaches(k, n, middle, channel)
  BY <1>2, ReachedChannels
<1>4. channel \in Nat
  BY DEF Sound
<1>5. PICK s \in Nat \ {0}, c0 \in Nat : s = Spacing(c.plan) /\ c0 = Channel0(c.plan)
  BY PlanFacts DEF Sound
<1>6. PICK folded \in Int :
        /\ folded = (ChannelFrequency(c.plan, channel) - tuner.center) % tuner.rate
        /\ folded = k * s
  <2>1. ChannelFrequency(c.plan, channel) - tuner.center = (channel - middle) * s
    <3>1. ChannelFrequency(c.plan, channel) - tuner.center
            = (c0 + channel * s) - (c0 + middle * s)
      BY <1>2, <1>5 DEF ChannelFrequency, Band
    <3>2. (c0 + channel * s) - (c0 + middle * s) = (channel - middle) * s
      BY <1>4
    <3> QED BY <3>1, <3>2
  <2>2. tuner.rate = n * s
    BY <1>2, <1>5 DEF Band
  <2>3. ((channel - middle) * s) % (n * s) = k * s
    BY <1>3, <1>4, Folded
  <2>4. k * s \in Int
    OBVIOUS
  <2> QED BY <2>1, <2>2, <2>3, <2>4
<1>7. InSampledBand(c, channel)
  BY <1>1 DEF Covers, InSampledBand
<1>8. hearing = {r \in ChannelReceivers(c) : r.output * s = folded}
  BY <1>5, <1>6, <1>7 DEF Hearing, InSampledBand
<1>9. \A r : r \in ChannelReceivers(c) <=>
        \E j \in 0 .. n - 1, ch \in c.channels :
          r = ReceiverAt(c, j, ch) /\ Reaches(j, n, middle, ch)
  BY <1>2, ReceiversAre
<1> HIDE DEF hearing
<1>10. ReceiverAt(c, k, channel) \in hearing
  <2>1. ReceiverAt(c, k, channel) \in ChannelReceivers(c)
    BY <1>3, <1>9
  <2>2. ReceiverAt(c, k, channel).output * s = folded
    BY <1>6, ReceiverFields
  <2> QED BY <1>8, <2>1, <2>2
<1>11. ASSUME NEW r \in hearing PROVE r = ReceiverAt(c, k, channel)
  <2>1. PICK j \in 0 .. n - 1, ch \in c.channels :
          r = ReceiverAt(c, j, ch) /\ Reaches(j, n, middle, ch)
    BY <1>8, <1>9
  <2>2. j * s = k * s
    BY <1>6, <1>8, <2>1, ReceiverFields
  <2>3. j \in Int /\ k \in Int
    OBVIOUS
  <2>4. j = k
    BY <2>2, <2>3, Product
  <2>5. ch = channel
    BY <1>3, <2>1, <2>4 DEF Reaches
  <2> QED BY <2>1, <2>4, <2>5
<1>12. hearing = {ReceiverAt(c, k, channel)}
  BY <1>10, <1>11
<1> QED BY <1>12, ReceiverFields DEF hearing

LEMMA AsManyReceivers ==
  ASSUME NEW c, Sound(c), TunerTypes, Receivable(c), AllReached(c)
  PROVE  Cardinality(ChannelReceivers(c)) = Cardinality(c.channels)
<1>1. Covers(c)
  BY CoversIffReceived
<1>2. PICK n \in Nat \ {0}, middle \in Int : Band(c, n, middle)
  BY <1>1, BandExists DEF Covers
<1>3. \A channel \in c.channels : \E k \in 0 .. n - 1 : Reaches(k, n, middle, channel)
  BY <1>2, ReachedChannels
<1>4. \A r : r \in ChannelReceivers(c) <=>
        \E k \in 0 .. n - 1, channel \in c.channels :
          r = ReceiverAt(c, k, channel) /\ Reaches(k, n, middle, channel)
  BY <1>2, ReceiversAre
<1> DEFINE at == [channel \in c.channels |->
                    CHOOSE k \in 0 .. n - 1 : Reaches(k, n, middle, channel)]
           f == [channel \in c.channels |-> ReceiverAt(c, at[channel], channel)]
<1>5. \A channel \in c.channels :
        at[channel] \in 0 .. n - 1 /\ Reaches(at[channel], n, middle, channel)
  BY <1>3
<1> HIDE DEF at
<1>6. f \in [c.channels -> ChannelReceivers(c)]
  BY <1>4, <1>5
<1>7. \A a, b \in c.channels : f[a] = f[b] => a = b
  BY ReceiverFields
<1>8. ASSUME NEW r \in ChannelReceivers(c) PROVE \E a \in c.channels : f[a] = r
  <2>1. PICK k \in 0 .. n - 1, channel \in c.channels :
          r = ReceiverAt(c, k, channel) /\ Reaches(k, n, middle, channel)
    BY <1>4
  <2>2. channel \in Int
    BY DEF Sound
  <2>3. at[channel] = k
    BY <1>5, <2>1, <2>2, ReachedOnce
  <2> QED BY <2>1, <2>3
<1> HIDE DEF f
<1>9. f \in Bijection(c.channels, ChannelReceivers(c))
  BY <1>6, <1>7, <1>8 DEF Bijection, Injection, Surjection, IsInjective
<1>10. IsFiniteSet(c.channels)
  BY FS_BoundedSetOfNaturals DEF Sound
<1>11. ExistsBijection(c.channels, ChannelReceivers(c))
  BY <1>9 DEF ExistsBijection
<1> QED BY <1>10, <1>11, FS_Bijection

-----------------------------------------------------------------------------
(* Tuning.                                                                  *)

LEMMA Extremes ==
  ASSUME NEW S \in SUBSET Nat, S # {}, NEW bound \in Nat, \A x \in S : x <= bound
  PROVE  /\ Min(S) \in S /\ Max(S) \in S
         /\ \A x \in S : Min(S) <= x /\ x <= Max(S)
<1>1. \E m \in S : \A x \in S : m <= x
  BY LeastNatural
<1>2. \E m \in S : \A x \in S : m >= x
  <2>1. PICK m \in S : \A x \in S : x <= m
    BY GreatestNatural
  <2>2. \A x \in S : m >= x
    BY <2>1
  <2> QED BY <2>2
<1>3. Min(S) \in S /\ \A x \in S : Min(S) <= x
  BY <1>1 DEF Min
<1>4. Max(S) \in S /\ \A x \in S : Max(S) >= x
  BY <1>2 DEF Max
<1>5. \A x \in S : x <= Max(S)
  BY <1>4
<1> QED BY <1>3, <1>4, <1>5

MultiTuner(c) ==
  [rate |-> OutputCount(Min(c.channels), Max(c.channels)) * Spacing(c.plan),
   center |-> ChannelFrequency(c.plan, Middle(Min(c.channels), Max(c.channels)))]

\* The band that the multi-channel sniffer plans is one of whole channels, even in
\* number, with all active channels within.
LEMMA PlanIsBand ==
  ASSUME NEW c, Sound(c), tuner = MultiTuner(c)
  PROVE  /\ tuner.rate \in Nat \ {0} /\ tuner.center \in Nat
         /\ \E n \in Nat \ {0}, middle \in Int :
              /\ Band(c, n, middle) /\ n % 2 = 0
              /\ \A channel \in c.channels : InSampledBand(c, channel)
<1>1. PICK lowest \in Nat, highest \in Nat :
        /\ lowest = Min(c.channels) /\ highest = Max(c.channels) /\ lowest <= highest
        /\ \A channel \in c.channels : channel \in lowest .. highest
  <2>1. c.channels \in SUBSET Nat /\ c.channels # {}
    BY DEF Sound
  <2>2. PICK bound \in Nat : \A channel \in c.channels : channel <= bound
    BY DEF Sound
  <2>3. /\ Min(c.channels) \in c.channels /\ Max(c.channels) \in c.channels
        /\ \A x \in c.channels : Min(c.channels) <= x /\ x <= Max(c.channels)
    BY <2>1, <2>2, Extremes
  <2>4. Min(c.channels) \in Nat /\ Max(c.channels) \in Nat
    BY <2>1, <2>3
  <2>5. \A x \in c.channels : x \in Min(c.channels) .. Max(c.channels)
    BY <2>1, <2>3, <2>4
  <2> QED BY <2>3, <2>4, <2>5
<1>2. PICK s \in Nat \ {0}, c0 \in Nat : s = Spacing(c.plan) /\ c0 = Channel0(c.plan)
  BY PlanFacts DEF Sound
<1>3. PICK n \in Nat \ {0}, middle \in Nat :
        /\ n = OutputCount(lowest, highest) /\ middle = Middle(lowest, highest)
        /\ n % 2 = 0
        /\ \A channel \in lowest .. highest :
             -n < 2 * (channel - middle) /\ 2 * (channel - middle) < n
  <2>1. Middle(lowest, highest) \in Nat
    BY <1>1, PlannedBand
  <2> QED BY <1>1, <2>1, PlannedBand
<1>4. tuner.rate = n * s /\ tuner.center = c0 + middle * s
  BY <1>1, <1>2, <1>3 DEF MultiTuner, ChannelFrequency
<1>5. n * s \in Nat \ {0} /\ c0 + middle * s \in Nat
  <2>1. 0 * s < n * s /\ n * s \in Int
    BY Product
  <2>2. middle * s >= 0
    OBVIOUS
  <2> QED BY <2>1, <2>2
<1>6. (n * s) \div s = n
  BY Multiple
<1>7. middle \in Int /\ Band(c, n, middle)
  BY <1>2, <1>4, <1>6 DEF Band
<1>8. \A channel \in c.channels : InSampledBand(c, channel)
  <2> TAKE channel \in c.channels
  <2>1. channel \in Nat /\ channel \in lowest .. highest
    BY <1>1 DEF Sound
  <2> QED BY <1>3, <1>7, <2>1, BandHolds
<1> QED BY <1>3, <1>4, <1>5, <1>7, <1>8

\* The fixed rate of the single-channel sniffer fits every symbol rate and spacing.
LEMMA SingleFits ==
  ASSUME NEW c, Sound(c)
  PROVE  /\ IsWhole(SingleRate, Decimation(c.symbolRate) * c.symbolRate)
         /\ SingleRate >= Spacing(c.plan)
         /\ 2 * RxOffset + Spacing(c.plan) <= SingleRate
         /\ LET rate == SingleRate \div Decimation(c.symbolRate)
                samples == SingleRate \div (Decimation(c.symbolRate) * c.symbolRate)
            IN  /\ samples \in Nat /\ samples * c.symbolRate = rate
                /\ samples > 2 /\ rate >= Spacing(c.plan)
<1>1. Spacing(c.plan) \in Nat /\ Spacing(c.plan) <= 600
  BY PlanFacts DEF Sound
<1>2. ASSUME NEW x \in {50, 100, 150, 200, 300}
      PROVE  /\ IsWhole(2400, Decimation(x) * x)
             /\ 2400 \div Decimation(x) >= 600
             /\ (2400 \div (Decimation(x) * x)) \in Nat
             /\ (2400 \div (Decimation(x) * x)) * x = 2400 \div Decimation(x)
             /\ 2400 \div (Decimation(x) * x) > 2
             /\ (2400 \div Decimation(x)) \in Nat
  <2>1. CASE x = 50
    BY <2>1 DEF IsWhole, Decimation
  <2>2. CASE x = 100
    BY <2>2 DEF IsWhole, Decimation
  <2>3. CASE x = 150
    BY <2>3 DEF IsWhole, Decimation
  <2>4. CASE x = 200
    BY <2>4 DEF IsWhole, Decimation
  <2>5. CASE x = 300
    BY <2>5 DEF IsWhole, Decimation
  <2> QED BY <2>1, <2>2, <2>3, <2>4, <2>5
<1>3. c.symbolRate \in {50, 100, 150, 200, 300}
  BY DEF Sound
<1>4. 2 * RxOffset + Spacing(c.plan) <= SingleRate /\ SingleRate >= Spacing(c.plan)
  BY <1>1 DEF RxOffset, SingleRate
<1> HIDE DEF IsWhole
<1>5. PICK whole, samples, rate :
        /\ whole = IsWhole(2400, Decimation(c.symbolRate) * c.symbolRate)
        /\ rate = 2400 \div Decimation(c.symbolRate)
        /\ samples = 2400 \div (Decimation(c.symbolRate) * c.symbolRate)
  OBVIOUS
<1>6. /\ whole /\ rate \in Nat /\ rate >= 600
      /\ samples \in Nat /\ samples * c.symbolRate = rate /\ samples > 2
  BY <1>2, <1>3, <1>5
<1>7. rate >= Spacing(c.plan)
  BY <1>1, <1>6
<1> QED BY <1>4, <1>5, <1>6, <1>7 DEF SingleRate

-----------------------------------------------------------------------------
(* The invariant of the setup.                                              *)

Early == {"checking", "creating", "configuring", "tuning"}
Complete == Len(receivers) = Len(configs)

ConfigsBuilt ==
  /\ command \in CommandLines
  /\ configs \in Seq(Configs) /\ Len(configs) <= Len(command.modes)
  /\ stage \in {"checking", "creating"} => configs = <<>>
  /\ stage = "configuring" => Len(configs) < Len(command.modes)
  /\ stage = "tuning" => Len(configs) = Len(command.modes)

SingleTuner(c) ==
  [rate |-> SingleRate, center |-> ChannelFrequency(c.plan, SingleChannel) - RxOffset]
PlannedTuner ==
  /\ command.app = "multi" => tuner = MultiTuner(configs[1])
  /\ command.app = "modes" => tuner = [rate |-> command.rate, center |-> command.center]
  /\ command.app = "single" => tuner = SingleTuner(configs[1])

NotTuned == tuner = [rate |-> 0, center |-> 0] /\ receivers = <<>>
TunedOnce ==
  \/ stage \in Early \cup {"ended"} /\ NotTuned
  \/ stage \notin Early /\ Len(configs) = Len(command.modes) /\ PlannedTuner

Accepts(c) == Receivable(c) /\ AllReached(c)
SingleReceiver(c) ==
  [output |-> 0, number |-> SingleChannel, outside |-> FALSE,
   samples |-> tuner.rate \div (Decimation(c.symbolRate) * c.symbolRate)]
Built(i) ==
  IF command.app = "single" THEN receivers[i] = {SingleReceiver(configs[i])}
  ELSE receivers[i] = ChannelReceivers(configs[i]) /\ Accepts(configs[i])

ReceiversBuilt ==
  /\ receivers \in Seq(SUBSET Receiver) /\ Len(receivers) <= Len(configs)
  /\ \A i \in 1 .. Len(receivers) : Built(i)
  /\ stage = "building" => Len(receivers) < Len(configs)
  /\ stage = "opening" => IF command.app = "modes" THEN receivers = <<>> ELSE Complete
  /\ (stage # "ended" /\ HandlersInstalled) \/ stage = "connected" => Complete

EndsExplained ==
  /\ command.app = "single" /\ status \in {"rejected", "crashed"} => configs = <<>>
  /\ command.app # "single" /\ tuner.rate > 0 /\ status = "crashed" =>
       \/ Complete /\ command.dump
       \/ Len(receivers) < Len(configs) /\ ~Accepts(NextConfig)

SetupInv == ConfigsBuilt /\ TunedOnce /\ ReceiversBuilt /\ EndsExplained

LEMMA CommandFacts ==
  ASSUME command \in CommandLines
  PROVE  /\ command.app \in {"single", "multi", "modes"}
         /\ command.modes \in Seq(Modes) /\ command.modes # <<>>
         /\ Len(command.modes) \in Nat \ {0}
         /\ command.app # "modes" => Len(command.modes) = 1 /\ ~command.dump
         /\ command.app = "modes" => command.rate \in Nat \ {0} /\ command.center \in Nat
         /\ command.oversampling \in Nat \ {0}
<1>1. /\ command.app \in {"single", "multi", "modes"}
      /\ command.modes \in Seq(Modes) /\ command.modes # <<>>
      /\ command.app # "modes" => Len(command.modes) = 1 /\ ~command.dump
      /\ command.app = "modes" => command.rate \in Nat \ {0} /\ command.center \in Nat
      /\ command.oversampling \in Nat \ {0}
  BY CommandLineTypes DEF Modes
<1>2. Len(command.modes) \in Nat \ {0}
  BY <1>1, EmptySeq
<1> QED BY <1>1, <1>2

\* Once tuned, there are configurations to receive, and a rate and a center.
LEMMA ConfigsSound ==
  ASSUME ConfigsBuilt, NEW i \in 1 .. Len(configs)
  PROVE  Sound(configs[i])
BY ConfigsAreSound DEF ConfigsBuilt

LEMMA PlannedTypes ==
  ASSUME ConfigsBuilt, Len(configs) = Len(command.modes), PlannedTuner
  PROVE  TunerTypes /\ tuner \in [rate : Nat, center : Nat]
<1>1. Len(configs) >= 1 /\ command.oversampling \in Nat \ {0}
  BY CommandFacts DEF ConfigsBuilt
<1>2. Sound(configs[1])
  BY <1>1, ConfigsSound DEF ConfigsBuilt
<1>3. CASE command.app = "multi"
  <2>1. tuner = MultiTuner(configs[1])
    BY <1>3 DEF PlannedTuner
  <2>2. tuner.rate \in Nat \ {0} /\ tuner.center \in Nat
    BY <1>2, <2>1, PlanIsBand
  <2> QED BY <1>1, <2>1, <2>2 DEF MultiTuner, TunerTypes
<1>4. CASE command.app = "modes"
  BY <1>1, <1>4, CommandFacts DEF PlannedTuner, TunerTypes, ConfigsBuilt
<1>5. CASE command.app = "single"
  <2>1. tuner = SingleTuner(configs[1])
    BY <1>5 DEF PlannedTuner
  <2>2. SingleChannel \in configs[1].channels /\ SingleChannel \in Nat
    BY <1>2 DEF Sound, SingleChannel
  <2>3. ChannelFrequency(configs[1].plan, SingleChannel) - RxOffset \in Nat
    <3>1. PICK s \in Nat, c0 \in Nat, ch \in Nat :
            /\ s = Spacing(configs[1].plan) /\ c0 = Channel0(configs[1].plan)
            /\ ch = SingleChannel /\ c0 >= 300
      BY <1>2, <2>2, PlanFacts DEF Sound
    <3>2. ch * s \in Nat
      OBVIOUS
    <3>3. ChannelFrequency(configs[1].plan, SingleChannel) - RxOffset = (c0 + ch * s) - 300
      BY <3>1 DEF ChannelFrequency, RxOffset
    <3> QED BY <3>1, <3>2, <3>3
  <2> QED BY <1>1, <2>1, <2>3 DEF SingleTuner, SingleRate, TunerTypes
<1> QED BY <1>3, <1>4, <1>5, CommandFacts DEF ConfigsBuilt

\* What does not change what has been set up changes nothing that is said of it.
LEMMA NothingMoves ==
  ASSUME UNCHANGED <<command, setupVars>>
  PROVE  /\ Configs' = Configs /\ (NotTuned' <=> NotTuned)
         /\ (PlannedTuner' <=> PlannedTuner)
         /\ \A i : Built(i)' <=> Built(i)
         /\ (Accepts(NextConfig)' <=> Accepts(NextConfig))
<1>1. command' = command /\ configs' = configs /\ tuner' = tuner /\ receivers' = receivers
  BY DEF setupVars
<1>2. \A m : (Accepted(m)' <=> Accepted(m)) /\ Configuration(m)' = Configuration(m)
  BY <1>1 DEF Accepted, Rejected, Configuration, ActiveChannels
<1>3. Configs' = Configs
  BY <1>2 DEF Configs
<1>4. NotTuned' <=> NotTuned
  BY <1>1 DEF NotTuned
<1>5. PlannedTuner' <=> PlannedTuner
  BY <1>1 DEF PlannedTuner, MultiTuner, SingleTuner, SingleChannel
<1>6. \A c : (Accepts(c)' <=> Accepts(c)) /\ ChannelReceivers(c)' = ChannelReceivers(c)
  BY <1>1 DEF Accepts, Receivable, AllReached, ActiveOutputs, OutputChannel,
              ChannelReceivers, SamplesPerSymbol
<1>7. \A i : Built(i)' <=> Built(i)
  BY <1>1, <1>6 DEF Built, SingleReceiver, SingleChannel
<1>8. Accepts(NextConfig)' <=> Accepts(NextConfig)
  BY <1>1, <1>6 DEF NextConfig
<1> QED BY <1>3, <1>4, <1>5, <1>7, <1>8

LEMMA SetupInit == Init => SetupInv
<1> SUFFICES ASSUME Init PROVE SetupInv
  OBVIOUS
<1>1. /\ command \in CommandLines /\ stage = "checking" /\ status = "none"
      /\ configs = <<>> /\ tuner = [rate |-> 0, center |-> 0] /\ receivers = <<>>
  BY DEF Init, InitSetup
<1>2. Len(command.modes) \in Nat /\ Len(<<>>) = 0
  BY <1>1, CommandFacts
<1>3. ConfigsBuilt
  BY <1>1, <1>2 DEF ConfigsBuilt
<1>4. TunedOnce
  BY <1>1 DEF TunedOnce, Early, NotTuned
<1>5. ReceiversBuilt
  BY <1>1, <1>2 DEF ReceiversBuilt, HandlersInstalled
<1>6. EndsExplained
  BY <1>1 DEF EndsExplained
<1> QED BY <1>3, <1>4, <1>5, <1>6 DEF SetupInv

\* Steps that leave the setup alone: the stage stays, goes on, or is the end.
GoesOn ==
  \/ stage' = stage /\ status' = status
  \/ stage = "checking" /\ stage' = "creating" /\ status' = status
  \/ stage \in {"checking", "creating"} /\ stage' = "configuring" /\ status' = status
  \/ /\ stage = "opening" /\ status' = status
     /\ stage' = IF command.app = "modes" THEN "building" ELSE "connected"
  \/ /\ stage \in {"connected", "handling", "started", "prompting", "stopping"}
     /\ stage' \in {"handling", "started", "prompting", "stopping", "waiting"}
     /\ status' = status
  \/ stage' = "ended" /\ status' \in {"ok", "exists", "killed"}
  \/ stage' = "ended" /\ status' = "rejected" /\ (command.app = "single" => configs = <<>>)
  \/ /\ stage' = "ended" /\ status' = "crashed"
     /\ command.app = "single" => configs = <<>>
     /\ \/ NotTuned
        \/ Complete /\ command.dump
        \/ Len(receivers) < Len(configs) /\ ~Accepts(NextConfig)

LEMMA OthersKeepSetup ==
  ASSUME SetupInv, UNCHANGED <<command, setupVars>>, GoesOn
  PROVE  SetupInv'
<1>1. command' = command /\ configs' = configs /\ tuner' = tuner /\ receivers' = receivers
  BY DEF setupVars
<1>2. /\ command.modes # <<>> /\ Len(command.modes) \in Nat \ {0}
      /\ command.app # "modes" => Len(command.modes) = 1
  BY CommandFacts DEF SetupInv, ConfigsBuilt
<1>3. Len(configs) \in Nat /\ Len(receivers) \in Nat /\ Len(<<>>) = 0
  BY DEF SetupInv, ConfigsBuilt, ReceiversBuilt
<1>4. ConfigsBuilt'
  BY <1>1, <1>2, <1>3, NothingMoves DEF SetupInv, ConfigsBuilt, GoesOn
<1>5. TunedOnce'
  BY <1>1, NothingMoves DEF SetupInv, TunedOnce, Early, GoesOn
<1>6. ReceiversBuilt'
  <2>1. stage = "opening" /\ command.app = "modes" => Len(receivers) < Len(configs)
    <3>1. stage = "opening" => Len(configs) = Len(command.modes)
      BY DEF SetupInv, TunedOnce, Early
    <3> QED BY <1>2, <1>3, <3>1 DEF SetupInv, ReceiversBuilt
  <2>2. \A i \in 1 .. Len(receivers) : Built(i)'
    BY NothingMoves DEF SetupInv, ReceiversBuilt
  <2>3. /\ stage' = "building" => Len(receivers) < Len(configs)
        /\ stage' = "opening" =>
             IF command.app = "modes" THEN receivers = <<>> ELSE Complete
        /\ stage' \in {"connected", "handling", "started", "prompting", "stopping", "waiting"}
             => Complete
    BY <2>1 DEF SetupInv, ReceiversBuilt, HandlersInstalled, GoesOn
  <2> QED
    BY <1>1, <2>2, <2>3 DEF SetupInv, ReceiversBuilt, HandlersInstalled, Complete
<1>7. EndsExplained'
  <2>1. (NotTuned => tuner.rate = 0) /\ ~(0 > 0)
    BY DEF NotTuned
  <2>2. Accepts(NextConfig)' <=> Accepts(NextConfig)
    BY NothingMoves
  <2>3. Complete' <=> Complete
    BY <1>1 DEF Complete
  <2> QED
    BY <1>1, <2>1, <2>2, <2>3 DEF SetupInv, EndsExplained, GoesOn
<1> QED BY <1>4, <1>5, <1>6, <1>7 DEF SetupInv

LEMMA ConfigureKeeps ==
  ASSUME SetupInv, status = "none", ConfigureMode
  PROVE  SetupInv'
<1>1. /\ stage = "configuring" /\ Accepted(NextMode)
      /\ configs' = Append(configs, Configuration(NextMode))
      /\ stage' = IF Len(configs') = Len(command.modes) THEN "tuning" ELSE "configuring"
      /\ command' = command /\ status' = status /\ tuner' = tuner /\ receivers' = receivers
  BY DEF ConfigureMode, Accepted
<1>2. /\ configs \in Seq(Configs) /\ Len(configs) \in Nat
      /\ Len(configs) < Len(command.modes) /\ Len(command.modes) \in Nat
      /\ command \in CommandLines /\ command.modes \in Seq(Modes)
  BY <1>1, CommandFacts DEF SetupInv, ConfigsBuilt
<1>3. NextMode \in Modes
  BY <1>2 DEF NextMode
<1>4. Configuration(NextMode) \in Configs
  BY <1>1, <1>3 DEF Configs
<1>5. configs' \in Seq(Configs) /\ Len(configs') = Len(configs) + 1
  <2> HIDE DEF Configs
  <2> QED BY <1>1, <1>2, <1>4, AppendProperties
<1>6. Configs' = Configs
  <2>1. \A m : (Accepted(m)' <=> Accepted(m)) /\ Configuration(m)' = Configuration(m)
    BY <1>1 DEF Accepted, Rejected, Configuration, ActiveChannels
  <2> QED BY <2>1 DEF Configs
<1>7. ConfigsBuilt'
  BY <1>1, <1>2, <1>5, <1>6 DEF ConfigsBuilt
<1>8. NotTuned
  BY <1>1 DEF SetupInv, TunedOnce, Early
<1>9. TunedOnce'
  BY <1>1, <1>8 DEF TunedOnce, Early, NotTuned
<1>10. ReceiversBuilt'
  <2>1. receivers' = <<>> /\ Len(<<>>) = 0
    BY <1>1, <1>8 DEF NotTuned
  <2>2. Len(configs') \in Nat
    BY <1>2, <1>5
  <2> QED
    BY <1>1, <2>1, <2>2 DEF ReceiversBuilt, HandlersInstalled
<1>11. EndsExplained'
  BY <1>1 DEF EndsExplained
<1> QED BY <1>7, <1>9, <1>10, <1>11 DEF SetupInv

LEMMA TuneKeeps ==
  ASSUME SetupInv, status = "none", TuneSingle \/ TuneMulti \/ TuneModes
  PROVE  SetupInv'
<1>1. stage = "tuning"
  BY DEF TuneSingle, TuneMulti, TuneModes
<1>2. /\ NotTuned /\ configs \in Seq(Configs) /\ Len(configs) = Len(command.modes)
      /\ command \in CommandLines
  BY <1>1 DEF SetupInv, TunedOnce, Early, ConfigsBuilt
<1>3. /\ Len(configs) \in Nat \ {0}
      /\ command.app \in {"single", "multi", "modes"}
  BY <1>2, CommandFacts
<1>4. Sound(configs[1])
  BY <1>3, ConfigsSound DEF SetupInv
<1>5. IsWhole(SingleRate, Decimation(configs[1].symbolRate) * configs[1].symbolRate)
  BY <1>4, SingleFits
<1>6. /\ command' = command /\ configs' = configs /\ receivers' = receivers /\ status' = status
      /\ \/ command.app = "single" /\ stage' = "building" /\ tuner' = SingleTuner(configs[1])
         \/ command.app = "multi" /\ stage' = "building" /\ tuner' = MultiTuner(configs[1])
         \/ /\ command.app = "modes" /\ stage' = "opening"
            /\ tuner' = [rate |-> command.rate, center |-> command.center]
  <2>1. CASE TuneSingle
    BY <1>5, <2>1 DEF TuneSingle, SingleTuner
  <2>2. CASE TuneMulti
    BY <2>2 DEF TuneMulti, MultiTuner
  <2>3. CASE TuneModes
    BY <2>3 DEF TuneModes
  <2> QED BY <2>1, <2>2, <2>3
<1>7. Configs' = Configs
  <2>1. \A m : (Accepted(m)' <=> Accepted(m)) /\ Configuration(m)' = Configuration(m)
    BY <1>6 DEF Accepted, Rejected, Configuration, ActiveChannels
  <2> QED BY <2>1 DEF Configs
<1>8. ConfigsBuilt'
  BY <1>6, <1>7 DEF SetupInv, ConfigsBuilt
<1>9. PlannedTuner'
  BY <1>6 DEF PlannedTuner, MultiTuner, SingleTuner, SingleChannel
<1>10. TunedOnce'
  BY <1>2, <1>6, <1>9 DEF TunedOnce, Early
<1>11. ReceiversBuilt'
  <2>1. receivers' = <<>> /\ Len(<<>>) = 0
    BY <1>2, <1>6 DEF NotTuned
  <2> QED
    BY <1>3, <1>6, <2>1 DEF ReceiversBuilt, HandlersInstalled
<1>12. EndsExplained'
  BY <1>6 DEF EndsExplained
<1> QED BY <1>8, <1>10, <1>11, <1>12 DEF SetupInv

\* Where the receivers of one more configuration are built.
LEMMA BuildFacts ==
  ASSUME SetupInv, stage = "building"
  PROVE  /\ ConfigsBuilt /\ Len(configs) = Len(command.modes) /\ PlannedTuner /\ TunerTypes
         /\ receivers \in Seq(SUBSET Receiver) /\ Len(receivers) \in Nat
         /\ Len(configs) \in Nat /\ Len(receivers) < Len(configs)
         /\ Sound(NextConfig) /\ NextConfig = configs[Len(receivers) + 1]
<1>1. /\ ConfigsBuilt /\ Len(configs) = Len(command.modes) /\ PlannedTuner
      /\ receivers \in Seq(SUBSET Receiver) /\ Len(receivers) < Len(configs)
  BY DEF SetupInv, TunedOnce, Early, ReceiversBuilt
<1>2. Len(receivers) \in Nat /\ Len(configs) \in Nat
  BY <1>1 DEF ConfigsBuilt
<1>3. Len(receivers) + 1 \in 1 .. Len(configs)
  BY <1>1, <1>2
<1>4. Sound(NextConfig)
  BY <1>1, <1>3, ConfigsSound DEF NextConfig
<1>5. TunerTypes
  BY <1>1, PlannedTypes
<1> QED BY <1>1, <1>2, <1>4, <1>5 DEF NextConfig

LEMMA AppendKeeps ==
  ASSUME SetupInv, status = "none", stage = "building",
         NEW new \in SUBSET Receiver, receivers' = Append(receivers, new),
         IF command.app = "single" THEN new = {SingleReceiver(NextConfig)}
         ELSE new = ChannelReceivers(NextConfig) /\ Accepts(NextConfig),
         stage' = AfterBuilding, UNCHANGED <<command, status, configs, tuner>>
  PROVE  SetupInv'
<1>1. command' = command /\ status' = status /\ configs' = configs /\ tuner' = tuner
  OBVIOUS
<1>2. PICK n \in Nat : n = Len(receivers)
  BY BuildFacts
<1>3. /\ receivers' \in Seq(SUBSET Receiver) /\ Len(receivers') = n + 1
      /\ \A i \in 1 .. n : receivers'[i] = receivers[i]
      /\ receivers'[n + 1] = new
  <2> HIDE DEF Receiver
  <2> QED BY <1>2, BuildFacts, AppendProperties
<1>4. /\ n + 1 <= Len(configs) /\ Len(configs) \in Nat /\ NextConfig = configs[n + 1]
  BY <1>2, BuildFacts
<1>5. Configs' = Configs
  <2>1. \A m : (Accepted(m)' <=> Accepted(m)) /\ Configuration(m)' = Configuration(m)
    BY <1>1 DEF Accepted, Rejected, Configuration, ActiveChannels
  <2> QED BY <2>1 DEF Configs
<1>6. stage' = IF n + 1 < Len(configs) THEN "building"
               ELSE IF command.app = "modes" THEN "connected" ELSE "opening"
  BY <1>3 DEF AfterBuilding
<1>7. ConfigsBuilt'
  BY <1>1, <1>5, <1>6, BuildFacts DEF ConfigsBuilt
<1>8. PlannedTuner'
  <2>1. PlannedTuner
    BY BuildFacts
  <2> QED BY <1>1, <2>1 DEF PlannedTuner, MultiTuner, SingleTuner, SingleChannel
<1>9. TunedOnce'
  BY <1>1, <1>6, <1>8, BuildFacts DEF TunedOnce, Early
<1>10. \A c : /\ Accepts(c)' <=> Accepts(c)
              /\ ChannelReceivers(c)' = ChannelReceivers(c)
              /\ SingleReceiver(c)' = SingleReceiver(c)
  BY <1>1 DEF Accepts, Receivable, AllReached, ActiveOutputs, OutputChannel,
              ChannelReceivers, SamplesPerSymbol, SingleReceiver, SingleChannel
<1>11. ASSUME NEW i \in 1 .. n + 1 PROVE Built(i)'
  <2>1. CASE i = n + 1
    BY <1>1, <1>3, <1>4, <1>10, <2>1 DEF Built
  <2>2. CASE i # n + 1
    <3>1. i \in 1 .. n
      BY <2>2
    <3>2. Built(i)
      BY <1>2, <3>1 DEF SetupInv, ReceiversBuilt
    <3>3. receivers'[i] = receivers[i]
      BY <1>3, <3>1
    <3> QED BY <1>1, <1>10, <3>2, <3>3 DEF Built
  <2> QED BY <2>1, <2>2
<1>12. ReceiversBuilt'
  <2>1. \A i \in 1 .. Len(receivers') : Built(i)'
    BY <1>3, <1>11
  <2>2. Complete' <=> n + 1 = Len(configs)
    BY <1>1, <1>3 DEF Complete
  <2> QED
    BY <1>1, <1>3, <1>4, <1>6, <2>1, <2>2 DEF ReceiversBuilt, HandlersInstalled
<1>13. EndsExplained'
  BY <1>1 DEF EndsExplained
<1> QED BY <1>7, <1>9, <1>12, <1>13 DEF SetupInv

LEMMA BuildSingleKeeps ==
  ASSUME SetupInv, status = "none", BuildSingle
  PROVE  SetupInv'
<1>1. /\ stage = "building" /\ command.app = "single"
      /\ UNCHANGED <<command, configs, tuner>>
  BY DEF BuildSingle
<1>2. /\ Len(configs) \in Nat /\ Len(configs) = 1 /\ Len(receivers) = 0
      /\ NextConfig = configs[1] /\ Sound(configs[1])
  <2>1. Len(command.modes) = 1
    BY <1>1, CommandFacts DEF SetupInv, ConfigsBuilt
  <2>2. /\ Len(configs) = 1 /\ Len(receivers) \in Nat /\ Len(receivers) < 1
        /\ NextConfig = configs[Len(receivers) + 1] /\ Sound(NextConfig)
    BY <1>1, <2>1, BuildFacts
  <2>3. Len(receivers) = 0
    BY <2>2
  <2> QED BY <2>2, <2>3
<1>3. tuner = SingleTuner(configs[1])
  BY <1>1, BuildFacts DEF PlannedTuner
<1>4. /\ tuner.rate >= Spacing(NextConfig.plan)
      /\ 2 * RxOffset + Spacing(NextConfig.plan) <= tuner.rate
  BY <1>2, <1>3, SingleFits DEF SingleTuner
<1>5. /\ receivers' = Append(receivers, {SingleReceiver(NextConfig)})
      /\ stage' = AfterBuilding /\ status' = status
  BY <1>4 DEF BuildSingle, SingleReceiver
<1>6. {SingleReceiver(NextConfig)} \in SUBSET Receiver
  <2>1. SingleChannel \in Nat
    BY <1>2 DEF Sound, SingleChannel
  <2>2. tuner.rate \div (Decimation(NextConfig.symbolRate) * NextConfig.symbolRate)
          \in Nat \ {0}
    <3>1. PICK samples : samples = SingleRate \div
                           (Decimation(configs[1].symbolRate) * configs[1].symbolRate)
      OBVIOUS
    <3>2. samples \in Nat /\ samples > 2
      BY <1>2, <3>1, SingleFits
    <3>3. tuner.rate = SingleRate
      BY <1>3 DEF SingleTuner
    <3> QED BY <1>2, <3>1, <3>2, <3>3
  <2> QED BY <2>1, <2>2 DEF SingleReceiver, Receiver
<1> QED BY <1>1, <1>5, <1>6, AppendKeeps

LEMMA BuildMultiKeeps ==
  ASSUME SetupInv, status = "none", BuildMulti
  PROVE  SetupInv'
<1>1. /\ stage = "building" /\ command.app # "single" /\ Receivable(NextConfig)
      /\ UNCHANGED <<command, configs, tuner>>
  BY DEF BuildMulti
<1>2. CASE AllReached(NextConfig)
  <2>1. /\ receivers' = Append(receivers, ChannelReceivers(NextConfig))
        /\ stage' = AfterBuilding /\ status' = status
    BY <1>2 DEF BuildMulti, AllReached
  <2>2. ChannelReceivers(NextConfig) \in SUBSET Receiver
    BY <1>1, <1>2, BuildFacts, ReceiversTyped
  <2> QED BY <1>1, <1>2, <2>1, <2>2, AppendKeeps DEF Accepts
<1>3. CASE ~AllReached(NextConfig)
  <2>1. stage' = "ended" /\ status' = "crashed" /\ receivers' = receivers
    BY <1>3 DEF BuildMulti, AllReached, End
  <2>2. Len(receivers) < Len(configs)
    BY <1>1, BuildFacts
  <2>3. GoesOn
    BY <1>1, <1>3, <2>1, <2>2 DEF GoesOn, Accepts
  <2> QED BY <1>1, <2>1, <2>3, OthersKeepSetup DEF setupVars
<1> QED BY <1>2, <1>3

LEMMA SetupKeeps ==
  ASSUME SetupInv, IInv, Setup
  PROVE  SetupInv'
<1>1. status = "none"
  BY SetupAdvances DEF IInv, EndedOnce
<1>2. CASE RejectMode \/ DescribeOfdm
  <2>1. /\ stage = "configuring" /\ stage' = "ended" /\ status' \in {"rejected", "crashed"}
        /\ UNCHANGED <<command, setupVars>>
    BY <1>2 DEF RejectMode, DescribeOfdm, End
  <2>2. NotTuned
    BY <2>1 DEF SetupInv, TunedOnce, Early
  <2>3. command.app = "single" => configs = <<>>
    <3>1. /\ Len(configs) < Len(command.modes) /\ configs \in Seq(Configs)
          /\ command.app = "single" => Len(command.modes) = 1
      BY <2>1, CommandFacts DEF SetupInv, ConfigsBuilt
    <3>2. Len(configs) \in Nat
      BY <3>1
    <3>3. ASSUME command.app = "single" PROVE Len(configs) = 0
      <4>1. Len(configs) < 1
        BY <3>1, <3>3
      <4> QED BY <3>2, <4>1
    <3> QED BY <3>1, <3>3, EmptySeq
  <2> QED BY <2>1, <2>2, <2>3, OthersKeepSetup DEF GoesOn
<1>3. CASE ConfigureMode
  BY <1>1, <1>3, ConfigureKeeps
<1>4. CASE TuneSingle \/ TuneMulti \/ TuneModes
  BY <1>1, <1>4, TuneKeeps
<1>5. CASE BuildSingle
  BY <1>1, <1>5, BuildSingleKeeps
<1>6. CASE BuildMulti
  BY <1>1, <1>6, BuildMultiKeeps
<1>7. CASE FailAssertion
  <2>1. /\ stage = "building" /\ stage' = "ended" /\ status' = "crashed"
        /\ command.app # "single" /\ ~Receivable(NextConfig)
        /\ UNCHANGED <<command, setupVars>>
    BY <1>7 DEF FailAssertion, End
  <2>2. Len(receivers) < Len(configs)
    BY <2>1, BuildFacts
  <2> QED BY <2>1, <2>2, OthersKeepSetup DEF GoesOn, Accepts
<1> QED BY <1>2, <1>3, <1>4, <1>5, <1>6, <1>7 DEF Setup

LEMMA SetupStep == SetupInv /\ IInv /\ [Next]_vars => SetupInv'
<1> SUFFICES ASSUME SetupInv, IInv, [Next]_vars PROVE SetupInv'
  OBVIOUS
<1>1. CASE Setup
  BY <1>1, SetupKeeps
<1>2. CASE UNCHANGED vars
  BY <1>2, OthersKeepSetup DEF vars, GoesOn
<1>3. CASE CheckPath
  <2>1. stage = "checking" => configs = <<>>
    BY DEF SetupInv, ConfigsBuilt
  <2> QED BY <1>3, <2>1, OthersKeepSetup DEF CheckPath, End, GoesOn, IInv, ProcessTypes
<1>4. CASE MakeFifo
  BY <1>4, OthersKeepSetup DEF MakeFifo, End, GoesOn
<1>5. CASE InstallHandlers \/ Start \/ StopGraph \/ OpenOutput \/ Answer
  <2>1. UNCHANGED <<command, setupVars>>
    BY <1>5 DEF InstallHandlers, Start, StopGraph, OpenOutput, Answer
  <2>2. GoesOn
    BY <1>5 DEF InstallHandlers, Start, StopGraph, OpenOutput, Answer, Goto, GoesOn
  <2> QED BY <2>1, <2>2, OthersKeepSetup
<1>6. CASE AfterStart
  <2>1. stage = "started" /\ UNCHANGED <<command, setupVars>>
    BY <1>6 DEF AfterStart
  <2>2. Complete
    BY <2>1 DEF SetupInv, ReceiversBuilt, HandlersInstalled
  <2>3. command.app = "single" => ~command.dump
    BY CommandFacts DEF SetupInv, ConfigsBuilt
  <2> QED BY <1>6, <2>1, <2>2, <2>3, OthersKeepSetup DEF AfterStart, End, GoesOn
<1>7. CASE WaitForGraph \/ HandlerWait \/ Signal
  <2>1. UNCHANGED <<command, setupVars>>
    BY <1>7 DEF WaitForGraph, HandlerWait, Signal
  <2>2. GoesOn
    BY <1>7 DEF WaitForGraph, HandlerWait, Signal, End, GoesOn
  <2> QED BY <2>1, <2>2, OthersKeepSetup
<1>8. CASE HandlerStop \/ OtherMakesFifo
  BY <1>8, OthersKeepSetup DEF HandlerStop, OtherMakesFifo, GoesOn
<1>9. CASE Write \/ FileSink \/ Drain
  <2>1. UNCHANGED <<command, stage, status, setupVars>>
    BY <1>9 DEF Write, FileSink, Written, Fill, Drain, Turn
  <2> QED BY <2>1, OthersKeepSetup DEF GoesOn
<1> QED
  BY <1>1, <1>2, <1>3, <1>4, <1>5, <1>6, <1>7, <1>8, <1>9 DEF Next, Program, Main

LEMMA SetupInvariant == Spec => [](SetupInv /\ IInv)
  BY SetupInit, SetupStep, InvariantInit, InvariantStep, PTL DEF Spec

-----------------------------------------------------------------------------
(* What the setup promises.                                                 *)

LEMMA WhenBuilt ==
  ASSUME SetupInv, NEW i \in JustBuilt
  PROVE  /\ i \in 1 .. Len(receivers) /\ Built(i) /\ Sound(configs[i])
         /\ Len(configs) = Len(command.modes) /\ PlannedTuner /\ TunerTypes
<1>1. /\ i = Len(receivers) /\ receivers # <<>>
      /\ stage \in {"building", "opening", "connected"}
  BY DEF JustBuilt
<1>2. i \in 1 .. Len(receivers) /\ Built(i) /\ Len(receivers) <= Len(configs)
  <2>1. receivers \in Seq(SUBSET Receiver)
    BY DEF SetupInv, ReceiversBuilt
  <2>2. Len(receivers) \in Nat \ {0}
    <3> HIDE DEF Receiver
    <3> QED BY <1>1, <2>1, EmptySeq
  <2> QED BY <1>1, <2>2 DEF SetupInv, ReceiversBuilt
<1>3. i \in 1 .. Len(configs)
  <2>1. Len(configs) \in Nat
    BY DEF SetupInv, ConfigsBuilt
  <2> QED BY <1>1, <1>2, <2>1
<1>4. Sound(configs[i])
  BY <1>3, ConfigsSound DEF SetupInv
<1>5. Len(configs) = Len(command.modes) /\ PlannedTuner
  BY <1>1 DEF SetupInv, TunedOnce, Early
<1> QED BY <1>2, <1>4, <1>5, PlannedTypes DEF SetupInv

\* For every command line and all tables: a multi-channel receiver that is built
\* has for every active channel exactly one channel receiver that hears it, under
\* the channel's number, and no others (multi_channel_receiver.py:106-149).
THEOREM EveryChannelReceived == Spec => []ChannelsReceived
<1>1. SetupInv => ChannelsReceived
  <2> SUFFICES ASSUME SetupInv, command.app # "single", NEW i \in JustBuilt
               PROVE  LET c == configs[i]
                          spacing == Spacing(c.plan)
                          mask == Parameters(command.domain, c.plan).mask
                      IN  /\ \A ch \in c.channels :
                               LET hearing == Hearing(receivers[i],
                                                ChannelFrequency(c.plan, ch), spacing)
                               IN  /\ Cardinality(hearing) = 1
                                   /\ \A r \in hearing :
                                        /\ r.number = ch
                                        /\ r.outside <=> ~InMask(ch, mask)
                                        /\ command.maskOnly => ~r.outside
                          /\ Cardinality(receivers[i]) = Cardinality(c.channels)
    BY DEF ChannelsReceived
  <2>1. PICK c : c = configs[i]
    OBVIOUS
  <2>2. /\ Sound(c) /\ TunerTypes /\ receivers[i] = ChannelReceivers(c)
        /\ Receivable(c) /\ AllReached(c)
    BY <2>1, WhenBuilt DEF Built, Accepts
  <2>3. Cardinality(receivers[i]) = Cardinality(c.channels)
    BY <2>2, AsManyReceivers
  <2>4. ASSUME NEW ch \in c.channels
        PROVE  LET hearing == Hearing(receivers[i], ChannelFrequency(c.plan, ch),
                                      Spacing(c.plan))
               IN  /\ Cardinality(hearing) = 1
                   /\ \A r \in hearing :
                        /\ r.number = ch
                        /\ r.outside <=> ~InMask(ch, Parameters(command.domain, c.plan).mask)
                        /\ command.maskOnly => ~r.outside
    <3>1. PICK r : /\ Hearing(receivers[i], ChannelFrequency(c.plan, ch), Spacing(c.plan)) = {r}
                   /\ r.number = ch /\ r.outside = (ch \in c.outside)
      BY <2>2, HeardByOne
    <3>2. Cardinality({r}) = 1
      BY FS_Singleton
    <3>3. ch \in c.outside <=> ~InMask(ch, Parameters(command.domain, c.plan).mask)
      BY <2>2 DEF Sound
    <3>4. command.maskOnly => ch \notin c.outside
      BY <2>2 DEF Sound
    <3> QED BY <3>1, <3>2, <3>3, <3>4
  <2> QED BY <2>1, <2>3, <2>4
<1> QED BY SetupInvariant, <1>1, PTL

\* For every command line: the band the multi-channel sniffer plans holds every
\* channel asked for, so that symbol rate and oversampling are all that is left to
\* fail (multi_channel_sniffer.py:56-67).
THEOREM PlanNeverFails == Spec => []PlanHolds
<1>1. SetupInv => PlanHolds
  <2> SUFFICES ASSUME SetupInv, command.app = "multi", tuner.rate > 0, status = "crashed"
               PROVE  LET c == configs[1]
                      IN  \/ Spacing(c.plan) % c.symbolRate # 0
                          \/ /\ command.oversampling > 2
                             /\ (tuner.rate \div Spacing(c.plan)) % command.oversampling # 0
    BY DEF PlanHolds
  <2>1. Len(configs) = Len(command.modes) /\ PlannedTuner /\ ConfigsBuilt
    BY DEF SetupInv, TunedOnce, NotTuned
  <2>2. Len(command.modes) = 1 /\ ~command.dump
    BY <2>1, CommandFacts DEF ConfigsBuilt
  <2>3. Len(receivers) < Len(configs) /\ ~Accepts(NextConfig)
    BY <2>2 DEF SetupInv, EndsExplained
  <2>4. Len(receivers) \in Nat
    BY DEF SetupInv, ReceiversBuilt
  <2>5. Len(receivers) = 0
    BY <2>1, <2>2, <2>3, <2>4
  <2>6. PICK c : c = configs[1] /\ Sound(c) /\ ~Accepts(c) /\ tuner = MultiTuner(c)
    BY <2>1, <2>2, <2>3, <2>5, ConfigsSound DEF NextConfig, PlannedTuner
  <2>7. TunerTypes
    BY <2>1, PlannedTypes
  <2>8. PICK n \in Nat \ {0}, middle \in Int :
          /\ Band(c, n, middle) /\ n % 2 = 0
          /\ \A channel \in c.channels : InSampledBand(c, channel)
    BY <2>6, PlanIsBand
  <2>9. ~Covers(c)
    BY <2>6, <2>7, CoversIffReceived DEF Accepts
  <2>10. /\ tuner.rate % Spacing(c.plan) = 0
         /\ (tuner.center - Channel0(c.plan)) % Spacing(c.plan) = 0
    BY <2>6, <2>8, BandMultiples
  <2>11. tuner.rate \div Spacing(c.plan) = n
    BY <2>8 DEF Band
  <2>12. Spacing(c.plan) % c.symbolRate # 0 \/ n % command.oversampling # 0
    BY <2>8, <2>9, <2>10, <2>11 DEF Covers, InSampledBand
  <2>13. n % command.oversampling # 0 => command.oversampling > 2
    <3>1. command.oversampling \in Nat \ {0}
      BY <2>7 DEF TunerTypes
    <3>2. CASE command.oversampling = 1
      BY <3>2
    <3>3. CASE command.oversampling = 2
      BY <2>8, <3>3
    <3>4. CASE command.oversampling > 2
      BY <3>4
    <3> QED BY <3>1, <3>2, <3>3, <3>4
  <2> QED BY <2>6, <2>11, <2>12, <2>13
<1> QED BY SetupInvariant, <1>1, PTL

\* For every sample rate, center frequency and list of modes: the receivers of a mode
\* are built exactly if the sampled band covers it (README.md:282-288).
THEOREM ModesFollowConditions == Spec => []ModesNeedConditions
<1>1. SetupInv => ModesNeedConditions
  <2> SUFFICES ASSUME SetupInv, command.app = "modes", tuner.rate > 0
               PROVE  /\ \A i \in JustBuilt : Covers(configs[i])
                      /\ status = "crashed" /\ Len(receivers) < Len(configs)
                           => ~Covers(NextConfig)
    BY DEF ModesNeedConditions
  <2>1. ASSUME NEW i \in JustBuilt PROVE Covers(configs[i])
    <3>1. Sound(configs[i]) /\ TunerTypes /\ Accepts(configs[i])
      BY WhenBuilt DEF Built
    <3> QED BY <3>1, CoversIffReceived DEF Accepts
  <2>2. ASSUME status = "crashed", Len(receivers) < Len(configs) PROVE ~Covers(NextConfig)
    <3>1. Len(configs) = Len(command.modes) /\ PlannedTuner /\ ConfigsBuilt
      BY DEF SetupInv, TunedOnce, NotTuned
    <3>2. TunerTypes
      BY <3>1, PlannedTypes
    <3>3. Len(receivers) \in Nat /\ Len(configs) \in Nat
      BY <3>1 DEF SetupInv, ReceiversBuilt, ConfigsBuilt
    <3>4. Len(receivers) + 1 \in 1 .. Len(configs)
      BY <2>2, <3>3
    <3>5. Sound(NextConfig)
      BY <3>1, <3>4, ConfigsSound DEF NextConfig
    <3>6. ~Accepts(NextConfig)
      BY <2>2, <3>3 DEF SetupInv, EndsExplained, Complete
    <3> QED BY <3>2, <3>5, <3>6, CoversIffReceived DEF Accepts
  <2> QED BY <2>1, <2>2
<1> QED BY SetupInvariant, <1>1, PTL

\* For every FSK mode of every domain: the fixed sample rate of the single-channel
\* sniffer fits (gr-wisun-single-channel-sniffer:44-55).
THEOREM SingleChannelFits == Spec => []SingleAlwaysFits
<1>1. SetupInv => SingleAlwaysFits
  <2> SUFFICES ASSUME SetupInv, command.app = "single", configs # <<>>
               PROVE  /\ status \notin {"rejected", "crashed"}
                      /\ \A i \in DOMAIN receivers :
                           LET c == configs[i]
                               rate == tuner.rate \div Decimation(c.symbolRate)
                           IN  \A r \in receivers[i] :
                                 /\ r.samples * c.symbolRate = rate
                                 /\ r.samples > 2
                                 /\ rate >= Spacing(c.plan)
    BY DEF SingleAlwaysFits
  <2>1. status \notin {"rejected", "crashed"}
    BY DEF SetupInv, EndsExplained
  <2>2. ASSUME NEW i \in DOMAIN receivers, NEW r \in receivers[i]
        PROVE  LET c == configs[i]
                   rate == tuner.rate \div Decimation(c.symbolRate)
               IN  /\ r.samples * c.symbolRate = rate
                   /\ r.samples > 2
                   /\ rate >= Spacing(c.plan)
    <3>1. /\ receivers \in Seq(SUBSET Receiver) /\ Len(receivers) <= Len(configs)
          /\ ConfigsBuilt
      BY DEF SetupInv, ReceiversBuilt
    <3>2. i \in 1 .. Len(receivers)
      BY <3>1
    <3>3. /\ Len(receivers) \in Nat /\ Len(configs) \in Nat /\ Len(command.modes) = 1
          /\ Len(configs) <= Len(command.modes)
      BY <3>1, CommandFacts DEF ConfigsBuilt
    <3>4. i = 1 /\ Len(configs) = 1
      <4>1. PICK built \in Nat, made \in Nat : built = Len(receivers) /\ made = Len(configs)
        BY <3>3
      <4>2. i \in 1 .. built /\ built <= made /\ made <= 1
        BY <3>1, <3>2, <3>3, <4>1
      <4> QED BY <4>1, <4>2
    <3>5. PlannedTuner
      <4>1. receivers # <<>>
        BY <3>2, EmptySeq
      <4> QED BY <4>1 DEF SetupInv, TunedOnce, NotTuned
    <3>6. tuner.rate = SingleRate
      BY <3>5 DEF PlannedTuner, SingleTuner
    <3>7. PICK c : c = configs[1] /\ Sound(c)
      BY <3>1, <3>4, ConfigsSound
    <3>8. r = SingleReceiver(c)
      BY <3>2, <3>4, <3>7 DEF SetupInv, ReceiversBuilt, Built
    <3>9. r.samples = SingleRate \div (Decimation(c.symbolRate) * c.symbolRate)
      BY <3>6, <3>8 DEF SingleReceiver
    <3> QED BY <3>4, <3>6, <3>7, <3>9, SingleFits
  <2> QED BY <2>1, <2>2
<1> QED BY SetupInvariant, <1>1, PTL

\* Types and ranges of all variables of the application: what has been set up has
\* channels, at most one label, and whole samples per symbol.
THEOREM ApplicationTypes == Spec => []TypeOK
<1>1. SetupInv => SetupTypeOK
  <2> SUFFICES ASSUME SetupInv PROVE SetupTypeOK
    OBVIOUS
  <2>1. Len(configs) <= Len(command.modes) /\ Len(receivers) <= Len(configs)
    BY DEF SetupInv, ConfigsBuilt, ReceiversBuilt
  <2>2. DOMAIN configs = 1 .. Len(configs)
    BY DEF SetupInv, ConfigsBuilt
  <2>3. \A i \in DOMAIN configs :
          configs[i].channels # {} /\ Cardinality(configs[i].label) <= 1
    BY <2>2, ConfigsSound DEF SetupInv, Sound
  <2>4. tuner \in [rate : Nat, center : Nat]
    <3>1. CASE NotTuned
      BY <3>1 DEF NotTuned
    <3>2. CASE ~NotTuned
      BY <3>2, PlannedTypes DEF SetupInv, TunedOnce
    <3> QED BY <3>1, <3>2
  <2>5. \A i \in DOMAIN receivers : receivers[i] \subseteq Receiver
    <3>1. receivers \in Seq(SUBSET Receiver)
      BY DEF SetupInv, ReceiversBuilt
    <3> HIDE DEF Receiver
    <3> QED BY <3>1
  <2> QED BY <2>1, <2>3, <2>4, <2>5 DEF SetupTypeOK
<1> DEFINE SignalTypes == signals \in 0 .. MaxSignals /\ quit \in BOOLEAN
<1>2. Init => SignalTypes
  <2> SUFFICES ASSUME Init PROVE SignalTypes
    OBVIOUS
  <2>1. signals = 0 /\ quit = FALSE
    BY DEF Init
  <2>2. 0 \in 0 .. MaxSignals
    BY SignalBound
  <2> QED BY <2>1, <2>2
<1>3. SignalTypes /\ [Next]_vars => SignalTypes'
  <2> SUFFICES ASSUME SignalTypes, [Next]_vars PROVE SignalTypes'
    OBVIOUS
  <2>1. CASE Signal
    BY <2>1, SignalBound DEF Signal
  <2>2. CASE Answer
    BY <2>2 DEF Answer
  <2>3. CASE ~Signal /\ ~Answer
    <3>1. signals' = signals /\ quit' = quit
      BY <2>3 DEF Next, Program, Main, vars, processVars, CheckPath, MakeFifo, InstallHandlers,
                  Start, AfterStart, StopGraph, WaitForGraph, HandlerStop, HandlerWait,
                  OpenOutput, OtherMakesFifo, Write, FileSink, Written, Fill, Drain, Turn
    <3> QED BY <3>1
  <2> QED BY <2>1, <2>2, <2>3
<1>4. SetupInv /\ IInv /\ SignalTypes => TypeOK
  BY <1>1 DEF TypeOK, IInv, ProcessTypes, Stages
<1> QED
  <2> HIDE DEF SignalTypes
  <2> QED BY SetupInvariant, <1>2, <1>3, <1>4, PTL DEF Spec
=============================================================================
