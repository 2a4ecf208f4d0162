---------------------------- MODULE GatedSquelch ----------------------------
(***************************************************************************)
(* The squelch, first block of a channel receiver.  There are two:         *)
(* gated_power_squelch_relative_cc passes the samples of a burst, marks    *)
(* where a burst begins and ends, puts zeros behind a burst and outputs    *)
(* nothing otherwise; power_squelch_relative_cc, of the single-channel     *)
(* sniffer, outputs an item for every sample, and notices the begin and    *)
(* the end of a burst one item later.                                      *)
(*                                                                         *)
(* A sample is its index, and air gives its smoothed power.  The output is *)
(* a sequence of sample indices and zeros; offsets of items start at 0, as *)
(* in the code.                                                            *)
(***************************************************************************)
EXTENDS NoiseFloorTracker, Sequences

CONSTANTS
  TrailingSamples,  \* d_trailing_samples
  SquelchInput,     \* samples the input buffer holds
  SquelchBuffer,    \* items the output buffer holds
  AirHorizon        \* bound: number of samples received

\* Without a trailing zero the end of a burst would be marked on the item that
\* the next one starts with; the receiver uses 1000.
ASSUME SquelchConstants ==
  /\ TrailingSamples \in Nat \ {0}
  /\ SquelchInput \in Nat \ {0}
  /\ SquelchBuffer \in Nat \ {0}
  /\ AirHorizon \in Nat

Zero == -1

VARIABLES
  air,        \* smoothed power of the samples received so far
  squelch,    \* [gated]: which block; [tracker, active, trailing]: the members
              \* d_tracker, d_output_active and d_trailing_samples_left;
              \* [read, items, tags]: samples consumed, items produced, their tags
  drained     \* items the next block has consumed

squelchVars == <<air, squelch, drained>>

arrived == Len(air)
PowerOf(i) == air[i + 1]

InitSquelch ==
  /\ air = <<>>
  /\ \E gated \in BOOLEAN :
       squelch = [gated |-> gated, tracker |-> NewTracker, active |-> FALSE,
                  trailing |-> 0, read |-> 0, items |-> <<>>, tags |-> {}]
  /\ drained = 0

Arrive ==
  /\ arrived < AirHorizon
  /\ arrived - squelch.read < SquelchInput
  /\ \E p \in Powers : air' = Append(air, p)
  /\ UNCHANGED <<squelch, drained>>

\* Tags an item may get when the squelch goes from one state to the other.
Marks_before(s, open) ==
  LET at == Len(s.items)
  IN  IF s.active /\ ~open THEN {[off |-> at - 1, key |-> "squelch_eob"]}
      ELSE IF ~s.active /\ open THEN {[off |-> at, key |-> "squelch_sob"]}
      ELSE {}
Marks(s, open) ==
  LET at == Len(s.items)
  IN  IF s.active /\ ~open THEN {[off |-> at, key |-> "squelch_eob"]}
      ELSE IF ~s.active /\ open THEN {[off |-> at, key |-> "squelch_sob"]}
      ELSE {}

\* One pass of the loop of general_work.
Sample(s) ==
  LET tracker == Update(s.tracker, PowerOf(s.read))
      open == AboveThreshold(tracker)
      zeros == IF s.active /\ ~open THEN TrailingSamples ELSE s.trailing
  IN  [gated |-> TRUE,
       tracker |-> tracker,
       active |-> open,
       trailing |-> IF open \/ zeros = 0 THEN zeros ELSE zeros - 1,
       read |-> s.read + 1,
       items |-> IF open THEN Append(s.items, s.read)
                 ELSE IF zeros > 0 THEN Append(s.items, Zero)
                 ELSE s.items,
       tags |-> s.tags \cup Marks(s, open)]

\* The loop: all samples there are, until the items allowed are produced.  A
\* sample whose item might not fit is not touched.  The set holds the one state
\* the squelch is in when the loop ends.
Processed_unlimited(space) ==
  LET after[n \in 0 .. arrived - squelch.read] ==
        IF n = 0 THEN {squelch} ELSE {Sample(s) : s \in after[n - 1]}
  IN  after[arrived - squelch.read]
Processed(space) ==
  LET full(s) == Len(s.items) = Len(squelch.items) + space
      after[n \in 0 .. arrived - squelch.read] ==
        IF n = 0 THEN {squelch}
        ELSE {IF full(s) THEN s ELSE Sample(s) : s \in after[n - 1]}
  IN  after[arrived - squelch.read]

\* forecast: samples that must be there for the block to be asked for n items.
Forecast_double(n) == 2 * n
Forecast(n) == n

\* The scheduler asks for as many items as it likes and as fit the buffer.
Squelch ==
  /\ squelch.gated
  /\ \E space \in 1 .. SquelchBuffer - (Len(squelch.items) - drained) :
       /\ Forecast(space) <= arrived - squelch.read
       /\ squelch' \in Processed(space)
  /\ UNCHANGED <<air, drained>>

\* One pass of the loop of the ungated block: it outputs as it did before the
\* sample, so the start of a burst is marked on the item to come and its end on
\* the last item that is passed.
LateMarks_sameItem(s, open) ==
  IF s.active /\ ~open THEN {[off |-> s.read, key |-> "squelch_eob"]}
  ELSE IF ~s.active /\ open THEN {[off |-> s.read, key |-> "squelch_sob"]}
  ELSE {}
LateMarks(s, open) ==
  IF s.active /\ ~open THEN {[off |-> s.read, key |-> "squelch_eob"]}
  ELSE IF ~s.active /\ open THEN {[off |-> s.read + 1, key |-> "squelch_sob"]}
  ELSE {}
PassOrMute(s) ==
  LET tracker == Update(s.tracker, PowerOf(s.read))
      open == AboveThreshold(tracker)
  IN  [s EXCEPT !.tracker = tracker,
                !.active = open,
                !.read = @ + 1,
                !.items = Append(@, IF s.active THEN s.read ELSE Zero),
                !.tags = @ \cup LateMarks(s, open)]

\* work, called with any number of samples.
Mute ==
  /\ ~squelch.gated
  /\ \E n \in 1 .. Min({arrived - squelch.read, SquelchBuffer - (Len(squelch.items) - drained)}) :
       LET after[m \in 0 .. n] ==
             IF m = 0 THEN {squelch} ELSE {PassOrMute(s) : s \in after[m - 1]}
       IN  squelch' \in after[n]
  /\ UNCHANGED <<air, drained>>

SquelchTypeOK ==
  /\ air \in Seq(Powers) /\ arrived <= AirHorizon
  /\ squelch.read \in 0 .. arrived
  /\ arrived - squelch.read <= SquelchInput
  /\ squelch.tracker \in Trackers
  /\ squelch.trailing \in 0 .. TrailingSamples
  /\ drained \in 0 .. Len(squelch.items)
  /\ Len(squelch.items) - drained <= SquelchBuffer
  /\ ~squelch.gated => Len(squelch.items) = squelch.read
  /\ \A t \in squelch.tags :
       t.off \in 0 .. Len(squelch.items) - (IF squelch.gated THEN 1 ELSE 0)

-----------------------------------------------------------------------------
\* The noise floor is the lowest power of the last samples: of at least one
\* half window and less than two, settling not counted.  So a low reading is
\* forgotten, and a burst shorter than that does not raise the floor
\* (noise_floor_tracker.h:82-84).
FloorIsRecentMinimum ==
  LET settled == squelch.read - Settling
      lowest(n) == Min({PowerOf(i) : i \in squelch.read - n .. squelch.read - 1})
  IN  IF settled <= 0 THEN squelch.tracker.floor = FullScale
      ELSE \E n \in HalfWindow .. 2 * HalfWindow - 1 :
             squelch.tracker.floor = lowest(Min({n, settled}))

\* When the squelch should be open, from the powers alone: sample i stands out
\* against the half window it is in and the one before.
WindowStart(i) ==
  LET settled == i - Settling + 1
      halves == settled \div HalfWindow
  IN  IF settled % HalfWindow = 0
      THEN i - HalfWindow + 1
      ELSE Settling + HalfWindow * Max({halves - 1, 0})
Open(i) ==
  /\ i >= Settling
  /\ PowerOf(i) >= Relative * Min({PowerOf(j) : j \in WindowStart(i) .. i})
Follows(i) == i > 0 /\ Open(i - 1)
\* Sample i is put out; if it is not, its item is a zero or, gated, missing.
Passes(i) == IF squelch.gated THEN Open(i) ELSE Follows(i)
Emits(i) == squelch.gated => \E j \in Max({0, i - TrailingSamples}) .. i : Open(j)
Position(i) == Cardinality({j \in 0 .. i - 1 : Emits(j)})

\* The output holds the samples of the bursts and nothing else, the zeros behind
\* each burst, and the marks, however the calls cut the input: gated, on the first
\* sample of a burst and on the item behind its last; ungated, on the sample
\* behind the first and on the one behind the last, which is still passed
\* (gated_power_squelch_relative_cc_impl.cc:74-129,
\* power_squelch_relative_cc_impl.cc:52-78).
BurstsMarked ==
  LET seen == 0 .. squelch.read - 1
      late == IF squelch.gated THEN 0 ELSE 1
  IN  /\ Len(squelch.items) = Position(squelch.read)
      /\ \A i \in seen : Emits(i) =>
           squelch.items[Position(i) + 1] = IF Passes(i) THEN i ELSE Zero
      /\ squelch.tags =
           {[off |-> Position(i) + late, key |-> "squelch_sob"] :
              i \in {j \in seen : Open(j) /\ ~Follows(j)}}
           \cup {[off |-> Position(i), key |-> "squelch_eob"] :
              i \in {j \in seen : ~Open(j) /\ Follows(j)}}
=============================================================================
