------------------------- MODULE NoiseFloorTracker -------------------------
(***************************************************************************)
(* The class noise_floor_tracker: smoothed power, the noise floor as the   *)
(* minimum of it over a sliding window, and a threshold relative to that   *)
(* floor.  A tracker is a record, an update a function of it; the squelch  *)
(* that owns it decides when to update.                                    *)
(*                                                                         *)
(* The smoothing filter is not modelled: the power given to Update is its  *)
(* output, and may be any member of Powers.                                *)
(*                                                                         *)
(* Definitions named Op_fault are seeded faults of Op, used by no action.  *)
(***************************************************************************)
EXTENDS Integers, FiniteSetsExt

CONSTANTS
  Powers,        \* values of the smoothed power
  FullScale,     \* the noise floor assumed before anything is known: 1 in the code
  Relative,      \* d_relative_threshold, as a factor
  HalfWindow,    \* d_half_window_samples
  Settling       \* samples until the smoothed power counts

ASSUME TrackerConstants ==
  /\ Powers \subseteq Nat /\ IsFiniteSet(Powers)
  /\ Relative \in Nat \ {0, 1}
  \* nothing stands out against the floor assumed at the start
  /\ FullScale \in Nat /\ \A p \in Powers : p < FullScale * Relative
  /\ HalfWindow \in Nat \ {0}
  /\ Settling \in Nat

\* Above every power: the minimum of a half window without samples.
Infinity == Max(Powers \cup {FullScale}) + 1

NewTracker ==
  [pwr |-> FullScale, floor |-> FullScale,
   current |-> Infinity, previous |-> Infinity,
   left |-> HalfWindow, settling |-> Settling]

AboveThreshold(t) == t.pwr >= t.floor * Relative

\* The newest power in the half window, which is retired when it runs out.
Recorded_keepMinimum(t) ==
  LET lowest == Min({t.pwr, t.current})
  IN  IF t.left = 1
      THEN [t EXCEPT !.previous = lowest, !.left = HalfWindow]
      ELSE [t EXCEPT !.current = lowest, !.left = @ - 1]
Recorded(t) ==
  LET lowest == Min({t.pwr, t.current})
  IN  IF t.left = 1
      THEN [t EXCEPT !.previous = lowest, !.current = Infinity, !.left = HalfWindow]
      ELSE [t EXCEPT !.current = lowest, !.left = @ - 1]

\* update and update_noise_floor
Update(tracker, power) ==
  LET t == [tracker EXCEPT !.pwr = power]
      r == Recorded(t)
  IN  IF t.settling > 0
      THEN [t EXCEPT !.settling = @ - 1]
      ELSE [r EXCEPT !.floor = Min({r.current, r.previous})]

Trackers ==
  LET Minima == Powers \cup {FullScale, Infinity}
  IN  [pwr : Minima, floor : Minima, current : Minima, previous : Minima,
       left : 1 .. HalfWindow, settling : 0 .. Settling]
=============================================================================
