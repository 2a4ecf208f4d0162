---------------------------- MODULE DcCorrection ----------------------------
(***************************************************************************)
(* The block tag_based_dc_correction_ff: the average of the first items of *)
(* a burst is subtracted from the rest of it.  Start and end of a burst    *)
(* are tags the squelch has put on the items.  It is a sync block.         *)
(*                                                                         *)
(* The output has for every item the set of offsets whose average was      *)
(* subtracted: none if the item was copied, and Stale if it was not        *)
(* written, so that the buffer keeps what it held there.                   *)
(*                                                                         *)
(* The tag dc_correction_correction_start, which nothing reads, is left    *)
(* out.                                                                    *)
(*                                                                         *)
(* Definitions named Op_fault are seeded faults of Op, used by no action.  *)
(***************************************************************************)
EXTENDS Integers, FiniteSetsExt

CONSTANT
  EstimationLength   \* d_estimation_length

Copied == {}
Stale == {-1}

VARIABLES
  written,    \* items the squelch has written
  tags,       \* the tags on them
  corrected,  \* output offset -> what was subtracted
  dc          \* [state, estimate, start]: d_state, the offsets summed up in
              \* d_offset, d_signal_start_offset

\* nitems_read(0) = nitems_written(0)
done == Cardinality(DOMAIN corrected)

InitCorrection ==
  /\ corrected = [k \in {} |-> Copied]
  /\ dc = [state |-> "no_signal", estimate |-> {}, start |-> 0]

StartEstimation_keepSum(first) == [dc EXCEPT !.state = "estimating", !.start = first]
StartEstimation(first) == [state |-> "estimating", estimate |-> {}, start |-> first]

\* Of the next n items, those with the tag.
Offsets(key, n) ==
  {t.off : t \in {u \in tags : u.key = key /\ u.off \in done .. done + n - 1}}

\* n items are produced with the given subtraction, and as many consumed.
Produce(n, subtracted, next) ==
  /\ corrected' = [k \in 0 .. done + n - 1 |->
                     IF k < done THEN corrected[k] ELSE subtracted]
  /\ dc' = next

\* Outside a burst: copy up to the first start.
SeekSignal(n) ==
  LET starts == Offsets("squelch_sob", n)
  IN  /\ dc.state = "no_signal"
      /\ IF starts = {}
         THEN Produce(n, Copied, dc)
         ELSE Produce(Min(starts) - done, Copied, StartEstimation(Min(starts)))

\* The burst ended with the call before: one item is consumed.
LostAtStart(n) ==
  /\ dc.state # "no_signal"
  /\ done \in Offsets("squelch_eob", n)
  /\ Produce(1, Stale, [dc EXCEPT !.state = "no_signal"])

\* How many of n items are used, whether the burst ends behind them, and the
\* state, renewed if another start is on the first item.  The squelch puts an
\* end between two starts, so behind it there is no restart.
Usable(n) ==
  LET ends == Offsets("squelch_eob", n)
      usable == IF ends = {} THEN n ELSE Min(ends) - done
      restarts == {k \in Offsets("squelch_sob", usable) : k > dc.start}
  IN  IF restarts = {}
      THEN [n |-> usable, lost |-> ends # {}, dc |-> dc]
      ELSE IF Min(restarts) = done
      THEN [n |-> usable, lost |-> ends # {}, dc |-> StartEstimation(done)]
      ELSE [n |-> Min(restarts) - done, lost |-> FALSE, dc |-> dc]

InBurst(n) == dc.state # "no_signal" /\ done \notin Offsets("squelch_eob", n)

\* Copy while estimating, up to the item that completes the estimate.
Estimate(n) ==
  LET u == Usable(n)
      missing == EstimationLength - Cardinality(u.dc.estimate)
      used == Min({u.n, missing})
      summed == u.dc.estimate \cup (done .. done + used - 1)
  IN  /\ InBurst(n)
      /\ u.dc.state = "estimating"
      /\ IF u.lost /\ u.n <= missing
         THEN Produce(u.n, Copied, [u.dc EXCEPT !.state = "no_signal"])
         ELSE Produce(used, Copied, [u.dc EXCEPT
                !.estimate = summed,
                !.state = IF used = missing THEN "correcting" ELSE "estimating"])

Correct(n) ==
  LET u == Usable(n)
  IN  /\ InBurst(n)
      /\ u.dc.state = "correcting"
      /\ Produce(u.n, dc.estimate,
                 IF u.lost THEN [dc EXCEPT !.state = "no_signal"] ELSE dc)

\* work, called with any number of the items there are.
CorrectDc ==
  \E n \in 1 .. written - done :
    SeekSignal(n) \/ LostAtStart(n) \/ Estimate(n) \/ Correct(n)

DcTypeOK ==
  /\ DOMAIN corrected = 0 .. done - 1 /\ done <= written
  /\ \A k \in DOMAIN corrected :
       corrected[k] = Stale \/ corrected[k] \subseteq 0 .. k - 1
  /\ dc.state \in {"no_signal", "estimating", "correcting"}
  /\ dc.estimate \subseteq 0 .. done - 1
  /\ Cardinality(dc.estimate) <= EstimationLength
  /\ dc.start \in 0 .. written
=============================================================================
