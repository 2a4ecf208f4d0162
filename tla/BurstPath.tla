----------------------------- MODULE BurstPath -----------------------------
(***************************************************************************)
(* The front of a channel receiver, as connected by                        *)
(* baseband_channel_receiver.py: the squelch and the DC correction, which  *)
(* learns from the squelch's tags where a burst is.  The blocks between    *)
(* them (rssi_tag_cc, quadrature_demod_cf) output an item for an item and  *)
(* leave tags where they are, so the correction reads the squelch's items. *)
(***************************************************************************)
EXTENDS GatedSquelch

CONSTANT
  EstimationLength   \* d_estimation_length: samples the offset is estimated from

ASSUME EstimationConstant == EstimationLength \in Nat \ {0}

VARIABLES
  corrected,  \* items of the DC correction: what was subtracted from each
  dc          \* its state

burstVars == <<squelchVars, corrected, dc>>

D == INSTANCE DcCorrection WITH written <- Len(squelch.items), tags <- squelch.tags

Init ==
  /\ InitSquelch
  /\ D!InitCorrection

ArriveStep == Arrive /\ UNCHANGED <<corrected, dc>>

SquelchStep == (Squelch \/ Mute) /\ UNCHANGED <<corrected, dc>>

\* What the correction has read leaves the squelch's buffer.
CorrectStep ==
  /\ D!CorrectDc
  /\ drained' = Cardinality(DOMAIN corrected')
  /\ UNCHANGED <<air, squelch>>

Next == ArriveStep \/ SquelchStep \/ CorrectStep

Spec == Init /\ [][Next]_burstVars

\* Each block has a thread that runs it whenever it can run.
FairSpec == Spec /\ WF_burstVars(SquelchStep) /\ WF_burstVars(CorrectStep)

TypeOK == SquelchTypeOK /\ D!DcTypeOK

-----------------------------------------------------------------------------
\* First sample of the burst that sample i is in.
BurstStart(i) ==
  CHOOSE j \in 0 .. i : (\A k \in j .. i : Passes(k)) /\ (j > 0 => ~Passes(j - 1))

\* Samples whose average is to be subtracted from sample i: the first ones of
\* its own burst, and none from those.
OwnPreamble(i) ==
  LET start == BurstStart(i)
  IN  IF i < start + EstimationLength THEN {} ELSE start .. start + EstimationLength - 1

SamplesAt(offsets) == {squelch.items[k + 1] : k \in offsets}

\* Every sample of a burst is written, corrected by its own burst's beginning
\* and by nothing of another burst or of the zeros between them, and those zeros
\* are passed on, wherever the calls of both blocks end.  Excepted is the item
\* with the end mark: gated, the first zero behind a burst; ungated, the burst's
\* last sample (tag_based_dc_correction_ff_impl.cc:68-177).
Ends(k) == [off |-> k, key |-> "squelch_eob"] \in squelch.tags
CorrectedByOwnBurst ==
  \A k \in DOMAIN corrected :
    LET i == squelch.items[k + 1]
    IN  IF i # Zero
        THEN \/ Ends(k) /\ ~squelch.gated
             \/ SamplesAt(corrected[k]) = OwnPreamble(i)
        ELSE Ends(k) \/ corrected[k] = D!Copied

\* From the item with the end tag on, items are passed on unmodified, as the
\* expected result of qa_tag_based_dc_correction_ff.py:59 has it.
GapsUnmodified ==
  \A k \in DOMAIN corrected : squelch.items[k + 1] = Zero => corrected[k] = D!Copied

\* The path catches up: again and again every sample received is dealt with
\* and no item stays between the blocks.  The calls that produce nothing, or
\* consume one item only to get on, do not keep a block busy, and the squelch
\* does not wait for more input than it needs
\* (tag_based_dc_correction_ff_impl.cc:84, 102,
\* gated_power_squelch_relative_cc_impl.cc:47-60).
PathCatchesUp == []<>(squelch.read = arrived /\ D!done = Len(squelch.items))
=============================================================================
