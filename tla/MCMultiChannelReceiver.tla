----------------------- MODULE MCMultiChannelReceiver -----------------------
(* Symmetry for MultiChannelReceiver: neither channels nor frames are told *)
(* apart but by being equal.                                               *)
EXTENDS MultiChannelReceiver, TLC

McSymmetry == Permutations(Channels) \cup Permutations(Frames)
=============================================================================
