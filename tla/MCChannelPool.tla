---------------------------- MODULE MCChannelPool ----------------------------
(* Instances of ChannelPool for TLC.                                       *)
EXTENDS ChannelPool, TLC

WorkerSymmetry == Permutations(Workers)
=============================================================================
