--------------------------- MODULE MCPublishConfirm ---------------------------
(* Instances of PublishConfirm for TLC.                                    *)
EXTENDS PublishConfirm, TLC

CONSTANTS t1, t2, t3

(* The tasks that do reach a queue are alike.                              *)
RoutableSymmetry == Permutations(Tasks \ Unroutable)
=============================================================================
