---------------------------- MODULE MCInstanceIds ----------------------------
(* Three stored dungeons with a gap between them; four ids per block; two  *)
(* worker threads, which are interchangeable.                              *)
EXTENDS InstanceIds, TLC

CONSTANTS w1, w2

MCStored == {1, 2, 4}
Symmetry == Permutations(Workers)
=============================================================================
