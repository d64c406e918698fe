---------------------------- MODULE MCUnionWeights ----------------------------
(***************************************************************************)
(* UnionWeights for TLC: the total is 3 points, the default 1 + 1 + 1.     *)
(***************************************************************************)
EXTENDS UnionWeights

MCDefault == [c \in Columns |-> 1]
=============================================================================
