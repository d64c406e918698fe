---------------------------- MODULE MCAuthSession ----------------------------
(***************************************************************************)
(* AuthSession for TLC.  Requests are interchangeable.                     *)
(***************************************************************************)
EXTENDS AuthSession, TLC

RequestSymmetry == Permutations(Requests)
=============================================================================
