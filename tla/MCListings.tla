------------------------------ MODULE MCListings ------------------------------
(***************************************************************************)
(* Listings for TLC: three rows of two kinds, so that a month or a member  *)
(* changes after a page of one, and pages of two can be full, and sizes    *)
(* down to the 0 that only two of the endpoints accept.                    *)
(***************************************************************************)
EXTENDS Listings, TLC

Symmetry == Permutations(Items)
=============================================================================
