---------------------------- MODULE MCRateLease ----------------------------
(***************************************************************************)
(* A small instance of RateLease for TLC.                                  *)
(***************************************************************************)
EXTENDS RateLease, TLC

CONSTANTS i1, t1, r1, r2

Minutes == 1 .. 2

Symmetry == Permutations(Calls)
=============================================================================
