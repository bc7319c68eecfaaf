---------------------------- MODULE MCIdempotency ----------------------------
(***************************************************************************)
(* Small instances of Idempotency for TLC: the last request has another   *)
(* body than the others.                                                   *)
(***************************************************************************)
EXTENDS Idempotency, TLC

CONSTANTS q1, q2, q3, q4, body1, body2

Bodies == q1 :> body1 @@ q2 :> body1 @@ q3 :> body1 @@ q4 :> body2

Symmetry == Permutations({q1, q2, q3})
=============================================================================
