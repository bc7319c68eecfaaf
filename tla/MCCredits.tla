----------------------------- MODULE MCCredits -----------------------------
(***************************************************************************)
(* Small instances of Credits for TLC: every reference is worth one job.   *)
(***************************************************************************)
EXTENDS Credits, TLC

CONSTANTS r1, r2, d1, d2, d3, k1, e1, e2, month

SameKey   == r1 :> k1 @@ r2 :> k1
NoKeys    == r1 :> NoKey @@ r2 :> NoKey
Events    == d1 :> e1 @@ d2 :> e1 @@ d3 :> e2
NoEvents  == [d \in {} |-> e1]
One       == [r \in References |-> 1]
Two       == [r \in References |-> 2]
=============================================================================
