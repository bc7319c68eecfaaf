----------------------------- MODULE MCJobQueue -----------------------------
(***************************************************************************)
(* Small instances of JobQueue for TLC.                                    *)
(***************************************************************************)
EXTENDS JobQueue, TLC

CONSTANTS j1, j2, w1, w2, c1

OneChat     == j1 :> c1
TwoChats    == j1 :> c1 @@ j2 :> c1     \* of the same conversation
NoLocks     == [j \in Jobs |-> NoConv]

\* Each of some may happen once, no other disturbance may.
Once(some) == [d \in Disturbances |-> IF d \in some THEN 1 ELSE 0]

OneCrash  == Once({"crash"})
OneError  == Once({"error"})
Faults    == Once({"crash", "dispatcher", "adminCancel"})
Chaos     == Once({"stall", "userCancel", "reopen", "stop", "flush"})
Losses    == Once({"crash", "dispatcher", "flush", "stall"})
Users     == Once({"userCancel"})

Symmetry == Permutations(Jobs) \cup Permutations(Workers)
=============================================================================
