---------------------------- MODULE MCUsageLedger ----------------------------
(* Instances of UsageLedger for TLC. *)
EXTENDS UsageLedger, TLC

CONSTANTS q1, q2, k1, s1, s2

OneKey == [q \in Requests |-> k1]
Weights == [q \in Requests |-> IF q = q1 THEN 1 ELSE 2]

Symmetry == Permutations(Stores)
=============================================================================
