---------------------------- MODULE MCKeyRegistry ----------------------------
(* Instances of KeyRegistry for TLC. *)
EXTENDS KeyRegistry, TLC

CONSTANTS k1, k2, r1, r2, o1, o2

OneKey == [r \in Requesters |-> k1]

\* A limit without a status, and the reverse.
SomeBodies == {[limit |-> 1, status |-> ""], [limit |-> Null, status |-> "active"],
               [limit |-> Null, status |-> "disabled"]}

Symmetry == Permutations(Requesters) \cup Permutations(Operators)
=============================================================================
