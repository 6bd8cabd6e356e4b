---------------------------- MODULE MCQuotaCycle ----------------------------
(* Instances of QuotaCycle for TLC. *)
EXTENDS QuotaCycle, TLC

CONSTANTS r1, r2, r3, l1

Symmetry == Permutations(Requests)
=============================================================================
