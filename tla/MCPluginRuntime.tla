--------------------------- MODULE MCPluginRuntime ---------------------------
(* Instances of PluginRuntime for TLC. *)
EXTENDS PluginRuntime, TLC

CONSTANTS s1, s2, s3, a1, a2, c1, c2, x1, x2, x3

Symmetry == Permutations(Stores) \cup Permutations(Admins)
              \cup Permutations(Callers) \cup Permutations(Secrets)
=============================================================================
