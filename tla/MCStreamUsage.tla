---------------------------- MODULE MCStreamUsage ----------------------------
(* Instances of StreamUsage for TLC. *)
EXTENDS StreamUsage

CONSTANTS s1, s2
=============================================================================
