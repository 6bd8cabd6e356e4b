----------------------------- MODULE MCQuotaGuard -----------------------------
(* Instances of QuotaGuard for TLC. *)
EXTENDS QuotaGuard

CONSTANTS k1, r1, r2

\* All requests present one key, which one request exhausts.
OneKey == [r \in Requests |-> k1]
LowLimits == [k \in Keys |-> 1]
=============================================================================
