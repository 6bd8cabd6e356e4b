---------------------------- MODULE MCRouteHealth ----------------------------
(* Instances of RouteHealth for TLC. *)
EXTENDS RouteHealth, TLC

CONSTANTS ta, tb, f1, f2, p1

TwoTargets == <<ta, tb>>

\* A rule without a minimum, and a minimum above the maximum: nothing validates
\* them.  The last is like the default rules.
MixedRules ==
    <<[matches |-> {ta}, strategy |-> "codex_reset_headers",
       fallback |-> 0, min |-> 0, max |-> 4],
      [matches |-> {ta}, strategy |-> "fixed",
       fallback |-> 3, min |-> 5, max |-> 2],
      [matches |-> {tb}, strategy |-> "retry_after_header",
       fallback |-> 3, min |-> 2, max |-> 4]>>

NoHeader == [primaryFull |-> FALSE, secondaryFull |-> FALSE,
             primary |-> Null, secondary |-> Null, retryAfter |-> Null, retryAt |-> Null]

\* No Codex header and a date to wait for, which may have passed; a weekly limit
\* that is full while the primary window is not; a reset in the distant future.  With DurationMax = 16 and two ticks a second, a
\* Retry-After of 10 wraps to a negative duration and one of 17 to a small one.
SomeHeaders ==
    {[NoHeader EXCEPT !.retryAt = 4],
     [NoHeader EXCEPT !.secondaryFull = TRUE, !.primary = 5, !.secondary = 1,
                      !.retryAfter = 17],
     [NoHeader EXCEPT !.primary = 9, !.secondary = 3, !.retryAfter = 10]}

Symmetry == Permutations(Failures)
=============================================================================
