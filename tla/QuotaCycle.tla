----------------------------- MODULE QuotaCycle -----------------------------
(***************************************************************************)
(* The weekly quota period under concurrent handlers.  Requests are        *)
(* admitted, answered by the upstream with or without its next weekly      *)
(* boundary, and accounted for by the synchronous response interceptor or  *)
(* by the queued usage callback; other calls (authentication, management)  *)
(* only look the current period up.                                        *)
(*                                                                         *)
(* Every handler reads the clock once, when it starts, and reaches the     *)
(* quotaMu sections of the Store later: the clock moves, and other         *)
(* handlers run, between the two.  MaxLag bounds how far it moves.         *)
(***************************************************************************)
EXTENDS WeeklyCycle, FiniteSets

CONSTANTS
    Requests,      \* proxied requests, each accounted for by one handler
    Lookups,       \* goroutines that only call CurrentPeriod(time.Now())
    ResetTimes,    \* the weekly boundaries the upstream may announce
    MaxTime,       \* bound on the clock
    MaxLag         \* bound on the age of a handler's `now` when it is used

ASSUME QuotaCycleAssumption ==
    /\ ResetTimes \subseteq Nat
    /\ MaxTime \in Nat
    /\ MaxLag \in Nat

\* A week is longer than any handler runs.
ASSUME BoundariesFarApart ==
    \A a, b \in ResetTimes : a < b => b - a > MaxLag

VARIABLES
    clock,         \* time.Now()
    upstreamReset, \* the boundary the upstream announces at present
    call,          \* the handler of each request
    lookup,        \* the calls that only look the period up
    charge,        \* the period each request's usage was recorded under
    ended          \* history: the periods closed so far, with their ends

vars == <<cycle, clock, upstreamReset, call, lookup, charge, ended>>

CallState ==
    [pc     : {"idle", "upstream", "answered", "observe", "resolve", "done"},
     header : ResetTimes \cup {Null},  \* x-codex-secondary-reset-at
     now    : Nat,                     \* time.Now() of the handler
     stamp  : Nat]                     \* UsageEvent.Timestamp

LookupState == [pc : {"idle", "resolve"}, now : Nat]

TypeOK ==
    /\ cycle \in Row \cup {Null}
    /\ clock \in Nat
    /\ upstreamReset \in ResetTimes
    /\ call \in [Requests -> CallState]
    /\ lookup \in [Lookups -> LookupState]
    /\ charge \in [Requests -> Period \cup {Null}]
    /\ ended \subseteq [period : Period, end : Nat]

Init ==
    /\ cycle = Null
    /\ clock = 0
    /\ upstreamReset \in ResetTimes
    /\ call = [r \in Requests |->
                 [pc |-> "idle", header |-> Null, now |-> 0, stamp |-> 0]]
    /\ lookup = [l \in Lookups |-> [pc |-> "idle", now |-> 0]]
    /\ charge = [r \in Requests |-> Null]
    /\ ended = {}

-----------------------------------------------------------------------------
(* Time and the upstream.                                                  *)

\* The values of `now` held by handlers that have yet to use them.
PendingNows ==
    {call[r].now : r \in {q \in Requests : call[q].pc \in {"observe", "resolve"}}}
        \cup {lookup[l].now : l \in {k \in Lookups : lookup[k].pc = "resolve"}}

Tick ==
    /\ clock < MaxTime
    /\ \A n \in PendingNows : clock - n < MaxLag
    /\ clock' = clock + 1
    /\ UNCHANGED <<cycle, upstreamReset, call, lookup, charge, ended>>

\* The upstream announces another boundary still to come: the next week's, or
\* a moved one.
UpstreamMoves ==
    \E b \in ResetTimes :
        /\ b > clock
        /\ b # upstreamReset
        /\ upstreamReset' = b
        /\ UNCHANGED <<cycle, clock, call, lookup, charge, ended>>

-----------------------------------------------------------------------------
(* A request and its handler.                                              *)

\* FrontendAuth let the request through; CPA stamps it (RequestedAt).
Admit(r) ==
    /\ call[r].pc = "idle"
    /\ call' = [call EXCEPT ![r].pc = "upstream", ![r].stamp = clock]
    /\ UNCHANGED <<cycle, clock, upstreamReset, lookup, charge, ended>>

\* The upstream answers, with the boundary header or without it.
Answer(r) ==
    /\ call[r].pc = "upstream"
    /\ \E h \in {upstreamReset, Null} :
         call' = [call EXCEPT ![r].pc = "answered", ![r].header = h]
    /\ UNCHANGED <<cycle, clock, upstreamReset, lookup, charge, ended>>

\* recordInterceptedUsage: the event carries the handler's own clock.
Intercept(r) ==
    /\ call[r].pc = "answered"
    /\ call' = [call EXCEPT ![r].pc = "observe",
                            ![r].now = clock, ![r].stamp = clock]
    /\ UNCHANGED <<cycle, clock, upstreamReset, lookup, charge, ended>>

\* handleUsage, delivered any time later: the event keeps RequestedAt.
Callback(r) ==
    /\ call[r].pc = "answered"
    /\ call' = [call EXCEPT ![r].pc = "observe", ![r].now = clock]
    /\ UNCHANGED <<cycle, clock, upstreamReset, lookup, charge, ended>>

\* The period that was current is closed by this step.
RememberEnd ==
    ended' = IF cycle # Null /\ <<cycle'.prev, cycle'.started>> # <<cycle.prev, cycle.started>>
             THEN ended \cup {[period |-> cycle.period, end |-> cycle'.started]}
             ELSE ended

Observe(r) ==
    /\ call[r].pc = "observe"
    /\ ObserveUpstreamWeeklyReset(call[r].header, call[r].now)
    /\ call' = [call EXCEPT ![r].pc = "resolve"]
    /\ RememberEnd
    /\ UNCHANGED <<clock, upstreamReset, lookup, charge>>

\* RecordUsage: the event is filed under CurrentPeriod(event.Timestamp).
Record(r) ==
    /\ call[r].pc = "resolve"
    /\ AdvanceIfDue(call[r].stamp)
    /\ charge' = [charge EXCEPT ![r] = CurrentPeriod(call[r].stamp)]
    /\ call' = [call EXCEPT ![r].pc = "done"]
    /\ RememberEnd
    /\ UNCHANGED <<clock, upstreamReset, lookup>>

\* A statement fails, or the process stops: the handler ends, the row stays.
Abort(r) ==
    /\ call[r].pc \in {"observe", "resolve"}
    /\ call' = [call EXCEPT ![r].pc = "done"]
    /\ UNCHANGED <<cycle, clock, upstreamReset, lookup, charge, ended>>

-----------------------------------------------------------------------------
(* AuthenticateKey and the management handlers.                            *)

BeginLookup(l) ==
    /\ lookup[l].pc = "idle"
    /\ lookup' = [lookup EXCEPT ![l] = [pc |-> "resolve", now |-> clock]]
    /\ UNCHANGED <<cycle, clock, upstreamReset, call, charge, ended>>

FinishLookup(l) ==
    /\ lookup[l].pc = "resolve"
    /\ AdvanceIfDue(lookup[l].now)
    /\ lookup' = [lookup EXCEPT ![l].pc = "idle"]
    /\ RememberEnd
    /\ UNCHANGED <<clock, upstreamReset, call, charge>>

\* SELECT or UPDATE returned an error.
FailLookup(l) ==
    /\ lookup[l].pc = "resolve"
    /\ lookup' = [lookup EXCEPT ![l].pc = "idle"]
    /\ UNCHANGED <<cycle, clock, upstreamReset, call, charge, ended>>

Next ==
    \/ Tick
    \/ UpstreamMoves
    \/ \E r \in Requests :
          Admit(r) \/ Answer(r) \/ Intercept(r) \/ Callback(r)
            \/ Observe(r) \/ Record(r) \/ Abort(r)
    \/ \E l \in Lookups : BeginLookup(l) \/ FinishLookup(l) \/ FailLookup(l)

Spec == Init /\ [][Next]_vars

(* Time passes, a handler that started runs to its end (a statement waits    *)
(* at most busy_timeout for the database), and lookups keep arriving, not    *)
(* every one of them failing.  At MaxLag = 0 the clock only moves while no   *)
(* handler holds a reading of it; that there are such moments is what a lag  *)
(* of zero means.  Nothing is assumed of requests, of their answers or of    *)
(* their callbacks.                                                          *)
FairSpec ==
    /\ Spec
    /\ SF_vars(Tick)
    /\ []<>(PendingNows = {})
    /\ \A r \in Requests : WF_vars(Observe(r) \/ Record(r) \/ Abort(r))
    /\ \A l \in Lookups : WF_vars(BeginLookup(l)) /\ SF_vars(FinishLookup(l))

-----------------------------------------------------------------------------
(* Properties.                                                             *)

\* The row is always one the code's four columns mean together: a previous
\* period comes with the boundary that closed it, that boundary names the
\* current period, it has passed, and the stored boundary is not older.
\* (CurrentPeriod and ObserveUpstreamWeeklyReset, store.go:315-393.)
BoundaryOrder ==
    cycle # Null =>
        /\ cycle.prev = Null <=> cycle.started = Null
        /\ cycle.started # Null =>
             /\ cycle.period = upstreamWeeklyPeriod(cycle.started)
             /\ cycle.started <= clock
             /\ cycle.next # Null => cycle.next >= cycle.started

\* The start of the current period never moves back, whatever the order the
\* handlers' clock readings and the upstream's headers reach the Store in.
StartedMonotone ==
    [][cycle # Null /\ cycle.started # Null
         => cycle' # Null /\ cycle'.started # Null
              /\ cycle'.started >= cycle.started]_vars

\* "delayed asynchronous usage callbacks are attributed by their request
\* timestamp instead of consuming the new quota": usage stamped before the
\* start of the current period is not recorded under the current period.
LateUsageStaysOut ==
    [][\A r \in Requests :
         charge'[r] # charge[r] /\ cycle' # Null /\ cycle'.started # Null
              /\ call[r].stamp < cycle'.started
           => charge'[r] # cycle'.period]_vars

\* A period that a boundary closed holds no usage stamped at or after it.
ChargesWithinPeriod ==
    \A r \in Requests, e \in ended :
        charge[r] = e.period => call[r].stamp < e.end

\* "A reset must not depend only on seeing a response after the upstream
\* boundary": a stored boundary the clock reaches is applied (or replaced by
\* a later one) as long as something keeps looking the period up.
BoundaryTakesEffect ==
    \A b \in {t \in ResetTimes : t <= MaxTime} :
        (cycle # Null /\ cycle.next = b) ~> (cycle # Null /\ cycle.next # b)
=============================================================================
