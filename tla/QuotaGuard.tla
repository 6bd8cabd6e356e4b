----------------------------- MODULE QuotaGuard -----------------------------
(***************************************************************************)
(* The quota itself: Store.AuthenticateKey decides on the total of the     *)
(* current period, the upstream answers, and then the interceptor, the     *)
(* queued usage callback, either of them or neither learn the next         *)
(* boundary and record the tokens.  Authentication takes four separate     *)
(* statements, and nothing is reserved for a request between its admission *)
(* and its accounting, which may come long after the client has its        *)
(* answer and has sent more requests.                                      *)
(*                                                                         *)
(* A member of Requests is a place that a request takes from its           *)
(* authentication until the last of its deliveries is over; the number of  *)
(* places is the number of requests that are outstanding at one time,      *)
(* whichever clients sent them.  RecordUsage is one step here; UsageLedger *)
(* shows what it is made of and interleaves the two deliveries of a        *)
(* request, which follow each other here.                                  *)
(***************************************************************************)
EXTENDS WeeklyCycle, FiniteSets

CONSTANTS
    Keys,          \* downstream keys
    Requests,      \* places of the requests outstanding at one time
    KeyOf,         \* the key the requests of a place present
    Limit,         \* monthly_token_limit of each key, Null for unlimited
    MaxCost,       \* the most tokens one request uses
    ResetTimes,    \* the weekly boundaries the upstream may announce
    MaxUsed,       \* bound on the totals, met by unlimited keys only
    MaxTime,       \* bound on the clock
    MaxLag         \* bound on the age of a handler's `now` when it is used

ASSUME QuotaGuardAssumption ==
    /\ KeyOf \in [Requests -> Keys]
    /\ Limit \in [Keys -> Nat \cup {Null}]
    /\ MaxCost \in Nat \ {0}
    /\ ResetTimes \subseteq Nat
    /\ MaxUsed \in Nat
    /\ MaxTime \in Nat
    /\ MaxLag \in Nat
    /\ IsFiniteSet(Requests)

\* A week is longer than any handler runs.
ASSUME BoundariesFarApart ==
    \A a, b \in ResetTimes : a < b => b - a > MaxLag

VARIABLES
    clock,         \* time.Now()
    status,        \* api_keys.status
    used,          \* monthly_usage, by key and period
    request        \* what has become of the request in each place

vars == <<cycle, clock, status, used, request>>

Periods == {ConfigPeriod(t) : t \in 0 .. MaxTime}
             \cup {upstreamWeeklyPeriod(b) : b \in ResetTimes}

Deliveries == {"interceptor", "callback"}

RequestState ==
    [pc     : {"idle", "status", "period", "totals",
               "upstream", "answered", "observe", "record"},
     now    : Nat,                      \* time.Now() of the running handler
     stamp  : Nat,                      \* RequestedAt
     period : Periods \cup {Null},      \* the period whose total is read
     header : ResetTimes \cup {Null},   \* x-codex-secondary-reset-at
     cost   : 0 .. MaxCost,             \* tokens used and not recorded yet
     left   : SUBSET Deliveries,        \* what the host has yet to call
     by     : Deliveries \cup {Null}]   \* the delivery that is running

TypeOK ==
    /\ cycle \in Row \cup {Null}
    /\ clock \in 0 .. MaxTime
    /\ status \in [Keys -> {"active", "disabled"}]
    /\ used \in [Keys -> [Periods -> Nat]]
    /\ request \in [Requests -> RequestState]

Idle == [pc |-> "idle", now |-> 0, stamp |-> 0, period |-> Null,
         header |-> Null, cost |-> 0, left |-> {}, by |-> Null]

Init ==
    /\ cycle = Null
    /\ clock = 0
    /\ status = [k \in Keys |-> "active"]
    /\ used = [k \in Keys |-> [p \in Periods |-> 0]]
    /\ request = [r \in Requests |-> Idle]

\* The clock readings that handlers have yet to use.
PendingNows ==
    {request[r].now : r \in {d \in Requests :
        request[d].pc \in {"status", "period", "observe", "record"}}}

Tick ==
    /\ clock < MaxTime
    /\ \A n \in PendingNows : clock - n < MaxLag
    /\ clock' = clock + 1
    /\ UNCHANGED <<cycle, status, used, request>>

-----------------------------------------------------------------------------
(* AuthenticateKey.                                                        *)

BeginAuth(r) ==
    /\ request[r].pc = "idle"
    /\ request' = [request EXCEPT ![r].pc = "status", ![r].now = clock]
    /\ UNCHANGED <<cycle, clock, status, used>>

\* SELECT ... FROM api_keys: a key that is not active is turned away.
ReadKey(r) ==
    /\ request[r].pc = "status"
    /\ request' = IF status[KeyOf[r]] = "active"
                  THEN [request EXCEPT ![r].pc = "period"]
                  ELSE [request EXCEPT ![r] = Idle]
    /\ UNCHANGED <<cycle, clock, status, used>>

ResolvePeriod(r) ==
    /\ request[r].pc = "period"
    /\ AdvanceIfDue(request[r].now)
    /\ request' = [request EXCEPT ![r].pc = "totals", ![r].now = 0,
                                  ![r].period = CurrentPeriod(request[r].now)]
    /\ UNCHANGED <<clock, status, used>>

\* Mutated form: off by one at the limit.
OverQuota_Mutant(k, p) == Limit[k] # Null /\ used[k][p] > Limit[k]

OverQuota(k, p) == Limit[k] # Null /\ used[k][p] >= Limit[k]

\* PeriodTotals and the comparison with the limit.
Deny(r) ==
    /\ request[r].pc = "totals"
    /\ OverQuota(KeyOf[r], request[r].period)
    /\ request' = [request EXCEPT ![r] = Idle]
    /\ UNCHANGED <<cycle, clock, status, used>>

Admit(r) ==
    /\ request[r].pc = "totals"
    /\ ~OverQuota(KeyOf[r], request[r].period)
    /\ request' = [request EXCEPT ![r] =
                    [Idle EXCEPT !.pc = "upstream", !.stamp = clock]]
    /\ UNCHANGED <<cycle, clock, status, used>>

-----------------------------------------------------------------------------
(* The upstream, and then recordInterceptedUsage and handleUsage.          *)

\* The response arrives, with usage or without.  Only Codex sends the header,
\* and the boundary it names is to come.
Respond(r) ==
    /\ request[r].pc = "upstream"
    /\ \E h \in {b \in ResetTimes : b > clock} \cup {Null}, t \in 0 .. MaxCost :
         request' = [request EXCEPT ![r] =
                       [@ EXCEPT !.pc = "answered", !.header = h, !.cost = t,
                                 !.left = Deliveries]]
    /\ UNCHANGED <<cycle, clock, status, used>>

\* At any later time, and in either order, the host calls the plugin.
Deliver(r) ==
    /\ request[r].pc = "answered"
    /\ \E d \in request[r].left :
         request' = [request EXCEPT ![r] =
                       [@ EXCEPT !.pc = "observe", !.now = clock,
                                 !.left = request[r].left \ {d}, !.by = d]]
    /\ UNCHANGED <<cycle, clock, status, used>>

\* A response without the header passes this statement by.
Observe(r) ==
    /\ request[r].pc = "observe"
    /\ ObserveUpstreamWeeklyReset(request[r].header, request[r].now)
    /\ request' = [request EXCEPT ![r].pc = "record"]
    /\ UNCHANGED <<clock, status, used>>

\* UsageEvent.Timestamp: the interceptor's own clock, the callback's request.
Timestamp(x) == IF x.by = "interceptor" THEN x.now ELSE x.stamp

Delivered(x) ==
    IF x.left = {} THEN Idle ELSE [x EXCEPT !.pc = "answered", !.now = 0, !.by = Null]

\* RecordUsage; the second delivery of a request that is charged finds the
\* event of the first, after it has applied a boundary that is due.
Record(r) ==
    /\ request[r].pc = "record"
    /\ LET k == KeyOf[r]
           n == Timestamp(request[r])
           p == CurrentPeriod(n)
       IN  /\ AdvanceIfDue(n)
           /\ used[k][p] + request[r].cost <= MaxUsed
           /\ used' = [used EXCEPT ![k][p] = @ + request[r].cost]
    /\ request' = [request EXCEPT ![r] = Delivered([@ EXCEPT !.cost = 0])]
    /\ UNCHANGED <<clock, status>>

\* A delivery ends and charges nothing: a response without request ID, a call
\* without a key or a usage report, a failing statement.
Unrecorded(r) ==
    /\ request[r].pc \in {"observe", "record"}
    /\ request' = [request EXCEPT ![r] = Delivered(@)]
    /\ UNCHANGED <<cycle, clock, status, used>>

\* A delivery that is left does not come: there may be no interceptor for a
\* failed request, and no callback from a host that stops.
Leave(r) ==
    /\ request[r].pc = "answered"
    /\ request' = [request EXCEPT ![r] = Idle]
    /\ UNCHANGED <<cycle, clock, status, used>>

-----------------------------------------------------------------------------
(* UpdateAPIKey.                                                           *)

UpdateStatus(k) ==
    /\ \E st \in {"active", "disabled"} : status' = [status EXCEPT ![k] = st]
    /\ UNCHANGED <<cycle, clock, used, request>>

Auth(r) == BeginAuth(r) \/ ReadKey(r) \/ ResolvePeriod(r) \/ Deny(r) \/ Admit(r)

Account(r) ==
    Respond(r) \/ Deliver(r) \/ Observe(r) \/ Record(r) \/ Unrecorded(r) \/ Leave(r)

Next ==
    \/ Tick
    \/ \E r \in Requests : Auth(r) \/ Account(r)
    \/ \E k \in Keys : UpdateStatus(k)

Spec == Init /\ [][Next]_vars

(* Time passes, clients keep sending requests, handlers and upstream        *)
(* answer, and the host calls with the deliveries of a request or drops     *)
(* them, so places are given back; nothing is assumed of the operator, of   *)
(* the boundary headers or of which deliveries come.                        *)
(* At MaxLag = 0 the clock only moves while no handler holds a reading of   *)
(* it; that there are such moments is what a lag of zero means, however     *)
(* many requests there are.                                                 *)
FairSpec ==
    /\ Spec
    /\ SF_vars(Tick)
    /\ []<>(PendingNows = {})
    /\ \A r \in Requests : WF_vars(Auth(r) \/ Account(r))

-----------------------------------------------------------------------------
(* Properties.                                                             *)

RequestsOf(k) == {r \in Requests : KeyOf[r] = k}

\* A key exceeds its limit by no more than what the requests it has
\* outstanding at one time can use, where a request is outstanding until its
\* usage callback is over: no request is charged twice, none is admitted by a
\* total that leaves out more than those (store.go:210-221).
OvershootBounded ==
    \A k \in Keys, p \in Periods :
        Limit[k] \in Nat \ {0}
          => used[k][p] <= Limit[k] - 1 + Cardinality(RequestsOf(k)) * MaxCost

\* What AuthenticateKey would find for the key at this moment.
Exhausted(k) == OverQuota(k, CurrentPeriod(clock))

\* A request that has been let through and may yet be charged.
Uncharged(x) ==
    \/ x.pc = "upstream"
    \/ x.pc \in {"answered", "observe", "record"} /\ x.cost # 0

\* A request of the key is through, or the operator disabled it.
Served(k) ==
    \/ \E r \in RequestsOf(k) : Uncharged(request[r])
    \/ status[k] = "disabled"

\* "The persisted boundary lets an over-quota key recover without first
\* reaching Codex": once a boundary is stored, an exhausted key that keeps
\* trying gets a request through again.
RecoversAtBoundary ==
    \A k \in Keys :
        (Exhausted(k) /\ cycle # Null /\ cycle.next \in 0 .. MaxTime) ~> Served(k)

\* "A reset must not depend only on seeing a response after the upstream
\* boundary": the same for a key exhausted after a boundary has been applied
\* and before a response brings the next one.
RecoversWithoutResponse ==
    \A k \in Keys :
        (Exhausted(k) /\ cycle # Null /\ cycle.next = Null) ~> Served(k)
=============================================================================
