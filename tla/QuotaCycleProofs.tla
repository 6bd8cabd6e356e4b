-------------------------- MODULE QuotaCycleProofs --------------------------
(***************************************************************************)
(* Proofs about QuotaCycle, for every set of requests, lookups and         *)
(* boundaries and for every clock bound and lag.                           *)
(*                                                                         *)
(* BoundaryOrder is not inductive: that a newly stored boundary is not     *)
(* older than the current period needs the age of the handler's clock      *)
(* reading (FreshReadings) and that stored boundaries are boundaries of    *)
(* the upstream, which lie further apart than that age (KnownBoundaries).  *)
(*                                                                         *)
(* The attribution of usage needs more: that handlers use their reading    *)
(* before the clock moves, so that boundaries strictly increase            *)
(* (StrictCycle).                                                          *)
(***************************************************************************)
EXTENDS QuotaCycle, TLAPS

\* No reading of the clock is from the future, and one that a handler still
\* compares a boundary with is at most MaxLag old.
FreshReadings ==
    /\ \A r \in Requests :
         /\ call[r].now <= clock
         /\ call[r].stamp <= clock
         /\ call[r].pc \in {"observe", "resolve"} => clock - call[r].now <= MaxLag
    /\ \A l \in Lookups : lookup[l].now <= clock

\* The row names boundaries the upstream announced.
KnownBoundaries ==
    cycle # Null =>
        /\ cycle.next # Null => cycle.next \in ResetTimes
        /\ cycle.started # Null => cycle.started \in ResetTimes

IInv == TypeOK /\ FreshReadings /\ KnownBoundaries /\ BoundaryOrder

CycleInv == cycle \in Row \cup {Null} /\ KnownBoundaries /\ BoundaryOrder

-----------------------------------------------------------------------------
(* What the two sections of quotaMu do to the row.                         *)

LEMMA NullIsApart == Null \notin Nat /\ Null \notin Period /\ Null \notin Row
BY WeeklyCycleAssumption

LEMMA PeriodNames ==
    /\ \A t \in Nat : ConfigPeriod(t) \in Period
    /\ \A t \in Nat : upstreamWeeklyPeriod(t) \in Period
BY WeeklyCycleAssumption DEF ConfigPeriod, upstreamWeeklyPeriod, Period

\* Applying a stored boundary that has passed keeps the row in order.
LEMMA RolledInOrder ==
    ASSUME CycleInv, clock \in Nat, clock' = clock,
           cycle # Null, cycle.next # Null, cycle.next <= clock,
           cycle' = Rolled
    PROVE  /\ CycleInv'
           /\ cycle' # Null /\ cycle'.started = cycle.next
           /\ cycle.started # Null => cycle'.started >= cycle.started
<1>1. cycle \in Row /\ cycle.next \in Nat /\ cycle.period \in Period
  BY DEF CycleInv, Row
<1>2. Rolled \in Row
  BY <1>1, PeriodNames DEF Rolled, Row
<1>3. /\ cycle'.period = upstreamWeeklyPeriod(cycle.next)
      /\ cycle'.next = Null
      /\ cycle'.prev = cycle.period
      /\ cycle'.started = cycle.next
  BY DEF Rolled
<1>4. cycle' # Null /\ cycle'.prev # Null /\ cycle'.started # Null
  BY <1>1, <1>2, <1>3, NullIsApart
<1>5. KnownBoundaries'
  BY <1>3 DEF CycleInv, KnownBoundaries
<1>6. BoundaryOrder'
  BY <1>3, <1>4 DEF BoundaryOrder
<1>7. cycle.started # Null => cycle'.started >= cycle.started
  BY <1>3 DEF CycleInv, BoundaryOrder
<1> QED
  BY <1>2, <1>3, <1>4, <1>5, <1>6, <1>7 DEF CycleInv

\* CurrentPeriod, called with a timestamp that is not in the future.
LEMMA ReadKeepsOrder ==
    ASSUME CycleInv, clock \in Nat, clock' = clock,
           NEW t \in Nat, t <= clock, AdvanceIfDue(t)
    PROVE  /\ CycleInv'
           /\ \/ cycle' = cycle
              \/ /\ cycle # Null /\ cycle' # Null
                 /\ cycle'.started \in Nat
                 /\ cycle.started # Null => cycle'.started >= cycle.started
<1>1. CASE Due(t)
  <2>1. cycle # Null /\ cycle.next # Null /\ t >= cycle.next /\ cycle' = Rolled
    BY <1>1 DEF Due, AdvanceIfDue, AfterRead
  <2>2. cycle.next \in Nat
    BY <2>1 DEF CycleInv, Row
  <2>3. cycle.next <= clock
    BY <2>1, <2>2
  <2> QED
    BY <2>1, <2>2, <2>3, RolledInOrder
<1>2. CASE ~Due(t)
  <2>1. cycle' = cycle
    BY <1>2 DEF AdvanceIfDue, AfterRead
  <2> QED
    BY <2>1 DEF CycleInv, KnownBoundaries, BoundaryOrder
<1> QED
  BY <1>1, <1>2

\* ObserveUpstreamWeeklyReset, called with a clock reading at most MaxLag old
\* and a boundary of the upstream.
LEMMA ObserveKeepsOrder ==
    ASSUME CycleInv, clock \in Nat, clock' = clock,
           NEW b \in ResetTimes \cup {Null}, NEW n \in Nat,
           n <= clock, clock - n <= MaxLag,
           ObserveUpstreamWeeklyReset(b, n)
    PROVE  /\ CycleInv'
           /\ \/ cycle' = cycle
              \/ cycle = Null
              \/ /\ cycle # Null /\ cycle' # Null
                 /\ cycle'.started = cycle.started /\ cycle'.prev = cycle.prev
              \/ /\ cycle # Null /\ cycle' # Null
                 /\ cycle'.started \in Nat
                 /\ cycle.started # Null => cycle'.started >= cycle.started
<1>1. CASE cycle' = cycle
  BY <1>1 DEF CycleInv, KnownBoundaries, BoundaryOrder
<1>2. CASE cycle' # cycle
  <2>1. b \in ResetTimes /\ b > n
    BY <1>2 DEF ObserveUpstreamWeeklyReset, Accepts, IsFuture
  <2>2. b \in Nat /\ MaxLag \in Nat
    BY <2>1, QuotaCycleAssumption
  <2>3. b # Null
    BY <2>2, NullIsApart
  <2>4. CASE FirstBoundary(b, n)
    <3>1. cycle' \in Row /\ cycle' # Null
      BY <2>2, <2>4, PeriodNames, NullIsApart DEF FirstBoundary, Row
    <3>2. cycle'.next = b /\ cycle'.prev = Null /\ cycle'.started = Null
      BY <2>4 DEF FirstBoundary
    <3>3. KnownBoundaries' /\ BoundaryOrder'
      BY <2>1, <3>2 DEF KnownBoundaries, BoundaryOrder
    <3> QED
      BY <2>4, <3>1, <3>3 DEF CycleInv, FirstBoundary
  <2>5. CASE StoreBoundary(b) \/ ExtendBoundary(b, n)
    <3>1. cycle \in Row /\ cycle # Null /\ cycle' = [cycle EXCEPT !.next = b]
      BY <2>5 DEF CycleInv, StoreBoundary, ExtendBoundary, LaterBoundary
    <3>2. cycle' \in Row /\ cycle' # Null
      BY <2>2, <3>1, NullIsApart DEF Row
    <3>3. /\ cycle'.next = b /\ cycle'.prev = cycle.prev
          /\ cycle'.started = cycle.started /\ cycle'.period = cycle.period
      BY <3>1 DEF Row
    <3>4. cycle.started # Null => b >= cycle.started
      <4> SUFFICES ASSUME cycle.started # Null
                   PROVE  b >= cycle.started
        OBVIOUS
      <4>1. cycle.started \in ResetTimes /\ cycle.started \in Nat /\ cycle.started <= clock
        BY <3>1, QuotaCycleAssumption DEF CycleInv, KnownBoundaries, BoundaryOrder
      <4>2. b < cycle.started => cycle.started - b > MaxLag
        BY <2>1, <4>1, BoundariesFarApart
      <4> QED
        BY <2>1, <2>2, <4>1, <4>2
    <3>5. KnownBoundaries'
      BY <2>1, <3>1, <3>3 DEF CycleInv, KnownBoundaries
    <3>6. BoundaryOrder'
      BY <3>1, <3>3, <3>4 DEF CycleInv, BoundaryOrder
    <3> QED
      BY <3>1, <3>2, <3>3, <3>5, <3>6 DEF CycleInv
  <2>6. CASE ApplyAndStoreBoundary(b, n)
    <3>1. /\ cycle \in Row /\ cycle # Null /\ cycle.next \in Nat
          /\ cycle.next # Null /\ b > cycle.next /\ cycle.next <= clock
      BY <2>6 DEF ApplyAndStoreBoundary, LaterBoundary, CycleInv, Row
    <3>2. /\ cycle'.period = upstreamWeeklyPeriod(cycle.next)
          /\ cycle'.next = b
          /\ cycle'.prev = cycle.period
          /\ cycle'.started = cycle.next
          /\ cycle' \in Row
      BY <2>2, <2>6, <3>1, PeriodNames DEF ApplyAndStoreBoundary, Rolled, Row
    <3>3. cycle' # Null /\ cycle'.prev # Null
      BY <3>1, <3>2, NullIsApart DEF Row
    <3>4. KnownBoundaries'
      BY <2>1, <3>1, <3>2 DEF CycleInv, KnownBoundaries
    <3>5. BoundaryOrder'
      BY <2>2, <3>1, <3>2, <3>3 DEF BoundaryOrder
    <3>6. cycle.started # Null => cycle'.started >= cycle.started
      BY <3>1, <3>2 DEF CycleInv, BoundaryOrder
    <3> QED
      BY <3>1, <3>2, <3>3, <3>4, <3>5, <3>6 DEF CycleInv
  <2> QED
    BY <1>2, <2>4, <2>5, <2>6 DEF ObserveUpstreamWeeklyReset, KeepBoundary
<1> QED
  BY <1>1, <1>2

-----------------------------------------------------------------------------
(* The invariant.                                                          *)

Ends == [period : Period, end : Nat]

\* The history of closed periods stays well-formed when a section of quotaMu
\* left the row as it was, created it, kept its start or moved its start.
LEMMA EndsTyped ==
    ASSUME cycle \in Row \cup {Null}, ended \subseteq Ends, RememberEnd,
           \/ cycle' = cycle
           \/ cycle = Null
           \/ cycle'.started = cycle.started /\ cycle'.prev = cycle.prev
           \/ cycle'.started \in Nat
    PROVE  ended' \subseteq Ends
<1>1. CASE ended' = ended
  BY <1>1
<1>2. CASE ended' # ended
  <2>1. /\ cycle \in Row
        /\ <<cycle'.prev, cycle'.started>> # <<cycle.prev, cycle.started>>
        /\ ended' = ended \cup {[period |-> cycle.period, end |-> cycle'.started]}
    BY <1>2 DEF RememberEnd
  <2>2. cycle'.started \in Nat
    <3>1. cycle # Null /\ cycle' # cycle
      BY <2>1, NullIsApart
    <3>2. ~(cycle'.started = cycle.started /\ cycle'.prev = cycle.prev)
      BY <2>1
    <3> QED
      BY <3>1, <3>2
  <2>3. [period |-> cycle.period, end |-> cycle'.started] \in Ends
    BY <2>1, <2>2 DEF Row, Ends
  <2> QED
    BY <2>1, <2>3
<1> QED
  BY <1>1, <1>2

LEMMA IInvImpliesCycleInv == IInv => CycleInv
BY DEF IInv, TypeOK, CycleInv

LEMMA InitEstablishes == Init => IInv
<1> SUFFICES ASSUME Init PROVE IInv
  OBVIOUS
<1>1. TypeOK
  BY DEF Init, TypeOK, CallState, LookupState
<1>2. FreshReadings
  BY DEF Init, FreshReadings
<1>3. KnownBoundaries /\ BoundaryOrder
  BY DEF Init, KnownBoundaries, BoundaryOrder
<1> QED
  BY <1>1, <1>2, <1>3 DEF IInv

\* What every step of Next does to the start of the current period.
StartKept ==
    cycle # Null /\ cycle.started # Null
      => cycle' # Null /\ cycle'.started # Null /\ cycle'.started >= cycle.started

LEMMA TickStep == IInv /\ Tick => IInv' /\ StartKept
<1> SUFFICES ASSUME IInv, Tick PROVE IInv' /\ StartKept
  OBVIOUS
<1> USE DEF IInv, Tick
<1>1. TypeOK'
  BY DEF TypeOK
<1>2. FreshReadings'
  <2>1. \A r \in Requests : call[r] \in CallState
    BY DEF TypeOK
  <2>2. \A l \in Lookups : lookup[l] \in LookupState
    BY DEF TypeOK
  <2>3. clock \in Nat /\ MaxLag \in Nat
    BY QuotaCycleAssumption DEF TypeOK
  <2>4. ASSUME NEW r \in Requests
        PROVE  /\ call[r].now <= clock'
               /\ call[r].stamp <= clock'
               /\ call[r].pc \in {"observe", "resolve"} => clock' - call[r].now <= MaxLag
    <3>1. call[r].now \in Nat /\ call[r].stamp \in Nat
      BY <2>1 DEF CallState
    <3>2. call[r].pc \in {"observe", "resolve"} => clock - call[r].now < MaxLag
      BY DEF PendingNows
    <3> QED
      BY <2>3, <3>1, <3>2 DEF FreshReadings
  <2>5. ASSUME NEW l \in Lookups
        PROVE  lookup[l].now <= clock'
    BY <2>2, <2>3 DEF FreshReadings, LookupState
  <2> QED
    BY <2>4, <2>5 DEF FreshReadings
<1>3. KnownBoundaries'
  BY DEF KnownBoundaries
<1>4. BoundaryOrder'
  <2>1. ASSUME cycle # Null, cycle.started # Null
        PROVE  cycle.started <= clock'
    BY <2>1 DEF BoundaryOrder, TypeOK, Row
  <2> QED
    BY <2>1 DEF BoundaryOrder
<1>5. StartKept
  BY DEF StartKept, TypeOK, Row
<1> QED
  BY <1>1, <1>2, <1>3, <1>4, <1>5

\* Steps that leave the row and the clock alone.
LEMMA RowUntouched ==
    ASSUME IInv, cycle' = cycle, clock' = clock
    PROVE  KnownBoundaries' /\ BoundaryOrder' /\ StartKept
BY DEF IInv, KnownBoundaries, BoundaryOrder, StartKept, TypeOK, Row

LEMMA RequestStep ==
    ASSUME IInv, NEW r \in Requests,
           Admit(r) \/ Answer(r) \/ Intercept(r) \/ Callback(r) \/ Abort(r)
    PROVE  IInv' /\ StartKept
<1>1. cycle' = cycle /\ clock' = clock /\ upstreamReset' = upstreamReset
        /\ lookup' = lookup /\ ended' = ended /\ charge' = charge
  BY DEF Admit, Answer, Intercept, Callback, Abort
<1>2. call \in [Requests -> CallState] /\ clock \in Nat /\ upstreamReset \in ResetTimes
  BY DEF IInv, TypeOK
<1>3. call' \in [Requests -> CallState]
  <2>1. CASE Admit(r)
    BY <1>2, <2>1 DEF Admit, CallState
  <2>2. CASE Answer(r)
    BY <1>2, <2>2 DEF Answer, CallState
  <2>3. CASE Intercept(r)
    <3>1. call' = [call EXCEPT ![r] = [call[r] EXCEPT !.pc = "observe", !.now = clock,
                                                      !.stamp = clock]]
      BY <1>2, <2>3 DEF Intercept
    <3>2. [call[r] EXCEPT !.pc = "observe", !.now = clock, !.stamp = clock] \in CallState
      BY <1>2 DEF CallState
    <3> QED
      BY <1>2, <3>1, <3>2
  <2>4. CASE Callback(r)
    BY <1>2, <2>4 DEF Callback, CallState
  <2>5. CASE Abort(r)
    BY <1>2, <2>5 DEF Abort, CallState
  <2> QED
    BY <2>1, <2>2, <2>3, <2>4, <2>5
<1>4. \A q \in Requests :
        /\ q # r => call'[q] = call[q]
        /\ call'[r].pc \in {"observe", "resolve"} => call'[r].now = clock
        /\ call'[r].now \in {call[r].now, clock}
        /\ call'[r].stamp \in {call[r].stamp, clock}
  <2>1. CASE Admit(r)
    BY <1>2, <2>1 DEF Admit, CallState
  <2>2. CASE Answer(r)
    BY <1>2, <2>2 DEF Answer, CallState
  <2>3. CASE Intercept(r)
    BY <1>2, <2>3 DEF Intercept, CallState
  <2>4. CASE Callback(r)
    BY <1>2, <2>4 DEF Callback, CallState
  <2>5. CASE Abort(r)
    BY <1>2, <2>5 DEF Abort, CallState
  <2> QED
    BY <2>1, <2>2, <2>3, <2>4, <2>5
<1>5. TypeOK'
  BY <1>1, <1>3 DEF IInv, TypeOK
<1>6. FreshReadings'
  <2>1. MaxLag \in Nat
    BY QuotaCycleAssumption
  <2> QED
    BY <1>1, <1>2, <1>4, <2>1 DEF IInv, FreshReadings
<1> QED
  BY <1>1, <1>5, <1>6, RowUntouched DEF IInv

LEMMA ObserveStep ==
    ASSUME IInv, NEW r \in Requests, Observe(r)
    PROVE  IInv' /\ StartKept
<1>1. /\ call[r] \in CallState /\ call \in [Requests -> CallState]
      /\ cycle \in Row \cup {Null} /\ clock \in Nat /\ ended \subseteq Ends
  BY DEF IInv, TypeOK, Ends
<1>2. /\ CycleInv'
      /\ \/ cycle' = cycle
         \/ cycle = Null
         \/ /\ cycle # Null /\ cycle' # Null
            /\ cycle'.started = cycle.started /\ cycle'.prev = cycle.prev
         \/ /\ cycle # Null /\ cycle' # Null
            /\ cycle'.started \in Nat
            /\ cycle.started # Null => cycle'.started >= cycle.started
  <2>1. /\ call[r].header \in ResetTimes \cup {Null}
        /\ call[r].now \in Nat /\ call[r].now <= clock
        /\ clock - call[r].now <= MaxLag
    BY <1>1 DEF IInv, FreshReadings, CallState, Observe
  <2>2. clock' = clock /\ ObserveUpstreamWeeklyReset(call[r].header, call[r].now)
    BY DEF Observe
  <2> QED
    BY <1>1, <2>1, <2>2, IInvImpliesCycleInv, ObserveKeepsOrder
<1>3. ended' \subseteq Ends
  BY <1>1, <1>2, EndsTyped DEF Observe
<1>4. TypeOK'
  BY <1>1, <1>2, <1>3 DEF IInv, TypeOK, Observe, CallState, CycleInv, Ends
<1>5. FreshReadings'
  BY <1>1 DEF IInv, FreshReadings, Observe
<1>6. StartKept
  BY <1>1, <1>2, NullIsApart DEF StartKept, Row
<1> QED
  BY <1>2, <1>4, <1>5, <1>6 DEF IInv, CycleInv

LEMMA RecordStep ==
    ASSUME IInv, NEW r \in Requests, Record(r)
    PROVE  IInv' /\ StartKept
<1>1. /\ call[r] \in CallState /\ call \in [Requests -> CallState]
      /\ cycle \in Row \cup {Null} /\ clock \in Nat /\ ended \subseteq Ends
      /\ call[r].stamp \in Nat /\ call[r].stamp <= clock
  BY DEF IInv, TypeOK, Ends, FreshReadings, CallState
<1>2. /\ CycleInv'
      /\ \/ cycle' = cycle
         \/ /\ cycle # Null /\ cycle' # Null
            /\ cycle'.started \in Nat
            /\ cycle.started # Null => cycle'.started >= cycle.started
  BY <1>1, IInvImpliesCycleInv, ReadKeepsOrder DEF Record
<1>3. ended' \subseteq Ends
  BY <1>1, <1>2, EndsTyped DEF Record
<1>4. CurrentPeriod(call[r].stamp) \in Period
  <2>1. cycle' = AfterRead(call[r].stamp)
    BY DEF Record, AdvanceIfDue
  <2>2. AfterRead(call[r].stamp) \in Row \cup {Null}
    BY <1>2, <2>1 DEF CycleInv
  <2> QED
    BY <1>1, <2>2, PeriodNames, NullIsApart DEF CurrentPeriod, Predates, Row
<1>5. TypeOK'
  BY <1>1, <1>2, <1>3, <1>4 DEF IInv, TypeOK, Record, CallState, CycleInv, Ends
<1>6. FreshReadings'
  BY <1>1 DEF IInv, FreshReadings, Record
<1>7. StartKept
  BY <1>1, <1>2, NullIsApart DEF StartKept, Row
<1> QED
  BY <1>2, <1>5, <1>6, <1>7 DEF IInv, CycleInv

LEMMA LookupStep ==
    ASSUME IInv, NEW l \in Lookups,
           BeginLookup(l) \/ FinishLookup(l) \/ FailLookup(l)
    PROVE  IInv' /\ StartKept
<1>1. /\ lookup[l] \in LookupState /\ lookup \in [Lookups -> LookupState]
      /\ cycle \in Row \cup {Null} /\ clock \in Nat /\ ended \subseteq Ends
      /\ lookup[l].now \in Nat /\ lookup[l].now <= clock
  BY DEF IInv, TypeOK, Ends, FreshReadings, LookupState
<1>2. CASE FinishLookup(l)
  <2>1. /\ CycleInv'
        /\ \/ cycle' = cycle
           \/ /\ cycle # Null /\ cycle' # Null
              /\ cycle'.started \in Nat
              /\ cycle.started # Null => cycle'.started >= cycle.started
    BY <1>1, <1>2, IInvImpliesCycleInv, ReadKeepsOrder DEF FinishLookup
  <2>2. ended' \subseteq Ends
    BY <1>1, <1>2, <2>1, EndsTyped DEF FinishLookup
  <2>3. TypeOK'
    BY <1>1, <1>2, <2>1, <2>2 DEF IInv, TypeOK, FinishLookup, LookupState, CycleInv, Ends
  <2>4. FreshReadings'
    BY <1>1, <1>2 DEF IInv, FreshReadings, FinishLookup
  <2>5. StartKept
    BY <1>1, <2>1, NullIsApart DEF StartKept, Row
  <2> QED
    BY <2>1, <2>3, <2>4, <2>5 DEF IInv, CycleInv
<1>3. CASE BeginLookup(l) \/ FailLookup(l)
  <2>1. cycle' = cycle /\ clock' = clock
    BY <1>3 DEF BeginLookup, FailLookup
  <2>2. TypeOK'
    BY <1>1, <1>3 DEF IInv, TypeOK, BeginLookup, FailLookup, LookupState
  <2>3. FreshReadings'
    <3>1. \A k \in Lookups : lookup'[k].now \in {lookup[k].now, clock}
      BY <1>1, <1>3 DEF BeginLookup, FailLookup, LookupState
    <3>2. call' = call
      BY <1>3 DEF BeginLookup, FailLookup
    <3> QED
      BY <1>1, <2>1, <3>1, <3>2 DEF IInv, FreshReadings
  <2> QED
    BY <2>1, <2>2, <2>3, RowUntouched DEF IInv
<1> QED
  BY <1>2, <1>3

LEMMA NextStep == IInv /\ [Next]_vars => IInv' /\ (StartKept \/ UNCHANGED vars)
<1> SUFFICES ASSUME IInv, [Next]_vars
             PROVE  IInv' /\ (StartKept \/ UNCHANGED vars)
  OBVIOUS
<1>1. CASE Tick
  BY <1>1, TickStep
<1>2. CASE UpstreamMoves
  <2>1. cycle' = cycle /\ clock' = clock
    BY <1>2 DEF UpstreamMoves
  <2>2. TypeOK' /\ FreshReadings'
    BY <1>2 DEF IInv, TypeOK, FreshReadings, UpstreamMoves
  <2> QED
    BY <2>1, <2>2, RowUntouched DEF IInv
<1>3. ASSUME NEW r \in Requests,
             Admit(r) \/ Answer(r) \/ Intercept(r) \/ Callback(r)
               \/ Observe(r) \/ Record(r) \/ Abort(r)
      PROVE  IInv' /\ StartKept
  BY <1>3, RequestStep, ObserveStep, RecordStep
<1>4. ASSUME NEW l \in Lookups,
             BeginLookup(l) \/ FinishLookup(l) \/ FailLookup(l)
      PROVE  IInv' /\ StartKept
  BY <1>4, LookupStep
<1>5. CASE UNCHANGED vars
  <2>1. IInv'
    BY <1>5 DEF vars, IInv, TypeOK, FreshReadings, KnownBoundaries, BoundaryOrder,
                PendingNows
  <2> QED
    BY <1>5, <2>1
<1> QED
  BY <1>1, <1>2, <1>3, <1>4, <1>5 DEF Next

\* The variables of QuotaCycle keep their types, whatever the constants.
THEOREM TypeCorrect == Spec => []TypeOK
<1>1. IInv => TypeOK
  BY DEF IInv
<1> QED
  BY <1>1, InitEstablishes, NextStep, PTL DEF Spec

\* The columns of the cycle row stay consistent with one another and with the
\* clock, for handlers of any bounded lag (store.go:315-393).
THEOREM RowInOrder == Spec => []BoundaryOrder
<1>1. IInv => BoundaryOrder
  BY DEF IInv
<1> QED
  BY <1>1, InitEstablishes, NextStep, PTL DEF Spec

\* No order of handlers, clock readings and headers moves the start of the
\* current period back.
THEOREM StartNeverMovesBack == Spec => StartedMonotone
<1>1. IInv /\ [Next]_vars =>
        [cycle # Null /\ cycle.started # Null
           => cycle' # Null /\ cycle'.started # Null
                /\ cycle'.started >= cycle.started]_vars
  BY NextStep DEF StartKept
<1> QED
  BY <1>1, InitEstablishes, NextStep, PTL DEF Spec, StartedMonotone

-----------------------------------------------------------------------------
(* The attribution properties, for handlers that use their clock reading    *)
(* before the clock moves (MaxLag = 0).  The run cycle_reapplied shows that *)
(* they need this: a handler that is late may store a boundary again that   *)
(* has already been applied.                                                *)

\* The periods a prompt system goes through: a calendar period first, then one
\* boundary after another, each strictly later than the one before.
StrictCycle ==
    cycle # Null =>
        /\ Weekly
        /\ cycle.started = Null => cycle.period.kind = "calendar"
        /\ cycle.next # Null /\ cycle.started # Null => cycle.next > cycle.started
        /\ cycle.prev # Null => cycle.prev # cycle.period

\* Closed periods are older than the current one, and the previous one ended
\* where the current one starts.
ClosedPeriods ==
    /\ cycle = Null \/ cycle.started = Null => ended = {}
    /\ cycle # Null /\ cycle.started # Null =>
         \A e \in ended :
            /\ e.period.kind = "calendar" \/ e.period.n < cycle.started
            /\ e.period = cycle.prev => e.end = cycle.started

\* Usage of period p stamped s lies before the end of p, known or to come.
WithinPeriod(p, s, row, closed) ==
    /\ row # Null /\ row.next # Null /\ p = row.period => s < row.next
    /\ \A e \in closed : p = e.period => s < e.end

ChargedOnceDone ==
    \A r \in Requests :
        charge[r] # Null =>
            call[r].pc = "done" /\ WithinPeriod(charge[r], call[r].stamp, cycle, ended)

PInv == IInv /\ StrictCycle /\ ClosedPeriods /\ ChargedOnceDone

-----------------------------------------------------------------------------
(* The ways the row and the history change in one step.                    *)

Create == \E b \in Nat :
    /\ Weekly /\ b > clock
    /\ cycle = Null
    /\ \E n \in Int : cycle' = [period |-> [kind |-> "calendar", n |-> n],
                                next |-> b, prev |-> Null, started |-> Null]
    /\ ended' = ended

Store == \E b \in Nat :
    /\ b > clock
    /\ cycle # Null
    /\ cycle' = [cycle EXCEPT !.next = b]
    /\ cycle.next # Null => b > cycle.next
    /\ ended' = ended

Roll ==
    /\ cycle # Null /\ cycle.next # Null /\ cycle.next <= clock
    /\ \/ cycle' = Rolled
       \/ \E b \in Nat : b > clock /\ cycle' = [Rolled EXCEPT !.next = b]
    /\ ended' = ended \cup {[period |-> cycle.period, end |-> cycle.next]}

Move == Create \/ Store \/ Roll \/ (cycle' = cycle /\ ended' = ended)

\* In a prompt system the start of the period changes with every roll.
LEMMA RollRemembered ==
    ASSUME IInv, StrictCycle, cycle # Null, cycle.next # Null,
           cycle'.prev = cycle.period, cycle'.started = cycle.next,
           RememberEnd
    PROVE  ended' = ended \cup {[period |-> cycle.period, end |-> cycle.next]}
<1>1. cycle \in Row
  BY DEF IInv, TypeOK
<1>2. cycle.next \in Nat
  BY <1>1 DEF Row
<1>3. cycle'.started # cycle.started
  <2>1. CASE cycle.started = Null
    BY <1>2, <2>1, NullIsApart
  <2>2. CASE cycle.started # Null
    BY <1>1, <1>2, <2>2 DEF StrictCycle, Row
  <2> QED
    BY <2>1, <2>2
<1> QED
  BY <1>3 DEF RememberEnd

LEMMA ReadMoves ==
    ASSUME IInv, StrictCycle, NEW t \in Nat, t <= clock,
           AdvanceIfDue(t), RememberEnd
    PROVE  Move
<1>1. CASE Due(t)
  <2>1. cycle # Null /\ cycle.next # Null /\ t >= cycle.next /\ cycle' = Rolled
    BY <1>1 DEF Due, AdvanceIfDue, AfterRead
  <2>2. cycle.next \in Nat /\ clock \in Nat
    BY <2>1 DEF IInv, TypeOK, Row
  <2>3. cycle'.prev = cycle.period /\ cycle'.started = cycle.next
    BY <2>1 DEF Rolled
  <2> QED
    BY <2>1, <2>2, <2>3, RollRemembered DEF Move, Roll
<1>2. CASE ~Due(t)
  BY <1>2 DEF AdvanceIfDue, AfterRead, Move, RememberEnd
<1> QED
  BY <1>1, <1>2

LEMMA ObserveMoves ==
    ASSUME IInv, StrictCycle, NEW b \in ResetTimes \cup {Null}, NEW n \in Nat,
           n = clock, ObserveUpstreamWeeklyReset(b, n), RememberEnd
    PROVE  Move
<1>1. CASE cycle' = cycle
  BY <1>1 DEF Move, RememberEnd
<1>2. CASE cycle' # cycle
  <2>1. Weekly /\ b \in Nat /\ b > clock
    BY <1>2, QuotaCycleAssumption DEF ObserveUpstreamWeeklyReset, Accepts, IsFuture
  <2>2. cycle \in Row \cup {Null} /\ clock \in Nat
    BY DEF IInv, TypeOK
  <2>3. CASE FirstBoundary(b, n)
    <3>1. (n + ZoneOffset) \div CalendarLen \in Int
      BY WeeklyCycleAssumption
    <3>2. ended' = ended
      BY <2>3 DEF FirstBoundary, RememberEnd
    <3> QED
      BY <2>1, <2>3, <3>1, <3>2 DEF FirstBoundary, ConfigPeriod, Move, Create
  <2>4. CASE StoreBoundary(b) \/ ExtendBoundary(b, n)
    <3>1. /\ cycle \in Row /\ cycle # Null /\ cycle' = [cycle EXCEPT !.next = b]
          /\ cycle.next # Null => b > cycle.next
      BY <2>2, <2>4 DEF StoreBoundary, ExtendBoundary, LaterBoundary
    <3>2. cycle'.prev = cycle.prev /\ cycle'.started = cycle.started
      BY <3>1 DEF Row
    <3>3. ended' = ended
      BY <3>2 DEF RememberEnd
    <3> QED
      BY <2>1, <3>1, <3>3 DEF Move, Store
  <2>5. CASE ApplyAndStoreBoundary(b, n)
    <3>1. /\ cycle # Null /\ cycle.next # Null /\ cycle.next <= clock
          /\ cycle' = [Rolled EXCEPT !.next = b]
      BY <2>2, <2>5 DEF ApplyAndStoreBoundary, LaterBoundary, Row
    <3>2. cycle'.prev = cycle.period /\ cycle'.started = cycle.next
      BY <3>1 DEF Rolled
    <3>3. ended' = ended \cup {[period |-> cycle.period, end |-> cycle.next]}
      BY <3>1, <3>2, RollRemembered
    <3> QED
      BY <2>1, <3>1, <3>3 DEF Move, Roll
  <2> QED
    BY <1>2, <2>3, <2>4, <2>5 DEF ObserveUpstreamWeeklyReset, KeepBoundary
<1> QED
  BY <1>1, <1>2

-----------------------------------------------------------------------------
(* What a move preserves.                                                  *)

LEMMA MoveKeepsCycle ==
    ASSUME IInv, StrictCycle, ClosedPeriods, Move
    PROVE  StrictCycle' /\ ClosedPeriods'
<1>1. cycle \in Row \cup {Null} /\ clock \in Nat /\ Null \notin Nat /\ Null \notin Row
        /\ Null \notin Period
  BY NullIsApart DEF IInv, TypeOK
<1>2. CASE Create
  <2>1. PICK b \in Nat, n \in Int :
           /\ Weekly /\ cycle = Null /\ ended' = ended
           /\ cycle' = [period |-> [kind |-> "calendar", n |-> n],
                        next |-> b, prev |-> Null, started |-> Null]
    BY <1>2 DEF Create
  <2>2. ended = {}
    BY <2>1 DEF ClosedPeriods
  <2> QED
    BY <2>1, <2>2 DEF StrictCycle, ClosedPeriods
<1>3. CASE Store
  <2>1. PICK b \in Nat :
           /\ b > clock /\ cycle # Null /\ cycle' = [cycle EXCEPT !.next = b]
           /\ cycle.next # Null => b > cycle.next
           /\ ended' = ended
    BY <1>3 DEF Store
  <2>2. /\ cycle \in Row /\ cycle'.next = b /\ cycle'.started = cycle.started
        /\ cycle'.prev = cycle.prev /\ cycle'.period = cycle.period
    BY <1>1, <2>1 DEF Row
  <2>3. cycle.started # Null => cycle.started \in Nat /\ cycle.started <= clock
    BY <2>1, <2>2 DEF IInv, BoundaryOrder, Row
  <2>4. StrictCycle'
    BY <1>1, <2>1, <2>2, <2>3 DEF StrictCycle
  <2>5. ClosedPeriods'
    <3>1. cycle' # Null
      BY <1>1, <2>1, <2>2 DEF Row
    <3> QED
      BY <2>1, <2>2, <3>1 DEF ClosedPeriods
  <2> QED
    BY <2>4, <2>5
<1>4. CASE Roll
  <2>1. /\ cycle \in Row /\ cycle # Null /\ cycle.next # Null /\ cycle.next \in Nat
        /\ cycle.next <= clock /\ cycle.period \in Period
        /\ ended' = ended \cup {[period |-> cycle.period, end |-> cycle.next]}
    BY <1>1, <1>4 DEF Roll, Row
  <2>2. /\ cycle'.period = [kind |-> "codex", n |-> cycle.next]
        /\ cycle'.prev = cycle.period
        /\ cycle'.started = cycle.next
        /\ cycle'.next # Null => cycle'.next \in Nat /\ cycle'.next > clock
    BY <1>1, <1>4 DEF Roll, Rolled, upstreamWeeklyPeriod
  <2>3. \/ cycle.started = Null /\ cycle.period.kind = "calendar"
        \/ /\ cycle.started \in Nat /\ cycle.started # Null
           /\ cycle.next > cycle.started
           /\ cycle.period = [kind |-> "codex", n |-> cycle.started]
    BY <1>1, <2>1 DEF StrictCycle, IInv, BoundaryOrder, Row, upstreamWeeklyPeriod
  <2>4. cycle.period # cycle'.period
    BY <2>1, <2>2, <2>3
  <2>5. StrictCycle'
    BY <1>1, <2>1, <2>2, <2>4 DEF StrictCycle
  <2>6. \A e \in ended : e.period.kind = "calendar" \/ e.period.n < cycle.next
    <3>1. CASE cycle.started = Null
      BY <3>1, <2>1 DEF ClosedPeriods
    <3>2. CASE cycle.started # Null
      <4>1. ended \subseteq [period : Period, end : Nat]
        BY DEF IInv, TypeOK
      <4> SUFFICES ASSUME NEW e \in ended, e.period.kind # "calendar"
                   PROVE  e.period.n < cycle.next
        OBVIOUS
      <4>2. e.period.n < cycle.started /\ e.period.n \in Int
        BY <2>1, <3>2, <4>1 DEF ClosedPeriods, Period
      <4> QED
        BY <2>1, <2>3, <3>2, <4>2
    <3> QED
      BY <3>1, <3>2
  <2>7. \A e \in ended : e.period # cycle.period
    <3>1. CASE cycle.started = Null
      BY <3>1, <2>1 DEF ClosedPeriods
    <3>2. CASE cycle.started # Null
      <4> SUFFICES ASSUME NEW e \in ended, e.period = cycle.period
                   PROVE  FALSE
        OBVIOUS
      <4>1. e.period.kind = "calendar" \/ e.period.n < cycle.started
        BY <2>1, <3>2 DEF ClosedPeriods
      <4> QED
        BY <2>3, <3>2, <4>1
    <3> QED
      BY <3>1, <3>2
  <2>8. cycle' # Null /\ cycle'.started # Null
    BY <1>1, <1>4, <2>1, <2>2, PeriodNames DEF Roll, Rolled, Row
  <2>9. \A e \in ended' :
           /\ e.period.kind = "calendar" \/ e.period.n < cycle'.started
           /\ e.period = cycle'.prev => e.end = cycle'.started
    <3> SUFFICES ASSUME NEW e \in ended'
                 PROVE  /\ e.period.kind = "calendar" \/ e.period.n < cycle'.started
                        /\ e.period = cycle'.prev => e.end = cycle'.started
      OBVIOUS
    <3>1. CASE e \in ended
      BY <2>2, <2>6, <2>7, <3>1
    <3>2. CASE e = [period |-> cycle.period, end |-> cycle.next]
      BY <2>1, <2>2, <2>3, <3>2
    <3> QED
      BY <2>1, <3>1, <3>2
  <2>10. ClosedPeriods'
    BY <2>8, <2>9 DEF ClosedPeriods
  <2> QED
    BY <2>5, <2>10
<1>5. CASE cycle' = cycle /\ ended' = ended
  BY <1>5 DEF StrictCycle, ClosedPeriods
<1> QED
  BY <1>2, <1>3, <1>4, <1>5 DEF Move

\* Usage that was recorded within its period stays within it.
LEMMA MoveKeepsCharges ==
    ASSUME IInv, Move, NEW p \in Period, NEW s \in Nat, s <= clock,
           WithinPeriod(p, s, cycle, ended)
    PROVE  (cycle' = cycle /\ ended' = ended) \/ WithinPeriod(p, s, cycle', ended')
<1>1. cycle \in Row \cup {Null} /\ clock \in Nat
        /\ ended \subseteq [period : Period, end : Nat]
  BY DEF IInv, TypeOK
<1>2. CASE Create
  BY <1>1, <1>2 DEF Create, WithinPeriod
<1>3. CASE Store
  <2>1. PICK b \in Nat :
           /\ b > clock /\ cycle # Null /\ cycle' = [cycle EXCEPT !.next = b]
           /\ ended' = ended
    BY <1>3 DEF Store
  <2>2. cycle'.next = b
    BY <1>1, <2>1 DEF Row
  <2> QED
    BY <1>1, <2>1, <2>2 DEF WithinPeriod
<1>4. CASE Roll
  <2>1. /\ cycle # Null /\ cycle.next # Null
        /\ ended' = ended \cup {[period |-> cycle.period, end |-> cycle.next]}
        /\ cycle'.next = Null \/ (cycle'.next \in Nat /\ cycle'.next > clock)
    BY <1>4 DEF Roll, Rolled
  <2>2. \A e \in ended' : p = e.period => s < e.end
    <3> SUFFICES ASSUME NEW e \in ended', p = e.period
                 PROVE  s < e.end
      OBVIOUS
    <3>1. CASE e \in ended
      BY <3>1 DEF WithinPeriod
    <3>2. CASE e = [period |-> cycle.period, end |-> cycle.next]
      BY <2>1, <3>2 DEF WithinPeriod
    <3> QED
      BY <2>1, <3>1, <3>2
  <2>3. cycle'.next # Null => s < cycle'.next
    BY <1>1, <2>1
  <2> QED
    BY <2>2, <2>3 DEF WithinPeriod
<1> QED
  BY <1>2, <1>3, <1>4 DEF Move

-----------------------------------------------------------------------------
(* The invariant of the prompt system.                                     *)

LEMMA PInitEstablishes == Init => PInv
<1> SUFFICES ASSUME Init PROVE PInv
  OBVIOUS
<1>1. StrictCycle /\ ClosedPeriods /\ ChargedOnceDone
  BY DEF Init, StrictCycle, ClosedPeriods, ChargedOnceDone
<1> QED
  BY <1>1, InitEstablishes DEF PInv

\* Steps that leave the row and the history alone and record nothing.
LEMMA QuietStep ==
    ASSUME PInv, IInv', cycle' = cycle, ended' = ended, charge' = charge,
           \A r \in Requests : call[r].pc = "done" => call'[r] = call[r]
    PROVE  PInv'
<1>1. StrictCycle' /\ ClosedPeriods'
  BY DEF PInv, StrictCycle, ClosedPeriods
<1>2. ChargedOnceDone'
  BY DEF PInv, ChargedOnceDone
<1> QED
  BY <1>1, <1>2 DEF PInv

\* Steps that move the row and record nothing.
LEMMA MovingStep ==
    ASSUME PInv, IInv', Move, charge' = charge,
           \A r \in Requests : call[r].pc = "done" => call'[r] = call[r]
    PROVE  PInv'
<1>1. StrictCycle' /\ ClosedPeriods'
  BY MoveKeepsCycle DEF PInv
<1>2. ChargedOnceDone'
  <2> SUFFICES ASSUME NEW r \in Requests, charge[r] # Null
               PROVE  /\ call'[r].pc = "done"
                      /\ WithinPeriod(charge[r], call'[r].stamp, cycle', ended')
    BY DEF ChargedOnceDone
  <2>1. call[r].pc = "done" /\ call'[r] = call[r]
          /\ WithinPeriod(charge[r], call[r].stamp, cycle, ended)
    BY DEF PInv, ChargedOnceDone
  <2>2. charge[r] \in Period /\ call[r].stamp \in Nat /\ call[r].stamp <= clock
    BY DEF PInv, IInv, TypeOK, CallState, FreshReadings
  <2>3. WithinPeriod(charge[r], call[r].stamp, cycle', ended')
    BY <2>1, <2>2, MoveKeepsCharges DEF PInv
  <2> QED
    BY <2>1, <2>3
<1> QED
  BY <1>1, <1>2 DEF PInv

\* The period CurrentPeriod answers with is one the timestamp lies in, and
\* not the current one when the timestamp is older than its start.
LEMMA ResolvedPeriod ==
    ASSUME PInv, clock' = clock, IInv', StrictCycle', ClosedPeriods',
           NEW t \in Nat, t <= clock, AdvanceIfDue(t)
    PROVE  /\ WithinPeriod(CurrentPeriod(t), t, cycle', ended')
           /\ cycle' # Null /\ cycle'.started # Null /\ t < cycle'.started
                => CurrentPeriod(t) # cycle'.period
<1>1. cycle' = AfterRead(t) /\ cycle' \in Row \cup {Null} /\ Null \notin Nat
  BY NullIsApart DEF AdvanceIfDue, IInv, TypeOK
<1>2. CASE cycle' = Null
  BY <1>2 DEF ClosedPeriods, WithinPeriod
<1>3. CASE cycle' # Null
  <2>1. Weekly /\ cycle' \in Row
    BY <1>1, <1>3 DEF StrictCycle
  <2>2. CurrentPeriod(t) = IF Predates(cycle', t) THEN cycle'.prev ELSE cycle'.period
    BY <1>1, <1>3, <2>1 DEF CurrentPeriod
  <2>3. cycle'.next # Null => t < cycle'.next
    <3>1. CASE Due(t)
      BY <1>1, <3>1 DEF AfterRead, Rolled
    <3>2. CASE ~Due(t)
      <4>1. cycle' = cycle
        BY <1>1, <3>2 DEF AfterRead
      <4> QED
        BY <1>3, <2>1, <3>2, <4>1 DEF Due, Row
    <3> QED
      BY <3>1, <3>2
  <2>4. CASE Predates(cycle', t)
    <3>1. /\ cycle'.prev # Null /\ cycle'.started # Null /\ t < cycle'.started
          /\ CurrentPeriod(t) = cycle'.prev /\ cycle'.prev # cycle'.period
      BY <1>3, <2>2, <2>4 DEF Predates, StrictCycle
    <3>2. \A e \in ended' : e.period = cycle'.prev => t < e.end
      BY <1>3, <3>1 DEF ClosedPeriods
    <3> QED
      BY <3>1, <3>2 DEF WithinPeriod
  <2>5. CASE ~Predates(cycle', t)
    <3>1. CurrentPeriod(t) = cycle'.period
      BY <2>2, <2>5
    <3>2. cycle'.started # Null => ~(t < cycle'.started)
      BY <1>3, <2>5 DEF Predates, IInv, BoundaryOrder
    <3>3. \A e \in ended' : e.period # cycle'.period
      <4>1. CASE cycle'.started = Null
        BY <4>1 DEF ClosedPeriods
      <4>2. CASE cycle'.started # Null
        <5>1. cycle'.period = [kind |-> "codex", n |-> cycle'.started]
                /\ cycle'.started \in Nat
          BY <1>3, <2>1, <4>2 DEF IInv, BoundaryOrder, upstreamWeeklyPeriod, Row
        <5> SUFFICES ASSUME NEW e \in ended', e.period = cycle'.period
                     PROVE  FALSE
          OBVIOUS
        <5>2. e.period.kind = "calendar" \/ e.period.n < cycle'.started
          BY <1>3, <4>2 DEF ClosedPeriods
        <5> QED
          BY <5>1, <5>2
      <4> QED
        BY <4>1, <4>2
    <3> QED
      BY <2>3, <3>1, <3>2, <3>3 DEF WithinPeriod
  <2> QED
    BY <2>4, <2>5
<1> QED
  BY <1>2, <1>3

Attributed ==
    \A r \in Requests :
        charge'[r] # charge[r] /\ cycle' # Null /\ cycle'.started # Null
              /\ call[r].stamp < cycle'.started
           => charge'[r] # cycle'.period

LEMMA PRecordStep ==
    ASSUME PInv, NEW r \in Requests, Record(r)
    PROVE  PInv' /\ Attributed
<1>1. /\ call \in [Requests -> CallState] /\ charge \in [Requests -> Period \cup {Null}]
      /\ call[r].stamp \in Nat /\ call[r].stamp <= clock
  BY DEF PInv, IInv, TypeOK, FreshReadings, CallState
<1>2. /\ clock' = clock /\ AdvanceIfDue(call[r].stamp) /\ RememberEnd
      /\ call' = [call EXCEPT ![r].pc = "done"]
      /\ charge' = [charge EXCEPT ![r] = CurrentPeriod(call[r].stamp)]
  BY DEF Record
<1>3. IInv' /\ Move
  BY <1>1, <1>2, RecordStep, ReadMoves DEF PInv
<1>4. StrictCycle' /\ ClosedPeriods'
  BY <1>3, MoveKeepsCycle DEF PInv
<1>5. /\ WithinPeriod(CurrentPeriod(call[r].stamp), call[r].stamp, cycle', ended')
      /\ cycle' # Null /\ cycle'.started # Null /\ call[r].stamp < cycle'.started
           => CurrentPeriod(call[r].stamp) # cycle'.period
  BY <1>1, <1>2, <1>3, <1>4, ResolvedPeriod
<1>6. ChargedOnceDone'
  <2> SUFFICES ASSUME NEW q \in Requests, charge'[q] # Null
               PROVE  /\ call'[q].pc = "done"
                      /\ WithinPeriod(charge'[q], call'[q].stamp, cycle', ended')
    BY DEF ChargedOnceDone
  <2>1. CASE q = r
    <3>1. call'[q].pc = "done" /\ call'[q].stamp = call[r].stamp
            /\ charge'[q] = CurrentPeriod(call[r].stamp)
      BY <1>1, <1>2, <2>1 DEF CallState
    <3> QED
      BY <1>5, <3>1
  <2>2. CASE q # r
    <3>1. call'[q] = call[q] /\ charge'[q] = charge[q] /\ charge[q] # Null
      BY <1>1, <1>2, <2>2
    <3>2. call[q].pc = "done" /\ WithinPeriod(charge[q], call[q].stamp, cycle, ended)
      BY <3>1 DEF PInv, ChargedOnceDone
    <3>3. charge[q] \in Period /\ call[q].stamp \in Nat /\ call[q].stamp <= clock
      BY <3>1 DEF PInv, IInv, TypeOK, CallState, FreshReadings
    <3>4. WithinPeriod(charge[q], call[q].stamp, cycle', ended')
      BY <1>3, <3>2, <3>3, MoveKeepsCharges DEF PInv
    <3> QED
      BY <3>1, <3>2, <3>4
  <2> QED
    BY <2>1, <2>2
<1>7. Attributed
  <2> SUFFICES ASSUME NEW q \in Requests, charge'[q] # charge[q],
                      cycle' # Null, cycle'.started # Null,
                      call[q].stamp < cycle'.started
               PROVE  charge'[q] # cycle'.period
    BY DEF Attributed
  <2>1. q = r
    BY <1>1, <1>2
  <2>2. charge'[q] = CurrentPeriod(call[r].stamp)
    BY <1>1, <1>2, <2>1
  <2> QED
    BY <1>5, <2>1, <2>2
<1> QED
  BY <1>3, <1>4, <1>6, <1>7 DEF PInv

LEMMA PNextStep ==
    ASSUME MaxLag = 0, PInv, [Next]_vars
    PROVE  PInv' /\ (Attributed \/ UNCHANGED vars)
<1>1. IInv'
  BY NextStep DEF PInv
<1>2. call \in [Requests -> CallState] /\ charge \in [Requests -> Period \cup {Null}]
        /\ clock \in Nat
  BY DEF PInv, IInv, TypeOK
<1>3. CASE Tick \/ UpstreamMoves \/ UNCHANGED vars
  <2>1. /\ cycle' = cycle /\ ended' = ended /\ charge' = charge /\ call' = call
    BY <1>3 DEF Tick, UpstreamMoves, vars
  <2> QED
    BY <1>1, <2>1, QuietStep DEF Attributed
<1>4. ASSUME NEW r \in Requests,
             Admit(r) \/ Answer(r) \/ Intercept(r) \/ Callback(r) \/ Abort(r)
      PROVE  PInv' /\ Attributed
  <2>1. /\ cycle' = cycle /\ ended' = ended /\ charge' = charge
        /\ \A q \in Requests : call[q].pc = "done" => call'[q] = call[q]
    BY <1>2, <1>4 DEF Admit, Answer, Intercept, Callback, Abort
  <2> QED
    BY <1>1, <2>1, QuietStep DEF Attributed
<1>5. ASSUME NEW r \in Requests, Observe(r)
      PROVE  PInv' /\ Attributed
  <2>1. /\ call[r].header \in ResetTimes \cup {Null}
        /\ call[r].now \in Nat /\ call[r].now = clock
    <3>1. call[r] \in CallState /\ call[r].pc = "observe"
      BY <1>2, <1>5 DEF Observe
    <3>2. call[r].now \in Nat /\ call[r].header \in ResetTimes \cup {Null}
      BY <3>1 DEF CallState
    <3>3. call[r].now <= clock /\ clock - call[r].now <= MaxLag
      BY <3>1 DEF PInv, IInv, FreshReadings
    <3> QED
      BY <1>2, <3>2, <3>3
  <2>2. Move
    BY <1>5, <2>1, ObserveMoves DEF PInv, Observe
  <2>3. /\ charge' = charge
        /\ \A q \in Requests : call[q].pc = "done" => call'[q] = call[q]
    BY <1>2, <1>5 DEF Observe
  <2> QED
    BY <1>1, <2>2, <2>3, MovingStep DEF Attributed
<1>6. ASSUME NEW r \in Requests, Record(r)
      PROVE  PInv' /\ Attributed
  BY <1>6, PRecordStep
<1>7. ASSUME NEW l \in Lookups,
             BeginLookup(l) \/ FinishLookup(l) \/ FailLookup(l)
      PROVE  PInv' /\ Attributed
  <2>1. charge' = charge /\ call' = call
    BY <1>7 DEF BeginLookup, FinishLookup, FailLookup
  <2>2. CASE FinishLookup(l)
    <3>1. lookup[l].now \in Nat /\ lookup[l].now <= clock
      BY DEF PInv, IInv, TypeOK, FreshReadings, LookupState
    <3>2. Move
      BY <2>2, <3>1, ReadMoves DEF PInv, FinishLookup
    <3> QED
      BY <1>1, <2>1, <3>2, MovingStep DEF Attributed
  <2>3. CASE BeginLookup(l) \/ FailLookup(l)
    <3>1. cycle' = cycle /\ ended' = ended
      BY <2>3 DEF BeginLookup, FailLookup
    <3> QED
      BY <1>1, <2>1, <3>1, QuietStep DEF Attributed
  <2> QED
    BY <1>7, <2>2, <2>3
<1> QED
  BY <1>3, <1>4, <1>5, <1>6, <1>7 DEF Next

\* Usage is never recorded under a period that began after it was stamped
\* while that period is current: a delayed callback does not consume the new
\* quota (CurrentPeriod's previous_period branch, store.go:342-353).
THEOREM LateUsageAttributed ==
    ASSUME MaxLag = 0
    PROVE  Spec => LateUsageStaysOut
<1>1. PInv /\ [Next]_vars => [Attributed]_vars
  BY PNextStep
<1>2. PInv /\ [Next]_vars => PInv'
  BY PNextStep
<1> QED
  BY <1>1, <1>2, PInitEstablishes, PTL DEF Spec, LateUsageStaysOut, Attributed

\* A closed period holds only usage stamped before its end, so the totals of
\* past periods are final up to late callbacks of their own requests.
THEOREM ChargesStayWithinPeriod ==
    ASSUME MaxLag = 0
    PROVE  Spec => []ChargesWithinPeriod
<1>1. PInv => ChargesWithinPeriod
  <2> SUFFICES ASSUME PInv, NEW r \in Requests, NEW e \in ended,
                      charge[r] = e.period
               PROVE  call[r].stamp < e.end
    BY DEF ChargesWithinPeriod
  <2>1. e.period \in Period
    BY DEF PInv, IInv, TypeOK
  <2>2. charge[r] # Null
    BY <2>1, NullIsApart
  <2> QED
    BY <2>2 DEF PInv, ChargedOnceDone, WithinPeriod
<1>2. PInv /\ [Next]_vars => PInv'
  BY PNextStep
<1> QED
  BY <1>1, <1>2, PInitEstablishes, PTL DEF Spec
=============================================================================
