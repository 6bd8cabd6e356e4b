-------------------------- MODULE QuotaGuardProofs --------------------------
(***************************************************************************)
(* Proofs about QuotaGuard, for any number of keys and of requests that    *)
(* are outstanding at one time: how far a key can exceed its limit.        *)
(*                                                                         *)
(* OvershootBounded is not inductive: a total may grow by every request    *)
(* that is charged to its period without having been compared with it.    *)
(* The invariant adds those to the total (Budget).  For the live period    *)
(* they are the requests that have been let through and not charged, and   *)
(* those that compare, or have compared, the total of an earlier period;   *)
(* for an earlier period, the uncharged requests that either delivery may  *)
(* file under it, by the interceptor's clock reading or by the time stamp  *)
(* of the callback.  A period that has yet to begin has no usage (Unused), *)
(* so whatever is under way when it begins fits the bound.                 *)
(*                                                                         *)
(* One thing takes the row back to an earlier period: the handler that     *)
(* inserts the first row with a clock reading from before the end of a     *)
(* calendar period.  It happens once, and lets every outstanding request   *)
(* of a key exceed the limit a second time (Room).                         *)
(***************************************************************************)
EXTENDS QuotaGuard, FiniteSetTheorems, TLAPS

-----------------------------------------------------------------------------
(* The definitions take the row and the requests as parameters: in a step  *)
(* RecordUsage applies a boundary and then adds to a total.                *)

\* The period of a fresh clock reading, unless a boundary is due.
Live(row, t) == IF row = Null THEN ConfigPeriod(t) ELSE row.period

\* A reading of the clock from before the live period, and its period.
Stale(row, t, n) ==
    IF row = Null THEN ConfigPeriod(n) # ConfigPeriod(t) ELSE Predates(row, n)

Earlier(row, n) == IF row = Null THEN ConfigPeriod(n) ELSE row.prev

\* A request x that may be charged to the live period without a comparison
\* with its total to come.
IsUnchecked(row, t, x) ==
    \/ Uncharged(x)
    \/ x.pc = "totals" /\ x.period # Live(row, t)
    \/ x.pc \in {"status", "period"} /\ Stale(row, t, x.now)

\* The readings of the clock a delivery may file it by.
Stamps(x) == IF x.pc \in {"observe", "record"} THEN {x.now, x.stamp} ELSE {x.stamp}

\* One that may be charged to an earlier period p.
IsLate(row, t, x, p) ==
    Uncharged(x) /\ \E n \in Stamps(x) : Stale(row, t, n) /\ p = Earlier(row, n)

Unchecked(row, t, rq, k) == {r \in RequestsOf(k) : IsUnchecked(row, t, rq[r])}

Late(row, t, rq, k, p) == {r \in RequestsOf(k) : IsLate(row, t, rq[r], p)}

MayCharge(row, t, rq, k, p) ==
    IF p = Live(row, t) THEN Unchecked(row, t, rq, k) ELSE Late(row, t, rq, k, p)

Share(k) == Cardinality(RequestsOf(k)) * MaxCost

Room(row, k, p) ==
    Limit[k] - 1 + Share(k)
      + (IF row # Null /\ p.kind = "calendar" /\ MaxLag # 0 THEN Share(k) ELSE 0)

Fits(row, t, rq, k, p, n) ==
    Limit[k] \in Nat \ {0} =>
        n + Cardinality(MayCharge(row, t, rq, k, p)) * MaxCost <= Room(row, k, p)

Budget(row, t, rq, u) ==
    \A k \in Keys, p \in Periods : Fits(row, t, rq, k, p, u[k][p])

\* The periods that have yet to begin.
Ahead(row, t, p) ==
    IF row = Null THEN p.kind = "codex" \/ p.n > ConfigPeriod(t).n
    ELSE p.kind = "codex" /\ (row.started = Null \/ p.n > row.started)

Unused(row, t, u) ==
    \A k \in Keys, p \in Periods : Ahead(row, t, p) => u[k][p] = 0

\* The columns of the row belong together.
Ordered(row, t) ==
    /\ ~Weekly => row = Null
    /\ row # Null =>
         /\ row.period \in Periods
         /\ row.next \in ResetTimes \cup {Null}
         /\ row.started \in ResetTimes \cup {Null}
         /\ row.prev \in Periods \cup {Null}
         /\ row.started = Null => row.prev = Null /\ row.period.kind = "calendar"
         /\ row.started # Null =>
              /\ row.started <= t
              /\ row.period = upstreamWeeklyPeriod(row.started)
              /\ row.prev # Null
              /\ ~Ahead(row, t, row.prev)
              /\ row.next # Null => row.next >= row.started

Sound(row, t, rq, u) == Ordered(row, t) /\ Unused(row, t, u) /\ Budget(row, t, rq, u)

\* What the requests hold.
FreshReadings(t, rq) ==
    \A r \in Requests :
        /\ rq[r].pc \in {"status", "period", "observe", "record"} =>
             rq[r].now <= t /\ t - rq[r].now <= MaxLag
        /\ rq[r].stamp <= t
        /\ rq[r].pc = "totals" => rq[r].period \in Periods

GInv ==
    /\ TypeOK
    /\ FreshReadings(clock, request)
    /\ Sound(cycle, clock, request, used)

-----------------------------------------------------------------------------
(* Counting.                                                               *)

LEMMA Products ==
    ASSUME NEW a \in Nat, NEW b \in Nat, NEW m \in Nat
    PROVE  /\ a * m \in Nat
           /\ a <= b => a * m <= b * m
           /\ (a + 1) * m = a * m + m
<1>1. a * m \in Nat /\ b * m \in Nat
  OBVIOUS
<1>2. (a + 1) * m = a * m + m
  OBVIOUS
<1>3. ASSUME a <= b
      PROVE  a * m <= b * m
  <2>1. b - a \in Nat /\ (b - a) * m \in Nat
    BY <1>3
  <2>2. b * m = a * m + (b - a) * m
    OBVIOUS
  <2> QED
    BY <1>1, <2>1, <2>2
<1> QED
  BY <1>1, <1>2, <1>3

LEMMA RequestsFinite ==
    ASSUME NEW k \in Keys
    PROVE  /\ IsFiniteSet(RequestsOf(k))
           /\ Cardinality(RequestsOf(k)) \in Nat
           /\ Share(k) \in Nat
<1>1. RequestsOf(k) \subseteq Requests /\ IsFiniteSet(Requests) /\ MaxCost \in Nat
  BY QuotaGuardAssumption DEF RequestsOf
<1>2. IsFiniteSet(RequestsOf(k)) /\ Cardinality(RequestsOf(k)) \in Nat
  BY <1>1, FS_Subset, FS_CardinalityType
<1> QED
  BY <1>1, <1>2, Products DEF Share

\* A part of the requests uses no more than all of them.
LEMMA Fewer ==
    ASSUME NEW k \in Keys, NEW T, T \subseteq RequestsOf(k), NEW S, S \subseteq T
    PROVE  /\ Cardinality(S) * MaxCost \in Nat
           /\ Cardinality(T) * MaxCost \in Nat
           /\ Cardinality(S) * MaxCost <= Cardinality(T) * MaxCost
           /\ Cardinality(T) * MaxCost <= Share(k)
<1>1. IsFiniteSet(T) /\ Cardinality(T) \in Nat
        /\ Cardinality(T) <= Cardinality(RequestsOf(k))
  BY RequestsFinite, FS_Subset, FS_CardinalityType
<1>2. Cardinality(S) \in Nat /\ Cardinality(S) <= Cardinality(T)
  BY <1>1, FS_Subset, FS_CardinalityType
<1>3. MaxCost \in Nat /\ Cardinality(RequestsOf(k)) \in Nat
  BY QuotaGuardAssumption, RequestsFinite
<1> QED
  BY <1>1, <1>2, <1>3, Products DEF Share

LEMMA OneLess ==
    ASSUME NEW k \in Keys, NEW T, T \subseteq RequestsOf(k),
           NEW r \in T, NEW S, S \subseteq T \ {r}
    PROVE  Cardinality(S) * MaxCost + MaxCost <= Cardinality(T) * MaxCost
<1>1. IsFiniteSet(T)
  BY RequestsFinite, FS_Subset
<1>2. /\ Cardinality(T \ {r}) \in Nat
      /\ Cardinality(T) = Cardinality(T \ {r}) + 1
  <2>1. IsFiniteSet(T \ {r}) /\ Cardinality(T \ {r}) = Cardinality(T) - 1
    BY <1>1, FS_RemoveElement
  <2>2. Cardinality(T) \in Nat /\ Cardinality(T \ {r}) \in Nat
    BY <1>1, <2>1, FS_CardinalityType
  <2> QED
    BY <2>1, <2>2
<1>3. Cardinality(S) * MaxCost <= Cardinality(T \ {r}) * MaxCost
        /\ Cardinality(S) * MaxCost \in Nat /\ Cardinality(T \ {r}) * MaxCost \in Nat
  BY Fewer
<1>4. Cardinality(T) * MaxCost = Cardinality(T \ {r}) * MaxCost + MaxCost
  BY <1>2, Products, QuotaGuardAssumption
<1> QED
  BY <1>3, <1>4, QuotaGuardAssumption

LEMMA MayChargeRequests ==
    ASSUME NEW row, NEW t, NEW rq, NEW k, NEW p
    PROVE  MayCharge(row, t, rq, k, p) \subseteq RequestsOf(k)
BY DEF MayCharge, Unchecked, Late

LEMMA RoomTyped ==
    ASSUME NEW row, NEW k \in Keys, NEW p, Limit[k] \in Nat \ {0}
    PROVE  Room(row, k, p) \in Nat /\ Room(row, k, p) >= Limit[k] - 1 + Share(k)
BY RequestsFinite DEF Room

\* A total below the limit fits, whatever is under way.
LEMMA FitsBelow ==
    ASSUME NEW row, NEW t, NEW rq, NEW k \in Keys, NEW p, NEW n \in Nat,
           Limit[k] \in Nat \ {0} => n <= Limit[k] - 1
    PROVE  Fits(row, t, rq, k, p, n)
<1> DEFINE m == Cardinality(MayCharge(row, t, rq, k, p)) * MaxCost
<1>1. m \in Nat /\ m <= Share(k)
  BY Fewer, MayChargeRequests
<1>2. Share(k) \in Nat
  BY RequestsFinite
<1> HIDE DEF m
<1>3. Limit[k] \in Nat \ {0} => n + m <= Room(row, k, p)
  BY <1>1, <1>2, RoomTyped
<1> QED
  BY <1>3 DEF Fits, m

\* A total that fits, fits with fewer requests under way and no less room.
LEMMA FitsStill ==
    ASSUME NEW row, NEW t, NEW rq, NEW row2, NEW t2, NEW rq2,
           NEW k \in Keys, NEW p, NEW n \in Nat,
           Fits(row, t, rq, k, p, n),
           MayCharge(row2, t2, rq2, k, p) \subseteq MayCharge(row, t, rq, k, p),
           row # Null => row2 # Null
    PROVE  Fits(row2, t2, rq2, k, p, n)
<1> DEFINE m == Cardinality(MayCharge(row, t, rq, k, p)) * MaxCost
           m2 == Cardinality(MayCharge(row2, t2, rq2, k, p)) * MaxCost
<1>1. m \in Nat /\ m2 \in Nat /\ m2 <= m
  BY Fewer, MayChargeRequests
<1>2. Limit[k] \in Nat \ {0} => Room(row, k, p) <= Room(row2, k, p)
  BY RequestsFinite DEF Room
<1>3. Limit[k] \in Nat \ {0} => Room(row, k, p) \in Nat /\ Room(row2, k, p) \in Nat
  BY RoomTyped
<1> HIDE DEF m, m2
<1>4. Limit[k] \in Nat \ {0} => n + m <= Room(row, k, p)
  BY DEF Fits, m
<1>5. Limit[k] \in Nat \ {0} => n + m2 <= Room(row2, k, p)
  BY <1>1, <1>2, <1>3, <1>4
<1> QED
  BY <1>5 DEF Fits, m2

\* Requests that move on without becoming countable.
LEMMA RequestsMove ==
    ASSUME NEW row, NEW t, NEW rq, NEW rq2, NEW u \in [Keys -> [Periods -> Nat]],
           Budget(row, t, rq, u),
           \A r \in Requests :
             /\ IsUnchecked(row, t, rq2[r]) => IsUnchecked(row, t, rq[r])
             /\ \A p : IsLate(row, t, rq2[r], p) => IsLate(row, t, rq[r], p)
    PROVE  Budget(row, t, rq2, u)
<1> SUFFICES ASSUME NEW k \in Keys, NEW p \in Periods
             PROVE  Fits(row, t, rq2, k, p, u[k][p])
  BY DEF Budget
<1>1. MayCharge(row, t, rq2, k, p) \subseteq MayCharge(row, t, rq, k, p)
  BY DEF MayCharge, Unchecked, Late, RequestsOf
<1>2. Fits(row, t, rq, k, p, u[k][p]) /\ u[k][p] \in Nat
  BY DEF Budget
<1> QED
  BY <1>1, <1>2, FitsStill

-----------------------------------------------------------------------------
(* Names of periods.                                                       *)

LEMMA Divided ==
    ASSUME NEW a \in Int, NEW b \in Int, a <= b, NEW m \in Nat \ {0}
    PROVE  a \div m \in Int /\ a \div m <= b \div m
<1> DEFINE q == a \div m
           r == b \div m
<1>1. /\ q \in Int /\ a % m \in 0 .. m - 1 /\ a = m * q + (a % m)
      /\ r \in Int /\ b % m \in 0 .. m - 1 /\ b = m * r + (b % m)
  OBVIOUS
<1> HIDE DEF q, r
<1>2. ASSUME r + 1 <= q
      PROVE  FALSE
  <2>1. m * (r + 1) <= m * q
    BY <1>1, <1>2
  <2>2. m * (r + 1) = m * r + m
    BY <1>1
  <2>3. m * r \in Int /\ m * q \in Int
    BY <1>1
  <2> QED
    BY <1>1, <2>1, <2>2, <2>3
<1>3. q <= r
  BY <1>1, <1>2
<1> QED
  BY <1>1, <1>3 DEF q, r

LEMMA Names ==
    /\ \A t \in 0 .. MaxTime : ConfigPeriod(t) \in Periods
    /\ \A b \in ResetTimes : upstreamWeeklyPeriod(b) \in Periods
    /\ \A p \in Periods : p \in Period /\ p # Null /\ p.n \in Int
    /\ \A t : ConfigPeriod(t).kind = "calendar"
    /\ \A b : upstreamWeeklyPeriod(b).kind = "codex" /\ upstreamWeeklyPeriod(b).n = b
    /\ Null \notin Periods
<1>1. \A t \in 0 .. MaxTime : ConfigPeriod(t) \in Period
  <2> SUFFICES ASSUME NEW t \in 0 .. MaxTime
               PROVE  ConfigPeriod(t) \in Period
    OBVIOUS
  <2>1. t + ZoneOffset \in Int /\ CalendarLen \in Nat \ {0}
    BY WeeklyCycleAssumption, QuotaGuardAssumption
  <2> QED
    BY <2>1, Divided DEF ConfigPeriod, Period
<1>2. \A b \in ResetTimes : upstreamWeeklyPeriod(b) \in Period
  BY QuotaGuardAssumption DEF upstreamWeeklyPeriod, Period
<1>3. \A p \in Periods : p \in Period
  BY <1>1, <1>2 DEF Periods
<1>4. Null \notin Period
  BY WeeklyCycleAssumption
<1>5. \A p \in Period : p.n \in Int
  BY DEF Period
<1> QED
  BY <1>3, <1>4, <1>5 DEF Periods, ConfigPeriod, upstreamWeeklyPeriod

LEMMA CalendarAdvances ==
    ASSUME NEW s \in Nat, NEW t \in Nat, s <= t
    PROVE  ConfigPeriod(s).n \in Int /\ ConfigPeriod(s).n <= ConfigPeriod(t).n
<1>1. s + ZoneOffset \in Int /\ t + ZoneOffset \in Int
        /\ s + ZoneOffset <= t + ZoneOffset /\ CalendarLen \in Nat \ {0}
  BY WeeklyCycleAssumption
<1> QED
  BY <1>1, Divided DEF ConfigPeriod

-----------------------------------------------------------------------------
(* What the two sections of quotaMu do to the row.                         *)

LEMMA NoTimeIsNull == Null \notin Nat /\ Null \notin ResetTimes /\ ResetTimes \subseteq Nat
<1>1. Null \notin Nat
  BY WeeklyCycleAssumption
<1>2. ResetTimes \subseteq Nat
  BY QuotaGuardAssumption
<1> QED
  BY <1>1, <1>2

\* A stored boundary that has passed is applied: the row is then new.
LEMMA RollKeeps ==
    ASSUME NEW row, NEW t \in Nat, NEW rq, NEW u \in [Keys -> [Periods -> Nat]],
           Sound(row, t, rq, u),
           row # Null, row.next # Null, row.next <= t,
           NEW new, new # Null,
           new.period = upstreamWeeklyPeriod(row.next), new.prev = row.period,
           new.started = row.next, new.next \in ResetTimes \cup {Null},
           new.next # Null => new.next > row.next
    PROVE  Sound(new, t, rq, u)
<1>1. /\ Weekly /\ row.next \in ResetTimes /\ row.next \in Nat
      /\ row.period \in Periods /\ row.period # Null
      /\ row.started \in ResetTimes \cup {Null}
      /\ row.started = Null => row.period.kind = "calendar"
      /\ row.started # Null => /\ row.started \in Nat /\ row.next >= row.started
                               /\ row.period = upstreamWeeklyPeriod(row.started)
                               /\ row.prev # Null
  BY NoTimeIsNull, Names DEF Sound, Ordered
<1>2. Ordered(new, t)
  <2>1. new.next # Null => new.next \in Nat /\ new.next >= new.started
    BY <1>1, NoTimeIsNull
  <2>2. ~Ahead(new, t, new.prev)
    BY <1>1, Names DEF Ahead
  <2> QED
    BY <1>1, <2>1, <2>2, Names DEF Ordered
<1>3. \A p \in Periods : Ahead(new, t, p) => Ahead(row, t, p)
  BY <1>1, Names DEF Ahead
<1>4. Unused(new, t, u)
  BY <1>3 DEF Sound, Unused
<1>5. Budget(new, t, rq, u)
  <2> SUFFICES ASSUME NEW k \in Keys, NEW p \in Periods
               PROVE  Fits(new, t, rq, k, p, u[k][p])
    BY DEF Budget
  <2>1. u[k][p] \in Nat /\ Fits(row, t, rq, k, p, u[k][p])
    BY DEF Sound, Budget
  <2>2. CASE Ahead(row, t, p)
    <3>1. u[k][p] = 0
      BY <2>2 DEF Sound, Unused
    <3> QED
      BY <3>1, FitsBelow
  <2>3. CASE ~Ahead(row, t, p) /\ p = new.period
    <3>0. p.kind = "codex" /\ p.n = row.next
      BY <2>3, Names
    <3>1. row.started # Null /\ row.next = row.started /\ p = row.period
      BY <1>1, <2>3, <3>0 DEF Ahead
    <3>2. \A n : Stale(new, t, n) => Stale(row, t, n)
      BY <1>1, <3>1 DEF Stale, Predates
    <3>3. Live(new, t) = p /\ Live(row, t) = p
      BY <2>3, <3>1 DEF Live
    <3>4. \A x : IsUnchecked(new, t, x) => IsUnchecked(row, t, x)
      BY <3>2, <3>3 DEF IsUnchecked
    <3>5. MayCharge(new, t, rq, k, p) \subseteq MayCharge(row, t, rq, k, p)
      BY <3>3, <3>4 DEF MayCharge, Unchecked
    <3> QED
      BY <2>1, <3>5, FitsStill
  <2>4. CASE p # new.period /\ p = row.period
    <3>1. Live(new, t) # p /\ Live(row, t) = p
      BY <2>4 DEF Live
    <3>2. \A x : IsLate(new, t, x, p) => IsUnchecked(row, t, x)
      BY DEF IsLate, IsUnchecked
    <3>3. MayCharge(new, t, rq, k, p) \subseteq MayCharge(row, t, rq, k, p)
      BY <3>1, <3>2 DEF MayCharge, Unchecked, Late
    <3> QED
      BY <2>1, <3>3, FitsStill
  <2>5. CASE p # new.period /\ p # row.period
    <3>1. MayCharge(new, t, rq, k, p) = {}
      BY <2>5 DEF MayCharge, Live, Late, IsLate, Earlier
    <3> QED
      BY <2>1, <3>1, FitsStill
  <2> QED
    BY <2>2, <2>3, <2>4, <2>5
<1> QED
  BY <1>2, <1>4, <1>5 DEF Sound

\* What a handler may rely on when it calls either of them with reading n.
Calls(n) ==
    /\ cycle \in Row \cup {Null}
    /\ clock \in 0 .. MaxTime
    /\ used \in [Keys -> [Periods -> Nat]]
    /\ Sound(cycle, clock, request, used)
    /\ n \in Nat /\ n <= clock

\* The same for a reading no older than the lag of a handler.
FreshCalls(n) == Calls(n) /\ clock - n <= MaxLag

\* CurrentPeriod: the row stays sound, and the period answered is the live one
\* or, for a reading from before it, an earlier one.
LEMMA ReadKeeps ==
    ASSUME NEW n, Calls(n), AdvanceIfDue(n)
    PROVE  /\ Sound(cycle', clock, request, used)
           /\ cycle' \in Row \cup {Null}
           /\ CurrentPeriod(n) = IF Stale(cycle', clock, n)
                                 THEN Earlier(cycle', n) ELSE Live(cycle', clock)
           /\ CurrentPeriod(n) \in Periods
           /\ ~Ahead(cycle', clock, CurrentPeriod(n))
<1> n \in Nat /\ n <= clock /\ clock \in 0 .. MaxTime /\ clock \in Nat /\ MaxTime \in Nat
  BY QuotaGuardAssumption DEF Calls
<1> used \in [Keys -> [Periods -> Nat]] /\ Sound(cycle, clock, request, used)
  BY DEF Calls
<1>1. cycle' = AfterRead(n)
  BY DEF AdvanceIfDue
<1>2. Sound(cycle', clock, request, used) /\ cycle' \in Row \cup {Null}
  <2>1. CASE Due(n)
    <3>1. cycle # Null /\ cycle.next # Null /\ n >= cycle.next /\ cycle' = Rolled
      BY <1>1, <2>1 DEF AfterRead, Due
    <3>2. cycle.next \in Nat /\ cycle.next <= clock
      <4>1. cycle.next \in Nat
        BY <3>1, NoTimeIsNull DEF Sound, Ordered
      <4> QED
        BY <3>1, <4>1
    <3>3. /\ cycle'.period = upstreamWeeklyPeriod(cycle.next) /\ cycle'.prev = cycle.period
          /\ cycle'.started = cycle.next /\ cycle'.next = Null
      BY <3>1 DEF Rolled
    <3>4. cycle' \in Row /\ cycle' # Null
      <4>1. cycle.period \in Period
        BY <3>1, Names DEF Sound, Ordered
      <4>2. upstreamWeeklyPeriod(cycle.next) \in Period
        BY <3>2 DEF upstreamWeeklyPeriod, Period
      <4>3. cycle' \in Row
        BY <3>1, <3>2, <4>1, <4>2 DEF Rolled, Row
      <4> QED
        BY <4>3, WeeklyCycleAssumption
    <3> QED
      BY <3>1, <3>2, <3>3, <3>4, RollKeeps
  <2>2. CASE ~Due(n)
    BY <1>1, <2>2 DEF AfterRead, Calls
  <2> QED
    BY <2>1, <2>2
<1>3. CurrentPeriod(n) = IF Stale(cycle', clock, n)
                         THEN Earlier(cycle', n) ELSE Live(cycle', clock)
  <2>1. ~Weekly => cycle' = Null
    BY <1>2 DEF Sound, Ordered
  <2> QED
    BY <1>1, <2>1 DEF CurrentPeriod, Stale, Earlier, Live
<1>4. CASE cycle' = Null
  <2>1. CurrentPeriod(n) = ConfigPeriod(n)
    BY <1>3, <1>4 DEF Stale, Earlier, Live
  <2>2. ConfigPeriod(n) \in Periods /\ ConfigPeriod(n).kind = "calendar"
          /\ ConfigPeriod(n).n \in Int /\ ConfigPeriod(clock).n \in Int
          /\ ConfigPeriod(n).n <= ConfigPeriod(clock).n
    BY Names, CalendarAdvances
  <2> QED
    BY <1>2, <1>3, <1>4, <2>1, <2>2 DEF Ahead
<1>5. CASE cycle' # Null
  <2>1. /\ cycle'.period \in Periods /\ ~Ahead(cycle', clock, cycle'.period)
        /\ cycle'.prev # Null =>
             cycle'.prev \in Periods /\ ~Ahead(cycle', clock, cycle'.prev)
    BY <1>2, <1>5, Names, NoTimeIsNull DEF Sound, Ordered, Ahead
  <2>2. Stale(cycle', clock, n) => cycle'.prev # Null
    BY <1>5 DEF Stale, Predates
  <2> QED
    BY <1>2, <1>3, <1>5, <2>1, <2>2 DEF Earlier, Live
<1> QED
  BY <1>4, <1>5

\* The boundary to come is stored or replaced: nothing else depends on it.
LEMMA NextOnly ==
    ASSUME NEW row, NEW t, NEW rq, NEW u \in [Keys -> [Periods -> Nat]],
           Sound(row, t, rq, u), row # Null,
           NEW new, new # Null,
           new.period = row.period, new.prev = row.prev, new.started = row.started,
           new.next \in ResetTimes,
           row.started # Null => new.next >= row.started
    PROVE  Sound(new, t, rq, u)
<1>1. Ordered(new, t)
  BY DEF Sound, Ordered, Ahead
<1>2. Unused(new, t, u)
  BY DEF Sound, Unused, Ahead
<1>3. Budget(new, t, rq, u)
  <2> SUFFICES ASSUME NEW k \in Keys, NEW p \in Periods
               PROVE  Fits(new, t, rq, k, p, u[k][p])
    BY DEF Budget
  <2>1. u[k][p] \in Nat /\ Fits(row, t, rq, k, p, u[k][p])
    BY DEF Sound, Budget
  <2>2. MayCharge(new, t, rq, k, p) \subseteq MayCharge(row, t, rq, k, p)
    BY DEF MayCharge, Unchecked, Late, IsUnchecked, IsLate, Live, Stale, Earlier,
           Predates
  <2> QED
    BY <2>1, <2>2, FitsStill
<1> QED
  BY <1>1, <1>2, <1>3 DEF Sound

\* The first row, inserted with clock reading n.
LEMMA FirstKeeps ==
    ASSUME NEW n, FreshCalls(n), NEW h \in ResetTimes, Weekly, FirstBoundary(h, n)
    PROVE  Sound(cycle', clock, request, used) /\ cycle' \in Row
<1> USE DEF Calls, FreshCalls
<1> clock \in Nat /\ MaxTime \in Nat
  BY QuotaGuardAssumption
<1>1. cycle = Null /\ cycle' = [period |-> ConfigPeriod(n), next |-> h,
                                prev |-> Null, started |-> Null]
  BY DEF FirstBoundary
<1>2. n \in 0 .. MaxTime /\ ConfigPeriod(n) \in Periods /\ ConfigPeriod(n) \in Period
        /\ ConfigPeriod(n).kind = "calendar" /\ h \in Nat
  BY Names, NoTimeIsNull
<1>3. cycle' \in Row /\ cycle' # Null
  BY <1>1, <1>2, WeeklyCycleAssumption DEF Row
<1>4. Ordered(cycle', clock)
  BY <1>1, <1>2, <1>3 DEF Ordered
<1>5. Unused(cycle', clock, used)
  <2>1. \A p : Ahead(cycle', clock, p) => Ahead(cycle, clock, p)
    BY <1>1, <1>3 DEF Ahead
  <2> QED
    BY <2>1 DEF Sound, Unused
<1>6. Budget(cycle', clock, request, used)
  <2> SUFFICES ASSUME NEW k \in Keys, NEW p \in Periods
               PROVE  Fits(cycle', clock, request, k, p, used[k][p])
    BY DEF Budget
  <2>1. used[k][p] \in Nat /\ Fits(cycle, clock, request, k, p, used[k][p])
    BY DEF Sound, Budget
  <2>2. /\ Live(cycle', clock) = ConfigPeriod(n)
        /\ Live(cycle, clock) = ConfigPeriod(clock)
        /\ \A s : ~Stale(cycle', clock, s)
    BY <1>1, <1>3 DEF Live, Stale, Predates
  <2>3. CASE p # ConfigPeriod(n)
    <3>1. MayCharge(cycle', clock, request, k, p) = {}
      BY <2>2, <2>3 DEF MayCharge, Late, IsLate
    <3> QED
      BY <1>3, <2>1, <3>1, FitsStill
  <2>4. CASE p = ConfigPeriod(n) /\ ConfigPeriod(n) = ConfigPeriod(clock)
    <3>1. \A x : IsUnchecked(cycle', clock, x) => IsUnchecked(cycle, clock, x)
      BY <2>2, <2>4 DEF IsUnchecked
    <3>2. MayCharge(cycle', clock, request, k, p) \subseteq MayCharge(cycle, clock, request, k, p)
      BY <2>2, <2>4, <3>1 DEF MayCharge, Unchecked
    <3> QED
      BY <1>3, <2>1, <3>2, FitsStill
  <2>5. CASE p = ConfigPeriod(n) /\ ConfigPeriod(n) # ConfigPeriod(clock)
    <3>1. MaxLag # 0
      BY <2>5
    <3> SUFFICES ASSUME Limit[k] \in Nat \ {0}
                 PROVE  used[k][p] + Cardinality(MayCharge(cycle', clock, request, k, p)) * MaxCost
                          <= Room(cycle', k, p)
      BY DEF Fits
    <3> DEFINE m == Cardinality(MayCharge(cycle, clock, request, k, p)) * MaxCost
               m2 == Cardinality(MayCharge(cycle', clock, request, k, p)) * MaxCost
    <3>2. m \in Nat /\ m2 \in Nat /\ m2 <= Share(k) /\ Share(k) \in Nat
      BY Fewer, MayChargeRequests, RequestsFinite
    <3>3. used[k][p] + m <= Limit[k] - 1 + Share(k)
      BY <1>1, <2>1, <3>2 DEF Fits, Room
    <3>4. Room(cycle', k, p) = Limit[k] - 1 + Share(k) + Share(k)
      BY <1>2, <1>3, <2>5, <3>1 DEF Room
    <3> HIDE DEF m, m2
    <3>5. used[k][p] + m2 <= Room(cycle', k, p)
      BY <2>1, <3>2, <3>3, <3>4
    <3> QED
      BY <3>5 DEF m2
  <2> QED
    BY <2>3, <2>4, <2>5
<1> QED
  BY <1>3, <1>4, <1>5, <1>6 DEF Sound

\* A row with another boundary to come is a row.
LEMMA NextTyped ==
    ASSUME NEW row \in Row, NEW h \in ResetTimes
    PROVE  /\ [row EXCEPT !.next = h] \in Row
           /\ [row EXCEPT !.next = h] # Null
           /\ [row EXCEPT !.next = h].period = row.period
           /\ [row EXCEPT !.next = h].prev = row.prev
           /\ [row EXCEPT !.next = h].started = row.started
           /\ [row EXCEPT !.next = h].next = h
<1>1. [row EXCEPT !.next = h] \in Row
  BY NoTimeIsNull DEF Row
<1> QED
  BY <1>1, WeeklyCycleAssumption DEF Row

\* ObserveUpstreamWeeklyReset keeps the row sound.
LEMMA ObserveKeeps ==
    ASSUME NEW n, FreshCalls(n), NEW h \in ResetTimes \cup {Null},
           ObserveUpstreamWeeklyReset(h, n)
    PROVE  Sound(cycle', clock, request, used) /\ cycle' \in Row \cup {Null}
<1> USE DEF Calls, FreshCalls
<1> clock \in Nat /\ MaxLag \in Nat
  BY QuotaGuardAssumption
<1>1. CASE UNCHANGED cycle
  BY <1>1
<1>2. CASE Accepts(h, n) /\ cycle' # cycle
  <2>1. Weekly /\ h \in ResetTimes /\ h \in Nat /\ h > n
    BY <1>2, NoTimeIsNull DEF Accepts, IsFuture
  <2>2. CASE FirstBoundary(h, n)
    BY <2>1, <2>2, FirstKeeps
  <2>3. CASE StoreBoundary(h)
    <3>1. cycle \in Row /\ cycle # Null /\ cycle' = [cycle EXCEPT !.next = h]
      BY <2>3 DEF StoreBoundary
    <3>2. cycle.started # Null => h >= cycle.started
      <4> SUFFICES ASSUME cycle.started # Null, h < cycle.started
                   PROVE  FALSE
        BY <3>1, <2>1, NoTimeIsNull DEF Sound, Ordered
      <4>1. cycle.started \in ResetTimes /\ cycle.started \in Nat /\ cycle.started <= clock
        BY <3>1, NoTimeIsNull DEF Sound, Ordered
      <4>2. cycle.started - h > MaxLag
        BY <2>1, <4>1, BoundariesFarApart
      <4> QED
        BY <2>1, <4>1, <4>2
    <3>3. /\ cycle' \in Row /\ cycle' # Null /\ cycle'.period = cycle.period
          /\ cycle'.prev = cycle.prev /\ cycle'.started = cycle.started
          /\ cycle'.next \in ResetTimes /\ cycle'.next = h
      BY <2>1, <3>1, NextTyped
    <3> QED
      BY <3>1, <3>2, <3>3, NextOnly
  <2>4. CASE ApplyAndStoreBoundary(h, n)
    <3>1. /\ cycle \in Row /\ cycle # Null /\ cycle.next # Null /\ h > cycle.next
          /\ n >= cycle.next /\ cycle' = [Rolled EXCEPT !.next = h]
      BY <2>4 DEF ApplyAndStoreBoundary, LaterBoundary
    <3>2. cycle.next \in Nat /\ cycle.next <= clock
      <4>1. cycle.next \in Nat
        BY <3>1 DEF Row
      <4> QED
        BY <3>1, <4>1
    <3>3. Rolled \in Row
      BY <3>1, <3>2 DEF Rolled, Row, upstreamWeeklyPeriod, Period
    <3>4. /\ cycle' \in Row /\ cycle' # Null /\ cycle'.next = h
          /\ cycle'.period = Rolled.period /\ cycle'.prev = Rolled.prev
          /\ cycle'.started = Rolled.started
      BY <2>1, <3>1, <3>3, NextTyped
    <3>5. Rolled.period = upstreamWeeklyPeriod(cycle.next) /\ Rolled.prev = cycle.period
            /\ Rolled.started = cycle.next
      BY DEF Rolled
    <3>6. Sound(cycle', clock, request, used)
      BY <3>1, <3>2, <3>4, <3>5, RollKeeps
    <3> QED
      BY <3>4, <3>6
  <2>5. CASE ExtendBoundary(h, n)
    <3>1. /\ cycle \in Row /\ cycle # Null /\ cycle.next # Null /\ h > cycle.next
          /\ cycle' = [cycle EXCEPT !.next = h]
      BY <2>5 DEF ExtendBoundary, LaterBoundary
    <3>2. cycle.started # Null => h >= cycle.started
      <4>1. cycle.next \in Nat
        BY <3>1 DEF Row
      <4>2. cycle.started # Null => cycle.started \in Nat /\ cycle.next >= cycle.started
        BY <3>1, NoTimeIsNull DEF Sound, Ordered
      <4> QED
        BY <2>1, <3>1, <4>1, <4>2
    <3>3. /\ cycle' \in Row /\ cycle' # Null /\ cycle'.period = cycle.period
          /\ cycle'.prev = cycle.prev /\ cycle'.started = cycle.started
          /\ cycle'.next \in ResetTimes /\ cycle'.next = h
      BY <2>1, <3>1, NextTyped
    <3> QED
      BY <3>1, <3>2, <3>3, NextOnly
  <2> QED
    BY <1>2, <2>2, <2>3, <2>4, <2>5 DEF ObserveUpstreamWeeklyReset, KeepBoundary
<1> QED
  BY <1>1, <1>2 DEF ObserveUpstreamWeeklyReset

-----------------------------------------------------------------------------
(* What the clock and an accounting do to the totals.                      *)

LEMMA TickKeeps ==
    ASSUME NEW row, NEW t \in Nat, NEW rq, NEW u \in [Keys -> [Periods -> Nat]],
           Sound(row, t, rq, u)
    PROVE  Sound(row, t + 1, rq, u)
<1> t + 1 \in Nat /\ t <= t + 1
  OBVIOUS
<1>1. CASE row # Null
  <2>1. Ordered(row, t + 1)
    <3>1. row.started # Null => row.started \in Nat
      BY <1>1, NoTimeIsNull DEF Sound, Ordered
    <3>2. row.started # Null => row.started <= t + 1
      BY <1>1, <3>1 DEF Sound, Ordered
    <3> QED
      BY <1>1, <3>2 DEF Sound, Ordered, Ahead
  <2>2. Unused(row, t + 1, u)
    BY <1>1 DEF Sound, Unused, Ahead
  <2>3. Budget(row, t + 1, rq, u)
    <3>1. \A k, p : MayCharge(row, t + 1, rq, k, p) = MayCharge(row, t, rq, k, p)
      BY <1>1 DEF MayCharge, Unchecked, Late, IsUnchecked, IsLate, Live, Stale, Earlier
    <3> QED
      BY <3>1 DEF Sound, Budget, Fits
  <2> QED
    BY <2>1, <2>2, <2>3 DEF Sound
<1>2. CASE row = Null
  <2>0. /\ ConfigPeriod(t).n \in Int /\ ConfigPeriod(t + 1).n \in Int
        /\ ConfigPeriod(t).n <= ConfigPeriod(t + 1).n
        /\ ConfigPeriod(t).kind = "calendar" /\ ConfigPeriod(t + 1).kind = "calendar"
    BY CalendarAdvances, Names
  <2>1. Ordered(row, t + 1)
    BY <1>2 DEF Sound, Ordered
  <2>2. \A p \in Periods : Ahead(row, t + 1, p) => Ahead(row, t, p)
    BY <1>2, <2>0, Names DEF Ahead
  <2>3. Budget(row, t + 1, rq, u)
    <3> SUFFICES ASSUME NEW k \in Keys, NEW p \in Periods
                 PROVE  Fits(row, t + 1, rq, k, p, u[k][p])
      BY DEF Budget
    <3>1. u[k][p] \in Nat /\ Fits(row, t, rq, k, p, u[k][p])
      BY DEF Sound, Budget
    <3>2. CASE Ahead(row, t, p)
      <4>1. u[k][p] = 0
        BY <3>2 DEF Sound, Unused
      <4> QED
        BY <4>1, FitsBelow
    <3>3. CASE ~Ahead(row, t, p) /\ p = ConfigPeriod(t + 1)
      <4>1. ConfigPeriod(t + 1) = ConfigPeriod(t)
        <5>1. ConfigPeriod(t + 1).n = ConfigPeriod(t).n
          BY <1>2, <2>0, <3>3 DEF Ahead
        <5> QED
          BY <5>1 DEF ConfigPeriod
      <4>2. MayCharge(row, t + 1, rq, k, p) = MayCharge(row, t, rq, k, p)
        BY <1>2, <4>1 DEF MayCharge, Unchecked, Late, IsUnchecked, IsLate, Live, Stale,
                          Earlier
      <4> QED
        BY <3>1, <4>2, FitsStill
    <3>4. CASE p # ConfigPeriod(t + 1) /\ p = ConfigPeriod(t)
      <4>1. \A x : IsLate(row, t + 1, x, p) => IsUnchecked(row, t, x)
        BY DEF IsLate, IsUnchecked
      <4>2. MayCharge(row, t + 1, rq, k, p) \subseteq MayCharge(row, t, rq, k, p)
        BY <1>2, <3>4, <4>1 DEF MayCharge, Unchecked, Late, Live
      <4> QED
        BY <3>1, <4>2, FitsStill
    <3>5. CASE p # ConfigPeriod(t + 1) /\ p # ConfigPeriod(t)
      <4>1. \A x : IsLate(row, t + 1, x, p) => IsLate(row, t, x, p)
        BY <1>2, <3>5 DEF IsLate, Stale, Earlier
      <4>2. MayCharge(row, t + 1, rq, k, p) \subseteq MayCharge(row, t, rq, k, p)
        BY <1>2, <3>5, <4>1 DEF MayCharge, Late, Live
      <4> QED
        BY <3>1, <4>2, FitsStill
    <3> QED
      BY <3>2, <3>3, <3>4, <3>5
  <2> QED
    BY <2>1, <2>2, <2>3 DEF Sound, Unused
<1> QED
  BY <1>1, <1>2

\* A request that has been recorded, and is then x, is charged; the total it
\* was counted in has grown by no more than it was counted for.
LEMMA ChargeKeeps ==
    ASSUME NEW row, NEW t, NEW rq \in [Requests -> RequestState],
           NEW u \in [Keys -> [Periods -> Nat]],
           Sound(row, t, rq, u),
           NEW r \in Requests, rq[r].pc = "record",
           NEW n \in Stamps(rq[r]),
           NEW q \in Periods, ~Ahead(row, t, q),
           q = IF Stale(row, t, n) THEN Earlier(row, n) ELSE Live(row, t),
           NEW x, ~IsUnchecked(row, t, x)
    PROVE  Sound(row, t, [rq EXCEPT ![r] = x],
                 [u EXCEPT ![KeyOf[r]][q] = @ + rq[r].cost])
<1> DEFINE rq2 == [rq EXCEPT ![r] = x]
           k0 == KeyOf[r]
           u2 == [u EXCEPT ![k0][q] = @ + rq[r].cost]
<1>0. \A p : ~IsLate(row, t, x, p)
  BY DEF IsLate, IsUnchecked
<1>1. /\ k0 \in Keys /\ r \in RequestsOf(k0)
      /\ rq[r].cost \in Nat /\ rq[r].cost <= MaxCost /\ MaxCost \in Nat
  BY QuotaGuardAssumption DEF RequestsOf, RequestState
<1>2. \A d \in Requests : rq2[d] = IF d = r THEN x ELSE rq[d]
  OBVIOUS
<1>3. /\ u2[k0][q] = u[k0][q] + rq[r].cost
      /\ \A k \in Keys, p \in Periods : k # k0 \/ p # q => u2[k][p] = u[k][p]
      /\ \A k \in Keys, p \in Periods : u[k][p] \in Nat
  BY <1>1
<1> HIDE DEF rq2, u2
<1>4. Ordered(row, t)
  BY DEF Sound
<1>5. Unused(row, t, u2)
  BY <1>3 DEF Sound, Unused
<1>6. Budget(row, t, rq2, u2)
  <2> SUFFICES ASSUME NEW k \in Keys, NEW p \in Periods
               PROVE  Fits(row, t, rq2, k, p, u2[k][p])
    BY DEF Budget
  <2>1. u[k][p] \in Nat /\ Fits(row, t, rq, k, p, u[k][p])
    BY DEF Sound, Budget
  <2>2. MayCharge(row, t, rq2, k, p) \subseteq MayCharge(row, t, rq, k, p) \ {r}
    BY <1>0, <1>2 DEF MayCharge, Unchecked, Late, RequestsOf
  <2>3. CASE u2[k][p] = u[k][p]
    BY <2>1, <2>2, <2>3, FitsStill
  <2>4. CASE k = k0 /\ p = q /\ rq[r].cost # 0
    <3>1. r \in MayCharge(row, t, rq, k, p)
      BY <1>1, <2>4 DEF MayCharge, Unchecked, Late, IsUnchecked, IsLate, Uncharged
    <3> DEFINE m == Cardinality(MayCharge(row, t, rq, k, p)) * MaxCost
               m2 == Cardinality(MayCharge(row, t, rq2, k, p)) * MaxCost
    <3>2. m \in Nat /\ m2 \in Nat
      BY Fewer, MayChargeRequests
    <3>3. m2 + MaxCost <= m
      BY <2>2, <3>1, OneLess, MayChargeRequests
    <3>4. Limit[k] \in Nat \ {0} => u[k][p] + m <= Room(row, k, p)
      BY <2>1 DEF Fits
    <3>5. Limit[k] \in Nat \ {0} => Room(row, k, p) \in Nat
      BY RoomTyped
    <3> HIDE DEF m, m2
    <3>6. Limit[k] \in Nat \ {0} => u2[k][p] + m2 <= Room(row, k, p)
      BY <1>1, <1>3, <2>1, <2>4, <3>2, <3>3, <3>4, <3>5
    <3> QED
      BY <3>6 DEF Fits, m2
  <2> QED
    BY <1>1, <1>3, <2>3, <2>4
<1>7. Sound(row, t, rq2, u2)
  BY <1>4, <1>5, <1>6 DEF Sound
<1> QED
  BY <1>7 DEF rq2, u2

-----------------------------------------------------------------------------
(* The invariant.                                                          *)

LEMMA Starts == Init => GInv
<1> SUFFICES ASSUME Init
             PROVE  GInv
  OBVIOUS
<1> USE DEF Init
<1>1. TypeOK
  <2>1. Idle \in RequestState
    BY QuotaGuardAssumption DEF Idle, RequestState
  <2> QED
    BY <2>1, QuotaGuardAssumption DEF TypeOK
<1>2. FreshReadings(clock, request)
  BY DEF FreshReadings, Idle
<1>3. Budget(cycle, clock, request, used)
  <2> SUFFICES ASSUME NEW k \in Keys, NEW p \in Periods
               PROVE  Fits(cycle, clock, request, k, p, used[k][p])
    BY DEF Budget
  <2>1. used[k][p] = 0
    OBVIOUS
  <2> QED
    BY <2>1, FitsBelow
<1>4. Unused(cycle, clock, used) /\ Ordered(cycle, clock)
  BY DEF Unused, Ordered
<1> QED
  BY <1>1, <1>2, <1>3, <1>4 DEF GInv, Sound

\* A step of request r that leaves the totals alone and r as x: the state stays
\* sound when x is no more countable than what r was.
LEMMA RequestStep ==
    ASSUME NEW row, NEW t, NEW rq \in [Requests -> RequestState],
           NEW u \in [Keys -> [Periods -> Nat]],
           Sound(row, t, rq, u),
           NEW r \in Requests, NEW x, NEW rq2, rq2 = [rq EXCEPT ![r] = x],
           IsUnchecked(row, t, x) => IsUnchecked(row, t, rq[r]),
           \A p : IsLate(row, t, x, p) => IsLate(row, t, rq[r], p)
    PROVE  Sound(row, t, rq2, u)
<1>1. \A d \in Requests : rq2[d] = IF d = r THEN x ELSE rq[d]
  OBVIOUS
<1>2. Budget(row, t, rq2, u)
  BY <1>1, RequestsMove DEF Sound
<1> QED
  BY <1>2 DEF Sound

\* A reading taken now is not from before the live period.
LEMMA NowIsLive ==
    ASSUME NEW row, NEW t \in Nat, Ordered(row, t)
    PROVE  ~Stale(row, t, t)
<1>1. CASE row = Null
  BY <1>1 DEF Stale
<1>2. CASE row # Null
  <2>1. row.started # Null => row.started \in Nat /\ row.started <= t
    BY <1>2, NoTimeIsNull DEF Ordered
  <2> QED
    BY <1>2, <2>1 DEF Stale, Predates
<1> QED
  BY <1>1, <1>2

LEMMA AuthKeeps ==
    ASSUME GInv, NEW r \in Requests, Auth(r)
    PROVE  GInv'
<1> USE DEF GInv, TypeOK
<1> clock \in Nat /\ MaxTime \in Nat /\ MaxLag \in Nat
  BY QuotaGuardAssumption
<1>0. KeyOf[r] \in Keys /\ request[r] \in RequestState /\ Ordered(cycle, clock)
  BY QuotaGuardAssumption DEF Sound
<1>1. Idle \in RequestState
  BY QuotaGuardAssumption DEF Idle, RequestState
<1>2. CASE BeginAuth(r)
  <2> DEFINE x == [request[r] EXCEPT !.pc = "status", !.now = clock]
  <2>1. request' = [request EXCEPT ![r] = x] /\ UNCHANGED <<cycle, clock, status, used>>
    BY <1>2 DEF BeginAuth
  <2>2. x \in RequestState /\ x.pc = "status" /\ x.now = clock /\ x.stamp = request[r].stamp
    BY <1>0 DEF RequestState
  <2> HIDE DEF x
  <2>3. ~Stale(cycle, clock, clock)
    BY <1>0, NowIsLive
  <2>4. Sound(cycle, clock, request', used)
    BY <2>1, <2>2, <2>3, RequestStep DEF IsUnchecked, IsLate, Uncharged
  <2> QED
    BY <2>1, <2>2, <2>4 DEF FreshReadings
<1>3. CASE ReadKey(r)
  <2> DEFINE y == [request[r] EXCEPT !.pc = "period"]
  <2>1. /\ UNCHANGED <<cycle, clock, status, used>> /\ request[r].pc = "status"
        /\ \/ request' = [request EXCEPT ![r] = y]
           \/ request' = [request EXCEPT ![r] = Idle]
    BY <1>3 DEF ReadKey
  <2>2. y \in RequestState /\ y.pc = "period" /\ y.now = request[r].now
          /\ y.stamp = request[r].stamp
    BY <1>0 DEF RequestState
  <2> HIDE DEF y
  <2>3. Sound(cycle, clock, request', used)
    <3>1. \A p : /\ ~IsUnchecked(cycle, clock, Idle) /\ ~IsLate(cycle, clock, Idle, p)
                 /\ ~IsLate(cycle, clock, y, p)
                 /\ IsUnchecked(cycle, clock, y) => IsUnchecked(cycle, clock, request[r])
      BY <2>1, <2>2 DEF IsUnchecked, IsLate, Uncharged, Idle
    <3> QED
      BY <2>1, <3>1, RequestStep
  <2>4. FreshReadings(clock, request')
    <3>1. Idle.pc = "idle" /\ Idle.stamp <= clock
      BY DEF Idle
    <3> HIDE DEF Idle
    <3>2. CASE request' = [request EXCEPT ![r] = y]
      BY <2>1, <2>2, <3>2 DEF FreshReadings
    <3>3. CASE request' = [request EXCEPT ![r] = Idle]
      BY <3>1, <3>3 DEF FreshReadings
    <3> QED
      BY <2>1, <3>2, <3>3
  <2> QED
    BY <1>1, <2>1, <2>2, <2>3, <2>4
<1>4. CASE ResolvePeriod(r)
  <2> DEFINE n == request[r].now
             q == CurrentPeriod(n)
             x == [request[r] EXCEPT !.pc = "totals", !.now = 0, !.period = q]
  <2>1. /\ request[r].pc = "period" /\ AdvanceIfDue(n)
        /\ request' = [request EXCEPT ![r] = x] /\ UNCHANGED <<clock, status, used>>
    BY <1>4 DEF ResolvePeriod
  <2>2. Calls(n)
    BY <1>0, <2>1 DEF Calls, FreshReadings, RequestState
  <2>3. /\ Sound(cycle', clock, request, used) /\ cycle' \in Row \cup {Null}
        /\ q = IF Stale(cycle', clock, n) THEN Earlier(cycle', n) ELSE Live(cycle', clock)
        /\ q \in Periods
    BY <2>1, <2>2, ReadKeeps
  <2> HIDE DEF q
  <2>4. x \in RequestState /\ x.pc = "totals" /\ x.period = q /\ x.stamp = request[r].stamp
    BY <1>0, <2>3 DEF RequestState
  <2> HIDE DEF x
  <2>5. IsUnchecked(cycle', clock, x) => IsUnchecked(cycle', clock, request[r])
    BY <2>1, <2>3, <2>4 DEF IsUnchecked, Uncharged
  <2>6. Sound(cycle', clock, request', used)
    BY <2>1, <2>3, <2>4, <2>5, RequestStep DEF IsLate, Uncharged
  <2> QED
    BY <2>1, <2>3, <2>4, <2>6 DEF FreshReadings
<1>5. CASE Deny(r)
  <2>1. request' = [request EXCEPT ![r] = Idle] /\ UNCHANGED <<cycle, clock, status, used>>
    BY <1>5 DEF Deny
  <2>2. Sound(cycle, clock, request', used)
    BY <2>1, RequestStep DEF IsUnchecked, IsLate, Uncharged, Idle
  <2> QED
    BY <1>1, <2>1, <2>2 DEF FreshReadings, Idle
<1>6. CASE Admit(r)
  <2> DEFINE x == [Idle EXCEPT !.pc = "upstream", !.stamp = clock]
             q == request[r].period
  <2>1. /\ request[r].pc = "totals" /\ ~OverQuota(KeyOf[r], q) /\ q \in Periods
        /\ request' = [request EXCEPT ![r] = x] /\ UNCHANGED <<cycle, clock, status, used>>
    BY <1>6 DEF Admit, FreshReadings
  <2>2. x \in RequestState /\ x.pc = "upstream" /\ x.stamp = clock
    BY <1>1 DEF RequestState, Idle
  <2> HIDE DEF x
  <2>4. \A p : ~IsLate(cycle, clock, x, p)
    BY <1>0, <2>2, NowIsLive DEF IsLate, Stamps
  <2>3. Sound(cycle, clock, request', used)
    <3>1. CASE q # Live(cycle, clock)
      <4>1. IsUnchecked(cycle, clock, request[r])
        BY <2>1, <3>1 DEF IsUnchecked
      <4> QED
        BY <2>1, <2>4, <4>1, RequestStep
    <3>2. CASE q = Live(cycle, clock)
      <4> SUFFICES ASSUME NEW k \in Keys, NEW p \in Periods
                   PROVE  Fits(cycle, clock, request', k, p, used[k][p])
        BY <2>1 DEF Sound, Budget
      <4>1. used[k][p] \in Nat /\ Fits(cycle, clock, request, k, p, used[k][p])
        BY DEF Sound, Budget
      <4>2. CASE k = KeyOf[r] /\ p = q
        <5>1. Limit[k] \in Nat \ {0} => used[k][p] <= Limit[k] - 1
          BY <2>1, <4>1, <4>2, NoTimeIsNull DEF OverQuota
        <5> QED
          BY <4>1, <5>1, FitsBelow
      <4>3. CASE k # KeyOf[r] \/ p # q
        <5>1. \A d \in Requests : request'[d] = IF d = r THEN x ELSE request[d]
          BY <2>1
        <5>3. MayCharge(cycle, clock, request', k, p) \subseteq MayCharge(cycle, clock, request, k, p)
          BY <2>4, <3>2, <4>3, <5>1 DEF MayCharge, Unchecked, Late, RequestsOf
        <5> QED
          BY <4>1, <5>3, FitsStill
      <4> QED
        BY <4>2, <4>3
    <3> QED
      BY <3>1, <3>2
  <2> QED
    BY <2>1, <2>2, <2>3 DEF FreshReadings
<1> QED
  BY <1>2, <1>3, <1>4, <1>5, <1>6 DEF Auth

LEMMA AccountKeeps ==
    ASSUME GInv, NEW r \in Requests, Account(r)
    PROVE  GInv'
<1> USE DEF GInv, TypeOK
<1> clock \in Nat /\ MaxTime \in Nat /\ MaxLag \in Nat
  BY QuotaGuardAssumption
<1>0. KeyOf[r] \in Keys /\ request[r] \in RequestState /\ Ordered(cycle, clock)
  BY QuotaGuardAssumption DEF Sound
<1>1. Idle \in RequestState
  BY QuotaGuardAssumption DEF Idle, RequestState
<1>2. CASE Respond(r)
  <2>1. PICK h \in {b \in ResetTimes : b > clock} \cup {Null}, tok \in 0 .. MaxCost :
          request' = [request EXCEPT ![r] =
                        [@ EXCEPT !.pc = "answered", !.header = h, !.cost = tok,
                                  !.left = Deliveries]]
    BY <1>2 DEF Respond
  <2> DEFINE x == [request[r] EXCEPT !.pc = "answered", !.header = h, !.cost = tok,
                                     !.left = Deliveries]
  <2>2. /\ request[r].pc = "upstream" /\ request' = [request EXCEPT ![r] = x]
        /\ UNCHANGED <<cycle, clock, status, used>>
    BY <1>2, <2>1 DEF Respond
  <2>3. x \in RequestState /\ x.pc = "answered" /\ x.stamp = request[r].stamp
    <3>1. h \in ResetTimes \cup {Null}
      OBVIOUS
    <3> QED
      BY <1>0, <3>1 DEF RequestState
  <2> HIDE DEF x
  <2>4. Uncharged(request[r]) /\ Stamps(x) = Stamps(request[r])
    BY <2>2, <2>3 DEF Uncharged, Stamps
  <2>5. Sound(cycle, clock, request', used)
    BY <2>2, <2>4, RequestStep DEF IsUnchecked, IsLate
  <2> QED
    BY <2>2, <2>3, <2>5 DEF FreshReadings
<1>3. CASE Deliver(r)
  <2>1. PICK d \in request[r].left :
          request' = [request EXCEPT ![r] =
                        [@ EXCEPT !.pc = "observe", !.now = clock,
                                  !.left = request[r].left \ {d}, !.by = d]]
    BY <1>3 DEF Deliver
  <2> DEFINE x == [request[r] EXCEPT !.pc = "observe", !.now = clock,
                                     !.left = request[r].left \ {d}, !.by = d]
  <2>2. /\ request[r].pc = "answered" /\ request' = [request EXCEPT ![r] = x]
        /\ UNCHANGED <<cycle, clock, status, used>>
    BY <1>3, <2>1 DEF Deliver
  <2>3. /\ x \in RequestState /\ x.pc = "observe" /\ x.now = clock
        /\ x.stamp = request[r].stamp /\ x.cost = request[r].cost
    BY <1>0 DEF RequestState
  <2> HIDE DEF x
  <2>4. Uncharged(x) => Uncharged(request[r])
    BY <2>2, <2>3 DEF Uncharged
  <2>5. /\ Stamps(x) = {clock, request[r].stamp} /\ Stamps(request[r]) = {request[r].stamp}
        /\ ~Stale(cycle, clock, clock)
    BY <1>0, <2>2, <2>3, NowIsLive DEF Stamps
  <2>6. Sound(cycle, clock, request', used)
    <3>1. IsUnchecked(cycle, clock, x) => IsUnchecked(cycle, clock, request[r])
      BY <2>3, <2>4 DEF IsUnchecked
    <3>2. \A p : IsLate(cycle, clock, x, p) => IsLate(cycle, clock, request[r], p)
      BY <2>4, <2>5 DEF IsLate
    <3> QED
      BY <2>2, <3>1, <3>2, RequestStep
  <2> QED
    BY <2>2, <2>3, <2>6 DEF FreshReadings
<1>4. CASE Observe(r)
  <2> DEFINE n == request[r].now
             x == [request[r] EXCEPT !.pc = "record"]
  <2>1. /\ request[r].pc = "observe" /\ ObserveUpstreamWeeklyReset(request[r].header, n)
        /\ request' = [request EXCEPT ![r] = x] /\ UNCHANGED <<clock, status, used>>
    BY <1>4 DEF Observe
  <2>2. FreshCalls(n) /\ request[r].header \in ResetTimes \cup {Null}
    BY <1>0, <2>1 DEF FreshCalls, Calls, FreshReadings, RequestState
  <2>3. Sound(cycle', clock, request, used) /\ cycle' \in Row \cup {Null}
    BY <2>1, <2>2, ObserveKeeps
  <2>4. /\ x \in RequestState /\ x.pc = "record" /\ x.now = n
        /\ x.stamp = request[r].stamp /\ x.cost = request[r].cost
    BY <1>0 DEF RequestState
  <2> HIDE DEF x
  <2>5. (Uncharged(x) => Uncharged(request[r])) /\ Stamps(x) = Stamps(request[r])
    BY <2>1, <2>4 DEF Uncharged, Stamps
  <2>6. Sound(cycle', clock, request', used)
    BY <2>1, <2>3, <2>4, <2>5, RequestStep DEF IsUnchecked, IsLate
  <2> QED
    BY <2>1, <2>3, <2>4, <2>6 DEF FreshReadings
<1>5. ASSUME request[r].pc \in {"observe", "record"}
      PROVE  LET x == Delivered(request[r])
                 y == Delivered([request[r] EXCEPT !.cost = 0])
             IN  /\ x \in RequestState /\ y \in RequestState
                 /\ x.pc \in {"idle", "answered"} /\ y.pc \in {"idle", "answered"}
                 /\ x.stamp \in {0, request[r].stamp} /\ y.stamp \in {0, request[r].stamp}
                 /\ x.cost \in {0, request[r].cost} /\ y.cost = 0
                 /\ x.pc = "answered" => x.stamp = request[r].stamp
  BY <1>0, <1>1, <1>5 DEF Delivered, RequestState, Idle
<1>6. CASE Record(r)
  <2> DEFINE n == Timestamp(request[r])
             q == CurrentPeriod(n)
             y == Delivered([request[r] EXCEPT !.cost = 0])
  <2>1. /\ request[r].pc = "record" /\ AdvanceIfDue(n)
        /\ request' = [request EXCEPT ![r] = y] /\ UNCHANGED <<clock, status>>
        /\ used' = [used EXCEPT ![KeyOf[r]][q] = @ + request[r].cost]
    BY <1>6 DEF Record
  <2>2. n \in Stamps(request[r])
    BY <2>1 DEF Timestamp, Stamps
  <2>3. Calls(n)
    BY <1>0, <2>1, <2>2 DEF Calls, Stamps, FreshReadings, RequestState
  <2> HIDE DEF n
  <2>4. /\ Sound(cycle', clock, request, used) /\ cycle' \in Row \cup {Null}
        /\ q = IF Stale(cycle', clock, n) THEN Earlier(cycle', n) ELSE Live(cycle', clock)
        /\ q \in Periods /\ ~Ahead(cycle', clock, q)
    BY <2>1, <2>3, ReadKeeps
  <2> HIDE DEF q
  <2>5. /\ y \in RequestState /\ y.pc \in {"idle", "answered"}
        /\ y.cost = 0 /\ y.stamp <= clock
    BY <1>5, <2>1 DEF FreshReadings
  <2> HIDE DEF y
  <2>6. ~IsUnchecked(cycle', clock, y)
    BY <2>5 DEF IsUnchecked, Uncharged
  <2>7. Sound(cycle', clock, [request EXCEPT ![r] = y],
              [used EXCEPT ![KeyOf[r]][q] = @ + request[r].cost])
    BY <2>1, <2>2, <2>4, <2>6, ChargeKeeps
  <2>8. used' \in [Keys -> [Periods -> Nat]]
    <3>1. request[r].cost \in Nat
      BY <1>0, QuotaGuardAssumption DEF RequestState
    <3> QED
      BY <1>0, <2>1, <2>4, <3>1
  <2> QED
    BY <2>1, <2>4, <2>5, <2>7, <2>8 DEF FreshReadings
<1>7. CASE Unrecorded(r)
  <2> DEFINE x == Delivered(request[r])
  <2>1. /\ request[r].pc \in {"observe", "record"} /\ request' = [request EXCEPT ![r] = x]
        /\ UNCHANGED <<cycle, clock, status, used>>
    BY <1>7 DEF Unrecorded
  <2>2. /\ x \in RequestState /\ x.pc \in {"idle", "answered"} /\ x.stamp <= clock
        /\ x.cost \in {0, request[r].cost}
        /\ x.pc = "answered" => x.stamp = request[r].stamp
    BY <1>5, <2>1 DEF FreshReadings
  <2> HIDE DEF x
  <2>3. (Uncharged(x) => Uncharged(request[r]) /\ Stamps(x) \subseteq Stamps(request[r]))
    BY <2>1, <2>2 DEF Uncharged, Stamps
  <2>4. Sound(cycle, clock, request', used)
    <3>1. IsUnchecked(cycle, clock, x) => IsUnchecked(cycle, clock, request[r])
      BY <2>2, <2>3 DEF IsUnchecked
    <3>2. \A p : IsLate(cycle, clock, x, p) => IsLate(cycle, clock, request[r], p)
      BY <2>3 DEF IsLate
    <3> QED
      BY <2>1, <3>1, <3>2, RequestStep
  <2> QED
    BY <2>1, <2>2, <2>4 DEF FreshReadings
<1>8. CASE Leave(r)
  <2>1. request' = [request EXCEPT ![r] = Idle] /\ UNCHANGED <<cycle, clock, status, used>>
    BY <1>8 DEF Leave
  <2>2. Sound(cycle, clock, request', used)
    BY <2>1, RequestStep DEF IsUnchecked, IsLate, Uncharged, Idle
  <2> QED
    BY <1>1, <2>1, <2>2 DEF FreshReadings, Idle
<1> QED
  BY <1>2, <1>3, <1>4, <1>6, <1>7, <1>8 DEF Account

LEMMA ClockKeeps ==
    ASSUME GInv, Tick
    PROVE  GInv'
<1> USE DEF GInv, TypeOK
<1> clock \in Nat /\ MaxTime \in Nat /\ MaxLag \in Nat
  BY QuotaGuardAssumption
<1>1. /\ clock < MaxTime /\ clock' = clock + 1 /\ UNCHANGED <<cycle, status, used, request>>
      /\ \A n \in PendingNows : clock - n < MaxLag
  BY DEF Tick
<1>2. Sound(cycle, clock + 1, request, used)
  BY TickKeeps
<1>3. ASSUME NEW r \in Requests,
             request[r].pc \in {"status", "period", "observe", "record"}
      PROVE  request[r].now <= clock + 1 /\ (clock + 1) - request[r].now <= MaxLag
  <2>1. request[r].now \in PendingNows
    BY <1>3 DEF PendingNows
  <2>2. request[r].now \in Nat /\ request[r].now <= clock
    BY <1>3 DEF FreshReadings, RequestState
  <2> QED
    BY <1>1, <2>1, <2>2
<1>4. FreshReadings(clock + 1, request)
  <2>1. \A r \in Requests :
          /\ request[r].pc = "totals" => request[r].period \in Periods
          /\ request[r].stamp <= clock + 1
    BY DEF FreshReadings, RequestState
  <2>2. \A r \in Requests :
          request[r].pc \in {"status", "period", "observe", "record"}
            => request[r].now <= clock + 1 /\ (clock + 1) - request[r].now <= MaxLag
    BY <1>3
  <2> QED
    BY <2>1, <2>2 DEF FreshReadings
<1> QED
  BY <1>1, <1>2, <1>4

\* The invariant the bounds below follow from: it holds in every reachable
\* state, for any requests, keys, limits and lag.
THEOREM QuotaInvariant == Spec => []GInv
<1>1. GInv /\ [Next]_vars => GInv'
  <2> SUFFICES ASSUME GInv, [Next]_vars
               PROVE  GInv'
    OBVIOUS
  <2>1. CASE Tick
    BY <2>1, ClockKeeps
  <2>2. ASSUME NEW r \in Requests, Auth(r) \/ Account(r)
        PROVE  GInv'
    BY <2>2, AuthKeeps, AccountKeeps
  <2>3. ASSUME NEW k \in Keys, UpdateStatus(k)
        PROVE  GInv'
    <3>1. UNCHANGED <<cycle, clock, used, request>>
            /\ status' \in [Keys -> {"active", "disabled"}]
      BY <2>3 DEF UpdateStatus, GInv, TypeOK
    <3> QED
      BY <3>1 DEF GInv, TypeOK, FreshReadings
  <2>4. CASE UNCHANGED vars
    BY <2>4 DEF vars, GInv, TypeOK, FreshReadings
  <2> QED
    BY <2>1, <2>2, <2>3, <2>4 DEF Next
<1> QED
  BY <1>1, Starts, PTL DEF Spec

-----------------------------------------------------------------------------
(* What follows from it.                                                   *)

\* Every variable keeps its type.
THEOREM TypeCorrect == Spec => []TypeOK
<1>1. GInv => TypeOK
  BY DEF GInv
<1> QED
  BY <1>1, QuotaInvariant, PTL

\* The total of a key never exceeds its limit by more than what the requests
\* it has outstanding at one time can use, callbacks that are still queued
\* included, when handlers use the clock reading they took at once or periods
\* are monthly.
THEOREM OvershootIsBounded ==
    ASSUME MaxLag = 0 \/ ~Weekly
    PROVE  Spec => []OvershootBounded
<1>1. ASSUME GInv
      PROVE  OvershootBounded
  <2> SUFFICES ASSUME NEW k \in Keys, NEW p \in Periods, Limit[k] \in Nat \ {0}
               PROVE  used[k][p] <= Limit[k] - 1 + Share(k)
    BY DEF OvershootBounded, Share
  <2> DEFINE m == Cardinality(MayCharge(cycle, clock, request, k, p)) * MaxCost
  <2>1. m \in Nat /\ Share(k) \in Nat /\ used[k][p] \in Nat
    BY <1>1, Fewer, MayChargeRequests, RequestsFinite DEF GInv, TypeOK
  <2>2. used[k][p] + m <= Room(cycle, k, p)
    BY <1>1 DEF GInv, Sound, Budget, Fits
  <2>3. Room(cycle, k, p) = Limit[k] - 1 + Share(k)
    BY <1>1, <2>1 DEF GInv, Sound, Ordered, Room
  <2> HIDE DEF m
  <2> QED
    BY <2>1, <2>2, <2>3
<1> QED
  BY <1>1, QuotaInvariant, PTL

\* The same whatever the lag, with room for each outstanding request a second
\* time in a calendar period: the insertion of the first row with a reading
\* from before the end of a calendar period makes that period the live one
\* again.
OvershootBoundedLate ==
    \A k \in Keys, p \in Periods :
        Limit[k] \in Nat \ {0}
          => used[k][p] <= Limit[k] - 1 +
               (IF p.kind = "codex" THEN Share(k) ELSE Share(k) + Share(k))

\* However long handlers take to use their clock reading, no total runs away.
THEOREM LateOvershootIsBounded == Spec => []OvershootBoundedLate
<1>1. ASSUME GInv
      PROVE  OvershootBoundedLate
  <2> SUFFICES ASSUME NEW k \in Keys, NEW p \in Periods, Limit[k] \in Nat \ {0}
               PROVE  used[k][p] <= Limit[k] - 1 +
                        (IF p.kind = "codex" THEN Share(k) ELSE Share(k) + Share(k))
    BY DEF OvershootBoundedLate
  <2> DEFINE m == Cardinality(MayCharge(cycle, clock, request, k, p)) * MaxCost
  <2>1. m \in Nat /\ Share(k) \in Nat /\ used[k][p] \in Nat
    BY <1>1, Fewer, MayChargeRequests, RequestsFinite DEF GInv, TypeOK
  <2>2. used[k][p] + m <= Room(cycle, k, p)
    BY <1>1 DEF GInv, Sound, Budget, Fits
  <2>3. Room(cycle, k, p) <= Limit[k] - 1 +
          (IF p.kind = "codex" THEN Share(k) ELSE Share(k) + Share(k))
    BY <2>1 DEF Room
  <2>4. Room(cycle, k, p) \in Nat
    BY RoomTyped
  <2> HIDE DEF m
  <2> QED
    BY <2>1, <2>2, <2>3, <2>4
<1> QED
  BY <1>1, QuotaInvariant, PTL
=============================================================================
