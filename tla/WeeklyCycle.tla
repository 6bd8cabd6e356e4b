---------------------------- MODULE WeeklyCycle ----------------------------
(***************************************************************************)
(* The quota period of the plugin: the single row of quota_cycle_state     *)
(* (scope "codex-weekly") and the two functions of internal/store that     *)
(* read and write it under quotaMu, CurrentPeriod and                      *)
(* ObserveUpstreamWeeklyReset.  Each runs its SELECT and its UPDATE inside *)
(* one critical section, so each is one action here.                       *)
(*                                                                         *)
(* Time is counted in seconds, the resolution of the upstream header       *)
(* x-codex-secondary-reset-at.  The row keeps the columns the code reads;  *)
(* updated_at is written and never read.                                   *)
(***************************************************************************)
EXTENDS Integers

CONSTANTS
    Weekly,        \* cfg.Quota.Period = "weekly"; monthly periods otherwise
    CalendarLen,   \* length of a calendar period
    ZoneOffset,    \* offset of cfg.Timezone from UTC
    Null           \* SQL NULL, no row, or no header

VARIABLE cycle     \* the row of quota_cycle_state, Null before the first one

Period == [kind : {"calendar", "codex"}, n : Int]

Row == [period  : Period,
        next    : Nat \cup {Null},      \* next_reset_at
        prev    : Period \cup {Null},   \* previous_period
        started : Nat \cup {Null}]      \* period_started_at

ASSUME WeeklyCycleAssumption ==
    /\ Weekly \in BOOLEAN
    /\ CalendarLen \in Nat \ {0}
    /\ ZoneOffset \in Int
    /\ Null \notin Int
    /\ Null \notin Period
    /\ Null \notin Row

-----------------------------------------------------------------------------
(* Names of periods.                                                       *)

\* config.CurrentPeriod: the ISO week, or the month, of t in cfg.Timezone.
ConfigPeriod(t) ==
    [kind |-> "calendar", n |-> (t + ZoneOffset) \div CalendarLen]

\* Mutated form: a name no reader of the table expects.
upstreamWeeklyPeriod_Mutant(resetAt) == [kind |-> "Codex", n |-> resetAt]

upstreamWeeklyPeriod(resetAt) == [kind |-> "codex", n |-> resetAt]

-----------------------------------------------------------------------------
(* CurrentPeriod(t): apply the stored boundary when t has reached it, then *)
(* answer with the period t belongs to.                                    *)

\* Mutated form: the boundary itself still counts as the old period.
Due_Mutant(t) == Weekly /\ cycle # Null /\ cycle.next # Null /\ t > cycle.next

Due(t) == Weekly /\ cycle # Null /\ cycle.next # Null /\ t >= cycle.next

\* The boundary becomes the start of the current period and is cleared.
Rolled == [period  |-> upstreamWeeklyPeriod(cycle.next),
           next    |-> Null,
           prev    |-> cycle.period,
           started |-> cycle.next]

\* Mutated form: the boundary is never applied on a read.
AfterRead_Mutant(t) == cycle

AfterRead(t) == IF Due(t) THEN Rolled ELSE cycle

\* Mutated form: the previous period is not kept for late usage.
Predates_Mutant(row, t) == FALSE

\* A timestamp before the current period belongs to the one before it.
Predates(row, t) == row.prev # Null /\ row.started # Null /\ t < row.started

CurrentPeriod(t) ==
    LET row == AfterRead(t)
    IN  IF ~Weekly \/ row = Null THEN ConfigPeriod(t)
        ELSE IF Predates(row, t) THEN row.prev
        ELSE row.period

AdvanceIfDue(t) == cycle' = AfterRead(t)

-----------------------------------------------------------------------------
(* ObserveUpstreamWeeklyReset(resetAt, now): one disjunct per way out of   *)
(* the function.                                                           *)

\* Mutated form: a boundary that has passed is stored as well.
IsFuture_Mutant(resetAt, now) == TRUE

IsFuture(resetAt, now) == resetAt > now

Accepts(resetAt, now) == Weekly /\ resetAt # Null /\ IsFuture(resetAt, now)

FirstBoundary(resetAt, now) ==
    /\ cycle = Null
    /\ cycle' = [period |-> ConfigPeriod(now), next |-> resetAt,
                 prev |-> Null, started |-> Null]

StoreBoundary(resetAt) ==
    /\ cycle # Null
    /\ cycle.next = Null
    /\ cycle' = [cycle EXCEPT !.next = resetAt]

KeepBoundary(resetAt) ==
    /\ cycle # Null
    /\ cycle.next # Null
    /\ resetAt <= cycle.next
    /\ UNCHANGED cycle

LaterBoundary(resetAt) ==
    cycle # Null /\ cycle.next # Null /\ resetAt > cycle.next

ApplyAndStoreBoundary(resetAt, now) ==
    /\ LaterBoundary(resetAt)
    /\ now >= cycle.next
    /\ cycle' = [Rolled EXCEPT !.next = resetAt]

ExtendBoundary(resetAt, now) ==
    /\ LaterBoundary(resetAt)
    /\ now < cycle.next
    /\ cycle' = [cycle EXCEPT !.next = resetAt]

ObserveUpstreamWeeklyReset(resetAt, now) ==
    \/ ~Accepts(resetAt, now) /\ UNCHANGED cycle
    \/ /\ Accepts(resetAt, now)
       /\ \/ FirstBoundary(resetAt, now)
          \/ StoreBoundary(resetAt)
          \/ KeepBoundary(resetAt)
          \/ ApplyAndStoreBoundary(resetAt, now)
          \/ ExtendBoundary(resetAt, now)
=============================================================================
