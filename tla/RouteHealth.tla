---------------------------- MODULE RouteHealth ----------------------------
(***************************************************************************)
(* Route health: a failed upstream request, reported by the queued usage   *)
(* callback, bans its target for a while; the scheduler's pick goes down   *)
(* the candidates and takes the first one that is not banned; an operator  *)
(* may lift the bans of a target.  The three run concurrently on the table *)
(* route_bans, each statement a step of its own, with clock readings taken *)
(* when they started.                                                      *)
(*                                                                         *)
(* Time is counted in fractions of a second, PerSecond of them, because    *)
(* timestamps are stored and compared as text (RFC3339Nano), whose order   *)
(* is not the order of time within a second.                               *)
(***************************************************************************)
EXTENDS Integers, Sequences, FiniteSetsExt

CONSTANTS
    Targets,       \* provider or auth ID, and model: routehealth.TargetKey
    Order,         \* the targets by descending priority, then ID
    Rules,         \* cfg.RouteHealth.Rules
    Headers,       \* what failed responses may carry
    Failures,      \* failed upstream requests
    Pickers,       \* goroutines in scheduler.pick
    PerSecond,     \* clock ticks in a second
    DurationMax,   \* a time.Duration holds -DurationMax .. DurationMax - 1
    MaxTime,       \* bound on the clock
    Null

Header ==
    [primaryFull : BOOLEAN, secondaryFull : BOOLEAN,    \* used-percent >= 100
     primary : Nat \cup {Null}, secondary : Nat \cup {Null}, \* reset-at
     retryAfter : Int \cup {Null},   \* Retry-After in seconds
     retryAt : Nat \cup {Null}]      \* or as a date

Rule ==
    [matches : SUBSET Targets,   \* by provider and status code
     strategy : {"codex_reset_headers", "retry_after_header", "fixed"},
     fallback : Nat, min : Nat, max : Nat]

ASSUME RouteHealthAssumption ==
    /\ Order \in Seq(Targets)
    /\ \A t \in Targets : \E i \in DOMAIN Order : Order[i] = t
    /\ Rules \in Seq(Rule)
    /\ Headers \subseteq Header
    /\ PerSecond \in Nat \ {0}
    /\ DurationMax \in Nat \ {0}
    /\ MaxTime \in Nat
    /\ Null \notin Int
    /\ Null \notin Targets

VARIABLES
    clock,         \* time.Now()
    bans,          \* the rows of route_bans
    failure,       \* the usage callbacks of failed requests
    picker,        \* the calls of pick
    banned         \* history: the end of the longest ban of each target since
                   \* it was last unbanned

vars == <<clock, bans, failure, picker, banned>>

Ban == [target : Targets, at : Nat, expires : Nat, unbanned : BOOLEAN]

Failure == [pc     : {"idle", "queued", "insert", "done"},
            target : Targets \cup {Null}, header : Headers \cup {Null}, now : Nat]

Picker == [pc     : {"idle", "check"},
           usable : SUBSET Targets,           \* by candidate status
           next   : 1 .. Len(Order) + 1,      \* the candidate to look at
           now    : Nat,
           free   : SUBSET Targets,           \* history: not banned since it began
           result : Targets \cup {Null}]

TypeOK ==
    /\ clock \in Nat
    /\ bans \subseteq Ban
    /\ failure \in [Failures -> Failure]
    /\ picker \in [Pickers -> Picker]
    /\ banned \in [Targets -> Nat]

NoPick == [pc |-> "idle", usable |-> {}, next |-> 1, now |-> 0, free |-> {},
           result |-> Null]

Init ==
    /\ clock = 0
    /\ bans = {}
    /\ failure = [f \in Failures |->
                    [pc |-> "idle", target |-> Null, header |-> Null, now |-> 0]]
    /\ picker = [p \in Pickers |-> NoPick]
    /\ banned = [t \in Targets |-> 0]

Tick ==
    /\ clock < MaxTime
    /\ clock' = clock + 1
    /\ UNCHANGED <<bans, failure, picker, banned>>

-----------------------------------------------------------------------------
(* How long a ban lasts.                                                   *)

CodexResets(h) ==
    LET full == (IF h.primaryFull THEN {h.primary} ELSE {})
                  \cup (IF h.secondaryFull THEN {h.secondary} ELSE {})
    IN  (IF full = {} THEN {h.primary, h.secondary} ELSE full) \ {Null}

CodexResetDuration(h, now) ==
    IF \E r \in CodexResets(h) : r > now THEN Max(CodexResets(h)) - now ELSE 0

\* time.Duration(seconds) * time.Second, which wraps around.
RetryAfterDuration(seconds) ==
    ((seconds * PerSecond + DurationMax) % (2 * DurationMax)) - DurationMax

\* For a date, time.Until reads the clock again.
RetryAfter(h) ==
    IF h.retryAfter # Null THEN RetryAfterDuration(h.retryAfter)
    ELSE IF h.retryAt # Null THEN h.retryAt - clock ELSE 0

Requested(rule, h, now) ==
    CASE rule.strategy = "codex_reset_headers" -> CodexResetDuration(h, now)
      [] rule.strategy = "retry_after_header" -> RetryAfter(h)
      [] rule.strategy = "fixed" -> rule.fallback

\* Mutated form: the minimum is applied last.
Clamp_Mutant(rule, d) ==
    LET capped == IF rule.max > 0 THEN Min({d, rule.max}) ELSE d
    IN  IF rule.min > 0 THEN Max({capped, rule.min}) ELSE capped

\* A minimum or maximum of zero is none; the maximum has the last word.
Clamp(rule, d) ==
    LET raised == IF rule.min > 0 THEN Max({d, rule.min}) ELSE d
    IN  IF rule.max > 0 THEN Min({raised, rule.max}) ELSE raised

DurationForRule(rule, h, now) ==
    LET d == Requested(rule, h, now)
    IN  Clamp(rule, IF d > 0 THEN d ELSE rule.fallback)

\* The rules that match and ban.
Banning(t, h, now) ==
    {i \in DOMAIN Rules :
        t \in Rules[i].matches /\ DurationForRule(Rules[i], h, now) > 0}

-----------------------------------------------------------------------------
(* The table.                                                              *)

\* RFC3339Nano drops a zero fraction, and "Z" sorts after ".": the whole
\* second comes after its fractions.
TextRank(t) ==
    (t \div PerSecond) * (PerSecond + 1)
        + (IF t % PerSecond = 0 THEN PerSecond ELSE t % PerSecond)

TextAfter(a, b) == TextRank(a) > TextRank(b)

\* Mutated form: the latest ban of a target counts, not the longest.
ActiveBan_Mutant(t, now) ==
    \E b \in bans :
        /\ b.target = t /\ ~b.unbanned /\ TextAfter(b.expires, now)
        /\ \A c \in bans : c.target = t => c.at <= b.at

\* Mutated form: lifted bans count as well.
ActiveBan_LiftedMutant(t, now) ==
    \E b \in bans : b.target = t /\ TextAfter(b.expires, now)

ActiveBan(t, now) ==
    \E b \in bans : b.target = t /\ ~b.unbanned /\ TextAfter(b.expires, now)

-----------------------------------------------------------------------------
(* handleUsage on a failed request.                                        *)

Fail(f) ==
    /\ failure[f].pc = "idle"
    /\ \E t \in Targets, h \in Headers :
         failure' = [failure EXCEPT ![f] =
             [pc |-> "queued", target |-> t, header |-> h, now |-> 0]]
    /\ UNCHANGED <<clock, bans, picker, banned>>

Finished == [pc |-> "done", target |-> Null, header |-> Null, now |-> 0]

\* The callback is delivered some time later, and reads the clock.
Deliver(f) ==
    /\ failure[f].pc = "queued"
    /\ failure' = [failure EXCEPT ![f] = [@ EXCEPT !.pc = "insert", !.now = clock]]
    /\ UNCHANGED <<clock, bans, picker, banned>>

\* ObservationFromUsage takes the first rule that matches and bans.
AddBan(f) ==
    LET x == failure[f]
        banning == Banning(x.target, x.header, x.now)
    IN  /\ x.pc = "insert"
        /\ \E first \in banning :
             LET expires == x.now + DurationForRule(Rules[first], x.header, x.now)
             IN  /\ \A i \in banning : first <= i
                 /\ bans' = bans \cup {[target |-> x.target, at |-> x.now,
                                        expires |-> expires, unbanned |-> FALSE]}
                 /\ banned' = [banned EXCEPT ![x.target] = Max({@, expires})]
        /\ picker' = [p \in Pickers |-> [picker[p] EXCEPT !.free = @ \ {x.target}]]
        /\ failure' = [failure EXCEPT ![f] = Finished]
        /\ UNCHANGED clock

\* No rule matches, RecordUsage failed before, or the INSERT fails.
NoBan(f) ==
    /\ failure[f].pc = "insert"
    /\ failure' = [failure EXCEPT ![f] = Finished]
    /\ UNCHANGED <<clock, bans, picker, banned>>

-----------------------------------------------------------------------------
(* UnbanRoute: every ban of the target that is still open is closed.       *)

Unban(t) ==
    /\ bans' = {IF b.target = t THEN [b EXCEPT !.unbanned = TRUE] ELSE b : b \in bans}
    /\ banned' = [banned EXCEPT ![t] = 0]
    /\ UNCHANGED <<clock, failure, picker>>

-----------------------------------------------------------------------------
(* pick.                                                                   *)

\* Targets whose bans have been over for a second or more, or lifted.
LongFree == {t \in Targets : banned[t] = 0 \/ banned[t] + PerSecond <= clock}

PickBegin(p) ==
    /\ picker[p].pc = "idle"
    /\ \E usable \in SUBSET Targets :
         picker' = [picker EXCEPT ![p] =
             [pc |-> "check", usable |-> usable, next |-> 1, now |-> clock,
              free |-> LongFree, result |-> Null]]
    /\ UNCHANGED <<clock, bans, failure, banned>>

Skips(p) ==
    LET t == Order[picker[p].next]
    IN  t \notin picker[p].usable \/ ActiveBan(t, picker[p].now)

PickSkip(p) ==
    /\ picker[p].pc = "check"
    /\ picker[p].next <= Len(Order)
    /\ Skips(p)
    /\ picker' = [picker EXCEPT ![p].next = @ + 1]
    /\ UNCHANGED <<clock, bans, failure, banned>>

\* Mutated form: the position of the candidate is returned for its ID.
PickTake_Mutant(p) ==
    /\ picker[p].pc = "check"
    /\ picker[p].next <= Len(Order)
    /\ ~Skips(p)
    /\ picker' = [picker EXCEPT ![p] = [NoPick EXCEPT !.result = picker[p].next]]
    /\ UNCHANGED <<clock, bans, failure, banned>>

PickTake(p) ==
    /\ picker[p].pc = "check"
    /\ picker[p].next <= Len(Order)
    /\ ~Skips(p)
    /\ picker' = [picker EXCEPT ![p] = [NoPick EXCEPT !.result = Order[picker[p].next]]]
    /\ UNCHANGED <<clock, bans, failure, banned>>

\* Every candidate was skipped: Handled is false.
PickNone(p) ==
    /\ picker[p].pc = "check"
    /\ picker[p].next > Len(Order)
    /\ picker' = [picker EXCEPT ![p] = NoPick]
    /\ UNCHANGED <<clock, bans, failure, banned>>

\* ActiveBan returned an error.
PickFails(p) ==
    /\ picker[p].pc = "check"
    /\ picker' = [picker EXCEPT ![p] = NoPick]
    /\ UNCHANGED <<clock, bans, failure, banned>>

Next ==
    \/ Tick
    \/ \E f \in Failures : Fail(f) \/ Deliver(f) \/ AddBan(f) \/ NoBan(f)
    \/ \E t \in Targets : Unban(t)
    \/ \E p \in Pickers : PickBegin(p) \/ PickSkip(p) \/ PickTake(p)
                            \/ PickNone(p) \/ PickFails(p)

Spec == Init /\ [][Next]_vars

-----------------------------------------------------------------------------
(* Properties.                                                             *)

Took(p, t) == picker[p].pc = "check" /\ picker'[p].pc = "idle" /\ picker'[p].result = t

\* A pick never returns a target while any of the bans put on it since it was
\* last unbanned has a second or more to run, in whatever order the callbacks
\* were delivered and however long each ban is (runtime.go:330, store.go:522).
PickAvoidsBans ==
    [][\A p \in Pickers, t \in Targets :
         Took(p, t) => banned[t] < picker[p].now + PerSecond]_vars

\* "sorts candidates by priority and ID, skips active bans, and returns the
\* first usable candidate": a usable target that no ban touched during the
\* pick is not passed over, neither for a later candidate nor for none.
PickTakesFree ==
    \A p \in Pickers :
        LET passed == {Order[i] : i \in 1 .. picker[p].next - 1}
        IN  passed \cap picker[p].usable \cap picker[p].free = {}

\* Every ban lasts at least the rule's minimum and at most its maximum, where
\* the maximum has the last word, also when the upstream's reset is further
\* away or has passed, and when a Retry-After overflows (routehealth.go:81-103,
\* 149).
BanBounded ==
    \A b \in bans : \E i \in DOMAIN Rules :
        /\ b.target \in Rules[i].matches
        /\ Rules[i].max > 0 => b.expires <= b.at + Rules[i].max
        /\ Rules[i].max = 0 \/ Rules[i].min <= Rules[i].max
             => b.expires >= b.at + Rules[i].min
=============================================================================
