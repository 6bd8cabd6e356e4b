----------------------------- MODULE UsageLedger -----------------------------
(***************************************************************************)
(* Store.RecordUsage and what runs beside it.  The usage of a request      *)
(* reaches the Store up to twice, from the response interceptor and from   *)
(* the queued usage callback, in any order and at any distance; RecordUsage *)
(* looks for an earlier event with the same request ID and, finding none,  *)
(* inserts the event and adds it to monthly_usage, all in one SQLite       *)
(* transaction under usageMu.  Other goroutines write to the same database *)
(* without that lock: authentication, bans, the quota cycle, retention,    *)
(* manual resets, and a second Store while the plugin is reconfigured.     *)
(*                                                                         *)
(* SQLite (WAL journal, deferred transactions) is modelled from how the    *)
(* Store uses it: the SELECT fixes the transaction's snapshot; the first   *)
(* write asks for the single write lock and fails at once, without the     *)
(* busy timeout, when another connection holds it or has committed since   *)
(* the snapshot.  A transaction that starts with a write waits.            *)
(***************************************************************************)
EXTENDS Integers, FiniteSets

CONSTANTS
    Requests,      \* requests that used tokens
    Tagged,        \* those whose upstream response carries a request ID
    Keys,          \* downstream keys
    KeyOf,         \* the key of each request
    Cost,          \* the tokens of each request
    Stores,        \* Store instances: the current one and those being replaced
    Retention,     \* cfg.Storage.RetentionDays
    MaxDay,        \* bound on the clock, in days
    MaxPeriod,     \* bound on the number of period changes
    Null

Periods == 0 .. MaxPeriod

ASSUME UsageLedgerAssumption ==
    /\ Tagged \subseteq Requests
    /\ KeyOf \in [Requests -> Keys]
    /\ Cost \in [Requests -> Nat]
    /\ Retention \in Nat \ {0}
    /\ MaxDay \in Nat
    /\ MaxPeriod \in Nat
    /\ Null \notin Nat
    /\ Null \notin Stores
    /\ Null \notin Requests \X {"intercept", "callback"}

\* Without a request ID the interceptor records nothing (runtime.go:256).
Deliveries == (Tagged \X {"intercept"}) \cup (Requests \X {"callback"})

VARIABLES
    day,           \* the clock
    requestedAt,   \* the day each request was made, Null before
    period,        \* the period CurrentPeriod answers at present
    monthly,       \* monthly_usage.total_tokens, by key and period
    events,        \* usage_events: the deliveries that inserted a row
    writer,        \* the connection that holds SQLite's write lock
    current,       \* Runtime.store
    open,          \* Stores whose database handle is not closed
    usageMu,       \* the holder of each Store's usageMu
    del,           \* the deliveries
    reset          \* a ResetKeyUsage call

vars == <<day, requestedAt, period, monthly, events, writer, current, open,
          usageMu, del, reset>>

Running == {"lock", "resolve", "begin", "write", "commit", "prune"}

Delivery ==
    [pc     : Running \cup {"idle", "done"},
     store  : Stores \cup {Null},   \* the Store of the handler's snapshot()
     now    : Nat,                  \* time.Now() of the handler
     stamp  : Nat,                  \* UsageEvent.Timestamp
     period : Periods,              \* UsageEvent.Month
     base   : Nat,                  \* the total in the transaction's snapshot
     stale  : BOOLEAN,              \* somebody committed since the snapshot
     result : {"none", "counted", "duplicate", "error", "lost"}]

Reset == [pc : {"idle", "delete"}, key : Keys, period : Periods]

TypeOK ==
    /\ day \in Nat
    /\ requestedAt \in [Requests -> Nat \cup {Null}]
    /\ period \in Periods
    /\ monthly \in [Keys -> [Periods -> Nat]]
    /\ events \subseteq Deliveries
    /\ writer \in Deliveries \cup {Null}
    /\ current \in Stores
    /\ open \subseteq Stores
    /\ usageMu \in [Stores -> Deliveries \cup {Null}]
    /\ del \in [Deliveries -> Delivery]
    /\ reset \in Reset

Idle == [pc |-> "idle", store |-> Null, now |-> 0, stamp |-> 0, period |-> 0,
         base |-> 0, stale |-> FALSE, result |-> "none"]

Init ==
    /\ day = 0
    /\ requestedAt = [q \in Requests |-> Null]
    /\ period = 0
    /\ monthly = [k \in Keys |-> [p \in Periods |-> 0]]
    /\ events = {}
    /\ writer = Null
    /\ current \in Stores
    /\ open = {current}
    /\ usageMu = [s \in Stores |-> Null]
    /\ del = [d \in Deliveries |-> Idle]
    /\ reset \in [pc : {"idle"}, key : Keys, period : {0}]

-----------------------------------------------------------------------------
(* The database.                                                           *)

\* A commit by somebody else outdates every open snapshot.
Outdate(f) ==
    [d \in Deliveries |-> IF f[d].pc = "write" THEN [f[d] EXCEPT !.stale = TRUE]
                          ELSE f[d]]

\* Any other goroutine's statement: last_seen_at, a ban, a key, the cycle row.
OtherWrite ==
    /\ writer = Null
    /\ del' = Outdate(del)
    /\ UNCHANGED <<day, requestedAt, period, monthly, events, writer, current,
                   open, usageMu, reset>>

\* Some call of CurrentPeriod or ObserveUpstreamWeeklyReset applies a boundary.
Rollover ==
    /\ writer = Null
    /\ period < MaxPeriod
    /\ period' = period + 1
    /\ del' = Outdate(del)
    /\ UNCHANGED <<day, requestedAt, monthly, events, writer, current, open,
                   usageMu, reset>>

Tick ==
    /\ day < MaxDay
    /\ day' = day + 1
    /\ UNCHANGED <<requestedAt, period, monthly, events, writer, current, open,
                   usageMu, del, reset>>

-----------------------------------------------------------------------------
(* RecordUsage, as both handlers call it.                                  *)

Request(q) ==
    /\ requestedAt[q] = Null
    /\ requestedAt' = [requestedAt EXCEPT ![q] = day]
    /\ UNCHANGED <<day, period, monthly, events, writer, current, open,
                   usageMu, del, reset>>

\* recordInterceptedUsage stamps the event with its own clock, handleUsage
\* with the time of the request.
Stamp(d) == IF d[2] = "intercept" THEN day ELSE requestedAt[d[1]]

Start(d) ==
    /\ requestedAt[d[1]] # Null
    /\ del[d].pc = "idle"
    /\ del' = [del EXCEPT ![d].pc = "lock", ![d].store = current,
                          ![d].now = day, ![d].stamp = Stamp(d)]
    /\ UNCHANGED <<day, requestedAt, period, monthly, events, writer, current,
                   open, usageMu, reset>>

Lock(d) ==
    /\ del[d].pc = "lock"
    /\ usageMu[del[d].store] = Null
    /\ usageMu' = [usageMu EXCEPT ![del[d].store] = d]
    /\ del' = [del EXCEPT ![d].pc = "resolve"]
    /\ UNCHANGED <<day, requestedAt, period, monthly, events, writer, current,
                   open, reset>>

Unlock(d) == usageMu' = [usageMu EXCEPT ![del[d].store] = Null]

\* The handler has ended; what it wrote and how it went is kept.
Ended(x, result) ==
    [Idle EXCEPT !.pc = "done", !.stamp = x.stamp, !.result = result]

\* RecordUsage has returned nil: the pruning follows.
Recorded(x, result) ==
    [Ended(x, result) EXCEPT !.pc = "prune", !.store = x.store, !.now = x.now]

\* Mutated form: the error path does not release usageMu.
ReturnError_Mutant(d, result) ==
    /\ del' = [del EXCEPT ![d] = Ended(@, result)]
    /\ UNCHANGED usageMu

\* RecordUsage returns an error, which ends the handler.
ReturnError(d, result) ==
    /\ del' = [del EXCEPT ![d] = Ended(@, result)]
    /\ Unlock(d)

\* Mutated form: the period before the first one.
Resolve_Mutant(d) ==
    /\ del[d].pc = "resolve"
    /\ del[d].store \in open
    /\ \E p \in {period, period - 1} :
         del' = [del EXCEPT ![d].pc = "begin", ![d].period = p]
    /\ UNCHANGED <<day, requestedAt, period, monthly, events, writer, current,
                   open, usageMu, reset>>

\* CurrentPeriod(event.Timestamp): the current period, or the previous one
\* for an event that predates it.
Resolve(d) ==
    /\ del[d].pc = "resolve"
    /\ del[d].store \in open
    /\ \E p \in {period, period - 1} \cap Periods :
         del' = [del EXCEPT ![d].pc = "begin", ![d].period = p]
    /\ UNCHANGED <<day, requestedAt, period, monthly, events, writer, current,
                   open, usageMu, reset>>

\* Mutated form: only an event of the same handler counts as a duplicate.
EventExists_Mutant(d) == d \in events

EventExists(d) == \E e \in events : e[1] = d[1]

\* BEGIN and the SELECT on (request_id, key_hash), which fixes the snapshot.
BeginTagged(d) ==
    /\ del[d].pc = "begin"
    /\ del[d].store \in open
    /\ d[1] \in Tagged
    /\ ~EventExists(d)
    /\ del' = [del EXCEPT ![d].pc = "write",
                          ![d].base = monthly[KeyOf[d[1]]][del[d].period],
                          ![d].stale = FALSE]
    /\ UNCHANGED <<day, requestedAt, period, monthly, events, writer, current,
                   open, usageMu, reset>>

\* The SELECT finds an earlier event of this request.
Duplicate(d) ==
    /\ del[d].pc = "begin"
    /\ del[d].store \in open
    /\ d[1] \in Tagged
    /\ EventExists(d)
    /\ del' = [del EXCEPT ![d] = Recorded(@, "duplicate")]
    /\ Unlock(d)
    /\ UNCHANGED <<day, requestedAt, period, monthly, events, writer, current,
                   open, reset>>

\* No request ID: no SELECT, the snapshot is the one the INSERT finds.
BeginUntagged(d) ==
    /\ del[d].pc = "begin"
    /\ del[d].store \in open
    /\ d[1] \notin Tagged
    /\ writer = Null
    /\ writer' = d
    /\ del' = [del EXCEPT ![d].pc = "commit",
                          ![d].base = monthly[KeyOf[d[1]]][del[d].period]]
    /\ UNCHANGED <<day, requestedAt, period, monthly, events, current, open,
                   usageMu, reset>>

\* Mutated form: the total is written from a snapshot that may be outdated.
MayWrite_Mutant(d) == writer = Null

\* The transaction's first write gets the lock only on a fresh snapshot.
MayWrite(d) == writer = Null /\ ~del[d].stale

Write(d) ==
    /\ del[d].pc = "write"
    /\ MayWrite(d)
    /\ writer' = d
    /\ del' = [del EXCEPT ![d].pc = "commit"]
    /\ UNCHANGED <<day, requestedAt, period, monthly, events, current, open,
                   usageMu, reset>>

\* SQLITE_BUSY or SQLITE_BUSY_SNAPSHOT: rolled back, reported, not retried.
WriteBusy(d) ==
    /\ del[d].pc = "write"
    /\ ~MayWrite(d)
    /\ ReturnError(d, "error")
    /\ UNCHANGED <<day, requestedAt, period, monthly, events, writer, current,
                   open, reset>>

\* Mutated form: the upsert replaces the total.
NewTotal_Mutant(d) == Cost[d[1]]

\* total_tokens = total_tokens + excluded.total_tokens, on the snapshot.
NewTotal(d) == del[d].base + Cost[d[1]]

Commit(d) ==
    /\ del[d].pc = "commit"
    /\ events' = events \cup {d}
    /\ monthly' = [monthly EXCEPT ![KeyOf[d[1]]][del[d].period] = NewTotal(d)]
    /\ writer' = Null
    /\ del' = [Outdate(del) EXCEPT ![d] = Recorded(@, "counted")]
    /\ Unlock(d)
    /\ UNCHANGED <<day, requestedAt, period, current, open, reset>>

\* The upsert or the COMMIT fails, of a full disk for instance, and the
\* transaction is rolled back.
CommitFails(d) ==
    /\ del[d].pc = "commit"
    /\ writer' = Null
    /\ ReturnError(d, "lost")
    /\ UNCHANGED <<day, requestedAt, period, monthly, events, current, open, reset>>

\* The Store's handle was closed: every new statement fails.
Closed(d) ==
    /\ del[d].pc \in {"resolve", "begin"}
    /\ del[d].store \notin open
    /\ ReturnError(d, "error")
    /\ UNCHANGED <<day, requestedAt, period, monthly, events, writer, current,
                   open, reset>>

-----------------------------------------------------------------------------
(* PruneUsageEvents(cfg.RetentionCutoff(now)), at the end of each handler. *)

\* Mutated form: an event is dropped when it is exactly Retention old.
Expired_Mutant(d) == {e \in events : del[e].stamp <= del[d].now - Retention}

Expired(d) == {e \in events : del[e].stamp < del[d].now - Retention}

Prune(d) ==
    /\ del[d].pc = "prune"
    /\ writer = Null
    /\ del[d].store \in open
    /\ events' = events \ Expired(d)
    /\ del' = [(IF Expired(d) = {} THEN del ELSE Outdate(del))
                  EXCEPT ![d] = Ended(@, @.result)]
    /\ UNCHANGED <<day, requestedAt, period, monthly, writer, current, open,
                   usageMu, reset>>

\* The DELETE timed out or the Store was closed.
PruneFails(d) ==
    /\ del[d].pc = "prune"
    /\ writer # Null \/ del[d].store \notin open
    /\ del' = [del EXCEPT ![d] = Ended(@, @.result)]
    /\ UNCHANGED <<day, requestedAt, period, monthly, events, writer, current,
                   open, usageMu, reset>>

-----------------------------------------------------------------------------
(* ResetKeyUsage: the period is resolved, then its total deleted.          *)

ResetBegin ==
    /\ reset.pc = "idle"
    /\ \E k \in Keys :
         reset' = [pc |-> "delete", key |-> k, period |-> period]
    /\ UNCHANGED <<day, requestedAt, period, monthly, events, writer, current,
                   open, usageMu, del>>

ResetDelete ==
    /\ reset.pc = "delete"
    /\ writer = Null
    /\ monthly' = [monthly EXCEPT ![reset.key][reset.period] = 0]
    /\ del' = Outdate(del)
    /\ reset' = [reset EXCEPT !.pc = "idle"]
    /\ UNCHANGED <<day, requestedAt, period, events, writer, current, open,
                   usageMu>>

\* The key is unknown, or a statement fails.
ResetFails ==
    /\ reset.pc = "delete"
    /\ reset' = [reset EXCEPT !.pc = "idle"]
    /\ UNCHANGED <<day, requestedAt, period, monthly, events, writer, current,
                   open, usageMu, del>>

-----------------------------------------------------------------------------
(* configure, and the process.                                             *)

\* A new Store is opened on the same file and replaces the old one.  (One that
\* no handler holds any more stands for the new one.)
Reconfigure ==
    /\ open = {current}
    /\ \E s \in Stores \ {current} :
         /\ \A d \in Deliveries : del[d].store # s
         /\ current' = s
         /\ open' = {current, s}
    /\ UNCHANGED <<day, requestedAt, period, monthly, events, writer, usageMu,
                   del, reset>>

\* old.Close(): transactions that have begun run on, new statements fail.
CloseOld ==
    /\ open # {current}
    /\ open' = {current}
    /\ UNCHANGED <<day, requestedAt, period, monthly, events, writer, current,
                   usageMu, del, reset>>

\* The process stops and starts again with a Store like new; a transaction
\* that has not committed leaves no trace.
Crash ==
    /\ open' = {current}
    /\ writer' = Null
    /\ usageMu' = [s \in Stores |-> Null]
    /\ del' = [d \in Deliveries |->
                 CASE del[d].pc = "prune" -> Ended(del[d], del[d].result)
                   [] del[d].pc \in Running \ {"prune"} -> Ended(del[d], "lost")
                   [] OTHER -> del[d]]
    /\ reset' = [reset EXCEPT !.pc = "idle"]
    /\ UNCHANGED <<day, requestedAt, period, monthly, events, current>>

Step(d) ==
    \/ Lock(d) \/ Resolve(d) \/ BeginTagged(d) \/ Duplicate(d)
    \/ BeginUntagged(d) \/ Write(d) \/ WriteBusy(d) \/ Commit(d) \/ CommitFails(d)
    \/ Closed(d) \/ Prune(d) \/ PruneFails(d)

Next ==
    \/ OtherWrite \/ Rollover \/ Tick
    \/ \E q \in Requests : Request(q)
    \/ \E d \in Deliveries : Start(d) \/ Step(d)
    \/ ResetBegin \/ ResetDelete \/ ResetFails
    \/ Reconfigure \/ CloseOld \/ Crash

Spec == Init /\ [][Next]_vars

(* A handler that has started keeps running, and sync.Mutex does not starve *)
(* a waiter; nothing is assumed of what the host delivers.                  *)
FairSpec == Spec /\ \A d \in Deliveries : SF_vars(Step(d))

-----------------------------------------------------------------------------
(* Properties.                                                             *)

\* Every step of the database is one of UsageAccount: totals change by exactly
\* one request's tokens, a remembered request is not added again, and no two
\* concurrent recordings overwrite one another's total (store.go:451-502).
Account == INSTANCE UsageAccount WITH
    account <- monthly,
    remembered <- {e[1] : e \in events}

ImplementsAccount == Account!Spec

\* A request ID guards against double counting for as long as the retention
\* keeps its event: the second delivery of a request is counted only when the
\* request is older than the retention.
Counted(q) == {d \in Deliveries : d[1] = q /\ del[d].result = "counted"}

RecountNeedsExpiry ==
    \A q \in Tagged :
        Cardinality(Counted(q)) > 1 => requestedAt[q] + Retention < day

\* "Successful response accounting still works on stock CPA": a response the
\* interceptor has finished with, the process having run on and the disk having
\* taken the write, is in the totals.
InterceptedIsCounted ==
    \A q \in Tagged :
        del[<<q, "intercept">>].pc = "done"
            => \/ Counted(q) # {}
               \/ del[<<q, "intercept">>].result = "lost"

\* A handler that started ends, whatever it loses against: no lock is kept.
DeliveriesEnd ==
    \A d \in Deliveries : del[d].pc \in Running ~> del[d].pc = "done"
=============================================================================
