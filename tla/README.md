# usage-quota-guard: specification, model checking and proofs

This directory models the CPA plugin `usage-quota-guard` (Go, `src/`) in TLA+.
The plugin is loaded into a proxy for model APIs. It authenticates downstream
keys against a token quota, accounts for what each request used, follows the
weekly quota boundaries the upstream announces, and keeps requests away from
upstream targets that answer 429. All of it runs in handlers that the host
calls concurrently, on one SQLite database and a little memory.

`PROJECT.json` names every run, mutant, hazard and theorem and maps each
definition to the lines it translates.

## 1. Inventory

| component | state | operations | hard behaviour |
|---|---|---|---|
| quota cycle (`store.go:315-393`, `config.go:257`) | row of `quota_cycle_state`; `quotaMu` | `CurrentPeriod`, `ObserveUpstreamWeeklyReset` | stale clock readings at the lock, late usage callbacks, a boundary nobody would apply |
| usage ledger (`store.go:395-409`, `451-507`) | `usage_events`, `monthly_usage`; `usageMu` | `RecordUsage`, `PruneUsageEvents`, `ResetKeyUsage` | two deliveries of one request, other connections' commits, retention, two Stores, crashes |
| quota admission (`store.go:177-224`) | `api_keys`, totals | `AuthenticateKey` | four statements without a lock; nothing reserved until the response |
| key registry (`store.go:188-313`, `411-449`) | `api_keys` | registration of unknown keys, `AddAPIKey`, `UpdateAPIKey`, `DeleteAPIKey`, `GetAPIKey`, `ListAPIKeys`, `ResetKeyUsage` | two first requests of one key, operators between the statements of any call |
| plugin lifecycle (`runtime.go:86-132`, `store.go:595-619`) | `Runtime.cfg`, `Runtime.store`, the file of the secret | `configure`, `Shutdown`, `snapshot`, `loadSecret` | the Store is swapped and closed under running handlers; two Stores with a `quotaMu` each; torn writes |
| stream interception (`runtime.go:184-239`) | `Runtime.streamUsage`; `streamMu` | `interceptStreamChunk` | a shared map each handler expires for the others; recording outside the lock |
| route health (`routehealth.go`, `runtime.go:297-350`, `store.go:509-563`) | `route_bans` | `AddOrExtendBan`, `ActiveBan`, `UnbanRoute`, `pick` | late callbacks, bans inserted during a pick, text timestamps, durations that wrap around |
| usage conversion (`convert.go`, `store.go:456-466`) | none | `FromCPA`, `FromInterceptedResponse`, `HasTerminalStreamUsage` | five formats, fallbacks between token counters, framed and bare chunks |
| configuration (`config.go`) | none | `Load`, `Default`, `Validate` | defaults, flat and nested fields, the spelling of words |
| key extraction (`auth/extract.go`) | none | `ExtractAPIKey` | authentication sees the query, interception does not |
| management API (`handler.go`) | none | routes to the Store's operations | several statements per route |
| ABI, cgo entry, dashboard, scripts | none | | memory ownership across C, outside TLA+ |

How they interact. The host calls `HandleMethod` from many goroutines. Each
handler takes a `snapshot()` of configuration and Store, reads `time.Now()`
once, and then calls the Store. `frontendAuth` calls `AuthenticateKey`, which
calls `CurrentPeriod`. A response reaches `recordInterceptedUsage` (directly or
at the end of a stream) and perhaps, later, `handleUsage`; both call
`ObserveUpstreamWeeklyReset`, `RecordUsage` (which calls `CurrentPeriod`) and
`PruneUsageEvents`. `handleUsage` also bans targets, which `pick` reads.

What makes each component correct is stated by the properties below; the
hazards they answer are listed, each at its line, in `PROJECT.json`.

## 2. Modules

| module | models | checked by |
|---|---|---|
| `WeeklyCycle` | the cycle row and the two functions on it, one disjunct per way out | (used by the next two and by `PluginRuntime`) |
| `QuotaCycle` | handlers of requests, callbacks and lookups that use the row late | `cycle`, `cycle_reapplied` |
| `QuotaGuard` | admission, response, accounting, on top of `WeeklyCycle` | `guard`, `guard_lockout` |
| `UsageAccount` | what accounting promises, in one step per request | (abstract) |
| `UsageLedger` | `RecordUsage` statement by statement on SQLite | `ledger*`; refines `UsageAccount` |
| `StreamUsage` | the stream-chunk interceptor and its map | `stream` |
| `RouteHealth` | bans, duration rules, pick | `route` |
| `KeyRegistry` | authentication and the management routes on keys, statement by statement | `registry` |
| `PluginRuntime` | `configure`, `Shutdown`, the secret, and the cycle row under two Stores | `runtime` |
| `ConfigLoad`, `KeyExtraction`, `UsageConvert` | the pure functions: `Load`, `ExtractAPIKey`, usage conversion | (used by the next) |
| `ResponseCharge` | one request from its credentials to the columns it is charged to, composing the three | `charge` |
| `QuotaCycleProofs` | theorems about `QuotaCycle` | TLAPS |
| `QuotaGuardProofs` | theorems about `QuotaGuard`: how far a key exceeds its limit | TLAPS |
| `UsageLedgerProofs` | theorems about `UsageLedger`, the refinement among them | TLAPS |
| `StreamUsageProofs` | theorems about `StreamUsage` | TLAPS |
| `KeyRegistryProofs` | theorems about `KeyRegistry` | TLAPS |
| `PluginRuntimeProofs` | theorems about `PluginRuntime`: Stores, secrets, the cycle row, atomic sections | TLAPS |
| `ResponseChargeProofs` | theorems about `ResponseCharge` and the pure functions it composes | TLAPS |
| `RouteHealthProofs` | theorems about `RouteHealth` | TLAPS |
| `MC*` | values of the constants for TLC, symmetry | |

Operators named `..._Mutant` are mutated forms of the definition after them;
no specification uses them. They are there to see every property fail.

### Correspondence with the code

**Cycle.** `cycle` is the row, `Null` before the first boundary. The row's
`period`, `next`, `prev`, `started` are `period`, `next_reset_at`,
`previous_period`, `period_started_at`. A SELECT and its UPDATE run under
`quotaMu`, so `CurrentPeriod` and `ObserveUpstreamWeeklyReset` are one action
each. Period names are records: a calendar period by its number, an upstream
period by its boundary. Calendar periods have equal length; ISO weeks do.

**Handlers.** A call in `QuotaCycle` holds `now` (the handler's clock reading)
and `stamp` (`UsageEvent.Timestamp`): equal for the interceptor, the time of
admission for the callback. Between the reading and the lock anything may
happen, for at most `MaxLag`.

**Guard.** A member of `Requests` is a place for one request, from its
authentication until its last delivery is over or given up; how many places
there are is how many requests are outstanding at one time, whichever clients
sent them. `AuthenticateKey` is four steps, one for each of its statements. The
upstream answers (`Respond`), then the interceptor and `handleUsage` come in
either order, at any distance, or not at all (`Deliver`, `Leave`); each observes
the boundary and records, or ends without having charged (`Unrecorded`: no
request ID for the interceptor, no key, a failing statement), in which case the
tokens wait for the other. The second that records finds the event of the first
and adds nothing, retention being far longer than a callback is queued. The two
do not overlap here: `UsageLedger` interleaves them, and has the retention.

**Ledger.** A delivery is a request and the handler that brings it. Its program
counter stands at a statement of `RecordUsage`: `lock`, `resolve`
(`CurrentPeriod`), `begin` (BEGIN and the SELECT), `write` (the INSERT, which
takes SQLite's write lock), `commit` (the upsert and COMMIT, which may fail and
roll back), then `prune`. The transaction reads
`base` at its snapshot and writes `base + Cost` at the end, so a lost update
would show. `stale` says that somebody committed since the snapshot. SQLite is
external: its rules (one writer; a write on an outdated snapshot fails at once,
without the busy timeout; a transaction that begins with a write waits) are
taken from how the Store opens it (`journal_mode=WAL`, deferred transactions).
Time is counted in days, the unit of the retention.

**Stream.** A chunk is one of four kinds, the four outcomes of
`HasInterceptedUsage` and `HasTerminalStreamUsage`. Chunks of one stream are
handled one after another: the host waits for the interceptor before it passes
a chunk on. A handler that fails to observe the boundary is gone before it has
looked at its chunk (`ObserveFails`). `Joins` says whether the kept chunks parse
when they are joined; if not, `Record` adds no event. The stream's key is the stream: request ID and key are fixed, and
the secret is taken to survive a reconfiguration.

**Route health.** A failure chooses its target and headers. `Deliver` is the
start of `handleUsage` and reads the clock, `AddBan` is the INSERT. `TextRank`
is the order of RFC3339Nano text. `RetryAfterDuration` keeps the
width of a `time.Duration`: a product beyond `DurationMax` wraps around. A date
in Retry-After is counted from the clock at the INSERT, which is later than the
handler's own reading, as that of `time.Until` is.

**Registry.** A call's program counter stands before its next statement. Every
statement is atomic on the table and nothing holds between two of them, as in
the code. What `AuthenticateKey` carries from one to the next is the limit it
read. An `INSERT` on a taken key is a conflict for a first request (an error to
the host) and `already_exists` for an operator. A reply is what the last step
returned. `seen` is history: the rows and totals a running call could have read;
`approved` the keys an operator made active. `Fail` is an error of any
statement. The unknown-key policy is chosen in `Init`.

**Lifecycle.** The program counter of `configure` follows the code: load or
draw the secret, truncate and fill its file (`os.WriteFile` truncates first),
open a Store, swap it in under `r.mu`, close the old one. `Shutdown` takes the
Store away and closes it. A crash leaves the database and the file. A handler
keeps the Store of its snapshot; once closed, its statements fail. On the cycle
row a handler is `lock`, `read` (SELECT), `update` (the decision on what was
read, and the INSERT or UPDATE). The decision reads the instance `Seen` of
`WeeklyCycle`, the row as it was read; what is written is the columns each
branch names, on the row as it is.

**Conversion.** A JSON document is the usage objects in it by the place they
stand in; a body is a sequence of documents, framed by `data:` or bare. The
operators of `UsageConvert` follow `convert.go` and the breakdown in
`RecordUsage`. What each provider sends is external: the formats of
`ResponseCharge` follow the fields `convert.go` reads and the bodies of its tests. `Used` says what a
format means; `ChargedAsUsed` compares it with what the columns get. The map
of kept chunks is `streamUsage` here as well, with the chunks of the one stream
joined as they are kept rather than at the end.

**Configuration and keys.** A raw word is a name and whether its spelling is
odd (case, blanks). `Load` is defaults, dotted over nested, defaults for what is
empty, `Validate`; its order of trimming and defaulting is kept, since it
differs between fields. A request is the key at each place.

## 3. Runs

| run | question | bounds |
|---|---|---|
| `cycle` | Is usage charged to the period it belongs to, is the row in order, and is a boundary applied without a response after it? | 2 requests, 1 lookup, boundaries 2 and 4, calendar periods of 3, lag 0 |
| `cycle_reapplied` (violated) | Is late usage kept out of the new period when handlers are late too? | lag 1, time 3 |
| `ledger` | Is accounting atomic, and exactly once while the event is retained? | 2 requests (one without ID), both deliveries, 3 days, retention 1, 2 periods |
| `ledger_reconfigure` | The same with two Stores at once, and does every handler end? | same requests, 1 day, crashes |
| `ledger_lost` (violated) | Is every intercepted response accounted for? | 1 request |
| `guard` | How far can a key exceed its limit, and does it recover at a stored boundary? | 2 requests of one key outstanding at a time, limit 1, cost 1, boundaries 1 and 2, calendar periods of 3, time 2, lag 0 |
| `guard_lockout` (violated) | Does it recover when no boundary is stored? | 2 requests of one key outstanding at a time, limit 1, boundaries 1 and 3, time 2 |
| `stream` | Is the usage found in a stream that is not interrupted recorded, and whole? | 2 streams of 3 chunks, one of them of bare documents, time to live 2, lag 1, time 4 |
| `route` | Does pick avoid banned targets and take free ones, and are bans bounded? | 2 failures, 2 targets, 1 picker, half seconds, 3 rules nothing validates, 3 kinds of header, durations below 16 half seconds |
| `registry` | Does every authentication answer what was so, and do operators alone decide? | 2 requesters of one key, a second key, 2 operators, 2 operator calls, 3 bodies, total 1 |
| `runtime` | Are Stores owned, is the secret kept, and what can two Stores do to the cycle row? | 3 Stores, 2 admins, 2 callers, 3 secrets, 2 configures, boundaries 2 and 4, lag 1, time 4 |
| `charge` | Is a response charged once, to the right key, in the right columns? | 7 configurations, 4 requests, every response of 5 formats sent in 4 ways, with and without ID |

Why these bounds are enough. The cycle row remembers one previous period, so
the calendar period and two boundaries reach every shape of it, with a request
that spans each of them; what the row keeps at any lag and for any number of
boundaries is proved. Dedup concerns two deliveries of one request; a second
request, of another cost and without an ID, is what may interleave with them.
Days 0 to 2 and a retention of 1 let an event expire and its second delivery
come later. A commit or an upsert may fail in any of the ledger's runs. A place
of the guard is used again and again, so two outstanding requests, each charged
before or after any number of others were admitted, give every order of two
admissions and two charges; with one request enough to exhaust the key, the
least that is admitted too much shows (the bound is reached: both requests at
once). Boundaries 1 and 2 make a key exhaust the calendar period, the first
upstream period and the second, with charges still to come from each to the next. The invariant of the
proof was also checked at lag 1. Two streams are what expiry needs: one to lose,
one to expire; three chunks let a failed join be followed by a chunk that is
recorded alone. Two bans of different length on one target,
in either order, are what `ActiveBan` has to get right; the rules have a missing
minimum, a minimum above the maximum, and one like the defaults; two values of
Retry-After wrap around, one to a negative duration and one to a small one, and
the third is a date that may have passed.
Every race in the registry is between one call and what happens between two of
its statements: two requesters give the race of two first requests, two operator
calls give a row that appears and goes again (or is approved and disabled) in
one gap, and the second key gives a listing something to miss. Two overlapping
configures need three Stores: the one in place and the two they open. A third
secret is the torn remainder of another. In `charge` the token counts are numbers
whose sums differ, so a counter in a wrong column or counted twice shows; the
functions are the same for every number but zero, which is among the values.

### Bounds named in guards

`MaxTime`, `MaxDay` bound clocks, `MaxLag` the age of a reading, `MaxPeriod`
the changes of period in the ledger, `MaxUsed` the totals of unlimited keys in
the guard (a limited key stays below it by `OvershootBounded`) and all totals in
the registry, `MaxChunks` the chunks of a stream, `MaxCalls` the calls of
operators, `MaxConfigures` those of `configure`. `DurationMax` is no bound of
the check but the width of a `time.Duration`, made small.

### Fairness

* The clock advances (`SF(Tick)`) and handlers run on (`WF`/`SF` of their
  steps): Go schedules runnable goroutines, `sync.Mutex` does not starve a
  waiter, a statement waits at most `busy_timeout`.
* Lookups keep arriving in `cycle`, clients keep retrying in `guard` and
  `guard_lockout`: the premise of the code's recovery, stated as such. A client
  needs a place to retry in, so places are given back: the upstream answers, and
  the host calls with the deliveries or drops them. In the code there is always
  room for another request; which deliveries come is left open.
* With `MaxLag = 0` the clock waits for handlers that hold a reading;
  `[]<>(PendingNows = {})` says there are moments when none does.
* Nothing else is assumed of the host, the upstream or the operator: callbacks,
  headers and resets may never come.
* `KeyRegistry`, `PluginRuntime`, `ResponseCharge`, `StreamUsage` and
  `RouteHealth` state safety only and assume no fairness.

## 4. What disagrees with the documentation

Three runs end in a violation of what a document says; the quotes are in
`PROJECT.json`.

1. `cycle_reapplied`: a handler that is late at `quotaMu` stores a boundary
   again that has been applied. It is then applied twice, the previous period
   is forgotten, and late usage is charged to the new period.
2. `ledger_lost`: `RecordUsage` reads before it writes in a deferred
   transaction. Any commit in between fails the write; nobody retries.
3. `guard_lockout`: after a boundary has been applied none is stored. If the
   next responses carry no header and exhaust the key, it stays denied.

What else a reader of the code should know, found while modelling. The models
contain each of these, or name the assumption that leaves it out:

* `ResetKeyUsage` resolves the period and deletes in two steps; a boundary in
  between makes it clear the period that has just closed (`store.go:403`).
* The exemption of a stream from expiry holds only for the goroutine in the
  section, not for every stream that is delivering a chunk (`runtime.go:213`).
* If the handler that inserts the first row read its clock before the end of a
  calendar period, the row names that period again when another one is already
  charged (`store.go:370`). The totals of that period count again, and requests
  compared with the newer one are charged to it: with `MaxLag = 1` a model of
  `guard` breaks `OvershootBounded`. It can happen once in the life of a
  database; `LateOvershootIsBounded` says by how much at most.
* A reset header that has passed counts as no header, so a late callback bans
  for the fallback duration (`routehealth.go:99`).
* Nothing bounds how many requests are outstanding. A response without a request
  ID is charged by its queued callback only (`runtime.go:257`, `292`), as is one
  whose interceptor failed; a client that sends such requests one after another
  has each of them admitted by a total that holds none whose callback is still
  to come. `OvershootBounded` counts a request until its callback is over, and
  the key may exceed its limit by everything that is queued.
* In a stream of bare documents of which several report usage the interceptor
  charges nothing for them: joined by line feeds they are neither a document nor
  lines with `data:` (`runtime.go:235`, `convert.go:263`). They are taken out of
  the map all the same, so a further terminal chunk is then recorded alone.
  `StreamUsage` has such streams (`Bare`); `RecordedWhole`, `TerminalCounted` and
  `ChargedWithoutCallback` promise nothing of them.
* A chunk whose handler fails to observe the boundary loses its usage
  (`runtime.go:195-197`): what is recorded later is without it. If it was the
  terminal chunk, the stream stays in the map until another stream's handler
  expires it, unless a later chunk is terminal too. `RecordedWhole` and
  `TerminalCounted` speak of the chunks whose handlers looked at them, and hold
  whichever others failed.
* An upstream that repeats its cumulative usage in every chunk is charged at its
  first report (`runtime.go:225`): `ChargedAsUsed` promises "at most" for it.
* A chat upstream that sends reasoning tokens and no total is counted twice for
  them (`convert.go:85`); chat upstreams are taken to send the total.
* A secret file that exists and cannot be read, and two first configures at
  once, draw a second secret (`store.go:604`): `SecretKept` holds without them.
* Callers of two Stores can lose a learned boundary or set the period back
  (`store.go:340`): `LearnedBoundaryKept` and `StartNotLost` exclude the moments
  at which they meet, and say what holds even then.
* A PATCH without `monthly_token_limit` makes a key unlimited (`store.go:261`),
  and POST may answer an error after its INSERT (`store.go:238-242`).

## 5. Proofs

`tlapm` checks every theorem to the last leaf.

* `QuotaCycleProofs`: `TypeCorrect`, `RowInOrder`, `StartNeverMovesBack`, for
  any requests, lookups, boundaries and any lag. The inductive invariant `IInv`
  adds two facts to the properties. `FreshReadings`: no handler's reading is
  ahead of the clock. `KnownBoundaries`: a stored boundary was announced by the
  upstream. The first is what makes an applied boundary lie in the past; the
  second keeps boundaries comparable to one another.
  `LateUsageAttributed`, `ChargesStayWithinPeriod` hold under `MaxLag = 0` (run
  `cycle_reapplied` shows they need it). The invariant `PInv` adds that
  boundaries strictly increase, that closed periods are older than the current
  one, and that what is charged lies within the period's end, known or to come.
  `Move` names the four ways row and history change in one step, so that each
  fact is proved once per way.
* `QuotaGuardProofs`: `TypeCorrect`, `OvershootIsBounded`,
  `LateOvershootIsBounded`, for any keys, limits and costs and any finite number
  of requests outstanding at one time. A bound on
  a total is not inductive: it grows by every request that is charged to its
  period without having been compared with it. `GInv` bounds the total plus
  `MaxCost` for each of those requests (`Budget`). For the live period they are
  the requests let through and not charged yet, by whichever delivery it may be,
  and those that compare the total of an earlier period; for an earlier period,
  the uncharged ones of which a delivery has a time stamp from before its end. When a boundary is applied all that is under way becomes such a request
  of the new period, and fits, because a period that has yet to begin has no
  usage (`Unused`). `Room` holds the one exception, the first row that takes the
  calendar period back (section 4). `OvershootIsBounded` is about the runs'
  property and says `MaxLag = 0 \/ ~Weekly`, the two cases without it;
  `LateOvershootIsBounded` says what holds at any lag: nothing changes for an
  upstream period, and a calendar period may take what is outstanding a second time.
* `UsageLedgerProofs`: `LedgerTyped`, `RecountedLate` and the refinement
  `LedgerImplementsAccount`, for any requests, keys, Stores and retention. A
  commit is one step of `UsageAccount` only if the snapshot it writes from is
  still the present, so the invariant `LInv` says that the holder of SQLite's
  write lock is the one about to commit (`WriterCommits`) and that a
  transaction nobody outdated sees the present totals and no event of its
  request (`FreshSnapshots`). A second count is late because a counted event
  can only be missing by retention (`EventsKept`), and because the stamp, the
  clock reading and the clock are ordered (`Stamped`). `ForeignCommit` and
  `LocalStep` prove the two common kinds of step once.
* `StreamUsageProofs`: `TypeCorrect`, `StreamsRecordedWhole`,
  `TerminalChunkRecords`, for any streams, bare or framed, chunks, failing
  handlers, time to live and lag. The
  invariant `SInv` says where the chunks of a stream of which the properties
  promise something (`Regular`) are before there is an
  event (`Accounted`): in the map, but for the one whose handler waits, or with
  the handler that took them out.
  `Timely` holds the arithmetic by which no other stream's handler expires them:
  the pause before the handler's clock reading is at most `TTL - MaxLag`, the
  wait after it at most `MaxLag`.
* `KeyRegistryProofs`: `TypeCorrect`, `AnswersExplained`, `OnFileOperatorsDecide`,
  `ActiveOnlyByApproval`, `ListingsWhole`, for any keys, requesters, operators,
  bodies and limits. An answer is right for something the call has seen, so the invariant
  `RInv` adds what a requester has seen when it stands before a statement
  (`Informed`): the row and the total as they are by now, no row before the
  INSERT, an active row with the limit it keeps before the comparison. That an
  insertion changes no row on file is what the guard of `InsertUnknown` gives;
  the rest is that no other step writes rows. A listing is whole because it
  goes through all rows of one table the call has seen, and every row it fetches
  was in one of those tables (`Listing`).
* `PluginRuntimeProofs`: `StoresAlwaysOwned`, `OneSecret`, for any number of
  Stores, overlapping calls, failures and crashes. `OwnInv` adds from which
  statement on a call holds a Store (`HoldsLate`). `SecretInv` has a case for a
  secret in the environment and one for the file: while anyone writes the file
  nobody has used a secret, which is why a torn one does no harm. `Becomes`
  describes a step of a call once, for both.
  On the row, `TypeCorrect`, `BoundariesKept`, `StartKeptForGood`, for any lag.
  `CInv` says that a caller is in a section exactly if it holds its Store's
  `quotaMu` (`SectionsHeld`), so that until callers of two Stores meet the row
  that was read is the row written over (`ReadAsItIs`). What survives a meeting
  rests on time alone: `FreshReadings` and `RowInOrder`, which also speaks of the
  rows callers have read.
  `SectionsAreAtomic` is what lets the other modules take `CurrentPeriod` and
  `ObserveUpstreamWeeklyReset` as one action: until callers of two Stores meet,
  a section that ends has changed the row as the one action of `WeeklyCycle`
  would at that moment, and nothing else changes the row.
* `RouteHealthProofs`: `TypeCorrect`, `BansBounded`, `FreeTargetsTaken`,
  `BannedTargetsAvoided`, for any rules, headers, width of a duration and grain
  of time. `HInv` adds that the history `banned` is the end of a ban on file
  (`LongestBan`), so `ActiveBan` finds it, and that the bans of a target that is
  free for a pick were over a second before the pick began (`FreeLongOver`).
  `SecondApart` is the arithmetic of the text order.
* `ResponseChargeProofs`: `TypeCorrect`, `SameKey`, `Once`, `AsTheResponseSays`,
  `StockHosts`, for any configurations, requests, responses and token counts.
  `LoadIsLoaded` says what `Load` lets pass; no list of sources among it reads
  the query, so the interceptors find the key that was authenticated
  (`SameKeyFound`). `Merged` and `LargerIsWhole` say that the merged reports of a
  response are its report when sent whole; hence the interceptors' event is the
  host's (`SameEvent`), and the second delivery either finds the first or is the
  only one. `BodyIsChargedAsUsed` compares the columns with what the formats
  mean. The invariant `IInv` is `Control` (how far the request has come and what
  is at hand), `Books` (what has been charged, and with which event) and
  `Stream` (what is kept is what was sent so far, and what it amounts to).

Each of these invariants was checked with TLC on the bounds of the passing run
before it was proved.

Assumptions: the ASSUMEs of the modules, which TLC evaluates on each run.
`BoundariesFarApart` (a week is longer than a handler runs) is one of them in
`QuotaCycle` and `QuotaGuard`, and `PluginRuntimeAssumption` has the same. Jitter
in the header, two announcements of one boundary seconds apart, is therefore not
modelled. `UpstreamsReport` is what `ResponseCharge` takes from the formats: which
counters each has, that reasoning tokens are among the output tokens of the
OpenAI formats, that only chat upstreams repeat their cumulative usage, and that
a response uses something. The requests outstanding at one
time are finitely many.

Only model-checked: liveness under fairness, which is out of the prover's reach
(`BoundaryTakesEffect`, `DeliveriesEnd`, `RecoversAtBoundary`). The violations are
TLC traces. Every other property of a passing run is stated by a theorem.

## 6. Not modelled, and the plan

Left out: cgo memory ownership, JSON envelopes, HTTP routing, the dashboard and
the release scripts, which have no state TLC could follow; identifiers, display
names, fingerprints and error types, which decide nothing; the listing of bans,
which changes nothing. HMAC is taken to be injective: a key is its hash. Errors
in parsing a stored time stamp (`store.go:332-335`, `346-349`) are left out: the
Store wrote the text itself. So is the check of the time zone's name
(`config.go:251`), on which no property depends. Time stamps in `RouteHealth` have the
grain of a clock tick; RFC3339Nano drops trailing zeros of finer fractions as
well, which changes the order of text within a second only, and the properties
of `pick` leave a second's margin.

What could be added, in order:

1. Liveness in `PluginRuntime`: every call ends while Stores are swapped, as
   `DeliveriesEnd` says of the ledger.
2. `QuotaGuard` on top of `KeyRegistry`, so that limits change while a key runs
   against them; today each module has the half the other leaves out.
3. A proof that `QuotaGuard` and `QuotaCycle` are views of one system, so that
   what is proved of the attribution of late usage can be used for totals.
