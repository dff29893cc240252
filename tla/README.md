# TLA+ models of the gocb aggregating meter and its neighbours

This directory holds TLA+ models of the Go sources under `src/`. Each module is
translated from the code. The TLC configurations check what the code promises.
`PROJECT.json` lists every component, run, mutant, mapped definition, finding and
hazard. This README explains them.

## 1. Inventory

### The system

The sources are four files from the couchbase Go SDK (`gocb`):

| Part | Source | State it keeps | Operations |
|---|---|---|---|
| Latency histogram | `scope_searchquery.go` 193-270 | `bins []uint64`, plus the shape: `maxValue`, `startValue` (also `scaleFactor`), `commonRatio`, `ratioLog` | `newLatencyHistogram`, `RecordValue` (one `atomic.AddUint64`), `AggregateAndReset` (one `atomic.SwapUint64` per bin, building a running sum), `TotalCount`, `BinAtPercentile` |
| Value recorder | 272-300 | `peerName` and one histogram (shape 2,000,000 / 1,000 / 1.5) | `RecordValue`, `GetAndResetValues` (reset, then total and the percentiles 50, 90, 99, 99.9, 100) |
| Recorder group | 33-53 | `lock`, `recorders map[peer]*recorder` | `Recorders()` copies the map's values under the lock |
| Aggregating meter | 55-191 | `interval`, a fixed map from service to group, `stopCh` (unbuffered) | `NewAggregatingMeter`, `startLoggerRoutine`, `loggerRoutine`, `generateOutput`, `ValueRecorder`, `Counter` (always the no-op), `close` |
| Connection manager | `client_core.go` | `lock`, `agentgroup` (nil until `connect`), `config` | `buildConfig`, `connect`, `openBucket`, 17 `get*Provider` getters, `connection`, `close` |
| Protostellar error mapping | `error_ps.go` | none (a pure function) | `mapPsErrorToGocbError`, `mapPsErrorStatusToGocbError` |
| Analytics index manager | `scope_searchquery.go` 311-908 | providers and a timeout | `doAnalyticsQuery` (row loop), `Create/Drop Dataverse/Dataset/Index`, `GetAll*`, `Connect/DisconnectLink`, `GetPendingMutations` |
| `Scope.Search` | `scope_searchquery.go` 3-21 | none | checks the request, then fetches the search provider |
| Eventing integration tests | `unnamed/part_000` | test suite | tests of a live server's eventing service |

### How the parts interact

There are three kinds of goroutine in the meter:

- **Request goroutines.** There can be any number of these. Each one calls
  `AggregatingMeter.ValueRecorder(name, tags)`. Unless the call is filtered out,
  it locks the service's group, looks up the peer's recorder, and creates the
  recorder if there is none. The goroutine then calls `RecordValue` on that
  recorder. That call is one atomic add to a bin.
- **The logger goroutine.** It waits in a `select` on `stopCh` and on a timer.
  On each tick it runs `generateOutput`. For each service, in Go's random map
  order, this copies the group's recorders under the group's lock, then resets
  each recorder's histogram one bin at a time. If the output holds only `meta`,
  the goroutine **returns**. Otherwise it marshals and logs the output.
- **The client's teardown.** It calls `close()`. That call sends on the
  unbuffered `stopCh` and blocks until the logger's `select` receives the value.

The connection manager is shared by every API call. `connect` and `close` hold
its lock. `openBucket`, the getters and `connection` read `agentgroup` without
the lock.

### What is hard

- A `RecordValue` can run during an `AggregateAndReset`. Each value must be
  counted in exactly one interval.
- Two goroutines can resolve the same (service, peer) at the same time. They
  must get the same recorder.
- A recorder can be registered after `Recorders()` has copied its group. It must
  still be reported on a later tick.
- The shutdown hand-off depends on the logger still waiting in its `select`.
- The arithmetic has edge cases at the boundaries: the overflow bin, a value
  equal to `maxValue` or `startValue`, and the rounding of the percentile rank.
- In the connection manager, reads without the lock race `connect` and `close`.
- In the analytics manager, each call is a statement built from the caller's
  names. The service may act and the answer still be lost. A create and a
  drop of the same name must spell it the same way.
- In the error mapping, the ambiguity of a timeout decides whether a caller
  may retry.

### What makes each part correct

- **Histogram**
  - Every latency goes to the bin whose range contains it.
  - A snapshot is cumulative and counts every recording of its interval.
  - A percentile string names, and bounds truthfully, the latency at that rank.
  - Concurrent records and resets never lose a value or count it twice.
- **Meter**
  - There is one recorder per (service, peer).
  - Every recorded value is logged on a later tick.
  - An interval with no recordings is skipped and does not end the loop.
  - `close` returns.
  - A service is logged only if it has recordings since the last output.
- **Connection manager**
  - Every provider handed out wraps the group of a successful `connect` or,
    when a bucket was asked for, that bucket's opened agent.
  - `Scope.Search` refuses an empty request before it looks at the connection
    (a single early return, modelled in `Search` but left to unit tests).
  - The code says nothing about getters after `close`: the pointer stays set,
    so they keep handing out providers on the closed group.
- **Analytics index manager**
  - Each call changes the catalog exactly as the call names, or not at all.
  - Every statement built from non-empty names parses.
  - Every response body is closed.
- **Error mapping**
  - A timed-out write is never reported as an unambiguous timeout (one table
    lookup, modelled but left to unit tests).
  - A resource error names the resource the status names.

## 2. Plan

The order follows how central each part is to the system. The meter is the
only part with real concurrency, so it comes first.

1. `HistogramMath` is pure arithmetic. `MCHistogramMath` checks it. *Done.*
2. `LatencyHistogram` covers one histogram under concurrent records and resets.
   `HistogramInterval` is its abstract specification, and the refinement is
   checked. *Done.*
3. `AggregatingMeter` composes the request goroutines, the recorder groups, the
   logger loop and `close`. It uses `HistogramMath` for the bins. *Done.*
4. `MeterLog` is the meter's per-service promise: a value recorded under a
   service is logged at most once, under that service, and nothing is logged
   after the logger stops. `AggregatingMeter` is checked to refine it. *Done.*
   A variant of the loop that `continue`s on an empty tick is not modelled,
   because it is not code of this repository.
5. `ConnectionManager` covers `buildConfig`, `connect`, `openBucket`, the
   getters, `connection` and `close`, and `Scope.Search` on top of it. *Done.*
6. `ErrorMapping` states `mapPsErrorStatusToGocbError` as operators.
   `MCErrorMapping` checks them over every input. *Done.*
7. `AnalyticsIndexManager` covers every management call and `doAnalyticsQuery`.
   It is checked to refine `AnalyticsCatalog`. *Done.*
8. Still open: the eventing status protocol that the integration tests
   exercise (see section 6).

## 3. Modules

### HistogramMath (pure operators)

These operators translate the histogram arithmetic:

- `NumBuckets` translates `newLatencyHistogram` (ceil(log(max/start)/log r) + 2).
- `BinIndex` translates the bin choice in `RecordValue`.
- `Cumulative`/`PrefixSum` is the running sum of `AggregateAndReset`.
- `TotalCount` and `Threshold`/`Label`/`BinAtPercentile` translate the
  percentile lookup.

`Threshold` is `uint64(math.Ceil((percentile/100) * float64(c)))` with its
float64 rounding. `FloatExcess(pm)` is how far the double `percentile/100` lies
from pm/1000, in units of 1/(1000·2⁵³): 99.9/100 is 0.99900000000000011, 90/100
is slightly above and 99/100 slightly below 0.99, and 0.5 and 1 are exact. The
product is within c·2⁻⁵³ of pm·c/1000. So its ceiling differs from the exact
one only when pm·c/1000 is an integer n, the quotient was rounded up, and the
excess is more than half an ulp of n (`Binade` gives n's exponent). Then it is
n + 1. This agrees with the Go expression for every total below 2²⁰. The
percentiles and totals were compared exhaustively, and no rounding tie occurs
in that range.

The bin arithmetic is exact. The ratio is `RatioNum/RatioDen`, and "v ≤ start·rᵏ"
is compared as `v·RatioDenᵏ ≤ start·RatioNumᵏ`. A rendered string `"<= %.2f"`
or `"> %.2f"` becomes the record `[op, exp]` with bound start·r^exp. Rounding to
two decimals never moves an integer latency across such a bound, so the record
says of a latency exactly what the string says.

### MCHistogramMath

The state is a multiset of recorded latencies, `counts`. It is fixed in `Init`,
so every multiset that holds each value of `Values` a number of times in
`Counts` is checked. The reference definitions are:

- `InBin`: the range of latencies each bin stands for.
- `NearestRank`: ceil(p/100·n) in exact arithmetic.
- `RankValue`: the r-th smallest recorded latency.

### LatencyHistogram and HistogramInterval

- `RecordValue(v)` is one step, because the add is atomic and the bin choice
  uses only local data.
- `AggregateAndReset` is `BeginAggregate`, then one `SwapBin` per bin, then
  `EndAggregate`. Records interleave with every step.

`HistogramInterval` is the promise from spec section 5, stated abstractly. A
value recorded during a reset may land in the closing interval (`gen`) or the
next one (`nxt`). It is never in both and never lost. A snapshot is
`Cumulative(gen)`. The refinement mapping treats the bins below the sweep index
as already swapped: what was swapped out is `gen`, and what has arrived since
is `nxt`.

### AggregatingMeter

| Code | Model |
|---|---|
| `valueRecorderGroups[s].recorders[p]` | `registry[s][p]` (a recorder identity, `Nil` if absent) |
| each recorder's `hist.bins` | `hist[r]` |
| `ValueRecorder` (gating + locked lookup/insert) | `ValueRecorder(w, name, s, p)`, one step |
| `aggregatingValueRecorder.RecordValue` | `RecordValue(w, v)` |
| `select` on `time.After` / `stopCh` | `Tick` / `StopReceived` |
| range over groups + `Recorders()` | `VisitService(s)` / `Recorders(s)` |
| `GetAndResetValues` → `AggregateAndReset` | `StartReset(r)`, `SwapBin`, `FinishReset` |
| `len(jsonData) == 1` → `return`, otherwise log | `EndOutput` |
| `close()` | `Close`, then blocked in `"sending"` until `StopReceived` |

An output entry keeps its `total_count`. The percentile strings are a pure
function of the snapshot, and `MCHistogramMath` checks them. `Counter()` returns
a stateless no-op, so it has no action. JSON marshalling cannot fail for these
value types, so its error branch is left out. `owner` (the service a
recorder was created for), `acceptedBy`, `emittedBy` (per service) and
`lastLog` are history variables; `accepted` and `emitted` are their sums.

**Refinement.** `MeterLog` has one counter pair per service (`unlogged`,
`logged`) and a `logging` flag, with the actions `Record(s)`, `Log` (each
service's count grows by at most what it had unlogged) and `Stop`. The
mapping is `unlogged[s] = acceptedBy[s] - emittedBy[s]`, `logged =
emittedBy`, `logging = ~LoggerGone`. `RecordValue` is `Record`, `EndOutput`
with a non-empty output is `Log`, its early return and `StopReceived` are
`Stop`, and every other step is a stutter. `ValuesAccountedFor` balances the
totals only. The refinement also catches a value credited to the wrong
service, or counted twice under one service and once less under another.

**Fairness.** `WF(LoggerStep)`: the timer always fires and the goroutine is
always scheduled. `SF(StopReceived)`: when both `select` cases are ready, Go
picks one uniformly at random, so a pending stop is not passed over forever.
Request goroutines and the closer get no fairness, because a client may stop
issuing requests or never close.

**Deadlock checking is off** in the meter configurations. The system really
does stop: after `close` the logger has returned and the closer is done. The
hang that matters, `close` blocked with no receiver, is checked as the liveness
property `CloseReturns`.

### ConnectionManager (`client_core.go`, `Scope.Search`)

| Code | Model |
|---|---|
| `c.config`, `c.agentgroup` | `config`, `agentgroup` (`Group` or `NoTarget` for nil) |
| `AgentGroup.GetAgent(b) != nil` | `b \in agents` |
| `AgentGroup.Close()` called | `groupClosed` |
| `buildConfig` (23-116) | `BuildConfig`: the config is stored, or `FromConnStr` fails |
| `connect` (118-128) | `Connect`: `CreateAgentGroup` sets the pointer, or fails and leaves it nil |
| `openBucket` (130-136) | `OpenBucket(c, b)`: nil check, then the group's open, which may fail |
| the 17 getters and `connection` (138-428) | `GetProvider(c, g, b)`, with one operator per shape of getter, collected in `Getters(b)` |
| `close` (430-438) | `Close(c)`: error if nil, else closes the group and leaves the pointer set |
| `Scope.Search` (`scope_searchquery.go` 4-21) | `Search(c, empty)` |

Getters with the same control flow share one operator: `GetAgentProvider`
(kv, kvBulk, kvCaps, view, connection), `GetClusterProvider` (query,
queryIndex, analytics, search, searchCaps), `GetHTTPProvider` (http,
diagnostics, and `""` for bucket and eventing management). The composite
getters call them in the code's order and return the first error.

The environment is the most general client: two goroutines call any
operation, in any state, interleaved with `buildConfig` and `connect`, and
`close` may be called twice. A getter reads `c.agentgroup` without the lock,
twice (the nil check, then the use). A getter is one step, which is exact
because `connect` runs once, so the pointer only goes from nil to the group,
and a getter that saw nil returns at once. The agent set only grows. `call`
is a history variable that records each caller's last call, so the
properties can relate a result to its request.

No fairness: nothing here must eventually happen. Deadlock checking is on;
a getter is always enabled.

### AnalyticsIndexManager and AnalyticsCatalog (`scope_searchquery.go` 311-908)

`AnalyticsCatalog` is the abstract promise. A call (`request`) names a
dataverse, a dataset (in `Default` when no dataverse is given), an index, or a
link (`Local` when none is given). The catalog then takes the call's `Effect`,
which also gives the outcome: "ok", "exists" or "notFound", with the ignore
flags turning the last two into "ok". Three other outcomes are allowed:
- "error", with or without the effect, when the transport lost the request
  or the answer;
- "invalidArgs", when a required name is empty;
- "error", with no effect, when the service cannot parse the statement.

The catalog semantics are the service's, not this repository's:
- a dataset needs its dataverse, and an index needs its dataset;
- a drop takes the contents with it.

`AnalyticsIndexManager` has one action per method:

| Code | Model |
|---|---|
| `doAnalyticsQuery` (324-350) | `DoAnalyticsQuery(st)`: a parse error; a transport or `result.Err()` error with or without the effect; the service's "exists"/"notFound"; or success with the rows |
| argument checks (`invalidArgumentsError`) | `Refuse(r)` |
| `CreateDataverse` (419-451) | `CreateDataverse(dv, ignore)`: empty check, name quoted |
| `DropDataverse` (463-487) | `DropDataverse(dv, ignore)`: no check, name bare |
| `CreateDataset` / `DropDataset` (501-590) | dataset quoted, as `` `dv`.`ds` `` when `DataverseName` is set (`DatasetIdents`); the bucket is quoted, not checked |
| `CreateIndex` / `DropIndex` (647-739) | index name quoted on create, bare on drop; create checks the name and that the fields are non-empty |
| `ConnectLink` / `DisconnectLink` (794-853) | `LinkCall`: "" becomes `Local`, name bare |
| `GetAllDatasets` / `GetAllIndexes` (600-634, 749-782) | `ListAll`: the query, then one unmarshal per row; a bad row fails the call |
| `GetPendingMutations` (863-908) | the management request, status check, decode, and `Body.Close` on success only; `open` counts bodies left open |

A statement is abstracted to two things: the entity it addresses, and the set
of identifiers it spells, each quoted or bare. `Parses` is the service's
parser: an identifier must be non-empty, and quoted if it is in `NeedsQuoting`.

`makeMgmtBadStatusError` is not in these sources, so the model lets it either
close the body or not. Calls are sequential, one step each. A single caller is
enough, because the service applies each statement atomically. The spec has no
fairness: nothing must eventually happen.

The refinement maps `outcome` "parseError" to "error". Every other variable
maps to itself.

### ErrorMapping (`error_ps.go`)

The switches are functions from the violation type or resource type to the
gocb sentinel error: `PreconditionError`, `NotFoundError` and `ExistsError`.
`DetailError` is the first-detail switch, and `CodeError` is the code switch.
`MapPsErrorStatusToGocbError` tries the detail first, then the code. Two parts
of the result are abstracted:
- the context keeps only whether a resource was recorded;
- `wrapError` keeps its sentinel.

`MCErrorMapping` makes the input the state. It covers 16 codes, every
first-detail kind and type (known and unknown), read-only or not, and errors
that are not statuses: 1152 inputs.

## 4. Runs

| Run | Checks | Result |
|---|---|---|
| `histogram_math` | `BinIndexMatchesIntervals` | pass. Every latency 0..20 is in its range's bin, at the max and start edges included. |
| `histogram_overflow_label` | `PercentileLabelHolds` | **violation.** One latency of 17 with max 16 is reported as "> 20.25". |
| `histogram_percentile_rank` | `PercentileReportsRankBin` | **violation.** 999 latencies of 3 and one of 30: the 99.9th percentile is reported in the overflow bin of the single 30, not in the bin of the 999th value. |
| `histogram_concurrency` | `ImplementsHistogramInterval` | pass. Records racing a bin-by-bin reset refine `HistogramInterval`. |
| `meter_safety_liveness` | `RecorderUnique`, `ValuesAccountedFor`, `ImplementsMeterLog`, `RecordedEventuallyEmittedOrLoggerGone` | pass, 87k states. Per service, the meter refines `MeterLog`. |
| `meter_close_hangs` | `CloseReturns` | **violation.** A tick with no recorders makes the logger return, and `close` then blocks forever. |
| `connection_manager` | `ProviderTargetsRequestedBucket` | pass, 76k states. Every provider, and every search handed to one, wraps the created group or the requested bucket's opened agent, in every interleaving with `connect`, `openBucket` and `close`. |
| `meter_empty_emission` | `NoEmptyEmission` | **violation.** A service with a registered but idle recorder is logged with total 0. |
| `error_mapping` | `ResourceErrorsMatchStatus` | pass over all 1152 inputs. Both ways: a resource error comes only from a status naming that resource, and every known resource under NotFound or AlreadyExists gets its own error. |
| `analytics_refinement` | `ImplementsAnalyticsCatalog` | pass, 57k states. Every successful call changes the catalog as the call names, including the dataverse option of the dataset and index calls. A failed call may or may not have changed it, so the run says nothing about the error paths beyond that. |
| `analytics_unquoted_drop` | `StatementsParse` | **violation.** `DropDataverse(DQ)` sends `DROP DATAVERSE DQ`, which the service cannot parse. |
| `pending_mutations_body_leak` | `BodiesClosed` | **violation.** A decode error returns with the body open. |

Each property of a passing run has a mutant in `PROJECT.json`. The mutants are:

- the `>= maxValue` overflow test;
- a swap that does not clear its bin;
- a dropped nil check in `ValueRecorder`;
- a reset loop that stops one bin early;
- a `Recorders()` that copies every group's map, not only its own group's
  (only `ImplementsMeterLog` catches this one, because the totals still
  balance);
- a reset that keeps its bin count between services;
- a getter that drops the `GetAgent` nil check;
- a `DropDataset` that ignores `opts.DataverseName`;
- a not-found switch missing its path case, which falls back to
  `ErrDocumentNotFound`.

TLC finds each of these.

### Bounds

- **Histogram shape.** The shapes are scaled down: start 4 and max 16, or start
  2 and max 3. The ratio is the real 3/2. TLC's integers are 32-bit, and
  1000·3¹⁹ does not fit. The scaled shapes keep every feature of the real one:
  max is not itself a bin boundary (2,000,000 is not 1000·1.5ᵏ), and there is
  an underflow bin, inner bins and an overflow bin.
- **`Values`.** The values sit on both sides of every boundary, including values
  equal to start and max.
- **Meter.** There are two services, two peers and two request goroutines. This
  is the smallest setting where:
  - two goroutines race on one (service, peer);
  - Go's map order over services matters;
  - a recorder can appear between two services' `Recorders()` copies;
  - a record can fall before, inside and after a reset.

  `MaxRecords = 1` per goroutine keeps the liveness graph small. The interleaving
  of a record with every reset step is covered with four records in
  `histogram_concurrency`.
- **Connection manager.** There are two callers and two buckets (symmetric
  model values), plus `""`, and two calls of `close`. That is enough for one
  bucket to be open while the other is not, for a getter to race `connect`
  and `openBucket`, and for `close` to be repeated.
- **Analytics manager.** The names in scope:
  - dataverses `Default` and `DQ`, where `DQ` needs quoting;
  - dataset `S1` and index `I1`;
  - links `Local` and `LQ`, where `LQ` needs quoting;
  - the empty string, which is a possible input for every name;
  - one bucket.

  These make every call reachable in these cases:
  - a dataset in a named dataverse and in `Default`, which the refinement
    mutant needs;
  - drops with contents;
  - every argument check and every parse failure.

  `MaxOpenBodies = 1` is enough to see a leaked body. A second plain
  dataverse and a second index multiply the catalog's subsets past the time
  budget. They add no new path.

## 5. Findings

1. **Percentile threshold in float64** (`:259`). `99.9/100` is
   0.99900000000000011. For a total that is a multiple of 1000, the threshold
   becomes one more than the nearest rank, so the 99.9th percentile reports
   the maximum's bin. Spec 4.2 defines it as ceil(p/100·total). This happens
   at 1000 requests to one peer in an interval, a common load.
2. **Overflow label** (`scope_searchquery.go:263`). Values in (maxValue,
   start·r^(n-2)] are reported as "> start·r^(n-2)". With the real shape, a
   2.1 s request is logged as "> 2216838.38" µs.
3. **Logger returns on an empty tick** (`:116-119`). The comment says "make sure
   we don't just log empty objects", but the code `return`s where it should
   skip. There are two consequences:
   - If the first interval passes before any request, metrics logging stops for
     the life of the process. No run checks this separately: the passing
     `RecordedEventuallyEmittedOrLoggerGone` excludes a returned logger.
   - `close()` then blocks forever on `stopCh` (`meter_close_hangs`).
4. **Zero-count services are logged** (`:140-147`). This contradicts spec
   sections 6 and 8.
5. **Names that need quoting can be created but not dropped**
   (`scope_searchquery.go:472`).
   - `DropDataverse` formats `DROP DATAVERSE %s` with the name bare, where
     `CreateDataverse` quotes it in backticks. A dataverse named `my-dv` can be
     created and never dropped through the manager.
   - `DropIndex` (`:723`) does the same to the index name.
   - `ConnectLink` and `DisconnectLink` (`:803`, `:839`) do the same to the
     link name.
6. **Response body left open** (`:898`). `GetPendingMutations` returns a
   decode error without `resp.Body.Close()`. The body is closed only on
   success.

`doAnalyticsQuery` has a branch that logs and skips a row it cannot read
(`:339`). A streamed row always reads into a `json.RawMessage`, so the branch
is never taken, and the model leaves it out.

## 6. Not modelled (yet)

- The field order of `CreateIndex`, which comes from ranging over a Go map,
  is not modelled. The fields are abstracted to empty or non-empty.
- `error_ps.go` reads only `details[0]`. The model's status carries that
  detail alone.
- In the connection manager, the `AgentGroupConfig` fields and the TLS root CA
  callback are data, not control, and are left out. So is what the providers
  do once they are handed out.
- The eventing integration tests (`src/unnamed/part_000`) are not modelled.
  Each test is one sequential goroutine that calls the eventing manager,
  whose code is not in `src/`. It asserts what the remote eventing service
  answers: the errors per lifecycle state, settings that change at once, and
  a `FunctionsStatus` state that `tryUntil` polls for up to 30 or 60 seconds.
  A model of the tests could only restate those answers as its own guards and
  then find them again, so no property would say anything about this
  repository's code. The one concurrent step, the service's asynchronous
  deploy, pause or undeploy, belongs to the server. Two test-level points
  were noted while reading:
  - at :90 `foundStatus = &fn` takes the address of the range variable. Under
    Go versions before 1.22 it points at the last function listed, so the
    `NotZero` check at :93 may look at another function's status;
  - at :93 the pointer is dereferenced without a nil check, so the test
    panics if the listing does not yet include the new function.
- Formatting (`%.2f`, JSON) and the log sink are abstracted as described above.
- Float64 rounding of `math.Log` at a latency exactly on a bin boundary is left
  out. The percentile threshold's rounding is modelled; see `HistogramMath`. The model uses exact arithmetic, so it may place such a value one bin
  lower than the real build.
- The source lines the map does not name are declarations with no behaviour:
  the constants and option structs, the JSON row types, and the `fromData`
  field copies of the two listings (rows are modelled as the catalog entries
  they name). The only other unmapped code is `Counter()`, which returns a
  stateless no-op. Every other function of `src/` that changes state is an
  action or an operator above. The hazards without a property (close leaving
  the pointer set, the map-ordered index fields, `details[0]`, and an error
  returned after the DDL was applied) have no statement, in the code, its comments or its tests, of
  what the right behaviour is. The reasons are in `PROJECT.json`. So the model
  stops here. Larger meter bounds (two recordings per goroutine) were tried
  and exceed the checking budget: over 1.6M distinct states, unfinished after
  10 minutes.
