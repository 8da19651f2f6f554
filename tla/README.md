# enphase-bridge: specifications

TLA+ modules, TLC runs and TLAPS proofs about the daemon in `src/`.
enphase-bridge polls an Enphase gateway on the local network, turns cumulative
meter counters into 15-minute energy windows in SQLite, archives the utility's
tariff history from OpenEI, and serves both over HTTP, with true-up estimates
calculated from them.

Paths below are relative to the repository (`src/src/collector/scheduler.rs` is
`src/collector/scheduler.rs` of the crate).

1. [The system](#1-the-system)
2. [Modules and how they correspond to the code](#2-modules)
3. [Runs, bounds and fairness](#3-runs)
4. [Proofs](#4-proofs)
5. [What the code does not keep](#5-findings)
6. [What is not modelled](#6-not-modelled)
7. [Plan](#7-plan)

## 1. The system

One process (`src/src/main.rs`) runs three branches under `tokio::select!`: the
collector, the TOU refresh loop and the HTTP server. When one ends, the other
two are dropped wherever they wait, and the supervisor
(`docker-compose.yml`, `restart: unless-stopped`) starts the process again.
They share one SQLite pool with a single connection; nothing else is shared.
The recompute tool (`src/src/bin/recompute_windows.rs`) is a second process on the
same file.

| Component | State it keeps | Operations | Correct when |
|---|---|---|---|
| Scheduler `collector/scheduler.rs` | the anchor (`last_reading`), in memory and in four keys of `config_store`; the accumulator | `run`: check_jwt, probe, `startup_recompute`, load, then poll and at a boundary close the anchor's window, mark, collect telemetry, persist the anchor | no two rows account for the same energy; no energy is lost between rows unless a step failed; a crossing ends with the anchor beyond its window whatever fails; recomputation changes only what it may |
| Window arithmetic `collector/window_aggregator.rs` | none | floor to 900 s, clamped deltas | a reset meter invents no energy |
| Gateway client `collector/gateway_client.rs` | `session_id` | `check_jwt`, `probe_meters`, `get_meter_readings` (401: re-authenticate, one retry), inverters | a lost session costs no poll; a reading is stamped close to when it was taken |
| Window storage `storage/energy_window.rs`, `boundary_snapshot.rs`, `config_store.rs` | `energy_window`, `boundary_snapshot`, `config_store` | `INSERT OR IGNORE`, upserts, snapshot and row in one transaction, stale rows by version | tables agree; history is append-only |
| Telemetry storage `power_sample.rs`, `phase_reading.rs`, `inverter_snapshot.rs` | three tables, two of them with retention | inserts per poll and per crossing, retention, latest-batch and array queries | averages are of their window's polls; a batch holds what the gateway listed, once, unless a step failed; retention keeps both its periods |
| Tariff archive `tou/refresh.rs`, `storage/tou_schedule.rs`, `api/handlers/tou.rs` | `tou_rate_schedule`, append-only | the loop and `POST /api/tou/refresh` fetch everything, stamp, insert in one transaction | the latest answer is in force; the archive stays fresh |
| Tariff lookup `tou/history.rs` | none (reads the archive) | `load`, `version_at`, `meta`, `ensure_coverage`, `intervals`, calendar boundaries | an interval carries the bracket in force throughout it; covered ranges have no holes |
| OpenEI client `tou/openei_client.rs` | none | pages of 500, every item of the plan parsed and resolved | the whole history if nothing changes meanwhile; ends whatever the service answers |
| True-up `trueup/calculator.rs`, `api/handlers/trueup.rs`, `storage/true_up.rs` | the last stored estimate | read windows and schedules, rank periods, sum costs | every window of the range is costed once with its schedule |
| API `api/` | none | read-only queries, two writers (refresh, estimate) | a client that reads in several statements gets every row once and an estimate that says what it leaves out |
| Recompute tool `bin/recompute_windows.rs` | none (writes `energy_window`) | typed mode: stale rows from snapshot columns; raw mode: every recomputable row from the meters' JSON | a run that failed nowhere leaves nothing stale; what it repaired is not undone by chance |
| Token expiry, configuration, probe, API key, startup errors | none | pure or logging | |

What is hard about it:

* **Crashes and failures between steps.** A crossing is one transaction followed
  by six single statements whose errors are dropped: the marker, the
  telemetry and the four keys of the anchor. A crash or an error can fall
  between any two.
* **Restarts with an old anchor.** The next reading may come hours later, in the
  same window, or, with the clock set back, in an earlier one.
* **Versions.** Upgrades and rollbacks meet rows of other formula versions;
  version 0 is permanent.
* **Sessions.** The gateway forgets sessions without notice, may answer late and
  may leave out fields.
* **Two refreshers.** The loop and the POST handler are not kept apart.
* **Two writers of one table.** The recompute tool, of a build of its own, beside the
  daemon: both read a list and update its rows by `window_start` alone.
* **Reads in several statements.** Pages by OFFSET, the estimate's two reads, the arrays' two
  reads and the pages of OpenEI all span changes of what they read.
* **Calendars.** Offsets change at instants which are not whole local hours;
  local hours are skipped or repeated; revisions overlap, leave gaps and end
  before they start.

`PROJECT.json` lists each hazard at the line where it bites.

## 2. Modules

```
WindowAggregator <- Scheduler <- SchedulerInvariant <- MCScheduler
                 <- EnergyLedger   (instantiated by Scheduler: ImplementsLedger)
                                   SchedulerInvariant, FiniteSums <- SchedulerProofs
TouCalendar <- TouHistory <- TouRefresh <- MCTouRefresh
TouCalendar, FiniteSums <- TouCalendarProofs
                           TouRefresh, TouCalendarProofs <- TouRefreshProofs
GatewaySession <- MCGatewaySession
               <- GatewaySessionProofs
WindowAggregator <- Telemetry <- MCTelemetry
                              <- TelemetryProofs
RecomputeTool <- WindowReaders <- MCWindowReaders
                               <- WindowReadersProofs
ScheduleResolver <- OpenEIFetch <- MCOpenEIFetch
                                   OpenEIFetch, FiniteSums <- OpenEIFetchProofs
```

Operators whose comment begins with "Slip:" are not part of a specification:
they are plausible mistakes in the code, kept beside the definition they
replace, and PROJECT.json's `mutants` says which property each one breaks. They
are how we know that a property can fail.

### WindowAggregator

`WindowBoundary` and `ComputeDelta` of `window_aggregator.rs`. A reading is a
timestamp and three counters (produced, imported, exported). Counters are whole
watt-hours; the f64 rounding of the code is left out, no property depends on it.

### Scheduler

`scheduler.rs` and the tables it writes.

| Module | Code |
|---|---|
| `clock`, `meter` | `unix_now()`, the gateway's lifetime counters |
| `flow`, `faults` | history variables: the energy that really passed; what has gone wrong so far |
| `energyWindow`, `boundarySnapshot` | the tables, as functions from `window_start`; a row is the pair of readings it was computed from and its version, `Columns(row)` its columns |
| `store`, `lastWindowStart` | the four `last_reading_*` keys and `last_window_start` of `config_store` |
| `build` | `CURRENT_FORMULA_VERSION` of the installed binary. It is 1 at this commit; the model ranges over the builds that will be deployed, which is what the recomputation code is for |
| `pc`, `last`, `curr`, `saved`, `stale` | where `run` is; `last_reading`; the reading of the crossing; how far `persist_reading` is; what `startup_recompute` has still to visit |
| `Start`, `BootOk`, `BootFails` | `run` up to the stale-rows query |
| `RecomputeRow` | one turn of `startup_recompute` |
| `LoadPersistedReading` | all four keys or nothing |
| `PollFirst`, `PollNothing`, `PollCrossing` | one tick of the loop |
| `CloseWindow`, `CloseDuplicate`, `CloseRepair`, `CloseBare`, `CloseFails` | the outcomes of the window transaction |
| `MarkWindow`, `Telemetry`, `PersistKey` | the rest of a crossing; every write may fail, and the crossing goes on |
| `Crash` | the process ends: a kill, a power cut, another branch of `select!` |
| `Elapse`, `ClockStep`, `MeterReplaced`, `Deploy` | the environment |

Three abstractions carry weight:

* *The window transaction is one step.* The pool has one connection, the
  transaction holds it until it ends, so nobody sees its inside. Failure at any
  statement is `CloseFails`. A commit that takes effect but reports an error is
  the state of `CloseWindow` followed by a failed `MarkWindow`.
* *The environment changes only while the process is down or idle.* The process
  reads the clock and the meters at polls only, so a change during startup or a
  crossing cannot be told from the same change right after it.
* *A power loss that undoes commits not yet synced* (WAL, `synchronous = NORMAL`)
  loses a suffix of the commits, which is the state of a crash at an earlier
  step.

### EnergyLedger

The promise to readers of `energy_window`: rows appear at the end only, where the
last one ended or later; recomputation keeps the end of a row and moves its
start back to the end of the row before at most; version 0 never changes. Once
the chain of anchors is broken (`intact` is FALSE), rows are still only added or
recomputed. `Scheduler!ImplementsLedger` instantiates it with
`rows <- energyWindow`, `intact <- Intact`.

### SchedulerInvariant

The inductive strengthenings of what the ledger promises (section 4), as named conjuncts:
`LedgerInv` for `OrderedLedger`, `FlowInv` and `MeterInv` for `NoEnergyInvented`, and
`AnchorIsLatest` with `MarkerInv`, `RepairInv`, `RecomputeInv` and `ContiguousInv` for the marker,
the repair, the startup and contiguity. Last comes progress without fairness: `TurnIsDue`,
`CrossingRunsOut`, `StartupRunsOut`.

### FiniteSums

No code: what the proofs say of sums over finite sets, of stretches of a line and of the least
and greatest element of a finite set. Scheduler's `Accounted` and ScheduleResolver's `NetCost` are such sums.

### TouCalendar, TouHistory, TouRefresh

`TouCalendar` is the half of `history.rs` that finds the instants at which a
schedule may change its bracket: whole local hours, and offset changes found by
an hourly scan and a binary search. A time zone is a set of instants and the
offsets between them; chrono's database is external. `RealZone` is what is asked of it:
offsets change an hour apart at least and differ by at most a day. `TouHistory` is the
rest of `history.rs`: `Load` (latest copy of each upstream revision, then drop invalid
bounds), `VersionAt`, `Meta`, `EnsureCoverage`, `Intervals`, and which schedule each
window of an estimate is costed with. A plan is the bracket of each hour of
the day; months, weekends and rates are behind it.

`TouRefresh` adds the writers: the loop (`BootRefresh`, `BootSkip`, `Wake`) and POST
requests (`Request`), each going through `Fetch`, `Stamp` (`unix_now()` after the
fetch) and `Insert`. `upstream` and `edition` are OpenEI's side: every change of
the upstream is a new edition, so that a row can be asked how old its answer is.

### GatewaySession

`gateway_client.rs` as `run` uses it. A request is sent, served and received in
three steps; between them sessions end, time passes and the process may crash.
The client's timeout is a bound on the clock while a request is in flight.
`calm` is the hypothesis of the liveness property: from some moment on the gateway
answers every request. It may still begin that moment with every session
forgotten, and a login may still end other sessions.

### Telemetry

What `Scheduler!Telemetry` stands for, and what a poll records beside the
ledger. A poll is its number in the history `polls`; samples, averages and inverter
rows name the polls they come from and leave out the watts, which is what makes
"an average of the wrong polls" a statement about sets.

| Module | Code |
|---|---|
| `sample`, `inverter`, `phase` | the three tables |
| `window` | `energy_window`, reduced to the two readings of a row and the polls of its averages |
| `stamp`, `counters` | `last_reading_timestamp`, and whether the three other keys exist |
| `acc`, `avg`, `checked` | `accumulator`, the averages of the crossing in progress, `last_retention_check` |
| `reported`, `cut` | histories: the inverters the gateway listed for a window, the windows whose batch stopped half way |
| `sampled`, `measured` | histories: every sample and every phase row that was stored, kept or not |
| `Poll` | a tick: the sample, the accumulator, the decision to cross |
| `StoreWindow`, `FetchInverters`, `InsertInverter`, `InverterFails`, `InsertPhases`, `PersistStamp`, `PersistCounters` | the crossing, one insert of an inverter per step. The gateway lists any of the inverters (`get_inverter_snapshots` takes a shorter list as it is), each once; an error is an empty list to what follows |
| `ExpireSamples`, `ExpirePhases` | retention; what stays is `SamplesKept`, `PhasesKept` |
| `Readable`, `Responses` | the two reads of `GET /api/inverters/arrays` |

### RecomputeTool, WindowReaders

Two processes on `energy_window`. A row is the formula version it carries and its
basis: counters as they were parsed at the crossing (`typed`) or the JSON kept with the
snapshots (`raw`). Scheduler has a crossing's faults; here it stores a row or none.
`Start`, `DaemonVisits`, `DaemonReady` are `startup_recompute`, `Deploy` and `Stop` the
operator's, `ToolStarts`, `ToolVisits`, `ToolEnds`, `ToolKilled` the tool's two modes. Each
visit is one update with the list read once, as both loops do it.

`WindowReaders` adds two clients of the API: a walk through the pages of
`GET /api/energy/windows` and the two reads of an estimate. `walk.owed` is what the walk
still has to deliver of the windows that matched when it began.

### ScheduleResolver, OpenEIFetch

`ScheduleResolver` is `calculator.rs` as operators: `Resolves` (what `new` accepts), `Rank` and
`BracketOf` (`build_per_month_maps`), `PeriodAt`, `BracketAt` (`resolve`), `Summary` and `NetCost`
(`calculate`). A period index is an integer of the JSON cast to an index (`% IndexRange`), so
that -1 is a huge one. A table of other dimensions is a sequence of another length; an entry that is
no number at all is the flag `sound` of the item.

`OpenEIFetch` is `fetch_history`: one request per step, between which the upstream publishes,
amends or withdraws a revision. `paging` FALSE is a service that takes no notice of the offset.
Each item of the plan must parse, and its tariff resolve, or the fetch fails. TouRefresh takes
the answer from there in one step; `QuietFetchIsExact` says when that is what happens.

## 3. Runs

All runs finish without a state-space reduction other than the bounds named
here, and the symmetry of the two inverters in `telemetry`, which nothing tells apart; clocks,
windows, labels and sources are ordered numbers.

Two bounds need a word. `FewFaults` cuts a behaviour after `MaxFaults` *kinds* of
fault, and follows it past the kinds in `FollowedFaults` only: `faults` is a
history variable that grows, and without this bound every run would consist
mostly of states where everything has already gone wrong and the property is
vacuous. Each run follows the kinds its properties are silent about or are
meant to survive. In the `Scheduler` runs `WindowSecs` is 2, so that a
window has a beginning and a middle, and `MaxTime` 5 or 6 gives three or four
windows: the one that closes, its neighbours, and a gap between two. The three
counters move together (`MCIncrements`), as no ledger property relates one to
another.

| Run | Question | Bounds | States |
|---|---|---|---|
| `crossing` | Do rows stay disjoint and adjacent, does the marker follow, and does a meter that counts from zero ever add energy, with crashes, failed writes, duplicate crossings and the clock set back? | three windows, 2 Wh, any two of write, close, mark faults and meter replacements | 2.07 M |
| `recompute` | Do upgrades and rollbacks over cut-off crossings recompute exactly what they may, and does the repair path fill the hole of a snapshot without a row? Do the rows account for all that passed between their ends, and for nothing twice? The refinement is checked here too | four windows, two builds, a new database or one with an orphan snapshot, faults close and recompute | 1.12 M |
| `progress` | Does startup end, a crossing move the anchor, and do rows and snapshots stay together, whatever fails? | fairness, every kind of failure one at a time, torn anchors and absent counters among them, two builds | 0.68 M |
| `refresh` | Is the latest answer in force, is the archive fresh? | loop and one POST, three editions, three rows, clock to 4, failed inserts, crashes | 1.33 M |
| `tariff` | Are intervals and estimates right for every archive and range? | all archives of up to three revisions with the four shapes of bounds in `MCRevisions` (open, ended before and after the next start, invalid), all pairs of five instants, a zone going back an hour and one going forward half an hour | 72 k |
| `session` | Does a lost session cost a poll, and how far is a reading's stamp off? | three sessions, timeout of 2, clock to 5 | 0.22 M |
| `telemetry` | Are averages of the polls of their window, batches what the gateway listed and once, and does retention keep both its periods? | windows of 2, clock to 4, three polls, any of two inverters listed, a day of 1; samples kept two days, phases one; any number of one kind of fault; not followed once the last poll is recorded | 2.75 M |
| `readers` | What may the tool and the daemon undo of each other, and what are clients sent meanwhile? | three windows, three builds, one run of the tool over all windows but the last, pages of one row, a limit of two | 0.98 M |
| `openei` | Which revisions may a fetch miss, does it end, and what do brackets and sums make of its answer? | four labels, pages of two, two changes during a fetch; lists of four kinds of item, and 192 tariffs of two months with two hours | 0.92 M |
| `double_count`, `absent_counter`, `refresh_race` | findings, section 5 | as small as shows them | |

In `refresh`, an archive of up to three rows holds a revision and two later
answers, valid or not, fetched in the same second or later, with crashes and failed
inserts between them. Overlapping refreshes and a clock set back are recorded and end
what `LatestAnswerWinsAlone` promises; `refresh_race` shows why. In `tariff` the refresh loop only serves to build archives: the clock stands
still, so that all of the bound goes into revisions. Instants next to, on and
between the revisions' bounds and the offset change (at 4) are all in the five.
In `session` the clock leaves room for two requests that run into their timeout and
any number that do not, and three sessions are the one the client has, the one the gateway has and a new one.

In `telemetry` three polls make a crossing, a poll within the window and one more after a restart. The periods differ, so
that swapping them shows, and both are above zero, so that a row younger than its period may be lost. Days are shorter than windows here,
against the code's constants: the phase rows of one crossing are a day and more old at the next and expire within the clock.
`MoreToRecord` leaves out what follows the last poll and its turn of the loop: no table changes any more. In `readers` the initial database
has any number of rows from before snapshots were kept, then crossings of any build, so that
version 0, rows without a pair, stale, current and newer rows all occur; three builds let the tool be
older or newer than a daemon that is itself upgraded or rolled back. The range leaves the last
window out, so that rows the tool does not visit occur too, and a limit of two with three windows is exceeded. In
`openei` three or four listed labels make a second page, two of four a full first page and an empty second. The lists
to begin with are all those of up to four items, and each tariff alone in a list; tariffs differ in
weekday and weekend tables (a weekend with periods of its own, an index below zero, a month too short)
and in rates (all different, equal, missing, too few).

Type invariants are checked where other properties lean on them (`crossing`, `refresh`, `telemetry`);
those of the other modules are part of the invariants proved in section 4.
`RecomputeNeverShrinks` is proved and is a consequence of `ImplementsLedger`, which `recompute` checks.

Deadlock is checked in every run: none of these systems stops.

`progress` and `session` check liveness. In `progress` the same bound cuts behaviours:
its liveness properties are about the behaviours with one kind of fault, however
often it strikes, and two kinds in one crossing are left to the code's shape: no
step of a crossing looks at the outcome of another. `session` has no such bound.

**Fairness.** `Scheduler!FairSpec` has `WF_vars(Progress)`, the steps a started
process takes by itself: the runtime polls the future of `run` as long as the
process lives, and every await between two polls is a local SQLite statement or an HTTP
request with a timeout. Nothing is assumed of the poll timer, of the environment
or of any write succeeding. `GatewaySession!FairSpec` has `WF_vars(Client)`, the
same reason plus the timer and the supervisor that restarts the process, and
`WF_vars(Serving)`, which together with `calm` is the hypothesis that the gateway
answers. The refresh loop has no liveness property: its HTTP client has no
timeout (`openei_client.rs:35`), so no fairness of a fetch would be justified.

## 4. Proofs

Eight modules of proofs, for every value of the constants that meets the assumptions the
modules name. `PROJECT.json` lists the theorems with the runs' properties they state.

| Theorem | States | Of |
|---|---|---|
| **SchedulerProofs** | | any window length, bounds, increments, disturbances, absences and orphans, any number of builds |
| `TypeCorrect` | `Spec => []TypeOK` | |
| `TablesAgree` | `Spec => []RowsAndSnapshotsAgree` | the repair path has nothing to do in a database of this collector |
| `HistoryIsAppendOnly` | `Spec => HistoryAppendOnly` | |
| `LedgerInvariant`, `LedgerIsOrdered` | `Spec => []LedgerInv`, `Spec => []OrderedLedger` | no two rows account for the same energy |
| `RecomputeOnlyWidens` | `Spec => RecomputeNeverShrinks` | |
| `CollectorImplementsLedger` | `Spec => ImplementsLedger` | the refinement of EnergyLedger |
| `LedgerHasNoGaps` | `Spec => []ContiguousLedger` | each row starts where the one before it ended |
| `MarkerIsLatest` | `Spec => []MarkerNamesLatestRow` | `last_window_start` of `GET /api/health` |
| `HolesAreFilled` | `Spec => []RepairFillsTheHole` | a snapshot without a row gets its row |
| `StartupLeavesNothing` | `Spec => []NothingLeftToRecompute` | |
| `NothingIsLost` | `Spec => []NothingLost` | the rows account for all that passed between their ends, and once |
| `MetersAreToldApart`, `NoEnergyIsInvented` | `Spec => [](FlowInv /\ MeterInv)`, `Spec => []NoEnergyInvented` | the same never exceeds what passed, when a meter is replaced too |
| `LedgerPromisesOrder` | `ImplementsLedger => []OrderedLedger` | whatever implements EnergyLedger keeps the order |
| `TurnsAreDue` | `Spec => [](TurnIsDue /\ IsFiniteSet(stale))` | the two loops can take their next turn |
| `CrossingsRunOut`, `StartupsRunOut` | `Spec => CrossingRunsOut`, `Spec => StartupRunsOut` | the steps behind `CrossingMovesAnchor` and `StartupEnds` |
| **FiniteSums** | | any finite set, any integers |
| `StretchesFit` | stretches of a line that do not overlap sum up to no more than it is long | |
| `ChainAddsUp` | a chain of stretches, each beginning where the one before ended, sums up to its length | |
| **TouCalendarProofs** | | any zone, any range |
| `OffsetChangeIsFound` | `Found(zone, left, <<left, right>>, OffsetChange(...))` | the binary search ends, and at a change |
| `HourStaysBetweenBoundaries` | the local hour changes at a boundary only | any `RealZone` |
| **TouRefreshProofs** | | any revisions, instants, zones, bounds and number of POST requests |
| `CoverageSuffices` | `Spec => []CoverageIsEnough` | |
| `ArchiveTypes` | `Spec => []TypeOK` | |
| `LatestAnswerHolds` | `Spec => []LatestAnswerWinsAlone` | |
| `ArchiveStaysFresh` | `Spec => []FreshEnough` | |
| `IntervalsAreTheTariff` | `Spec => []IntervalsTellTheTariff` | |
| `EndpointsAnswerTheSame` | `Spec => []EndpointsAgree` | |
| `SchedulesBoundTheirWindows` | `Spec => []ListedSchedulesHold` | |
| **GatewaySessionProofs** | | any finite set of two or more sessions, any timeout |
| `SessionTypes` | `Spec => []TypeOK` | |
| `OnePollIsEnough` | `Spec => []CalmPollReads` | |
| `StampsAreInTime` | `Spec => []StampedInTime` | |
| **TelemetryProofs** | | any inverters, channels, retention periods and bounds |
| `TelemetryTypes` | `Spec => []TypeOK` | |
| `AveragesAreTheirWindows`, `AccumulatorIsBounded` | `Spec => []AveragesTellTheirWindow`, `Spec => []AccumulatorStaysInWindow` | |
| `InvertersOncePerWindow`, `ArraysAreWhole` | `Spec => []OneRowPerInverter`, `Spec => []ArraysWhole` | |
| `RetentionIsExact` | `Spec => []RetentionKeepsItsPeriods`, of samples and of phase rows | |
| **WindowReadersProofs** | | any windows, builds, ranges, runs, page size and limit |
| `VersionsOnlyRise`, `RepairsLast`, `TypedRunsComplete` | `Spec => VersionsRise`, `Spec => RawRepairsLast`, `Spec => TypedRunLeavesNothingStale` | RecomputeTool |
| `ReadersOnlyRead` | `ReadersSpec => Spec` | and so the three above hold with readers |
| `ReadersTypes` | `ReadersSpec => []ReadersTypeOK` | |
| `WalksDeliver`, `EstimatesAccount` | `ReadersSpec => WalkDelivers`, `ReadersSpec => EstimateAccounts` | |
| **OpenEIFetchProofs** | | any labels, items, upstreams, page size and number of changes |
| `FetchInvariant`, `FetchTypes` | `Spec => []FetchInv`, `Spec => []TypeOK` | |
| `FetchesEnd` | `Spec => []RequestsBounded` | |
| `NothingIsSkipped`, `LastCopyIsLast`, `QuietFetchesAreExact` | `Spec => PublishingSkipsNothing`, `Spec => LastCopyReadLast`, `Spec => QuietFetchIsExact` | |
| `BracketsAreByRate` | `Spec => []BracketsFollowRates` | |
| `NetCostIsSumOfPrices` | `NetCost` is the sum of each window at the price of its own period | any tariff that resolves, any finite set of windows |
| `BracketsOnlyGroup` | `Spec => []PricedByPeriod` | |

**Assumptions.** The constants' assumptions are what the code or its environment grants: lengths
and sizes that the code has as positive literals (`WindowSecs`, `Hour`, `PageSize`, `RefreshSecs`, `Timeout`,
`RowLimit`), bounds that are numbers, absent values that are no values (`None`, `Open`, `Missing`, `Nothing`), and finite
sets of what a table or a list can hold. Four say more. `ZonesAssumption` asks of a zone what `RealZone` says and the tz
database keeps: the code's hourly scan cannot see two changes within an hour. `OrphanAssumption` places an initial
orphan snapshot at a window within the clock's bound. `SessionsAssumption` has two sessions at least, so that a login may
give a session other than the one forgotten. `RevisionsAssumption` has `i64` bounds for revisions. Every run
evaluates those of its modules.

*The order of the ledger.* `OrderedLedger` alone is not inductive: nothing in it says why the
next row is not below the last one. The reason is the anchor. `LedgerInv` says
that the anchor, in memory or stored, *may open* its window: nothing later is
stored, and everything stored of earlier windows, rows and snapshots, ends at or
below it (`AnchorsMayOpen`); that the reading of a crossing is beyond the anchor
and everything stored (`CrossingAhead`); that no reading is ahead of the meters
(`NothingAboveMeter`), which makes the next poll a later reading even when the
clock was set back; and that snapshots fall between the rows
(`SnapshotsBetweenRows`), which keeps a row recomputed from a pair of them in
place. All of it holds while the anchors and the meters are `Intact`; `faults` only
grows, so the invariant is trivially kept by the steps that break them. The
snapshot conjunct is the one a test would not find: a crossing cut off after its
commit and repeated later stores nothing but moves the anchor past the snapshot,
so that the row after it starts later than its window's snapshot pair, and the
recomputation of that row moves its start *back*, into energy no row had.
`RecomputeOnlyWidens` and the refinement say that this is all it does.

*Two meters.* `LedgerInv` ends where a meter is replaced; `NoEnergyInvented` does not. `MeterInv` says that a
replacement cuts the windows in two: there are a window K, and one L for the snapshots, before
which everything is of the old meter and from which on everything ends on the new one; each part is
ordered by itself and stops at what its meter counted (`OldMeter`, `meter`). One row may reach
across, from the old meter to the new: `compute_delta` makes its difference zero or less than
what the new one counted. The anchor is of the old meter only while nothing is stored of the new one
before its window, which keeps a second row from reaching across. So the rows are two sets of
stretches, each of one meter's length at most (`StretchesFit` for each), and the lengths add up to `flow`
(`FlowInv`).

*Nothing lost.* With `ContiguousInv` the rows are a chain from the first row's start to the anchor, so
`ChainAddsUp` gives the sum; a row's own delta is never cut off at zero, because rows run forward
(`LedgerInv`).

*Sums.* `SumFunction` is a fold that takes the elements of a set in an order it does not tell. Induction
over finite sets is not to be had from the library, whose theorem takes an operator; `SubsetInduction` has it for
a *set* of good subsets instead, from the well-founded order the library does have, and with it the
fold is shown to exist, to be unique and to give the same in every order (`FoldsExist`, `FoldsAgree`, `SumTakesOut`).

*Running out of steps.* A liveness property is a measure that falls, a guard that holds meanwhile, and
fairness. The first two are proved: a crossing has seven steps at most (`StepsLeft`), the startup as
many turns as there are stale rows, and no failing write makes either longer (`CrossingsRunOut`, `StartupsRunOut`);
and `NextStale` and `NextKey` always find their turn (`TurnsAreDue`).

*Tables.* `TablesAgree` needs only the type invariant and that recomputation works
on rows of older versions (`WorklistIsStale`). It says more than it seems to:
the repair branch of the code cannot be reached in a database only this collector wrote.

*Marker, holes, startup, gaps.* These four need less than `LedgerInv` and hold more widely: even when
a meter is replaced or an answer is incomplete. They rest on the anchor's place in *time*
(`AnchorIsLatest`): nothing is stored for a window after the anchor's, which only a torn anchor can break. `MarkerInv`
adds the row the marker is about to name; `RepairInv` that a snapshot without a row is that of the
anchor's window, whose crossing stores the row unless its transaction fails;
`RecomputeInv` that a stale row with a pair of snapshots is still on the list: the snapshot of a crossing is the latest
and so completes the pair of no older row;
`ContiguousInv` that the anchor, or from the commit to the last key the crossing's reading, is the very reading the
latest row ended with.

*Archive.* `ArchiveInv` holds that ids number the rows without a gap (`IdsInv`), that editions are of answers
given (`EditionsInv`), that without overlap and with a clock that is not set back the rows *and the answer under way* are
ordered alike by time, id and edition (`OrderInv`), and that the loop does not sleep beyond what a row may be old (`FreshInv`).

*Calendar and intervals.* The binary search is a recursive function over pairs of instants. That the recursion has a value
everywhere, and that the value is a change of the offset, is proved by the least interval for which it would fail
(`SearchesExist`, `OffsetChangeIsFound`). With one change in a scanned hour at most, every change is a boundary, and between boundaries the local
hour is constant (`HourStaysBetweenBoundaries`), so an interval's first instant speaks for all of it
(`VersionStays`, `LabelStays`). `BoundariesAreEnough` does the same for coverage: a version selected at t
is selected at every instant since it started, so if it has ended at t, its end is a boundary or lies before the range.
`Load` sorts by a count of what comes before, and `LoadIsSorted`, `VersionAtIsSelected` say what that gives.

*Sessions.* `SessionInv` lists what may be on its way in each state, and that no request is older than the timeout. In calm a login's
answer is a session the gateway still holds until the next request is served (`CalmInv`): that is why one
retry is enough.

*Telemetry.* A poll is in the accumulator, or in the averages of the crossing, or in those of one row (`AveragesInv`); the accumulator
was polled in no window after the anchor's, even with the clock set back (`AheadInv`), and otherwise not before the anchor and in its window (`PastInv`). The anchor is beyond every window with inverter rows except the
one being crossed, whose rows are all of this crossing (`RowsInv`); its rows are of inverters the gateway listed for it, and a listed one it lacks is still
to do, or its batch was cut (`BatchInv`). What was stored and is gone, sample or phase row, was older than its own period at some poll, whatever
failed (`GoneInv`); what is kept was not at the last check, and the next is due within a day (`RetentionInv`).

*Tool and readers.* What is on a list is stored, not of version 0, and was older than the build that listed it (`ListsInv`). A typed
run without an older daemon beside it has every stale row of its range still on its list (`BesideInv`). A row owed to a walk
has its place at or after the offset (`ReadersInv`): rows only join a list at places that push others back, which is what
the conditions of `WalkDelivers` say of the filter.

*OpenEI.* `FetchInv`: the requests made account for the offset (`RequestsInv`), what was collected is in the order of the
requests (`CopiesInv`), what is steady and before the offset was collected (`SteadyInv`), and, while nothing changes, what was collected *is* what is of
the plan before the offset and every page was full (`QuietInv`). Pages, their order, the stable sort and the rank of a period are all
counts of what comes before, and one lemma about counting (`Ranks`) serves them: such counts number the
elements from one on. `BracketsAreByRate` is that lemma applied to the periods of a month.
`NetCostIsSumOfPrices` sums by bracket and by window: the brackets part the windows, a sum of sums over the parts is the sum over all, and a
bracket's windows all have its rates.

**Only model-checked.** Liveness: `StartupEnds`, `CrossingMovesAnchor` and
`ReadingsResume` need fairness and with it ENABLED, which the installed provers do not
handle; what the first two need besides is proved. Those of section 5 are refuted. Every safety
and action property of a passing run is a theorem.

## 5. Findings

Each is a run TLC must find violated.

* `double_count`: `persist_reading` moves the anchor with four writes and drops their
  errors. After a crash or an error between two of them the stored anchor has the timestamp
  of one reading and counters of another, and energy is counted in two rows.
* `absent_counter`: a counter missing from a meter's JSON reads as zero and becomes an
  anchor; the window after it counts the lifetime total.
* `refresh_race`: of two overlapping refreshes the one with the older answer may be stamped
  and stored last, and is in force until the next refresh.

Met while reading, without a run:

* `scheduler.rs:275`: the repair branch is unreachable without another
  writer (theorem `TablesAgree`); where it is reached, the repaired row ends with the reading
  of the repair and not with the snapshot that is kept, so a later recomputation changes its end.
* `last_window_start` is written outside the window's transaction. After a crash in between,
  `GET /api/health` names an older window than the latest, or none, until the next crossing; the
  duplicate crossing after the restart does not write it (`MarkerNamesLatestRow` says under which
  faults it can be behind). `docs/DATA_CONTRACT.md:338` calls it the most recent completed window.
* A crossing repeated after a restart inserts its inverter snapshots again
  (`OneRowPerInverter` excludes it), and a response may then mix two crossings.
* `docs/DATA_CONTRACT.md:188` reports inverters as offline that were "not yet seen in any snapshot"; so is
  one seen before that the gateway left out of its latest list, or whose row is still to be inserted or was lost with a
  batch cut off half way (`ArraysWhole`). An empty list, or a fetch that fails, stores nothing and leaves the window before as the answer.
* Raw mode repairs rows and not the typed columns of `boundary_snapshot`, so the first start of a
  newer build puts back what the repair was for (`RawRepairsLast` promises no more).
* The updates of both recomputations name no version: the older build's write may land on a row the newer
  one has just recomputed (`VersionsRise`), which stays stale until the newer build starts again.
* A page walk or a fetch by offset passes over rows when rows before the offset leave the list
  (`WalkDelivers`, `PublishingSkipsNothing` are conditional on it). `total` in
  `docs/DATA_CONTRACT.md:153` is the length of the page in the code, not of the list.
* A revision amended between two pages of one fetch, its start moved back, is stored with the older copy in force
  (`LastCopyReadLast`).
* An upstream revision that is withdrawn, and not replaced under its own label,
  stays in force; one that starts later and has ended hides an earlier one that is
  still open, and the range after it is answered as not covered.
* `docs/ARCHITECTURE.md:55` bounds the accumulator at 15 tuples: with the anchor ahead of a
  clock that was set back it grows until the clock has caught up.
* The estimate's queries stop at 50 000 rows (`api/handlers/trueup.rs:82`).
* After a rollback the recompute tool's raw mode rewrites rows of the newer version with the older one.

## 6. Not modelled

* Databases with rows of version 1 from before migration 002: `CloseBare`
  and RecomputeTool's initial databases have rows of version 0 without a snapshot.
* `--dry-run` of the recompute tool, which writes nothing.
* The stored estimate (`storage/true_up.rs`): written best-effort, in one transaction, after the
  answer is made; no decision reads it back, and duplicates are intended.
* Reads of one statement (`query_latest`, power, phases, inverters): the answer is the table.
* f64 rounding, JSON and raw payloads, logging, parameter parsing of the handlers.
* An answer of the gateway that lists an inverter twice: a serial number names one device. `InsertInverter` leaves it out; the code would store both rows.
* The fields of an OpenEI item other than its plan, start and tariff: one flag says whether they are as they must be.
* The step from an instant to a month and a weekend: chrono's; TouCalendar has the hours.
* Token expiry, configuration, the startup probe: pure or logging, decided once.
* The API key middleware and `startup.rs` are not wired into the binary at this commit.

## 7. Plan

Done, in this order: WindowAggregator, Scheduler, its runs; EnergyLedger;
SchedulerInvariant and SchedulerProofs; TouCalendar, TouHistory, TouRefresh and
their proofs; GatewaySession; Telemetry; RecomputeTool and WindowReaders;
ScheduleResolver and OpenEIFetch; FiniteSums; the proofs of every safety and action property the runs check.

What is left to prove: the refinement of `Scheduler!Telemetry` by Telemetry, and of `TouRefresh!Fetch`
by OpenEIFetch for quiet fetches (`QuietFetchesAreExact` is the half that is about one fetch). Until
then the two pairs of modules agree by their mapping to the same lines only.

A module that could follow: **Daemon**, `main.rs` composing supervision, sessions and the scheduler.
