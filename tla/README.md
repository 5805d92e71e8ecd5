# CapitalScan: TLA+ models, checks and proofs

CapitalScan scans US equities for Bollinger-band and stochastic signals, keeps a research database of every
signal and its outcome, trains models on it, scores live signals and serves the result on a web site. Paths
below are relative to `src/`; `jobs/`, `core/` and `research/` stand for directories of `src/capitalscan/`.

This directory holds the modules, the TLC configurations, the proofs, and `PROJECT.json`, which maps every
definition to the lines it models and lists components, runs, mutants, hazards, findings and theorems.

## 1. The system

### Machines and stores

| where | what runs | store it writes |
|---|---|---|
| workstation | nightly (13:15 and 19:00 PT, Sun-Fri, and after a boot), premarket (05:30), weekly (Sat), monthly chains, each a systemd unit around `scripts/run_job.sh`; commands by hand | **research** Postgres, and **serving** through `run_sync` |
| Raspberry Pi | the serving Postgres, the web site, the poller's session (06:45-13:00 PT) and its scoring loop | **serving** Postgres |
| browser | pages of the site, each with requests of its own out | what it shows |

The two stores are written from both sides, without a common transaction. Each mints its own `events.id`;
a prediction keeps one id on both stores, and `serving_id_floor` separates the ids that the two mint.

### Components

| component | state | what makes it correct | module |
|---|---|---|---|
| forward log: `predict`, `sync`, `outcomes`, nightly chain | `events`, `predictions`, `prediction_outcomes`, sequences on both stores | research is append-only evidence; an id names one prediction everywhere; the only copy of a row is never deleted | `ForwardLog`, `EvidenceLog` |
| its two repair scripts | the same | outcomes keep their signal, links are not undone, inserts find their ids free | `PredictionRepairs` |
| what the nightly sync ships beside it | bars, events, `serving_config`, `modified_at` | an ok sync leaves nothing behind that its window can see; the site moves to a generation that is all there | `ServingCopy` |
| research poller's push | watermarks in the process | a missed tick is repaired by the next one | `LiveMirror` |
| weekly chain: chunked backtest | `runs`, `scheduled_runs`, labels, co-fire counts | a week closed ok has every label; a failed one is retried | `WeeklyBacktest` |
| live poller and its wrapper | today's events, quotes, intents, reports, `poller_sessions` | no fire is notified twice; a mishap loses at most one | `Poller` |
| price ingest | bars, hourly bars, `corporate_actions`, rejects, ledger | one scale; a rejected bar heals | `DailyBars` |
| `tickers` and its writers | a row | nobody takes away what another resolved | `TickerTable` |
| fetch layer | parquet cache | an answer is all the vendor had | `FetchCache` |
| share counts | `shares_outstanding`, ledger | a filing is replaced by an estimate only when SEC's document is missing or the guard rejects the filing; a verdict of the guard settles | `Shares` |
| universe | quarterly rows, stamps on events | an event carries the membership of its day; a verdict is not an error of scale | `Membership`, `UniverseRules` |
| detection | indicators, hits | live, nightly and backtest agree | `Signals` |
| events rows | `events` | two column sets, one row; clusters do not overlap | `EventRows` |
| entries and exits | four rows of a signal | what is resolved stays; no price that was not traded | `Trades` |
| `cscan backtest`, harness | `runs`, rows, notes | ok means written and checked | `Backtests` |
| benchmarks: arms, null, taxes | books | no money is made by booking | `Holdings`, `SignalArm`, `ArmTaxes` |
| forward paths and labels | `path`, label columns | night by night is what a backfill writes; labels agree | `Paths` |
| cell grid | `rho_era`, `cell_stats` | no cell on more evidence than it has; one family per run | `CellStats` |
| calibration | a table of buckets | isotonic, keeps ranks | `Calibration` |
| training, serving frame | windows, folds | nothing is learned from what it is judged on | `TrainingWindows` |
| promotion gate | scores of heads | sorting costs nothing, a cluster votes once | `PromotionGate` |
| model artifact | a file per machine, a row on serving | a row is scored by a fit of its own config | `ModelArtifact` |
| site: live price, screener, chart, event list, chat, rates | in the browser, in a server process | a page shows its own, without repeats or holes | `LiveFeed`, `ScreenPage`, `ChartPages`, `EventList`, `ChatTurns`, `RecentRates` |

`PROJECT.json` lists each with its sources and status.

### What is hard in this code

Two machines write one store while a third process copies between the two; each id that crosses has to be
translated. Chains are killed by `RuntimeMaxSec`, reboots and the OOM killer between commits, and systemd
restarts them from the top. Checkpoints, ledgers, caches and debounce rows make retries cheap, and each of
them can vouch for work that was not done. Vendors restate history, publish late and change scale. The same
rule is written two or three times (live and settled detection, backtest and label backfill, SQL view and
page query) and has to agree. In the browser every answer may come to a page that has moved on.
`PROJECT.json` "hazards" has each of these at its line with the properties that would catch it.

## 2. The modules

```
EvidenceLog  <== refined by ==  ForwardLog     <- ForwardLog_proofs       MCForwardLog
                                WeeklyBacktest <- WeeklyBacktest_proofs   MCWeeklyBacktest
                                Poller         <- Poller_proofs           MCPoller

DailyBars  FetchCache           <- DailyBars_proofs      \
Shares     TickerTable          <- Tickers_proofs         |
Membership UniverseRules        <- Membership_proofs      |               MCIngest
ModelArtifact TrainingWindows   <- ModelArtifact_proofs   |
CellStats  Calibration PromotionGate                     /

LiveFeed   LiveMirror           <- LiveFeed_proofs       \
Signals    Trades               <- Poller_proofs          |
ServingCopy                     <- ModelArtifact_proofs   |               MCRules
PredictionRepairs Paths
                      Backtests <- WeeklyBacktest_proofs  |
EventRows                       <- Membership_proofs      |
Holdings   SignalArm ArmTaxes                             |
ScreenPage ChartPages EventList ChatTurns RecentRates    /
```

A module of proofs holds those of one side of the system. It extends one component; a second or third is an
INSTANCE in it, with variables of its own and of the same definitions that a suite checks. (A library operator
then has two names, which is why some leaves cite `P!Cardinality, Cardinality`.)

`MCIngest` and `MCRules` check several components in one run: a behaviour is of one component, chosen by
`part` in the initial state, and the variables of the others stand at 0. Nothing is composed by that; a
property `part = "bars" => ...` is a property of that component, and each instance is as if it ran alone.
Two components' variables are the suite's own, because a proof states the suite's property of them: `MCIngest`
extends `Membership` and `MCRules` extends `LiveFeed`, whose constants then are the suites' constants.

`ForwardLog` and `Poller` meet in the serving store: `ForwardLog`'s `Fire` is the effect of one complete
pass of `Poller`'s `WriteEvent`, and its `Score` is the wrapper's scoring loop. `Signals` says what fires,
`EventRows` what becomes of the row, `Trades` what is in it, `ServingCopy` how it reaches the site,
`ScreenPage` what the site makes of it. Each takes the others' effect as an input of its own.
No module declares a RECURSIVE operator.

### ForwardLog (the core)

A step is one database transaction, or one read whose result a later transaction uses.

| state | code |
|---|---|
| `rEvents rPred rOut rEvSeq rSeq` | research: `events`, `predictions`, `prediction_outcomes`, the two sequences |
| `sEvents sPred sOut sEvSeq sSeq` | serving: the same |
| `closed` | slots whose forward window has closed (labels are known) |
| `day phase` | the calendar, and whether the session of the day is open |
| `pc end pulled` | where the nightly chain is, the `end` date it resolved, whether its pull worked |
| `frame snap` | the rows a transfer has read and not yet written |
| `mishaps` | disruptions so far |

Actions: the Pi `Fire`s and `Score`s while the session is open; `CloseSession` and `NextDay` move the
calendar; the chain goes `Start`, `RunEvents`, `PeakLabels`, `PullRead`, `PullWrite` (or `PullFail`),
`Predict`, `Outcomes`, `SyncBegin`, `SyncEvents`, `SyncClear`, `SyncCopy` (or `SyncCopyRaises`),
`SyncOutcomes` (or `SyncFail`), `Sweep`; `Kill` may hit at any step and the next `Start` is from the top;
`WeeklyRefit` runs `predict` beside the chain.

Abstractions: the events copy takes the whole snapshot (its window is `ServingCopy`'s subject);
`predictions` fit one chunk; a label always has a side; the serving sequence starts on the floor; the reset
of the research sequence belongs to `PullWrite`; `PullRead` merges the pull's reads, and what `predict`
drops is the disruption `skip`; an exception that ends the chain is `Kill`. The sweep that the chain also
runs on research (cli.py:3697) is left out because the poller writes serving only.

`EvidenceLog` is what the log promises a reader: an append-only list of predictions, each about at most one
event of its own slot, each event claimed once, each prediction resolved at most once. `ForwardLog` maps
its research variables onto it (`EvidenceSpec`).

### WeeklyBacktest

Time is a week number. `ledger` is the `backtest_compute` rows of `runs`, `slot` the `scheduled_runs` rows,
`labels` and `cofire` the week in which each ticker's labels were computed and last counted, `order` the
order in which `SELECT ticker FROM tickers` returns its rows, `resolved since chunk began failed` the run's
memory. A chunk's write (`WriteChunk`) and its `runs` row (`CloseChunk`) are two transactions. `NextWeek`,
`Restart`, `Boot`, `Kill`, `PowerLoss` are systemd and the machine. Changes of the universe's membership are
abstracted to changes of its order; refit, publish and the config-hash guard are left out (refit and publish
are in `ModelArtifact`); so is a `cscan weekly` started by hand, which takes no lock.

### Poller

One session. The clock counts polling intervals: 0 before the open, `1..LastTick` in the session, then
closed. `unit`, `pc` and `up` are systemd, the wrapper (`start`, `wait`, `gone`) and the poller it waits
for; `now todo cur quoted started ticks failures` are the poller's memory, lost with the process; `events
quotes intents reports row` are in Postgres and survive. The bands are fixed for the session, so a ticker's
quote enters as "below", "inside", "above" or missing, and `TypesFired`, `MostSpecific` and `FiresAt` are
`_types_fired`, `_fired_by_side` and `breach_live` on that. Sessions do not share state (every key carries
the date), so one is enough. An interval that passes inside a tick is counted when the tick is over.

### The ingest modules

**DailyBars.** One ticker and one split. A price is its *scale*, the power of the ratio by which it exceeds
the price in today's shares, which is all that the reconciliation looks at. The chain is `Start`, `FetchDaily`,
`Reconcile`, `Audit`, `FetchHourly`, `FetchActions`, `WriteActions`, `SecondPass`; the vendor `Publish`es a
bar late and `VendorAdjusts` its history when it likes; a second pass of a chain asks again and may meet another
history than the first did. `Reconcile` looks at splits of the last `ReconcileDays` only, and a split known later
keeps its cliff. The rejects, the bars and the coverage of one fetch are three transactions in the code and one
step, `FetchDaily`, here: a kill between them is not in this module (`TickerTable` has bars and coverage apart).

**TickerTable.** A `tickers` row and its six writers. Those that read, call a vendor and write later are two
actions (`SectorRead`, `SectorWrite`), with `pending` between.

**FetchCache.** `Questions` are what the jobs ask, `Key` and `Bypasses` what `cached` makes of them; the
vendor publishes late; a kill tears the file.

**Shares.** SEC's facts and Yahoo's points where SEC's stop; rows, then ledger. `Chosen` has one fact per filing
day, and the guard judges that series anew every night: `ScaleErrors` are the filings a thousandfold above
the median of their `Neighbours` (at most `ScaleWindow` places away), in a series of `MinFilings` or more. So a
filing that was let in may be rejected once later ones stand next to it, its day is then free for Yahoo's point,
and what keeps an estimate away is not that SEC once filed but that this night's `best` has the day. `rejected`
has the days that fell out. A count is plain, scaled or absurd; plain ones differ by less than the guard looks at.

**Membership, UniverseRules.** The first has the quarterly rows, `MemberAt` and the jobs that stamp events,
in any order; the second what one row says. There splits halve prices and double counts, so that caps,
counts and closes are exponents of two and the company is worth the same throughout: any other cap is an
error of scale.

### The modules of the model

**ModelArtifact.** A file per machine, written in place (`SaveOpens`, `SaveEnds`), the row `published` on
serving, refits and scorings under releases that differ in config and feature layout.

**TrainingWindows.** One event a session; a label is of `Horizon` sessions, purge and embargo count calendar
days. `Night` scores with what `Weekly` fitted.

**CellStats, Calibration, PromotionGate.** Algorithms with an order of runs around them: the grid and its
correction (`MeasureRho`, `Backtest`, `RunCells`), the pooled buckets and the lookup of a score, the heads'
scores and the gate's verdicts. Numbers are integers or quotients; a p-value is the step it is on.

### Rules of trades and their stores

**Signals.** One ticker, one session: `breach_live` on every quote, `detect` on the settled bar, nightly and
backtest, and what the first report of a side calls its reversal (`_reversal_tag`).
**EventRows.** The columns each writer owns, the conflict keys, the clusters and the harness's look at them,
`purge_bars`; prices are there or not. **Trades.** The rows of one signal with its bars: fills, `_exit_on_bar` in its order,
excursions; each `Backtest` writes them again from the bars so far; `HarnessPasses` is what the harness asks of each.
**Paths.** The `path` rows of one event, captured or backfilled, with the labels of SQL, of the nightly fill
and of the backtest, and the gate of `path reconcile`: what it drops, explains, raises. The n-th trading day is
the n-th bar on file (`Nth`), and a path's window is longer than a position is held. **Backtests.** The
commands of `cscan backtest` over `runs` and rows; the per-row checks' findings are given (`flaws`), sharing
them among workers is modelled. **Holdings, SignalArm, ArmTaxes.** The arms' books in whole amounts; beside the arm's portfolio and its
null, the DCA family that spends the same capital in tranches on a schedule.

**ServingCopy.** A row is how often its contents changed; `sync` is the pass that is running with the bounds
it read, and `RefusedAsStale` what the poller's preflight makes of the outcome. Every chunk of a table is a
transaction and the SELECT has no order, so `Cut` leaves any part of the bars, or of the events, on serving.
`behind` and `passed` are history variables: the bars the next window misses, because they were written there or
because a copy that was cut moved the window past what it left; and the events still to ship of a generation
when an ok sync of another one moved the common line over them.

**LiveMirror.** The push of a tick, table by table, behind `mark`. **PredictionRepairs.** Both
scripts with the Pi, research and the pull between their steps, and the preflight of the ids
(`PollerLaunches`); the histories it starts from are of stores that keep their constraints (`IsHistory`).

### The site

**LiveFeed, ChartPages, EventList, ScreenPage** have the requests that are out as a variable, so that an
answer may come in any order, to a page that was left, or not at all. **ChatTurns** has a handler for every
question, the model and the tools answer as they like. **RecentRates** is the cache of a server process.

## 3. The runs

`Disruptions` names what may go wrong in an instance and `MaxDisruptions` how often.

| run | instance | shows |
|---|---|---|
| `forward_log_mishap` | 2 days, a slot on each, 2 labels, any one disruption | `CrossStoreIdentity`, `NextIdsAreFree`, `EvidenceLinksOwnSlot`, `SyncedLinksAgree`, `SweepStrandsNothing`, the inductive invariant `IInv`; and until the disruption comes `CalmNumberKept` and `CalmNightsLoseNothing` |
| `forward_log_retries` | 1 slot over 2 days, any three disruptions, fairness | `OutcomesAreEvidence`, `EvidenceSpec`, `LiveRowsReachResearch` |
| `forward_log_only_copy_lost` | one failed pull | violation of `OnlyCopyIsKept` |
| `weekly_resume` | 3 tickers in chunks of 2, 2 weeks, three of kill, power, chunk, finalize, fairness | `OkMeansLabelled`, `ClosedStaysClosed`, `EveryWeekRefreshed`, `WeeklyInv` |
| `weekly_errors` | the same, three of every disruption | `CofireIsCurrent` |
| `weekly_ticker_skipped` | one ticker fails | violation of `OkMeansLabelled` |
| `poller_session` | 1 ticker with every stochastic, 3 intervals, gives up after 2 failures, any two disruptions, fairness | `NotifiedOnce`, `OneLossPerMishap`, `GivesUpLate`, `ComesToRest`, `PollerInv` |
| `poller_silent_fire` | one exception | violation of `EveryConfluenceNotified` |
| `ingest` | the eleven components of `MCIngest`, each by itself | see the next table |
| `bars_divided_twice` | `DailyBars`, a vendor that serves raw history again | violation of `AdjustedOnce` |
| `rules` | the seventeen components of `MCRules`, each by itself | see the next table |
| `unlinked_prediction_first` | `ScreenPage` | violation of `IdentityBeatsKey` |

| property of the run | component: property of the module | bounds |
|---|---|---|
| `BarsAreConsistent`, `BarsFollowTheVendor` | bars: `AdjustedOnceUnlessRaw`, `NoCliffOnceKnown`, `RejectsHeal`, `RewritesAreAudited`, `RowsMeanHistory`; `SessionBarLands`, `HourlyFollowsDaily` | 6 days, 4 nights of up to 2 chains around an ex-date, a window of 2 sessions, a split reconciled for a day, 3 kinds of ratio, two disruptions |
| `ResolvedSurvives` | table: `ResolvedSurvives`, `CoverageSpansBars` | 5 writes: any two of the two-step writers and one between |
| `AnswersAreCurrent` | fetch: `BarsAreCurrent`, `ActionsAreOfToday` | 3 days, one day late, 2 attempts, two disruptions |
| `FiledBeatsEstimated` | shares: `FetchedMeansWritten`, `FiledBeatsEstimated`, `VerdictsSettle` | 4 nights, 3 facts of 3 sizes, a window of 1 filing in a series of 2 or more, two disruptions: enough for a filing to be let in, flagged, and let in again |
| `MembershipIsCurrent` | membership: the same | 5 days, quarters of 2, one disruption |
| `JudgementsAreFair` | verdict: `TypeOK`, `CapDoesNotMove`, `HalfBeatTheMedian`, `WatchIsOneStepAway`; grid: `RejectedByStepUp`, `RowsAreOfOneRun`, `CountsAreHonest` | 2 splits and 2 filings in 4 days; 7 batches and 2 later ones over 3 eras, 3 runs |
| `OnlyTrustedFitsScore` | artifact: `PublishedMovesForward` (no row is taken away, a refit that uploads its own fit replaces an older one), `OnlyTrustedFitsScore`, `PiFollowsPublished`, `AbsentOnlyIfUnpublished` | 3 releases, 2 fits, 2 scorings, one mishap |
| `FitsLearnHonestly` | windows: `TrainingExpands`, `FoldsDoNotLeak`, `ServedBeforeTrained`, `CosmeticIsHonest`; calibration: `PoolingIsIsotonic`, `RanksAreKept`; gate: `FanIsRepaired`, `ClustersVoteOnce`, `BaselinesAgree` | 40 days from every weekday with a holiday; samples of 5 in 3 buckets; every fan of 3 quantiles and 3 levels on 12 pairs of frames |
| `ExitIsFinal` | trades: `ExitIsFinal`, `NoInventedMoney`, `HarnessPasses` | 4 bars of 5 shapes, 3 policies, holds of 2, both sides |
| `RowsStayWhole` | rows: `PurgeIsComplete`, `ReturnHasEntry`, `RowsPointAtBars`, `HeadsDoNotOverlap`, `OpenIsResolved` | 5 sessions, holds of 2, one disruption, two backtests that overlap |
| `LiveFiresSettle` | signals: `LiveFiresSettle`, `DetectorsAgree`, `CallsAreHonest` | 3 prices against seven indicator rows (bands at 2 and 3, at 1 and 2, or none; stochastics that agree, nearly agree or do not), 2 trades, 8 types |
| `MoneyAddsUp` | holdings: `StintsAddUp`, `OverlayOnly`; arm: `PnlAddsUp`, `FillsDecide`, `DrawsBecomePositions`, `NullIsWhole`, `CapitalIsSpent`; taxes: `TaxIsMonotone`, `LossesCostNothing` | 2 tickers over 3 days; 5 days with gaps, 3 replications on 2 workers, 2 tranches; 3 trades over 2 years |
| `CopiesArrive` | serving: `PinComesLast`, `EventsArrive`, `BarsArrive`, `NextPollIsLetIn`; mirror: `SessionArrives` | 2 tickers, 2 generations, 4 days, the last of them a night of the run and the first ones on file, so that a copy cut inside a short history can move the window past what it left; bars and events cut between any two chunks (an event that the line passed takes three deeds and the run has two; the theorem has any number); 3 ticks, 2 faults |
| `PathsReconcile` | paths: `CapturedIsBackfilled`, `PeakIsReference`, `LabelsReconcile`, `QuietTimesPass` | 5 days, holds of 2, horizons 1 and 2, a settling time of 3, two mishaps |
| `OkMeansChecked` | backtests: `CountsStayWhole`, `OkMeansChecked`, `SweptIsWhole` | 3 tickers, chunks of 2, any two commands |
| `RepairsAreSound` | repairs: `NothingIsUndone`, `InsertsFindRoom`, `OutcomesFollow`, `ReuseIsRepaired`, `LinksAreSound`, `FillAloneLands` | 2 slots, histories with reused ids, three deeds beside the repairs, launches of the poller |
| `PageShowsItsOwn` | feed: `OneTimer`, `PageShowsItsOwn` | 2 tickers, 2 pages, 3 requests, 2 ticks |
| `PagesStayWhole` | screen: `ArrowsLeadToRows`, `RowsAreTheirOwn`, `CalendarIsOfItsMonth`; chart: `BarsAscend`, `ChartIsWhole`; list: `ListGrows`, `NoRowTwice`, `ListIsOfItsFilter`, `DoneIsComplete`; chat: `LostQuestionsEnd`, `EveryCallIsAnswered`, `PageIsALedger`; rates: `FiguresMoveForward`, `FiguresAreSound` | 4 to 6 deeds; 2 questions; 3 queries |

Bounds of the first eight runs. Two days and a slot on each are the least with a live row, its adoption, a
later sync and a window that closes in between; ids leave room for every row the instance can make, so no
action is cut off by one. Two chunks, one of them a single ticker, make skipping, resuming and the last-chunk
case differ; two weeks make a stale checkpoint and a newer slot possible. One ticker fires up to two sides in
a tick and up to three events a day; three intervals hold a good tick between two failing ones. The poller's
limit is 3 in the code and `MaxFailures` = 2 in the run, which leaves a mishap for a restart; the theorems
are for every value. Bounds of the suites were chosen so that each window, gap, page or run meets the one
before and the one after it, and no more.

Fairness. `ForwardLog`: the session closes, a chain that is started goes on, and after the close one is started
(13:15, 19:00, or the boot trigger); nothing is assumed of the Pi. `WeeklyBacktest`: a started chain goes
on, systemd restarts a failed unit (Restart=on-failure) and the machine is switched on again
(OnBootSec). `Poller`: a running script goes on, time passes, and again restart and boot. Mishaps are never
fair. The suites state safety only. `CHECK_DEADLOCK FALSE` where the system really ends: after the last week,
after the close, and for the suites at the last day or deed of an instance.

Each property of a passing run has a mutant in `PROJECT.json`: a definition of the model changed the way a
bug would change the code, under which TLC finds the property violated. A property of a suite joins several
components and its mutant breaks one of them.

## 4. The findings

1. **The only copy of a live prediction is deleted** (`forward_log_only_copy_lost`). A failed pull is
   reported and passed over; `predict` scores the slot again, and `_clear_remap_collisions` then deletes
   the live row from serving as the loser of the pair. `predict --clear` refuses that deletion.
2. **A week closed ok with tickers missing** (`weekly_ticker_skipped`). A chunk with failed tickers is an
   `ok` row; the run fails its slot and exits 1; the restart skips every chunk and closes the slot ok.
3. **A fire nobody hears of** (`poller_silent_fire`). The event, which is the debounce, is committed
   before the steps that can raise; after an exception the fire is never taken up again.
4. **History divided twice** (`bars_divided_twice`). A second chain that still meets the vendor's raw prices
   divides all of the stored history before the split again, against "Idempotent" (jobs/ingest.py:1063).
5. **The unlinked prediction comes first** (`unlinked_prediction_first`). `ORDER BY (p2.event_id = e.id) DESC`
   puts NULL before TRUE, against "an exact identity beats a key that merely matches".

Some modules state a property that does not hold beside the one that does. TLC refutes it when a cfg lists
it (of `ScreenPage` with five deeds); no run is spent on it, and the condition that the checked property has instead is the finding:

| module | does not hold | because |
|---|---|---|
| `FetchCache` | `FactsAreOfToday` | the keys of SEC's documents and Yahoo's sector carry no date |
| `UniverseRules` | `MappedCapDoesNotMove` | the ADR map's ratio is divided out of Yahoo's count of receipts too (core/universe.py:120) |
| `ModelArtifact` | `PublishedIsItsOwn`, `PublishedIsEnough` | `publish` reads the file twice, and the file is saved before the check of its calibration rows |
| `TrainingWindows` | `WindowDoesNotLeak` | a label of five sessions outlives an embargo of five calendar days |
| `Calibration` | `RanksAreAlwaysKept` | ties leave a bucket empty, and the table then jumps over it |
| `PromotionGate` | `ConstantIsBest` | the baseline is an interpolated quantile of unweighted labels, the loss is weighted; against "the loss-minimising constant" (core/pinball.py:114) |
| `Trades` | `SlippageChargedOnce` | the entry leg's slippage is in the price and in the costs |
| `EventRows` | `NextOpenResolvedDaily` | a `next_open` row that has an exit date but no exit is never selected, against "Resolve `next_open` exits daily" (cli.py:3701) |
| `Backtests` | `SweepIsAllowed` | the gate wants `notes IS NULL` and `backtest` always stores a note |
| `Holdings` | `StintsSumToCurve` | a held name without a price, or sold on a rebalance day at another price than its last |
| `ArmTaxes` | `DeferralIsACost` | a deferral can move a loss to a year in which it lowers the bill |
| `ServingCopy` | `ChartsMatch`, `GenerationsArrive` | a bar restated behind the overlap never reaches serving, nor does one that a copy left when it died between two chunks, once what it shipped moved `max(ts)` and completed the ticker's first date: "a re-run converges" (jobs/sync.py:2001) is true of a full pass alone; `_events_modified_since` takes the line of any ok sync (jobs/sync.py:1426), so that a generation whose first pass was cut, or that was switched away from, is never completed by incremental passes, against "so the fast path cannot leave a new serving store half-populated" (jobs/sync.py:1868) |
| `LiveMirror` | `OnlyConnectionsFail`, `ReportsStay` | a poller restarted before its first half arrived violates a foreign key for the rest of the day; reports are upserted by an id that both machines mint |
| `PredictionRepairs` | `ReuseStaysAway` | a row known to research under another id stays below the floor, ahead of research's sequence |
| `LiveFeed` | `PriceGoesAway`, `CandleIsTheLast` | an answer read before the bell arrives after the closing one |
| `ScreenPage` | `OfferedDaysAreOfTheFilter` | while a load is out or has failed, the counts of the other filter stay |
| `ChartPages` | `ChartIsAlwaysWhole` | a page for a longer range lands before a shorter one |
| `EventList` | `ListIsAlwaysOfItsFilter` | a page for the other filter is merged into the new rows |
| `ChatTurns` | `EndedTurnsSpeak`, `WithholdingIsTold` | an answer that is no stream leaves an empty turn; no banner when the budget is spent exactly |
| `RecentRates` | `FiguresAreRecent` | the first load after a quiet day is answered with the day before's |

Further divergences met on the way, by component (lines are where they bite):

*Forward log.* Two rows of one frame can block each other on `predictions_event_id` (sync.py:832 against 149;
`SyncCopyRaises`). After a failed pull the sweep takes provisional events that live predictions still name
(cli.py:949); a row of a failed night is cleared by no later sync (cli.py:978). A chain that runs during the
session adopts a live row before its event exists, and the evening scores the slot again (sync.py:1570). An
event skipped on its night can be scored after its window closed, and is then resolved (research/features.py:520).
`wait_and_poll.sh` says `predict` replaces a fire's row when it scores again; it is insert-only. The nightly
reset of serving's sequence may meet an uncommitted insert of the Pi (sync.py:374).

*Weekly.* The universe is read without ORDER BY, so that a resumed week may cut other chunks (cli.py:68). A run
still active on Saturday swallows the trigger of the new week. The artifact is published even when its save
failed (cli.py:4179). The weekly backtest's read of the bars can be older than what the nightly resolved; the
two hold different locks.

*Poller.* The docstring of the reversal line (jobs/poll.py:686-694) says a reversal at the closing quote
satisfies the stored flag and that both use the band of the day before; the flag uses the session's own band
(core/indicators.py:327), so they can differ. A reversal that forms after the first report of a side is never
announced; the tag of a quote back inside the band cannot occur beside a fire; "today's open unavailable" is
also said when only the ATR is missing. The preflight asks for a bar of any ticker (cli.py:1974), so that one
ticker's missing night passes it, and a sync that died behind the bars too. `sequences_behind` says "at or below"
and tests below, which is right; the wrapper's last `predict` scores also when the poller was refused.
A poller that gives up ends with exit 0 and an `ok` run, and the wrapper with exit 0 whatever the
poller returned, so `Restart=on-failure` never brings it back (`WrapperEnds`). A restarted poller overwrites the
session row with its own start and count. Both sides of a ticker can fire in one tick, and the second replaces
the first's `quotes_live` row. The session's last row is written after the loop and never pushed.

*Ingest.* When the vendor adjusts first, older stored history stays raw (ingest.py:1052); a ratio that is not in
SPLIT_RATIOS gets no second pass; the actions ledger is recorded before the rows (ingest.py:1521); a parquet
file is written in place (fetch/base.py:176); a night without SEC's document lets Yahoo's rows overwrite filed
ones (ingest.py:2205); a thousandfold count that was let in while the series was shorter than
`min_filings_for_scale_check` stays on file after the guard rejects it, because nothing deletes it and Yahoo is
not asked while SEC is current (ingest.py:2251); `run_tickers_refresh` blanks a known CIK; `earnings --historical` overwrites a known time
of day; the monthly job's check for other jobs is long before its writes, a kill between its two halves is
never made up for, and a run by hand on a quarter's last day hides that quarter from it (cli.py:4235).

*Universe and events.* A ticker skipped last quarter keeps older membership; a row detected again under another
type is a second row; `fill_event_derived_state` sets all three columns if one is NULL; `close` and `bb_mid` of an
event stay on the old scale after a split; `touch_level` is missing when confluence is enabled without the band
type; `run_events` looks back ten calendar days for the prior row; a row that left the universe stays in trade.

*Backtests and benchmarks.* Serial harness runs report events of a ticker without bars, parallel ones never see
them; a run of the whole universe with failed tickers overwrites co-fire counts with an undercount; compute
without finalize leaves chunk counts and not NULL (cli.py:1539); the null's workers each read the database again.

*Serving.* An interrupted full sync and a later incremental one leave a generation half there (sync.py:1856);
`sync-config` moves the site at once (sync.py:1137).

*Paths and statistics.* A complete path is never captured again after a restated bar; `path reconcile` refuses
after a cosmetic weekly. With a path behind the backtest the gate raises the AssertionError that is reserved for
"a real formula bug" (research/path_labels.py); `time_to_mfe` is neither dropped for recent events nor
explained; a touched label of an old event that is plainly stale is "explained", and passes. Grid events, rho and baselines are read in three connections, and an era whose events no
longer co-fire keeps its old rho; a missing forward return counts in n_eff and not in p_hit; `stats cells
--split-key holdout` writes pooled holdout cells although `compute_grid` refuses the holdout era; the docs'
cells are twelve or fourteen, the grid has sixteen.

*Model.* `holdout.build_holdout_frame` formats the frame's SQL without all of its fields; it counts
`next_open` where training uses `touch`. A torn artifact raises another error than a stale one, and is not
fetched again because it is there. The gate fits on all of train without an embargo against validate; an
empty validate split exits like a failed check 5, a failed coverage like a pass.

*Site.* A historical page's rows match today's live bars (lib/screen.ts:1093); the arrows ignore `headsOnly`;
the prediction's cosmetic flag is chosen by the natural key alone; the latest date and the last fire ignore
the confluence filter; the queries of a page are not one snapshot; an aborted request clears the calendar's
`loading` of the next one; a row the night replaces can push another past the list's offset; a lost question's
tool calls run on.

## 5. The proofs

TLAPS checks the eight `*_proofs` modules. The theorems hold for every value of the constants under the
modules' named assumptions: a calendar, `MaxResearchId < Floor <= MaxServingId`, a finite universe, positive
sizes. "Induction" below is Init, every step, and the consequence, one lemma for each action or group.

**ForwardLog_proofs** has three inductions, each on top of the one before.

- `IInv`. `CrossStoreIdentity` alone is not inductive: a transfer writes rows it read several steps before,
  while the other store moves on. `Provenance` says a row on the other side of the floor came from its own store
  and is still there, `SnapshotIsPast` that what a transfer carries is a past of research, `PullFrame` and
  `CopyFrame` that the translated rows in flight name rows that exist, and `ResearchKeys` and `ServingKeys` that
  each sequence is past all it minted. From it: `InvariantHolds`, `TypeCorrect`, `IdentityHolds`, `NextIdsFree`,
  `LinksOwnSlot`, `OutcomesHold`, and `ResearchIsEvidence`, the refinement: Init maps to Init and each step to
  `Observe`, `Record`, `Resolve` or a stutter.
- `TransferInv`: what a transfer carries is of one moment and whole. `ChainIsBehind` and `PullIsComplete` say the
  pull left nothing of the chain's days on serving that research lacks, `SnapshotIsWhole` and `EventsAreCopied` that the
  snapshot's events are on serving when predictions are translated, `FrameIsTranslated` that each row of the
  frame is at its own event, `LinksSurviveSweep` that they then are off the provisional rows. The Pi writes on
  and a refit scores beside the chain at every step of it. From it: `TransfersHold`, `SyncedLinksHold` (after
  the copy a link names on serving the event it names on research) and `SweepHolds` (an action property: no
  sweep strands a prediction of the chain's days).
- `CalmInv`: what is true until the first disruption. `CalmChain` says the chain has the closed day for
  itself, `CalmEvents` that research has one event of a slot and has them all once `run_events` is through,
  `CalmLinks` that research scores no slot a live prediction is still to come for. From it: `CalmLogHolds`,
  `CalmNumberHolds` (the number a reader saw live is the one kept) and `CalmNightsHold` (no sync deletes an
  unadopted prediction, no sweep an event a prediction names). `forward_log_only_copy_lost` shows that the
  hypothesis is needed: one failed pull is enough.

**WeeklyBacktest_proofs.** `SlotInv` says the slot a run works on is the newest and still `started`, and that a
count is only taken back by a run that opened the slot again. From it, under every disruption: `SlotHolds`,
`TypeHolds`, `CofireHolds`; and `ClosedHolds` unless resume-check itself fails. `RowsVouch` says an ok row
vouches for its chunk's labels and the chunks behind a run are vouched for since its week; it and
`OkMeansLabelled` need that no ticker fails alone and that the order stays (`WeeklyHolds`,
`LabelledHolds`), and `weekly_ticker_skipped` shows the first of them needed (the order is read without ORDER BY, cli.py:68).

*PredictionRepairs*, in the same module: `RepairInv`. `SequenceIsAhead` holds but between a repair that moved
rows and the end of one; `MoveInHand` says what a repair read is still there until it applies its plan, and that
what it moved cannot come back; `FillInHand` that a planned link is to an event of the row's slot which no row that
was read has. Theorem `RepairsAreHarmless`, from any stores that keep their constraints: without these a history
the code cannot produce broke the proof, and `IsHistory` now asks for them. *Paths*: `PathsInv`. `WindowsAreWhole`
says a full window that nobody edited is what the bars say; `LabelsAreOfBars` that what a backtest stored is of
the first bars after the entry, as many as there were or the position spans; the lemmas are about the n-th
element of a finite set (later bars do not move earlier ones, `NthOfPrefix`). Theorem `PathsAreOfTheBars`, for any
bars, horizons and holding period: the gate needs that no position is held longer than the longest horizon,
which config.py says and nothing checks. *Backtests*: `BacktestsInv`. A command that counts as one of the whole
universe has all of it in every run, a written one without failed tickers has left its configuration whole
(`WrittenIsWhole`), and the sweep opens no member that is already swept (`CommandIsOfItsKind`), so that nothing of a
swept member is written again; a finalize or a nightly row (`FinalizeStep`, `ScanStep`) find a whole configuration
whole or not at all. Theorem `SweepsLandWhole`, for any commands interrupted anywhere.

**Poller_proofs.** `PollerInv`: `FireInHand` says how far the current fire has got and that a fire without an
event left no trace, which makes `NotifiedOnce` inductive; `LoopCounts` bounds ticks and
consecutive failures by the intervals since the start and since the last heartbeat, which gives
`GivesUpLate` and an honest session row; the unreported fires grow by at most the one in hand, and only
when a mishap is counted (`OneLossPerMishap`). Theorems: `PollerHolds`, `NotifiedOnceHolds`, `LossesHold`,
`GivesUpLateHolds`. *Signals*: `SignalsInv` ties what was announced to the quotes it came from; the rest is about the
operators: a type that fires on one trade fires on the session's low or high, and the settled bar keeps it.
The attempt found that the lead of a settled bar is the close type only where that type is enabled; the property
says so. Theorem `FiresSettle`, for any prices, indicator rows and enabled types. *Trades*: `TradesInv`. `Sound` says of a
row what it says of the bars up to its exit (`HitFacts`: the rules ahead of the first that fires are the ones that
did not), `Current` what it has in common with the row a backtest would write now. Both stay when bars are
added: a window is a prefix of any later one, so the first rule to fire stays the first; only `unfinished` and an
untouched target may change. The proof needs bars that meet the CHECKs of `bars`, no stop that reaches the stand-in for
NaN, and nothing of the bounds. Theorem `TradesStand`, for any bars, policies and holding period.

**DailyBars_proofs.** None of the three promises about stored prices is inductive, because whether a bar must
still be divided depends on what the chain knew when it asked. `DailyInv` has `NewerBarsAreAdjustedFirst` (of two
bars before the split the older is never ahead: a fetch reaches back a window, a rewrite to the start), so that
the first cliff is the only one; `CliffIsReconciled`; `RejectsAreOfTheSplit`: only the ex-date's bar is ever
rejected; `ActionsAreWhole` and `SecondPassLands`: what ledger and second pass know. Theorems
`DailyBarsStayConsistent` and `DailyBarsFollowTheVendor`, for any window, number of days and of chains. The attempt
showed that a window of one session cannot tell an ex-date in it from one behind it, so the run has 2.
`FetchInv` says a file of bars has all its window will ever have, because a window the vendor may still add
to is not read from disk, and that today's actions are no older than the morning. Theorem `AnswersAreNotStale`
for any delay up to `RECENT_WINDOW_DAYS`.

**Tickers_proofs.** *TickerTable*: the coverage property says nothing of a row while a batch is in hand, so it
is not inductive; `TableInv` says the stored bars are those the row spans and those in hand (`SpanIsBehind`),
and that what a writer prepared is for a row on file or carries no span (`PreparedFits`). From it
`CoverageIsRight`, and `WritersKeepResolved` with one case per writer: the two halves of what `ingest` checks as
`ResolvedSurvives`. *Shares*: that a filing is never replaced by an estimate needs to know where each row came
from (`RowsAreSourced`), that a night that could read SEC's document has, or has rejected, a filing for every
one on file and no earlier one (`BestIsComplete`), and how the batch in hand is layered (`BatchIsLayered`). That the
guard's verdict settles is about a window and not about the steps: no filing day added after today can be among
the neighbours of one that has `ScaleWindow` later days behind today, and a series does not shrink (`FileSettles`).
Theorem `FilingsWin`, for any window, gate and failures, with its two exceptions in the statement.

**Membership_proofs.** `Settled`: the rows are the verdicts of quarters that are over, so that no later bar
changes them, and an event that no job has still to write is stamped as they say. The lemmas are about the
calendar and the step function `MemberAt`. Theorem `EventsCarryMembership`, as long as nothing has broken the
table's trust (a kill between two halves of a job, a run by hand on a quarter's last day, a revised bar), and
again once an add-ticker has mended it. *UniverseRules*: `RulesInv` adds `SettledCloseIsWorth`: a close read while
the ledger and the stored closes agree is the company's worth over the splits on file. Every split then cancels
between close and count, by the number of days between the filing and the quarter's end. Theorem
`VerdictsDoNotHangOnSplits`, for any number of splits and filings in any order. *EventRows*: `RowsInv`.
`Standing`: unless the world was crossed, what a running backtest has read is a prefix of what is stored;
`HeadsTrue`: a current row tagged a head is the head today's bars and detections call for. Both rest on
`HeadsOfPrefix`, that later days move no head: a session may close without a backtest, and a weekly backtest read
before tonight's may write after it. `HeadsApart` says two true heads are more than the holding period apart, from
which the statistics' rows do not overlap, and the harness's look at neighbours is enough because bars between
days only grow with the distance (`BetweenFacts`). The fold of `tag_clusters` is a recursive function;
that there is one at all is a lemma (`HeadsExist`, by the first day that cannot be reached). Theorem `RowsHold`, for any
holding period, window and disturbances.

**ModelArtifact_proofs.** `ArtifactInv` says where fits come from (`Numbers`), that the fit of a running refit is newer
than any published (`RefitIsNewest`), and what a scoring run knows of its file at each stage (`Runs`). Theorem
`OnlyTrustedFits`: rows are scored by trusted fits only, the Pi follows what is published, and the action
property `PublishedMovesForward`. An attempt to prove the first forms of the last two failed for a good reason:
beyond the bounds of the run a refit that could not save uploads the file of a scoring run, an older fit, and
a Pi deployed to another config scores with the file the former one brought. Both properties now say so.
*ServingCopy*: `SyncInv`. What serving lacks is stamped after the line (`LineHolds`), what changed behind a
snapshot is stamped with its day (`SnapshotHolds`), so a pass ships or finds all of it (`EventsAreDue`); for bars
the window and the tickers shipped whole play that part (`BarsAreDue`), and a copy that is cut keeps it, since
what it leaves is still in the window, of a ticker still lacking, or `behind` (`BarsShippedKeep`). The attempt found that the line
belongs to the last ok sync and not to its generation, which no instance of the run was long enough to
show: hence `passed`, and `GenerationsArrive` among what does not hold. Theorem `ServingGetsItAll`.
*TrainingWindows*: `WindowsInv` says what the last fit read is of the frame of some earlier day
(`FitIsOfTheFrame`), so that a later frame has it too. That no fold leaks is a count (`FoldsClear`): if a label ended at or
after a validated session, the sessions of the purge and those of the embargo would be more than a horizon.
For this the two must make a horizon together, which `CalendarAssumption` states. The purge takes its 10 sessions for
calendar days and the embargo is of 5, so the last ten days of a year need five sessions: just what they have when
they begin on a Friday or a Saturday, less Christmas; one more holiday among them would leak. Theorem `FitsDoNotLeak`.

**LiveFeed_proofs.** `OnScreen`: only the feed of the page that is shown ticks or is listened to. `ReadsArePast`: an
answer is of a row that was there, and for this page of none older than the page was drawn with. Theorem
`PageIsItsOwn`, for any number of answers in any order. *LiveMirror*: `Behind`, of the watermarks a push has reached
and of those of the last that landed: nothing they name is unwritten, and all behind them is on
serving; `PushedSoFar`: tables arrive one by one. Theorem `LandedPushesAreWhole`, for any faults and restarts.

Only model-checked: liveness under fairness (`LiveRowsReachResearch`, `EveryWeekRefreshed`, `ComesToRest`) and
ENABLED, which the installed provers do not reach. Of `ingest` `AbsentOnlyIfUnpublished`; in `FitsLearnHonestly`
`ServedBeforeTrained` (it rests on how many nights are skipped), the pooling and the gate; in `JudgementsAreFair`
`HalfBeatTheMedian` and the grid. Of `rules` `MoneyAddsUp`, `PagesStayWhole` and, in `OkMeansChecked`, what an ok says
of the checks (the counts of the chunks are added up). Many of these are about algorithms over data (buckets,
books, medians), where the argument is an induction over the data that the provers cannot instantiate; over a
finite set of numbers a least counterexample does instead (`FiniteBound`, `LastOfDays`, `NoFirstDay`).

## 6. The plan

In order:

1. Proofs of the state machines of `rules` that have none: `EventList` (`NoRowTwice`, `ListGrows`), which needs
   facts about sorted sequences.
2. `predict --clear` on two stores, and the slots of the daily and monthly jobs with their check for other
   running jobs, as actions of `ForwardLog` and `Membership`.
3. Liveness of `RecentRates`, `EventList` and `LiveMirror` under the fairness their schedulers justify.

## 7. Not modelled

- Indicators, the ratios of an equity curve, bootstraps and the null's simulation: floating-point formulas
  without state. The boosters and the neural experiments: what they return is any prediction.
- The MCP server, the other handlers and views, status, preflight, provenance, configuration: reads or checks
  without state. The limiter of the MCP server and its bearer check are one guard each.
- Parsing of the vendors' answers, the earnings and holidays fetchers, rendering of pages, the backup's copy:
  I/O and formats that no property here tells apart.
- The tables that `run_sync` copies whole, and migrations other than those that state a key or a view the
  modules use.
