------------------------------ MODULE MCRules -------------------------------
(***************************************************************************)
(* The rules of trades and the stores that hold them, side by side: a      *)
(* behaviour is of one module, and the variables of the others stand still *)
(* at 0. LiveFeed is extended rather than instantiated, so that this run   *)
(* checks the very invariant its proofs are about: it stands still with no *)
(* page and no feed.                                                       *)
(***************************************************************************)
EXTENDS Integers, Sequences, TLC, LiveFeed

CONSTANT Parts  \* the modules of this run


\* Bars: of 12 units a price for the exits, of whole prices for the arms.
Bar(o, h, l, c) == [open |-> 12 * o, high |-> 12 * h, low |-> 12 * l, close |-> 12 * c]
Fill(o, c)      == [open |-> o, close |-> c]
NoFill          == Fill(0, 0)

Shapes ==
  {Bar(2, 3, 1, 2), Bar(1, 2, 1, 1), Bar(3, 3, 2, 3), Bar(2, 2, 1, 1), Bar(2, 3, 2, 3)}

Policy(stop, mid, far, stoch) == [stop |-> stop, mid |-> mid, far |-> far, stoch |-> stoch]

Policies ==
  {Policy(12, TRUE, FALSE, TRUE), Policy(0, FALSE, TRUE, FALSE), Policy(12, FALSE, FALSE, FALSE)}

\* Indicator rows: bands at 2 and 3, lower, or none yet, and both stochastics,
\* which agree by being extreme, by being near, or not at all.
IndicatorRows ==
  {[lower |-> 2, upper |-> 3, full |-> full, fast |-> fast] : full \in {1, 9}, fast \in {1, 5}}
  \cup {[lower |-> 2, upper |-> 3, full |-> 3, fast |-> 2],
        [lower |-> 1, upper |-> 2, full |-> 9, fast |-> 9],
        [lower |-> -1000, upper |-> -1000, full |-> 1, fast |-> 1]}

AllTypes ==
  {"bull_close_below_lower", "confluence_low", "bb_lower_touch", "stoch_oversold",
   "bear_close_above_upper", "confluence_high", "bb_upper_touch", "stoch_overbought"}

PriceDay(a, b) == [t \in {"a", "b"} |-> IF t = "a" THEN a ELSE b]

\* One ticker's opens and closes, with days that have no bar.
FillPaths ==
  {<<Fill(1, 1), Fill(1, 2), Fill(2, 1), Fill(2, 2), Fill(1, 2)>>,
   <<Fill(2, 2), Fill(2, 1), NoFill, Fill(2, 4), Fill(4, 2)>>,
   <<Fill(2, 1), NoFill, Fill(1, 1), Fill(2, 2), NoFill>>}

World(firing, priced, flawed, last) ==
  [fires |-> firing, bars |-> priced,
   flaws |-> [t \in {"a", "b", "c"} |-> IF t \in flawed THEN {"entry"} ELSE {}],
   profile |-> ("a" :> <<2, 2, 1, 1, 0>>) @@ ("b" :> <<2, 1, 1, 0, 1>>) @@ ("c" :> last)]

\* All in order, a flaw, a ticker without bars, one that does not fire, and
\* signals that do not mind a shift.
Worlds ==
  LET abc == {"a", "b", "c"}
  IN {World(abc, abc, {}, <<1, 1, 0, 0, 0>>), World(abc, abc, {"c"}, <<1, 1, 0, 0, 0>>),
      World(abc, {"a", "c"}, {}, <<1, 1, 0, 0, 0>>), World({"a", "b"}, abc, {}, <<1, 1, 0, 0, 0>>),
      World(abc, abc, {}, <<1, 1, 1, 1, 1>>)}

\* Of two debounce slots: one known to both stores and one the Pi's alone; an id of
\* two signals; and a row above the floor before the split.
RepairHistories ==
  LET key(s, l) == [slot |-> s, label |-> l]
      row(i, s, l, e) == [id |-> i, key |-> key(s, l), event |-> e]
      settled(s) == {[id |-> 1, slot |-> s, label |-> "settled"]}
  IN {[serving |-> {row(1, 1, "settled", 0), row(2, 2, "live", 0)},
       research |-> {row(1, 1, "settled", 1)}, events |-> settled(1)],
      [serving |-> {row(1, 1, "live", 0), row(2, 2, "settled", 0)},
       research |-> {row(1, 2, "settled", 1)}, events |-> settled(2)],
      [serving |-> {row(1, 1, "live", 0), row(5, 2, "live", 0)},
       research |-> {}, events |-> settled(1)]}

\* A list of three with one confluence at each end and one live row.
OldEvents ==
  {[id |-> i, day |-> 5 - i, confluence |-> i \in {1, 3}, live |-> i = 1] : i \in 1..3}

\* Everything that may happen to a copy.
AllCopies ==
  {"late", "restate", "history", "modify", "rebuild", "setting", "config", "full", "stop", "cut",
   "unread"}

VARIABLES
  part,  \* the module this behaviour is of
  side, level, policy, hourly, bars, rows, today, detected, job, night,
  disruptions, stale, crossed, lagged, prior, older, trades, quoted,
  near, closed, own, settled, measured, said, day, members, prices, hold, trim,
  signalled, path, panel, universe, fired, parts, drawn, stored, book,
  core, chart, events, copy, stamp, setting, pin, served, synced,
  sync, behind, passed, happened, kind, scope, entry, entryDay, seen, peak, ret,
  labels, rewritten, pathStep, edited, fresh, mishaps, fires, flaws, profile,
  ledger, command, commands,
  reports, preds, screen, picker, asked, deeds, serving, outcomes, servSeq,
  research, resSeq, bySlot, move, fill, owed, lost, sound, first, ticked,
  ingested, exhausted, interacted, out, view, late, settles, unfiltered,
  count, done, failed, run, tick, mark, high, push, failing, faults, turns,
  busy, reading, routes, log, now, cache, queries, waiting

T == INSTANCE Trades WITH Level <- 24, Target <- 11, Slip <- 1, Tick <- 12, MaxHold <- 2, MaxBars <- 4,
  Hourlies <- {<<Bar(3, 3, 3, 3), Bar(3, 3, 1, 1)>>}
E == INSTANCE EventRows WITH LastDay <- 5, MaxHold <- 2, Window <- 2,
  Disruptions <- {"halt", "late", "revise", "fail", "purge"}, MaxDisruptions <- 1
S == INSTANCE Signals WITH Prices <- {1, 2, 3}, Rows <- IndicatorRows, Enabled <- AllTypes, Oversold <- 2,
  Overbought <- 8, AgreeTol <- 1, MaxTrades <- 2
H == INSTANCE Holdings WITH Tickers <- {"a", "b"}, PriceDays <- {PriceDay(1, 1), PriceDay(2, 1), PriceDay(0, 2)},
  Quarters <- {{"a", "b"}, {"b"}}, Capital <- 65536, Rf <- 1, LastDay <- 3, MaxSignals <- 2
A == INSTANCE SignalArm WITH Days <- 1..5, YearEnd <- 3, Paths <- FillPaths, MaxHold <- 2, Replications <- 3,
  Workers <- 2, MaxFires <- 3, Tranches <- 2, Capital <- 65536, Rf <- 1
X == INSTANCE ArmTaxes WITH LastDay <- 4, YearDays <- 2, Window <- 1, LongDays <- 2, ShortRate <- 3,
  LongRate <- 2, Pnls <- {-1, 2}, Core <- {{}, {3}}, MaxTrades <- 3
C == INSTANCE ServingCopy WITH Tickers <- {"a", "b"}, Generations <- {"g", "h"}, First <- "g", FirstDay <- 3, LastDay <- 4,
  Overlap <- 1, ModOverlap <- 1, MaxLag <- 1, CopyKinds <- AllCopies, MaxEvents <- 2
P == INSTANCE Paths WITH LastDay <- 5, Prices <- {1, 3}, Horizons <- {1, 2}, MaxHold <- 2, Gain <- 2,
  Recent <- 3, PathKinds <- {"late", "restate", "kill", "backfill", "backtest", "cosmetic"}, MaxPathKinds <- 2
K == INSTANCE Backtests WITH Tickers <- <<"a", "b", "c">>, Base <- "base", Members <- <<"m">>,
  ChunkSizes <- {2}, MaxCommands <- 2
V == INSTANCE ScreenPage WITH LastDay <- 2, MonthDays <- 1, Release <- 2, Tickers <- {"a"}, MaxDeeds <- 4
R == INSTANCE PredictionRepairs WITH Floor <- 5, Slots <- {1, 2}, Histories <- RepairHistories, MaxDeeds <- 3
G == INSTANCE ChartPages WITH Yesterday <- 6, Ranges <- {1, 2, 4}, PageSize <- 2, MaxDeeds <- 6
L == INSTANCE EventList WITH First <- 1, PageSize <- 2, Old <- OldEvents, MaxFires <- 1, MaxDeeds <- 4
M == INSTANCE LiveMirror WITH Slots <- {"s", "t"}, MaxTicks <- 3, MaxFaults <- 2
Q == INSTANCE ChatTurns WITH Limit <- 1, MaxSteps <- 2, MaxHistory <- 3, MaxUses <- 2, MaxQuestions <- 2, MaxMishaps <- 1
B == INSTANCE RecentRates WITH Sessions <- 2, Fresh <- 1, NBuckets <- 3,
  Days <- {[n |-> 4, hits |-> 4], [n |-> 3, hits |-> 1]}, MaxDays <- 3, MaxTime <- 2,
  MaxQueries <- 3, MaxMishaps <- 1

NotT ==
  <<today, detected, job, night, disruptions, stale, crossed, lagged, prior,
    older, trades, quoted, live, near, closed, own, settled, measured, said, day,
    members, prices, hold, trim, signalled, path, panel, universe, fired,
    parts, drawn, stored, book, core, chart, events, copy, stamp, open,
    setting, pin, served, synced, sync, behind, passed, happened, kind, scope,
    entry, entryDay, seen, peak, ret, labels, rewritten, pathStep, edited,
    fresh, mishaps, fires, flaws, profile, ledger, command, commands, page,
    feeds, visible, requests, sent, header, candle, reports, preds, picker,
    asked, deeds, serving, outcomes, servSeq, research, resSeq, bySlot,
    move, fill, owed, lost, sound, first, ticked, ingested, exhausted, interacted,
    out, view, late, settles, unfiltered, count, done, failed, run, tick,
    mark, high, push, failing, faults, turns, busy, reading, routes, log,
    now, cache, queries, waiting, screen>>

NotE ==
  <<side, level, policy, hourly, prior, older, trades, quoted, live, near,
    closed, own, settled, measured, said, day, members, prices, hold, trim,
    signalled, path, panel, universe, fired, parts, drawn, stored, book,
    core, chart, events, copy, stamp, open, setting, pin, served, synced,
    sync, behind, passed, happened, kind, scope, entry, entryDay, seen, peak, ret,
    labels, rewritten, pathStep, edited, fresh, mishaps, fires, flaws, profile,
    ledger, command, commands, page, feeds, visible, requests, sent, header,
    candle, reports, preds, picker, asked, deeds, serving, outcomes,
    servSeq, research, resSeq, bySlot, move, fill, owed, lost, sound, first,
    ticked, ingested, exhausted, interacted, out, view, late, settles,
    unfiltered, count, done, failed, run, tick, mark, high, push, failing,
    faults, turns, busy, reading, routes, log, now, cache, queries, waiting,
    screen>>

NotS ==
  <<side, level, policy, hourly, bars, rows, today, detected, job, night,
    disruptions, stale, crossed, lagged, day, members, prices, hold, trim,
    signalled, path, panel, universe, fired, parts, drawn, stored, book,
    core, chart, events, copy, stamp, open, setting, pin, served, synced,
    sync, behind, passed, happened, kind, scope, entry, entryDay, seen, peak, ret,
    labels, rewritten, pathStep, edited, fresh, mishaps, fires, flaws, profile,
    ledger, command, commands, page, feeds, visible, requests, sent, header,
    candle, reports, preds, picker, asked, deeds, serving, outcomes,
    servSeq, research, resSeq, bySlot, move, fill, owed, lost, sound, first,
    ticked, ingested, exhausted, interacted, out, view, late, settles,
    unfiltered, count, done, failed, run, tick, mark, high, push, failing,
    faults, turns, busy, reading, routes, log, now, cache, queries, waiting,
    screen>>

NotH ==
  <<side, level, policy, hourly, bars, rows, today, detected, job, night,
    disruptions, stale, crossed, lagged, prior, older, trades, quoted, live,
    near, closed, own, settled, measured, said, path, panel, universe, fired,
    parts, drawn, stored, book, core, chart, events, copy, stamp, open,
    setting, pin, served, synced, sync, behind, passed, happened, kind, scope,
    entry, entryDay, seen, peak, ret, labels, rewritten, pathStep, edited,
    fresh, mishaps, fires, flaws, profile, ledger, command, commands, page,
    feeds, visible, requests, sent, header, candle, reports, preds, picker,
    asked, deeds, serving, outcomes, servSeq, research, resSeq, bySlot,
    move, fill, owed, lost, sound, first, ticked, ingested, exhausted, interacted,
    out, view, late, settles, unfiltered, count, done, failed, run, tick,
    mark, high, push, failing, faults, turns, busy, reading, routes, log,
    now, cache, queries, waiting, screen>>

NotA ==
  <<side, level, policy, hourly, bars, rows, today, detected, job, night,
    disruptions, stale, crossed, lagged, prior, older, trades, quoted, live,
    near, closed, own, settled, measured, said, day, members, prices, hold, trim,
    signalled, core, chart, events, copy, stamp, open, setting, pin, served,
    synced, sync, behind, passed, happened, kind, scope, entry, entryDay, seen,
    peak, ret, labels, rewritten, pathStep, edited, fresh, mishaps, fires,
    flaws, profile, ledger, command, commands, page, feeds, visible,
    requests, sent, header, candle, reports, preds, picker, asked, deeds,
    serving, outcomes, servSeq, research, resSeq, bySlot, move, fill, owed,
    lost, sound, first, ticked, ingested, exhausted, interacted, out, view, late,
    settles, unfiltered, count, done, failed, run, tick, mark, high, push,
    failing, faults, turns, busy, reading, routes, log, now, cache, queries,
    waiting, screen>>

NotX ==
  <<side, level, policy, hourly, bars, rows, today, detected, job, night,
    disruptions, stale, crossed, lagged, prior, older, quoted, live, near,
    closed, own, settled, measured, said, day, members, prices, hold, trim,
    signalled, path, panel, universe, fired, parts, drawn, stored, book,
    chart, events, copy, stamp, open, setting, pin, served, synced, sync,
    behind, passed, happened, kind, scope, entry, entryDay, seen, peak, ret,
    labels, rewritten, pathStep, edited, fresh, mishaps, fires, flaws, profile,
    ledger, command, commands, page, feeds, visible, requests, sent, header,
    candle, reports, preds, picker, asked, deeds, serving, outcomes,
    servSeq, research, resSeq, bySlot, move, fill, owed, lost, sound, first,
    ticked, ingested, exhausted, interacted, out, view, late, settles,
    unfiltered, count, done, failed, run, tick, mark, high, push, failing,
    faults, turns, busy, reading, routes, log, now, cache, queries, waiting,
    screen>>

NotC ==
  <<side, level, policy, hourly, rows, detected, job, night, disruptions,
    stale, crossed, lagged, prior, older, trades, quoted, live, near,
    closed, own, settled, measured, said, day, members, prices, hold, trim,
    signalled, path, panel, universe, fired, parts, drawn, stored, book,
    core, kind, scope, entry, entryDay, seen, peak, ret, labels, rewritten,
    pathStep, edited, fresh, mishaps, fires, flaws, profile, ledger,
    command, commands, page, feeds, visible, requests, sent, header, candle,
    reports, preds, picker, asked, deeds, serving, outcomes, servSeq,
    research, resSeq, bySlot, move, fill, owed, lost, sound, first, ticked,
    ingested, exhausted, interacted, out, view, late, settles, unfiltered,
    count, done, failed, run, tick, mark, high, push, failing, faults,
    turns, busy, reading, routes, log, now, cache, queries, waiting, screen>>

NotP ==
  <<side, level, policy, hourly, rows, detected, job, night, disruptions,
    stale, crossed, lagged, prior, older, trades, quoted, live, near,
    closed, own, settled, measured, said, day, members, prices, hold, trim,
    signalled, panel, universe, fired, parts, drawn, stored, book, core,
    chart, events, copy, stamp, open, setting, pin, served, synced, sync,
    behind, passed, happened, fires, flaws, profile, ledger, command, commands,
    page, feeds, visible, requests, sent, header, candle, reports, preds,
    picker, asked, deeds, serving, outcomes, servSeq, research, resSeq,
    bySlot, move, fill, owed, lost, sound, first, ticked, ingested, exhausted,
    interacted, out, view, late, settles, unfiltered, count, done, failed,
    run, tick, mark, high, push, failing, faults, turns, busy, reading,
    routes, log, now, cache, queries, waiting, screen>>

NotK ==
  <<side, level, policy, hourly, today, detected, job, night, disruptions,
    stale, crossed, lagged, prior, older, trades, quoted, live, near,
    closed, own, settled, measured, said, day, members, prices, hold, trim,
    signalled, path, panel, universe, fired, parts, drawn, stored, book,
    core, chart, events, copy, stamp, open, setting, pin, served, synced,
    sync, behind, passed, happened, kind, scope, entry, entryDay, seen, peak, ret,
    labels, rewritten, pathStep, edited, fresh, mishaps, page, feeds, visible,
    requests, sent, header, candle, reports, preds, picker, asked, deeds,
    serving, outcomes, servSeq, research, resSeq, bySlot, move, fill, owed,
    lost, sound, first, ticked, ingested, exhausted, interacted, out, view, late,
    settles, unfiltered, count, done, failed, run, tick, mark, high, push,
    failing, faults, turns, busy, reading, routes, log, now, cache, queries,
    waiting, screen>>

NotF ==
  <<side, level, policy, hourly, bars, rows, today, detected, job, night,
    disruptions, stale, crossed, lagged, prior, older, trades, quoted, near,
    closed, own, settled, measured, said, day, members, prices, hold, trim,
    signalled, path, panel, universe, fired, parts, drawn, stored, book,
    core, chart, events, copy, stamp, setting, pin, served, synced, sync,
    behind, passed, happened, kind, scope, entry, entryDay, seen, peak, ret,
    labels, rewritten, pathStep, edited, fresh, mishaps, fires, flaws, profile,
    ledger, command, commands, reports, preds, picker, asked, deeds,
    serving, outcomes, servSeq, research, resSeq, bySlot, move, fill, owed,
    lost, sound, first, ticked, ingested, exhausted, interacted, out, view, late,
    settles, unfiltered, count, done, failed, run, tick, mark, high, push,
    failing, faults, turns, busy, reading, routes, log, now, cache, queries,
    waiting, screen>>

NotV ==
  <<side, level, policy, hourly, bars, rows, detected, job, night,
    disruptions, stale, crossed, lagged, prior, older, trades, quoted, live,
    near, closed, own, settled, measured, said, day, members, prices, hold, trim,
    signalled, path, panel, universe, fired, parts, drawn, stored, book,
    core, chart, copy, stamp, open, setting, pin, served, synced, sync,
    behind, passed, happened, kind, scope, entry, entryDay, seen, peak, ret,
    labels, rewritten, pathStep, edited, fresh, mishaps, fires, flaws, profile,
    ledger, command, commands, feeds, visible, requests, sent, header,
    candle, serving, outcomes, servSeq, research, resSeq, bySlot, move,
    fill, owed, lost, sound, first, ticked, ingested, exhausted, interacted, out,
    view, late, settles, unfiltered, count, done, failed, run, tick, mark,
    high, push, failing, faults, turns, busy, reading, routes, log, now,
    cache, queries, waiting, page>>

NotR ==
  <<side, level, policy, hourly, bars, rows, today, detected, job, night,
    disruptions, stale, crossed, lagged, prior, older, trades, quoted, live,
    near, closed, own, settled, measured, said, day, members, prices, hold, trim,
    signalled, path, panel, universe, fired, parts, drawn, stored, book,
    core, chart, copy, stamp, open, setting, pin, served, synced, sync,
    behind, passed, happened, kind, scope, entry, entryDay, seen, peak, ret,
    labels, rewritten, pathStep, edited, fresh, mishaps, fires, flaws, profile,
    ledger, command, commands, page, feeds, visible, requests, sent, header,
    candle, reports, preds, picker, asked, first, ticked, ingested,
    exhausted, interacted, out, view, late, settles, unfiltered, count,
    done, failed, run, tick, mark, high, push, failing, faults, turns, busy,
    reading, routes, log, now, cache, queries, waiting, screen>>

NotG ==
  <<side, level, policy, hourly, rows, today, detected, job, night,
    disruptions, stale, crossed, lagged, prior, older, trades, quoted, live,
    near, closed, own, settled, measured, said, day, members, prices, hold, trim,
    signalled, path, panel, universe, fired, parts, drawn, stored, book,
    core, chart, events, copy, stamp, open, setting, pin, served, synced,
    sync, behind, passed, happened, kind, scope, entry, entryDay, seen, peak, ret,
    labels, rewritten, pathStep, edited, fresh, mishaps, fires, flaws, profile,
    ledger, command, commands, page, feeds, visible, requests, sent, header,
    candle, reports, preds, picker, asked, serving, outcomes, servSeq,
    research, resSeq, bySlot, move, fill, owed, lost, sound, settles, unfiltered,
    count, done, failed, run, tick, mark, high, push, failing, faults,
    turns, busy, reading, routes, log, now, cache, queries, waiting, screen>>

NotL ==
  <<side, level, policy, hourly, bars, today, detected, job, night,
    disruptions, stale, crossed, lagged, prior, older, trades, quoted, live,
    near, closed, own, settled, measured, said, day, members, prices, hold, trim,
    signalled, path, panel, universe, fired, parts, drawn, stored, book,
    core, chart, copy, stamp, open, setting, pin, served, synced, sync,
    behind, passed, happened, kind, scope, entry, entryDay, peak, ret, labels,
    rewritten, pathStep, edited, fresh, mishaps, flaws, profile, ledger, command,
    commands, page, feeds, visible, requests, sent, header, candle, reports,
    preds, picker, asked, serving, outcomes, servSeq, research, resSeq,
    bySlot, move, fill, owed, lost, sound, first, ticked, ingested, exhausted,
    interacted, run, tick, mark, high, push, failing, faults, turns, busy,
    reading, routes, log, now, cache, queries, waiting, screen>>

NotM ==
  <<side, level, policy, hourly, bars, rows, today, detected, job, night,
    disruptions, stale, crossed, lagged, prior, older, trades, quoted, live,
    near, closed, own, settled, measured, said, day, members, prices, hold, trim,
    signalled, path, panel, universe, fired, parts, drawn, stored, book,
    core, chart, events, copy, stamp, open, setting, pin, served, synced,
    sync, behind, passed, happened, kind, scope, entry, entryDay, seen, peak, ret,
    labels, rewritten, pathStep, edited, fresh, mishaps, fires, flaws, profile,
    ledger, command, commands, page, feeds, visible, requests, sent, header,
    candle, reports, preds, picker, asked, deeds, outcomes, servSeq, resSeq,
    bySlot, move, fill, owed, lost, sound, first, ticked, ingested, exhausted,
    interacted, out, view, late, settles, unfiltered, count, done, failed,
    turns, busy, reading, routes, log, now, cache, queries, waiting, screen>>

NotQ ==
  <<side, level, policy, hourly, bars, rows, today, detected, job, night,
    disruptions, stale, crossed, lagged, prior, older, trades, quoted, live,
    near, closed, own, settled, measured, said, day, members, prices, hold, trim,
    signalled, path, panel, universe, fired, parts, drawn, stored, book,
    core, chart, events, copy, stamp, open, setting, pin, served, synced,
    sync, behind, passed, happened, kind, scope, entry, entryDay, seen, peak, ret,
    labels, rewritten, pathStep, edited, fresh, fires, flaws, profile, ledger,
    command, commands, page, feeds, visible, requests, sent, header, candle,
    reports, preds, picker, asked, deeds, serving, outcomes, servSeq,
    research, resSeq, bySlot, move, fill, owed, lost, sound, first, ticked,
    ingested, exhausted, interacted, out, view, late, settles, unfiltered,
    count, done, failed, run, tick, mark, high, push, failing, faults, log,
    now, cache, queries, waiting, screen>>

NotB ==
  <<side, level, policy, hourly, bars, rows, today, detected, job, night,
    disruptions, stale, crossed, lagged, prior, older, trades, quoted, live,
    near, closed, own, settled, measured, said, day, members, prices, hold, trim,
    signalled, path, panel, universe, fired, parts, drawn, stored, book,
    core, chart, events, copy, stamp, open, setting, pin, synced, sync,
    behind, passed, happened, kind, scope, entry, entryDay, seen, peak, ret,
    labels, rewritten, pathStep, edited, fresh, fires, flaws, profile, ledger,
    command, commands, page, feeds, visible, requests, sent, header, candle,
    reports, preds, picker, deeds, serving, outcomes, servSeq, research,
    resSeq, bySlot, move, fill, owed, lost, sound, first, ticked, ingested,
    exhausted, interacted, out, view, late, settles, unfiltered, count,
    done, failed, run, tick, mark, high, push, failing, faults, turns, busy,
    reading, routes, screen>>

MCInit ==
  \/ /\ "trades" \in Parts /\ part = "trades" /\ T!Init
     /\ today = 0 /\ detected = 0 /\ job = 0 /\ night = 0 /\ disruptions = 0
     /\ stale = 0 /\ crossed = 0 /\ lagged = 0 /\ prior = 0 /\ older = 0
     /\ trades = 0 /\ quoted = 0 /\ live = 0 /\ near = 0 /\ closed = 0
     /\ own = 0 /\ settled = 0 /\ measured = 0 /\ said = 0 /\ day = 0 /\ members = 0
     /\ prices = 0 /\ hold = 0 /\ trim = 0 /\ signalled = 0 /\ path = 0
     /\ panel = 0 /\ universe = 0 /\ fired = 0 /\ parts = 0 /\ drawn = 0
     /\ stored = 0 /\ book = 0 /\ core = 0 /\ chart = 0 /\ events = 0
     /\ copy = 0 /\ stamp = 0 /\ open = 0 /\ setting = 0 /\ pin = 0
     /\ served = 0 /\ synced = 0 /\ sync = 0 /\ behind = 0 /\ passed = 0 /\ happened = 0
     /\ kind = 0 /\ scope = 0 /\ entry = 0 /\ entryDay = 0 /\ seen = 0
     /\ peak = 0 /\ ret = 0 /\ labels = 0 /\ rewritten = 0 /\ pathStep = 0
     /\ edited = 0 /\ fresh = 0 /\ mishaps = 0 /\ fires = 0 /\ flaws = 0
     /\ profile = 0 /\ ledger = 0 /\ command = 0 /\ commands = 0
     /\ page = [number |-> 0] /\ screen = 0 /\ feeds = <<>> /\ visible = 0
     /\ requests = 0 /\ sent = 0 /\ header = 0 /\ candle = 0 /\ reports = 0
     /\ preds = 0 /\ picker = 0 /\ asked = 0 /\ deeds = 0 /\ serving = 0
     /\ outcomes = 0 /\ servSeq = 0 /\ research = 0 /\ resSeq = 0 /\ bySlot = 0
     /\ move = 0 /\ fill = 0 /\ owed = 0 /\ lost = 0 /\ sound = 0 /\ first = 0 /\ ticked = 0
     /\ ingested = 0 /\ exhausted = 0 /\ interacted = 0 /\ out = 0 /\ view = 0
     /\ late = 0 /\ settles = 0 /\ unfiltered = 0 /\ count = 0 /\ done = 0
     /\ failed = 0 /\ run = 0 /\ tick = 0 /\ mark = 0 /\ high = 0 /\ push = 0
     /\ failing = 0 /\ faults = 0 /\ turns = 0 /\ busy = 0 /\ reading = 0
     /\ routes = 0 /\ log = 0 /\ now = 0 /\ cache = 0 /\ queries = 0
     /\ waiting = 0
  \/ /\ "rows" \in Parts /\ part = "rows" /\ E!Init
     /\ side = 0 /\ level = 0 /\ policy = 0 /\ hourly = 0 /\ prior = 0
     /\ older = 0 /\ trades = 0 /\ quoted = 0 /\ live = 0 /\ near = 0
     /\ closed = 0 /\ own = 0 /\ settled = 0 /\ measured = 0 /\ said = 0 /\ day = 0
     /\ members = 0 /\ prices = 0 /\ hold = 0 /\ trim = 0 /\ signalled = 0
     /\ path = 0 /\ panel = 0 /\ universe = 0 /\ fired = 0 /\ parts = 0
     /\ drawn = 0 /\ stored = 0 /\ book = 0 /\ core = 0 /\ chart = 0
     /\ events = 0 /\ copy = 0 /\ stamp = 0 /\ open = 0 /\ setting = 0
     /\ pin = 0 /\ served = 0 /\ synced = 0 /\ sync = 0 /\ behind = 0 /\ passed = 0
     /\ happened = 0 /\ kind = 0 /\ scope = 0 /\ entry = 0 /\ entryDay = 0
     /\ seen = 0 /\ peak = 0 /\ ret = 0 /\ labels = 0 /\ rewritten = 0
     /\ pathStep = 0 /\ edited = 0 /\ fresh = 0 /\ mishaps = 0 /\ fires = 0
     /\ flaws = 0 /\ profile = 0 /\ ledger = 0 /\ command = 0 /\ commands = 0
     /\ page = [number |-> 0] /\ screen = 0 /\ feeds = <<>> /\ visible = 0
     /\ requests = 0 /\ sent = 0 /\ header = 0 /\ candle = 0 /\ reports = 0
     /\ preds = 0 /\ picker = 0 /\ asked = 0 /\ deeds = 0 /\ serving = 0
     /\ outcomes = 0 /\ servSeq = 0 /\ research = 0 /\ resSeq = 0 /\ bySlot = 0
     /\ move = 0 /\ fill = 0 /\ owed = 0 /\ lost = 0 /\ sound = 0 /\ first = 0 /\ ticked = 0
     /\ ingested = 0 /\ exhausted = 0 /\ interacted = 0 /\ out = 0 /\ view = 0
     /\ late = 0 /\ settles = 0 /\ unfiltered = 0 /\ count = 0 /\ done = 0
     /\ failed = 0 /\ run = 0 /\ tick = 0 /\ mark = 0 /\ high = 0 /\ push = 0
     /\ failing = 0 /\ faults = 0 /\ turns = 0 /\ busy = 0 /\ reading = 0
     /\ routes = 0 /\ log = 0 /\ now = 0 /\ cache = 0 /\ queries = 0
     /\ waiting = 0
  \/ /\ "signals" \in Parts /\ part = "signals" /\ S!Init
     /\ side = 0 /\ level = 0 /\ policy = 0 /\ hourly = 0 /\ bars = 0
     /\ rows = 0 /\ today = 0 /\ detected = 0 /\ job = 0 /\ night = 0
     /\ disruptions = 0 /\ stale = 0 /\ crossed = 0 /\ lagged = 0 /\ day = 0
     /\ members = 0 /\ prices = 0 /\ hold = 0 /\ trim = 0 /\ signalled = 0
     /\ path = 0 /\ panel = 0 /\ universe = 0 /\ fired = 0 /\ parts = 0
     /\ drawn = 0 /\ stored = 0 /\ book = 0 /\ core = 0 /\ chart = 0
     /\ events = 0 /\ copy = 0 /\ stamp = 0 /\ open = 0 /\ setting = 0
     /\ pin = 0 /\ served = 0 /\ synced = 0 /\ sync = 0 /\ behind = 0 /\ passed = 0
     /\ happened = 0 /\ kind = 0 /\ scope = 0 /\ entry = 0 /\ entryDay = 0
     /\ seen = 0 /\ peak = 0 /\ ret = 0 /\ labels = 0 /\ rewritten = 0
     /\ pathStep = 0 /\ edited = 0 /\ fresh = 0 /\ mishaps = 0 /\ fires = 0
     /\ flaws = 0 /\ profile = 0 /\ ledger = 0 /\ command = 0 /\ commands = 0
     /\ page = [number |-> 0] /\ screen = 0 /\ feeds = <<>> /\ visible = 0
     /\ requests = 0 /\ sent = 0 /\ header = 0 /\ candle = 0 /\ reports = 0
     /\ preds = 0 /\ picker = 0 /\ asked = 0 /\ deeds = 0 /\ serving = 0
     /\ outcomes = 0 /\ servSeq = 0 /\ research = 0 /\ resSeq = 0 /\ bySlot = 0
     /\ move = 0 /\ fill = 0 /\ owed = 0 /\ lost = 0 /\ sound = 0 /\ first = 0 /\ ticked = 0
     /\ ingested = 0 /\ exhausted = 0 /\ interacted = 0 /\ out = 0 /\ view = 0
     /\ late = 0 /\ settles = 0 /\ unfiltered = 0 /\ count = 0 /\ done = 0
     /\ failed = 0 /\ run = 0 /\ tick = 0 /\ mark = 0 /\ high = 0 /\ push = 0
     /\ failing = 0 /\ faults = 0 /\ turns = 0 /\ busy = 0 /\ reading = 0
     /\ routes = 0 /\ log = 0 /\ now = 0 /\ cache = 0 /\ queries = 0
     /\ waiting = 0
  \/ /\ "holdings" \in Parts /\ part = "holdings" /\ H!Init
     /\ side = 0 /\ level = 0 /\ policy = 0 /\ hourly = 0 /\ bars = 0
     /\ rows = 0 /\ today = 0 /\ detected = 0 /\ job = 0 /\ night = 0
     /\ disruptions = 0 /\ stale = 0 /\ crossed = 0 /\ lagged = 0 /\ prior = 0
     /\ older = 0 /\ trades = 0 /\ quoted = 0 /\ live = 0 /\ near = 0
     /\ closed = 0 /\ own = 0 /\ settled = 0 /\ measured = 0 /\ said = 0 /\ path = 0
     /\ panel = 0 /\ universe = 0 /\ fired = 0 /\ parts = 0 /\ drawn = 0
     /\ stored = 0 /\ book = 0 /\ core = 0 /\ chart = 0 /\ events = 0
     /\ copy = 0 /\ stamp = 0 /\ open = 0 /\ setting = 0 /\ pin = 0
     /\ served = 0 /\ synced = 0 /\ sync = 0 /\ behind = 0 /\ passed = 0 /\ happened = 0
     /\ kind = 0 /\ scope = 0 /\ entry = 0 /\ entryDay = 0 /\ seen = 0
     /\ peak = 0 /\ ret = 0 /\ labels = 0 /\ rewritten = 0 /\ pathStep = 0
     /\ edited = 0 /\ fresh = 0 /\ mishaps = 0 /\ fires = 0 /\ flaws = 0
     /\ profile = 0 /\ ledger = 0 /\ command = 0 /\ commands = 0
     /\ page = [number |-> 0] /\ screen = 0 /\ feeds = <<>> /\ visible = 0
     /\ requests = 0 /\ sent = 0 /\ header = 0 /\ candle = 0 /\ reports = 0
     /\ preds = 0 /\ picker = 0 /\ asked = 0 /\ deeds = 0 /\ serving = 0
     /\ outcomes = 0 /\ servSeq = 0 /\ research = 0 /\ resSeq = 0 /\ bySlot = 0
     /\ move = 0 /\ fill = 0 /\ owed = 0 /\ lost = 0 /\ sound = 0 /\ first = 0 /\ ticked = 0
     /\ ingested = 0 /\ exhausted = 0 /\ interacted = 0 /\ out = 0 /\ view = 0
     /\ late = 0 /\ settles = 0 /\ unfiltered = 0 /\ count = 0 /\ done = 0
     /\ failed = 0 /\ run = 0 /\ tick = 0 /\ mark = 0 /\ high = 0 /\ push = 0
     /\ failing = 0 /\ faults = 0 /\ turns = 0 /\ busy = 0 /\ reading = 0
     /\ routes = 0 /\ log = 0 /\ now = 0 /\ cache = 0 /\ queries = 0
     /\ waiting = 0
  \/ /\ "arm" \in Parts /\ part = "arm" /\ A!Init
     /\ side = 0 /\ level = 0 /\ policy = 0 /\ hourly = 0 /\ bars = 0
     /\ rows = 0 /\ today = 0 /\ detected = 0 /\ job = 0 /\ night = 0
     /\ disruptions = 0 /\ stale = 0 /\ crossed = 0 /\ lagged = 0 /\ prior = 0
     /\ older = 0 /\ trades = 0 /\ quoted = 0 /\ live = 0 /\ near = 0
     /\ closed = 0 /\ own = 0 /\ settled = 0 /\ measured = 0 /\ said = 0 /\ day = 0
     /\ members = 0 /\ prices = 0 /\ hold = 0 /\ trim = 0 /\ signalled = 0
     /\ core = 0 /\ chart = 0 /\ events = 0 /\ copy = 0 /\ stamp = 0
     /\ open = 0 /\ setting = 0 /\ pin = 0 /\ served = 0 /\ synced = 0
     /\ sync = 0 /\ behind = 0 /\ passed = 0 /\ happened = 0 /\ kind = 0 /\ scope = 0
     /\ entry = 0 /\ entryDay = 0 /\ seen = 0 /\ peak = 0 /\ ret = 0
     /\ labels = 0 /\ rewritten = 0 /\ pathStep = 0 /\ edited = 0 /\ fresh = 0
     /\ mishaps = 0 /\ fires = 0 /\ flaws = 0 /\ profile = 0 /\ ledger = 0
     /\ command = 0 /\ commands = 0 /\ page = [number |-> 0] /\ screen = 0
     /\ feeds = <<>> /\ visible = 0 /\ requests = 0 /\ sent = 0 /\ header = 0
     /\ candle = 0 /\ reports = 0 /\ preds = 0 /\ picker = 0 /\ asked = 0
     /\ deeds = 0 /\ serving = 0 /\ outcomes = 0 /\ servSeq = 0 /\ research = 0
     /\ resSeq = 0 /\ bySlot = 0 /\ move = 0 /\ fill = 0 /\ owed = 0
     /\ lost = 0 /\ sound = 0 /\ first = 0 /\ ticked = 0 /\ ingested = 0 /\ exhausted = 0
     /\ interacted = 0 /\ out = 0 /\ view = 0 /\ late = 0 /\ settles = 0
     /\ unfiltered = 0 /\ count = 0 /\ done = 0 /\ failed = 0 /\ run = 0
     /\ tick = 0 /\ mark = 0 /\ high = 0 /\ push = 0 /\ failing = 0
     /\ faults = 0 /\ turns = 0 /\ busy = 0 /\ reading = 0 /\ routes = 0
     /\ log = 0 /\ now = 0 /\ cache = 0 /\ queries = 0 /\ waiting = 0
  \/ /\ "taxes" \in Parts /\ part = "taxes" /\ X!Init
     /\ side = 0 /\ level = 0 /\ policy = 0 /\ hourly = 0 /\ bars = 0
     /\ rows = 0 /\ today = 0 /\ detected = 0 /\ job = 0 /\ night = 0
     /\ disruptions = 0 /\ stale = 0 /\ crossed = 0 /\ lagged = 0 /\ prior = 0
     /\ older = 0 /\ quoted = 0 /\ live = 0 /\ near = 0 /\ closed = 0
     /\ own = 0 /\ settled = 0 /\ measured = 0 /\ said = 0 /\ day = 0 /\ members = 0
     /\ prices = 0 /\ hold = 0 /\ trim = 0 /\ signalled = 0 /\ path = 0
     /\ panel = 0 /\ universe = 0 /\ fired = 0 /\ parts = 0 /\ drawn = 0
     /\ stored = 0 /\ book = 0 /\ chart = 0 /\ events = 0 /\ copy = 0
     /\ stamp = 0 /\ open = 0 /\ setting = 0 /\ pin = 0 /\ served = 0
     /\ synced = 0 /\ sync = 0 /\ behind = 0 /\ passed = 0 /\ happened = 0 /\ kind = 0
     /\ scope = 0 /\ entry = 0 /\ entryDay = 0 /\ seen = 0 /\ peak = 0
     /\ ret = 0 /\ labels = 0 /\ rewritten = 0 /\ pathStep = 0 /\ edited = 0
     /\ fresh = 0 /\ mishaps = 0 /\ fires = 0 /\ flaws = 0 /\ profile = 0
     /\ ledger = 0 /\ command = 0 /\ commands = 0 /\ page = [number |-> 0]
     /\ screen = 0 /\ feeds = <<>> /\ visible = 0 /\ requests = 0 /\ sent = 0
     /\ header = 0 /\ candle = 0 /\ reports = 0 /\ preds = 0 /\ picker = 0
     /\ asked = 0 /\ deeds = 0 /\ serving = 0 /\ outcomes = 0 /\ servSeq = 0
     /\ research = 0 /\ resSeq = 0 /\ bySlot = 0 /\ move = 0 /\ fill = 0
     /\ owed = 0 /\ lost = 0 /\ sound = 0 /\ first = 0 /\ ticked = 0 /\ ingested = 0
     /\ exhausted = 0 /\ interacted = 0 /\ out = 0 /\ view = 0 /\ late = 0
     /\ settles = 0 /\ unfiltered = 0 /\ count = 0 /\ done = 0 /\ failed = 0
     /\ run = 0 /\ tick = 0 /\ mark = 0 /\ high = 0 /\ push = 0 /\ failing = 0
     /\ faults = 0 /\ turns = 0 /\ busy = 0 /\ reading = 0 /\ routes = 0
     /\ log = 0 /\ now = 0 /\ cache = 0 /\ queries = 0 /\ waiting = 0
  \/ /\ "serving" \in Parts /\ part = "serving" /\ C!Init
     /\ side = 0 /\ level = 0 /\ policy = 0 /\ hourly = 0 /\ rows = 0
     /\ detected = 0 /\ job = 0 /\ night = 0 /\ disruptions = 0 /\ stale = 0
     /\ crossed = 0 /\ lagged = 0 /\ prior = 0 /\ older = 0 /\ trades = 0
     /\ quoted = 0 /\ live = 0 /\ near = 0 /\ closed = 0 /\ own = 0
     /\ settled = 0 /\ measured = 0 /\ said = 0 /\ day = 0 /\ members = 0 /\ prices = 0
     /\ hold = 0 /\ trim = 0 /\ signalled = 0 /\ path = 0 /\ panel = 0
     /\ universe = 0 /\ fired = 0 /\ parts = 0 /\ drawn = 0 /\ stored = 0
     /\ book = 0 /\ core = 0 /\ kind = 0 /\ scope = 0 /\ entry = 0
     /\ entryDay = 0 /\ seen = 0 /\ peak = 0 /\ ret = 0 /\ labels = 0
     /\ rewritten = 0 /\ pathStep = 0 /\ edited = 0 /\ fresh = 0 /\ mishaps = 0
     /\ fires = 0 /\ flaws = 0 /\ profile = 0 /\ ledger = 0 /\ command = 0
     /\ commands = 0 /\ page = [number |-> 0] /\ screen = 0 /\ feeds = <<>>
     /\ visible = 0 /\ requests = 0 /\ sent = 0 /\ header = 0 /\ candle = 0
     /\ reports = 0 /\ preds = 0 /\ picker = 0 /\ asked = 0 /\ deeds = 0
     /\ serving = 0 /\ outcomes = 0 /\ servSeq = 0 /\ research = 0
     /\ resSeq = 0 /\ bySlot = 0 /\ move = 0 /\ fill = 0 /\ owed = 0
     /\ lost = 0 /\ sound = 0 /\ first = 0 /\ ticked = 0 /\ ingested = 0 /\ exhausted = 0
     /\ interacted = 0 /\ out = 0 /\ view = 0 /\ late = 0 /\ settles = 0
     /\ unfiltered = 0 /\ count = 0 /\ done = 0 /\ failed = 0 /\ run = 0
     /\ tick = 0 /\ mark = 0 /\ high = 0 /\ push = 0 /\ failing = 0
     /\ faults = 0 /\ turns = 0 /\ busy = 0 /\ reading = 0 /\ routes = 0
     /\ log = 0 /\ now = 0 /\ cache = 0 /\ queries = 0 /\ waiting = 0
  \/ /\ "paths" \in Parts /\ part = "paths" /\ P!Init
     /\ side = 0 /\ level = 0 /\ policy = 0 /\ hourly = 0 /\ rows = 0
     /\ detected = 0 /\ job = 0 /\ night = 0 /\ disruptions = 0 /\ stale = 0
     /\ crossed = 0 /\ lagged = 0 /\ prior = 0 /\ older = 0 /\ trades = 0
     /\ quoted = 0 /\ live = 0 /\ near = 0 /\ closed = 0 /\ own = 0
     /\ settled = 0 /\ measured = 0 /\ said = 0 /\ day = 0 /\ members = 0 /\ prices = 0
     /\ hold = 0 /\ trim = 0 /\ signalled = 0 /\ panel = 0 /\ universe = 0
     /\ fired = 0 /\ parts = 0 /\ drawn = 0 /\ stored = 0 /\ book = 0
     /\ core = 0 /\ chart = 0 /\ events = 0 /\ copy = 0 /\ stamp = 0
     /\ open = 0 /\ setting = 0 /\ pin = 0 /\ served = 0 /\ synced = 0
     /\ sync = 0 /\ behind = 0 /\ passed = 0 /\ happened = 0 /\ fires = 0 /\ flaws = 0
     /\ profile = 0 /\ ledger = 0 /\ command = 0 /\ commands = 0
     /\ page = [number |-> 0] /\ screen = 0 /\ feeds = <<>> /\ visible = 0
     /\ requests = 0 /\ sent = 0 /\ header = 0 /\ candle = 0 /\ reports = 0
     /\ preds = 0 /\ picker = 0 /\ asked = 0 /\ deeds = 0 /\ serving = 0
     /\ outcomes = 0 /\ servSeq = 0 /\ research = 0 /\ resSeq = 0 /\ bySlot = 0
     /\ move = 0 /\ fill = 0 /\ owed = 0 /\ lost = 0 /\ sound = 0 /\ first = 0 /\ ticked = 0
     /\ ingested = 0 /\ exhausted = 0 /\ interacted = 0 /\ out = 0 /\ view = 0
     /\ late = 0 /\ settles = 0 /\ unfiltered = 0 /\ count = 0 /\ done = 0
     /\ failed = 0 /\ run = 0 /\ tick = 0 /\ mark = 0 /\ high = 0 /\ push = 0
     /\ failing = 0 /\ faults = 0 /\ turns = 0 /\ busy = 0 /\ reading = 0
     /\ routes = 0 /\ log = 0 /\ now = 0 /\ cache = 0 /\ queries = 0
     /\ waiting = 0
  \/ /\ "backtests" \in Parts /\ part = "backtests" /\ K!Init
     /\ side = 0 /\ level = 0 /\ policy = 0 /\ hourly = 0 /\ today = 0
     /\ detected = 0 /\ job = 0 /\ night = 0 /\ disruptions = 0 /\ stale = 0
     /\ crossed = 0 /\ lagged = 0 /\ prior = 0 /\ older = 0 /\ trades = 0
     /\ quoted = 0 /\ live = 0 /\ near = 0 /\ closed = 0 /\ own = 0
     /\ settled = 0 /\ measured = 0 /\ said = 0 /\ day = 0 /\ members = 0 /\ prices = 0
     /\ hold = 0 /\ trim = 0 /\ signalled = 0 /\ path = 0 /\ panel = 0
     /\ universe = 0 /\ fired = 0 /\ parts = 0 /\ drawn = 0 /\ stored = 0
     /\ book = 0 /\ core = 0 /\ chart = 0 /\ events = 0 /\ copy = 0
     /\ stamp = 0 /\ open = 0 /\ setting = 0 /\ pin = 0 /\ served = 0
     /\ synced = 0 /\ sync = 0 /\ behind = 0 /\ passed = 0 /\ happened = 0 /\ kind = 0
     /\ scope = 0 /\ entry = 0 /\ entryDay = 0 /\ seen = 0 /\ peak = 0
     /\ ret = 0 /\ labels = 0 /\ rewritten = 0 /\ pathStep = 0 /\ edited = 0
     /\ fresh = 0 /\ mishaps = 0 /\ page = [number |-> 0] /\ screen = 0
     /\ feeds = <<>> /\ visible = 0 /\ requests = 0 /\ sent = 0 /\ header = 0
     /\ candle = 0 /\ reports = 0 /\ preds = 0 /\ picker = 0 /\ asked = 0
     /\ deeds = 0 /\ serving = 0 /\ outcomes = 0 /\ servSeq = 0 /\ research = 0
     /\ resSeq = 0 /\ bySlot = 0 /\ move = 0 /\ fill = 0 /\ owed = 0
     /\ lost = 0 /\ sound = 0 /\ first = 0 /\ ticked = 0 /\ ingested = 0 /\ exhausted = 0
     /\ interacted = 0 /\ out = 0 /\ view = 0 /\ late = 0 /\ settles = 0
     /\ unfiltered = 0 /\ count = 0 /\ done = 0 /\ failed = 0 /\ run = 0
     /\ tick = 0 /\ mark = 0 /\ high = 0 /\ push = 0 /\ failing = 0
     /\ faults = 0 /\ turns = 0 /\ busy = 0 /\ reading = 0 /\ routes = 0
     /\ log = 0 /\ now = 0 /\ cache = 0 /\ queries = 0 /\ waiting = 0
  \/ /\ "feed" \in Parts /\ part = "feed" /\ Init
     /\ screen = 0 /\ side = 0 /\ level = 0 /\ policy = 0 /\ hourly = 0
     /\ bars = 0 /\ rows = 0 /\ today = 0 /\ detected = 0 /\ job = 0
     /\ night = 0 /\ disruptions = 0 /\ stale = 0 /\ crossed = 0 /\ lagged = 0
     /\ prior = 0 /\ older = 0 /\ trades = 0 /\ quoted = 0 /\ near = 0
     /\ closed = 0 /\ own = 0 /\ settled = 0 /\ measured = 0 /\ said = 0 /\ day = 0
     /\ members = 0 /\ prices = 0 /\ hold = 0 /\ trim = 0 /\ signalled = 0
     /\ path = 0 /\ panel = 0 /\ universe = 0 /\ fired = 0 /\ parts = 0
     /\ drawn = 0 /\ stored = 0 /\ book = 0 /\ core = 0 /\ chart = 0
     /\ events = 0 /\ copy = 0 /\ stamp = 0 /\ setting = 0 /\ pin = 0
     /\ served = 0 /\ synced = 0 /\ sync = 0 /\ behind = 0 /\ passed = 0 /\ happened = 0
     /\ kind = 0 /\ scope = 0 /\ entry = 0 /\ entryDay = 0 /\ seen = 0
     /\ peak = 0 /\ ret = 0 /\ labels = 0 /\ rewritten = 0 /\ pathStep = 0
     /\ edited = 0 /\ fresh = 0 /\ mishaps = 0 /\ fires = 0 /\ flaws = 0
     /\ profile = 0 /\ ledger = 0 /\ command = 0 /\ commands = 0 /\ reports = 0
     /\ preds = 0 /\ picker = 0 /\ asked = 0 /\ deeds = 0 /\ serving = 0
     /\ outcomes = 0 /\ servSeq = 0 /\ research = 0 /\ resSeq = 0 /\ bySlot = 0
     /\ move = 0 /\ fill = 0 /\ owed = 0 /\ lost = 0 /\ sound = 0 /\ first = 0 /\ ticked = 0
     /\ ingested = 0 /\ exhausted = 0 /\ interacted = 0 /\ out = 0 /\ view = 0
     /\ late = 0 /\ settles = 0 /\ unfiltered = 0 /\ count = 0 /\ done = 0
     /\ failed = 0 /\ run = 0 /\ tick = 0 /\ mark = 0 /\ high = 0 /\ push = 0
     /\ failing = 0 /\ faults = 0 /\ turns = 0 /\ busy = 0 /\ reading = 0
     /\ routes = 0 /\ log = 0 /\ now = 0 /\ cache = 0 /\ queries = 0
     /\ waiting = 0
  \/ /\ "screen" \in Parts /\ part = "screen" /\ V!Init
     /\ page = [number |-> 0] /\ side = 0 /\ level = 0 /\ policy = 0
     /\ hourly = 0 /\ bars = 0 /\ rows = 0 /\ detected = 0 /\ job = 0
     /\ night = 0 /\ disruptions = 0 /\ stale = 0 /\ crossed = 0 /\ lagged = 0
     /\ prior = 0 /\ older = 0 /\ trades = 0 /\ quoted = 0 /\ live = 0
     /\ near = 0 /\ closed = 0 /\ own = 0 /\ settled = 0 /\ measured = 0 /\ said = 0
     /\ day = 0 /\ members = 0 /\ prices = 0 /\ hold = 0 /\ trim = 0
     /\ signalled = 0 /\ path = 0 /\ panel = 0 /\ universe = 0 /\ fired = 0
     /\ parts = 0 /\ drawn = 0 /\ stored = 0 /\ book = 0 /\ core = 0
     /\ chart = 0 /\ copy = 0 /\ stamp = 0 /\ open = 0 /\ setting = 0
     /\ pin = 0 /\ served = 0 /\ synced = 0 /\ sync = 0 /\ behind = 0 /\ passed = 0
     /\ happened = 0 /\ kind = 0 /\ scope = 0 /\ entry = 0 /\ entryDay = 0
     /\ seen = 0 /\ peak = 0 /\ ret = 0 /\ labels = 0 /\ rewritten = 0
     /\ pathStep = 0 /\ edited = 0 /\ fresh = 0 /\ mishaps = 0 /\ fires = 0
     /\ flaws = 0 /\ profile = 0 /\ ledger = 0 /\ command = 0 /\ commands = 0
     /\ feeds = <<>> /\ visible = 0 /\ requests = 0 /\ sent = 0 /\ header = 0
     /\ candle = 0 /\ serving = 0 /\ outcomes = 0 /\ servSeq = 0
     /\ research = 0 /\ resSeq = 0 /\ bySlot = 0 /\ move = 0 /\ fill = 0
     /\ owed = 0 /\ lost = 0 /\ sound = 0 /\ first = 0 /\ ticked = 0 /\ ingested = 0
     /\ exhausted = 0 /\ interacted = 0 /\ out = 0 /\ view = 0 /\ late = 0
     /\ settles = 0 /\ unfiltered = 0 /\ count = 0 /\ done = 0 /\ failed = 0
     /\ run = 0 /\ tick = 0 /\ mark = 0 /\ high = 0 /\ push = 0 /\ failing = 0
     /\ faults = 0 /\ turns = 0 /\ busy = 0 /\ reading = 0 /\ routes = 0
     /\ log = 0 /\ now = 0 /\ cache = 0 /\ queries = 0 /\ waiting = 0
  \/ /\ "repairs" \in Parts /\ part = "repairs" /\ R!Init
     /\ side = 0 /\ level = 0 /\ policy = 0 /\ hourly = 0 /\ bars = 0
     /\ rows = 0 /\ today = 0 /\ detected = 0 /\ job = 0 /\ night = 0
     /\ disruptions = 0 /\ stale = 0 /\ crossed = 0 /\ lagged = 0 /\ prior = 0
     /\ older = 0 /\ trades = 0 /\ quoted = 0 /\ live = 0 /\ near = 0
     /\ closed = 0 /\ own = 0 /\ settled = 0 /\ measured = 0 /\ said = 0 /\ day = 0
     /\ members = 0 /\ prices = 0 /\ hold = 0 /\ trim = 0 /\ signalled = 0
     /\ path = 0 /\ panel = 0 /\ universe = 0 /\ fired = 0 /\ parts = 0
     /\ drawn = 0 /\ stored = 0 /\ book = 0 /\ core = 0 /\ chart = 0
     /\ copy = 0 /\ stamp = 0 /\ open = 0 /\ setting = 0 /\ pin = 0
     /\ served = 0 /\ synced = 0 /\ sync = 0 /\ behind = 0 /\ passed = 0 /\ happened = 0
     /\ kind = 0 /\ scope = 0 /\ entry = 0 /\ entryDay = 0 /\ seen = 0
     /\ peak = 0 /\ ret = 0 /\ labels = 0 /\ rewritten = 0 /\ pathStep = 0
     /\ edited = 0 /\ fresh = 0 /\ mishaps = 0 /\ fires = 0 /\ flaws = 0
     /\ profile = 0 /\ ledger = 0 /\ command = 0 /\ commands = 0
     /\ page = [number |-> 0] /\ screen = 0 /\ feeds = <<>> /\ visible = 0
     /\ requests = 0 /\ sent = 0 /\ header = 0 /\ candle = 0 /\ reports = 0
     /\ preds = 0 /\ picker = 0 /\ asked = 0 /\ first = 0 /\ ticked = 0
     /\ ingested = 0 /\ exhausted = 0 /\ interacted = 0 /\ out = 0 /\ view = 0
     /\ late = 0 /\ settles = 0 /\ unfiltered = 0 /\ count = 0 /\ done = 0
     /\ failed = 0 /\ run = 0 /\ tick = 0 /\ mark = 0 /\ high = 0 /\ push = 0
     /\ failing = 0 /\ faults = 0 /\ turns = 0 /\ busy = 0 /\ reading = 0
     /\ routes = 0 /\ log = 0 /\ now = 0 /\ cache = 0 /\ queries = 0
     /\ waiting = 0
  \/ /\ "chart" \in Parts /\ part = "chart" /\ G!Init
     /\ side = 0 /\ level = 0 /\ policy = 0 /\ hourly = 0 /\ rows = 0
     /\ today = 0 /\ detected = 0 /\ job = 0 /\ night = 0 /\ disruptions = 0
     /\ stale = 0 /\ crossed = 0 /\ lagged = 0 /\ prior = 0 /\ older = 0
     /\ trades = 0 /\ quoted = 0 /\ live = 0 /\ near = 0 /\ closed = 0
     /\ own = 0 /\ settled = 0 /\ measured = 0 /\ said = 0 /\ day = 0 /\ members = 0
     /\ prices = 0 /\ hold = 0 /\ trim = 0 /\ signalled = 0 /\ path = 0
     /\ panel = 0 /\ universe = 0 /\ fired = 0 /\ parts = 0 /\ drawn = 0
     /\ stored = 0 /\ book = 0 /\ core = 0 /\ chart = 0 /\ events = 0
     /\ copy = 0 /\ stamp = 0 /\ open = 0 /\ setting = 0 /\ pin = 0
     /\ served = 0 /\ synced = 0 /\ sync = 0 /\ behind = 0 /\ passed = 0 /\ happened = 0
     /\ kind = 0 /\ scope = 0 /\ entry = 0 /\ entryDay = 0 /\ seen = 0
     /\ peak = 0 /\ ret = 0 /\ labels = 0 /\ rewritten = 0 /\ pathStep = 0
     /\ edited = 0 /\ fresh = 0 /\ mishaps = 0 /\ fires = 0 /\ flaws = 0
     /\ profile = 0 /\ ledger = 0 /\ command = 0 /\ commands = 0
     /\ page = [number |-> 0] /\ screen = 0 /\ feeds = <<>> /\ visible = 0
     /\ requests = 0 /\ sent = 0 /\ header = 0 /\ candle = 0 /\ reports = 0
     /\ preds = 0 /\ picker = 0 /\ asked = 0 /\ serving = 0 /\ outcomes = 0
     /\ servSeq = 0 /\ research = 0 /\ resSeq = 0 /\ bySlot = 0 /\ move = 0
     /\ fill = 0 /\ owed = 0 /\ lost = 0 /\ sound = 0 /\ settles = 0 /\ unfiltered = 0
     /\ count = 0 /\ done = 0 /\ failed = 0 /\ run = 0 /\ tick = 0 /\ mark = 0
     /\ high = 0 /\ push = 0 /\ failing = 0 /\ faults = 0 /\ turns = 0
     /\ busy = 0 /\ reading = 0 /\ routes = 0 /\ log = 0 /\ now = 0
     /\ cache = 0 /\ queries = 0 /\ waiting = 0
  \/ /\ "list" \in Parts /\ part = "list" /\ L!Init
     /\ side = 0 /\ level = 0 /\ policy = 0 /\ hourly = 0 /\ bars = 0
     /\ today = 0 /\ detected = 0 /\ job = 0 /\ night = 0 /\ disruptions = 0
     /\ stale = 0 /\ crossed = 0 /\ lagged = 0 /\ prior = 0 /\ older = 0
     /\ trades = 0 /\ quoted = 0 /\ live = 0 /\ near = 0 /\ closed = 0
     /\ own = 0 /\ settled = 0 /\ measured = 0 /\ said = 0 /\ day = 0 /\ members = 0
     /\ prices = 0 /\ hold = 0 /\ trim = 0 /\ signalled = 0 /\ path = 0
     /\ panel = 0 /\ universe = 0 /\ fired = 0 /\ parts = 0 /\ drawn = 0
     /\ stored = 0 /\ book = 0 /\ core = 0 /\ chart = 0 /\ copy = 0
     /\ stamp = 0 /\ open = 0 /\ setting = 0 /\ pin = 0 /\ served = 0
     /\ synced = 0 /\ sync = 0 /\ behind = 0 /\ passed = 0 /\ happened = 0 /\ kind = 0
     /\ scope = 0 /\ entry = 0 /\ entryDay = 0 /\ peak = 0 /\ ret = 0
     /\ labels = 0 /\ rewritten = 0 /\ pathStep = 0 /\ edited = 0 /\ fresh = 0
     /\ mishaps = 0 /\ flaws = 0 /\ profile = 0 /\ ledger = 0 /\ command = 0
     /\ commands = 0 /\ page = [number |-> 0] /\ screen = 0 /\ feeds = <<>>
     /\ visible = 0 /\ requests = 0 /\ sent = 0 /\ header = 0 /\ candle = 0
     /\ reports = 0 /\ preds = 0 /\ picker = 0 /\ asked = 0 /\ serving = 0
     /\ outcomes = 0 /\ servSeq = 0 /\ research = 0 /\ resSeq = 0 /\ bySlot = 0
     /\ move = 0 /\ fill = 0 /\ owed = 0 /\ lost = 0 /\ sound = 0 /\ first = 0 /\ ticked = 0
     /\ ingested = 0 /\ exhausted = 0 /\ interacted = 0 /\ run = 0 /\ tick = 0
     /\ mark = 0 /\ high = 0 /\ push = 0 /\ failing = 0 /\ faults = 0
     /\ turns = 0 /\ busy = 0 /\ reading = 0 /\ routes = 0 /\ log = 0
     /\ now = 0 /\ cache = 0 /\ queries = 0 /\ waiting = 0
  \/ /\ "mirror" \in Parts /\ part = "mirror" /\ M!Init
     /\ side = 0 /\ level = 0 /\ policy = 0 /\ hourly = 0 /\ bars = 0
     /\ rows = 0 /\ today = 0 /\ detected = 0 /\ job = 0 /\ night = 0
     /\ disruptions = 0 /\ stale = 0 /\ crossed = 0 /\ lagged = 0 /\ prior = 0
     /\ older = 0 /\ trades = 0 /\ quoted = 0 /\ live = 0 /\ near = 0
     /\ closed = 0 /\ own = 0 /\ settled = 0 /\ measured = 0 /\ said = 0 /\ day = 0
     /\ members = 0 /\ prices = 0 /\ hold = 0 /\ trim = 0 /\ signalled = 0
     /\ path = 0 /\ panel = 0 /\ universe = 0 /\ fired = 0 /\ parts = 0
     /\ drawn = 0 /\ stored = 0 /\ book = 0 /\ core = 0 /\ chart = 0
     /\ events = 0 /\ copy = 0 /\ stamp = 0 /\ open = 0 /\ setting = 0
     /\ pin = 0 /\ served = 0 /\ synced = 0 /\ sync = 0 /\ behind = 0 /\ passed = 0
     /\ happened = 0 /\ kind = 0 /\ scope = 0 /\ entry = 0 /\ entryDay = 0
     /\ seen = 0 /\ peak = 0 /\ ret = 0 /\ labels = 0 /\ rewritten = 0
     /\ pathStep = 0 /\ edited = 0 /\ fresh = 0 /\ mishaps = 0 /\ fires = 0
     /\ flaws = 0 /\ profile = 0 /\ ledger = 0 /\ command = 0 /\ commands = 0
     /\ page = [number |-> 0] /\ screen = 0 /\ feeds = <<>> /\ visible = 0
     /\ requests = 0 /\ sent = 0 /\ header = 0 /\ candle = 0 /\ reports = 0
     /\ preds = 0 /\ picker = 0 /\ asked = 0 /\ deeds = 0 /\ outcomes = 0
     /\ servSeq = 0 /\ resSeq = 0 /\ bySlot = 0 /\ move = 0 /\ fill = 0
     /\ owed = 0 /\ lost = 0 /\ sound = 0 /\ first = 0 /\ ticked = 0 /\ ingested = 0
     /\ exhausted = 0 /\ interacted = 0 /\ out = 0 /\ view = 0 /\ late = 0
     /\ settles = 0 /\ unfiltered = 0 /\ count = 0 /\ done = 0 /\ failed = 0
     /\ turns = 0 /\ busy = 0 /\ reading = 0 /\ routes = 0 /\ log = 0
     /\ now = 0 /\ cache = 0 /\ queries = 0 /\ waiting = 0
  \/ /\ "chat" \in Parts /\ part = "chat" /\ Q!Init
     /\ side = 0 /\ level = 0 /\ policy = 0 /\ hourly = 0 /\ bars = 0
     /\ rows = 0 /\ today = 0 /\ detected = 0 /\ job = 0 /\ night = 0
     /\ disruptions = 0 /\ stale = 0 /\ crossed = 0 /\ lagged = 0 /\ prior = 0
     /\ older = 0 /\ trades = 0 /\ quoted = 0 /\ live = 0 /\ near = 0
     /\ closed = 0 /\ own = 0 /\ settled = 0 /\ measured = 0 /\ said = 0 /\ day = 0
     /\ members = 0 /\ prices = 0 /\ hold = 0 /\ trim = 0 /\ signalled = 0
     /\ path = 0 /\ panel = 0 /\ universe = 0 /\ fired = 0 /\ parts = 0
     /\ drawn = 0 /\ stored = 0 /\ book = 0 /\ core = 0 /\ chart = 0
     /\ events = 0 /\ copy = 0 /\ stamp = 0 /\ open = 0 /\ setting = 0
     /\ pin = 0 /\ served = 0 /\ synced = 0 /\ sync = 0 /\ behind = 0 /\ passed = 0
     /\ happened = 0 /\ kind = 0 /\ scope = 0 /\ entry = 0 /\ entryDay = 0
     /\ seen = 0 /\ peak = 0 /\ ret = 0 /\ labels = 0 /\ rewritten = 0
     /\ pathStep = 0 /\ edited = 0 /\ fresh = 0 /\ fires = 0 /\ flaws = 0
     /\ profile = 0 /\ ledger = 0 /\ command = 0 /\ commands = 0
     /\ page = [number |-> 0] /\ screen = 0 /\ feeds = <<>> /\ visible = 0
     /\ requests = 0 /\ sent = 0 /\ header = 0 /\ candle = 0 /\ reports = 0
     /\ preds = 0 /\ picker = 0 /\ asked = 0 /\ deeds = 0 /\ serving = 0
     /\ outcomes = 0 /\ servSeq = 0 /\ research = 0 /\ resSeq = 0 /\ bySlot = 0
     /\ move = 0 /\ fill = 0 /\ owed = 0 /\ lost = 0 /\ sound = 0 /\ first = 0 /\ ticked = 0
     /\ ingested = 0 /\ exhausted = 0 /\ interacted = 0 /\ out = 0 /\ view = 0
     /\ late = 0 /\ settles = 0 /\ unfiltered = 0 /\ count = 0 /\ done = 0
     /\ failed = 0 /\ run = 0 /\ tick = 0 /\ mark = 0 /\ high = 0 /\ push = 0
     /\ failing = 0 /\ faults = 0 /\ log = 0 /\ now = 0 /\ cache = 0
     /\ queries = 0 /\ waiting = 0
  \/ /\ "rates" \in Parts /\ part = "rates" /\ B!Init
     /\ side = 0 /\ level = 0 /\ policy = 0 /\ hourly = 0 /\ bars = 0
     /\ rows = 0 /\ today = 0 /\ detected = 0 /\ job = 0 /\ night = 0
     /\ disruptions = 0 /\ stale = 0 /\ crossed = 0 /\ lagged = 0 /\ prior = 0
     /\ older = 0 /\ trades = 0 /\ quoted = 0 /\ live = 0 /\ near = 0
     /\ closed = 0 /\ own = 0 /\ settled = 0 /\ measured = 0 /\ said = 0 /\ day = 0
     /\ members = 0 /\ prices = 0 /\ hold = 0 /\ trim = 0 /\ signalled = 0
     /\ path = 0 /\ panel = 0 /\ universe = 0 /\ fired = 0 /\ parts = 0
     /\ drawn = 0 /\ stored = 0 /\ book = 0 /\ core = 0 /\ chart = 0
     /\ events = 0 /\ copy = 0 /\ stamp = 0 /\ open = 0 /\ setting = 0
     /\ pin = 0 /\ synced = 0 /\ sync = 0 /\ behind = 0 /\ passed = 0 /\ happened = 0
     /\ kind = 0 /\ scope = 0 /\ entry = 0 /\ entryDay = 0 /\ seen = 0
     /\ peak = 0 /\ ret = 0 /\ labels = 0 /\ rewritten = 0 /\ pathStep = 0
     /\ edited = 0 /\ fresh = 0 /\ fires = 0 /\ flaws = 0 /\ profile = 0
     /\ ledger = 0 /\ command = 0 /\ commands = 0 /\ page = [number |-> 0]
     /\ screen = 0 /\ feeds = <<>> /\ visible = 0 /\ requests = 0 /\ sent = 0
     /\ header = 0 /\ candle = 0 /\ reports = 0 /\ preds = 0 /\ picker = 0
     /\ deeds = 0 /\ serving = 0 /\ outcomes = 0 /\ servSeq = 0 /\ research = 0
     /\ resSeq = 0 /\ bySlot = 0 /\ move = 0 /\ fill = 0 /\ owed = 0
     /\ lost = 0 /\ sound = 0 /\ first = 0 /\ ticked = 0 /\ ingested = 0 /\ exhausted = 0
     /\ interacted = 0 /\ out = 0 /\ view = 0 /\ late = 0 /\ settles = 0
     /\ unfiltered = 0 /\ count = 0 /\ done = 0 /\ failed = 0 /\ run = 0
     /\ tick = 0 /\ mark = 0 /\ high = 0 /\ push = 0 /\ failing = 0
     /\ faults = 0 /\ turns = 0 /\ busy = 0 /\ reading = 0 /\ routes = 0

MCNext ==
  \/ part = "trades" /\ T!Next /\ UNCHANGED <<part, NotT>>
  \/ part = "rows" /\ E!Next /\ UNCHANGED <<part, NotE>>
  \/ part = "signals" /\ S!Next /\ UNCHANGED <<part, NotS>>
  \/ part = "holdings" /\ H!Next /\ UNCHANGED <<part, NotH>>
  \/ part = "arm" /\ A!Next /\ UNCHANGED <<part, NotA>>
  \/ part = "taxes" /\ X!Next /\ UNCHANGED <<part, NotX>>
  \/ part = "serving" /\ C!Next /\ UNCHANGED <<part, NotC>>
  \/ part = "paths" /\ P!Next /\ UNCHANGED <<part, NotP>>
  \/ part = "backtests" /\ K!Next /\ UNCHANGED <<part, NotK>>
  \/ part = "feed" /\ Next /\ UNCHANGED <<part, NotF>>
  \/ part = "screen" /\ V!Next /\ UNCHANGED <<part, NotV>>
  \/ part = "repairs" /\ R!Next /\ UNCHANGED <<part, NotR>>
  \/ part = "chart" /\ G!Next /\ UNCHANGED <<part, NotG>>
  \/ part = "list" /\ L!Next /\ UNCHANGED <<part, NotL>>
  \/ part = "mirror" /\ M!Next /\ UNCHANGED <<part, NotM>>
  \/ part = "chat" /\ Q!Next /\ UNCHANGED <<part, NotQ>>
  \/ part = "rates" /\ B!Next /\ UNCHANGED <<part, NotB>>

all == <<part, side, level, policy, hourly, bars, rows, today, detected, job,
         night, disruptions, stale, crossed, lagged, prior, older, trades,
         quoted, live, near, closed, own, settled, measured, said, day, members,
         prices, hold, trim, signalled, path, panel, universe, fired, parts,
         drawn, stored, book, core, chart, events, copy, stamp, open, setting,
         pin, served, synced, sync, behind, passed, happened, kind, scope, entry,
         entryDay, seen, peak, ret, labels, rewritten, pathStep, edited, fresh,
         mishaps, fires, flaws, profile, ledger, command, commands, page,
         feeds, visible, requests, sent, header, candle, reports, preds,
         picker, asked, deeds, serving, outcomes, servSeq, research, resSeq,
         bySlot, move, fill, owed, lost, sound, first, ticked, ingested, exhausted,
         interacted, out, view, late, settles, unfiltered, count, done,
         failed, run, tick, mark, high, push, failing, faults, turns, busy,
         reading, routes, log, now, cache, queries, waiting, screen>>

MCSpec == MCInit /\ [][MCNext]_all


ASSUME T!TradesAssumption /\ E!RowsAssumption /\ S!SignalsAssumption
ASSUME H!HoldingsAssumption /\ A!SignalArmAssumption /\ X!ArmTaxesAssumption
ASSUME C!ServingCopyAssumption /\ P!PathsAssumption
ASSUME K!BacktestsAssumption /\ FeedAssumption
ASSUME V!ScreenAssumption /\ R!RepairsAssumption /\ G!ChartAssumption
ASSUME L!ListAssumption /\ M!MirrorAssumption
ASSUME Q!ChatAssumption /\ B!RatesAssumption

-----------------------------------------------------------------------------

\* What a backtest has resolved no later backtest changes, however many sessions
\* have closed since, and no row reports a fill, an exit or a return that its bars
\* did not allow: a window that fell short is unfinished, never a timeout, and the
\* rules apply in their pinned order, stop before target, gaps at the open; the
\* harness passes the rows as long as they are on file (resolve_exit, _exit_on_bar,
\* entry_price_for, mfe_mae, harness._check_entry_sanity, _check_exit_sanity,
\* _check_return_identity).
ExitIsFinal ==
  [][part = "trades" => T!ExitIsFinal /\ T!NoInventedMoney' /\ T!HarnessPasses']_all

\* Two writers and a purge leave rows whose return has an entry, that point at
\* stored bars and whose cluster heads do not overlap (_RUN_EVENTS_UPDATE_COLUMNS,
\* _RUN_BACKTEST_UPDATE_COLUMNS, tag_clusters, purge_bars,
\* _tickers_with_open_next_open).
RowsStayWhole ==
  [][part = "rows" =>
       /\ E!PurgeIsComplete
       /\ E!ReturnHasEntry' /\ E!RowsPointAtBars' /\ E!HeadsDoNotOverlap' /\ E!OpenIsResolved']_all

\* What the poller announced the settled bar confirms, the nightly detection finds
\* what the backtest finds, and a reversal called at the closing quote is the one
\* that is stored (breach_live, detect, scan_candidates, is_bear_reversal).
LiveFiresSettle ==
  part = "signals" => S!LiveFiresSettle /\ S!DetectorsAgree /\ S!CallsAreHonest

\* No arm makes or loses money by booking it: the share books' stints sum to
\* their curve and trimming differs from holding by outstanding trims alone; the
\* signal arm's portfolio is the sum of its trades, and its null has the positions
\* it drew, each replication once; every instalment plan spends its capital, and no
\* more; no loss costs tax and a further one never raises the bill
\* (simulate_holdings, simulate_portfolio, _to_global_position, eligible_days,
\* _replication_ranges, simulate_dca_family, tax_summary, _net_tax).
MoneyAddsUp ==
  [][/\ part = "holdings" => H!StintsAddUp' /\ H!OverlayOnly'
     /\ part = "arm" => A!PnlAddsUp' /\ A!FillsDecide' /\ A!DrawsBecomePositions' /\ A!NullIsWhole'
                       /\ A!CapitalIsSpent
     /\ part = "taxes" => X!TaxIsMonotone /\ X!LossesCostNothing']_all

\* A sync that ends ok has shipped what research had when it began, but bars written
\* behind its window, or left there by a copy cut between two chunks, and events a sync
\* of another generation moved the line over, and moves the site to a generation only
\* behind its events, and the next session's poller is not refused; a live push that
\* lands has repaired every tick that was missed (run_sync, _tables,
\* assert_target_is_current, run_live_sync).
CopiesArrive ==
  [][/\ part = "serving" => C!PinComesLast /\ C!EventsArrive' /\ C!BarsArrive'
                           /\ C!NextPollIsLetIn'
     /\ part = "mirror" => M!SessionArrives]_all

\* Whatever the two repairs of the forward log meet, outcomes keep their signal, no
\* link is undone or given twice, and inserts find their ids free; the poller's
\* preflight refuses a store on which they would not (repair_prediction_ids,
\* backfill_prediction_event_ids, assert_sequences_are_ahead).
RepairsAreSound ==
  [][part = "repairs" =>
       /\ R!NothingIsUndone /\ R!InsertsFindRoom
       /\ R!OutcomesFollow' /\ R!ReuseIsRepaired' /\ R!LinksAreSound' /\ R!FillAloneLands']_all

\* A row of the screener shows no other row's judgement or number, its arrows lead to
\* days with rows and its calendar follows its filter; a chart and a list grow without
\* a repeat or a hole, as long as no answer comes to another render than the one that
\* asked (v_screen_live, screen, DatePicker, TickerChart, EventRows). The chat shows
\* every tool call as it was answered, a lost question ends, and the figures of a
\* page never go back (runTurn, apply, recentRealisedOrNone).
PagesStayWhole ==
  [][/\ part = "screen" => V!ArrowsLeadToRows /\ V!RowsAreTheirOwn' /\ V!CalendarIsOfItsMonth'
     /\ part = "chart" => G!BarsAscend' /\ G!ChartIsWhole'
     /\ part = "list" => L!ListGrows /\ L!NoRowTwice' /\ L!ListIsOfItsFilter' /\ L!DoneIsComplete'
     /\ part = "chat" => Q!LostQuestionsEnd /\ Q!EveryCallIsAnswered' /\ Q!PageIsALedger'
     /\ part = "rates" => B!FiguresMoveForward /\ B!FiguresAreSound']_all

\* Night by night a path becomes what a backfill would write, its peaks are of
\* the whole window after the entry, the stored labels agree with the path, and the
\* gate passes unless a bar came late or changed (run_path_capture,
\* extremum_label_sql, diff_labels, reconcile).
PathsReconcile ==
  part = "paths" => P!CapturedIsBackfilled /\ P!PeakIsReference /\ P!LabelsReconcile /\ P!QuietTimesPass

\* A default run is closed 'ok' only when all of it was written and checked,
\* however many workers shared the checks; counts of the whole universe are lost
\* only to a full run with a failed ticker, and what the sweep skips was written
\* whole (run_backtest, run_harness, merge_chunks, _sweep_config_already_done:
\* "either it lands whole or not at all").
OkMeansChecked ==
  [][part = "backtests" => K!CountsStayWhole /\ K!OkMeansChecked /\ K!SweptIsWhole']_all

\* The prediction a row shows is the one that names its event, where there is one:
\* "an exact identity beats a key that merely matches on five columns" (migration
\* a7c2e9f4b105). It does not hold.
IdentityBeatsKey == part = "screen" => V!IdentityBeatsKey
=============================================================================
