------------------------------ MODULE MCIngest ------------------------------
(***************************************************************************)
(* The ingest modules and the model that learns from what they store, side *)
(* by side: a behaviour is of one of them, and the variables of the others *)
(* stand still at 0. Membership is extended rather than instantiated, so   *)
(* that this run checks the very invariant its proofs are about: while it  *)
(* stands still, its trust is "broken" and it promises nothing.            *)
(***************************************************************************)
EXTENDS Integers, Sequences, TLC, Membership

CONSTANTS
  Parts,          \* the modules of this run
  BarDisruptions  \* what may go wrong with the bars

Release(config, layout) == [config |-> config, layout |-> layout]

\* A type the first fits have not seen, and one event of every other kind.
OddEvents ==
  {[kind |-> k, type |-> "common"] : k \in {"etf", "watch", "nosector", "nobreadth", "nobool"}}
  \cup {[kind |-> "trade", type |-> "rare"]}

Batch(side, bucket, era, n, hits, cofires) ==
  [side |-> side, bucket |-> bucket, era |-> era, n |-> n, hits |-> hits, gaps |-> 0,
   cofires |-> cofires, closed |-> TRUE]

\* A deep drawdown, an event of the holdout, gaps and open windows are among them.
EventPool ==
  { Batch("long", "0-10", "early", 40, 26, 80), Batch("long", "0-10", "late", 60, 37, 60),
    Batch("long", "10-20", "late", 60, 38, 75), Batch("short", "0-10", "early", 80, 50, 90),
    Batch("short", "10-20", "early", 36, 12, 90),
    Batch("long", "deep", "early", 30, 29, 30), Batch("short", "0-10", "open", 90, 60, 120),
    [Batch("short", "10-20", "late", 70, 40, 80) EXCEPT !.gaps = 10],
    [Batch("long", "10-20", "early", 90, 80, 90) EXCEPT !.closed = FALSE] }

Labelled(y, cluster, group, scale) == [y |-> y, cluster |-> cluster, group |-> group, scale |-> scale]

\* Frames of which some have one group, one scale, a cluster, a group that is new.
TrainFrames ==
  { << Labelled(0, 0, "a", 1), Labelled(1, 1, "a", 1), Labelled(2, 1, "a", 1), Labelled(2, 0, "a", 1) >>,
    << Labelled(2, 0, "a", 2), Labelled(0, 2, "b", 2), Labelled(1, 3, "b", 2) >>,
    << Labelled(1, 4, "b", 0), Labelled(0, 4, "b", 1), Labelled(2, 4, "b", 2) >> }
ValidateFrames ==
  { <<>>,
    << Labelled(1, 0, "a", 1), Labelled(2, 7, "c", 0) >>,
    << Labelled(0, 7, "b", 2), Labelled(2, 8, "c", 2) >>,
    << Labelled(2, 8, "b", 1), Labelled(0, 8, "b", 2) >> }

VARIABLES
  part,  \* the module this behaviour is of
  day, nights, ratio, published, adjusts, hourlyRaw, hourly, actions,
  paid, fullAt, answer, audits, rejected, pc, pass, knew, asked,
  row, constituent, listed, pending, writes, cache, torn, call,
  attempt, morning, facts, depositary, shares, ledger, best, missing,
  batch, attempted, listing, splits,
  applied, filings, seen, release, file, refit, scoring, wrote, fits, runs,
  shift, labelEnd, fired, model, predicted, skips, rho, cells, changes,
  sample, raw, table, fitted, train, validate, scores, scored, beats,
  covers, exit

B == INSTANCE DailyBars WITH LastDay <- 6, FirstNight <- 3, Ex <- 4, Lookback <- 2, LedgerDays <- 1,
  ReconcileDays <- 1, MaxNights <- 2, Ratios <- {"plain", "odd", "small"},
  Disruptions <- BarDisruptions, MaxDisruptions <- 2
T == INSTANCE TickerTable WITH LastBar <- 3, MaxWrites <- 5
F == INSTANCE FetchCache WITH Tickers <- {"a"}, LastDay <- 3, RecentDays <- 1, MaxDelay <- 1, Attempts <- 2,
  Disruptions <- {"transient", "notfound", "nan", "kill"}, MaxDisruptions <- 2
S == INSTANCE Shares WITH LastDay <- 4, MaxFacts <- 3, StalenessDays <- 1, RefetchDays <- 1,
  ScaleWindow <- 1, MinFilings <- 2,
  Disruptions <- {"raise", "notfound", "kill"}, MaxDisruptions <- 2
U == INSTANCE UniverseRules WITH LastDay <- 4, QuarterDays <- 2, MaxSplits <- 2, MaxFilings <- 2, Receipt <- 2,
  Worth <- 1, Floor <- 1, Ceiling <- 3, Own <- "a", Active <- {"a", "b", "c"},
  SectorMates <- {"a", "b"}, MinPeers <- 2, Returns <- {0, 1}
D == INSTANCE ModelArtifact WITH Releases <- {Release("c", 1), Release("c", 2), Release("d", 1)},
  First <- Release("c", 1), MaxFits <- 2, MaxScorings <- 2, MaxMishaps <- 1
W == INSTANCE TrainingWindows WITH LastDay <- 40, Shifts <- {0, 2, 4}, Holidays <- {7}, Horizon <- 5, ForwardLog <- 2,
  ValidateDays <- 10, TrainEmbargo <- 5, FoldEmbargo <- 3, YearDays <- 10,
  MinTrainYears <- 1, Lookback <- 12, Odd <- OddEvents,
  OddDays <- {2, 3, 15, 16, 24, 25, 31, 32}, MaxOdd <- 1, MaxSkips <- 2
G == INSTANCE CellStats WITH Pool <- EventPool, Later <- {b \in EventPool : b.bucket = "deep" \/ b.n = 36},
  Sides <- {"long", "short"}, Buckets <- {"0-10", "10-20"}, Eras <- {"early", "late"},
  Rhos <- {-1, 3}, MinEff <- 30, Baseline <- 50, Alpha <- 50, MaxChanges <- 1, MaxRuns <- 3
C == INSTANCE Calibration WITH Buckets <- 3, Size <- 5, Top <- 3, Heavy <- 3
P == INSTANCE PromotionGate WITH Taus <- {25, 50, 90}, Levels <- 0..2, Trains <- TrainFrames, Validates <- ValidateFrames,
  Pairs <- 2, Tolerance <- 5

NotB ==
  <<row, constituent, listed, pending, writes, today, cache, torn, call,
    attempt, morning, facts, depositary, shares, ledger, best, missing,
    batch, attempted, universe, events, restamp, trust, listing, splits,
    applied, filings, seen, release, file, refit, scoring, wrote, fits,
    runs, shift, labelEnd, fired, model, predicted, skips, rho, cells,
    changes, sample, raw, table, fitted, train, validate, scores, scored,
    beats, covers, exit>>

NotT ==
  <<day, nights, ratio, published, adjusts, hourlyRaw, hourly, actions,
    paid, fullAt, answer, audits, rejected, pc, pass, knew, asked, mishaps,
    today, cache, torn, call, attempt, morning, facts, depositary, shares,
    ledger, best, missing, batch, attempted, universe, events, restamp,
    trust, listing, splits, applied, filings, seen, release, file, refit,
    scoring, wrote, fits, runs, shift, labelEnd, fired, model, predicted,
    skips, rho, cells, changes, sample, raw, table, fitted, train, validate,
    scores, scored, beats, covers, exit>>

NotF ==
  <<day, nights, ratio, adjusts, hourlyRaw, bars, hourly, actions, paid,
    fullAt, audits, rejected, pass, knew, asked, row, constituent, listed,
    pending, writes, facts, depositary, shares, ledger, best, missing,
    batch, attempted, universe, events, restamp, trust, listing, splits,
    applied, filings, seen, release, file, refit, scoring, wrote, fits,
    runs, shift, labelEnd, fired, model, predicted, skips, rho, cells,
    changes, sample, raw, table, fitted, train, validate, scores, scored,
    beats, covers, exit>>

NotS ==
  <<day, nights, ratio, published, adjusts, hourlyRaw, bars, hourly,
    actions, paid, fullAt, answer, audits, pass, knew, asked, row,
    constituent, listed, pending, writes, cache, torn, call, attempt,
    morning, universe, events, restamp, trust, listing, splits, applied,
    filings, seen, release, file, refit, scoring, wrote, fits, runs, shift,
    labelEnd, fired, model, predicted, skips, rho, cells, changes, sample,
    raw, table, fitted, train, validate, scores, scored, beats, covers, exit>>

NotM ==
  <<day, nights, ratio, published, adjusts, hourlyRaw, hourly, actions,
    paid, fullAt, answer, audits, rejected, pc, pass, knew, asked, row,
    constituent, listed, pending, writes, cache, torn, call, attempt,
    morning, facts, depositary, shares, ledger, best, missing, batch,
    attempted, listing, splits, applied, filings, seen, release, file,
    refit, scoring, wrote, fits, runs, shift, labelEnd, fired, model,
    predicted, skips, rho, cells, changes, sample, raw, table, fitted,
    train, validate, scores, scored, beats, covers, exit>>

NotU ==
  <<day, nights, ratio, published, adjusts, hourlyRaw, bars, hourly,
    actions, paid, fullAt, answer, audits, rejected, pc, pass, knew, asked,
    mishaps, constituent, listed, pending, writes, cache, torn, call,
    attempt, morning, facts, depositary, shares, best, missing, batch,
    attempted, universe, events, restamp, trust, release, file, refit,
    scoring, wrote, fits, runs, shift, labelEnd, fired, model, predicted,
    skips, rho, cells, changes, sample, raw, table, fitted, train, validate,
    scores, scored, beats, covers, exit>>

NotD ==
  <<day, nights, ratio, adjusts, hourlyRaw, bars, hourly, actions, paid,
    fullAt, answer, audits, rejected, pc, pass, knew, asked, row,
    constituent, listed, pending, writes, today, cache, torn, call, attempt,
    morning, facts, depositary, shares, ledger, best, missing, batch,
    attempted, universe, events, restamp, trust, listing, splits, applied,
    filings, seen, shift, labelEnd, fired, model, predicted, skips, rho,
    cells, changes, sample, raw, table, fitted, train, validate, scores,
    scored, beats, covers, exit>>

NotW ==
  <<day, nights, ratio, published, adjusts, hourlyRaw, bars, hourly,
    actions, paid, fullAt, answer, audits, rejected, pc, pass, knew, asked,
    mishaps, row, constituent, listed, pending, writes, cache, torn, call,
    attempt, morning, facts, depositary, shares, ledger, best, missing,
    batch, attempted, universe, events, restamp, trust, listing, splits,
    applied, filings, seen, release, file, refit, scoring, wrote, fits,
    runs, rho, cells, changes, sample, raw, table, fitted, train, validate,
    scores, scored, beats, covers, exit>>

NotG ==
  <<day, nights, ratio, published, adjusts, hourlyRaw, bars, hourly,
    actions, paid, fullAt, answer, audits, rejected, pc, pass, knew, asked,
    mishaps, row, constituent, listed, pending, writes, today, cache, torn,
    call, attempt, morning, facts, depositary, shares, ledger, best,
    missing, batch, attempted, universe, restamp, trust, listing, splits,
    applied, filings, seen, release, file, refit, scoring, wrote, fits,
    shift, labelEnd, fired, model, predicted, skips, sample, raw, table,
    fitted, train, validate, scores, scored, beats, covers, exit>>

NotC ==
  <<day, nights, ratio, adjusts, hourlyRaw, bars, hourly, actions, paid,
    fullAt, answer, audits, rejected, pc, pass, knew, asked, mishaps, row,
    constituent, listed, pending, writes, today, cache, torn, call, attempt,
    morning, facts, depositary, shares, ledger, best, missing, batch,
    attempted, universe, events, restamp, trust, listing, splits, applied,
    filings, seen, release, file, refit, scoring, wrote, fits, runs, shift,
    labelEnd, fired, model, predicted, skips, rho, cells, changes, train,
    validate, scores, scored, beats, covers, exit>>

NotP ==
  <<day, nights, ratio, published, adjusts, hourlyRaw, bars, hourly,
    actions, paid, fullAt, answer, audits, rejected, pc, pass, knew, asked,
    mishaps, row, constituent, listed, pending, writes, today, cache, torn,
    call, attempt, morning, facts, depositary, shares, ledger, best,
    missing, batch, attempted, universe, events, restamp, trust, listing,
    splits, applied, filings, seen, release, file, refit, scoring, wrote,
    fits, runs, shift, labelEnd, fired, model, predicted, skips, rho, cells,
    changes, sample, table, fitted>>

MCInit ==
  \/ /\ "bars" \in Parts /\ part = "bars" /\ B!Init
     /\ row = 0 /\ constituent = 0 /\ listed = 0 /\ pending = 0 /\ writes = 0
     /\ today = 0 /\ cache = 0 /\ torn = 0 /\ call = 0 /\ attempt = 0
     /\ morning = 0 /\ facts = 0 /\ depositary = 0 /\ shares = 0 /\ ledger = 0
     /\ best = 0 /\ missing = 0 /\ batch = 0 /\ attempted = 0 /\ universe = 0
     /\ events = 0 /\ restamp = 0 /\ trust = "broken" /\ listing = 0
     /\ splits = 0 /\ applied = 0 /\ filings = 0 /\ seen = 0 /\ release = 0
     /\ file = 0 /\ refit = 0 /\ scoring = 0 /\ wrote = 0 /\ fits = 0
     /\ runs = 0 /\ shift = 0 /\ labelEnd = 0 /\ fired = 0 /\ model = 0
     /\ predicted = 0 /\ skips = 0 /\ rho = 0 /\ cells = 0 /\ changes = 0
     /\ sample = 0 /\ raw = 0 /\ table = 0 /\ fitted = 0 /\ train = 0
     /\ validate = 0 /\ scores = 0 /\ scored = 0 /\ beats = 0 /\ covers = 0
     /\ exit = 0
  \/ /\ "table" \in Parts /\ part = "table" /\ T!Init
     /\ day = 0 /\ nights = 0 /\ ratio = 0 /\ published = 0 /\ adjusts = 0
     /\ hourlyRaw = 0 /\ hourly = 0 /\ actions = 0 /\ paid = 0 /\ fullAt = 0
     /\ answer = 0 /\ audits = 0 /\ rejected = 0 /\ pc = 0 /\ pass = 0
     /\ knew = 0 /\ asked = 0 /\ mishaps = 0 /\ today = 0 /\ cache = 0
     /\ torn = 0 /\ call = 0 /\ attempt = 0 /\ morning = 0 /\ facts = 0
     /\ depositary = 0 /\ shares = 0 /\ ledger = 0 /\ best = 0 /\ missing = 0
     /\ batch = 0 /\ attempted = 0 /\ universe = 0 /\ events = 0 /\ restamp = 0
     /\ trust = "broken" /\ listing = 0 /\ splits = 0 /\ applied = 0
     /\ filings = 0 /\ seen = 0 /\ release = 0 /\ file = 0 /\ refit = 0
     /\ scoring = 0 /\ wrote = 0 /\ fits = 0 /\ runs = 0 /\ shift = 0
     /\ labelEnd = 0 /\ fired = 0 /\ model = 0 /\ predicted = 0 /\ skips = 0
     /\ rho = 0 /\ cells = 0 /\ changes = 0 /\ sample = 0 /\ raw = 0
     /\ table = 0 /\ fitted = 0 /\ train = 0 /\ validate = 0 /\ scores = 0
     /\ scored = 0 /\ beats = 0 /\ covers = 0 /\ exit = 0
  \/ /\ "fetch" \in Parts /\ part = "fetch" /\ F!Init
     /\ day = 0 /\ nights = 0 /\ ratio = 0 /\ adjusts = 0 /\ hourlyRaw = 0
     /\ bars = 0 /\ hourly = 0 /\ actions = 0 /\ paid = 0 /\ fullAt = 0
     /\ audits = 0 /\ rejected = 0 /\ pass = 0 /\ knew = 0 /\ asked = 0
     /\ row = 0 /\ constituent = 0 /\ listed = 0 /\ pending = 0 /\ writes = 0
     /\ facts = 0 /\ depositary = 0 /\ shares = 0 /\ ledger = 0 /\ best = 0
     /\ missing = 0 /\ batch = 0 /\ attempted = 0 /\ universe = 0 /\ events = 0
     /\ restamp = 0 /\ trust = "broken" /\ listing = 0 /\ splits = 0
     /\ applied = 0 /\ filings = 0 /\ seen = 0 /\ release = 0 /\ file = 0
     /\ refit = 0 /\ scoring = 0 /\ wrote = 0 /\ fits = 0 /\ runs = 0
     /\ shift = 0 /\ labelEnd = 0 /\ fired = 0 /\ model = 0 /\ predicted = 0
     /\ skips = 0 /\ rho = 0 /\ cells = 0 /\ changes = 0 /\ sample = 0
     /\ raw = 0 /\ table = 0 /\ fitted = 0 /\ train = 0 /\ validate = 0
     /\ scores = 0 /\ scored = 0 /\ beats = 0 /\ covers = 0 /\ exit = 0
  \/ /\ "shares" \in Parts /\ part = "shares" /\ S!Init
     /\ day = 0 /\ nights = 0 /\ ratio = 0 /\ published = 0 /\ adjusts = 0
     /\ hourlyRaw = 0 /\ bars = 0 /\ hourly = 0 /\ actions = 0 /\ paid = 0
     /\ fullAt = 0 /\ answer = 0 /\ audits = 0 /\ pass = 0
     /\ knew = 0 /\ asked = 0 /\ row = 0 /\ constituent = 0 /\ listed = 0
     /\ pending = 0 /\ writes = 0 /\ cache = 0 /\ torn = 0 /\ call = 0
     /\ attempt = 0 /\ morning = 0 /\ universe = 0 /\ events = 0 /\ restamp = 0
     /\ trust = "broken" /\ listing = 0 /\ splits = 0 /\ applied = 0
     /\ filings = 0 /\ seen = 0 /\ release = 0 /\ file = 0 /\ refit = 0
     /\ scoring = 0 /\ wrote = 0 /\ fits = 0 /\ runs = 0 /\ shift = 0
     /\ labelEnd = 0 /\ fired = 0 /\ model = 0 /\ predicted = 0 /\ skips = 0
     /\ rho = 0 /\ cells = 0 /\ changes = 0 /\ sample = 0 /\ raw = 0
     /\ table = 0 /\ fitted = 0 /\ train = 0 /\ validate = 0 /\ scores = 0
     /\ scored = 0 /\ beats = 0 /\ covers = 0 /\ exit = 0
  \/ /\ "membership" \in Parts /\ part = "membership" /\ Init
     /\ day = 0 /\ nights = 0 /\ ratio = 0 /\ published = 0 /\ adjusts = 0
     /\ hourlyRaw = 0 /\ hourly = 0 /\ actions = 0 /\ paid = 0 /\ fullAt = 0
     /\ answer = 0 /\ audits = 0 /\ rejected = 0 /\ pc = 0 /\ pass = 0
     /\ knew = 0 /\ asked = 0 /\ row = 0 /\ constituent = 0 /\ listed = 0
     /\ pending = 0 /\ writes = 0 /\ cache = 0 /\ torn = 0 /\ call = 0
     /\ attempt = 0 /\ morning = 0 /\ facts = 0 /\ depositary = 0 /\ shares = 0
     /\ ledger = 0 /\ best = 0 /\ missing = 0 /\ batch = 0 /\ attempted = 0
     /\ listing = 0 /\ splits = 0 /\ applied = 0 /\ filings = 0 /\ seen = 0
     /\ release = 0 /\ file = 0 /\ refit = 0 /\ scoring = 0 /\ wrote = 0
     /\ fits = 0 /\ runs = 0 /\ shift = 0 /\ labelEnd = 0 /\ fired = 0
     /\ model = 0 /\ predicted = 0 /\ skips = 0 /\ rho = 0 /\ cells = 0
     /\ changes = 0 /\ sample = 0 /\ raw = 0 /\ table = 0 /\ fitted = 0
     /\ train = 0 /\ validate = 0 /\ scores = 0 /\ scored = 0 /\ beats = 0
     /\ covers = 0 /\ exit = 0
  \/ /\ "verdict" \in Parts /\ part = "verdict" /\ U!Init
     /\ day = 0 /\ nights = 0 /\ ratio = 0 /\ published = 0 /\ adjusts = 0
     /\ hourlyRaw = 0 /\ bars = 0 /\ hourly = 0 /\ actions = 0 /\ paid = 0
     /\ fullAt = 0 /\ answer = 0 /\ audits = 0 /\ rejected = 0 /\ pc = 0
     /\ pass = 0 /\ knew = 0 /\ asked = 0 /\ mishaps = 0 /\ constituent = 0
     /\ listed = 0 /\ pending = 0 /\ writes = 0 /\ cache = 0 /\ torn = 0
     /\ call = 0 /\ attempt = 0 /\ morning = 0 /\ facts = 0 /\ depositary = 0
     /\ shares = 0 /\ best = 0 /\ missing = 0 /\ batch = 0 /\ attempted = 0
     /\ universe = 0 /\ events = 0 /\ restamp = 0 /\ trust = "broken"
     /\ release = 0 /\ file = 0 /\ refit = 0 /\ scoring = 0 /\ wrote = 0
     /\ fits = 0 /\ runs = 0 /\ shift = 0 /\ labelEnd = 0 /\ fired = 0
     /\ model = 0 /\ predicted = 0 /\ skips = 0 /\ rho = 0 /\ cells = 0
     /\ changes = 0 /\ sample = 0 /\ raw = 0 /\ table = 0 /\ fitted = 0
     /\ train = 0 /\ validate = 0 /\ scores = 0 /\ scored = 0 /\ beats = 0
     /\ covers = 0 /\ exit = 0
  \/ /\ "artifact" \in Parts /\ part = "artifact" /\ D!Init
     /\ day = 0 /\ nights = 0 /\ ratio = 0 /\ adjusts = 0 /\ hourlyRaw = 0
     /\ bars = 0 /\ hourly = 0 /\ actions = 0 /\ paid = 0 /\ fullAt = 0
     /\ answer = 0 /\ audits = 0 /\ rejected = 0 /\ pc = 0 /\ pass = 0
     /\ knew = 0 /\ asked = 0 /\ row = 0 /\ constituent = 0 /\ listed = 0
     /\ pending = 0 /\ writes = 0 /\ today = 0 /\ cache = 0 /\ torn = 0
     /\ call = 0 /\ attempt = 0 /\ morning = 0 /\ facts = 0 /\ depositary = 0
     /\ shares = 0 /\ ledger = 0 /\ best = 0 /\ missing = 0 /\ batch = 0
     /\ attempted = 0 /\ universe = 0 /\ events = 0 /\ restamp = 0
     /\ trust = "broken" /\ listing = 0 /\ splits = 0 /\ applied = 0
     /\ filings = 0 /\ seen = 0 /\ shift = 0 /\ labelEnd = 0 /\ fired = 0
     /\ model = 0 /\ predicted = 0 /\ skips = 0 /\ rho = 0 /\ cells = 0
     /\ changes = 0 /\ sample = 0 /\ raw = 0 /\ table = 0 /\ fitted = 0
     /\ train = 0 /\ validate = 0 /\ scores = 0 /\ scored = 0 /\ beats = 0
     /\ covers = 0 /\ exit = 0
  \/ /\ "windows" \in Parts /\ part = "windows" /\ W!Init
     /\ day = 0 /\ nights = 0 /\ ratio = 0 /\ published = 0 /\ adjusts = 0
     /\ hourlyRaw = 0 /\ bars = 0 /\ hourly = 0 /\ actions = 0 /\ paid = 0
     /\ fullAt = 0 /\ answer = 0 /\ audits = 0 /\ rejected = 0 /\ pc = 0
     /\ pass = 0 /\ knew = 0 /\ asked = 0 /\ mishaps = 0 /\ row = 0
     /\ constituent = 0 /\ listed = 0 /\ pending = 0 /\ writes = 0 /\ cache = 0
     /\ torn = 0 /\ call = 0 /\ attempt = 0 /\ morning = 0 /\ facts = 0
     /\ depositary = 0 /\ shares = 0 /\ ledger = 0 /\ best = 0 /\ missing = 0
     /\ batch = 0 /\ attempted = 0 /\ universe = 0 /\ events = 0 /\ restamp = 0
     /\ trust = "broken" /\ listing = 0 /\ splits = 0 /\ applied = 0
     /\ filings = 0 /\ seen = 0 /\ release = 0 /\ file = 0 /\ refit = 0
     /\ scoring = 0 /\ wrote = 0 /\ fits = 0 /\ runs = 0 /\ rho = 0
     /\ cells = 0 /\ changes = 0 /\ sample = 0 /\ raw = 0 /\ table = 0
     /\ fitted = 0 /\ train = 0 /\ validate = 0 /\ scores = 0 /\ scored = 0
     /\ beats = 0 /\ covers = 0 /\ exit = 0
  \/ /\ "grid" \in Parts /\ part = "grid" /\ G!Init
     /\ day = 0 /\ nights = 0 /\ ratio = 0 /\ published = 0 /\ adjusts = 0
     /\ hourlyRaw = 0 /\ bars = 0 /\ hourly = 0 /\ actions = 0 /\ paid = 0
     /\ fullAt = 0 /\ answer = 0 /\ audits = 0 /\ rejected = 0 /\ pc = 0
     /\ pass = 0 /\ knew = 0 /\ asked = 0 /\ mishaps = 0 /\ row = 0
     /\ constituent = 0 /\ listed = 0 /\ pending = 0 /\ writes = 0 /\ today = 0
     /\ cache = 0 /\ torn = 0 /\ call = 0 /\ attempt = 0 /\ morning = 0
     /\ facts = 0 /\ depositary = 0 /\ shares = 0 /\ ledger = 0 /\ best = 0
     /\ missing = 0 /\ batch = 0 /\ attempted = 0 /\ universe = 0
     /\ restamp = 0 /\ trust = "broken" /\ listing = 0 /\ splits = 0
     /\ applied = 0 /\ filings = 0 /\ seen = 0 /\ release = 0 /\ file = 0
     /\ refit = 0 /\ scoring = 0 /\ wrote = 0 /\ fits = 0 /\ shift = 0
     /\ labelEnd = 0 /\ fired = 0 /\ model = 0 /\ predicted = 0 /\ skips = 0
     /\ sample = 0 /\ raw = 0 /\ table = 0 /\ fitted = 0 /\ train = 0
     /\ validate = 0 /\ scores = 0 /\ scored = 0 /\ beats = 0 /\ covers = 0
     /\ exit = 0
  \/ /\ "calibration" \in Parts /\ part = "calibration" /\ C!Init
     /\ day = 0 /\ nights = 0 /\ ratio = 0 /\ adjusts = 0 /\ hourlyRaw = 0
     /\ bars = 0 /\ hourly = 0 /\ actions = 0 /\ paid = 0 /\ fullAt = 0
     /\ answer = 0 /\ audits = 0 /\ rejected = 0 /\ pc = 0 /\ pass = 0
     /\ knew = 0 /\ asked = 0 /\ mishaps = 0 /\ row = 0 /\ constituent = 0
     /\ listed = 0 /\ pending = 0 /\ writes = 0 /\ today = 0 /\ cache = 0
     /\ torn = 0 /\ call = 0 /\ attempt = 0 /\ morning = 0 /\ facts = 0
     /\ depositary = 0 /\ shares = 0 /\ ledger = 0 /\ best = 0 /\ missing = 0
     /\ batch = 0 /\ attempted = 0 /\ universe = 0 /\ events = 0 /\ restamp = 0
     /\ trust = "broken" /\ listing = 0 /\ splits = 0 /\ applied = 0
     /\ filings = 0 /\ seen = 0 /\ release = 0 /\ file = 0 /\ refit = 0
     /\ scoring = 0 /\ wrote = 0 /\ fits = 0 /\ runs = 0 /\ shift = 0
     /\ labelEnd = 0 /\ fired = 0 /\ model = 0 /\ predicted = 0 /\ skips = 0
     /\ rho = 0 /\ cells = 0 /\ changes = 0 /\ train = 0 /\ validate = 0
     /\ scores = 0 /\ scored = 0 /\ beats = 0 /\ covers = 0 /\ exit = 0
  \/ /\ "gate" \in Parts /\ part = "gate" /\ P!Init
     /\ day = 0 /\ nights = 0 /\ ratio = 0 /\ published = 0 /\ adjusts = 0
     /\ hourlyRaw = 0 /\ bars = 0 /\ hourly = 0 /\ actions = 0 /\ paid = 0
     /\ fullAt = 0 /\ answer = 0 /\ audits = 0 /\ rejected = 0 /\ pc = 0
     /\ pass = 0 /\ knew = 0 /\ asked = 0 /\ mishaps = 0 /\ row = 0
     /\ constituent = 0 /\ listed = 0 /\ pending = 0 /\ writes = 0 /\ today = 0
     /\ cache = 0 /\ torn = 0 /\ call = 0 /\ attempt = 0 /\ morning = 0
     /\ facts = 0 /\ depositary = 0 /\ shares = 0 /\ ledger = 0 /\ best = 0
     /\ missing = 0 /\ batch = 0 /\ attempted = 0 /\ universe = 0 /\ events = 0
     /\ restamp = 0 /\ trust = "broken" /\ listing = 0 /\ splits = 0
     /\ applied = 0 /\ filings = 0 /\ seen = 0 /\ release = 0 /\ file = 0
     /\ refit = 0 /\ scoring = 0 /\ wrote = 0 /\ fits = 0 /\ runs = 0
     /\ shift = 0 /\ labelEnd = 0 /\ fired = 0 /\ model = 0 /\ predicted = 0
     /\ skips = 0 /\ rho = 0 /\ cells = 0 /\ changes = 0 /\ sample = 0
     /\ table = 0 /\ fitted = 0

MCNext ==
  \/ part = "bars" /\ B!Next /\ UNCHANGED <<part, NotB>>
  \/ part = "table" /\ T!Next /\ UNCHANGED <<part, NotT>>
  \/ part = "fetch" /\ F!Next /\ UNCHANGED <<part, NotF>>
  \/ part = "shares" /\ S!Next /\ UNCHANGED <<part, NotS>>
  \/ part = "membership" /\ Next /\ UNCHANGED <<part, NotM>>
  \/ part = "verdict" /\ U!Next /\ UNCHANGED <<part, NotU>>
  \/ part = "artifact" /\ D!Next /\ UNCHANGED <<part, NotD>>
  \/ part = "windows" /\ W!Next /\ UNCHANGED <<part, NotW>>
  \/ part = "grid" /\ G!Next /\ UNCHANGED <<part, NotG>>
  \/ part = "calibration" /\ C!Next /\ UNCHANGED <<part, NotC>>
  \/ part = "gate" /\ P!Next /\ UNCHANGED <<part, NotP>>

all == <<part, day, nights, ratio, published, adjusts, hourlyRaw, bars,
         hourly, actions, paid, fullAt, answer, audits, rejected, pc, pass,
         knew, asked, mishaps, row, constituent, listed, pending, writes,
         today, cache, torn, call, attempt, morning, facts, depositary,
         shares, ledger, best, missing, batch, attempted, universe, events,
         restamp, trust, listing, splits, applied, filings, seen, release,
         file, refit, scoring, wrote, fits, runs, shift, labelEnd, fired,
         model, predicted, skips, rho, cells, changes, sample, raw, table,
         fitted, train, validate, scores, scored, beats, covers, exit>>

MCSpec == MCInit /\ [][MCNext]_all


ASSUME B!DaysAssumption /\ B!KindsAssumption
ASSUME T!TickerAssumption /\ F!FetchAssumption /\ S!SharesAssumption /\ MembershipAssumption
ASSUME U!UniverseAssumption /\ D!ArtifactAssumption /\ W!WindowsAssumption /\ W!CalendarAssumption
ASSUME G!GridAssumption /\ C!CalibrationAssumption /\ P!GateAssumption

-----------------------------------------------------------------------------

\* The stored history is on one scale: nothing is divided twice while the
\* vendor's raw history is met once, no cliff is left at a recent split that is
\* on file, and a bar rejected for an unknown split heals. Every rewrite of stored
\* prices has its audit row, and a ticker that counts as known by its rows has
\* its whole history of actions (run_bars_daily, reconcile_daily_splits and
\* run_actions).
BarsAreConsistent == part = "bars" => B!BarsAreConsistent

\* An undisturbed chain ends with the session's bar if the vendor had it, and an
\* hourly bar never leaves the scale of its daily bar.
BarsFollowTheVendor == [][part = "bars" => B!SessionBarLands /\ B!HourlyFollowsDaily]_all

\* No price is divided by one split twice, whatever the vendor serves
\* (reconcile_daily_splits says it is idempotent).
AdjustedOnce == part = "bars" => B!AdjustedOnce

\* No writer of `tickers` takes away what another has resolved, and
\* first_bar_date and last_bar_date are those of the stored bars.
ResolvedSurvives == [][part = "table" => T!ResolvedSurvives /\ T!CoverageSpansBars']_all

\* A window of bars is answered with all the vendor had published, from the
\* disk or from the vendor, and corporate actions never with an earlier day's
\* answer.
AnswersAreCurrent == [][part = "fetch" => F!BarsAreCurrent /\ F!ActionsAreOfToday']_all

\* A ticker the ledger calls fetched has its share counts on file; a share count on
\* file is only ever replaced by a filing, unless SEC's document could not be read or
\* the guard rejects the filing that night; and what the guard says of a filing is
\* final once a window of later ones lies behind it (run_shares, scale_error_indices).
FiledBeatsEstimated ==
  [][part = "shares" =>
       /\ S!FetchedMeansWritten'
       /\ S!FiledBeatsEstimated /\ S!VerdictsSettle]_all

\* A quarter's verdict does not hang on splits, filings or receipts: the cap is the
\* company's worth, at most half of a group beats its median, and a watched name
\* is one criterion away from trading (split_adjusted_shares,
\* _sector_median_return, watch_reason). A cell of the grid is judged in a family of
\* its own run, on no more evidence than it has (benjamini_hochberg, compute_grid,
\* effective_sample_size).
JudgementsAreFair ==
  /\ part = "verdict" => U!TypeOK /\ U!CapDoesNotMove /\ U!HalfBeatTheMedian /\ U!WatchIsOneStepAway
  /\ part = "grid" => G!RejectedByStepUp /\ G!RowsAreOfOneRun /\ G!CountsAreHonest

\* A row is scored by a fit of its own config that this code reads as it was
\* written; the Pi follows what is published, which only moves forward (save,
\* load, publish, fetch).
OnlyTrustedFitsScore ==
  [][part = "artifact" =>
       /\ D!PublishedMovesForward
       /\ D!OnlyTrustedFitsScore' /\ D!PiFollowsPublished' /\ D!AbsentOnlyIfUnpublished']_all

\* No fold validates what its training labels have seen, no fit learns an event
\* before an earlier one has scored it, a later fit learns no less, and a row that
\* is not marked cosmetic is of the population the fit knows
\* (walk_forward_folds, training_window, build_serving_frame). Where no bucket of
\* the calibration is empty, it is isotonic and keeps the order of the scores
\* (build_reliability, band). The promotion gate loses nothing by repairing a fan
\* and counts a cluster once (sort_quantiles, cluster_weights).
FitsLearnHonestly ==
  [][/\ part = "windows" =>
          /\ W!TrainingExpands
          /\ W!FoldsDoNotLeak' /\ W!ServedBeforeTrained' /\ W!CosmeticIsHonest'
     /\ part = "calibration" => C!PoolingIsIsotonic' /\ C!RanksAreKept'
     /\ part = "gate" => P!FanIsRepaired' /\ P!ClustersVoteOnce' /\ P!BaselinesAgree']_all
=============================================================================
