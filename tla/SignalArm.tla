------------------------------ MODULE SignalArm ------------------------------
(***************************************************************************)
(* The signal arm and its random-entry null (research/benchmarks,          *)
(* core/arms simulate_portfolio): events become entries, entries become    *)
(* positions on the shared calendar, and one portfolio holds them in equal *)
(* weights. `cscan benchmarks` splits the null's replications over worker  *)
(* processes, each of which reads the database for itself.                 *)
(*                                                                         *)
(* One ticker. Prices are powers of two and Capital a multiple of every    *)
(* power of two the bounds can ask for, so that all amounts are whole.     *)
(***************************************************************************)
EXTENDS Integers, FiniteSets, FiniteSetsExt, Sequences, SequencesExt

CONSTANTS
  Days,          \* the calendar's days, 1..n: days with a bar of some ticker
  YearEnd,       \* the first year's last day
  Paths,         \* the ticker's bars that occur: open and close by day
  MaxHold,       \* ExitParams.max_hold_days
  Replications,  \* how often the null is drawn
  Workers,       \* --workers
  MaxFires,      \* bound: events
  Tranches,      \* dca_tranches
  Capital, Rf

NoBar == [open |-> 0, close |-> 0]

SignalArmAssumption ==
  /\ Days = 1..Cardinality(Days) /\ MaxHold \in Nat \ {0} /\ Workers \in Nat \ {0}
  /\ Tranches \in Nat \ {0} /\ Capital % Tranches = 0
  /\ \A p \in Paths : DOMAIN p = Days

VARIABLES
  path,     \* the bars on file
  panel,    \* their days, in order: a bar's position is its index
  universe, \* the days on which the ticker is a member
  fired,    \* the days of its long events
  parts,    \* the workers' ranges still to be computed
  drawn,    \* the replications computed: entries by replication
  stored,   \* replication numbers of the rows in `benchmarks`, as written
  book      \* the portfolio of one entry list, day by day; day 0 before it

vars == <<path, panel, universe, fired, parts, drawn, stored, book>>

-----------------------------------------------------------------------------
(* One ticker's panel: its bars by position, its days by date.             *)

YearOf(d) == IF d <= YearEnd THEN 1 ELSE 2

\* restrict_to_universe
Entries == fired \cap universe

\* Days with at least one bar behind the next_open fill.
Eligible ==
  {panel[i] : i \in {j \in 1..Len(panel) : j + 2 <= Len(panel) /\ panel[j] \in universe}}

\* As many days of each year as the arm fired in it, or all there are.
Draws ==
  {s \in SUBSET Eligible :
     \A y \in {1, 2} :
       LET fires == Cardinality({d \in Entries : YearOf(d) = y})
           pool  == Cardinality({d \in Eligible : YearOf(d) = y})
       IN  Cardinality({d \in s : YearOf(d) = y}) = IF fires < pool THEN fires ELSE pool}

\* resolve_exit_for_entry, for a policy of one target above the fill: the bar of
\* the exit, at most MaxHold behind the fill, at its close; none without a bar
\* behind the fill.
Forward(entry) == {j \in entry + 1 .. entry + MaxHold : j <= Len(panel)}

ExitOf(entry) ==
  LET hits == {j \in Forward(entry) : path[panel[j]].close > path[panel[entry]].open}
  IN  IF hits = {} THEN Max(Forward(entry)) ELSE Min(hits)

\* A position of an entry on a day of the calendar, or none.
Positions(entries) ==
  LET filled == {j \in 2..Len(panel) : panel[j - 1] \in entries /\ Forward(j) # {}}
  IN  {[entry |-> j, exit |-> ExitOf(j), from |-> panel[j], to |-> panel[ExitOf(j)]] : j \in filled}

\* position_returns, padded: what one unit of the day before is worth after it,
\* as a pair; a day without a bar moves nothing.
Before(p, d) ==
  IF d = p.from THEN path[d].open
  ELSE path[panel[Max({j \in p.entry..p.exit : panel[j] < d})]].close

After(p, d) == IF path[d] = NoBar THEN Before(p, d) ELSE path[d].close

\* `exit_idx >= i`: a position is held on the day of its exit.
Live(ps, d) == {p \in ps : p.from <= d /\ d <= p.to}

-----------------------------------------------------------------------------

\* _replication_ranges: contiguous, the first ones one longer.
Ranges ==
  LET n     == IF Workers < Replications THEN Workers ELSE Replications
      base  == Replications \div n
      extra == Replications % n
      First(i) == 1 + (i - 1) * base + (IF i - 1 < extra THEN i - 1 ELSE extra)
  IN  {First(i)..First(i + 1) - 1 : i \in 1..n}

NoBook == [day |-> 0, positions |-> {}, equity |-> Capital, pnl |-> <<>>, interest |-> 0]

Init ==
  /\ path \in Paths
  /\ panel = SelectSeq(SetToSortSeq(Days, <), LAMBDA d : path[d] # NoBar)
  /\ universe \in {Days, {d \in Days : d > 1}}
  /\ fired \in {s \in SUBSET {d \in Days : path[d] # NoBar} : Cardinality(s) <= MaxFires}
  /\ parts = Ranges /\ drawn = <<>> /\ stored = <<>>
  /\ book = [NoBook EXCEPT !.positions = Positions(Entries),
                           !.pnl = [p \in Positions(Entries) |-> 0]]

\* One day of simulate_portfolio.
Simulate ==
  LET d    == book.day + 1
      live == Live(book.positions, d)
      k    == Cardinality(live)
      Gain(p) == ((book.equity \div k) \div Before(p, d)) * (After(p, d) - Before(p, d))
  IN  /\ d \in Days
      /\ book' = IF k = 0
                 THEN [book EXCEPT !.day = d, !.equity = @ * (1 + Rf),
                                   !.interest = @ + Rf * book.equity]
                 ELSE [book EXCEPT
                         !.day = d, !.equity = @ + MapThenSumSet(Gain, live),
                         !.pnl = [p \in DOMAIN @ |-> IF p \in live THEN @[p] + Gain(p) ELSE @[p]]]
      /\ UNCHANGED <<path, panel, universe, fired, parts, drawn, stored>>

\* After the signal arm. A worker returns its replications, in whatever order the workers end; a
\* replication's draw depends on its number alone.
Replicate ==
  /\ stored = <<>> /\ book.day = Cardinality(Days)
  /\ \E r \in parts :
       /\ parts' = parts \ {r}
       /\ \E draw \in [r -> Draws] : drawn' = drawn \o SetToSeq({<<i, draw[i]>> : i \in r})
  /\ UNCHANGED <<path, panel, universe, fired, stored, book>>

\* All rows in one transaction, in the order of the replications.
Write ==
  /\ parts = {} /\ stored = <<>> /\ drawn # <<>>
  /\ stored' = [i \in 1..Len(drawn) |-> SortSeq(drawn, LAMBDA x, y : x[1] < y[1])[i][1]]
  /\ UNCHANGED <<path, panel, universe, fired, parts, drawn, book>>

-----------------------------------------------------------------------------
(* The four variants that put the capital into the basket of buy-and-hold  *)
(* in instalments: here a basket of the one ticker, whose curve is its     *)
(* closes, and a calendar of one month a year.                             *)

LastDay == Cardinality(Days)

\* load_window: it opens on the first day of a member.
Window == {d \in Days : d >= Min(universe)}

\* Until the first bar the book is in cash.
Basket(d) ==
  LET barred == {e \in Window : path[e] # NoBar}
      past   == {e \in barred : e <= d}
  IN  path[IF past = {} THEN Min(barred) ELSE Max(past)].close

MonthStarts == {d \in Window : d = Min(Window) \/ YearOf(d) # YearOf(d - 1)}

\* signal_day_indices: however many positions open on a day, it is one deployment.
Deployments == {p.from : p \in book.positions}

\* expected_deployment_days: the train split's own count on the train split, its
\* rate for the length of any other.
OnTrain  == IF Deployments = {} THEN 1 ELSE Cardinality(Deployments)
Expected == {n \in Days : Capital % n = 0}

Schedules(n) ==
  LET monthly == Capital \div Tranches
  IN  [dca_fixed  |-> [d \in MonthStarts |-> monthly],
       dca_signal |-> [d \in Deployments |-> Capital \div n],
       dca_hybrid |-> [d \in MonthStarts |-> IF d \in Deployments THEN 2 * monthly ELSE monthly],
       dca_lump   |-> [d \in {Min(Window)} |-> Capital]]

\* _run_dca: what is left after each day's tranche, swept in on the last day.
Dca(schedule) ==
  LET left[d \in 0..LastDay] ==
        IF d = 0 THEN Capital
        ELSE IF d \notin DOMAIN schedule THEN left[d - 1]
        ELSE left[d - 1] - Min({schedule[d], left[d - 1]})
      spent(d) == left[d - 1] - left[d] + IF d = LastDay THEN left[d] ELSE 0
  IN  [deposits   |-> [d \in Days |-> spent(d)],
       undeployed |-> left[LastDay],
       terminal   |-> MapThenSumSet(LAMBDA d : (spent(d) \div Basket(d)) * Basket(LastDay), Days)]

\* simulate_dca_family.
Family(n) == [arm \in DOMAIN Schedules(n) |-> Dca(Schedules(n)[arm])]

Next == Simulate \/ Replicate \/ Write

Spec == Init /\ [][Next]_vars

-----------------------------------------------------------------------------

\* Every dollar the curve moved while deployed belongs to some trade, although
\* weights change with every position that opens or closes beside it
\* (simulate_portfolio).
PnlAddsUp == SumFunction(book.pnl) + book.interest = book.equity - Capital

\* A position alone for its whole life makes what its fills say, missing bars or
\* not (_to_global_position).
FillsDecide ==
  \A p \in book.positions :
    /\ book.positions = {p} /\ book.day = p.to /\ book.interest = 0
    => book.equity * path[p.from].open = Capital * path[p.to].close

\* A drawn day becomes a position: a replication is never quietly smaller than
\* its draw (eligible_days).
DrawsBecomePositions ==
  \A i \in DOMAIN drawn : Cardinality(Positions(drawn[i][2])) = Cardinality(drawn[i][2])

\* Every variant spends the capital and no more, on no day before the window. What
\* the signal has not spent is for want of the deployments the rate implied, so
\* nothing on the split that defines the rate; the hybrid is never behind the
\* monthly plan; and waiting gains nothing unless the basket falls below its start
\* (simulate_dca_family, _run_dca, expected_deployment_days).
CapitalIsSpent ==
  book.day = LastDay /\ drawn = <<>> =>
    \A n \in Expected :
      LET family == Family(n)
          fires  == Cardinality(Deployments)
          Spent(arm, d) == MapThenSumSet(LAMBDA e : family[arm].deposits[e], 1..d)
      IN  /\ \A arm \in DOMAIN family :
               /\ Spent(arm, LastDay) = Capital
               /\ \A d \in Days \ Window : family[arm].deposits[d] = 0
               /\ (\A d \in Window : Basket(d) >= Basket(Min(Window)))
                    => family[arm].terminal <= family["dca_lump"].terminal
          /\ family["dca_signal"].undeployed * n = Capital * (n - Min({n, fires}))
          /\ n = OnTrain /\ fires > 0 => family["dca_signal"].undeployed = 0
          /\ \A d \in Days : Spent("dca_fixed", d) <= Spent("dca_hybrid", d)

\* The stored null has each replication once, however the work was split.
NullIsWhole == stored # <<>> => stored = [i \in 1..Replications |-> i]
=============================================================================
