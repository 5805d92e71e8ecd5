------------------------------ MODULE CellStats ------------------------------
(***************************************************************************)
(* The headline grid of one config: `cscan stats rho` measures how alike   *)
(* the co-firing tickers of an era move, `cscan stats cells` counts the    *)
(* events of every cell, discounts them for it, suppresses the cells that  *)
(* are left with too few and corrects the p-values of the others for being *)
(* many (core/cells, core/stats, research/rho, research/cell_stats). The   *)
(* events stand in batches of one cell and era; one target and one horizon *)
(* stand for the ladder. Correlations are tenths, rates percentages,       *)
(* p-values thousandths, and a p-value is the step of z squared it is on.  *)
(***************************************************************************)
EXTENDS Integers, Sequences, FiniteSets, FiniteSetsExt, SequencesExt

CONSTANTS
  Pool,        \* the batches of events there may be
  Later,       \* those that are not there at first
  Sides, Buckets,     \* the headline grid
  Eras,        \* the eras that are reported; "open" is the holdout's
  Rhos,        \* what a correlation may come out as, in tenths
  MinEff,      \* min_n_eff
  Baseline,    \* how many of a hundred days reach the target anyway
  Alpha,       \* fdr_alpha, in thousandths
  MaxChanges,  \* bound on what happens to the events
  MaxRuns      \* bound on the commands

GridAssumption ==
  /\ "open" \notin Eras /\ Rhos \subseteq -10..10
  /\ MinEff \in Nat \ {0} /\ Baseline \in 1..99 /\ Alpha \in 1..1000 /\ Later \subseteq Pool
  /\ MaxChanges \in Nat /\ MaxRuns \in Nat
  /\ \A b \in Pool :
       /\ b.side \in Sides /\ b.bucket \in Buckets \cup {"deep", "none"}
       /\ b.era \in Eras \cup {"open"} /\ b.n \in Nat \ {0}
       /\ b.hits + b.gaps <= b.n        \* a gap has no forward return
       /\ b.cofires >= b.n              \* the sum of cofire_count
       /\ b.closed \in BOOLEAN          \* the forward windows

VARIABLES
  events,   \* the config's batches
  rho,      \* rho_era: per era the row, if any
  cells,    \* cell_stats: per cell the row, if any
  changes, runs

vars == <<events, rho, cells, changes, runs>>

Specs == [side : Sides, bucket : Buckets]
Splits == {"train", "holdout"}
SplitOf(era) == IF era = "open" THEN "holdout" ELSE "train"

\* cell_key of a cell of the grid; a pooled row has no era.
Ids == [spec : Specs, split : Splits, era : Eras \cup {"pooled"}]

-----------------------------------------------------------------------------
(* core/stats. *)

Count(batches) == MapThenSumSet(LAMBDA b : b.n, batches)
Hits(batches) == MapThenSumSet(LAMBDA b : b.hits, batches)
Measured(batches) == MapThenSumSet(LAMBDA b : b.n - b.gaps, batches)

\* pooled_rho times the events: every era weighs as much as it has events.
PooledRho(batches) == MapThenSumSet(LAMBDA b : b.n * (CHOOSE r \in rho[b.era] : TRUE), batches)

\* rho_bar_for_correction: a negative measurement corrects nothing.
ForCorrection(weight) == IF weight > 0 THEN weight ELSE 0

\* effective_sample_size of cell_n_eff, in tenths: n / (1 + (k - 1) * rho).
EffTenths(batches) ==
  LET n == Count(batches)
      excess == MapThenSumSet(LAMBDA b : b.cofires, batches) - n
  IN (100 * n * n * n) \div (10 * n * n + excess * ForCorrection(PooledRho(batches)))

TailSteps == <<400, 159, 79, 42, 23, 13, 7, 4, 2>>

\* one_sided_p_value on the effective size, of hit_flags' rate.
PValue(batches) ==
  LET lift == (100 * Hits(batches)) \div Measured(batches) - Baseline
      square == (lift * lift * EffTenths(batches)) \div (10 * Baseline * (100 - Baseline))
  IN IF lift < 0 THEN 900 ELSE TailSteps[Min({square + 1, Len(TailSteps)})]

\* q-values in 840ths of a thousandth, so that m / j is whole up to 8 tests.
Scale == 840

\* benjamini_hochberg over the p-values in their order.
RunningQ(sorted) ==
  LET raw == [j \in DOMAIN sorted |-> (Scale * Len(sorted) * sorted[j]) \div j]
  IN [j \in DOMAIN sorted |-> Min({raw[i] : i \in j..Len(sorted)} \cup {1000 * Scale})]

-----------------------------------------------------------------------------
(* research/cell_stats. *)

\* load_grid_events and select_grid_events: the deep and the unknown drawdowns
\* and the open windows stay out.
Selected(split) ==
  {b \in events : SplitOf(b.era) = split /\ b.bucket \in Buckets /\ b.closed}

InCell(id) ==
  {b \in Selected(id.split) :
     /\ b.side = id.spec.side /\ b.bucket = id.spec.bucket
     /\ id.era \in {"pooled", b.era}}

\* _cell_row. An empty cell has a row as well; a suppressed one has no numbers.
CellRow(id, run) ==
  LET batches == InCell(id)
      row == [run |-> run, n |-> Count(batches), eff |-> 0, p |-> {}, q |-> {}, suppressed |-> TRUE]
  IN IF batches = {} THEN row
     ELSE LET eff == EffTenths(batches)
              few == eff < 10 * MinEff
          IN [row EXCEPT !.eff = eff, !.suppressed = few,
                         !.p = IF few \/ Measured(batches) = 0 THEN {} ELSE {PValue(batches)}]

\* The family: pooled rows with a p-value.
Family(rows) == {id \in DOMAIN rows : id.era = "pooled" /\ rows[id].p # {}}

PValueOf(rows, id) == CHOOSE p \in rows[id].p : TRUE

\* apply_benjamini_hochberg.
Corrected(rows) ==
  LET order == SetToSortSeq(Family(rows), LAMBDA a, b : PValueOf(rows, a) < PValueOf(rows, b))
      q == RunningQ([j \in DOMAIN order |-> PValueOf(rows, order[j])])
  IN [id \in DOMAIN rows |->
        [rows[id] EXCEPT !.q = {q[j] : j \in {i \in DOMAIN order : order[i] = id}}]]

\* compute_grid for the pooled rows and for every era that may be reported.
Grid(split, run) ==
  Corrected([id \in {i \in Ids : i.split = split} |-> CellRow(id, run)])

\* write_cell_stats.
Upserted(rows) == [id \in Ids |-> IF id \in DOMAIN rows THEN {rows[id]} ELSE cells[id]]

\* run_cell_stats: raises where an era of a cell has no rho_era row.
RunCells(split) ==
  /\ runs < MaxRuns /\ runs' = runs + 1
  /\ Selected(split) # {}
  /\ \A b \in Selected(split) : rho[b.era] # {}
  /\ LET rows == Grid(split, runs')
     IN cells' = Upserted(rows)
  /\ UNCHANGED <<events, rho, changes>>

-----------------------------------------------------------------------------
(* research/rho and the backtest. *)

\* load_config_events: all of them, open windows and deep drawdowns included.
Fired(era) == {b \in events : b.era = era}

\* An era where no two tickers fired together is not measured.
Cofiring(era) == \E b \in Fired(era) : b.cofires > b.n
Measurements == [{e \in Eras \cup {"open"} : Cofiring(e)} -> Rhos]

\* rho_era_rows: it writes no row, and takes none away.
EraRows(measured) ==
  [e \in DOMAIN rho |-> IF e \in DOMAIN measured THEN {measured[e]} ELSE rho[e]]

MeasureRho ==
  /\ runs < MaxRuns /\ runs' = runs + 1
  /\ \E measured \in Measurements : rho' = EraRows(measured)
  /\ UNCHANGED <<events, cells, changes>>

\* Another backtest of the config: a batch appears, or leaves with its tickers'
\* in_trade.
Backtest ==
  /\ changes < MaxChanges /\ changes' = changes + 1
  /\ \E b \in Pool : events' = IF b \in events THEN events \ {b} ELSE events \cup {b}
  /\ UNCHANGED <<rho, cells, runs>>

Init ==
  /\ events = Pool \ Later
  /\ rho = [e \in Eras \cup {"open"} |-> {}] /\ cells = [id \in Ids |-> {}]
  /\ changes = 0 /\ runs = 0

Next == MeasureRho \/ Backtest \/ \E split \in Splits : RunCells(split)
Spec == Init /\ [][Next]_vars

-----------------------------------------------------------------------------

Rows(split) == UNION {cells[id] : id \in {i \in Ids : i.split = split}}

\* What is significant at alpha by its q-value is what the step-up procedure
\* rejects: the p-values up to the largest that is within its share of alpha
\* (benjamini_hochberg: "q_(i) <= alpha holds for exactly those same i"). The
\* suppressed cells and the eras have no part in it.
RejectedByStepUp ==
  \A split \in Splits :
    LET family == {id \in Ids : id.split = split /\ id.era = "pooled"
                                  /\ \E r \in cells[id] : ~r.suppressed /\ r.p # {}}
        p(id) == CHOOSE v \in UNION {r.p : r \in cells[id]} : TRUE
        rank(v) == Cardinality({id \in family : p(id) <= v})
        within == {p(id) : id \in {i \in family : p(i) * Cardinality(family) <= rank(p(i)) * Alpha}}
    IN {id \in Ids : id.split = split
                     /\ \E r \in cells[id] : \E q \in r.q : q <= Alpha * Scale}
         = {id \in family : \E v \in within : p(id) <= v}

\* The rows of a split are those of one run, the cells that have lost their events
\* included: none of them is left over from an earlier one (compute_grid,
\* write_cell_stats).
RowsAreOfOneRun ==
  \A split \in Splits : Cardinality({r.run : r \in Rows(split)}) <= 1

\* An effective count is not above the count, whatever the correlation came out
\* as, no number is rendered on fewer than MinEff of it, and the eras of the
\* training split add up to the pooled row (effective_sample_size,
\* suppression_reason, reported_eras).
CountsAreHonest ==
  /\ \A split \in Splits : \A r \in Rows(split) :
       /\ r.eff <= 10 * r.n
       /\ r.p \cup r.q # {} => r.eff >= 10 * MinEff
  /\ \A spec \in Specs :
       LET n(era) == SumSet({r.n : r \in cells[[spec |-> spec, split |-> "train", era |-> era]]})
       IN n("pooled") = MapThenSumSet(n, Eras)
=============================================================================
