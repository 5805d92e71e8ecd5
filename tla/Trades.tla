------------------------------- MODULE Trades --------------------------------
(***************************************************************************)
(* The four rows the backtest writes for one signal of one ticker: entry   *)
(* fills (core/returns, research/enrich), the exit (core/exits) and what   *)
(* is measured along the way. Daily bars arrive one session at a time, and *)
(* every backtest writes the rows again from the bars it finds.            *)
(*                                                                         *)
(* bars[1] is the signal's own bar. A price is a whole number of units,    *)
(* Tick of them apart, so that a twelfth of an hour is one too. Distances  *)
(* (stop, target, slippage) are amounts where the code takes shares of the *)
(* price. A bar's bands and stochastic follow from its shape here; the     *)
(* code reads them from the indicators of its date.                        *)
(***************************************************************************)
EXTENDS Integers, FiniteSets, FiniteSetsExt, Sequences

CONSTANTS
  Shapes,     \* the bars that occur: records of open, high, low and close
  Policies,   \* the exit rules that occur: records of stop, mid, far and stoch
  Hourlies,   \* the hourly bars of the signal's day that occur
  MaxHold,    \* ExitParams.max_hold_days
  MaxBars,    \* bound: sessions
  Tick,       \* units between two prices: a multiple of 12
  Level,      \* the band the signal touched
  Target,     \* distance of the profit target
  Slip        \* slippage of one leg

Sides == {"long", "short"}
Kinds == {"touch", "touch_5m", "touch_30m", "next_open"}
Null  == -1000  \* NaN: below every price and return

\* A daily or hourly bar.
IsBar(s) ==
  /\ s \in [open : Nat, high : Nat, low : Nat, close : Nat]
  /\ s.low <= s.open /\ s.low <= s.close /\ s.high >= s.open /\ s.high >= s.close

\* No price and no mark is so low that it could be taken for a missing one.
TradesAssumption ==
  /\ MaxHold \in Nat \ {0} /\ MaxBars \in Nat /\ Tick % 12 = 0
  /\ \A s \in Shapes : IsBar(s)
  /\ \A h \in Hourlies : h \in Seq({h[i] : i \in DOMAIN h}) /\ \A i \in DOMAIN h : IsBar(h[i])
  /\ {Level, Target, Slip} \subseteq Nat
  /\ \A p \in Policies : p.stop \in Nat /\ {p.mid, p.far, p.stoch} \subseteq BOOLEAN
  /\ \A p \in Policies : Slip + p.stop + Target < -Null

VARIABLES
  side,    \* of the signal
  level,   \* touch_level: Level, or Null for a signal of the stochastic alone
  policy,
  hourly,  \* the hourly bars of the signal's day
  bars,    \* the daily bars on file, from the signal's on
  rows     \* the events rows of the last backtest, by entry kind

vars == <<side, level, policy, hourly, bars, rows>>

-----------------------------------------------------------------------------
(* Prices against levels, the same for both sides.                         *)

Sign == IF side = "long" THEN 1 ELSE -1

\* _breach and _hit: at least as good for the position, or at least as bad.
AtOrBetter(price, mark) == Sign * price >= Sign * mark
AtOrWorse(price, mark)  == Sign * price <= Sign * mark

Best(bar)  == IF side = "long" THEN bar.high ELSE bar.low
Worst(bar) == IF side = "long" THEN bar.low ELSE bar.high

\* What the indicators of a bar's date say.
Mid(bar)     == bar.close
Far(bar)     == Best(bar)
Extreme(bar) == bar.close = Best(bar) /\ AtOrBetter(bar.close, Level)

-----------------------------------------------------------------------------
(* Entries.                                                                *)

\* The fill of a touch: the level, or the open that gapped through it.
Fill(bar) == IF AtOrWorse(bar.open, level) THEN bar.open ELSE level

\* _first_hourly_touch.
Touches == {i \in DOMAIN hourly : AtOrWorse(Worst(hourly[i]), level)}

\* entry_price_for, before slippage.
RawEntry(kind) ==
  CASE kind = "touch" -> IF level = Null THEN Null ELSE Fill(bars[1])
    [] kind = "next_open" -> IF Len(bars) < 2 THEN Null ELSE bars[2].open
    [] OTHER ->
         IF level = Null \/ Touches = {} THEN Null
         ELSE LET h == hourly[Min(Touches)]
              IN IF kind = "touch_30m" THEN h.close ELSE Fill(h) + (h.close - Fill(h)) \div 12

\* resolve_entries: slippage against the position.
Entry(kind) == IF RawEntry(kind) = Null THEN Null ELSE RawEntry(kind) + Sign * Slip

\* _entry_idx_for and the check of its position: the bar the entry fills on.
EntryIdx(kind) == IF kind = "next_open" THEN 2 ELSE 1

\* The bars a position may be held through: after its entry, MaxHold at most.
Window(kind) == SubSeq(bars, EntryIdx(kind) + 1, Min({Len(bars), EntryIdx(kind) + MaxHold}))

-----------------------------------------------------------------------------
(* Exits.                                                                  *)

StopMark(entry)   == IF policy.stop = 0 THEN Null ELSE entry - Sign * policy.stop
TargetMark(entry) == entry + Sign * Target

\* _favorable_exit: the open if it is there already, else the mark.
Favorable(bar, mark, reason) ==
  [price |-> IF AtOrBetter(bar.open, mark) THEN bar.open ELSE mark, reason |-> reason,
   when |-> AtOrBetter(Best(bar), mark)]

AtOpen(bar, when, reason) == [price |-> bar.open, reason |-> reason, when |-> when]

\* Inside one bar the stop is taken to come first.
InBar(bar, stop, target) ==
  << [price |-> stop, reason |-> "stop", when |-> stop # Null /\ AtOrWorse(Worst(bar), stop)],
     Favorable(bar, target, "target") >>

Gaps(bar, stop, target) ==
  << AtOpen(bar, stop # Null /\ AtOrWorse(bar.open, stop), "stop"),
     AtOpen(bar, AtOrBetter(bar.open, target), "target") >>

\* _exit_on_bar: the rules in their pinned order. The bands are the bar's
\* before, the stochastic its own, filled at the close.
Rules(bar, prior, stop, target) ==
  Gaps(bar, stop, target) \o InBar(bar, stop, target) \o
  << [Favorable(bar, Mid(prior), "mid_band") EXCEPT !.when = @ /\ policy.mid],
     [Favorable(bar, Far(prior), "upper_band") EXCEPT !.when = @ /\ policy.far],
     [price |-> bar.close, reason |-> "stoch_80", when |-> policy.stoch /\ Extreme(bar)] >>

Fired(rules) == {i \in DOMAIN rules : rules[i].when}

Ambiguous(bar, hit, target) ==
  hit.reason = "stop" /\ hit.price # bar.open /\ AtOrBetter(Best(bar), target)

\* Mutant: every window that ends without an exit is a timeout.
TerminalAlwaysTimeout(window) == "timeout"

\* A window that fell short ran out of data, not of time.
Terminal(window) == IF Len(window) = MaxHold THEN "timeout" ELSE "unfinished"

\* resolve_exit.
Exit(kind) ==
  LET entry  == Entry(kind)
      window == Window(kind)
      stop   == StopMark(entry)
      target == TargetMark(entry)
      Prior(i) == bars[EntryIdx(kind) + i - 1]
      R(i)   == Rules(window[i], Prior(i), stop, target)
      hits   == {i \in DOMAIN window : Fired(R(i)) # {}}
      last   == Len(window)
  IN IF hits = {}
       THEN [idx |-> last, price |-> window[last].close, reason |-> Terminal(window),
             ambiguous |-> FALSE]
       ELSE LET i == Min(hits)
                hit == R(i)[Min(Fired(R(i)))]
            IN [idx |-> i, price |-> hit.price, reason |-> hit.reason,
                ambiguous |-> Ambiguous(window[i], hit, target)]

-----------------------------------------------------------------------------
(* What is measured: mfe_mae and path_metrics, forward_returns, the costs. *)

Gain(from, to) == Sign * (to - from)

MFE(kind, n) == Max({Gain(Entry(kind), Best(Window(kind)[i])) : i \in 1..n})
MAE(kind, n) == Min({Gain(Entry(kind), Worst(Window(kind)[i])) : i \in 1..n})

\* The first bar of the whole window that reached the target, 0 for none.
DayTouched(kind) ==
  LET at == {i \in DOMAIN Window(kind) : AtOrBetter(Best(Window(kind)[i]), TargetMark(Entry(kind)))}
  IN IF at = {} THEN 0 ELSE Min(at)

\* fwd_ret_1d: from the entry bar's close to the next one's.
Forward(kind) ==
  IF Len(bars) > EntryIdx(kind) THEN bars[EntryIdx(kind) + 1].close - bars[EntryIdx(kind)].close ELSE Null

\* apply_costs: both legs' slippage off the return of the slipped entry price.
Net(gross) == gross - 2 * Slip

Unresolved(kind) ==
  [entry |-> Entry(kind), exit |-> Null, reason |-> "none", idx |-> 0, ambiguous |-> FALSE,
   gross |-> Null, net |-> Null, mfe |-> Null, mae |-> Null, touched |-> 0, forward |-> Null]

Row(kind) ==
  IF Entry(kind) = Null \/ Window(kind) = <<>> THEN Unresolved(kind)
  ELSE LET exit  == Exit(kind)
           gross == Gain(Entry(kind), exit.price)
       IN [entry |-> Entry(kind), exit |-> exit.price, reason |-> exit.reason, idx |-> exit.idx,
           ambiguous |-> exit.ambiguous, gross |-> gross, net |-> Net(gross),
           mfe |-> MFE(kind, exit.idx), mae |-> MAE(kind, exit.idx),
           touched |-> DayTouched(kind), forward |-> Forward(kind)]

-----------------------------------------------------------------------------
(* The harness's checks of a stored row, against the bars on file; its     *)
(* tolerances are for the rounding of the columns.                         *)

\* The bar a fill was priced from, if it can be told.
FillBars(kind) ==
  CASE kind \in {"touch_5m", "touch_30m"} ->
         IF level = Null \/ Touches = {} THEN {} ELSE {hourly[Min(Touches)]}
    [] OTHER -> {bars[i] : i \in {EntryIdx(kind)} \cap DOMAIN bars}

PreSlippage(price) == price - Sign * Slip
Inside(price, bar) == bar.low <= price /\ price <= bar.high

EntrySane(kind) ==
  rows[kind].entry # Null => \E bar \in FillBars(kind) : Inside(PreSlippage(rows[kind].entry), bar)

\* No slippage is in the exit's price.
ExitSane(kind) ==
  rows[kind].exit # Null =>
    /\ EntryIdx(kind) + rows[kind].idx \in DOMAIN bars
    /\ Inside(rows[kind].exit, bars[EntryIdx(kind) + rows[kind].idx])

ReturnIdentity(kind) ==
  rows[kind].gross = IF rows[kind].entry = Null \/ rows[kind].exit = Null THEN Null
                     ELSE Gain(rows[kind].entry, rows[kind].exit)

-----------------------------------------------------------------------------

\* A signal of the band fires on a bar that reached it.
Init ==
  /\ side \in Sides /\ policy \in Policies
  /\ level \in {Level, Null}
  /\ bars \in {<<s>> : s \in Shapes}
  /\ level # Null => AtOrWorse(Worst(bars[1]), level)
  /\ hourly \in Hourlies \cup {bars}
  /\ rows = [kind \in Kinds |-> Unresolved(kind)]

Session ==
  /\ Len(bars) < MaxBars
  /\ \E s \in Shapes : bars' = Append(bars, s)
  /\ UNCHANGED <<side, level, policy, hourly, rows>>

\* _backtest_one_ticker: the rows are written over.
Backtest ==
  /\ rows' = [kind \in Kinds |-> Row(kind)]
  /\ UNCHANGED <<side, level, policy, hourly, bars>>

Next == Session \/ Backtest

Spec == Init /\ [][Next]_vars

-----------------------------------------------------------------------------

Resolved(row) == row.reason \notin {"none", "unfinished"}

\* What a backtest has resolved no later backtest changes, however many sessions
\* have closed since: the exit, its return, the excursions and a touch. Only a
\* row that ran out of bars is written again.
ExitIsFinal ==
  \A kind \in Kinds :
    LET old == rows[kind]
        new == rows'[kind]
    IN /\ Resolved(old) => [new EXCEPT !.touched = 0] = [old EXCEPT !.touched = 0]
       /\ old.touched > 0 => new.touched = old.touched
       /\ old.entry # Null => new.entry = old.entry
       /\ old.forward # Null => new.forward = old.forward

\* No fill is better than the market was: an exit inside its bar's range, a stop
\* no better than its mark, a target no worse than its own, neither passed over
\* on an earlier bar, and the return between the excursions.
NoInventedMoney ==
  \A kind \in Kinds :
    LET row == rows[kind]
        bar == bars[EntryIdx(kind) + row.idx]
        stop == StopMark(row.entry)
    IN row.reason # "none" =>
         /\ bar.low <= row.exit /\ row.exit <= bar.high
         /\ row.reason = "stop" => AtOrWorse(row.exit, stop)
         /\ row.reason = "target" => AtOrBetter(row.exit, TargetMark(row.entry))
         /\ stop # Null =>
              /\ \A i \in 1..(row.idx - 1) : ~AtOrWorse(Worst(bars[EntryIdx(kind) + i]), stop)
              /\ row.reason # "stop" => ~AtOrWorse(bar.open, stop)
              /\ row.reason # "stop" /\ (row.reason # "target" \/ row.exit # bar.open) =>
                   ~AtOrWorse(Worst(bar), stop)
         /\ \A i \in 1..(row.idx - 1) : ~AtOrBetter(Best(bars[EntryIdx(kind) + i]), TargetMark(row.entry))
         /\ row.mae <= row.gross /\ row.gross <= row.mfe
         /\ row.touched = 0 => row.reason # "target"

\* Whatever sessions have closed since a row was written, the harness finds the bar
\* each of its prices was traded on and the return they make (_check_entry_sanity,
\* _check_exit_sanity, _check_return_identity).
HarnessPasses == \A kind \in Kinds : EntrySane(kind) /\ ExitSane(kind) /\ ReturnIdentity(kind)

\* Each leg's slippage is charged once (harness.py:290 says the exit leg's is
\* charged in return space and the entry leg's in the price).
SlippageChargedOnce ==
  \A kind \in Kinds :
    rows[kind].reason # "none" =>
      rows[kind].net = Gain(rows[kind].entry - Sign * Slip, rows[kind].exit) - 2 * Slip
=============================================================================
