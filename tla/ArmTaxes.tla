------------------------------ MODULE ArmTaxes -------------------------------
(***************************************************************************)
(* What the arms' trades owe (core/arms tax_summary and wash_sale_flags,   *)
(* research/benchmarks _tax_row), for the trades of one ticker, booked one *)
(* after the other. A rate is a whole number of shares of the gain.        *)
(***************************************************************************)
EXTENDS Integers, Sequences, FiniteSets, FiniteSetsExt, Folds

CONSTANTS
  LastDay,     \* bound: days
  YearDays,    \* days of a tax year
  Window,      \* wash_sale_window_days
  LongDays,    \* long_term_holding_days
  ShortRate, LongRate,
  Pnls,        \* the results of a trade that occur
  Core,        \* the core book's purchase days that occur
  MaxTrades    \* bound

ArmTaxesAssumption ==
  /\ {LastDay, YearDays, Window, LongDays, ShortRate, LongRate, MaxTrades} \subseteq Nat
  /\ YearDays > 0 /\ LongRate <= ShortRate

VARIABLES
  core,    \* purchases of the core position
  trades   \* the arm's trades: entry, exit and pnl

vars == <<core, trades>>

-----------------------------------------------------------------------------

Years     == 0..(LastDay \div YearDays)
YearOf(d) == d \div YearDays

\* _tax_row: the core's purchases and the arm's own entries.
Purchases(ts) == core \cup {ts[i].entry : i \in DOMAIN ts}

\* A loss with a purchase around it that is not the trade's own entry.
Flagged(ts, i) ==
  /\ ts[i].pnl < 0
  /\ \E d \in Purchases(ts) : d \in ts[i].exit - Window .. ts[i].exit + Window /\ d # ts[i].entry

IsLong(t) == t.exit - t.entry > LongDays

\* gains, allowed and deferred: the sum over a year's trades of one character.
Total(ts, keep(_)) == FoldFunctionOnSet(+, 0, [i \in DOMAIN ts |-> ts[i].pnl], {i \in DOMAIN ts : keep(i)})

Gains(ts, y, long) ==
  Total(ts, LAMBDA i : ts[i].pnl > 0 /\ YearOf(ts[i].exit) = y /\ IsLong(ts[i]) = long)

Allowed(ts, y, long) ==
  -Total(ts, LAMBDA i : /\ ts[i].pnl < 0 /\ ~Flagged(ts, i)
                        /\ YearOf(ts[i].exit) = y /\ IsLong(ts[i]) = long)

Deferred(ts, y, long) ==
  -Total(ts, LAMBDA i : Flagged(ts, i) /\ YearOf(ts[i].exit) = y /\ IsLong(ts[i]) = long)

\* Years in which a trade with a result ended; a deferred loss goes to the next
\* of them, and no further.
Booked(ts) == {YearOf(ts[i].exit) : i \in {j \in DOMAIN ts : ts[j].pnl # 0}}

Carried(ts, y, long) ==
  LET earlier == {x \in Booked(ts) : x < y}
  IN  IF earlier = {} THEN 0 ELSE Deferred(ts, Max(earlier), long)

Net(ts, y, long) == Gains(ts, y, long) - Allowed(ts, y, long) - Carried(ts, y, long)

\* _net_tax
NetTax(short, long) ==
  IF short > 0 /\ long > 0 THEN short * ShortRate + long * LongRate
  ELSE IF short + long <= 0 THEN 0
  ELSE (short + long) * IF short > 0 THEN ShortRate ELSE LongRate

Tax(ts) == MapThenSumSet(LAMBDA y : NetTax(Net(ts, y, FALSE), Net(ts, y, TRUE)), Booked(ts))

-----------------------------------------------------------------------------

Init == core \in Core /\ trades = <<>>

Close ==
  /\ Len(trades) < MaxTrades
  /\ \E entry \in 0..LastDay, exit \in 0..LastDay, pnl \in Pnls :
       /\ entry <= exit /\ (trades # <<>> => trades[Len(trades)].exit <= exit)
       /\ trades' = Append(trades, [entry |-> entry, exit |-> exit, pnl |-> pnl])
  /\ UNCHANGED core

Next == Close

Spec == Init /\ [][Next]_vars

-----------------------------------------------------------------------------

SameFlags(ts, us) == \A i \in DOMAIN ts : Flagged(ts, i) = Flagged(us, i)

\* A further loss never raises the bill and a further gain never lowers it, in
\* any mix of years, characters and deferrals, unless the trade's entry makes a
\* wash sale of an earlier one, or moves a deferred loss to its own year.
TaxIsMonotone ==
  LET last == trades'[Len(trades')]
  IN  /\ SameFlags(trades, trades') /\ ~Flagged(trades', Len(trades'))
      /\ Booked(trades') = Booked(trades)
      => IF last.pnl < 0 THEN Tax(trades') <= Tax(trades) ELSE Tax(trades') >= Tax(trades)

\* The bill is never more than the gains alone would owe: no loss costs tax.
LossesCostNothing ==
  Tax(trades) <= MapThenSumSet(LAMBDA y : ShortRate * Gains(trades, y, FALSE)
                                          + LongRate * Gains(trades, y, TRUE), Years)

\* Not so: a flagged loss would be a cost against the same loss unflagged.
DeferralIsACost ==
  Tax(trades) >= MapThenSumSet(
    LAMBDA y : NetTax(Gains(trades, y, FALSE) - Allowed(trades, y, FALSE) - Deferred(trades, y, FALSE),
                      Gains(trades, y, TRUE) - Allowed(trades, y, TRUE) - Deferred(trades, y, TRUE)),
    Booked(trades))
=============================================================================
