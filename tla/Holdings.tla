------------------------------ MODULE Holdings -------------------------------
(***************************************************************************)
(* The share book behind the buy-and-hold and the trim arms (core/arms     *)
(* simulate_holdings, fed by research/benchmarks): both arms run the same  *)
(* book over the same days, the second with the trim overlay switched on.  *)
(*                                                                         *)
(* Amounts are whole: a book starts with Capital, a multiple of every      *)
(* power of two the bounds can ask for, prices are powers of two, a trim   *)
(* sells one half, and the risk-free rate pays Rf on every unit of cash.   *)
(***************************************************************************)
EXTENDS Integers, FiniteSets, FiniteSetsExt, Functions

CONSTANTS
  Tickers,
  PriceDays,    \* the price vectors that occur: a price, or NoPrice, by ticker
  Quarters,     \* the sets of in_trade tickers that occur in `universe`
  Capital,      \* what an arm starts with
  Rf,           \* daily_risk_free
  LastDay,      \* bound: trading days of the window
  MaxSignals    \* bound: days with a trim or redeploy signal

NoPrice == 0   \* NaN: no bar that day
NoDay   == -1  \* not in first_trim

HoldingsAssumption ==
  /\ \A p \in PriceDays : DOMAIN p = Tickers /\ \A t \in Tickers : p[t] >= NoPrice
  /\ \A q \in Quarters : q \subseteq Tickers /\ q # {}
  /\ LastDay \in Nat /\ Capital \in Nat /\ Rf \in Nat

VARIABLES
  day,        \* the last day simulated
  members,    \* who is held during it
  prices,     \* the prices of that day
  hold, trim, \* the two books
  signalled   \* days with signals so far

vars == <<day, members, prices, hold, trim, signalled>>

-----------------------------------------------------------------------------
(* A book: shares, cash, how often a name's slot was halved, last_price,   *)
(* first_trim, the open stints' entry day and pnl, the money of no name,   *)
(* the pnl of closed stints, and the interest paid (not kept by the code). *)

None(value) == [t \in Tickers |-> value]

Empty ==
  [held |-> {}, shares |-> None(0), cash |-> None(0), trims |-> None(0), last |-> None(NoPrice),
   first |-> None(NoDay), entry |-> None(NoDay), pnl |-> None(0), free |-> Capital,
   closed |-> 0, interest |-> 0, n_trims |-> 0, n_round_trips |-> 0, exact |-> TRUE]

Invested(b) == MapThenSumSet(LAMBDA t : b.shares[t] * b.last[t], b.held)
Cash(b)     == MapThenSumSet(LAMBDA t : b.cash[t], b.held) + b.free
Equity(b)   == Invested(b) + Cash(b)

Accrued(b) ==
  [b EXCEPT !.free = (1 + Rf) * @, !.cash = [t \in Tickers |-> (1 + Rf) * @[t]],
            !.interest = @ + Rf * Cash(b)]

\* Only a member's price is taken down.
Seen(b, ms, p) ==
  [b EXCEPT !.last = [t \in Tickers |-> IF t \in ms /\ p[t] # NoPrice THEN p[t] ELSE @[t]]]

\* The move of the day, for names that printed yesterday and today. `exact`
\* notes a day on which the book and this attribution cannot agree: a held name
\* misses a price, or is no longer a member and printed another one.
Attributed(b, ms, p) ==
  LET moves == {t \in b.held : b.shares[t] > 0 /\ p[t] # NoPrice /\ prices[t] # NoPrice}
  IN  [b EXCEPT
         !.pnl = [t \in Tickers |-> IF t \in moves THEN @[t] + b.shares[t] * (p[t] - prices[t])
                                                   ELSE @[t]],
         !.exact = @ /\ \A t \in b.held : /\ p[t] # NoPrice /\ prices[t] # NoPrice
                                          /\ t \in ms \/ p[t] = prices[t]]

\* Names that are no member are sold, and the whole book is spread evenly over
\* the members that ever printed a price. A slot keeps its trimmed share.
Booked(b) == Equity(b)

Rebalanced(b, ms, d) ==
  LET current == {t \in ms : b.last[t] # NoPrice}
      leaving == b.held \ current
      slot    == IF current = {} THEN 0 ELSE Booked(b) \div Cardinality(current)
      trims   == [t \in Tickers |-> IF t \in leaving THEN 0 ELSE b.trims[t]]
      share   == [t \in Tickers |-> IF t \in current THEN slot \div 2 ^ trims[t] ELSE 0]
  IN  [b EXCEPT
         !.closed = @ + MapThenSumSet(LAMBDA t : b.pnl[t], leaving),
         !.pnl    = [t \in Tickers |-> IF t \in leaving THEN 0 ELSE @[t]],
         !.entry  = [t \in Tickers |-> IF t \in leaving THEN NoDay
                                       ELSE IF t \in current /\ @[t] = NoDay THEN d ELSE @[t]],
         !.first  = [t \in Tickers |-> IF t \in leaving THEN NoDay ELSE @[t]],
         !.trims  = trims,
         !.held   = current,
         !.shares = [t \in Tickers |-> IF t \in current THEN share[t] \div b.last[t] ELSE 0],
         !.cash   = [t \in Tickers |-> IF t \in current THEN slot - share[t] ELSE 0],
         !.free   = IF current = {} THEN Booked(b) ELSE 0]

\* Mutant: nothing resets held_frac when cash comes back into the shares.
RedeployKeepingFraction(b, t, p, d) ==
  IF b.cash[t] <= 0 THEN b
  ELSE [b EXCEPT !.shares[t] = @ + b.cash[t] \div p[t], !.cash[t] = 0,
                 !.first[t] = NoDay,
                 !.n_round_trips = IF b.first[t] # NoDay THEN @ + 1 ELSE @]

Redeploy(b, t, p, d) ==
  IF b.cash[t] <= 0 THEN b
  ELSE [b EXCEPT !.shares[t] = @ + b.cash[t] \div p[t], !.cash[t] = 0, !.trims[t] = 0,
                 !.first[t] = NoDay,
                 !.n_round_trips = IF b.first[t] # NoDay THEN @ + 1 ELSE @]

Sell(b, t, p, d) ==
  IF b.shares[t] <= 0 THEN b
  ELSE [b EXCEPT !.shares[t] = @ \div 2, !.cash[t] = @ + (b.shares[t] \div 2) * p[t],
                 !.trims[t] = @ + 1, !.n_trims = @ + 1,
                 !.first[t] = IF @ = NoDay THEN d ELSE @]

\* The day's signals of one name, in the order of their names.
Overlaid(b, t, kinds, p, d) ==
  LET redeployed == IF "redeploy" \in kinds THEN Redeploy(b, t, p, d) ELSE b
  IN  IF t \notin b.held \/ p[t] = NoPrice THEN b
      ELSE IF "trim" \in kinds THEN Sell(redeployed, t, p, d) ELSE redeployed

\* One day of simulate_holdings.
Simulated(b, ms, p, signals, d) ==
  LET accrued == IF d > 0 THEN Seen(Accrued(b), ms, p) ELSE Seen(b, ms, p)
      priced  == IF d > 0 THEN Attributed(accrued, ms, p) ELSE accrued
      settled == IF d = 0 \/ ms # members THEN Rebalanced(priced, ms, d) ELSE priced
  IN  MapThenFoldSet(LAMBDA t, acc : Overlaid(acc, t, signals[t], p, d),
                     settled, LAMBDA t : t, LAMBDA S : CHOOSE t \in S : TRUE, Tickers)

-----------------------------------------------------------------------------

Init ==
  /\ day = -1 /\ members = {} /\ prices = None(NoPrice) /\ signalled = 0
  /\ hold = Empty /\ trim = Empty

\* load_window forward-fills the universe, and opens on its first day.
Universe(d) == IF d = 0 THEN Quarters ELSE Quarters \cup {members}

\* Events of the trade universe, of a day with a bar.
SignalDays(ms, p) ==
  {s \in [Tickers -> SUBSET {"trim", "redeploy"}] :
     \A t \in Tickers : s[t] # {} => t \in ms /\ p[t] # NoPrice}

Trade(ms, p, signals) ==
  /\ day < LastDay
  /\ \E t \in Tickers : p[t] # NoPrice  \* the calendar holds days with bars
  /\ hold' = Simulated(hold, ms, p, None({}), day + 1)
  /\ trim' = Simulated(trim, ms, p, signals, day + 1)
  /\ signalled' = signalled + (IF signals = None({}) THEN 0 ELSE 1)
  /\ signalled' <= MaxSignals
  /\ members' = ms /\ prices' = p /\ day' = day + 1

Next ==
  \E p \in PriceDays, ms \in Universe(day + 1) : \E signals \in SignalDays(ms, p) :
    Trade(ms, p, signals)

Spec == Init /\ [][Next]_vars

-----------------------------------------------------------------------------

\* The pnl of a book's stints, open and closed, is what its curve gained beyond
\* the interest.
Attribution(b) ==
  b.closed + MapThenSumSet(LAMBDA t : b.pnl[t], b.held) + b.interest = Equity(b) - Capital

\* Rebalancing, trimming and redeploying move money and make none: on days with a
\* price for every name held, and none sold at another price than its last, every
\* gain of the curve belongs to some stint (_close_stint, the tax pass).
StintsAddUp == \A b \in {hold, trim} : b.exact => Attribution(b)

\* What simulate_holdings does not promise but its buy-and-hold test asserts:
\* the same, whatever is missing from the prices.
StintsSumToCurve == Attribution(hold)

\* The trim arm holds the names of buy-and-hold, entered the same day, and a slot
\* is partly in cash exactly while a trim of it is outstanding: a redeploy closes
\* all trims at once, and a rebalance undoes none of them (simulate_trim).
OverlayOnly ==
  /\ trim.held = hold.held /\ trim.entry = hold.entry
  /\ \A t \in Tickers :
       /\ trim.trims[t] > 0 <=> trim.cash[t] > 0
       /\ trim.trims[t] > 0 <=> trim.first[t] # NoDay
  /\ trim.n_round_trips + Cardinality({t \in Tickers : trim.first[t] # NoDay}) <= trim.n_trims
  /\ (\A t \in Tickers : hold.cash[t] = 0) /\ hold.held # {} => hold.free = 0
=============================================================================
