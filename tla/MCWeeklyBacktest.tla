-------------------------- MODULE MCWeeklyBacktest --------------------------
EXTENDS WeeklyBacktest, TLC

\* No definition tells one ticker from another.
TickerSymmetry == Permutations(Tickers)
=============================================================================
