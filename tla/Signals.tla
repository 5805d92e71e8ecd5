------------------------------- MODULE Signals --------------------------------
(***************************************************************************)
(* What fires on one ticker in one session, decided twice: by the live     *)
(* poller from every quote (core/signals.breach_live) and, after the       *)
(* close, from the settled bar (detect), by the nightly detection          *)
(* (jobs/compute) and by the backtest (research/candidates). All reduce to *)
(* the same rules over the indicators of the session before.               *)
(*                                                                         *)
(* Prices are small numbers. %K, fast and smoothed, is a small number too, *)
(* Oversold and Overbought its thresholds. Null is a value an indicator    *)
(* does not have yet. Days are sessions: the row of the session before may *)
(* be missing, and then settled detection falls back on the one before it  *)
(* while the poller drops the ticker.                                      *)
(***************************************************************************)
EXTENDS Integers, FiniteSets, FiniteSetsExt, Sequences, TLC

CONSTANTS
  Prices,      \* the prices that occur
  Rows,        \* the indicator rows that occur: lower, upper, full, fast
  Enabled,     \* SignalParams.enabled_signal_types
  Oversold, Overbought,
  AgreeTol,    \* fast_agreement_tol
  MaxTrades    \* bound: trades of the session

Null    == -1000
Missing == [lower |-> -2000, upper |-> -2000, full |-> -2000, fast |-> -2000]
Sides   == {"long", "short"}

\* _SPECIFICITY: the types of a side, the most specific first.
Specificity ==
  [long  |-> <<"bull_close_below_lower", "confluence_low", "bb_lower_touch", "stoch_oversold">>,
   short |-> <<"bear_close_above_upper", "confluence_high", "bb_upper_touch", "stoch_overbought">>]

CloseTypes == {"bull_close_below_lower", "bear_close_above_upper"}
BandTypes  == {"bb_lower_touch", "bb_upper_touch"}

SignalsAssumption ==
  /\ Prices \subseteq Nat /\ MaxTrades \in Nat \ {0}
  /\ Oversold \in Int /\ Overbought \in Int /\ Oversold < Overbought /\ AgreeTol \in Nat
  /\ Rows \subseteq [lower : Int, upper : Int, full : Int, fast : Int]
  /\ \A side \in Sides : Len(Specificity[side]) = 4

VARIABLES
  prior,    \* the indicator row of the session before, or Missing
  older,    \* the row before that
  trades,   \* the session's trades
  quoted,   \* which of them the poller saw
  live,     \* per side, the types the poller has seen fire
  said,     \* its reports: a fire, the trade it was quoted at, the open quoted with it
  near,     \* that row is of the last ten days
  closed,   \* the session is over
  own,      \* the session's own row, or Missing
  settled,  \* per side, what the nightly detection wrote, or "unknown"
  measured  \* per side, what the backtest wrote, or "unknown"

vars == <<prior, older, near, closed, trades, quoted, live, said, own, settled, measured>>

-----------------------------------------------------------------------------
(* core/signals.                                                           *)

\* _breach.
Breached(price, level, side) ==
  level # Null /\ IF side = "long" THEN price <= level ELSE price >= level

Band(row, side) == IF side = "long" THEN row.lower ELSE row.upper

Extreme(k, side) == k # Null /\ IF side = "long" THEN k <= Oversold ELSE k >= Overbought

Apart(a, b) == IF a < b THEN b - a ELSE a - b

\* _fast_agrees: near each other, or both beyond the side's own threshold.
FastAgrees(row, side) ==
  /\ row.full # Null /\ row.fast # Null
  /\ \/ Apart(row.fast, row.full) <= AgreeTol
     \/ Extreme(row.fast, side) /\ Extreme(row.full, side)

\* stoch_source: the fast %K decides.
Stretched(row, side) == Extreme(row.fast, side)

\* _types_fired, one side.
Fired(side, price, row, confirmed) ==
  LET touch == Breached(price, Band(row, side), side)
      met == <<confirmed,
               touch /\ Stretched(row, side) /\ FastAgrees(row, side),
               touch,
               Stretched(row, side)>>
  IN {Specificity[side][i] : i \in {i \in 1..4 : met[i]}} \cap Enabled

\* breach_live: the quote against both bands, nothing about the close.
BreachLive(price, row) == [side \in Sides |-> Fired(side, price, row, FALSE)]

\* A SignalHit: the most specific type leads, and a band type carries its level.
Hit(side, types, row) ==
  IF types = {} THEN [types |-> {}, lead |-> "none", level |-> Null]
  ELSE [types |-> types,
        lead  |-> Specificity[side][Min({i \in 1..4 : Specificity[side][i] \in types})],
        level |-> IF types \cap BandTypes # {} THEN Band(row, side) ELSE Null]

-----------------------------------------------------------------------------
(* What a report says of a reversal that only the close can settle.        *)

\* is_bull_reversal, is_bear_reversal: a quote without its open has not fired.
Reverses(side, price, open, row) ==
  /\ open # Null /\ Breached(price, Band(row, side), side)
  /\ IF side = "long" THEN price > open ELSE price < open

\* bull_reversal_state, reversal_state.
ReversalState(side, price, open, row) ==
  [beyond    |-> Breached(price, Band(row, side), side),
   confirmed |-> Reverses(side, price, open, row),
   gap       |-> IF open = Null THEN Null ELSE price - open]

\* _reversal_tag.
Tag(state) ==
  CASE ~state.beyond -> "inside"
    [] state.beyond /\ state.confirmed -> "confirmed"
    [] state.beyond /\ ~state.confirmed -> IF state.gap = Null THEN "unknown" ELSE "distance"

-----------------------------------------------------------------------------
(* The settled bar.                                                        *)

Opening == trades[1]
Closing == trades[Len(trades)]
Traded   == {trades[i] : i \in DOMAIN trades}

\* core/indicators: close-confirmed conditions against the session's own band.
Confirmed(side) ==
  IF own = Missing THEN FALSE
  ELSE IF side = "long" THEN Closing > Opening /\ Breached(Closing, own.lower, "long")
  ELSE Closing < Opening /\ Breached(Closing, own.upper, "short")

\* Mutant: the latest row, the session's own included.
LatestWithOwn == IF own # Missing THEN own ELSE IF prior = Missing THEN older ELSE prior

\* The latest row strictly before the session, whatever session it is of.
Latest == IF prior = Missing THEN older ELSE prior

Complete(row) == row.lower # Null /\ row.upper # Null /\ row.full # Null

NoHits == [side \in Sides |-> Hit(side, {}, older)]

\* detect on the bar's extremes.
Detect(row) ==
  [side \in Sides |->
     Hit(side, Fired(side, IF side = "long" THEN Min(Traded) ELSE Max(Traded), row, Confirmed(side)), row)]

Skipping(row) == IF Complete(row) THEN Detect(row) ELSE NoHits

\* scan_candidates: over the whole history; a null indicator is a reject.
Measured == Skipping(Latest)

\* _events_for_ticker: over rows of the last ten days.
Settled == IF prior = Missing /\ ~near THEN NoHits ELSE Skipping(Latest)

-----------------------------------------------------------------------------

Unknown == [side \in Sides |-> [types |-> {}, lead |-> "unknown", level |-> Null]]

Init ==
  /\ prior \in Rows \cup {Missing} /\ older \in Rows /\ near \in BOOLEAN
  /\ trades = <<>> /\ quoted = {} /\ closed = FALSE /\ own = Missing
  /\ live = [side \in Sides |-> {}] /\ said = {}
  /\ settled = Unknown /\ measured = Unknown

\* The poller quotes members only, which have had bands for a year, and drops a
\* ticker whose row is not the session before's (drop_stale_indicator_rows).
Polled == prior # Missing /\ Complete(prior)

\* A fire is reported once a session, with what its quote said.
Reports(price, open) ==
  {[side |-> side, lead |-> Hit(side, BreachLive(price, prior)[side], prior).lead,
    at |-> Len(trades) + 1, open |-> open] : side \in {x \in Sides : BreachLive(price, prior)[x] # {}}}

\* A trade, quoted with the open or without, or missed between two ticks.
Trade ==
  /\ ~closed /\ Len(trades) < MaxTrades
  /\ \E price \in Prices :
       /\ trades' = Append(trades, price)
       /\ \/ UNCHANGED <<quoted, live, said>>
          \/ /\ Polled
             /\ quoted' = quoted \cup {price}
             /\ live' = [side \in Sides |-> live[side] \cup BreachLive(price, prior)[side]]
             /\ \E open \in {trades'[1], Null} :
                  said' = said \cup {r \in Reports(price, open) : \A old \in said : old.lead # r.lead}
  /\ UNCHANGED <<prior, older, near, closed, own, settled, measured>>

\* The session ends, and run_indicators writes its own row or fails to.
Close ==
  /\ ~closed /\ trades # <<>>
  /\ closed' = TRUE
  /\ own' \in {row \in Rows : Complete(row)} \cup {Missing}
  /\ UNCHANGED <<prior, older, near, trades, quoted, live, said, settled, measured>>

\* run_events.
Nightly ==
  /\ closed /\ settled = Unknown
  /\ settled' = Settled
  /\ UNCHANGED <<prior, older, near, trades, quoted, live, said, closed, own, measured>>

\* run_backtest, before or after.
Backtest ==
  /\ closed /\ measured = Unknown
  /\ measured' = Measured
  /\ UNCHANGED <<prior, older, near, trades, quoted, live, said, closed, own, settled>>

Next == Trade \/ Close \/ Nightly \/ Backtest

Spec == Init /\ [][Next]_vars

-----------------------------------------------------------------------------

Rank(side, type) == Min({i \in 1..4 : Specificity[side][i] = type})

\* What the poller announced is what either detection finds on the settled bar:
\* the same side, no type the bar does not have, a lead no less specific, and
\* when the poller saw the extremes, nothing new but what only the close could
\* tell (ADR 006).
LiveFiresSettle ==
  \A hits \in {settled, measured} \ {Unknown}, side \in Sides :
    /\ live[side] \subseteq hits[side].types
    /\ live[side] # {} =>
         Rank(side, hits[side].lead) <= Min({Rank(side, t) : t \in live[side]})
    /\ Polled /\ {Min(Traded), Max(Traded)} \subseteq quoted =>
         hits[side].types \ CloseTypes = live[side]

\* A short confluence is never reported as back inside its band, for one quote fired
\* it and placed it. A reversal called at the closing quote is the one the close
\* confirms, and the settled event's leading type if that type is enabled, unless the
\* session's own band and the one before it judge the close differently
\* (is_bear_reversal, _reversal_tag, ADR 109).
CallsAreHonest ==
  \A r \in said :
    LET call == ReversalState(r.side, trades[r.at], r.open, prior)
    IN  /\ r.lead = "confluence_high" => Tag(call) # "inside"
        /\ /\ closed /\ r.at = Len(trades) /\ r.open # Null /\ own # Missing
           /\ Breached(Closing, Band(own, r.side), r.side) = call.beyond
           => /\ call.confirmed = Confirmed(r.side)
              /\ \A hits \in {settled, measured} \ {Unknown} :
                   call.confirmed /\ Specificity[r.side][1] \in Enabled
                     <=> hits[r.side].lead \in CloseTypes

\* Nothing nightly detection finds is missing from the backtest's rows; the other
\* way round, only what an older row than ten days decided.
DetectorsAgree ==
  settled # Unknown /\ measured # Unknown =>
    \/ settled = measured
    \/ prior = Missing /\ ~near /\ settled = NoHits
=============================================================================
