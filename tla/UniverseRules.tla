---------------------------- MODULE UniverseRules -----------------------------
(***************************************************************************)
(* What run_universe makes of one ticker at a quarter's end: its market    *)
(* cap out of a share count and a close that are on two different scales,  *)
(* the median it must beat, and the verdict: trade, watch or neither.      *)
(*                                                                         *)
(* Splits halve prices and double counts, so caps, counts and closes are   *)
(* exponents of two: a product of the code is a sum here. The company is   *)
(* worth the same throughout, so that whatever else it is rated at is an   *)
(* error of scale. Left out: share drift between filings, days without a   *)
(* bar and the rows' write (module Membership has both), dollar volume,    *)
(* revenue growth (always unknown in the code).                            *)
(***************************************************************************)
EXTENDS Integers, FiniteSets, FiniteSetsExt, SequencesExt, TLC

CONSTANTS
  LastDay,      \* bound: days are 1..LastDay
  QuarterDays,  \* days in a quarter
  MaxSplits,    \* bound: splits of the ticker
  MaxFilings,   \* bound: share counts on file
  Receipt,      \* log2 of the ordinary shares behind one receipt
  Worth,        \* the market's cap
  Floor,        \* min_mcap_usd
  Ceiling,      \* max_mcap_usd of the plausibility bounds
  Own,          \* the ticker
  Active,       \* the active tickers
  SectorMates,  \* those of its sector
  MinPeers,     \* below it the sector's median is the whole universe's
  Returns       \* the returns a ticker may have

Days == 1..LastDay
Quarters == 1..(LastDay \div QuarterDays)
AsOf(q) == q * QuarterDays
Unknown == "unknown"
Ternary == {"true", "false", Unknown}
\* A depositary listing says so in its name; a mapped one is in
\* adr_ordinary_per_adr, under a name that does not.
Listings == {"ordinary", "depositary", "mapped", "fund"}
None == 99

UniverseAssumption ==
  /\ LastDay \in Nat \ {0} /\ QuarterDays \in Nat \ {0} /\ MaxSplits \in Nat /\ MaxFilings \in Nat
  /\ Receipt \in Nat /\ Worth \in Nat /\ Floor \in Nat /\ Ceiling \in Nat
  /\ SectorMates \subseteq Active /\ MinPeers \in Nat
  /\ Returns \subseteq Int \ {None}

VARIABLES
  today,
  listing,
  splits,   \* the days it split
  ledger,   \* corporate_actions: the splits on file
  applied,  \* the splits the stored closes are restated for
  filings,  \* shares_outstanding: filing day -> source
  seen,     \* the close run_universe has read and not yet priced
  row       \* the verdict just written

vars == <<today, listing, splits, ledger, applied, filings, seen, row>>

-----------------------------------------------------------------------------

After(days, d) == Cardinality({s \in days : s > d})

\* A filing counts the shares of its day, and SEC counts ordinary ones.
Count(d) ==
  Cardinality({s \in splits : s <= d})
    + IF filings[d] = "sec" /\ listing \in {"depositary", "mapped"} THEN Receipt ELSE 0

\* The stored close of a day: the market's, restated for the applied splits.
StoredClose(d) == Worth - Cardinality({s \in splits : s <= d}) - After(applied, d)

\* _latest_indicator_row: the last closed session up to the quarter's last day.
LastBar(q) == IF AsOf(q) < today THEN AsOf(q) ELSE today - 1

\* _latest_shares: filed before the quarter's last day; a depositary listing
\* takes Yahoo's count and no other.
Eligible(q) == {d \in DOMAIN filings : d < AsOf(q) /\ (listing = "depositary" => filings[d] = "yahoo")}

\* Mutant: only the splits up to the quarter's end.
SplitsUpTo(d, q) == Cardinality({s \in ledger : s > d /\ s <= AsOf(q)})

\* _split_ratios_since: all of them, past the quarter's end too.
SplitsSince(d, q) == After(ledger, d)

\* shares * close, None without a filing or beyond what a company can be worth.
Cap(q, close) ==
  LET d == Max(Eligible(q))
      cap == Count(d) - (IF listing = "mapped" THEN Receipt ELSE 0) + SplitsSince(d, q) + close
  IN IF Eligible(q) = {} \/ cap > Ceiling THEN None ELSE cap

-----------------------------------------------------------------------------

Known(returns, group) == {t \in group : returns[t] # None}

\* The median, twice, so that the mean of two stays whole.
TwiceMedian(returns, group) ==
  LET s == SortSeq(SetToSeq(Known(returns, group)), LAMBDA a, b : returns[a] < returns[b])
      mid == Len(s) \div 2
  IN IF Len(s) % 2 = 1 THEN 2 * returns[s[mid + 1]] ELSE returns[s[mid]] + returns[s[mid + 1]]

\* A sector of too few falls back to every active ticker.
Group == IF Cardinality(SectorMates) < MinPeers THEN Active ELSE SectorMates

BeatsMedian(returns, t) ==
  IF returns[t] = None \/ Known(returns, Group) = {} THEN Unknown
  ELSE IF 2 * returns[t] > TwiceMedian(returns, Group) THEN "true" ELSE "false"

AllReturns == [Active \cup {Own} -> Returns \cup {None}]

\* A ticker has a return once its history is long enough for one.
Rels == {[beats |-> BeatsMedian(r, Own), long |-> r[Own] # None] : r \in AllReturns}

-----------------------------------------------------------------------------

Criteria == {"mcap", "above", "slope", "rel"}

Trades(crit) == listing = "fund" \/ \A c \in Criteria : crit[c] = "true"

\* watch_reason: mcap and slope are never waived.
WatchReason(crit, long) ==
  IF crit.mcap # "true" \/ crit.slope # "true" THEN "no"
  ELSE IF crit.above = "true" /\ crit.rel = Unknown /\ ~long THEN "history"
  ELSE IF crit.above = "false" /\ crit.rel = "true" THEN "pullback"
  ELSE IF crit.above = "true" /\ crit.rel # "true" THEN "near_trade"
  ELSE "no"

-----------------------------------------------------------------------------

NoRow == [cap |-> None, settled |-> FALSE, crit |-> [c \in Criteria |-> Unknown],
          long |-> FALSE, trade |-> FALSE, watch |-> "no"]
Nothing == [q |-> 0, close |-> 0, settled |-> FALSE]

Init ==
  /\ today = 1 /\ listing \in Listings
  /\ splits = {} /\ ledger = {} /\ applied = {} /\ filings = <<>>
  /\ seen = Nothing /\ row = NoRow

\* A day passes: the ticker may split before the open, and a count may be
\* filed.
Day ==
  /\ today < LastDay /\ today' = today + 1
  /\ \E split \in BOOLEAN, source \in {"sec", "yahoo", "none"} :
       /\ split => Cardinality(splits) < MaxSplits
       /\ source # "none" => Cardinality(DOMAIN filings) < MaxFilings
       /\ splits' = IF split THEN splits \cup {today} ELSE splits
       /\ filings' = IF source = "none" THEN filings
                     ELSE [d \in DOMAIN filings \cup {today} |-> IF d = today THEN source ELSE filings[d]]
  /\ row' = NoRow
  /\ UNCHANGED <<listing, ledger, applied, seen>>

\* run_actions writes the ledger and restates the stored closes in two steps, and
\* the vendor's own restated history may come with the bars before either.
Record ==
  /\ \E s \in splits \ ledger : ledger' = ledger \cup {s}
  /\ seen' = [seen EXCEPT !.settled = FALSE]
  /\ row' = NoRow
  /\ UNCHANGED <<today, listing, splits, applied, filings>>

Restate ==
  /\ \E s \in splits \ applied : applied' = applied \cup {s}
  /\ seen' = [seen EXCEPT !.settled = FALSE]
  /\ row' = NoRow
  /\ UNCHANGED <<today, listing, splits, ledger, filings>>

\* run_universe reads a ticker's close in one connection ...
Look ==
  /\ seen = Nothing
  /\ \E q \in Quarters :
       /\ AsOf(q) <= today
       /\ LET d == LastBar(q)
          IN seen' = [q |-> q, close |-> StoredClose(d),
                     settled |-> ledger = applied /\ {s \in splits : s <= d} \subseteq ledger]
  /\ row' = NoRow
  /\ UNCHANGED <<today, listing, splits, ledger, applied, filings>>

\* ... and its filing, the split ledger and the returns in others.
Judge ==
  /\ seen # Nothing
  /\ \E above \in Ternary, slope \in Ternary, rel \in Rels :
       LET cap == Cap(seen.q, seen.close)
           crit == [mcap |-> IF cap = None THEN Unknown ELSE IF cap >= Floor THEN "true" ELSE "false",
                    above |-> above, slope |-> slope, rel |-> rel.beats]
           trade == Trades(crit)
       IN row' = [cap |-> cap, settled |-> seen.settled, crit |-> crit, long |-> rel.long,
                  trade |-> trade, watch |-> IF trade THEN "no" ELSE WatchReason(crit, rel.long)]
  /\ seen' = Nothing
  /\ UNCHANGED <<today, listing, splits, ledger, applied, filings>>

Next == Day \/ Record \/ Restate \/ Look \/ Judge

Spec == Init /\ [][Next]_vars

-----------------------------------------------------------------------------

TypeOK ==
  /\ today \in Days /\ listing \in Listings
  /\ applied \subseteq splits /\ ledger \subseteq splits
  /\ \A d \in DOMAIN filings : filings[d] \in {"sec", "yahoo"}
  /\ \A c \in Criteria : row.crit[c] \in Ternary

\* Whatever splits came before or after the filing and the quarter, a quarter
\* evaluated while ledger and stored closes agree on the splits so far prices the
\* company at what it is worth (split_adjusted_shares, adr_adjusted_shares).
CapDoesNotMove ==
  row.settled /\ row.cap # None /\ listing # "mapped" => row.cap = Worth

\* At most half of the tickers with a return beat their median.
HalfBeatTheMedian ==
  today = LastDay /\ splits = {} /\ filings = <<>> =>
    \A r \in AllReturns :
      2 * Cardinality({t \in Group : BeatsMedian(r, t) = "true"}) <= Cardinality(Known(r, Group))

\* No name both trades and is watched, and a watched one would trade if the one
\* criterion its reason names came true; size and slope are never that one.
WatchIsOneStepAway ==
  row.watch # "no" =>
    LET named == IF row.watch = "pullback" THEN "above" ELSE "rel"
    IN /\ ~row.trade /\ listing # "fund" /\ row.crit[named] # "true"
       /\ \A c \in Criteria \ {named} : row.crit[c] = "true"
       /\ row.watch = "history" => ~row.long

\* The same of a mapped listing. It does not hold: the map's ratio is divided out of
\* Yahoo's count of receipts too.
MappedCapDoesNotMove == row.settled /\ row.cap # None => row.cap = Worth
=============================================================================
