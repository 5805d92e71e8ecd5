----------------------------- MODULE TickerTable -----------------------------
(***************************************************************************)
(* One row of `tickers` and its writers: ensure_tickers, the seed refresh, *)
(* the exchange expansion, the sector backfill, add-ticker's CIK fill and  *)
(* the coverage update of the bar fetchers. Several of them read, call a   *)
(* vendor and write later, so each of those is two steps and any writer    *)
(* may come between (the chain, a hand-started command, add-ticker).       *)
(* Left out: name and industry (written like sector, by the refresh only). *)
(***************************************************************************)
EXTENDS Integers, FiniteSets, FiniteSetsExt, TLC

CONSTANTS
  LastBar,    \* bound: bars are of days 1..LastBar
  MaxWrites   \* bound: how many times the writers run

TickerAssumption == LastBar \in Nat \ {0} /\ MaxWrites \in Nat

Nothing == "null"
Absent  == [absent |-> TRUE]
Bars    == 1..LastBar

VARIABLES
  row,          \* Absent, or the row: exchange, sector, cik, first, last
  bars,         \* the days with a daily bar on file
  constituent,  \* the ticker is in Wikipedia's current S&P 500 table
  listed,       \* the SEC ticker map holds it
  pending,      \* the write each two-step writer has prepared
  writes        \* writers started so far

vars == <<row, bars, constituent, listed, pending, writes>>

Known(value) == value # Nothing
OnFile == row # Absent

Stub == [exchange |-> Nothing, sector |-> Nothing, cik |-> Nothing, first |-> 0, last |-> 0]

\* The vocabularies a sector may come from; the screener's own is never stored.
Canonical(sector) == sector \in {"wikipedia", "yahoo"}

CikNow == IF listed THEN "cik" ELSE Nothing

-----------------------------------------------------------------------------

Init ==
  /\ row = Absent /\ bars = {}
  /\ constituent \in BOOLEAN /\ listed \in BOOLEAN
  /\ pending = [expand |-> {}, sector |-> {}, coverage |-> {}]
  /\ writes = 0

\* The outside world: the ticker joins or leaves the index.
Index ==
  /\ constituent' = ~constituent
  /\ UNCHANGED <<row, bars, listed, pending, writes>>

Starts(writer) == pending[writer] = {} /\ writes < MaxWrites /\ writes' = writes + 1

\* ensure_tickers: insert-only.
Ensure ==
  /\ writes < MaxWrites /\ writes' = writes + 1
  /\ row' = IF OnFile THEN row ELSE Stub
  /\ UNCHANGED <<bars, constituent, listed, pending>>

\* Mutant: the upsert of every column the dicts do not carry.
RefreshedWhole(old) ==
  [Stub EXCEPT !.sector = "wikipedia", !.cik = CikNow]

\* run_tickers_refresh: only REFRESH_COLUMNS of a row already on file.
Refreshed(old) ==
  [old EXCEPT !.sector = "wikipedia", !.cik = CikNow]

Refresh ==
  /\ writes < MaxWrites /\ writes' = writes + 1
  /\ constituent
  /\ row' = Refreshed(IF OnFile THEN row ELSE Stub)
  /\ UNCHANGED <<bars, constituent, listed, pending>>

\* run_exchange_expansion: read which symbols are on file, then insert the
\* others ON CONFLICT DO NOTHING. Sector stays NULL.
ExpandRead ==
  /\ Starts("expand")
  /\ pending' = [pending EXCEPT !.expand =
                   IF OnFile THEN {} ELSE {[Stub EXCEPT !.exchange = "NYSE", !.cik = CikNow]}]
  /\ UNCHANGED <<row, bars, constituent, listed>>

ExpandInsert ==
  /\ \E new \in pending.expand : row' = IF OnFile THEN row ELSE new
  /\ pending' = [pending EXCEPT !.expand = {}]
  /\ UNCHANGED <<bars, constituent, listed, writes>>

\* run_sector_backfill: a row whose sector is not GICS is looked up again at
\* Yahoo, which may not know it. Nothing is guessed.
SectorRead ==
  /\ Starts("sector") /\ OnFile /\ ~Canonical(row.sector)
  /\ \E found \in BOOLEAN :
       pending' = [pending EXCEPT !.sector = IF found THEN {"yahoo"} ELSE {}]
  /\ UNCHANGED <<row, bars, constituent, listed>>

SectorWrite ==
  /\ \E sector \in pending.sector : row' = [row EXCEPT !.sector = sector]
  /\ pending' = [pending EXCEPT !.sector = {}]
  /\ UNCHANGED <<bars, constituent, listed, writes>>

\* _fill_missing_cik, under WHERE cik IS NULL.
FillCik ==
  /\ writes < MaxWrites /\ writes' = writes + 1
  /\ OnFile /\ listed
  /\ row' = IF Known(row.cik) THEN row ELSE [row EXCEPT !.cik = CikNow]
  /\ UNCHANGED <<bars, constituent, listed, pending>>

\* A bar fetcher upserts a window of bars and then widens the coverage, in two
\* transactions. The foreign key wants the ticker row first.
StoreBars ==
  /\ Starts("coverage") /\ OnFile
  /\ \E from, to \in Bars :
       /\ from <= to
       /\ bars' = bars \cup (from..to)
       /\ pending' = [pending EXCEPT !.coverage = from..to]
  /\ UNCHANGED <<row, constituent, listed>>

\* _update_ticker_coverage: LEAST and GREATEST over what is on file.
Covered(r, batch) ==
  [r EXCEPT !.first = IF @ = 0 THEN Min(batch) ELSE Min({@, Min(batch)}),
            !.last  = Max({@, Max(batch)})]

CoverBars ==
  /\ pending.coverage # {}
  /\ row' = Covered(row, pending.coverage)
  /\ pending' = [pending EXCEPT !.coverage = {}]
  /\ UNCHANGED <<bars, constituent, listed, writes>>

Next ==
  \/ Index \/ Ensure \/ Refresh \/ ExpandRead \/ ExpandInsert
  \/ SectorRead \/ SectorWrite \/ FillCik \/ StoreBars \/ CoverBars

Spec == Init /\ [][Next]_vars

-----------------------------------------------------------------------------

\* What one writer has resolved no other writer takes away, in any order of
\* their reads and writes: the exchange of an expansion, a resolved sector, a
\* CIK the SEC map still holds, and the span of the bars.
ResolvedSurvives ==
  OnFile =>
    /\ row' # Absent
    /\ Known(row.exchange) => row'.exchange = row.exchange
    /\ Canonical(row.sector) => Canonical(row'.sector)
    /\ (Known(row.cik) /\ listed) => row'.cik = row.cik
    /\ row.first # 0 => row'.first # 0 /\ row'.first <= row.first /\ row'.last >= row.last

\* The span on file is that of the stored bars, but for the batch in hand.
CoverageSpansBars ==
  (OnFile /\ pending.coverage = {}) =>
    IF bars = {} THEN row.first = 0 ELSE row.first = Min(bars) /\ row.last = Max(bars)
=============================================================================
