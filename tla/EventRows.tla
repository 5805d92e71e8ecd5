----------------------------- MODULE EventRows ------------------------------
(***************************************************************************)
(* The events rows of one ticker, one side and one configuration, and      *)
(* their writers: the nightly detection (jobs/compute.run_events), the     *)
(* backtest (research/backtest.run_backtest, with the clusters of          *)
(* research/candidates) run weekly over everything and nightly for the     *)
(* tickers whose next_open positions are open, and db_io.purge_bars.       *)
(*                                                                         *)
(* Days are sessions; a session may lack the ticker's bar. A row is keyed  *)
(* by its day, the most specific type detected there, and the entry kind.  *)
(* Detection writes what it detected, the backtest what became of it, and  *)
(* neither names a column of the other's in its update. Prices are left    *)
(* to module Trades: here they are there or not, and as of which bars.     *)
(***************************************************************************)
EXTENDS Integers, FiniteSets, FiniteSetsExt, Sequences

CONSTANTS
  LastDay,         \* bound: sessions
  MaxHold,         \* ExitParams.max_hold_days
  Window,          \* sessions a nightly detection looks back
  Disruptions,     \* of {"halt", "late", "revise", "fail", "purge"}
  MaxDisruptions   \* bound

Days  == 1..LastDay
Types == {"plain", "specific"}
Kinds == {"touch", "next_open"}
Jobs  == {"weekly", "resolve"}
Idle  == [upto |-> 0]
Null  == 0  \* a date column that is null

RowsAssumption ==
  /\ LastDay \in Nat \ {0} /\ MaxHold \in Nat \ {0} /\ Window \in Nat \ {0}
  /\ MaxDisruptions \in Nat

VARIABLES
  today,       \* the last session closed
  bars,        \* the days whose bar is on file
  detected,    \* the type the indicators of each day call for, or "none"
  rows,        \* the events table: keys to rows
  job,         \* the backtests under way: what each has read
  night,       \* where the nightly chain is
  disruptions, \* how many so far
  stale,       \* a bar or a detection changed since the last backtest
  crossed,     \* one changed between a backtest's reading and its writing, or
               \* another backtest wrote in between (weekly and nightly share no lock)
  lagged       \* a session closed with the weekly backtest under way

vars == <<today, bars, detected, rows, job, night, disruptions, stale, crossed, lagged>>

Key(d, type, kind) == <<d, type, kind>>

\* upsert: a row of the same key is replaced, the others stay.
Upsert(new, old) ==
  [k \in DOMAIN new \cup DOMAIN old |-> IF k \in DOMAIN new THEN new[k] ELSE old[k]]

-----------------------------------------------------------------------------
(* The rules, over the bars a backtest has read.                           *)

\* _trading_bars_between.
BarsBetween(on, from, to) == Cardinality({d \in on : from < d /\ d <= to})

\* tag_clusters: the head each signal's day belongs to, from the first day on.
Heads(on, signals) ==
  LET head[d \in 0..LastDay] ==
        IF d = 0 THEN Null
        ELSE IF d \notin signals THEN head[d - 1]
        ELSE IF head[d - 1] # Null /\ BarsBetween(on, head[d - 1], d) <= MaxHold
               THEN head[d - 1] ELSE d
  IN [d \in signals |-> head[d]]

\* resolve_entries: the day a kind fills on, if it has come.
EntryDay(on, d, kind) ==
  IF kind = "touch" THEN d
  ELSE LET after == {e \in on : e > d} IN IF after = {} THEN Null ELSE Min(after)

\* The bars a position is held through, MaxHold of them at most.
Held(on, entry) == {e \in on : e > entry /\ BarsBetween(on, entry, e) <= MaxHold}

\* _backtest_one_ticker: the backtest's columns of one row.
Outcome(on, d, kind, head) ==
  LET entry == EntryDay(on, d, kind)
      held  == IF entry = Null THEN {} ELSE Held(on, entry)
  IN [entry  |-> entry, priced |-> entry # Null,
      exit   |-> IF held = {} THEN Null ELSE Max(held),
      reason |-> IF held = {} THEN "none"
                 ELSE IF Cardinality(held) = MaxHold THEN "timeout" ELSE "unfinished",
      return |-> held # {}, head |-> head]

\* A row of a detection nothing has priced.
Fresh == [entry |-> Null, priced |-> FALSE, exit |-> Null, reason |-> "none",
          return |-> FALSE, head |-> Null]

-----------------------------------------------------------------------------

Init ==
  /\ today = 0 /\ bars = {} /\ detected = [d \in Days |-> "none"]
  /\ rows = <<>>
  /\ job = [j \in Jobs |-> Idle]
  /\ night = "idle" /\ disruptions = 0 /\ stale = FALSE /\ crossed = FALSE /\ lagged = FALSE

Disturb(kind) ==
  /\ kind \in Disruptions /\ disruptions < MaxDisruptions
  /\ disruptions' = disruptions + 1

\* Something a backtest reads has changed.
Disturbs ==
  /\ stale' = TRUE
  /\ crossed' = (crossed \/ \E j \in Jobs : job[j] # Idle)

\* A session closes and the nightly chain stores its bar and its indicators.
Close ==
  /\ today < LastDay /\ night = "idle"
  /\ today' = today + 1
  /\ \/ /\ bars' = bars \cup {today'}
        /\ \E type \in {"plain", "none"} : detected' = [detected EXCEPT ![today'] = type]
        /\ UNCHANGED disruptions
     \/ /\ Disturb("halt") /\ UNCHANGED <<bars, detected>>
  /\ night' = "events"
  /\ lagged' = (lagged \/ job["weekly"] # Idle)
  /\ UNCHANGED <<rows, job, stale, crossed>>

\* _RUN_EVENTS_UPDATE_COLUMNS: of the columns followed here, none.
Updated(old) == old

\* run_events over the nightly window, touch rows only.
DetectEvents ==
  /\ night = "events"
  /\ LET keys == {Key(d, detected[d], "touch") :
                    d \in {e \in bars : e > today - Window /\ detected[e] # "none"}}
     IN rows' = Upsert([k \in keys |-> IF k \in DOMAIN rows THEN Updated(rows[k]) ELSE Fresh], rows)
  /\ night' = "resolve"
  /\ UNCHANGED <<today, bars, detected, job, disruptions, stale, crossed, lagged>>

\* The oldest of the last MaxHold + 1 sessions.
Oldest == Max({1, today - MaxHold})

\* _tickers_with_open_next_open: is the ticker taken up tonight?
HasOpenNextOpen ==
  today > MaxHold /\
  \E k \in DOMAIN rows :
    /\ k[3] = "next_open" /\ rows[k].entry # Null /\ rows[k].exit = Null
    /\ rows[k].entry <= Oldest

Snapshot == [upto |-> today, bars |-> bars, detected |-> detected]

\* The backtest reads everything of the ticker: weekly, or for tonight's.
Read(j) ==
  /\ job[j] = Idle /\ bars # {}
  /\ IF j = "resolve" THEN night = "resolve" /\ HasOpenNextOpen
     ELSE night = "idle"
  /\ job' = [job EXCEPT ![j] = Snapshot]
  /\ night' = IF j = "resolve" THEN "writing" ELSE night
  /\ UNCHANGED <<today, bars, detected, rows, disruptions, stale, crossed, lagged>>

\* run_backtest: every signal of the snapshot, in every entry kind.
Written(s) ==
  LET signals == {d \in s.bars : s.detected[d] # "none"}
      heads   == Heads(s.bars, signals)
  IN [k \in {Key(d, s.detected[d], kind) : d \in signals, kind \in Kinds} |->
        Outcome(s.bars, k[1], k[3], heads[k[1]])]

Write(j) ==
  /\ job[j] # Idle
  /\ rows' = Upsert(Written(job[j]), rows)
  /\ job' = [job EXCEPT ![j] = Idle]
  /\ night' = IF j = "resolve" THEN "done" ELSE night
  /\ stale' = (stale /\ <<job[j].bars, job[j].detected>> # <<bars, detected>>)
  /\ crossed' = (crossed \/ \E i \in Jobs \ {j} : job[i] # Idle)
  /\ UNCHANGED <<today, bars, detected, disruptions, lagged>>

\* Nobody holds an open next_open position.
NothingToResolve ==
  /\ night = "resolve" /\ ~HasOpenNextOpen
  /\ night' = "done"
  /\ UNCHANGED <<today, bars, detected, rows, job, disruptions, stale, crossed, lagged>>

\* The backtest raised: reported, and the chain goes on.
ResolveFails ==
  /\ night = "writing" /\ Disturb("fail")
  /\ job' = [job EXCEPT !["resolve"] = Idle]
  /\ night' = "idle"
  /\ UNCHANGED <<today, bars, detected, rows, stale, crossed, lagged>>

EndNight ==
  /\ night = "done" /\ night' = "idle"
  /\ UNCHANGED <<today, bars, detected, rows, job, disruptions, stale, crossed, lagged>>

\* A bar that was missing arrives with a later download.
LateBar ==
  /\ night = "idle" /\ Disturb("late")
  /\ \E d \in 1..today : d \notin bars /\ bars' = bars \cup {d}
  /\ Disturbs
  /\ UNCHANGED <<today, detected, rows, job, night, lagged>>

\* Stored prices are rewritten, and a day detects something else.
Revise ==
  /\ night = "idle" /\ Disturb("revise")
  /\ \E d \in bars, type \in Types \cup {"none"} :
       detected[d] # type /\ detected' = [detected EXCEPT ![d] = type]
  /\ Disturbs
  /\ UNCHANGED <<today, bars, rows, job, night, lagged>>

\* Mutant: the purge looks at the signal's day only.
PointsAtSignal(k, row, d) == k[1] = d

\* The three columns through which a row points at a bar.
PointsAt(k, row, d) == k[1] = d \/ row.entry = d \/ row.exit = d

\* purge_bars: a bar, its indicators and every row pointing at it.
Purge ==
  /\ night = "idle" /\ Disturb("purge")
  /\ \E d \in bars :
       /\ bars' = bars \ {d}
       /\ detected' = [detected EXCEPT ![d] = "none"]
       /\ rows' = [k \in {k \in DOMAIN rows : ~PointsAt(k, rows[k], d)} |-> rows[k]]
  /\ Disturbs
  /\ UNCHANGED <<today, job, night, lagged>>

-----------------------------------------------------------------------------
(* The harness.                                                            *)

\* The four entry kinds of a signal, and its types, are one head.
HeadDays(keys) == {k[1] : k \in {l \in keys : rows[l].head = l[1]}}

\* _check_non_overlap: the heads too close to the one before, or, without bars to
\* measure by, all of them.
Overlaps(keys) ==
  LET days == HeadDays(keys)
      Before(d) == {e \in days : e < d}
  IN  IF bars = {} THEN days
      ELSE {d \in days : Before(d) # {} /\ BarsBetween(bars, Max(Before(d)), d) <= MaxHold}

Next ==
  \/ Close \/ DetectEvents \/ NothingToResolve \/ ResolveFails \/ EndNight
  \/ \E j \in Jobs : Read(j) \/ Write(j)
  \/ LateBar \/ Revise \/ Purge

Spec == Init /\ [][Next]_vars

-----------------------------------------------------------------------------

\* A row with a return has the entry and the exit it is the return of, and no
\* detection takes them away again (ADR 150: "a return with no entry").
ReturnHasEntry ==
  \A k \in DOMAIN rows :
    rows[k].return => rows[k].priced /\ rows[k].entry # Null /\ rows[k].exit # Null

\* No row points at a bar that is not on file, unless a backtest had read the
\* bar before it was purged.
RowsPointAtBars ==
  ~crossed =>
    \A k \in DOMAIN rows : {k[1], rows[k].entry, rows[k].exit} \ {Null} \subseteq bars

\* The rows of the primary statistics, one position per cluster, do not overlap,
\* whichever backtests tagged them: the harness finds none of one head and the next
\* too close, and with that no two at all.
HeadsDoNotOverlap ==
  LET current == {k \in DOMAIN rows : detected[k[1]] = k[2]}
  IN  /\ ~stale /\ ~crossed => Overlaps(current) = {}
      /\ Overlaps(current) = {} =>
           \A d, e \in HeadDays(current) : d < e => BarsBetween(bars, d, e) > MaxHold

\* A purge leaves no row that points at the purged bar.
PurgeIsComplete ==
  bars \ bars' # {} =>
    \A k \in DOMAIN rows', d \in bars \ bars' :
      k[1] # d /\ rows'[k].entry # d /\ rows'[k].exit # d

\* A position whose entry was the last bar when the backtest met it is resolved
\* on the night its window is complete, by a chain that did not fail.
OpenIsResolved ==
  night = "done" /\ ~crossed /\ ~lagged =>
    \A k \in DOMAIN rows :
      /\ k[3] = "next_open" /\ detected[k[1]] = k[2]
      /\ rows[k].entry # Null /\ rows[k].entry \in bars
      /\ today - rows[k].entry >= MaxHold /\ Held(bars, rows[k].entry) # {}
      => rows[k].exit # Null

\* A next_open position is resolved within a night of its window's end
\* (cli.py:3701).
NextOpenResolvedDaily ==
  night = "done" /\ ~stale /\ ~crossed /\ ~lagged =>
    \A k \in DOMAIN rows :
      /\ k[3] = "next_open" /\ rows[k].entry # Null
      /\ Cardinality(Held(bars, rows[k].entry)) = MaxHold
      => rows[k].reason \notin {"none", "unfinished"}
=============================================================================
