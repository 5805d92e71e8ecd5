-------------------------------- MODULE Paths --------------------------------
(***************************************************************************)
(* The forward path of one event and the labels taken from it: the bars    *)
(* after the signal as `path` rows (path_backfill), the extremum labels    *)
(* (peak_labels), the forward returns the nightly fills in (fwd_labels),   *)
(* the labels a backtest stores, and the gate that compares them with the  *)
(* labels of the path (path_labels, path_reconcile).                       *)
(*                                                                         *)
(* A bar is one price, 0 if it is not on file; a return is a difference.   *)
(***************************************************************************)
EXTENDS Integers, Sequences, FiniteSetsExt

CONSTANTS
  LastDay,      \* bound: days; the signal is of day 1
  Prices,
  Horizons,     \* StatsParams.fwd_ret_horizons
  MaxHold,      \* max_hold_days
  Gain,         \* the reachability target, and the profit target
  Recent,       \* RECENT_BARS_REVISION_DAYS
  PathKinds,    \* what may happen in this instance
  MaxPathKinds  \* bound: how often

PathsKinds ==
  {"late",      \* a bar is fetched on a later day
   "restate",   \* a bar is rewritten
   "kill",      \* the nightly dies between two of its steps
   "backfill",  \* cscan path backfill
   "backtest",  \* the weekly backtest, or the nightly's for this ticker
   "cosmetic"}  \* cscan backtest --cosmetic, for the events of neither universe

Null == -1000

\* Null is no return, and the path's window spans the position's (config.py: the
\* longest horizon "exceeds it on purpose").
PathsAssumption ==
  /\ PathKinds \subseteq PathsKinds /\ LastDay \in Nat \ {0} /\ {MaxPathKinds, Recent} \subseteq Nat
  /\ Horizons # {} /\ Horizons \subseteq Nat \ {0} /\ IsFiniteSet(Horizons)
  /\ MaxHold \in Nat \ {0} /\ (\E h \in Horizons : MaxHold <= h) /\ Gain \in Int
  /\ Prices \subseteq 1..1000

VARIABLES
  today,
  bars,      \* the ticker's daily bars
  kind,      \* the event's entry_kind
  scope,     \* in_trade or in_watch
  entry,     \* entry_price and entry_date, 0 if the entry is not resolved
  entryDay,
  path,      \* `path` rows by day_offset
  seen,      \* fwd_window_days, Null if there is none
  peak,      \* peak_ret_{h}d
  ret,       \* fwd_ret_{h}d
  labels,    \* the labels of the last backtest
  pathStep,  \* the nightly's next step
  edited,    \* a bar or the entry changed behind a complete window
  fresh,     \* no bar changed since the stored labels were computed, of a whole window
  rewritten, \* a bar after the signal came late or changed
  mishaps

vars == <<today, bars, kind, scope, entry, entryDay, path, seen, peak, ret, labels,
          pathStep, edited, fresh, rewritten, mishaps>>

event == <<kind, scope, entry, entryDay, labels, fresh, rewritten>>

\* _unresolved_exit: no label of a position that never resolved.
Unresolved == [held |-> Null, exit |-> Null, mfe |-> Null, when |-> Null, touched |-> Null, day |-> Null]

Happens(k) == k \in PathKinds /\ mishaps < MaxPathKinds /\ mishaps' = mishaps + 1

EntryOffset == IF kind = "next_open" THEN 1 ELSE 0
Window      == Max(Horizons) + 1   \* window_days_for_config

\* The n-th trading day is the n-th bar on file: "price history defines the calendar".
Filed(day) == {d \in day + 1 .. today : bars[d] > 0}
Rank(days, d) == Cardinality({e \in days : e <= d})
Nth(days, n) == CHOOSE d \in days : Rank(days, d) = n
After(day) == [n \in 1 .. Cardinality(Filed(day)) |-> Nth(Filed(day), n)]
Fwd        == After(1)

Init ==
  /\ today = 1 /\ bars \in [1..LastDay -> {0} \cup Prices]
  /\ \A d \in 2..LastDay : bars[d] = 0
  /\ kind \in {"touch", "next_open"} /\ scope \in BOOLEAN
  /\ entry \in (IF kind = "touch" THEN Prices ELSE {0})
  /\ bars[1] = 0 => "late" \in PathKinds /\ kind = "touch"  \* fired live, before its bar
  /\ entryDay = (IF kind = "touch" THEN 1 ELSE 0)
  /\ path = [i \in 1..Window |-> Null] /\ seen = Null
  /\ peak = [h \in Horizons |-> Null] /\ ret = peak
  /\ labels = Unresolved /\ pathStep = "done"
  /\ edited = FALSE /\ fresh = FALSE /\ rewritten = FALSE /\ mishaps = 0

-----------------------------------------------------------------------------
(* Bars.                                                                   *)

WriteBar(d, p) ==
  /\ bars' = [bars EXCEPT ![d] = p]
  /\ edited' = (edited \/ (seen = Window /\ d <= today))
  /\ fresh' = (fresh /\ d > today)
  /\ rewritten' = (rewritten \/ (1 < d /\ d <= today))

\* A session's bar lands, or it does not.
NightBars ==
  /\ pathStep = "done" /\ today < LastDay /\ today' = today + 1
  /\ \/ \E p \in Prices : WriteBar(today + 1, p) /\ UNCHANGED mishaps
     \/ Happens("late") /\ WriteBar(today + 1, 0)
  /\ pathStep' = "capture"
  /\ UNCHANGED <<kind, scope, entry, entryDay, path, seen, peak, ret, labels>>

Rewrite ==
  /\ pathStep = "done" /\ UNCHANGED today
  /\ \E d \in 1..today, p \in Prices :
       /\ bars[d] # p /\ WriteBar(d, p)
       /\ IF bars[d] = 0 THEN UNCHANGED mishaps ELSE Happens("restate")
  /\ UNCHANGED <<kind, scope, entry, entryDay, path, seen, peak, ret, labels, pathStep>>

-----------------------------------------------------------------------------
(* The path.                                                               *)

\* rows_for_event and the upsert: a row no bar stands for any more stays.
NewPath == [i \in 1..Window |-> IF i <= Len(Fwd) THEN bars[Fwd[i]] - entry ELSE path[i]]

CapturePath ==
  IF entry > 0 /\ scope /\ bars[1] > 0
  THEN path' = NewPath /\ seen' = Min({Len(Fwd), Window})
  ELSE UNCHANGED <<path, seen>>

\* run_path_capture: only windows that are not full.
Capture ==
  /\ pathStep = "capture"
  /\ IF seen < Window THEN CapturePath ELSE UNCHANGED <<path, seen>>
  /\ pathStep' = "labels"
  /\ UNCHANGED <<event, today, bars, peak, ret, edited, mishaps>>

Backfill ==
  /\ pathStep = "done" /\ Happens("backfill")
  /\ CapturePath /\ edited' = FALSE
  /\ UNCHANGED <<event, today, bars, peak, ret, pathStep>>

-----------------------------------------------------------------------------
(* The labels.                                                             *)

\* Mutant: the window opens at the signal.
RowsFromSignal(h) == {i \in 1 .. EntryOffset + h : i <= Window /\ path[i] # Null}

\* The rows of the window (entry, entry + h], and the gate of the UPDATE: all of them.
Rows(h) == {i \in EntryOffset + 1 .. EntryOffset + h : i <= Window /\ path[i] # Null}

PeakLabel(h) == IF Cardinality(Rows(h)) >= h THEN Max({path[i] : i \in Rows(h)}) ELSE Null

Labels ==
  /\ pathStep = "labels"
  /\ peak' = IF scope /\ entry > 0 /\ \E i \in 1..Window : path[i] # Null
             THEN [h \in Horizons |-> PeakLabel(h)] ELSE peak
  /\ pathStep' = "fill"
  /\ UNCHANGED <<event, today, bars, path, seen, ret, edited, mishaps>>

\* adj_close h bars after the entry bar; the two days must have their bars.
Return(day, h) ==
  IF day = 0 \/ bars[day] = 0 \/ Len(After(day)) < h THEN Null ELSE bars[After(day)[h]] - bars[day]

\* backfill_fwd_returns: only where there is no value.
Fill ==
  /\ pathStep = "fill"
  /\ ret' = IF scope THEN [h \in Horizons |-> IF ret[h] # Null THEN ret[h] ELSE Return(entryDay, h)]
            ELSE ret
  /\ pathStep' = "done"
  /\ UNCHANGED <<event, today, bars, path, seen, peak, edited, mishaps>>

Killed ==
  /\ pathStep # "done" /\ Happens("kill") /\ pathStep' = "done"
  /\ UNCHANGED <<event, today, bars, path, seen, peak, ret, edited>>

\* The first day a maximum is reached on.
PeakDay(S, at) == Min({i \in S : \A j \in S : at[j] <= at[i]})

\* path_metrics over the returns after the entry: the excursion until the exit, and
\* whether the whole window reached the target, or what there is of it.
Metrics(rs) ==
  LET reach == 1 .. Min({Len(rs), MaxHold})
      hits  == {i \in reach : rs[i] >= Gain}
      exit  == IF hits = {} THEN Max(reach) ELSE Min(hits)
      when  == PeakDay(1..exit, rs)
  IN  IF rs = <<>> THEN Unresolved
      ELSE [held |-> exit, exit |-> rs[exit], mfe |-> rs[when], when |-> when,
            touched |-> IF hits = {} THEN 0 ELSE 1, day |-> IF hits = {} THEN Null ELSE exit]

\* run_backtest: the entry again from the bars, the returns and the labels of what
\* the bars show that day.
Backtest ==
  /\ pathStep = "done" /\ bars[1] > 0 /\ Happens(IF scope THEN "backtest" ELSE "cosmetic")
  /\ LET day == IF kind = "touch" THEN 1 ELSE IF Fwd = <<>> THEN 0 ELSE Fwd[1]
         p   == IF kind = "touch" THEN entry ELSE IF day = 0 THEN 0 ELSE bars[day]
         rs  == IF p = 0 THEN <<>> ELSE [i \in 1..Len(After(day)) |-> bars[After(day)[i]] - p]
     IN  /\ entry' = p /\ entryDay' = day
         /\ ret' = [h \in Horizons |-> Return(day, h)]
         /\ labels' = Metrics(rs)
         /\ fresh' = (Len(rs) >= MaxHold)
         /\ edited' = (edited \/ (seen = Window /\ p # entry))
  /\ UNCHANGED <<today, bars, kind, scope, path, seen, peak, pathStep, rewritten>>

-----------------------------------------------------------------------------
(* The gate.                                                               *)

\* The path's rows of the days after the entry, up to the n-th.
InPath(n) == {i \in 1..n : EntryOffset + i <= Window /\ path[EntryOffset + i] # Null}
OnPath    == [i \in InPath(Window) |-> path[EntryOffset + i]]

\* derive_labels_from_path: `held` and `exit` are the event's own.
Derived ==
  LET until == InPath(labels.held)
      hits  == {i \in InPath(MaxHold) : OnPath[i] >= Gain}
      when  == PeakDay(until, OnPath)
  IN  IF labels.held = Null THEN Unresolved
      ELSE [labels EXCEPT !.mfe = IF until = {} THEN Null ELSE OnPath[when],
                          !.when = IF until = {} THEN Null ELSE when,
                          !.touched = IF hits = {} THEN 0 ELSE 1,
                          !.day = IF hits = {} THEN Null ELSE Min(hits)]

\* diff_labels: two Nulls agree.
Differ == {c \in {"mfe", "when", "touched", "day"} : Derived[c] # labels[c]}

\* assert_backfill_covers_resolved_events, and the AssertionError on a peak below
\* the return at the exit (giveback).
Uncovered     == labels.held # Null /\ seen = Null
PeakBelowExit == Derived.mfe # Null /\ Derived.mfe < labels.exit
Raises        == Uncovered \/ PeakBelowExit

Reach == {"touched", "day"}  \* _REACHABILITY_COLUMNS

\* _drop_incomplete_reach_window_rows, then _drop_recent_events.
Incomplete == {c \in Reach : Max({seen, 0}) < EntryOffset + MaxHold}
RecentOnes == {c \in Reach \cup {"mfe"} : 1 >= today - Recent}

\* A difference of these columns is printed and passes.
Explained == Reach

\* ReconciliationReport.passes, if it is empty.
Unexplained == Differ \ (Incomplete \cup RecentOnes \cup Explained)

\* cscan path reconcile: what an exit code of 0 says.
GatePasses == ~Raises /\ Unexplained = {}

Next == NightBars \/ Rewrite \/ Capture \/ Backfill \/ Labels \/ Fill \/ Killed \/ Backtest

Spec == Init /\ [][Next]_vars

-----------------------------------------------------------------------------

CaughtUp == path = NewPath /\ seen = Min({Len(Fwd), Window})

\* Captured night by night, an event's path is what a backfill would write, unless
\* a bar or the entry price changed once its window was complete (run_path_capture:
\* "byte-identical to what a full backfill would have produced").
CapturedIsBackfilled ==
  pathStep \in {"labels", "fill"} /\ scope /\ entry > 0 /\ bars[1] > 0 /\ ~edited => CaughtUp

\* A peak is of the whole window after the entry, and never of the days before it
\* (derive_labels_from_path, the reference of extremum_label_sql).
PeakIsReference ==
  pathStep = "fill" /\ scope /\ entry > 0 =>
    \A h \in Horizons :
      peak[h] # Null =>
        LET days == {EntryOffset + k : k \in 1..h}
        IN  (\A i \in days : path[i] # Null) /\ peak[h] = Max({path[i] : i \in days})

\* A stored label of a closed window and the label of the event's path agree as
\* long as no bar was rewritten in between (diff_labels, with
\* _drop_incomplete_reach_window_rows).
LabelsReconcile == fresh /\ seen >= EntryOffset + MaxHold /\ path = NewPath => Differ = {}

\* While the path of an event is caught up the gate raises nothing and passes, in
\* whatever order nights and backtests came and wherever a night died: what fails it
\* is a bar that came late or changed, and an event in neither universe, whose path
\* nobody captures (reconcile, _events_query_for_ticker).
QuietTimesPass == scope /\ ~rewritten /\ CaughtUp => GatePasses
=============================================================================
