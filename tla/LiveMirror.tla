----------------------------- MODULE LiveMirror ------------------------------
(***************************************************************************)
(* The research poller's copy of its session to serving, tick by tick      *)
(* (run_live_sync, _push_live): table after table behind a watermark that  *)
(* the polling process holds. A push may fail at any table and the poller  *)
(* may be started again in the middle of a session; the Pi may have        *)
(* reported on serving before. An event names the run that wrote it, by a  *)
(* foreign key.                                                            *)
(***************************************************************************)
EXTENDS Integers, FiniteSetsExt

CONSTANTS
  Slots,     \* what may fire
  MaxTicks,
  MaxFaults  \* bound on failed pushes, restarts and the Pi's reports

MirrorAssumption == MaxTicks \in Nat /\ MaxFaults \in Nat

VARIABLES
  research,  \* events, reports, quotes and the version of bars_live
  serving,   \* these, and the runs
  run,       \* the polling process
  tick,
  mark,      \* its watermark
  high,      \* the watermark as the push advances it
  push,      \* the table a push has come to; 0: none is under way
  failing,   \* the last push failed for no fault of the connection
  faults

vars == <<research, serving, run, tick, mark, high, push, failing, faults>>

Fault == faults < MaxFaults /\ faults' = faults + 1

Greatest(S) == IF S = {} THEN 0 ELSE Max(S)
NoMark == [event |-> 0, report |-> 0, quote |-> 0]
Nothing == [events |-> {}, reports |-> {}, quotes |-> {}, bars |-> 0]
NextId(S) == 1 + Greatest({x.id : x \in S})

-----------------------------------------------------------------------------
(* The pollers. *)

\* A slot fires once: its event, its quote and its report.
Tick(slots) ==
  /\ push = 0 /\ tick < MaxTicks /\ tick' = tick + 1
  /\ research' = [
       events |-> research.events \cup
         {[id |-> NextId(research.events), slot |-> s, run |-> run] : s \in slots},
       reports |-> research.reports \cup
         {[id |-> NextId(research.reports), slot |-> s, by |-> "research"] : s \in slots},
       quotes |-> research.quotes \cup {[slot |-> s, ts |-> tick + 1] : s \in slots},
       bars |-> tick + 1]
  /\ push' = 1 /\ high' = mark
  /\ UNCHANGED <<serving, run, mark, failing, faults>>

Restart ==
  /\ Fault
  /\ run' = run + 1 /\ push' = 0 /\ mark' = NoMark
  /\ UNCHANGED <<research, serving, tick, high, failing>>

\* The Pi mints its reports' ids from serving's own sequence.
PiFires(s) ==
  /\ Fault
  /\ serving' = [serving EXCEPT !.reports = @ \cup {[id |-> NextId(@), slot |-> s, by |-> "pi"]}]
  /\ UNCHANGED <<research, run, tick, mark, high, push, failing>>

-----------------------------------------------------------------------------
(* The push, in foreign-key order. *)

Tables == <<"runs", "events", "reports", "bars", "quotes">>
At(table) == push # 0 /\ Tables[push] = table

Since(S, id) == {x \in S : x.id > id}

PushRuns ==
  /\ At("runs")
  /\ serving' = [serving EXCEPT !.runs = @ \cup {run}]
  /\ push' = push + 1
  /\ UNCHANGED <<research, run, tick, mark, high, failing, faults>>

\* Each under serving's own id. An event of a run serving has not heard of fails the
\* push.
PushEvents ==
  /\ At("events")
  /\ LET new == Since(research.events, mark.event)
     IN IF \A e \in new : e.run \in serving.runs
        THEN /\ serving' = [serving EXCEPT !.events = @ \cup {e.slot : e \in new}]
             /\ high' = [high EXCEPT !.event = Greatest({@} \cup {e.id : e \in new})]
             /\ push' = push + 1 /\ UNCHANGED failing
        ELSE push' = 0 /\ failing' = TRUE /\ UNCHANGED <<serving, high>>
  /\ UNCHANGED <<research, run, tick, mark, faults>>

\* By id: what stands there is replaced.
PushReports ==
  /\ At("reports")
  /\ LET new == Since(research.reports, mark.report)
         ids == {r.id : r \in new}
     IN /\ serving' = [serving EXCEPT !.reports = {r \in @ : r.id \notin ids} \cup new]
        /\ high' = [high EXCEPT !.report = Greatest({@} \cup ids)]
  /\ push' = push + 1
  /\ UNCHANGED <<research, run, tick, mark, failing, faults>>

\* Rewritten each tick, so all of it goes.
PushBars ==
  /\ At("bars")
  /\ serving' = [serving EXCEPT !.bars = research.bars]
  /\ push' = push + 1
  /\ UNCHANGED <<research, run, tick, mark, high, failing, faults>>

\* The caller takes the new watermark when all has been written.
PushQuotes ==
  /\ At("quotes")
  /\ LET new == {q \in research.quotes : q.ts > mark.quote}
     IN /\ serving' = [serving EXCEPT !.quotes = @ \cup new]
        /\ mark' = [high EXCEPT !.quote = Greatest({mark.quote} \cup {q.ts : q \in new})]
  /\ push' = 0 /\ failing' = FALSE
  /\ UNCHANGED <<research, run, tick, high, faults>>

\* A push that fails leaves the watermark as it was.
MarkAfterFailure == mark

PushFails ==
  /\ push # 0 /\ Fault
  /\ mark' = MarkAfterFailure
  /\ push' = 0
  /\ UNCHANGED <<research, serving, run, tick, high, failing>>

Init ==
  /\ research = Nothing
  /\ serving = [events |-> {}, reports |-> {}, quotes |-> {}, bars |-> 0, runs |-> {}]
  /\ run = 1 /\ tick = 0 /\ mark = NoMark /\ high = NoMark /\ push = 0 /\ failing = FALSE
  /\ faults = 0

Next ==
  \/ \E slots \in SUBSET Slots :
       /\ \A s, t \in slots : s = t
       /\ \A e \in research.events : e.slot \notin slots
       /\ Tick(slots)
  \/ Restart
  \/ \E s \in Slots : PiFires(s)
  \/ PushRuns \/ PushEvents \/ PushReports \/ PushBars \/ PushQuotes \/ PushFails

Spec == Init /\ [][Next]_vars

-----------------------------------------------------------------------------

\* A push that lands has brought everything the session fired so far and today's
\* candles, also what pushes before it could not: "a missed tick is repaired by the
\* next one" (run_live_sync).
SessionArrives ==
  At("quotes") /\ push' = 0 /\ faults' = faults =>
    /\ {e.slot : e \in research.events} \subseteq serving'.events
    /\ research.reports \subseteq serving'.reports
    /\ research.quotes \subseteq serving'.quotes
    /\ serving'.bars = research.bars

\* Two things do not hold. A poller that was started again before its first half
\* reached serving cannot send anything, for the run of that half is not sent.
OnlyConnectionsFail == ~failing

\* A report of the Pi that research has not pulled yet is replaced by one of another
\* ticker that research gave the same id.
ReportsStay == \A r \in serving.reports : r.by = "pi" => r \in serving'.reports
=============================================================================
