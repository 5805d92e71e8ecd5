------------------------------- MODULE Poller -------------------------------
(***************************************************************************)
(* One session of the live poller: `cscan poll --serving` on the Raspberry *)
(* Pi, the wrapper script that launches it and the systemd unit around     *)
(* both.                                                                   *)
(*                                                                         *)
(* A tick quotes every ticker and, for each signal that fires, writes an   *)
(* event, a quote, an order intent and, after notifying, a report: four    *)
(* commits and a notification. The event row is the debounce, so a signal  *)
(* fires once a day whatever restarts.                                     *)
(*                                                                         *)
(* The clock counts polling intervals: 0 is before the open, 1..LastTick   *)
(* are the intervals of the session, LastTick + 1 is after the close. Left *)
(* out: the partial candles (bars_live), the stale-band filter (a dropped  *)
(* ticker is one that never fires), what a notification says, which of its *)
(* channels answered (notify_all swallows that), the wrapper's CSV, and    *)
(* its scoring loop, which is Score in ForwardLog.                         *)
(***************************************************************************)
EXTENDS Integers, FiniteSets, Sequences, Functions

CONSTANTS
  Tickers,       \* the tickers polled
  LastTick,      \* bound: intervals in the session
  MaxFailures,   \* MAX_CONSECUTIVE_FAILURES
  Disruptions,   \* what may go wrong in this instance
  MaxDisruptions \* bound: how many times something goes wrong

DisruptionKinds ==
  { "error",    \* an exception inside a tick
    "guard",    \* a preflight guard refuses, or the start of run_poll raises
    "crash",    \* the poller process dies and the wrapper sees it
    "calendar", \* the wrapper cannot read the trading calendar
    "kill",     \* the wrapper is killed, and its control group with it
    "power" }   \* the Pi goes down

ASSUME TickAssumption == LastTick \in Nat \ {0} /\ MaxFailures \in Nat \ {0}
ASSUME MishapAssumption == Disruptions \subseteq DisruptionKinds /\ MaxDisruptions \in Nat

VARIABLES
  stoch,    \* the t-1 stochastic of each ticker, fixed for the session
  clock,    \* the current interval
  up,       \* the Pi is on
  unit,     \* the systemd unit: inactive, active, or waiting out RestartSec
  pc,       \* where the wrapper, or the poller it waits for, is
  now,      \* the poller: the interval of its last tick
  todo,     \* the poller: the fires this tick has still to look at
  cur,      \* the poller: the fire being recorded
  quoted,   \* the poller: the fires with a quote at this tick's timestamp
  started,  \* the poller: the interval it started in
  ticks,    \* the poller: ticks_completed
  failures, \* the poller: consecutive_failures
  events,   \* serving: the fires with a touch event today
  quotes,   \* serving: the fires whose quotes_live row stands
  intents,  \* serving: the fires with an order intent
  reports,  \* serving: the number of signal_reports rows of each fire
  notices,  \* how often each fire was notified
  row,      \* serving: today's poller_sessions row
  mishaps   \* disruptions so far

machine == <<clock, up, unit>>
loop    == <<now, started, ticks, failures>>
scan    == <<todo, cur, quoted>>
memory  == <<loop, scan>>
store   == <<events, quotes, intents, reports, notices, row>>
vars    == <<stoch, machine, pc, memory, store, mishaps>>

Mishap(kind) ==
  /\ kind \in Disruptions
  /\ mishaps < MaxDisruptions
  /\ mishaps' = mishaps + 1

-----------------------------------------------------------------------------
(* What fires (core/signals.py).                                           *)

\* Of each side, its types from the most to the least specific. The types that
\* need the close never fire live.
Specificity ==
  [LONG  |-> <<"confluence_low", "bb_lower_touch", "stoch_oversold">>,
   SHORT |-> <<"confluence_high", "bb_upper_touch", "stoch_overbought">>]

Sides == DOMAIN Specificity
Types == UNION {Range(Specificity[s]) : s \in Sides}
SideOf(type) == CHOOSE s \in Sides : type \in Range(Specificity[s])
Fires == [ticker : Tickers, type : Types]

\* %K is extreme on one side or on neither, with or without the agreement of
\* the smoothed %K; a quote is outside one band, inside both, or missing.
Stochastics ==
  {s \in [extreme : {"oversold", "overbought", "none"}, agrees : BOOLEAN] :
     s.agrees => s.extreme # "none"}
Prices == {"below", "inside", "above", "missing"}

\* _types_fired at one price.
TypesFired(s, price) ==
  LET band == [below |-> {"bb_lower_touch"}, above |-> {"bb_upper_touch"}]
      k    == [oversold |-> {"stoch_oversold"}, overbought |-> {"stoch_overbought"}]
      Of(f, x) == IF x \in DOMAIN f THEN f[x] ELSE {}
      confluence == CASE s.agrees /\ s.extreme = "oversold" /\ price = "below" -> {"confluence_low"}
                      [] s.agrees /\ s.extreme = "overbought" /\ price = "above" -> {"confluence_high"}
                      [] OTHER -> {}
  IN  IF price = "missing" THEN {} ELSE confluence \cup Of(band, price) \cup Of(k, s.extreme)

\* The types that no more specific type of their side outranks (_fired_by_side).
MostSpecific(fired) ==
  {x \in fired : \E side \in Sides : \E i \in DOMAIN Specificity[side] :
     Specificity[side][i] = x /\ \A j \in 1..(i - 1) : Specificity[side][j] \notin fired}

\* At most one fire of a ticker for each side.
FiresAt(price) ==
  {f \in Fires : f.type \in MostSpecific(TypesFired(stoch[f.ticker], price[f.ticker]))}

-----------------------------------------------------------------------------
NoFire == [ticker |-> "none", type |-> "none"]
NoRow == [started |-> 0, ended |-> 0, ticks |-> 0]
Recording == {"quote", "intent", "notify", "report"}
InTick == Recording \cup {"tick", "row"}
Polling == InTick \cup {"loop", "asleep", "final"}

TypeOK ==
  /\ stoch \in [Tickers -> Stochastics]
  /\ clock \in 0..(LastTick + 1) /\ up \in BOOLEAN
  /\ unit \in {"inactive", "active", "restart"}
  /\ pc \in Polling \cup {"idle", "start", "wait", "gone"}
  /\ now \in 0..LastTick /\ started \in 0..(LastTick + 1)
  /\ ticks \in 0..LastTick /\ failures \in 0..MaxFailures
  /\ todo \subseteq Fires
  /\ cur \in Fires \cup {NoFire}
  /\ events \subseteq Fires /\ intents \subseteq Fires
  /\ quotes \subseteq Fires /\ quoted \subseteq Fires
  /\ reports \in [Fires -> Nat] /\ notices \in [Fires -> Nat]
  /\ row \in [started : 0..(LastTick + 1), ended : 0..(LastTick + 1), ticks : 0..LastTick]
  /\ mishaps \in 0..MaxDisruptions

\* Midnight: the timer has just started the unit.
Init ==
  /\ stoch \in [Tickers -> Stochastics]
  /\ clock = 0 /\ up = TRUE /\ unit = "active" /\ pc = "start"
  /\ now = 0 /\ started = 0 /\ ticks = 0 /\ failures = 0
  /\ todo = {} /\ cur = NoFire /\ quoted = {}
  /\ events = {} /\ quotes = {} /\ intents = {}
  /\ reports = [f \in Fires |-> 0] /\ notices = reports
  /\ row = NoRow
  /\ mishaps = 0

\* A process that ends takes its memory with it.
DropTick == todo' = {} /\ cur' = NoFire /\ quoted' = {}
Forget == now' = 0 /\ started' = 0 /\ ticks' = 0 /\ failures' = 0 /\ DropTick

-----------------------------------------------------------------------------
(* The wrapper, systemd and the machine.                                   *)

\* An interval that passes inside a tick counts when the tick is over.
NextInterval ==
  /\ clock <= LastTick
  /\ pc \notin InTick
  /\ clock' = clock + 1
  /\ UNCHANGED <<stoch, up, unit, pc, memory, store, mishaps>>

\* The wrapper reads the calendar, and has nothing to do after the close.
CheckDay ==
  /\ pc = "start"
  /\ IF clock > LastTick THEN unit' = "inactive" /\ pc' = "idle"
     ELSE pc' = "wait" /\ UNCHANGED unit
  /\ UNCHANGED <<stoch, clock, up, memory, store, mishaps>>

\* An unreadable calendar is not a holiday: exit 1, and the unit restarts.
CalendarUnreadable ==
  /\ pc = "start"
  /\ Mishap("calendar")
  /\ unit' = "restart" /\ pc' = "idle"
  /\ UNCHANGED <<stoch, clock, up, memory, store>>

\* A poller counts its own ticks.
TicksAtStart == 0

\* After the countdown: launch the poller, whose guards pass, and start the loop.
Launch ==
  /\ pc = "wait" /\ clock > 0
  /\ started' = clock /\ ticks' = TicksAtStart /\ failures' = 0
  /\ pc' = "loop"
  /\ UNCHANGED <<stoch, machine, now, scan, store, mishaps>>

PreflightFails ==
  /\ pc = "wait" /\ clock > 0
  /\ Mishap("guard")
  /\ pc' = "gone"
  /\ UNCHANGED <<stoch, machine, memory, store>>

\* The wrapper waits for the poller and ends with exit 0, whatever it returned.
WrapperEnds ==
  /\ pc = "gone"
  /\ unit' = "inactive" /\ pc' = "idle"
  /\ UNCHANGED <<stoch, clock, up, memory, store, mishaps>>

PollerDies ==
  /\ pc \in Polling
  /\ Mishap("crash")
  /\ pc' = "gone"
  /\ Forget
  /\ UNCHANGED <<stoch, machine, store>>

WrapperKilled ==
  /\ pc # "idle"
  /\ Mishap("kill")
  /\ unit' = "restart" /\ pc' = "idle"
  /\ Forget
  /\ UNCHANGED <<stoch, clock, up, store>>

Restart ==
  /\ unit = "restart"
  /\ unit' = "active" /\ pc' = "start"
  /\ UNCHANGED <<stoch, clock, up, memory, store, mishaps>>

PowerLoss ==
  /\ up
  /\ Mishap("power")
  /\ up' = FALSE /\ unit' = "inactive" /\ pc' = "idle"
  /\ Forget
  /\ UNCHANGED <<stoch, clock, store>>

\* OnBootSec starts the wrapper after every boot.
Boot ==
  /\ ~up
  /\ up' = TRUE /\ unit' = "active" /\ pc' = "start"
  /\ UNCHANGED <<stoch, clock, memory, store, mishaps>>

-----------------------------------------------------------------------------
(* run_poll and _process_tick.                                             *)

PastOpen == clock >= 1                  \* mutant: the close is not checked

InSession == clock \in 1..LastTick

\* The quotes of this tick, and what they make fire.
Tick ==
  /\ pc = "loop" /\ InSession
  /\ now' = clock
  /\ \E price \in [Tickers -> Prices] : todo' = FiresAt(price)
  /\ pc' = "tick"
  /\ UNCHANGED <<stoch, machine, started, ticks, failures, cur, quoted, store, mishaps>>

MarketClosed ==
  /\ pc = "loop" /\ ~InSession
  /\ pc' = "final"
  /\ UNCHANGED <<stoch, machine, memory, store, mishaps>>

\* Of one ticker, the long side is looked at first.
Turn(f) ==
  /\ pc = "tick" /\ f \in todo
  /\ ~\E g \in todo : g.ticker = f.ticker /\ SideOf(g.type) = "LONG" /\ SideOf(f.type) = "SHORT"

AlreadyReported(f) == reports[f] > 0    \* mutant: the report is the debounce

\* _already_fired.
AlreadyFired(f) == f \in events

SkipFired(f) ==
  /\ Turn(f) /\ AlreadyFired(f)
  /\ todo' = todo \ {f}
  /\ UNCHANGED <<stoch, machine, pc, loop, cur, quoted, store, mishaps>>

EventsOfTick(f) == events \cup todo     \* mutant: the tick's events in one batch

EventsWith(f) == events \cup {f}

WriteEvent(f) ==
  /\ Turn(f) /\ ~AlreadyFired(f)
  /\ events' = EventsWith(f)
  /\ todo' = todo \ {f} /\ cur' = f
  /\ pc' = "quote"
  /\ UNCHANGED <<stoch, machine, loop, quoted, quotes, intents, reports, notices, row, mishaps>>

\* The order of the writes that follow the event.
Following == [quote |-> "intent", intent |-> "notify", notify |-> "report"]

\* quotes_live is keyed on (ticker, ts), and ts is the tick's: of two fires of one
\* ticker in one tick, the second replaces the row of the first.
WriteQuote ==
  /\ pc = "quote"
  /\ quotes' = {f \in quotes : ~(f \in quoted /\ f.ticker = cur.ticker)} \cup {cur}
  /\ quoted' = quoted \cup {cur}
  /\ pc' = Following[pc]
  /\ UNCHANGED <<stoch, machine, loop, todo, cur, events, intents, reports, notices, row, mishaps>>

\* The overlay of a long fire, then emit_order_intent, an upsert on its key.
WriteIntent ==
  /\ pc = "intent"
  /\ intents' = intents \cup {cur}
  /\ pc' = Following[pc]
  /\ UNCHANGED <<stoch, machine, memory, events, quotes, reports, notices, row, mishaps>>

Notify ==
  /\ pc = "notify"
  /\ notices' = [notices EXCEPT ![cur] = @ + 1]
  /\ pc' = Following[pc]
  /\ UNCHANGED <<stoch, machine, memory, events, quotes, intents, reports, row, mishaps>>

Report ==
  /\ pc = "report"
  /\ reports' = [reports EXCEPT ![cur] = @ + 1]
  /\ cur' = NoFire
  /\ pc' = "tick"
  /\ UNCHANGED <<stoch, machine, loop, todo, quoted, events, quotes, intents, notices, row, mishaps>>

FailuresKept == failures                \* mutant: a good tick does not clear them

FailuresAfterTick == 0

TickDone ==
  /\ pc = "tick" /\ todo = {}
  /\ ticks' = ticks + 1 /\ failures' = FailuresAfterTick
  /\ quoted' = {}
  /\ pc' = "row"
  /\ UNCHANGED <<stoch, machine, now, started, todo, cur, store, mishaps>>

\* The heartbeat: the row is rewritten after every tick.
WriteRow ==
  /\ pc = "row"
  /\ row' = [started |-> started, ended |-> now, ticks |-> ticks]
  /\ pc' = "asleep"
  /\ UNCHANGED <<stoch, machine, memory, events, quotes, intents, reports, notices, mishaps>>

TooMany == failures + 1 >= MaxFailures

\* An exception anywhere in the tick, or in its heartbeat: sleep, or give up.
TickFails ==
  /\ pc \in InTick \ {"notify"}
  /\ Mishap("error")
  /\ failures' = failures + 1
  /\ DropTick
  /\ pc' = IF TooMany THEN "final" ELSE "asleep"
  /\ UNCHANGED <<stoch, machine, now, started, ticks, store>>

Wake ==
  /\ pc = "asleep" /\ clock > now
  /\ pc' = "loop"
  /\ UNCHANGED <<stoch, machine, memory, store, mishaps>>

\* The last write of the session row. run_poll returns, and the run is ok.
FinalRow ==
  /\ pc = "final"
  /\ row' = [started |-> started, ended |-> clock, ticks |-> ticks]
  /\ pc' = "gone"
  /\ Forget
  /\ UNCHANGED <<stoch, machine, events, quotes, intents, reports, notices, mishaps>>

-----------------------------------------------------------------------------
PollStep ==
  \/ Tick \/ MarketClosed \/ TickDone \/ WriteRow \/ Wake \/ FinalRow
  \/ \E f \in todo : SkipFired(f) \/ WriteEvent(f)
  \/ WriteQuote \/ WriteIntent \/ Notify \/ Report

WrapperStep == CheckDay \/ Launch \/ WrapperEnds

Next ==
  \/ PollStep \/ WrapperStep
  \/ TickFails \/ PollerDies \/ PreflightFails
  \/ CalendarUnreadable \/ WrapperKilled \/ Restart
  \/ PowerLoss \/ Boot
  \/ NextInterval

\* A running script runs, time passes, systemd restarts a failed unit and the Pi
\* is switched on again.
Fairness ==
  /\ WF_vars(PollStep) /\ WF_vars(WrapperStep) /\ WF_vars(NextInterval)
  /\ WF_vars(Restart) /\ WF_vars(Boot)

Spec == Init /\ [][Next]_vars

FairSpec == Spec /\ Fairness

-----------------------------------------------------------------------------
(* Properties.                                                             *)

\* No fire is notified twice in a day, whatever failed or was restarted between
\* (the debounce of _already_fired).
NotifiedOnce == \A f \in Fires : notices[f] <= 1

\* A fire's traces are written in order, so an interrupted fire leaves a prefix:
\* no notification without its order intent, and no report, intent or quote
\* without what comes before it (_process_tick).
TraceInOrder ==
  /\ \A f \in Fires : reports[f] <= notices[f] /\ (notices[f] > 0 => f \in intents)
  /\ intents \subseteq events /\ quotes \subseteq events

Unreported == {f \in events : reports[f] = 0 /\ f # cur}

\* A fire that has an event and never gets a report is paid for by a mishap of
\* its own: one exception, crash or power loss loses at most one fire.
OneLossPerMishap == Cardinality(Unreported) <= mishaps

\* The session row never counts more ticks than the intervals it spans, over
\* restarts too (_write_session_row, coverage_pct).
RowCountsItsTicks == row.ticks <= row.ended - row.started + 1

\* The poller leaves an open market only after MaxFailures failing ticks in a row:
\* that many intervals since its start, and since its last heartbeat.
GivesUpLate ==
  [][pc' = "final" /\ pc # "final" /\ clock <= LastTick =>
       /\ clock >= started + MaxFailures - 1
       /\ row.ended > started => clock >= row.ended + MaxFailures]_vars

\* After the close the unit comes to rest, so the trigger at midnight is not lost.
ComesToRest == (clock > LastTick) ~> (unit = "inactive")

\* What a comment in _process_tick says: "Every confluence still fires, is still
\* written, and is still notified". Once a tick is over, so are its notifications.
EveryConfluenceNotified ==
  pc \in {"asleep", "idle"} =>
    \A f \in events : f.type \in {"confluence_low", "confluence_high"} => notices[f] > 0

-----------------------------------------------------------------------------
(* The inductive invariant behind the safety properties.                   *)

\* The wrapper is there exactly when the unit is active, on a Pi that is on.
UnitRuns == (pc # "idle" <=> unit = "active") /\ (~up => unit = "inactive")

\* How far the fire being recorded has got, and that a fire without an event has
\* left no trace.
FireInHand ==
  /\ cur \in Fires <=> pc \in Recording
  /\ \A f \in Fires \ events : notices[f] = 0
  /\ pc \in Recording =>
       /\ cur \in events /\ reports[cur] = 0
       /\ pc # "report" => notices[cur] = 0
       /\ pc \in {"notify", "report"} => cur \in intents
       /\ pc = "report" => notices[cur] = 1

\* The intervals a poller has been through are enough for the ticks it counts,
\* and for the failures it counts since its start and since its last heartbeat.
CountsFit(span, sinceRow) ==
  /\ ticks <= span
  /\ failures <= span
  /\ row.ended > started => failures <= sinceRow

LoopCounts ==
  /\ row.ended <= clock
  /\ pc \in Polling => started >= 1 /\ started <= clock
  /\ pc \in Polling \ {"final"} => failures < MaxFailures
  /\ pc = "loop" => CountsFit(clock - started, clock - 1 - row.ended)
  /\ pc \in InTick \cup {"asleep"} => now >= started /\ now <= clock /\ now <= LastTick
  /\ pc \in InTick \ {"row"} => CountsFit(now - started, now - 1 - row.ended)
  /\ pc = "row" => /\ failures = 0
                   /\ ticks <= now - started + 1
                   /\ row.ended > started => row.ended < now
  /\ pc = "asleep" => CountsFit(now - started + 1, now - row.ended)
  /\ pc = "final" => ticks <= clock - started + 1

PollerInv ==
  /\ TypeOK
  /\ UnitRuns /\ FireInHand /\ LoopCounts
  /\ NotifiedOnce /\ TraceInOrder /\ OneLossPerMishap /\ RowCountsItsTicks
=============================================================================
