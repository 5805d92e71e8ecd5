--------------------------- MODULE Poller_proofs ---------------------------
(***************************************************************************)
(* What holds of a poller session for every set of tickers, length of the  *)
(* session, failure limit and disruptions; of what it announces, Signals   *)
(* for any prices, indicator rows and enabled types: the fires settle as   *)
(* announced; and of what a signal is worth, Trades for any bars and exit  *)
(* policies: its rows claim no price the market did not give. The three    *)
(* share no variable, for Signals follows one ticker through one session   *)
(* and Trades one signal through its bars: here they are instances.        *)
(***************************************************************************)
EXTENDS Poller, FiniteSetsExt, SequenceTheorems, WellFoundedInduction, FiniteSetTheorems, TLAPS

CONSTANTS Quotes, Rows, Enabled, Oversold, Overbought, AgreeTol, MaxTrades
VARIABLES prior, older, near, closed, trades, sampled, live, said, own, settled, measured

G == INSTANCE Signals WITH Prices <- Quotes, quoted <- sampled

CONSTANTS Shapes, Policies, Hourlies, MaxHold, MaxBars, Units, Level, Target, Slip
VARIABLES stance, touchLevel, exitPolicy, hours, days, booked

T == INSTANCE Trades WITH side <- stance, level <- touchLevel, policy <- exitPolicy, hourly <- hours,
                          bars <- days, rows <- booked, Tick <- Units

\* NoFire stands for no signal of any ticker.
LEMMA NoFireIsNone == NoFire \notin Fires
<1>1. \A s \in Sides : "none" \notin Range(Specificity[s])
  BY DEF Sides, Specificity, Range
<1>2. "none" \notin Types
  BY <1>1 DEF Types
<1>3. QED BY <1>2 DEF NoFire, Fires

\* A disruption keeps its count within the bound.
LEMMA MishapCount ==
  ASSUME mishaps \in 0..MaxDisruptions, NEW kind, Mishap(kind)
  PROVE  mishaps' \in 0..MaxDisruptions /\ mishaps' = mishaps + 1
  BY MishapAssumption DEF Mishap

-----------------------------------------------------------------------------
(* Types, and the counts of the loop.                                      *)

Counting == TypeOK /\ LoopCounts

\* The types hold at midnight, when no tick is counted.
LEMMA CountingInit == Init => Counting
<1> SUFFICES ASSUME Init PROVE Counting
  OBVIOUS
<1>1. 0 \in 0..(LastTick + 1) /\ 0 \in 0..LastTick /\ 0 \in 0..MaxFailures /\ 0 \in 0..MaxDisruptions
  BY TickAssumption, MishapAssumption
<1>2. TypeOK
  BY <1>1 DEF Init, TypeOK, NoRow
<1>3. LoopCounts
  BY DEF Init, LoopCounts, NoRow, Polling, InTick, Recording
<1>4. QED BY <1>2, <1>3 DEF Counting

\* The wrapper, systemd, the machine and the clock.
LEMMA CountingOutside ==
  ASSUME Counting,
         \/ NextInterval \/ CheckDay \/ CalendarUnreadable \/ Launch \/ PreflightFails
         \/ WrapperEnds \/ PollerDies \/ WrapperKilled \/ Restart \/ PowerLoss \/ Boot
  PROVE  Counting'
<1> USE TickAssumption DEF Counting, machine, loop, scan, memory, store, Polling, InTick, Recording
<1>1. CASE NextInterval
  <2>1. TypeOK'
    BY <1>1 DEF NextInterval, TypeOK
  <2>2. LoopCounts'
    BY <1>1 DEF NextInterval, TypeOK, LoopCounts, CountsFit
  <2>3. QED BY <2>1, <2>2
<1>2. CASE CheckDay \/ WrapperEnds \/ Restart \/ Boot
  <2>1. TypeOK'
    BY <1>2 DEF CheckDay, WrapperEnds, Restart, Boot, TypeOK
  <2>2. LoopCounts'
    BY <1>2 DEF CheckDay, WrapperEnds, Restart, Boot, LoopCounts
  <2>3. QED BY <2>1, <2>2
<1>3. CASE Launch
  <2>1. TypeOK'
    BY <1>3 DEF Launch, TicksAtStart, TypeOK
  <2>2. LoopCounts'
    BY <1>3 DEF Launch, TicksAtStart, TypeOK, LoopCounts, CountsFit
  <2>3. QED BY <2>1, <2>2
<1>4. CASE CalendarUnreadable \/ PreflightFails
  <2>1. mishaps' \in 0..MaxDisruptions
    BY <1>4, MishapCount DEF CalendarUnreadable, PreflightFails, TypeOK
  <2>2. TypeOK'
    BY <1>4, <2>1 DEF CalendarUnreadable, PreflightFails, TypeOK
  <2>3. LoopCounts'
    BY <1>4 DEF CalendarUnreadable, PreflightFails, LoopCounts
  <2>4. QED BY <2>2, <2>3
<1>5. CASE PollerDies \/ WrapperKilled \/ PowerLoss
  <2>1. mishaps' \in 0..MaxDisruptions
    BY <1>5, MishapCount DEF PollerDies, WrapperKilled, PowerLoss, TypeOK
  <2>z. Forget /\ UNCHANGED <<stoch, clock, store>>
    BY <1>5 DEF PollerDies, WrapperKilled, PowerLoss
  <2>u. up' \in BOOLEAN /\ unit' \in {"inactive", "active", "restart"} /\ pc' \in {"gone", "idle"}
    BY <1>5 DEF PollerDies, WrapperKilled, PowerLoss, TypeOK
  <2>2. TypeOK'
    BY <2>1, <2>z, <2>u DEF Forget, DropTick, TypeOK
  <2>3. LoopCounts'
    BY <1>5 DEF PollerDies, WrapperKilled, PowerLoss, LoopCounts
  <2>4. QED BY <2>2, <2>3
<1>6. QED BY <1>1, <1>2, <1>3, <1>4, <1>5

\* The steps of the loop around a tick.
LEMMA CountingLoop ==
  ASSUME Counting,
         Tick \/ MarketClosed \/ TickDone \/ WriteRow \/ TickFails \/ Wake \/ FinalRow
  PROVE  Counting'
<1> USE TickAssumption DEF Counting, machine, loop, scan, memory, store, Polling, InTick, Recording
<1>1. CASE Tick
  <2>1. todo' \subseteq Fires /\ pc' = "tick" /\ now' = clock /\ clock \in 1..LastTick
    BY <1>1 DEF Tick, FiresAt, InSession
  <2>2. TypeOK'
    BY <1>1, <2>1 DEF Tick, TypeOK
  <2>3. LoopCounts'
    BY <1>1, <2>1 DEF Tick, TypeOK, LoopCounts, CountsFit
  <2>4. QED BY <2>2, <2>3
<1>2. CASE MarketClosed
  <2>1. TypeOK'
    BY <1>2 DEF MarketClosed, TypeOK
  <2>2. LoopCounts'
    BY <1>2 DEF MarketClosed, TypeOK, LoopCounts, CountsFit
  <2>3. QED BY <2>1, <2>2
<1>3. CASE TickDone
  <2>1. ticks' <= now - started + 1 /\ ticks' \in 0..LastTick
    BY <1>3 DEF TickDone, TypeOK, LoopCounts, CountsFit
  <2>2. TypeOK'
    BY <1>3, <2>1 DEF TickDone, FailuresAfterTick, TypeOK
  <2>3. LoopCounts'
    BY <1>3, <2>1 DEF TickDone, FailuresAfterTick, TypeOK, LoopCounts, CountsFit
  <2>4. QED BY <2>2, <2>3
<1>4. CASE WriteRow
  <2>1. TypeOK'
    BY <1>4 DEF WriteRow, TypeOK
  <2>2. LoopCounts'
    BY <1>4 DEF WriteRow, TypeOK, LoopCounts, CountsFit
  <2>3. QED BY <2>1, <2>2
<1>5. CASE TickFails
  <2>1. mishaps' \in 0..MaxDisruptions
    BY <1>5, MishapCount DEF TickFails, TypeOK
  <2>2. failures < MaxFailures /\ failures' = failures + 1 /\ pc' \in {"final", "asleep"}
        /\ (pc' = "asleep" => failures' < MaxFailures)
    BY <1>5 DEF TickFails, TooMany, TypeOK, LoopCounts
  <2>3. TypeOK'
    BY <1>5, <2>1, <2>2 DEF TickFails, DropTick, TypeOK
  <2>4. LoopCounts'
    BY <1>5, <2>2 DEF TickFails, TypeOK, LoopCounts, CountsFit
  <2>5. QED BY <2>3, <2>4
<1>6. CASE Wake
  <2>1. TypeOK'
    BY <1>6 DEF Wake, TypeOK
  <2>2. LoopCounts'
    BY <1>6 DEF Wake, TypeOK, LoopCounts, CountsFit
  <2>3. QED BY <2>1, <2>2
<1>7. CASE FinalRow
  <2>1. TypeOK'
    BY <1>7 DEF FinalRow, Forget, DropTick, TypeOK
  <2>2. LoopCounts'
    BY <1>7 DEF FinalRow, Forget, DropTick, TypeOK, LoopCounts
  <2>3. QED BY <2>1, <2>2
<1>8. QED BY <1>1, <1>2, <1>3, <1>4, <1>5, <1>6, <1>7

\* The steps that look at a fire and record it: they count nothing.
LEMMA CountingFire ==
  ASSUME Counting, cur \in Fires <=> pc \in Recording,
         \/ \E f \in todo : SkipFired(f) \/ WriteEvent(f)
         \/ WriteQuote \/ WriteIntent \/ Notify \/ Report
  PROVE  Counting'
<1> USE DEF Counting, machine, loop, scan, memory, store
<1>1. pc \in InTick \ {"row"} /\ pc' \in InTick \ {"row"}
  BY DEF SkipFired, WriteEvent, Turn, WriteQuote, WriteIntent, Notify, Report, Following, InTick, Recording
<1>2. UNCHANGED <<stoch, machine, loop, row, mishaps>>
  BY DEF SkipFired, WriteEvent, WriteQuote, WriteIntent, Notify, Report
<1>3. LoopCounts'
  BY <1>1, <1>2 DEF LoopCounts, CountsFit, Polling, InTick, Recording
<1>4. ASSUME NEW f \in todo, SkipFired(f) PROVE TypeOK'
  BY <1>4, <1>2 DEF SkipFired, TypeOK
<1>5. ASSUME NEW f \in todo, WriteEvent(f) PROVE TypeOK'
  BY <1>5, <1>2 DEF WriteEvent, EventsWith, TypeOK, Polling, InTick, Recording
<1>6. CASE WriteQuote \/ WriteIntent \/ Notify \/ Report
  <2>1. cur \in Fires /\ pc' \in Polling
    BY <1>6, <1>1 DEF WriteQuote, WriteIntent, Notify, Report, Polling, InTick, Recording
  <2>2. reports' \in [Fires -> Nat] /\ notices' \in [Fires -> Nat]
    BY <1>6, <2>1 DEF WriteQuote, WriteIntent, Notify, Report, TypeOK
  <2>3. cur' \in Fires \cup {NoFire} /\ UNCHANGED <<todo, events>> /\ intents' \subseteq Fires
        /\ quotes' \subseteq Fires /\ quoted' \subseteq Fires
    BY <1>6, <2>1 DEF WriteQuote, WriteIntent, Notify, Report, TypeOK
  <2>4. UNCHANGED <<stoch, clock, up, unit, now, started, ticks, failures, row, mishaps>>
    BY <1>2
  <2>5. QED BY <1>3, <2>1, <2>2, <2>3, <2>4 DEF TypeOK
<1>7. QED BY <1>3, <1>4, <1>5, <1>6

-----------------------------------------------------------------------------
(* The fires.                                                              *)

Traces == UnitRuns /\ FireInHand /\ NotifiedOnce /\ TraceInOrder

\* No fire has a trace at midnight.
LEMMA TracesInit == Init => Traces
  BY NoFireIsNone DEF Init, Traces, UnitRuns, FireInHand, NotifiedOnce, TraceInOrder, Recording

\* A step that leaves the traces alone and drops the fire in hand, or keeps it.
LEMMA TracesStay ==
  ASSUME Traces, UnitRuns', UNCHANGED <<events, quotes, intents, reports, notices>>,
         \/ UNCHANGED <<pc, cur>>
         \/ cur' = NoFire /\ pc' \notin Recording
  PROVE  Traces'
  BY NoFireIsNone DEF Traces, FireInHand, NotifiedOnce, TraceInOrder

\* Every step outside the recording of a fire is of that kind.
LEMMA TracesOutside ==
  ASSUME TypeOK, Traces,
         \/ NextInterval \/ CheckDay \/ CalendarUnreadable \/ Launch \/ PreflightFails
         \/ WrapperEnds \/ PollerDies \/ WrapperKilled \/ Restart \/ PowerLoss \/ Boot
         \/ Tick \/ MarketClosed \/ TickDone \/ WriteRow \/ TickFails \/ Wake \/ FinalRow
         \/ (\E f \in todo : SkipFired(f)) \/ UNCHANGED vars
  PROVE  Traces' /\ UNCHANGED <<events, reports>>
                 /\ \/ cur' = cur
                    \/ cur' = NoFire /\ (pc \in Recording => mishaps' = mishaps + 1)
<1> USE DEF machine, loop, scan, memory, store
<1>1. pc \notin Recording => cur = NoFire
  BY DEF TypeOK, Traces, FireInHand
<1>u. UnitRuns'
  BY DEF Traces, UnitRuns, NextInterval, CheckDay, CalendarUnreadable, Launch, PreflightFails, WrapperEnds,
         PollerDies, WrapperKilled, Restart, PowerLoss, Boot, Tick, MarketClosed, TickDone, WriteRow,
         TickFails, Wake, FinalRow, SkipFired, vars, Polling, InTick, Recording
<1>2. CASE NextInterval \/ UNCHANGED vars
  BY <1>u, <1>2, TracesStay DEF NextInterval, vars
<1>3. CASE CheckDay \/ CalendarUnreadable \/ Launch \/ PreflightFails \/ WrapperEnds
  BY <1>u, <1>1, <1>3, TracesStay DEF CheckDay, CalendarUnreadable, Launch, PreflightFails, WrapperEnds, Recording
<1>4. CASE PollerDies \/ WrapperKilled \/ PowerLoss
  BY <1>u, <1>1, <1>4, TracesStay DEF PollerDies, WrapperKilled, PowerLoss, Forget, DropTick, Mishap, Recording
<1>5. CASE Restart \/ Boot
  BY <1>u, <1>1, <1>5, TracesStay DEF Restart, Boot, Traces, UnitRuns, Recording
<1>6. CASE Tick \/ MarketClosed \/ TickDone \/ WriteRow \/ Wake \/ FinalRow
  BY <1>u, <1>1, <1>6, TracesStay
     DEF Tick, MarketClosed, TickDone, WriteRow, Wake, FinalRow, Forget, DropTick, Recording
<1>7. CASE TickFails
  BY <1>u, <1>7, TracesStay DEF TickFails, DropTick, Mishap, Recording
<1>8. ASSUME NEW f \in todo, SkipFired(f) PROVE UNCHANGED <<pc, cur, events, quotes, intents, reports, notices>>
  BY <1>8 DEF SkipFired
<1>9. QED BY <1>2, <1>3, <1>4, <1>5, <1>6, <1>7, <1>8, <1>u, TracesStay

\* The steps that record a fire.
LEMMA TracesRecording ==
  ASSUME TypeOK, Traces,
         \/ \E f \in todo : WriteEvent(f)
         \/ WriteQuote \/ WriteIntent \/ Notify \/ Report
  PROVE  Traces'
<1> USE DEF TypeOK, Traces, UnitRuns, FireInHand, NotifiedOnce, TraceInOrder
<1>1. ASSUME NEW f \in todo, WriteEvent(f) PROVE Traces'
  <2>1. f \in Fires /\ f \notin events /\ events' = events \cup {f} /\ cur' = f /\ pc' = "quote"
        /\ UNCHANGED <<up, unit, quotes, intents, reports, notices>> /\ pc = "tick"
    BY <1>1 DEF WriteEvent, Turn, AlreadyFired, EventsWith, machine
  <2>2. notices[f] = 0 /\ reports[f] = 0
    BY <2>1
  <2>3. QED BY <2>1, <2>2 DEF Recording
<1>2. CASE WriteQuote
  BY <1>2 DEF WriteQuote, Following, machine, loop, Recording
<1>3. CASE WriteIntent
  BY <1>3 DEF WriteIntent, Following, machine, memory, scan, Recording
<1>4. CASE Notify
  <2>1. cur \in Fires /\ notices[cur] = 0 /\ notices' = [notices EXCEPT ![cur] = 1]
        /\ pc' = "report" /\ UNCHANGED <<up, unit, cur, events, quotes, intents, reports>>
    BY <1>4 DEF Notify, Following, machine, memory, scan, Recording
  <2>2. QED BY <1>4, <2>1 DEF Notify, Recording
<1>5. CASE Report
  <2>1. cur \in Fires /\ reports[cur] = 0 /\ reports' = [reports EXCEPT ![cur] = 1]
        /\ notices[cur] = 1 /\ cur' = NoFire /\ pc' = "tick"
        /\ UNCHANGED <<up, unit, events, quotes, intents, notices>>
    BY <1>5 DEF Report, machine, loop, Recording
  <2>2. QED BY <1>5, <2>1, NoFireIsNone DEF Report, Recording
<1>6. QED BY <1>1, <1>2, <1>3, <1>4, <1>5

-----------------------------------------------------------------------------
(* What a mishap costs, and the session row.                               *)

\* The losses are counted over a finite set.
Losses == IsFiniteSet(events) /\ OneLossPerMishap

\* A step that leaves the number of mishaps adds nothing to the unreported fires,
\* and one mishap adds at most the fire in hand.
LEMMA LossStep ==
  ASSUME Losses, mishaps \in Nat, IsFiniteSet(events'),
         \/ Unreported' \subseteq Unreported /\ mishaps' = mishaps
         \/ Unreported' \subseteq Unreported \cup {cur} /\ mishaps' = mishaps + 1
  PROVE  Losses'
<1>1. IsFiniteSet(Unreported) /\ Cardinality(Unreported) \in Nat
  BY FS_Subset, FS_CardinalityType DEF Losses, Unreported
<1>2. CASE Unreported' \subseteq Unreported /\ mishaps' = mishaps
  <2>1. IsFiniteSet(Unreported') /\ Cardinality(Unreported') <= Cardinality(Unreported)
    BY <1>1, <1>2, FS_Subset
  <2>2. Cardinality(Unreported') \in Nat
    BY <2>1, FS_CardinalityType
  <2>3. QED BY <1>1, <1>2, <2>1, <2>2 DEF Losses, OneLossPerMishap
<1>3. CASE Unreported' \subseteq Unreported \cup {cur} /\ mishaps' = mishaps + 1
  <2>1. IsFiniteSet(Unreported \cup {cur}) /\ Cardinality(Unreported \cup {cur}) <= Cardinality(Unreported) + 1
    BY <1>1, FS_AddElement
  <2>2. Cardinality(Unreported \cup {cur}) \in Nat
    BY <2>1, FS_CardinalityType
  <2>3. IsFiniteSet(Unreported') /\ Cardinality(Unreported') <= Cardinality(Unreported \cup {cur})
    BY <1>3, <2>1, FS_Subset
  <2>4. Cardinality(Unreported') \in Nat
    BY <2>3, FS_CardinalityType
  <2>5. QED BY <1>1, <1>3, <2>1, <2>2, <2>3, <2>4 DEF Losses, OneLossPerMishap
<1>4. QED BY <1>2, <1>3

\* No step takes a mishap back, and none brings two.
LEMMA MishapStep ==
  ASSUME TypeOK, [Next]_vars
  PROVE  mishaps' = mishaps \/ mishaps' = mishaps + 1
<1>1. CASE PollStep \/ WrapperStep
  BY <1>1 DEF PollStep, WrapperStep, Tick, MarketClosed, TickDone, WriteRow, Wake, FinalRow, SkipFired,
              WriteEvent, WriteQuote, WriteIntent, Notify, Report, CheckDay, Launch, WrapperEnds
<1>2. CASE NextInterval \/ Restart \/ Boot \/ UNCHANGED vars
  BY <1>2 DEF NextInterval, Restart, Boot, vars
<1>3. CASE TickFails \/ PollerDies \/ PreflightFails \/ CalendarUnreadable \/ WrapperKilled \/ PowerLoss
  BY <1>3 DEF TickFails, PollerDies, PreflightFails, CalendarUnreadable, WrapperKilled, PowerLoss, Mishap
<1>4. QED BY <1>1, <1>2, <1>3 DEF Next

\* Each step keeps the losses within the mishaps.
LEMMA LossesStep ==
  ASSUME TypeOK, Traces, Losses, [Next]_vars
  PROVE  Losses'
<1> USE DEF TypeOK, Traces, FireInHand
<1>m. mishaps \in Nat
  BY MishapAssumption
<1>1. ASSUME NEW f \in todo, WriteEvent(f) PROVE Losses'
  <2>1. events' = events \cup {f} /\ cur' = f /\ UNCHANGED <<reports, mishaps>> /\ cur = NoFire
    BY <1>1 DEF WriteEvent, Turn, EventsWith, Recording
  <2>2. IsFiniteSet(events')
    BY <2>1, FS_AddElement DEF Losses
  <2>3. NoFire \notin events
    BY NoFireIsNone
  <2>4. Unreported' \subseteq Unreported
    BY <2>1, <2>3 DEF Unreported
  <2>5. QED BY <1>m, <2>1, <2>2, <2>4, LossStep
<1>2. CASE WriteQuote \/ WriteIntent \/ Notify
  <2>1. UNCHANGED <<events, reports, cur, mishaps>>
    BY <1>2 DEF WriteQuote, WriteIntent, Notify, memory, scan
  <2>2. QED BY <1>m, <2>1, LossStep DEF Unreported, Losses
<1>3. CASE Report
  <2>1. events' = events /\ reports' = [reports EXCEPT ![cur] = 1] /\ cur \in Fires /\ mishaps' = mishaps
    BY <1>3 DEF Report, Recording
  <2>2. Unreported' \subseteq Unreported
    BY <2>1 DEF Unreported
  <2>3. QED BY <1>m, <2>1, <2>2, LossStep DEF Losses
<1>4. ASSUME UNCHANGED <<events, reports>>,
             \/ cur' = cur
             \/ cur' = NoFire /\ (pc \in Recording => mishaps' = mishaps + 1)
      PROVE  Losses'
  <2>1. pc \notin Recording => cur = NoFire
    OBVIOUS
  <2>2. CASE cur' = cur
    BY <1>4, <1>m, <2>2, MishapStep, LossStep DEF Unreported, Losses
  <2>3. CASE cur' = NoFire /\ pc \notin Recording
    BY <1>4, <1>m, <2>1, <2>3, MishapStep, LossStep DEF Unreported, Losses
  <2>4. CASE cur' = NoFire /\ pc \in Recording
    <3>1. Unreported' \subseteq Unreported \cup {cur}
      BY <1>4, <2>4 DEF Unreported
    <3>2. cur' = cur => Unreported' = Unreported
      BY <1>4 DEF Unreported
    <3>3. IsFiniteSet(events')
      BY <1>4 DEF Losses
    <3>4. QED BY <1>4, <1>m, <2>4, <3>1, <3>2, <3>3, MishapStep, LossStep
  <2>5. QED BY <1>4, <2>2, <2>3, <2>4
<1>5. QED BY <1>1, <1>2, <1>3, <1>4, TracesOutside DEF Next, PollStep, WrapperStep

\* The session row is only written by a loop whose counts fit.
LEMMA RowStep ==
  ASSUME Counting, RowCountsItsTicks, [Next]_vars
  PROVE  RowCountsItsTicks'
<1> USE DEF RowCountsItsTicks
<1>1. CASE WriteRow
  BY <1>1 DEF WriteRow, Counting, TypeOK, LoopCounts, CountsFit
<1>2. CASE FinalRow
  BY <1>2 DEF FinalRow, Counting, TypeOK, LoopCounts, CountsFit
<1>3. CASE PollStep /\ ~WriteRow /\ ~FinalRow
  <2>1. UNCHANGED row
    BY <1>3 DEF PollStep, Tick, MarketClosed, TickDone, Wake, SkipFired, WriteEvent, WriteQuote,
                WriteIntent, Notify, Report, store
  <2>2. QED BY <2>1
<1>4. CASE WrapperStep \/ NextInterval \/ Restart \/ Boot \/ UNCHANGED vars
  BY <1>4 DEF WrapperStep, CheckDay, Launch, WrapperEnds, NextInterval, Restart, Boot, vars, store
<1>5. CASE TickFails \/ PollerDies \/ PreflightFails \/ CalendarUnreadable \/ WrapperKilled \/ PowerLoss
  BY <1>5 DEF TickFails, PollerDies, PreflightFails, CalendarUnreadable, WrapperKilled, PowerLoss, store
<1>6. QED BY <1>1, <1>2, <1>3, <1>4, <1>5 DEF Next

-----------------------------------------------------------------------------
(* The theorems.                                                           *)

\* A step of the poller, or of what is around it, keeps the whole invariant.
LEMMA InvStep ==
  ASSUME PollerInv, IsFiniteSet(events), [Next]_vars
  PROVE  PollerInv' /\ IsFiniteSet(events)'
<1>1. Counting /\ Traces /\ Losses /\ TypeOK /\ RowCountsItsTicks
  BY DEF PollerInv, Counting, Traces, Losses
<1>2. Counting'
  <2>1. CASE UNCHANGED vars
    BY <1>1, <2>1 DEF vars, machine, memory, loop, scan, store, Counting, TypeOK, LoopCounts, CountsFit
  <2>2. cur \in Fires <=> pc \in Recording
    BY <1>1 DEF Traces, FireInHand
  <2>3. QED BY <1>1, <2>1, <2>2, CountingOutside, CountingLoop, CountingFire DEF Next, PollStep, WrapperStep
<1>3. Traces'
  BY <1>1, TracesOutside, TracesRecording DEF Next, PollStep, WrapperStep
<1>4. Losses'
  BY <1>1, LossesStep
<1>5. RowCountsItsTicks'
  BY <1>1, RowStep
<1>6. QED BY <1>2, <1>3, <1>4, <1>5 DEF PollerInv, Counting, Traces, Losses

\* The invariant holds in every session, whatever goes wrong in it and however often.
THEOREM PollerHolds == Spec => []PollerInv
<1>1. Init => PollerInv /\ IsFiniteSet(events)
  <2> SUFFICES ASSUME Init PROVE PollerInv /\ IsFiniteSet(events)
    OBVIOUS
  <2>1. IsFiniteSet(events) /\ Unreported = {} /\ mishaps = 0
    BY FS_EmptySet DEF Init, Unreported
  <2>2. OneLossPerMishap
    BY <2>1, FS_EmptySet DEF OneLossPerMishap
  <2>3. RowCountsItsTicks
    BY DEF Init, NoRow, RowCountsItsTicks
  <2>4. QED BY <2>1, <2>2, <2>3, CountingInit, TracesInit DEF PollerInv, Counting, Traces
<1>2. PollerInv /\ IsFiniteSet(events) /\ [Next]_vars => PollerInv' /\ IsFiniteSet(events)'
  BY InvStep
<1>3. QED BY <1>1, <1>2, PTL DEF Spec

\* No fire is notified twice in a day.
THEOREM NotifiedOnceHolds == Spec => []NotifiedOnce
<1>1. PollerInv => NotifiedOnce
  BY DEF PollerInv
<1>2. QED BY <1>1, PollerHolds, PTL

\* One mishap loses at most one fire.
THEOREM LossesHold == Spec => []OneLossPerMishap
<1>1. PollerInv => OneLossPerMishap
  BY DEF PollerInv
<1>2. QED BY <1>1, PollerHolds, PTL

\* The poller gives up on an open market only after MaxFailures failing ticks in a row.
THEOREM GivesUpLateHolds == Spec => GivesUpLate
<1> DEFINE Late == pc' = "final" /\ pc # "final" /\ clock <= LastTick =>
                     /\ clock >= started + MaxFailures - 1
                     /\ row.ended > started => clock >= row.ended + MaxFailures
<1>1. PollerInv /\ [Next]_vars => Late
  <2> SUFFICES ASSUME PollerInv, [Next]_vars, pc' = "final", pc # "final", clock <= LastTick PROVE Late
    OBVIOUS
  <2>1. TypeOK /\ LoopCounts
    BY DEF PollerInv
  <2>2. TickFails \/ MarketClosed
    BY DEF Next, PollStep, WrapperStep, Tick, MarketClosed, TickDone, WriteRow, Wake, FinalRow, SkipFired, WriteEvent,
           WriteQuote, WriteIntent, Notify, Report, Following, CheckDay, Launch, WrapperEnds, TickFails, PollerDies,
           PreflightFails, CalendarUnreadable, WrapperKilled, Restart, PowerLoss, Boot, NextInterval, vars
  <2>3. ~MarketClosed
    BY <2>1, TickAssumption DEF MarketClosed, InSession, LoopCounts, TypeOK, Polling, InTick
  <2>4. failures + 1 >= MaxFailures /\ pc \in InTick
    BY <2>2, <2>3 DEF TickFails, TooMany
  <2>5. QED BY <2>1, <2>4, TickAssumption DEF LoopCounts, CountsFit, TypeOK, InTick, Recording
<1>2. QED BY <1>1, PollerHolds, PTL DEF Spec, GivesUpLate

-----------------------------------------------------------------------------
(* Signals: the invariant.                                                 *)

\* The types of what a session records, and where its quotes come from.
SessionTypes ==
  /\ prior \in Rows \cup {G!Missing} /\ older \in Rows /\ near \in BOOLEAN /\ closed \in BOOLEAN
  /\ trades \in Seq(Quotes)
  /\ sampled \subseteq G!Traded
  /\ DOMAIN live = G!Sides

\* The poller has announced what its quotes fire against the row of the session before.
LiveIsOfQuotes ==
  /\ sampled # {} => G!Polled
  /\ \A side \in G!Sides : live[side] = UNION {G!BreachLive(p, prior)[side] : p \in sampled}

\* A report is of one of the session's trades, quoted with the open or without.
SaidIsOfTrades ==
  \A r \in said :
    /\ G!Polled
    /\ r.side \in G!Sides /\ r.at \in DOMAIN trades /\ r.open \in {trades[1], G!Null}
    /\ G!BreachLive(trades[r.at], prior)[r.side] # {}
    /\ r.lead = G!Hit(r.side, G!BreachLive(trades[r.at], prior)[r.side], prior).lead

\* Both detections judge the whole session, and nothing of it moves after them.
VerdictsStand ==
  /\ closed => trades # <<>>
  /\ settled # G!Unknown => closed /\ settled = G!Settled
  /\ measured # G!Unknown => closed /\ measured = G!Measured

SignalsInv == SessionTypes /\ LiveIsOfQuotes /\ SaidIsOfTrades /\ VerdictsStand

-----------------------------------------------------------------------------
(* Signals: the operators.                                                 *)

\* Signals and this module mean the same by least and greatest.
LEMMA SameExtrema == ASSUME NEW S PROVE G!Min(S) = Min(S) /\ G!Max(S) = Max(S)
BY DEF G!Min, G!Max, Min, Max

\* A non-empty set of prices or ranks has a least one.
LEMMA LeastOf ==
  ASSUME NEW S \in SUBSET Nat, S # {}
  PROVE  Min(S) \in S /\ \A x \in S : Min(S) <= x
<1>1. PICK x \in S : \A y \in S : ~ (<<y, x>> \in OpToRel(<, Nat))
  BY WFMin, NatLessThanWellFounded
<1>2. \A y \in S : x =< y
  <2> TAKE y \in S
  <2>1. x \in Nat /\ y \in Nat
    OBVIOUS
  <2>2. ~(y < x)
    BY <1>1, <2>1 DEF OpToRel
  <2> QED BY <2>1, <2>2
<1> QED BY <1>2 DEF Min

\* Of finitely many numbers one is the highest: take the fewest that have none, and
\* take the last of them away.
LEMMA HighestOf ==
  ASSUME NEW L \in Nat, L > 0, NEW f, \A i \in 1..L : f[i] \in Int
  PROVE  \E i \in 1..L : \A j \in 1..L : f[j] <= f[i]
<1> DEFINE Top(n) == \E i \in 1..n : \A j \in 1..n : f[j] <= f[i]
           Bad == {n \in 1..L : ~Top(n)}
<1>1. ASSUME NEW n \in 1..L, n # 1, Top(n - 1)
      PROVE  Top(n)
  <2>1. PICK i \in 1..(n - 1) : \A j \in 1..(n - 1) : f[j] <= f[i]
    BY <1>1
  <2>2. \A j \in 1..n : f[j] \in Int /\ (j \in 1..(n - 1) \/ j = n)
    OBVIOUS
  <2>3. i \in 1..n /\ n \in 1..n
    OBVIOUS
  <2>4. CASE f[n] <= f[i]
    <3>1. \A j \in 1..n : f[j] <= f[i]
      BY <2>1, <2>2, <2>4
    <3> QED BY <2>3, <3>1
  <2>5. CASE ~(f[n] <= f[i])
    <3>1. \A j \in 1..n : f[j] <= f[n]
      <4> TAKE j \in 1..n
      <4>1. f[j] \in Int /\ f[n] \in Int /\ f[i] \in Int
        BY <2>2, <2>3
      <4> QED BY <2>1, <2>2, <2>5, <4>1
    <3> QED BY <2>3, <3>1
  <2> QED BY <2>4, <2>5
<1>2. Top(1)
  <2>1. \A j \in 1..1 : f[j] <= f[1]
    OBVIOUS
  <2> QED BY <2>1
<1>3. Bad = {}
  <2> SUFFICES ASSUME Bad # {} PROVE FALSE
    OBVIOUS
  <2>1. Bad \subseteq Nat
    OBVIOUS
  <2> HIDE DEF Top
  <2>2. \E n \in Bad : \A m \in Bad : ~ (<<m, n>> \in OpToRel(<, Nat))
    <3> HIDE DEF Bad
    <3> QED BY <2>1, WFMin, NatLessThanWellFounded
  <2>3. PICK n \in Bad : \A m \in Bad : ~ (<<m, n>> \in OpToRel(<, Nat))
    BY <2>2
  <2>4. n \in 1..L /\ ~Top(n) /\ n # 1
    BY <1>2
  <2>5. n - 1 \in 1..L /\ n - 1 < n /\ n - 1 \in Nat /\ n \in Nat
    BY <2>4
  <2>6. n - 1 \notin Bad
    BY <2>3, <2>5 DEF OpToRel
  <2>7. Top(n - 1)
    BY <2>5, <2>6
  <2> QED BY <1>1, <2>4, <2>7
<1>4. L \in 1..L
  OBVIOUS
<1> QED BY <1>3, <1>4

\* The settled bar's extremes are the session's lowest and highest trades.
LEMMA ExtremesOfSession ==
  ASSUME G!SignalsAssumption, SessionTypes, trades # <<>>
  PROVE  /\ Min(G!Traded) \in G!Traded /\ \A p \in G!Traded : Min(G!Traded) <= p
         /\ Max(G!Traded) \in G!Traded /\ \A p \in G!Traded : p <= Max(G!Traded)
         /\ G!Traded \subseteq Nat
<1>1. trades \in Seq(Nat)
  BY SeqMonotonic DEF G!SignalsAssumption, SessionTypes
<1>2. G!Traded \in SUBSET Nat /\ G!Traded # {}
  <2>1. Len(trades) \in Nat /\ DOMAIN trades = 1..Len(trades) /\ Len(trades) > 0
    BY <1>1
  <2>2. \A i \in 1..Len(trades) : trades[i] \in Nat
    BY <1>1, ElementOfSeq
  <2>3. 1 \in DOMAIN trades
    BY <2>1
  <2> QED BY <2>1, <2>2, <2>3 DEF G!Traded
<1>3. Min(G!Traded) \in G!Traded /\ \A p \in G!Traded : Min(G!Traded) <= p
  BY <1>2, LeastOf
<1>4. Max(G!Traded) \in G!Traded /\ \A p \in G!Traded : p <= Max(G!Traded)
  <2>1. Len(trades) \in Nat /\ DOMAIN trades = 1..Len(trades) /\ Len(trades) > 0
    BY <1>1
  <2>2. \A i \in 1..Len(trades) : trades[i] \in Int
    BY <1>1, ElementOfSeq
  <2>3. PICK i \in 1..Len(trades) : \A j \in 1..Len(trades) : trades[j] <= trades[i]
    BY <2>1, <2>2, HighestOf
  <2>4. trades[i] \in G!Traded /\ \A p \in G!Traded : trades[i] >= p
    BY <2>1, <2>2, <2>3 DEF G!Traded
  <2> QED BY <2>4 DEF Max
<1> QED BY <1>2, <1>3, <1>4

\* The indicator rows have numbers, and a band's breach is kept by a further price.
LEMMA BreachIsMonotone ==
  ASSUME NEW level \in Int, NEW p \in Int, NEW q \in Int, NEW side \in G!Sides,
         G!Breached(p, level, side), IF side = "long" THEN q <= p ELSE q >= p
  PROVE  G!Breached(q, level, side)
BY DEF G!Breached, G!Sides

TypesOf(side) == {G!Specificity[side][i] : i \in 1..4}

\* The types of a side, by their place among its types, and none twice.
LEMMA TypesOfSide ==
  ASSUME NEW side \in G!Sides
  PROVE  /\ TypesOf(side) = {G!Specificity[side][1], G!Specificity[side][2], G!Specificity[side][3],
                            G!Specificity[side][4]}
         /\ \A i, j \in 1..4 : G!Specificity[side][i] = G!Specificity[side][j] => i = j
         /\ \A i \in 1..4 : G!Specificity[side][i] \in G!CloseTypes <=> i = 1
         /\ \A i \in 1..4 : G!Specificity[side][i] = "confluence_high" => i = 2
         /\ \A i \in 1..4 : G!Specificity[side][i] # "none" /\ G!Specificity[side][i] # "unknown"
<1> DEFINE a == G!Specificity[side][1]
           b == G!Specificity[side][2]
           c == G!Specificity[side][3]
           d == G!Specificity[side][4]
<1>1. \A i \in 1..4 : i = 1 \/ i = 2 \/ i = 3 \/ i = 4
  OBVIOUS
<1>2. /\ a \in G!CloseTypes /\ b \notin G!CloseTypes /\ c \notin G!CloseTypes /\ d \notin G!CloseTypes
      /\ a # b /\ a # c /\ a # d /\ b # c /\ b # d /\ c # d
      /\ a # "confluence_high" /\ c # "confluence_high" /\ d # "confluence_high"
      /\ a # "none" /\ b # "none" /\ c # "none" /\ d # "none"
      /\ a # "unknown" /\ b # "unknown" /\ c # "unknown" /\ d # "unknown"
  <2>1. CASE side = "long"
    <3>1. /\ a = "bull_close_below_lower" /\ b = "confluence_low"
          /\ c = "bb_lower_touch" /\ d = "stoch_oversold"
      BY <2>1 DEF G!Specificity
    <3> HIDE DEF a, b, c, d
    <3> QED BY <3>1 DEF G!CloseTypes
  <2>2. CASE side = "short"
    <3>1. /\ a = "bear_close_above_upper" /\ b = "confluence_high"
          /\ c = "bb_upper_touch" /\ d = "stoch_overbought"
      BY <2>2 DEF G!Specificity
    <3> HIDE DEF a, b, c, d
    <3> QED BY <3>1 DEF G!CloseTypes
  <2> QED BY <2>1, <2>2 DEF G!Sides
<1>4. \A i \in 1..4 : G!Specificity[side][i] \in G!CloseTypes <=> i = 1
  BY <1>1, <1>2
<1>5. \A i \in 1..4 : G!Specificity[side][i] = "confluence_high" => i = 2
  BY <1>1, <1>2
<1>6. \A i \in 1..4 : G!Specificity[side][i] # "none" /\ G!Specificity[side][i] # "unknown"
  BY <1>1, <1>2
<1>7. \A i, j \in 1..4 : G!Specificity[side][i] = G!Specificity[side][j] => i = j
  BY <1>1, <1>2
<1>8. TypesOf(side) = {a, b, c, d}
  <2> HIDE DEF a, b, c, d
  <2>1. 1..4 = {1, 2, 3, 4}
    OBVIOUS
  <2> QED BY <2>1 DEF TypesOf, a, b, c, d
<1> QED BY <1>4, <1>5, <1>6, <1>7, <1>8

\* What fires, type by type.
LEMMA FiredIs ==
  ASSUME NEW side \in G!Sides, NEW price, NEW ind, NEW confirmed, confirmed \in BOOLEAN
  PROVE  /\ G!Fired(side, price, ind, confirmed) \subseteq Enabled \cap TypesOf(side)
         /\ G!Specificity[side][1] \in G!Fired(side, price, ind, confirmed)
              <=> confirmed /\ G!Specificity[side][1] \in Enabled
         /\ G!Specificity[side][2] \in G!Fired(side, price, ind, confirmed) <=>
              /\ G!Breached(price, G!Band(ind, side), side) /\ G!Stretched(ind, side)
              /\ G!FastAgrees(ind, side) /\ G!Specificity[side][2] \in Enabled
         /\ G!Specificity[side][3] \in G!Fired(side, price, ind, confirmed) <=>
              G!Breached(price, G!Band(ind, side), side) /\ G!Specificity[side][3] \in Enabled
         /\ G!Specificity[side][4] \in G!Fired(side, price, ind, confirmed) <=>
              G!Stretched(ind, side) /\ G!Specificity[side][4] \in Enabled
<1> DEFINE touch == G!Breached(price, G!Band(ind, side), side)
           stretched == G!Stretched(ind, side)
           agrees == G!FastAgrees(ind, side)
           met == <<confirmed, touch /\ stretched /\ agrees, touch, stretched>>
           fires == {G!Specificity[side][i] : i \in {i \in 1..4 : met[i]}} \cap Enabled
<1>1. G!Fired(side, price, ind, confirmed) = fires
  BY DEF G!Fired
<1>2. \A i \in 1..4 : G!Specificity[side][i] \in fires <=> met[i] /\ G!Specificity[side][i] \in Enabled
  <2> HIDE DEF met
  <2> QED BY TypesOfSide
<1>3. met[1] = confirmed /\ met[2] = (touch /\ stretched /\ agrees) /\ met[3] = touch
      /\ met[4] = stretched
  BY Zenon
<1>4. fires \subseteq Enabled \cap TypesOf(side)
  <2> HIDE DEF met
  <2> QED BY DEF TypesOf
<1> HIDE DEF met
<1>5. /\ G!Specificity[side][1] \in fires <=> met[1] /\ G!Specificity[side][1] \in Enabled
      /\ G!Specificity[side][2] \in fires <=> met[2] /\ G!Specificity[side][2] \in Enabled
      /\ G!Specificity[side][3] \in fires <=> met[3] /\ G!Specificity[side][3] \in Enabled
      /\ G!Specificity[side][4] \in fires <=> met[4] /\ G!Specificity[side][4] \in Enabled
  BY <1>2
<1> HIDE DEF fires, touch, stretched, agrees
<1> QED BY <1>1, <1>3, <1>4, <1>5 DEF touch, stretched, agrees

\* The lead of a hit is its most specific type, and Rank tells its place.
LEMMA LeadIs ==
  ASSUME NEW side \in G!Sides, NEW ind, NEW types, types # {},
         types \subseteq TypesOf(side)
  PROVE  LET lead == G!Hit(side, types, ind).lead
         IN  /\ lead \in types
             /\ G!Specificity[side][1] \in types => lead = G!Specificity[side][1]
             /\ \A t \in types : G!Rank(side, lead) <= G!Rank(side, t)
             /\ \A t \in types : G!Rank(side, t) \in 1..4
<1> DEFINE places == {i \in 1..4 : G!Specificity[side][i] \in types}
           first == Min(places)
           lead == G!Specificity[side][first]
<1>1. places \in SUBSET Nat /\ places # {}
  BY DEF TypesOf
<1>2. first \in places /\ \A i \in places : first <= i
  <2> HIDE DEF places
  <2> QED BY <1>1, LeastOf
<1>3. G!Hit(side, types, ind).lead = lead
  BY SameExtrema DEF G!Hit
<1>4. ASSUME NEW i \in 1..4 PROVE G!Rank(side, G!Specificity[side][i]) = i
  <2> DEFINE same == {j \in 1..4 : G!Specificity[side][j] = G!Specificity[side][i]}
  <2>1. same = {i}
    BY TypesOfSide
  <2>2. same \in SUBSET Nat /\ same # {}
    BY <2>1
  <2>3. Min(same) \in same
    <3> HIDE DEF same
    <3> QED BY <2>2, LeastOf
  <2>4. G!Rank(side, G!Specificity[side][i]) = Min(same)
    BY SameExtrema DEF G!Rank
  <2> QED BY <2>1, <2>3, <2>4
<1>5. first \in 1..4 /\ lead \in types
  BY <1>2
<1>6. G!Rank(side, lead) = first
  BY <1>4, <1>5
<1>7. ASSUME NEW t \in types PROVE G!Rank(side, lead) <= G!Rank(side, t) /\ G!Rank(side, t) \in 1..4
  <2>1. PICK i \in 1..4 : t = G!Specificity[side][i]
    BY DEF TypesOf
  <2>2. first <= i
    BY <1>2, <2>1
  <2> HIDE DEF lead, first
  <2> QED BY <1>4, <1>6, <2>1, <2>2
<1>8. G!Specificity[side][1] \in types => first = 1
  BY <1>2
<1> HIDE DEF first
<1> QED BY <1>3, <1>5, <1>7, <1>8

\* The rows have numbers, and the bands with them.
LEMMA BandsAreNumbers ==
  ASSUME G!SignalsAssumption, SessionTypes, prior # G!Missing, NEW side \in G!Sides
  PROVE  G!Band(prior, side) \in Int
BY DEF G!SignalsAssumption, SessionTypes, G!Band

\* What a quote fires, the settled bar fires too: its extreme is at or beyond every trade.
LEMMA QuotesFireOnTheBar ==
  ASSUME G!SignalsAssumption, SessionTypes, trades # <<>>, prior # G!Missing,
         NEW side \in G!Sides, NEW p \in G!Traded, NEW confirmed \in BOOLEAN
  PROVE  LET extreme == IF side = "long" THEN Min(G!Traded) ELSE Max(G!Traded)
         IN  G!Fired(side, p, prior, FALSE) \subseteq G!Fired(side, extreme, prior, confirmed)
<1> DEFINE extreme == IF side = "long" THEN Min(G!Traded) ELSE Max(G!Traded)
           before == G!Fired(side, p, prior, FALSE)
           after  == G!Fired(side, extreme, prior, confirmed)
<1>1. /\ extreme \in Int /\ p \in Int
      /\ IF side = "long" THEN extreme <= p ELSE extreme >= p
  BY ExtremesOfSession
<1>2. G!Band(prior, side) \in Int
  BY BandsAreNumbers
<1> HIDE DEF extreme
<1>3. G!Breached(p, G!Band(prior, side), side) => G!Breached(extreme, G!Band(prior, side), side)
  BY <1>1, <1>2, BreachIsMonotone
<1>4. before \subseteq TypesOf(side)
  BY FiredIs
<1>5. ASSUME NEW t \in before PROVE t \in after
  <2>1. \/ t = G!Specificity[side][1] \/ t = G!Specificity[side][2] \/ t = G!Specificity[side][3]
        \/ t = G!Specificity[side][4]
    BY <1>4, TypesOfSide
  <2>2. t # G!Specificity[side][1]
    BY FiredIs
  <2>3. CASE t = G!Specificity[side][2]
    <3>1. G!Breached(p, G!Band(prior, side), side) /\ G!Stretched(prior, side) /\ G!FastAgrees(prior, side)
          /\ G!Specificity[side][2] \in Enabled
      BY <2>3, FiredIs
    <3> QED BY <1>3, <2>3, <3>1, FiredIs
  <2>4. CASE t = G!Specificity[side][3]
    <3>1. G!Breached(p, G!Band(prior, side), side) /\ G!Specificity[side][3] \in Enabled
      BY <2>4, FiredIs
    <3> QED BY <1>3, <2>4, <3>1, FiredIs
  <2>5. CASE t = G!Specificity[side][4]
    <3>1. G!Stretched(prior, side) /\ G!Specificity[side][4] \in Enabled
      BY <2>5, FiredIs
    <3> QED BY <2>5, <3>1, FiredIs
  <2> QED BY <2>1, <2>2, <2>3, <2>4, <2>5
<1> QED BY <1>5 DEF extreme

\* The close adds its own type and no other.
LEMMA CloseAddsItsOwn ==
  ASSUME NEW side \in G!Sides, NEW price, NEW ind, NEW confirmed \in BOOLEAN
  PROVE  G!Fired(side, price, ind, confirmed) \ G!CloseTypes = G!Fired(side, price, ind, FALSE)
<1> DEFINE with == G!Fired(side, price, ind, confirmed)
           none == G!Fired(side, price, ind, FALSE)
<1>1. G!Specificity[side][1] \in G!CloseTypes /\ G!Specificity[side][2] \notin G!CloseTypes
      /\ G!Specificity[side][3] \notin G!CloseTypes /\ G!Specificity[side][4] \notin G!CloseTypes
  BY TypesOfSide
<1>2. /\ G!Specificity[side][1] \notin none
      /\ G!Specificity[side][2] \in with <=> G!Specificity[side][2] \in none
      /\ G!Specificity[side][3] \in with <=> G!Specificity[side][3] \in none
      /\ G!Specificity[side][4] \in with <=> G!Specificity[side][4] \in none
  <2>1. /\ G!Specificity[side][2] \in with <=>
             G!Breached(price, G!Band(ind, side), side) /\ G!Stretched(ind, side) /\ G!FastAgrees(ind, side)
             /\ G!Specificity[side][2] \in Enabled
        /\ G!Specificity[side][3] \in with <=>
             G!Breached(price, G!Band(ind, side), side) /\ G!Specificity[side][3] \in Enabled
        /\ G!Specificity[side][4] \in with <=> G!Stretched(ind, side) /\ G!Specificity[side][4] \in Enabled
    BY FiredIs
  <2>2. /\ G!Specificity[side][1] \notin none
        /\ G!Specificity[side][2] \in none <=>
             G!Breached(price, G!Band(ind, side), side) /\ G!Stretched(ind, side) /\ G!FastAgrees(ind, side)
             /\ G!Specificity[side][2] \in Enabled
        /\ G!Specificity[side][3] \in none <=>
             G!Breached(price, G!Band(ind, side), side) /\ G!Specificity[side][3] \in Enabled
        /\ G!Specificity[side][4] \in none <=> G!Stretched(ind, side) /\ G!Specificity[side][4] \in Enabled
    BY FiredIs
  <2> HIDE DEF with, none
  <2> QED BY <2>1, <2>2
<1>3. with \cup none \subseteq TypesOf(side)
  BY FiredIs
<1> HIDE DEF with, none
<1>4. \A t \in with \cup none : \/ t = G!Specificity[side][1] \/ t = G!Specificity[side][2]
                                \/ t = G!Specificity[side][3] \/ t = G!Specificity[side][4]
  BY <1>3, TypesOfSide
<1>5. with \ G!CloseTypes = none
  BY <1>1, <1>2, <1>4
<1> QED BY <1>5 DEF with, none

\* A session the poller watched is judged by the row it was watched against.
LEMMA WatchedIsJudged ==
  ASSUME SignalsInv, G!Polled, NEW hits \in {settled, measured} \ {G!Unknown}, NEW side \in G!Sides
  PROVE  LET extreme == IF side = "long" THEN Min(G!Traded) ELSE Max(G!Traded)
         IN  /\ closed /\ trades # <<>>
             /\ hits[side] = G!Hit(side, G!Fired(side, extreme, prior, G!Confirmed(side)), prior)
<1>1. prior # G!Missing /\ G!Complete(prior)
  BY DEF G!Polled
<1>2. G!Latest = prior /\ G!Skipping(prior) = G!Detect(prior)
  BY <1>1 DEF G!Latest, G!Skipping
<1>3. hits = G!Detect(prior)
  BY <1>1, <1>2 DEF SignalsInv, VerdictsStand, G!Settled, G!Measured
<1>4. closed /\ trades # <<>>
  BY DEF SignalsInv, VerdictsStand
<1> QED BY <1>3, <1>4, SameExtrema DEF G!Detect

-----------------------------------------------------------------------------
(* Signals: the steps.                                                     *)

LEMMA SignalsInit == G!Init => SignalsInv
<1> SUFFICES ASSUME G!Init PROVE SignalsInv
  OBVIOUS
<1>1. SessionTypes
  <2>1. trades \in Seq(Quotes)
    BY DEF G!Init
  <2>2. closed \in BOOLEAN /\ near \in BOOLEAN
    BY DEF G!Init
  <2>3. sampled \subseteq G!Traded /\ DOMAIN live = G!Sides
    BY DEF G!Init
  <2> QED BY <2>1, <2>2, <2>3 DEF G!Init, SessionTypes
<1>2. LiveIsOfQuotes
  BY DEF G!Init, LiveIsOfQuotes
<1>3. SaidIsOfTrades /\ VerdictsStand
  BY DEF G!Init, SaidIsOfTrades, VerdictsStand
<1> QED BY <1>1, <1>2, <1>3 DEF SignalsInv

\* A trade that is quoted adds what it fires, and a report that has not been made.
LEMMA TradeKeeps ==
  ASSUME G!SignalsAssumption, SignalsInv, G!Trade
  PROVE  SignalsInv'
<1>1. PICK price \in Quotes :
        /\ trades' = Append(trades, price)
        /\ \/ UNCHANGED <<sampled, live, said>>
           \/ /\ G!Polled
              /\ sampled' = sampled \cup {price}
              /\ live' = [side \in G!Sides |-> live[side] \cup G!BreachLive(price, prior)[side]]
              /\ \E open \in {trades'[1], G!Null} :
                   said' = said \cup {r \in G!Reports(price, open) : \A old \in said : old.lead # r.lead}
  BY DEF G!Trade
<1>2. UNCHANGED <<prior, older, near, closed, own, settled, measured>> /\ ~closed
  BY DEF G!Trade
<1>3. trades \in Seq(Quotes) /\ Len(trades) \in Nat /\ DOMAIN trades = 1..Len(trades)
  BY DEF SignalsInv, SessionTypes
<1>4. /\ trades' \in Seq(Quotes) /\ Len(trades') = Len(trades) + 1
      /\ DOMAIN trades' = 1..(Len(trades) + 1)
      /\ \A i \in 1..Len(trades) : trades'[i] = trades[i]
      /\ trades'[Len(trades) + 1] = price
  BY <1>1, <1>3
<1>5. G!Traded \subseteq G!Traded' /\ price \in G!Traded'
  <2>1. \A i \in DOMAIN trades : i \in DOMAIN trades' /\ trades'[i] = trades[i]
    BY <1>3, <1>4
  <2>2. Len(trades) + 1 \in DOMAIN trades'
    BY <1>3, <1>4
  <2> QED BY <1>4, <2>1, <2>2 DEF G!Traded
<1>6. SessionTypes'
  BY <1>1, <1>2, <1>4, <1>5 DEF SignalsInv, SessionTypes
<1>7. G!Polled' = G!Polled
  BY <1>2 DEF G!Polled, G!Complete
<1>8. LiveIsOfQuotes'
  <2>1. CASE UNCHANGED <<sampled, live, said>>
    BY <1>2, <1>7, <2>1 DEF SignalsInv, LiveIsOfQuotes
  <2>2. CASE /\ G!Polled /\ sampled' = sampled \cup {price}
             /\ live' = [side \in G!Sides |-> live[side] \cup G!BreachLive(price, prior)[side]]
    <3>1. ASSUME NEW side \in G!Sides
          PROVE  live'[side] = UNION {G!BreachLive(p, prior)[side] : p \in sampled'}
      <4>1. live'[side] = live[side] \cup G!BreachLive(price, prior)[side]
        BY <2>2
      <4>2. live[side] = UNION {G!BreachLive(p, prior)[side] : p \in sampled}
        BY DEF SignalsInv, LiveIsOfQuotes
      <4> QED BY <2>2, <4>1, <4>2
    <3> QED BY <1>2, <1>7, <2>2, <3>1 DEF LiveIsOfQuotes
  <2> QED BY <1>1, <2>1, <2>2
<1>9. SaidIsOfTrades'
  <2>1. ASSUME NEW r \in said
        PROVE  /\ G!Polled /\ r.side \in G!Sides /\ r.at \in DOMAIN trades' /\ r.open \in {trades'[1], G!Null}
               /\ G!BreachLive(trades'[r.at], prior)[r.side] # {}
               /\ r.lead = G!Hit(r.side, G!BreachLive(trades'[r.at], prior)[r.side], prior).lead
    <3>1. /\ G!Polled /\ r.side \in G!Sides /\ r.at \in DOMAIN trades /\ r.open \in {trades[1], G!Null}
          /\ G!BreachLive(trades[r.at], prior)[r.side] # {}
          /\ r.lead = G!Hit(r.side, G!BreachLive(trades[r.at], prior)[r.side], prior).lead
      BY DEF SignalsInv, SaidIsOfTrades
    <3>2. r.at \in DOMAIN trades' /\ trades'[r.at] = trades[r.at] /\ trades'[1] = trades[1]
      BY <1>3, <1>4, <3>1
    <3> QED BY <3>1, <3>2
  <2>2. ASSUME G!Polled, NEW open \in {trades'[1], G!Null}, NEW r \in G!Reports(price, open)
        PROVE  /\ r.side \in G!Sides /\ r.at \in DOMAIN trades' /\ r.open \in {trades'[1], G!Null}
               /\ G!BreachLive(trades'[r.at], prior)[r.side] # {}
               /\ r.lead = G!Hit(r.side, G!BreachLive(trades'[r.at], prior)[r.side], prior).lead
    <3>1. PICK side \in {x \in G!Sides : G!BreachLive(price, prior)[x] # {}} :
            r = [side |-> side, lead |-> G!Hit(side, G!BreachLive(price, prior)[side], prior).lead,
                 at |-> Len(trades) + 1, open |-> open]
      BY <2>2 DEF G!Reports
    <3>2. r.side = side /\ r.at = Len(trades) + 1 /\ r.open = open
          /\ r.lead = G!Hit(side, G!BreachLive(price, prior)[side], prior).lead
      BY <3>1
    <3>3. trades'[r.at] = price /\ r.at \in DOMAIN trades'
      BY <1>3, <1>4, <3>2
    <3> QED BY <2>2, <3>1, <3>2, <3>3
  <2>3. CASE UNCHANGED <<sampled, live, said>>
    BY <1>2, <1>7, <2>1, <2>3 DEF SaidIsOfTrades
  <2>4. CASE G!Polled /\ \E open \in {trades'[1], G!Null} :
               said' = said \cup {r \in G!Reports(price, open) : \A old \in said : old.lead # r.lead}
    BY <1>2, <1>7, <2>1, <2>2, <2>4 DEF SaidIsOfTrades
  <2> QED BY <1>1, <2>3, <2>4
<1>10. VerdictsStand'
  BY <1>2 DEF SignalsInv, VerdictsStand
<1> QED BY <1>6, <1>8, <1>9, <1>10 DEF SignalsInv

\* The close and the detections leave the session as it was.
LEMMA JudgingKeeps ==
  ASSUME G!SignalsAssumption, SignalsInv, G!Close \/ G!Nightly \/ G!Backtest \/ UNCHANGED G!vars
  PROVE  SignalsInv'
<1>1. UNCHANGED <<prior, older, near, trades, sampled, live, said>>
  BY DEF G!Close, G!Nightly, G!Backtest, G!vars
<1>2. SessionTypes'
  <2>1. closed' \in BOOLEAN
    BY DEF G!Close, G!Nightly, G!Backtest, G!vars, SignalsInv, SessionTypes
  <2> QED BY <1>1, <2>1 DEF SignalsInv, SessionTypes, G!Traded
<1>3. LiveIsOfQuotes'
  BY <1>1 DEF SignalsInv, LiveIsOfQuotes, G!Polled, G!Complete
<1>4. SaidIsOfTrades'
  BY <1>1 DEF SignalsInv, SaidIsOfTrades, G!Polled, G!Complete
<1>5. VerdictsStand'
  <2>1. CASE G!Close
    BY <2>1 DEF G!Close, SignalsInv, VerdictsStand
  <2>2. CASE ~G!Close
    <3>1. closed' = closed /\ own' = own
      BY <2>2 DEF G!Nightly, G!Backtest, G!vars
    <3>2. G!Settled' = G!Settled /\ G!Measured' = G!Measured
      BY <1>1, <3>1 DEF G!Settled, G!Measured, G!Skipping, G!Latest, G!Complete, G!Detect, G!NoHits, G!Traded,
                        G!Confirmed, G!Opening, G!Closing
    <3>3. /\ settled' = settled \/ (closed /\ settled' = G!Settled)
          /\ measured' = measured \/ (closed /\ measured' = G!Measured)
      BY <2>2 DEF G!Nightly, G!Backtest, G!vars
    <3> QED BY <1>1, <3>1, <3>2, <3>3 DEF SignalsInv, VerdictsStand
  <2> QED BY <2>1, <2>2
<1> QED BY <1>2, <1>3, <1>4, <1>5 DEF SignalsInv

LEMMA SignalsInvariant == G!SignalsAssumption /\ G!Spec => []SignalsInv
<1> SUFFICES ASSUME G!SignalsAssumption PROVE G!Spec => []SignalsInv
  OBVIOUS
<1>1. G!Init => SignalsInv
  BY SignalsInit
<1>2. SignalsInv /\ [G!Next]_(G!vars) => SignalsInv'
  BY TradeKeeps, JudgingKeeps DEF G!Next
<1> QED BY <1>1, <1>2, PTL DEF G!Spec

-----------------------------------------------------------------------------
(* Signals: what it promises.                                              *)

LEMMA InvSettles ==
  ASSUME G!SignalsAssumption, SignalsInv
  PROVE  G!LiveFiresSettle
<1> SUFFICES ASSUME NEW hits \in {settled, measured} \ {G!Unknown}, NEW side \in G!Sides
             PROVE  /\ live[side] \subseteq hits[side].types
                    /\ live[side] # {} =>
                         G!Rank(side, hits[side].lead) <= Min({G!Rank(side, t) : t \in live[side]})
                    /\ G!Polled /\ {Min(G!Traded), Max(G!Traded)} \subseteq sampled =>
                         hits[side].types \ G!CloseTypes = live[side]
  BY SameExtrema DEF G!LiveFiresSettle
<1> DEFINE extreme == IF side = "long" THEN Min(G!Traded) ELSE Max(G!Traded)
           fires == G!Fired(side, extreme, prior, G!Confirmed(side))
<1>1. SessionTypes /\ trades # <<>>
  BY DEF SignalsInv, VerdictsStand
<1>2. live[side] = UNION {G!BreachLive(p, prior)[side] : p \in sampled}
  BY DEF SignalsInv, LiveIsOfQuotes
<1>3. \A p : G!BreachLive(p, prior)[side] = G!Fired(side, p, prior, FALSE)
  BY DEF G!BreachLive
<1>4. CASE sampled = {}
  <2>1. live[side] = {}
    BY <1>2, <1>4
  <2> QED BY <1>4, <2>1
<1>5. CASE sampled # {}
  <2>1. G!Polled /\ prior # G!Missing
    BY <1>5 DEF SignalsInv, LiveIsOfQuotes, G!Polled
  <2>2. hits[side] = G!Hit(side, fires, prior)
    BY <2>1, WatchedIsJudged
  <2>3. G!Confirmed(side) \in BOOLEAN
    BY DEF G!Confirmed, G!Breached
  <2> HIDE DEF fires
  <2>4. hits[side].types = fires
    BY <2>2 DEF G!Hit
  <2>5. \A p \in sampled : p \in G!Traded
    BY <1>1 DEF SessionTypes
  <2>6. live[side] \subseteq fires
    <3>1. \A p \in sampled : G!Fired(side, p, prior, FALSE) \subseteq fires
      BY <1>1, <2>1, <2>3, <2>5, QuotesFireOnTheBar DEF fires
    <3> QED BY <1>2, <1>3, <3>1
  <2>7. ASSUME live[side] # {}
        PROVE  G!Rank(side, hits[side].lead) <= Min({G!Rank(side, t) : t \in live[side]})
    <3> DEFINE ranks == {G!Rank(side, t) : t \in live[side]}
    <3>1. fires # {} /\ fires \subseteq TypesOf(side)
      BY <2>3, <2>6, <2>7, FiredIs DEF fires
    <3>2. \A t \in fires : G!Rank(side, hits[side].lead) <= G!Rank(side, t) /\ G!Rank(side, t) \in 1..4
      BY <2>2, <3>1, LeadIs
    <3>3. ranks \in SUBSET Nat /\ ranks # {}
      BY <2>6, <2>7, <3>2
    <3>4. Min(ranks) \in ranks
      <4> HIDE DEF ranks
      <4> QED BY <3>3, LeastOf
    <3> QED BY <2>6, <3>2, <3>4
  <2>8. ASSUME {Min(G!Traded), Max(G!Traded)} \subseteq sampled
        PROVE  hits[side].types \ G!CloseTypes = live[side]
    <3>1. extreme \in sampled
      BY <2>8
    <3>2. fires \ G!CloseTypes = G!Fired(side, extreme, prior, FALSE)
      BY <2>3, CloseAddsItsOwn DEF fires
    <3>3. G!Fired(side, extreme, prior, FALSE) \subseteq live[side]
      <4> HIDE DEF extreme
      <4> QED BY <1>2, <1>3, <3>1
    <3>4. \A p \in sampled : G!Fired(side, p, prior, FALSE) \cap G!CloseTypes = {}
      BY CloseAddsItsOwn
    <3>5. live[side] \cap G!CloseTypes = {}
      BY <1>2, <1>3, <3>4
    <3> HIDE DEF extreme
    <3> QED BY <2>4, <2>6, <3>2, <3>3, <3>5
  <2> QED BY <2>4, <2>6, <2>7, <2>8
<1> QED BY <1>4, <1>5

LEMMA InvCalls ==
  ASSUME G!SignalsAssumption, SignalsInv
  PROVE  G!CallsAreHonest
<1> SUFFICES ASSUME NEW r \in said
             PROVE  LET call == G!ReversalState(r.side, trades[r.at], r.open, prior)
                    IN  /\ r.lead = "confluence_high" => G!Tag(call) # "inside"
                        /\ /\ closed /\ r.at = Len(trades) /\ r.open # G!Null /\ own # G!Missing
                           /\ G!Breached(G!Closing, G!Band(own, r.side), r.side) = call.beyond
                           => /\ call.confirmed = G!Confirmed(r.side)
                              /\ \A hits \in {settled, measured} \ {G!Unknown} :
                                   call.confirmed /\ G!Specificity[r.side][1] \in Enabled
                                     <=> hits[r.side].lead \in G!CloseTypes
  BY DEF G!CallsAreHonest
<1> DEFINE side == r.side
           call == G!ReversalState(side, trades[r.at], r.open, prior)
           fires == G!Fired(side, trades[r.at], prior, FALSE)
<1>1. /\ G!Polled /\ side \in G!Sides /\ r.at \in DOMAIN trades /\ r.open \in {trades[1], G!Null}
      /\ fires # {} /\ r.lead = G!Hit(side, fires, prior).lead
  BY DEF SignalsInv, SaidIsOfTrades, G!BreachLive
<1>2. call.beyond = G!Breached(trades[r.at], G!Band(prior, side), side)
      /\ call.confirmed = G!Reverses(side, trades[r.at], r.open, prior)
  BY DEF G!ReversalState
<1>3. ASSUME r.lead = "confluence_high" PROVE G!Tag(call) # "inside"
  <2>1. fires \subseteq TypesOf(side)
    BY <1>1, FiredIs
  <2>2. r.lead \in fires
    <3> HIDE DEF fires, side
    <3> QED BY <1>1, <2>1, LeadIs
  <2>3. r.lead = G!Specificity[side][2]
    <3>1. \E i \in 1..4 : r.lead = G!Specificity[side][i]
      BY <2>1, <2>2 DEF TypesOf
    <3> QED BY <1>1, <1>3, <3>1, TypesOfSide
  <2>4. G!Breached(trades[r.at], G!Band(prior, side), side)
    BY <1>1, <2>2, <2>3, FiredIs
  <2>5. call.beyond
    BY <1>2, <2>4
  <2> HIDE DEF call
  <2> QED BY <2>5 DEF G!Tag
<1>4. ASSUME closed, r.at = Len(trades), r.open # G!Null, own # G!Missing,
             G!Breached(G!Closing, G!Band(own, side), side) = call.beyond
      PROVE  /\ call.confirmed = G!Confirmed(side)
             /\ \A hits \in {settled, measured} \ {G!Unknown} :
                  call.confirmed /\ G!Specificity[side][1] \in Enabled <=> hits[side].lead \in G!CloseTypes
  <2>1. trades[r.at] = G!Closing /\ r.open = G!Opening
    BY <1>1, <1>4 DEF G!Closing, G!Opening
  <2>2. call.confirmed = G!Confirmed(side)
    <3>1. CASE side = "long"
      BY <1>2, <1>4, <2>1, <3>1 DEF G!Reverses, G!Confirmed, G!Band, G!Breached
    <3>2. CASE side = "short"
      BY <1>2, <1>4, <2>1, <3>2 DEF G!Reverses, G!Confirmed, G!Band, G!Breached
    <3> QED BY <1>1, <3>1, <3>2 DEF G!Sides
  <2>3. G!Confirmed(side) \in BOOLEAN
    BY DEF G!Confirmed, G!Breached
  <2>4. ASSUME NEW hits \in {settled, measured} \ {G!Unknown}
        PROVE  G!Confirmed(side) /\ G!Specificity[side][1] \in Enabled <=> hits[side].lead \in G!CloseTypes
    <3> DEFINE extreme == IF side = "long" THEN Min(G!Traded) ELSE Max(G!Traded)
               all == G!Fired(side, extreme, prior, G!Confirmed(side))
    <3>1. hits[side] = G!Hit(side, all, prior)
      BY <1>1, WatchedIsJudged
    <3>2. all \subseteq TypesOf(side)
          /\ (G!Specificity[side][1] \in all <=> G!Confirmed(side) /\ G!Specificity[side][1] \in Enabled)
      BY <1>1, <2>3, FiredIs
    <3> HIDE DEF all, side
    <3>3. CASE all = {}
      <4>1. hits[side].lead = "none"
        BY <3>1, <3>3 DEF G!Hit
      <4> QED BY <3>2, <3>3, <4>1 DEF G!CloseTypes
    <3>4. CASE all # {}
      <4>1. hits[side].lead \in all
            /\ (G!Specificity[side][1] \in all => hits[side].lead = G!Specificity[side][1])
        BY <1>1, <3>1, <3>2, <3>4, LeadIs
      <4>2. G!Specificity[side][1] \in G!CloseTypes
            /\ G!Specificity[side][2] \notin G!CloseTypes /\ G!Specificity[side][3] \notin G!CloseTypes
            /\ G!Specificity[side][4] \notin G!CloseTypes
            /\ TypesOf(side) = {G!Specificity[side][1], G!Specificity[side][2], G!Specificity[side][3],
                                G!Specificity[side][4]}
        BY <1>1, TypesOfSide
      <4> QED BY <3>2, <4>1, <4>2
    <3> QED BY <3>3, <3>4
  <2> QED BY <2>2, <2>4
<1> QED BY <1>3, <1>4

LEMMA InvDetectors ==
  ASSUME SignalsInv
  PROVE  G!DetectorsAgree
BY DEF SignalsInv, VerdictsStand, G!DetectorsAgree, G!Settled, G!Measured

\* Whatever a session trades and whenever the poller looks: what it announced is what
\* both detections find on the settled bar, the same side, no type the bar does not have,
\* a lead no less specific, and all of it when it saw the extremes; a reversal called at
\* the closing quote is the one the close confirms; and the backtest lacks nothing nightly
\* detection finds (breach_live, detect, scan_candidates, _reversal_tag).
THEOREM FiresSettle ==
  ASSUME G!SignalsAssumption
  PROVE  G!Spec => [](G!LiveFiresSettle /\ G!CallsAreHonest /\ G!DetectorsAgree)
<1>1. G!Spec => []SignalsInv
  BY SignalsInvariant
<1>2. SignalsInv => G!LiveFiresSettle /\ G!CallsAreHonest /\ G!DetectorsAgree
  BY InvSettles, InvCalls, InvDetectors
<1> QED BY <1>1, <1>2, PTL

-----------------------------------------------------------------------------
(* Trades: the invariant.                                                  *)

\* What a backtest works with: bars that are bars, and a signal that fired on the first.
Market ==
  /\ stance \in T!Sides /\ exitPolicy \in Policies /\ touchLevel \in {Level, T!Null}
  /\ days \in Seq(Shapes) /\ days # <<>>
  /\ hours \in Seq({hours[i] : i \in DOMAIN hours}) /\ \A i \in DOMAIN hours : T!IsBar(hours[i])
  /\ touchLevel # T!Null => T!AtOrWorse(T!Worst(days[1]), touchLevel)

\* Two rows that may differ in the touch alone.
SameTrade(rec, other) ==
  /\ rec.entry = other.entry /\ rec.exit = other.exit /\ rec.reason = other.reason /\ rec.idx = other.idx
  /\ rec.ambiguous = other.ambiguous /\ rec.gross = other.gross /\ rec.net = other.net
  /\ rec.mfe = other.mfe /\ rec.mae = other.mae /\ rec.forward = other.forward

\* What a row on file has in common with the one that would be written now.
Current(rec, kind) ==
  /\ rec.entry # T!Null => rec.entry = T!Entry(kind)
  /\ rec.forward # T!Null => rec.forward = T!Forward(kind) /\ Len(days) > T!EntryIdx(kind)
  /\ rec.touched > 0 => rec.touched = T!DayTouched(kind)
  /\ T!Resolved(rec) => SameTrade(rec, T!Row(kind))

-----------------------------------------------------------------------------
(* Trades: prices, windows and rules.                                      *)

LEMMA TradeConstants ==
  ASSUME T!TradesAssumption
  PROVE  /\ MaxHold \in Nat \ {0} /\ Level \in Nat /\ Target \in Nat /\ Slip \in Nat
         /\ \A s \in Shapes : T!IsBar(s)
         /\ \A p \in Policies : p.stop \in Nat /\ Slip + p.stop + Target < 1000
BY DEF T!TradesAssumption, T!Null

\* Trades and this module mean the same by least and greatest.
LEMMA SameBounds == ASSUME NEW S PROVE T!Min(S) = Min(S) /\ T!Max(S) = Max(S)
BY DEF T!Min, T!Max, Min, Max

\* The bars a position may be held through follow its entry, MaxHold at most.
Held(d, e) == SubSeq(d, e + 1, T!Min({Len(d), e + MaxHold}))

LEMMA HeldFacts ==
  ASSUME T!TradesAssumption, NEW d \in Seq(Shapes), NEW e \in 1..2
  PROVE  /\ Held(d, e) \in Seq(Shapes) /\ DOMAIN Held(d, e) = 1..Len(Held(d, e))
         /\ Len(Held(d, e)) = IF Len(d) <= e THEN 0 ELSE IF Len(d) <= e + MaxHold THEN Len(d) - e ELSE MaxHold
         /\ \A i \in 1..Len(Held(d, e)) : e + i \in 1..Len(d) /\ Held(d, e)[i] = d[e + i]
<1> DEFINE n == Len(d)
           m == T!Min({n, e + MaxHold})
<1>1. n \in Nat /\ DOMAIN d = 1..n
  OBVIOUS
<1>2. MaxHold \in Nat \ {0}
  BY TradeConstants
<1> HIDE DEF n
<1>3. m = IF n <= e + MaxHold THEN n ELSE e + MaxHold
  <2>1. {n, e + MaxHold} \in SUBSET Nat /\ {n, e + MaxHold} # {}
    BY <1>1, <1>2
  <2>2. m \in {n, e + MaxHold} /\ m <= n /\ m <= e + MaxHold
    BY <2>1, LeastOf, SameBounds
  <2> HIDE DEF m
  <2> QED BY <1>1, <1>2, <2>2
<1> HIDE DEF m
<1>4. Held(d, e) = SubSeq(d, e + 1, m)
  BY DEF Held, m, n
<1>5. e + 1 \in Int /\ m \in Int /\ e + 1 >= 1 /\ m <= n
  BY <1>1, <1>2, <1>3
<1>6. /\ SubSeq(d, e + 1, m) \in Seq(Shapes)
      /\ Len(SubSeq(d, e + 1, m)) = IF e + 1 <= m THEN m - e ELSE 0
      /\ \A i \in 1..Len(SubSeq(d, e + 1, m)) : SubSeq(d, e + 1, m)[i] = d[e + i]
  BY <1>1, <1>5 DEF n
<1>7. Len(Held(d, e)) = IF n <= e THEN 0 ELSE IF n <= e + MaxHold THEN n - e ELSE MaxHold
  BY <1>1, <1>2, <1>3, <1>4, <1>6
<1>8. Held(d, e) \in Seq(Shapes) /\ DOMAIN Held(d, e) = 1..Len(Held(d, e))
  BY <1>4, <1>6
<1>9. ASSUME NEW i \in 1..Len(Held(d, e)) PROVE e + i \in 1..n /\ Held(d, e)[i] = d[e + i]
  <2>1. i \in Nat /\ 1 <= i /\ i <= Len(Held(d, e))
    BY <1>4, <1>6
  <2>2. Held(d, e)[i] = d[e + i]
    BY <1>4, <1>6
  <2>3. e + i \in 1..n
    BY <1>1, <1>2, <1>7, <2>1
  <2> QED BY <2>2, <2>3
<1> QED BY <1>7, <1>8, <1>9 DEF n

LEMMA WindowFacts ==
  ASSUME T!TradesAssumption, Market, NEW kind
  PROVE  /\ T!EntryIdx(kind) \in 1..2
         /\ T!Window(kind) \in Seq(Shapes)
         /\ DOMAIN T!Window(kind) = 1..Len(T!Window(kind))
         /\ Len(T!Window(kind)) = IF Len(days) <= T!EntryIdx(kind) THEN 0
                                  ELSE IF Len(days) <= T!EntryIdx(kind) + MaxHold
                                       THEN Len(days) - T!EntryIdx(kind) ELSE MaxHold
         /\ \A i \in 1..Len(T!Window(kind)) :
              /\ T!EntryIdx(kind) + i \in 1..Len(days)
              /\ T!Window(kind)[i] = days[T!EntryIdx(kind) + i]
              /\ T!IsBar(T!Window(kind)[i])
<1>1. PICK d \in Seq(Shapes), e \in 1..2 : d = days /\ e = T!EntryIdx(kind)
  BY DEF Market, T!EntryIdx
<1>2. T!Window(kind) = Held(d, e)
  BY <1>1 DEF T!Window, Held
<1>3. \A i \in 1..Len(d) : T!IsBar(d[i])
  BY TradeConstants
<1>4. /\ Held(d, e) \in Seq(Shapes) /\ DOMAIN Held(d, e) = 1..Len(Held(d, e))
      /\ Len(Held(d, e)) = IF Len(d) <= e THEN 0 ELSE IF Len(d) <= e + MaxHold THEN Len(d) - e ELSE MaxHold
      /\ \A i \in 1..Len(Held(d, e)) : e + i \in 1..Len(d) /\ Held(d, e)[i] = d[e + i]
  BY HeldFacts
<1> QED BY <1>1, <1>2, <1>3, <1>4

\* The rules of a bar: each, and in which order.
LEMMA TheRules ==
  ASSUME NEW b, NEW p, NEW stop, NEW target
  PROVE  LET rules == T!Rules(b, p, stop, target) IN
         /\ DOMAIN rules = 1..7
         /\ rules[1] = T!AtOpen(b, stop # T!Null /\ T!AtOrWorse(b.open, stop), "stop")
         /\ rules[2] = T!AtOpen(b, T!AtOrBetter(b.open, target), "target")
         /\ rules[3] = [price |-> stop, reason |-> "stop",
                        when |-> stop # T!Null /\ T!AtOrWorse(T!Worst(b), stop)]
         /\ rules[4] = T!Favorable(b, target, "target")
         /\ rules[5] = [T!Favorable(b, T!Mid(p), "mid_band") EXCEPT !.when = @ /\ exitPolicy.mid]
         /\ rules[6] = [T!Favorable(b, T!Far(p), "upper_band") EXCEPT !.when = @ /\ exitPolicy.far]
         /\ rules[7] = [price |-> b.close, reason |-> "stoch_80", when |-> exitPolicy.stoch /\ T!Extreme(b)]
<1> DEFINE r1 == T!AtOpen(b, stop # T!Null /\ T!AtOrWorse(b.open, stop), "stop")
           r2 == T!AtOpen(b, T!AtOrBetter(b.open, target), "target")
           r3 == [price |-> stop, reason |-> "stop", when |-> stop # T!Null /\ T!AtOrWorse(T!Worst(b), stop)]
           r4 == T!Favorable(b, target, "target")
           r5 == [T!Favorable(b, T!Mid(p), "mid_band") EXCEPT !.when = @ /\ exitPolicy.mid]
           r6 == [T!Favorable(b, T!Far(p), "upper_band") EXCEPT !.when = @ /\ exitPolicy.far]
           r7 == [price |-> b.close, reason |-> "stoch_80", when |-> exitPolicy.stoch /\ T!Extreme(b)]
<1>1. T!Rules(b, p, stop, target) = <<r1, r2>> \o <<r3, r4>> \o <<r5, r6, r7>>
  BY DEF T!Rules, T!Gaps, T!InBar
<1> HIDE DEF r1, r2, r3, r4, r5, r6, r7
<1> DEFINE all == {r1, r2, r3, r4, r5, r6, r7}
           gaps == <<r1, r2>>
           inBar == <<r3, r4>>
           after == <<r5, r6, r7>>
<1>2. /\ gaps \in Seq(all) /\ Len(gaps) = 2 /\ gaps[1] = r1 /\ gaps[2] = r2
      /\ inBar \in Seq(all) /\ Len(inBar) = 2 /\ inBar[1] = r3 /\ inBar[2] = r4
      /\ after \in Seq(all) /\ Len(after) = 3 /\ after[1] = r5 /\ after[2] = r6 /\ after[3] = r7
  OBVIOUS
<1>3. T!Rules(b, p, stop, target) = gaps \o inBar \o after
  BY <1>1
<1> HIDE DEF all, gaps, inBar, after
<1>4. gaps \o inBar \in Seq(all) /\ Len(gaps \o inBar) = 4
      /\ (gaps \o inBar)[1] = r1 /\ (gaps \o inBar)[2] = r2 /\ (gaps \o inBar)[3] = r3 /\ (gaps \o inBar)[4] = r4
  <2>1. /\ gaps \o inBar \in Seq(all) /\ Len(gaps \o inBar) = 2 + 2
        /\ \A i \in 1..(2 + 2) : (gaps \o inBar)[i] = IF i <= 2 THEN gaps[i] ELSE inBar[i - 2]
    <3>1. gaps \in Seq(all) /\ inBar \in Seq(all) /\ Len(gaps) = 2 /\ Len(inBar) = 2
      BY <1>2
    <3>2. /\ gaps \o inBar \in Seq(all) /\ Len(gaps \o inBar) = Len(gaps) + Len(inBar)
          /\ \A i \in 1..(Len(gaps) + Len(inBar)) :
               (gaps \o inBar)[i] = IF i <= Len(gaps) THEN gaps[i] ELSE inBar[i - Len(gaps)]
      BY <3>1, ConcatProperties
    <3> QED BY <3>1, <3>2
  <2>2. 1 \in 1..(2 + 2) /\ 2 \in 1..(2 + 2) /\ 3 \in 1..(2 + 2) /\ 4 \in 1..(2 + 2)
    OBVIOUS
  <2>3. 3 - 2 = 1 /\ 4 - 2 = 2 /\ 1 <= 2 /\ 2 <= 2 /\ ~(3 <= 2) /\ ~(4 <= 2) /\ 2 + 2 = 4
    OBVIOUS
  <2> QED BY <1>2, <2>1, <2>2, <2>3
<1>5. LET rules == gaps \o inBar \o after IN
      /\ DOMAIN rules = 1..7 /\ rules[1] = r1 /\ rules[2] = r2 /\ rules[3] = r3 /\ rules[4] = r4
      /\ rules[5] = r5 /\ rules[6] = r6 /\ rules[7] = r7
  <2> DEFINE first == gaps \o inBar
             rules == first \o after
  <2>1. first \in Seq(all) /\ Len(first) = 4 /\ first[1] = r1 /\ first[2] = r2 /\ first[3] = r3 /\ first[4] = r4
    BY <1>4
  <2> HIDE DEF first
  <2>2. /\ rules \in Seq(all) /\ Len(rules) = 4 + 3
        /\ \A i \in 1..(4 + 3) : rules[i] = IF i <= 4 THEN first[i] ELSE after[i - 4]
    <3>1. first \in Seq(all) /\ after \in Seq(all) /\ Len(first) = 4 /\ Len(after) = 3
      BY <1>2, <2>1
    <3>2. /\ first \o after \in Seq(all) /\ Len(first \o after) = Len(first) + Len(after)
          /\ \A i \in 1..(Len(first) + Len(after)) :
               (first \o after)[i] = IF i <= Len(first) THEN first[i] ELSE after[i - Len(first)]
      BY <3>1, ConcatProperties
    <3> QED BY <3>1, <3>2
  <2> HIDE DEF rules
  <2>3. rules[1] = r1 /\ rules[2] = r2 /\ rules[3] = r3 /\ rules[4] = r4
    BY <2>1, <2>2
  <2>4. rules[5] = after[1] /\ rules[6] = after[2] /\ rules[7] = after[3]
    BY <2>2
  <2>5. DOMAIN rules = 1..7
    BY <2>2
  <2> QED BY <1>2, <2>3, <2>4, <2>5 DEF first, rules
<1> QED BY <1>3, <1>5 DEF r1, r2, r3, r4, r5, r6, r7

\* What better and worse mean on each side.
LEMMA Compare ==
  ASSUME Market
  PROVE  /\ stance = "long" \/ stance = "short"
         /\ stance = "long" => T!Sign = 1 /\ stance # "short"
         /\ stance = "short" => T!Sign = -1 /\ stance # "long"
         /\ \A x, y \in Int : stance = "long" => (T!AtOrBetter(x, y) <=> x >= y) /\ (T!AtOrWorse(x, y) <=> x <= y)
         /\ \A x, y \in Int : stance = "short" => (T!AtOrBetter(x, y) <=> x <= y) /\ (T!AtOrWorse(x, y) <=> x >= y)
         /\ \A x, y \in Int : T!Gain(x, y) \in Int
         /\ \A x, y \in Int : stance = "long" => T!Gain(x, y) = y - x
         /\ \A x, y \in Int : stance = "short" => T!Gain(x, y) = x - y
BY DEF Market, T!Sides, T!Sign, T!AtOrBetter, T!AtOrWorse, T!Gain

LEMMA InRange ==
  ASSUME Market, NEW b, T!IsBar(b), NEW m \in Int
  PROVE  /\ T!AtOrBetter(m, m) /\ T!AtOrWorse(m, m)
         /\ T!AtOrBetter(b.open, m) => T!AtOrBetter(T!Best(b), m)
         /\ T!AtOrWorse(b.open, m) => T!AtOrWorse(T!Worst(b), m)
         /\ T!AtOrWorse(T!Worst(b), m) /\ ~T!AtOrWorse(b.open, m) => b.low <= m /\ m <= b.high
         /\ T!AtOrBetter(T!Best(b), m) /\ ~T!AtOrBetter(b.open, m) => b.low <= m /\ m <= b.high
<1>1. /\ b.open \in Int /\ b.high \in Int /\ b.low \in Int
      /\ b.low <= b.open /\ b.open <= b.high
  BY DEF T!IsBar
<1>2. CASE stance = "long"
  <2>1. T!Best(b) = b.high /\ T!Worst(b) = b.low
    BY <1>2 DEF T!Best, T!Worst
  <2>2. ASSUME NEW x \in Int PROVE (T!AtOrBetter(x, m) <=> x >= m) /\ (T!AtOrWorse(x, m) <=> x <= m)
    BY <1>2, Compare
  <2>3. /\ T!AtOrBetter(b.open, m) <=> b.open >= m
        /\ T!AtOrWorse(b.open, m) <=> b.open <= m
        /\ T!AtOrBetter(b.high, m) <=> b.high >= m
        /\ T!AtOrWorse(b.low, m) <=> b.low <= m
        /\ T!AtOrBetter(m, m) /\ T!AtOrWorse(m, m)
    BY <1>1, <2>2
  <2> QED BY <1>1, <2>1, <2>3
<1>3. CASE stance = "short"
  <2>1. T!Best(b) = b.low /\ T!Worst(b) = b.high
    BY <1>3 DEF T!Best, T!Worst
  <2>2. ASSUME NEW x \in Int PROVE (T!AtOrBetter(x, m) <=> x <= m) /\ (T!AtOrWorse(x, m) <=> x >= m)
    BY <1>3, Compare
  <2>3. /\ T!AtOrBetter(b.open, m) <=> b.open <= m
        /\ T!AtOrWorse(b.open, m) <=> b.open >= m
        /\ T!AtOrBetter(b.low, m) <=> b.low <= m
        /\ T!AtOrWorse(b.high, m) <=> b.high >= m
        /\ T!AtOrBetter(m, m) /\ T!AtOrWorse(m, m)
    BY <1>1, <2>2
  <2> QED BY <1>1, <2>1, <2>3
<1> QED BY <1>2, <1>3, Compare

LEMMA BarFacts ==
  ASSUME Market, NEW b, T!IsBar(b)
  PROVE  /\ {b.open, b.high, b.low, b.close, T!Best(b), T!Worst(b)} \subseteq Nat
         /\ b.low <= b.open /\ b.open <= b.high /\ b.low <= b.close /\ b.close <= b.high
         /\ stance = "long" => T!Best(b) = b.high /\ T!Worst(b) = b.low
         /\ stance = "short" => T!Best(b) = b.low /\ T!Worst(b) = b.high
BY Compare DEF T!IsBar, T!Best, T!Worst

LEMMA RuleFires ==
  ASSUME NEW rule, NEW x, NEW y, NEW fires \in BOOLEAN, rule = [price |-> x, reason |-> y, when |-> fires]
  PROVE  rule.price = x /\ rule.reason = y /\ (rule.when <=> fires)
OBVIOUS

\* What the rules that did not fire say of a bar, and what the first that did makes of it.
LEMMA HitFacts ==
  ASSUME Market, NEW b, T!IsBar(b), NEW p, T!IsBar(p), NEW stop \in Int, NEW target \in Int
  PROVE  LET rules == T!Rules(b, p, stop, target)
             hit == rules[T!Min(T!Fired(rules))]
         IN /\ T!Fired(rules) = {} =>
                 (stop # T!Null => ~T!AtOrWorse(T!Worst(b), stop)) /\ ~T!AtOrBetter(T!Best(b), target)
            /\ T!Fired(rules) # {} =>
                 /\ hit.price \in Int /\ b.low <= hit.price /\ hit.price <= b.high
                 /\ hit.reason \in {"stop", "target", "mid_band", "upper_band", "stoch_80"}
                 /\ hit.reason = "stop" => T!AtOrWorse(hit.price, stop)
                 /\ hit.reason = "target" => T!AtOrBetter(hit.price, target) /\ T!AtOrBetter(T!Best(b), target)
                 /\ stop # T!Null /\ hit.reason # "stop" => ~T!AtOrWorse(b.open, stop)
                 /\ stop # T!Null /\ hit.reason # "stop" /\ (hit.reason # "target" \/ hit.price # b.open) =>
                      ~T!AtOrWorse(T!Worst(b), stop)
<1> DEFINE rules == T!Rules(b, p, stop, target)
           fired == T!Fired(rules)
           k == T!Min(fired)
<1>1. /\ DOMAIN rules = 1..7
      /\ rules[1] = [price |-> b.open, reason |-> "stop", when |-> stop # T!Null /\ T!AtOrWorse(b.open, stop)]
      /\ rules[2] = [price |-> b.open, reason |-> "target", when |-> T!AtOrBetter(b.open, target)]
      /\ rules[3] = [price |-> stop, reason |-> "stop", when |-> stop # T!Null /\ T!AtOrWorse(T!Worst(b), stop)]
      /\ rules[4] = [price |-> IF T!AtOrBetter(b.open, target) THEN b.open ELSE target, reason |-> "target",
                     when |-> T!AtOrBetter(T!Best(b), target)]
      /\ rules[5] = [T!Favorable(b, T!Mid(p), "mid_band") EXCEPT !.when = @ /\ exitPolicy.mid]
      /\ rules[6] = [T!Favorable(b, T!Far(p), "upper_band") EXCEPT !.when = @ /\ exitPolicy.far]
      /\ rules[7] = [price |-> b.close, reason |-> "stoch_80", when |-> exitPolicy.stoch /\ T!Extreme(b)]
  <2>1. /\ DOMAIN rules = 1..7
        /\ rules[1] = T!AtOpen(b, stop # T!Null /\ T!AtOrWorse(b.open, stop), "stop")
        /\ rules[2] = T!AtOpen(b, T!AtOrBetter(b.open, target), "target")
        /\ rules[3] = [price |-> stop, reason |-> "stop",
                       when |-> stop # T!Null /\ T!AtOrWorse(T!Worst(b), stop)]
        /\ rules[4] = T!Favorable(b, target, "target")
        /\ rules[5] = [T!Favorable(b, T!Mid(p), "mid_band") EXCEPT !.when = @ /\ exitPolicy.mid]
        /\ rules[6] = [T!Favorable(b, T!Far(p), "upper_band") EXCEPT !.when = @ /\ exitPolicy.far]
        /\ rules[7] = [price |-> b.close, reason |-> "stoch_80", when |-> exitPolicy.stoch /\ T!Extreme(b)]
    BY TheRules
  <2> HIDE DEF rules
  <2> QED BY <2>1 DEF T!AtOpen, T!Favorable
<1>r. ASSUME NEW m, NEW r, NEW c, r = [T!Favorable(b, m, c) EXCEPT !.when = @ /\ exitPolicy.mid]
             \/ r = [T!Favorable(b, m, c) EXCEPT !.when = @ /\ exitPolicy.far]
      PROVE  /\ r.reason = c /\ r.price = IF T!AtOrBetter(b.open, m) THEN b.open ELSE m
             /\ r.when => T!AtOrBetter(T!Best(b), m)
  <2> DEFINE f == [price |-> IF T!AtOrBetter(b.open, m) THEN b.open ELSE m, reason |-> c,
                   when |-> T!AtOrBetter(T!Best(b), m)]
  <2>1. r = [f EXCEPT !.when = @ /\ exitPolicy.mid] \/ r = [f EXCEPT !.when = @ /\ exitPolicy.far]
    BY <1>r DEF T!Favorable
  <2>2. r.reason = f.reason /\ r.price = f.price /\ (r.when => f.when)
    BY <2>1
  <2> QED BY <2>2
<1>w. /\ DOMAIN rules = 1..7
      /\ rules[1].price = b.open /\ rules[1].reason = "stop"
      /\ rules[2].price = b.open /\ rules[2].reason = "target"
      /\ rules[3].price = stop /\ rules[3].reason = "stop"
      /\ rules[4].price = (IF T!AtOrBetter(b.open, target) THEN b.open ELSE target) /\ rules[4].reason = "target"
      /\ rules[7].price = b.close /\ rules[7].reason = "stoch_80"
      /\ rules[1].when <=> stop # T!Null /\ T!AtOrWorse(b.open, stop)
      /\ rules[2].when <=> T!AtOrBetter(b.open, target)
      /\ rules[3].when <=> stop # T!Null /\ T!AtOrWorse(T!Worst(b), stop)
      /\ rules[4].when <=> T!AtOrBetter(T!Best(b), target)
  <2> HIDE DEF rules
  <2>1. rules[1].when <=> stop # T!Null /\ T!AtOrWorse(b.open, stop)
    <3> DEFINE fires == stop # T!Null /\ T!AtOrWorse(b.open, stop)
    <3>1. rules[1] = [price |-> b.open, reason |-> "stop", when |-> fires]
      BY <1>1
    <3>2. fires \in BOOLEAN
      OBVIOUS
    <3> HIDE DEF fires
    <3>3. rules[1].when <=> fires
      BY <3>1, <3>2, RuleFires
    <3> QED BY <3>3 DEF fires
  <2>2. rules[2].when <=> T!AtOrBetter(b.open, target)
    <3>1. rules[2] = [price |-> b.open, reason |-> "target", when |-> T!AtOrBetter(b.open, target)]
      BY <1>1
    <3>2. (T!AtOrBetter(b.open, target)) \in BOOLEAN
      BY DEF T!AtOrWorse, T!AtOrBetter
    <3> QED BY <3>1, <3>2, RuleFires
  <2>3. rules[3].when <=> stop # T!Null /\ T!AtOrWorse(T!Worst(b), stop)
    <3> DEFINE fires == stop # T!Null /\ T!AtOrWorse(T!Worst(b), stop)
    <3>1. rules[3] = [price |-> stop, reason |-> "stop", when |-> fires]
      BY <1>1
    <3>2. fires \in BOOLEAN
      OBVIOUS
    <3> HIDE DEF fires
    <3>3. rules[3].when <=> fires
      BY <3>1, <3>2, RuleFires
    <3> QED BY <3>3 DEF fires
  <2>4. rules[4].when <=> T!AtOrBetter(T!Best(b), target)
    <3>1. rules[4] = [price |-> IF T!AtOrBetter(b.open, target) THEN b.open ELSE target, reason |-> "target",
                     when |-> T!AtOrBetter(T!Best(b), target)]
      BY <1>1
    <3>2. (T!AtOrBetter(T!Best(b), target)) \in BOOLEAN
      BY DEF T!AtOrWorse, T!AtOrBetter
    <3> QED BY <3>1, <3>2, RuleFires
  <2> QED BY <1>1, <2>1, <2>2, <2>3, <2>4
<1>2. T!Mid(p) \in Nat /\ T!Far(p) \in Nat
  BY BarFacts DEF T!Mid, T!Far
<1> HIDE DEF rules
<1>3. fired = {i \in 1..7 : rules[i].when}
  BY <1>1 DEF T!Fired
<1>4. fired # {} => k \in fired /\ \A i \in fired : k <= i
  BY <1>3, LeastOf, SameBounds
<1> HIDE DEF fired, k
<1>5. ASSUME fired = {}
      PROVE  (stop # T!Null => ~T!AtOrWorse(T!Worst(b), stop)) /\ ~T!AtOrBetter(T!Best(b), target)
  BY <1>w, <1>3, <1>5
<1> DEFINE Good(hit) ==
             /\ hit.price \in Int /\ b.low <= hit.price /\ hit.price <= b.high
             /\ hit.reason \in {"stop", "target", "mid_band", "upper_band", "stoch_80"}
             /\ hit.reason = "stop" => T!AtOrWorse(hit.price, stop)
             /\ hit.reason = "target" => T!AtOrBetter(hit.price, target) /\ T!AtOrBetter(T!Best(b), target)
             /\ stop # T!Null /\ hit.reason # "stop" => ~T!AtOrWorse(b.open, stop)
             /\ stop # T!Null /\ hit.reason # "stop" /\ (hit.reason # "target" \/ hit.price # b.open) =>
                  ~T!AtOrWorse(T!Worst(b), stop)
<1>6. ASSUME fired # {} PROVE Good(rules[k])
  <2>1. k \in 1..7 /\ rules[k].when /\ \A i \in 1..7 : i < k => ~rules[i].when
    BY <1>3, <1>4, <1>6
  <2>2. /\ b.open \in Nat /\ b.high \in Nat /\ b.low \in Nat /\ b.close \in Nat
        /\ T!Best(b) \in Nat /\ T!Worst(b) \in Nat
        /\ b.low <= b.open /\ b.open <= b.high /\ b.low <= b.close /\ b.close <= b.high
        /\ stance = "long" => T!Best(b) = b.high /\ T!Worst(b) = b.low
        /\ stance = "short" => T!Best(b) = b.low /\ T!Worst(b) = b.high
    BY BarFacts
  <2>3. k > 1 => (stop # T!Null => ~T!AtOrWorse(b.open, stop))
    BY <1>w, <2>1
  <2>4. k > 2 => ~T!AtOrBetter(b.open, target)
    BY <1>w, <2>1
  <2>5. k > 3 => (stop # T!Null => ~T!AtOrWorse(T!Worst(b), stop))
    BY <1>w, <2>1
  <2>6. CASE k = 1
    <3>1. rules[k].price = b.open /\ rules[k].reason = "stop" /\ T!AtOrWorse(b.open, stop)
      BY <1>w, <2>1, <2>6
    <3> QED BY <2>2, <3>1
  <2>7. CASE k = 2
    <3>1. rules[k].price = b.open /\ rules[k].reason = "target" /\ T!AtOrBetter(b.open, target)
      BY <1>w, <2>1, <2>7
    <3>2. T!AtOrBetter(T!Best(b), target)
      BY <3>1, InRange
    <3> QED BY <2>2, <2>3, <2>7, <3>1, <3>2
  <2>8. CASE k = 3
    <3>1. rules[k].price = stop /\ rules[k].reason = "stop" /\ stop # T!Null /\ T!AtOrWorse(T!Worst(b), stop)
      BY <1>w, <2>1, <2>8
    <3>2. b.low <= stop /\ stop <= b.high /\ T!AtOrWorse(stop, stop)
      BY <2>3, <2>8, <3>1, InRange
    <3> QED BY <3>1, <3>2
  <2>9. CASE k = 4
    <3>1. rules[k].price = target /\ rules[k].reason = "target" /\ T!AtOrBetter(T!Best(b), target)
      BY <1>w, <2>1, <2>4, <2>9
    <3>2. b.low <= target /\ target <= b.high /\ T!AtOrBetter(target, target)
      BY <2>4, <2>9, <3>1, InRange
    <3> QED BY <2>3, <2>5, <2>9, <3>1, <3>2
  <2>10. ASSUME NEW m \in Nat, rules[k].price = (IF T!AtOrBetter(b.open, m) THEN b.open ELSE m),
                T!AtOrBetter(T!Best(b), m)
         PROVE  rules[k].price \in Int /\ b.low <= rules[k].price /\ rules[k].price <= b.high
    BY <2>2, <2>10, InRange
  <2>11. CASE k = 5
    <3>1. /\ rules[k].reason = "mid_band"
          /\ rules[k].price = (IF T!AtOrBetter(b.open, T!Mid(p)) THEN b.open ELSE T!Mid(p))
          /\ T!AtOrBetter(T!Best(b), T!Mid(p))
      BY <1>1, <1>r, <2>1, <2>11
    <3>2. rules[k].price \in Int /\ b.low <= rules[k].price /\ rules[k].price <= b.high
      BY <1>2, <2>10, <3>1
    <3> QED BY <2>3, <2>5, <2>11, <3>1, <3>2
  <2>12. CASE k = 6
    <3>1. /\ rules[k].reason = "upper_band"
          /\ rules[k].price = (IF T!AtOrBetter(b.open, T!Far(p)) THEN b.open ELSE T!Far(p))
          /\ T!AtOrBetter(T!Best(b), T!Far(p))
      BY <1>1, <1>r, <2>1, <2>12
    <3>2. rules[k].price \in Int /\ b.low <= rules[k].price /\ rules[k].price <= b.high
      BY <1>2, <2>10, <3>1
    <3> QED BY <2>3, <2>5, <2>12, <3>1, <3>2
  <2>13. CASE k = 7
    <3>1. rules[k].price = b.close /\ rules[k].reason = "stoch_80"
      BY <1>w, <2>13
    <3> QED BY <2>2, <2>3, <2>5, <2>13, <3>1
  <2> QED BY <2>1, <2>6, <2>7, <2>8, <2>9, <2>11, <2>12, <2>13
<1> QED BY <1>5, <1>6 DEF rules, fired, k

\* A fill of the touched level is inside the bar that reached it.
LEMMA FillFacts ==
  ASSUME T!TradesAssumption, Market, NEW b, T!IsBar(b), touchLevel # T!Null, T!AtOrWorse(T!Worst(b), touchLevel)
  PROVE  T!Fill(b) \in Nat /\ b.low <= T!Fill(b) /\ T!Fill(b) <= b.high
<1>1. touchLevel \in Nat
  BY TradeConstants DEF Market
<1> QED BY <1>1, InRange, BarFacts DEF T!Fill

\* Every fill is inside the bar the harness will look for it on.
LEMMA EntryFacts ==
  ASSUME T!TradesAssumption, Market, NEW kind \in T!Kinds
  PROVE  \/ T!RawEntry(kind) = T!Null /\ T!Entry(kind) = T!Null
         \/ /\ T!RawEntry(kind) \in Nat /\ T!Entry(kind) \in Int /\ T!Entry(kind) # T!Null
            /\ T!Entry(kind) = T!RawEntry(kind) + T!Sign * Slip /\ T!Entry(kind) >= -Slip
            /\ \E bar \in T!FillBars(kind) : T!Inside(T!RawEntry(kind), bar)
<1>1. days[1] \in Shapes /\ T!IsBar(days[1]) /\ Len(days) \in Nat /\ DOMAIN days = 1..Len(days) /\ Len(days) >= 1
  BY TradeConstants DEF Market
<1>2. Slip \in Nat /\ Slip < 1000 /\ Level \in Nat
  <2>1. exitPolicy \in Policies
    BY DEF Market
  <2> QED BY <2>1, TradeConstants
<1>3. T!Sign \in {1, -1}
  BY Compare
<1>4. ASSUME T!RawEntry(kind) \in Nat
      PROVE  T!Entry(kind) \in Int /\ T!Entry(kind) # T!Null /\ T!Entry(kind) = T!RawEntry(kind) + T!Sign * Slip
             /\ T!Entry(kind) >= -Slip
  BY <1>2, <1>3, <1>4 DEF T!Entry, T!Null
<1>5. T!RawEntry(kind) = T!Null => T!Entry(kind) = T!Null
  BY DEF T!Entry
<1>6. CASE kind = "touch"
  <2>1. T!RawEntry(kind) = IF touchLevel = T!Null THEN T!Null ELSE T!Fill(days[1])
    BY <1>6 DEF T!RawEntry
  <2>2. days[1] \in T!FillBars(kind)
    BY <1>1, <1>6 DEF T!FillBars, T!EntryIdx
  <2>3. CASE touchLevel # T!Null
    BY <1>1, <1>4, <2>1, <2>2, <2>3, FillFacts DEF Market, T!Inside
  <2> QED BY <1>5, <2>1, <2>3
<1>7. CASE kind = "next_open"
  <2>1. T!RawEntry(kind) = IF Len(days) < 2 THEN T!Null ELSE days[2].open
    BY <1>7 DEF T!RawEntry
  <2>2. CASE Len(days) >= 2
    <3>1. days[2] \in T!FillBars(kind)
      BY <1>1, <1>7, <2>2 DEF T!FillBars, T!EntryIdx
    <3>2. days[2] \in Shapes /\ T!IsBar(days[2])
      BY <2>2, <1>1, TradeConstants DEF Market
    <3> QED BY <1>1, <1>4, <2>1, <2>2, <3>1, <3>2, BarFacts DEF T!Inside
  <2> QED BY <1>1, <1>5, <2>1, <2>2
<1>8. CASE kind \in {"touch_5m", "touch_30m"}
  <2> DEFINE h == hours[T!Min(T!Touches)]
  <2>1. T!RawEntry(kind) = IF touchLevel = T!Null \/ T!Touches = {} THEN T!Null
                           ELSE IF kind = "touch_30m" THEN h.close ELSE T!Fill(h) + (h.close - T!Fill(h)) \div 12
    BY <1>8 DEF T!RawEntry
  <2>2. CASE touchLevel # T!Null /\ T!Touches # {}
    <3>1. T!Touches \subseteq DOMAIN hours /\ DOMAIN hours = 1..Len(hours) /\ Len(hours) \in Nat
      BY DEF T!Touches, Market
    <3>2. T!Min(T!Touches) \in T!Touches
      BY <2>2, <3>1, LeastOf, SameBounds
    <3>3. T!IsBar(h) /\ T!AtOrWorse(T!Worst(h), touchLevel)
      BY <3>1, <3>2 DEF T!Touches, Market
    <3>4. h \in T!FillBars(kind)
      BY <1>8, <2>2 DEF T!FillBars
    <3> HIDE DEF h
    <3>5. T!Fill(h) \in Nat /\ h.low <= T!Fill(h) /\ T!Fill(h) <= h.high
      BY <2>2, <3>3, FillFacts
    <3>6. h.close \in Nat /\ h.low \in Nat /\ h.low <= h.close /\ h.close <= h.high
      BY <3>3, BarFacts
    <3>7. \A x, y \in Nat : x + (y - x) \div 12 \in Int /\ (x <= x + (y - x) \div 12 \/ y <= x + (y - x) \div 12)
                            /\ (x + (y - x) \div 12 <= x \/ x + (y - x) \div 12 <= y)
      OBVIOUS
    <3>8. T!RawEntry(kind) \in Nat /\ h.low <= T!RawEntry(kind) /\ T!RawEntry(kind) <= h.high
      <4>1. CASE kind = "touch_30m"
        BY <2>1, <2>2, <3>6, <4>1
      <4>2. CASE kind # "touch_30m"
        <5> DEFINE x == T!Fill(h)
                   y == h.close
                   r == x + (y - x) \div 12
        <5>1. x \in Nat /\ y \in Nat /\ h.high \in Nat
          BY <3>3, <3>5, <3>6, BarFacts
        <5>2. T!RawEntry(kind) = r /\ r \in Int /\ (x <= r \/ y <= r) /\ (r <= x \/ r <= y)
          BY <2>1, <2>2, <3>7, <4>2, <5>1
        <5> HIDE DEF r
        <5> QED BY <3>5, <3>6, <5>1, <5>2
      <4> QED BY <4>1, <4>2
    <3> QED BY <1>4, <3>4, <3>8 DEF T!Inside
  <2> QED BY <1>5, <2>1, <2>2
<1> QED BY <1>6, <1>7, <1>8 DEF T!Kinds

-----------------------------------------------------------------------------
(* Trades: the exit and the row.                                           *)

RulesAt(kind, i) ==
  T!Rules(T!Window(kind)[i], days[T!EntryIdx(kind) + i - 1], T!StopMark(T!Entry(kind)),
          T!TargetMark(T!Entry(kind)))
Hits(kind) == {i \in DOMAIN T!Window(kind) : T!Fired(RulesAt(kind, i)) # {}}
FirstRule(kind, i) == RulesAt(kind, i)[T!Min(T!Fired(RulesAt(kind, i)))]

LEMMA ExitIs ==
  ASSUME NEW kind
  PROVE  /\ Hits(kind) = {} =>
              T!Exit(kind) = [idx |-> Len(T!Window(kind)), price |-> T!Window(kind)[Len(T!Window(kind))].close,
                              reason |-> T!Terminal(T!Window(kind)), ambiguous |-> FALSE]
         /\ Hits(kind) # {} =>
              T!Exit(kind) = [idx |-> T!Min(Hits(kind)), price |-> FirstRule(kind, T!Min(Hits(kind))).price,
                              reason |-> FirstRule(kind, T!Min(Hits(kind))).reason,
                              ambiguous |-> T!Ambiguous(T!Window(kind)[T!Min(Hits(kind))],
                                                        FirstRule(kind, T!Min(Hits(kind))),
                                                        T!TargetMark(T!Entry(kind)))]
<1>1. T!Exit(kind) =
        IF Hits(kind) = {}
        THEN [idx |-> Len(T!Window(kind)), price |-> T!Window(kind)[Len(T!Window(kind))].close,
              reason |-> T!Terminal(T!Window(kind)), ambiguous |-> FALSE]
        ELSE [idx |-> T!Min(Hits(kind)), price |-> FirstRule(kind, T!Min(Hits(kind))).price,
              reason |-> FirstRule(kind, T!Min(Hits(kind))).reason,
              ambiguous |-> T!Ambiguous(T!Window(kind)[T!Min(Hits(kind))], FirstRule(kind, T!Min(Hits(kind))),
                                        T!TargetMark(T!Entry(kind)))]
  BY DEF T!Exit, Hits, RulesAt, FirstRule
<1> QED BY <1>1

\* What a position may have met by the bar it leaves on, and where it leaves.
Left(kind, exit, stop, target) ==
  LET bar == days[T!EntryIdx(kind) + exit.idx] IN
  /\ exit.price \in Int /\ bar.low <= exit.price /\ exit.price <= bar.high
  /\ exit.reason = "stop" => T!AtOrWorse(exit.price, stop)
  /\ exit.reason = "target" => T!AtOrBetter(exit.price, target)
  /\ stop # T!Null =>
       /\ \A i \in 1..(exit.idx - 1) : ~T!AtOrWorse(T!Worst(days[T!EntryIdx(kind) + i]), stop)
       /\ exit.reason # "stop" => ~T!AtOrWorse(bar.open, stop)
       /\ exit.reason # "stop" /\ (exit.reason # "target" \/ exit.price # bar.open) =>
            ~T!AtOrWorse(T!Worst(bar), stop)
  /\ \A i \in 1..(exit.idx - 1) : ~T!AtOrBetter(T!Best(days[T!EntryIdx(kind) + i]), target)

LEMMA MarksAreNumbers ==
  ASSUME T!TradesAssumption, Market, NEW entry \in Int
  PROVE  T!StopMark(entry) \in Int /\ T!TargetMark(entry) \in Int
<1>1. exitPolicy.stop \in Nat /\ Target \in Nat /\ T!Sign \in {1, -1}
  BY TradeConstants, Compare DEF Market
<1> QED BY <1>1 DEF T!StopMark, T!TargetMark, T!Null

LEMMA ExitFacts ==
  ASSUME T!TradesAssumption, Market, NEW kind \in T!Kinds, T!Entry(kind) # T!Null, T!Window(kind) # <<>>
  PROVE  /\ T!Exit(kind).idx \in 1..Len(T!Window(kind))
         /\ T!Exit(kind).reason \in {"stop", "target", "mid_band", "upper_band", "stoch_80", "timeout", "unfinished"}
         /\ Left(kind, T!Exit(kind), T!StopMark(T!Entry(kind)), T!TargetMark(T!Entry(kind)))
         /\ T!Exit(kind).reason = "target" =>
              T!AtOrBetter(T!Best(T!Window(kind)[T!Exit(kind).idx]), T!TargetMark(T!Entry(kind)))
<1> DEFINE e == T!EntryIdx(kind)
           w == T!Window(kind)
           n == Len(w)
           stop == T!StopMark(T!Entry(kind))
           target == T!TargetMark(T!Entry(kind))
           x == T!Exit(kind)
<1>1. /\ e \in 1..2 /\ n \in Nat /\ n >= 1 /\ DOMAIN w = 1..n
      /\ \A i \in 1..n : e + i \in 1..Len(days) /\ w[i] = days[e + i] /\ T!IsBar(w[i])
  <2>1. w \in Seq(Shapes)
    BY WindowFacts
  <2>2. n \in Nat /\ n # 0
    BY <2>1
  <2> QED BY <2>2, WindowFacts
<1>2. stop \in Int /\ target \in Int
  <2>1. T!Entry(kind) \in Int
    BY EntryFacts
  <2> QED BY <2>1, MarksAreNumbers
<1>3. \A i \in 1..n : T!IsBar(days[e + i - 1])
  <2> TAKE i \in 1..n
  <2>1. e + i - 1 \in 1..Len(days)
    BY <1>1
  <2>2. days[e + i - 1] \in Shapes
    BY <2>1 DEF Market
  <2> QED BY <2>2, TradeConstants
<1> HIDE DEF w, n, stop, target, x
<1>4. ASSUME NEW i \in 1..n
      PROVE  /\ T!Fired(RulesAt(kind, i)) = {} =>
                  (stop # T!Null => ~T!AtOrWorse(T!Worst(w[i]), stop)) /\ ~T!AtOrBetter(T!Best(w[i]), target)
             /\ T!Fired(RulesAt(kind, i)) # {} =>
                  LET hit == FirstRule(kind, i) IN
                  /\ hit.price \in Int /\ w[i].low <= hit.price /\ hit.price <= w[i].high
                  /\ hit.reason \in {"stop", "target", "mid_band", "upper_band", "stoch_80"}
                  /\ hit.reason = "stop" => T!AtOrWorse(hit.price, stop)
                  /\ hit.reason = "target" => T!AtOrBetter(hit.price, target) /\ T!AtOrBetter(T!Best(w[i]), target)
                  /\ stop # T!Null /\ hit.reason # "stop" => ~T!AtOrWorse(w[i].open, stop)
                  /\ stop # T!Null /\ hit.reason # "stop" /\ (hit.reason # "target" \/ hit.price # w[i].open) =>
                       ~T!AtOrWorse(T!Worst(w[i]), stop)
  <2>1. RulesAt(kind, i) = T!Rules(w[i], days[e + i - 1], stop, target)
    BY DEF RulesAt, w, e, stop, target
  <2>2. T!IsBar(w[i]) /\ T!IsBar(days[e + i - 1])
    BY <1>1, <1>3
  <2> DEFINE b == w[i]
             p == days[e + i - 1]
  <2> HIDE DEF b, p
  <2>3. T!IsBar(b) /\ T!IsBar(p) /\ RulesAt(kind, i) = T!Rules(b, p, stop, target)
    BY <2>1, <2>2 DEF b, p
  <2>4. /\ T!Fired(RulesAt(kind, i)) = {} =>
                  (stop # T!Null => ~T!AtOrWorse(T!Worst(b), stop)) /\ ~T!AtOrBetter(T!Best(b), target)
        /\ T!Fired(RulesAt(kind, i)) # {} =>
                  LET hit == RulesAt(kind, i)[T!Min(T!Fired(RulesAt(kind, i)))] IN
                  /\ hit.price \in Int /\ b.low <= hit.price /\ hit.price <= b.high
                  /\ hit.reason \in {"stop", "target", "mid_band", "upper_band", "stoch_80"}
                  /\ hit.reason = "stop" => T!AtOrWorse(hit.price, stop)
                  /\ hit.reason = "target" => T!AtOrBetter(hit.price, target) /\ T!AtOrBetter(T!Best(b), target)
                  /\ stop # T!Null /\ hit.reason # "stop" => ~T!AtOrWorse(b.open, stop)
                  /\ stop # T!Null /\ hit.reason # "stop" /\ (hit.reason # "target" \/ hit.price # b.open) =>
                       ~T!AtOrWorse(T!Worst(b), stop)
    BY <1>2, <2>3, HitFacts
  <2> QED BY <2>4 DEF b, FirstRule
<1>5. Hits(kind) \in SUBSET (1..n) /\ \A i \in 1..n : i \notin Hits(kind) => T!Fired(RulesAt(kind, i)) = {}
  BY <1>1 DEF Hits, w
<1>6. CASE Hits(kind) = {}
  <2>1. x.idx = n /\ x.price = w[n].close /\ x.reason = T!Terminal(w)
    BY <1>6, ExitIs DEF x, w, n
  <2>2. x.reason \in {"timeout", "unfinished"}
    BY <2>1 DEF T!Terminal
  <2>3. n \in 1..n /\ w[n] = days[e + n] /\ T!IsBar(w[n])
    BY <1>1
  <2>4. \A i \in 1..n : /\ stop # T!Null => ~T!AtOrWorse(T!Worst(days[e + i]), stop)
                        /\ ~T!AtOrBetter(T!Best(days[e + i]), target)
    BY <1>1, <1>4, <1>5, <1>6
  <2>5. stop # T!Null => ~T!AtOrWorse(w[n].open, stop)
    <3>1. T!AtOrWorse(w[n].open, stop) => T!AtOrWorse(T!Worst(w[n]), stop)
      BY <1>2, <2>3, InRange
    <3> QED BY <2>3, <2>4, <3>1
  <2>6. x.price \in Int /\ w[n].low <= x.price /\ x.price <= w[n].high
    BY <2>1, <2>3, BarFacts
  <2>7. \A i \in 1..(n - 1) : i \in 1..n
    BY <1>1
  <2>8. Left(kind, x, stop, target)
    BY <2>1, <2>2, <2>3, <2>4, <2>5, <2>6, <2>7 DEF Left, e
  <2> QED BY <2>1, <2>2, <2>3, <2>8 DEF x, n, w, stop, target
<1>7. CASE Hits(kind) # {}
  <2> DEFINE i == T!Min(Hits(kind))
             hit == FirstRule(kind, i)
  <2>1. i \in Hits(kind) /\ \A j \in Hits(kind) : i <= j
    <3>1. Hits(kind) \in SUBSET Nat
      BY <1>1, <1>5
    <3> QED BY <1>7, <3>1, LeastOf, SameBounds
  <2>2. x.idx = i /\ x.price = hit.price /\ x.reason = hit.reason
    BY <1>7, ExitIs DEF x
  <2> HIDE DEF i, hit
  <2>3. i \in 1..n /\ T!Fired(RulesAt(kind, i)) # {} /\ w[i] = days[e + i]
    BY <1>1, <1>5, <2>1 DEF Hits
  <2>4. \A j \in 1..(i - 1) : /\ stop # T!Null => ~T!AtOrWorse(T!Worst(days[e + j]), stop)
                              /\ ~T!AtOrBetter(T!Best(days[e + j]), target)
    <3> TAKE j \in 1..(i - 1)
    <3>1. j \in 1..n /\ j \notin Hits(kind)
      BY <1>1, <1>5, <2>1, <2>3
    <3> QED BY <1>1, <1>4, <1>5, <3>1
  <2>5. /\ hit.price \in Int /\ w[i].low <= hit.price /\ hit.price <= w[i].high
        /\ hit.reason \in {"stop", "target", "mid_band", "upper_band", "stoch_80"}
        /\ hit.reason = "stop" => T!AtOrWorse(hit.price, stop)
        /\ hit.reason = "target" => T!AtOrBetter(hit.price, target) /\ T!AtOrBetter(T!Best(w[i]), target)
        /\ stop # T!Null /\ hit.reason # "stop" => ~T!AtOrWorse(w[i].open, stop)
        /\ stop # T!Null /\ hit.reason # "stop" /\ (hit.reason # "target" \/ hit.price # w[i].open) =>
             ~T!AtOrWorse(T!Worst(w[i]), stop)
    BY <1>4, <2>3 DEF hit
  <2>6. Left(kind, x, stop, target)
    BY <2>2, <2>3, <2>4, <2>5 DEF Left, e
  <2> QED BY <2>2, <2>3, <2>5, <2>6 DEF x, n, w, stop, target
<1> QED BY <1>6, <1>7

Reasons == {"none", "unfinished", "timeout", "stop", "target", "mid_band", "upper_band", "stoch_80"}
IsRow(rec) ==
  rec \in [entry : Int, exit : Int, reason : Reasons, idx : Nat, ambiguous : BOOLEAN, gross : Int, net : Int,
           mfe : Int, mae : Int, touched : Nat, forward : Int]

\* What every row on file is, of the bars on file.
Sound(rec, kind) ==
  /\ IsRow(rec)
  /\ rec.reason = "none" => rec.exit = T!Null /\ rec.gross = T!Null /\ rec.touched = 0 /\ rec.forward = T!Null
  /\ rec.reason # "none" =>
       /\ rec.entry # T!Null /\ rec.exit # T!Null
       /\ rec.idx >= 1 /\ T!EntryIdx(kind) + rec.idx <= Len(days)
       /\ Left(kind, [idx |-> rec.idx, price |-> rec.exit, reason |-> rec.reason],
               T!StopMark(rec.entry), T!TargetMark(rec.entry))
       /\ rec.mae <= rec.gross /\ rec.gross <= rec.mfe
       /\ rec.gross = T!Gain(rec.entry, rec.exit)
       /\ rec.touched = 0 => rec.reason # "target"
  /\ rec.entry # T!Null => \E bar \in T!FillBars(kind) : T!Inside(T!PreSlippage(rec.entry), bar)

\* Of finitely many numbers one is the highest and one the lowest.
LEMMA ImageBounds ==
  ASSUME NEW n \in Nat, n > 0, NEW f, \A i \in 1..n : f[i] \in Int
  PROVE  LET S == {f[i] : i \in 1..n} IN
         T!Max(S) \in Int /\ T!Min(S) \in Int /\ \A i \in 1..n : f[i] <= T!Max(S) /\ T!Min(S) <= f[i]
<1> DEFINE S == {f[i] : i \in 1..n}
           g == [i \in 1..n |-> -f[i]]
<1>1. \E i \in 1..n : \A j \in 1..n : f[j] <= f[i]
  BY HighestOf
<1>2. PICK i \in 1..n : \A j \in 1..n : f[j] <= f[i]
  BY <1>1
<1>3. \A j \in 1..n : g[j] \in Int /\ g[j] = -f[j]
  OBVIOUS
<1> HIDE DEF g
<1>4. \E k \in 1..n : \A j \in 1..n : g[j] <= g[k]
  BY <1>3, HighestOf
<1>5. PICK k \in 1..n : \A j \in 1..n : g[j] <= g[k]
  BY <1>4
<1>6. \A j \in 1..n : f[k] <= f[j]
  <2> TAKE j \in 1..n
  <2>1. f[j] \in Int /\ f[k] \in Int /\ -f[j] <= -f[k]
    BY <1>3, <1>5
  <2> QED BY <2>1
<1>7. f[i] \in S /\ (\A y \in S : f[i] >= y) /\ f[k] \in S /\ (\A y \in S : f[k] =< y)
  BY <1>2, <1>6
<1>8. S \subseteq Int /\ \A j \in 1..n : f[j] \in S
  OBVIOUS
<1> HIDE DEF S
<1>9. T!Max(S) \in S /\ (\A y \in S : T!Max(S) >= y) /\ T!Min(S) \in S /\ (\A y \in S : T!Min(S) =< y)
  BY <1>7 DEF T!Max, T!Min
<1>10. T!Max(S) \in Int /\ T!Min(S) \in Int /\ \A j \in 1..n : f[j] <= T!Max(S) /\ T!Min(S) <= f[j]
  BY <1>8, <1>9
<1> QED BY <1>10 DEF S

\* A return is between the excursions of the bars it was held through.
LEMMA ExcursionFacts ==
  ASSUME T!TradesAssumption, Market, NEW kind \in T!Kinds, T!Entry(kind) \in Int,
         NEW n \in 1..Len(T!Window(kind)), NEW x \in Int,
         T!Window(kind)[n].low <= x, x <= T!Window(kind)[n].high
  PROVE  /\ T!MAE(kind, n) \in Int /\ T!MFE(kind, n) \in Int /\ T!Gain(T!Entry(kind), x) \in Int
         /\ T!MAE(kind, n) <= T!Gain(T!Entry(kind), x) /\ T!Gain(T!Entry(kind), x) <= T!MFE(kind, n)
<1> DEFINE w == T!Window(kind)
           entry == T!Entry(kind)
           best == [i \in 1..n |-> T!Gain(entry, T!Best(w[i]))]
           worst == [i \in 1..n |-> T!Gain(entry, T!Worst(w[i]))]
<1>1. n \in Nat /\ n > 0 /\ \A i \in 1..n : T!IsBar(w[i])
  <2>1. Len(w) \in Nat
    BY WindowFacts
  <2>2. \A i \in 1..n : i \in 1..Len(w)
    BY <2>1
  <2> QED BY <2>1, <2>2, WindowFacts
<1>2. entry \in Int
  OBVIOUS
<1> HIDE DEF w, entry
<1>3. \A i \in 1..n : best[i] \in Int /\ worst[i] \in Int
  <2> TAKE i \in 1..n
  <2>1. T!Best(w[i]) \in Int /\ T!Worst(w[i]) \in Int
    BY <1>1, BarFacts
  <2>2. T!Gain(entry, T!Best(w[i])) \in Int /\ T!Gain(entry, T!Worst(w[i])) \in Int
    BY <1>2, <2>1, Compare
  <2> QED BY <2>2
<1>4. n \in 1..n
  BY <1>1
<1>5. /\ T!MFE(kind, n) = T!Max({best[i] : i \in 1..n})
      /\ T!MAE(kind, n) = T!Min({worst[i] : i \in 1..n})
  <2>1. {best[i] : i \in 1..n} = {T!Gain(entry, T!Best(w[i])) : i \in 1..n}
    OBVIOUS
  <2>2. {worst[i] : i \in 1..n} = {T!Gain(entry, T!Worst(w[i])) : i \in 1..n}
    OBVIOUS
  <2> HIDE DEF best, worst
  <2> QED BY <2>1, <2>2 DEF T!MFE, T!MAE, w, entry
<1>6. best[n] = T!Gain(entry, T!Best(w[n])) /\ worst[n] = T!Gain(entry, T!Worst(w[n]))
  BY <1>4
<1> HIDE DEF best, worst
<1>7. /\ T!MFE(kind, n) \in Int /\ best[n] <= T!MFE(kind, n)
      /\ T!MAE(kind, n) \in Int /\ T!MAE(kind, n) <= worst[n]
  BY <1>1, <1>3, <1>4, <1>5, ImageBounds
<1>8. T!Gain(entry, x) \in Int /\ T!Gain(entry, x) <= best[n] /\ worst[n] <= T!Gain(entry, x)
  <2>1. w[n].low <= x /\ x <= w[n].high /\ T!IsBar(w[n])
    BY <1>1, <1>4 DEF w
  <2>2. w[n].low \in Int /\ w[n].high \in Int
    BY <2>1 DEF T!IsBar
  <2>3. CASE stance = "long"
    <3>1. T!Best(w[n]) = w[n].high /\ T!Worst(w[n]) = w[n].low
      BY <2>1, <2>3, BarFacts
    <3>2. T!Gain(entry, x) = x - entry /\ best[n] = w[n].high - entry /\ worst[n] = w[n].low - entry
      BY <1>2, <1>6, <2>2, <2>3, <3>1, Compare
    <3> QED BY <1>2, <2>1, <2>2, <3>2
  <2>4. CASE stance = "short"
    <3>1. T!Best(w[n]) = w[n].low /\ T!Worst(w[n]) = w[n].high
      BY <2>1, <2>4, BarFacts
    <3>2. T!Gain(entry, x) = entry - x /\ best[n] = entry - w[n].low /\ worst[n] = entry - w[n].high
      BY <1>2, <1>6, <2>2, <2>4, <3>1, Compare
    <3> QED BY <1>2, <2>1, <2>2, <3>2
  <2> QED BY <2>3, <2>4, Compare
<1>9. best[n] \in Int /\ worst[n] \in Int
  BY <1>3, <1>4
<1> QED BY <1>7, <1>8, <1>9 DEF entry

LEMMA TouchFacts ==
  ASSUME T!TradesAssumption, Market, NEW kind \in T!Kinds
  PROVE  /\ T!DayTouched(kind) \in Nat
         /\ T!DayTouched(kind) > 0 =>
              /\ T!DayTouched(kind) \in 1..Len(T!Window(kind))
              /\ T!AtOrBetter(T!Best(T!Window(kind)[T!DayTouched(kind)]), T!TargetMark(T!Entry(kind)))
         /\ \A i \in 1..Len(T!Window(kind)) :
              T!AtOrBetter(T!Best(T!Window(kind)[i]), T!TargetMark(T!Entry(kind))) =>
                T!DayTouched(kind) > 0 /\ T!DayTouched(kind) <= i
<1> DEFINE w == T!Window(kind)
           at == {i \in DOMAIN w : T!AtOrBetter(T!Best(w[i]), T!TargetMark(T!Entry(kind)))}
<1>1. T!DayTouched(kind) = IF at = {} THEN 0 ELSE T!Min(at)
  BY DEF T!DayTouched
<1>2. DOMAIN w = 1..Len(w) /\ Len(w) \in Nat
  BY WindowFacts
<1>3. at \in SUBSET Nat /\ at \subseteq 1..Len(w)
  BY <1>2
<1>4. at # {} => T!Min(at) \in at /\ \A i \in at : T!Min(at) <= i
  <2> HIDE DEF at, w
  <2> QED BY <1>3, LeastOf, SameBounds
<1>5. \A i \in 1..Len(w) : i \in at <=> T!AtOrBetter(T!Best(w[i]), T!TargetMark(T!Entry(kind)))
  BY <1>2
<1> HIDE DEF at
<1>6. CASE at = {}
  BY <1>1, <1>5, <1>6
<1>7. CASE at # {}
  <2>1. T!DayTouched(kind) \in at /\ T!DayTouched(kind) \in 1..Len(w) /\ \A i \in at : T!DayTouched(kind) <= i
    BY <1>1, <1>3, <1>4, <1>7
  <2> QED BY <1>2, <1>5, <2>1
<1> QED BY <1>6, <1>7

LEMMA RowFacts ==
  ASSUME T!TradesAssumption, Market, NEW kind \in T!Kinds
  PROVE  Sound(T!Row(kind), kind)
<1> DEFINE rec == T!Row(kind)
           entry == T!Entry(kind)
<1>1. entry \in Int /\ (entry # T!Null => \E bar \in T!FillBars(kind) : T!Inside(T!PreSlippage(entry), bar))
  <2>1. T!PreSlippage(entry) = entry - T!Sign * Slip
    BY DEF T!PreSlippage
  <2>2. Slip \in Nat /\ T!Sign \in {1, -1}
    BY TradeConstants, Compare
  <2>3. \/ entry = T!Null
        \/ /\ T!RawEntry(kind) \in Nat /\ entry \in Int /\ entry = T!RawEntry(kind) + T!Sign * Slip
           /\ \E bar \in T!FillBars(kind) : T!Inside(T!RawEntry(kind), bar)
    BY EntryFacts
  <2> HIDE DEF entry
  <2>4. CASE entry = T!Null
    BY <2>4 DEF T!Null
  <2>5. CASE entry # T!Null
    <3>1. T!PreSlippage(entry) = T!RawEntry(kind)
      BY <2>1, <2>2, <2>3, <2>5
    <3> QED BY <2>3, <2>5, <3>1
  <2> QED BY <2>4, <2>5
<1> HIDE DEF entry
<1>2. CASE entry = T!Null \/ T!Window(kind) = <<>>
  <2>1. rec = [entry |-> entry, exit |-> T!Null, reason |-> "none", idx |-> 0, ambiguous |-> FALSE,
               gross |-> T!Null, net |-> T!Null, mfe |-> T!Null, mae |-> T!Null, touched |-> 0, forward |-> T!Null]
    BY <1>2 DEF T!Row, T!Unresolved, entry
  <2> HIDE DEF rec
  <2>2. IsRow(rec)
    BY <1>1, <2>1 DEF IsRow, Reasons, T!Null
  <2> QED BY <1>1, <2>1, <2>2 DEF Sound, rec
<1>3. CASE entry # T!Null /\ T!Window(kind) # <<>>
  <2> DEFINE x == T!Exit(kind)
             w == T!Window(kind)
             gross == T!Gain(entry, x.price)
  <2>1. rec = [entry |-> entry, exit |-> x.price, reason |-> x.reason, idx |-> x.idx, ambiguous |-> x.ambiguous,
               gross |-> gross, net |-> T!Net(gross), mfe |-> T!MFE(kind, x.idx), mae |-> T!MAE(kind, x.idx),
               touched |-> T!DayTouched(kind), forward |-> T!Forward(kind)]
    BY <1>3 DEF T!Row, entry
  <2>2. /\ x.idx \in 1..Len(w)
        /\ x.reason \in {"stop", "target", "mid_band", "upper_band", "stoch_80", "timeout", "unfinished"}
        /\ Left(kind, x, T!StopMark(entry), T!TargetMark(entry))
        /\ x.reason = "target" => T!AtOrBetter(T!Best(w[x.idx]), T!TargetMark(entry))
    BY <1>3, ExitFacts DEF entry
  <2>3. Len(w) \in Nat /\ w[x.idx] = days[T!EntryIdx(kind) + x.idx] /\ T!IsBar(w[x.idx])
        /\ T!EntryIdx(kind) \in 1..2 /\ T!EntryIdx(kind) + x.idx \in 1..Len(days)
    BY <2>2, WindowFacts
  <2>4. x.price \in Int /\ w[x.idx].low <= x.price /\ x.price <= w[x.idx].high
    BY <2>2, <2>3 DEF Left
  <2>5. /\ T!MAE(kind, x.idx) \in Int /\ T!MFE(kind, x.idx) \in Int /\ gross \in Int
        /\ T!MAE(kind, x.idx) <= gross /\ gross <= T!MFE(kind, x.idx)
    BY <1>1, <2>2, <2>4, ExcursionFacts DEF entry
  <2>6. x.ambiguous \in BOOLEAN
    <3>1. \A b, hit, target : T!Ambiguous(b, hit, target) \in BOOLEAN
      BY DEF T!Ambiguous
    <3>2. x.ambiguous = FALSE \/ \E b, hit, target : x.ambiguous = T!Ambiguous(b, hit, target)
      <4>1. CASE Hits(kind) = {}
        BY <4>1, ExitIs
      <4>2. CASE Hits(kind) # {}
        BY <4>2, ExitIs
      <4> QED BY <4>1, <4>2
    <3> HIDE DEF x
    <3> QED BY <3>1, <3>2
  <2>7. T!Net(gross) \in Int
    <3>1. Slip \in Nat
      BY TradeConstants
    <3> HIDE DEF gross
    <3> QED BY <2>5, <3>1 DEF T!Net
  <2>8. T!Forward(kind) \in Int
    <3>1. Len(days) \in Nat /\ \A i \in 1..Len(days) : days[i].close \in Int
      <4>1. \A i \in 1..Len(days) : days[i] \in Shapes /\ T!IsBar(days[i])
        BY TradeConstants DEF Market
      <4> QED BY <4>1 DEF T!IsBar, Market
    <3>2. T!EntryIdx(kind) < Len(days) => T!EntryIdx(kind) \in 1..Len(days) /\ T!EntryIdx(kind) + 1 \in 1..Len(days)
      BY <2>3, <3>1
    <3> QED BY <2>3, <3>1, <3>2 DEF T!Forward, T!Null
  <2>9. T!DayTouched(kind) \in Nat /\ (T!DayTouched(kind) = 0 => x.reason # "target")
    BY <2>2, TouchFacts DEF entry
  <2>10. x.price # T!Null
    <3>1. w[x.idx].low \in Nat
      BY <2>3, BarFacts
    <3> QED BY <2>4, <3>1 DEF T!Null
  <2>11. Left(kind, [idx |-> x.idx, price |-> x.price, reason |-> x.reason], T!StopMark(entry), T!TargetMark(entry))
    BY <2>2 DEF Left
  <2>12. x.idx \in Nat /\ x.idx >= 1 /\ T!EntryIdx(kind) + x.idx <= Len(days)
    <3>1. Len(days) \in Nat
      BY DEF Market
    <3> QED BY <2>2, <2>3, <3>1
  <2> HIDE DEF x, w, gross, rec
  <2>13. IsRow(rec)
    BY <1>1, <2>1, <2>2, <2>4, <2>5, <2>6, <2>7, <2>8, <2>9, <2>12 DEF IsRow, Reasons
  <2>14. /\ rec.entry = entry /\ rec.exit = x.price /\ rec.reason = x.reason /\ rec.idx = x.idx
         /\ rec.gross = gross /\ rec.mfe = T!MFE(kind, x.idx) /\ rec.mae = T!MAE(kind, x.idx)
         /\ rec.touched = T!DayTouched(kind)
    BY <2>1
  <2>15. rec.gross = T!Gain(rec.entry, rec.exit)
    BY <2>14 DEF gross
  <2>16. rec.reason # "none"
    BY <2>2, <2>14
  <2>17. Sound(rec, kind)
    BY <1>1, <1>3, <2>5, <2>9, <2>10, <2>11, <2>12, <2>13, <2>14, <2>15, <2>16 DEF Sound
  <2> QED BY <2>17 DEF rec
<1> QED BY <1>2, <1>3

-----------------------------------------------------------------------------
(* Trades: a session more.                                                 *)

SameMarket == UNCHANGED <<stance, touchLevel, exitPolicy, hours>>

\* The bars a row was written from are still there.
Grown ==
  /\ SameMarket /\ Market' /\ Len(days) \in Nat /\ Len(days') \in Nat /\ Len(days) <= Len(days')
  /\ \A i \in 1..Len(days) : days'[i] = days[i]

LEMMA BarsStay == ASSUME T!TradesAssumption, Market, T!Session \/ T!Backtest PROVE Grown
<1>1. SameMarket /\ (days' = days \/ \E s \in Shapes : days' = Append(days, s))
  BY DEF T!Session, T!Backtest, SameMarket
<1>2. /\ days' \in Seq(Shapes) /\ Len(days') \in Nat /\ Len(days) \in Nat /\ Len(days) <= Len(days')
      /\ \A i \in 1..Len(days) : days'[i] = days[i]
  <2>1. days \in Seq(Shapes) /\ Len(days) \in Nat
    BY DEF Market
  <2>2. CASE days' = days
    BY <2>1, <2>2
  <2>3. CASE \E s \in Shapes : days' = Append(days, s)
    BY <2>1, <2>3
  <2> QED BY <1>1, <2>2, <2>3
<1>3. days'[1] = days[1] /\ days' # <<>>
  BY <1>2 DEF Market
<1>4. Market'
  BY <1>1, <1>2, <1>3 DEF Market, SameMarket, T!Sides, T!AtOrWorse, T!Worst, T!Sign, T!Null, T!IsBar
<1> QED BY <1>1, <1>2, <1>4 DEF Grown

\* What a price or mark means does not move.
LEMMA SameMarks ==
  ASSUME SameMarket
  PROVE  /\ T!Sign' = T!Sign
         /\ \A x, y : T!AtOrBetter(x, y)' <=> T!AtOrBetter(x, y)
         /\ \A x, y : T!AtOrWorse(x, y)' <=> T!AtOrWorse(x, y)
         /\ \A b : T!Best(b)' = T!Best(b) /\ T!Worst(b)' = T!Worst(b)
         /\ \A x, y : T!Gain(x, y)' = T!Gain(x, y)
         /\ \A x : T!StopMark(x)' = T!StopMark(x) /\ T!TargetMark(x)' = T!TargetMark(x)
         /\ \A x : T!PreSlippage(x)' = T!PreSlippage(x)
BY DEF SameMarket, T!Sign, T!AtOrBetter, T!AtOrWorse, T!Best, T!Worst, T!Gain, T!StopMark, T!TargetMark,
   T!PreSlippage, T!Null

LEMMA SoundStays ==
  ASSUME T!TradesAssumption, Market, Grown, NEW kind \in T!Kinds, NEW rec, Sound(rec, kind)
  PROVE  Sound(rec, kind)'
<1>1. /\ SameMarket /\ Len(days) \in Nat /\ Len(days') \in Nat /\ Len(days) <= Len(days')
      /\ \A i \in 1..Len(days) : days'[i] = days[i]
  BY DEF Grown
<1>2. T!EntryIdx(kind) \in 1..2 /\ T!EntryIdx(kind)' = T!EntryIdx(kind)
  BY DEF T!EntryIdx
<1>3. IsRow(rec) /\ IsRow(rec)'
  BY DEF Sound, IsRow
<1>4. ASSUME rec.reason # "none"
      PROVE  Left(kind, [idx |-> rec.idx, price |-> rec.exit, reason |-> rec.reason],
                  T!StopMark(rec.entry), T!TargetMark(rec.entry))'
  <2> DEFINE e == T!EntryIdx(kind)
             exit == [idx |-> rec.idx, price |-> rec.exit, reason |-> rec.reason]
  <2>1. rec.idx \in Nat /\ rec.idx >= 1 /\ e + rec.idx <= Len(days)
    BY <1>3, <1>4 DEF Sound, IsRow
  <2>2. days'[e + rec.idx] = days[e + rec.idx]
    BY <1>1, <1>2, <2>1
  <2>3. \A i \in 1..(rec.idx - 1) : days'[e + i] = days[e + i]
    BY <1>1, <1>2, <2>1
  <2>4. Left(kind, exit, T!StopMark(rec.entry), T!TargetMark(rec.entry))
    BY <1>4 DEF Sound
  <2>5. exit.idx = rec.idx /\ T!StopMark(rec.entry)' = T!StopMark(rec.entry)
        /\ T!TargetMark(rec.entry)' = T!TargetMark(rec.entry)
    BY <1>1, SameMarks
  <2> HIDE DEF exit
  <2>6. Left(kind, exit, T!StopMark(rec.entry), T!TargetMark(rec.entry))'
    BY <1>1, <1>2, <2>2, <2>3, <2>4, <2>5, SameMarks DEF Left, e, exit, T!Null
  <2> QED BY <2>6 DEF exit
<1>5. ASSUME rec.entry # T!Null PROVE \E bar \in T!FillBars(kind)' : T!Inside(T!PreSlippage(rec.entry), bar)'
  <2>1. PICK bar \in T!FillBars(kind) : T!Inside(T!PreSlippage(rec.entry), bar)
    BY <1>5 DEF Sound
  <2>2. bar \in T!FillBars(kind)'
    <3>1. T!Min(T!Touches)' = T!Min(T!Touches) /\ T!Touches' = T!Touches
      BY <1>1, SameMarks DEF T!Touches, T!Min, SameMarket
    <3>2. DOMAIN days = 1..Len(days) /\ DOMAIN days' = 1..Len(days')
      BY DEF Grown, Market
    <3>3. CASE kind \in {"touch_5m", "touch_30m"}
      BY <1>1, <2>1, <3>1, <3>3 DEF T!FillBars, SameMarket, T!Null
    <3>4. CASE kind \notin {"touch_5m", "touch_30m"}
      BY <1>1, <1>2, <2>1, <3>2, <3>4 DEF T!FillBars
    <3> QED BY <3>3, <3>4
  <2>3. T!Inside(T!PreSlippage(rec.entry), bar)'
    BY <1>1, <2>1, SameMarks DEF T!Inside
  <2> QED BY <2>2, <2>3
<1>6. T!Gain(rec.entry, rec.exit)' = T!Gain(rec.entry, rec.exit)
  BY <1>1, SameMarks
<1>7. rec.reason # "none" => T!EntryIdx(kind)' + rec.idx <= Len(days')
  <2>1. rec.idx \in Nat
    BY <1>3 DEF IsRow
  <2> QED BY <1>1, <1>2, <2>1 DEF Sound
<1> QED BY <1>3, <1>4, <1>5, <1>6, <1>7 DEF Sound, T!Null

\* A fill that was found stays, and the bars it is held through are the same and more.
LEMMA EntryStays ==
  ASSUME T!TradesAssumption, Market, Grown, NEW kind \in T!Kinds, T!Entry(kind) # T!Null
  PROVE  T!Entry(kind)' = T!Entry(kind)
<1>1. /\ SameMarket /\ Len(days) \in Nat /\ Len(days') \in Nat /\ Len(days) <= Len(days') /\ Len(days) >= 1
      /\ \A i \in 1..Len(days) : days'[i] = days[i]
  BY DEF Grown, Market
<1>2. days'[1] = days[1]
  BY <1>1
<1>3. T!RawEntry(kind) # T!Null
  BY DEF T!Entry
<1>4. T!Touches' = T!Touches /\ T!Min(T!Touches)' = T!Min(T!Touches) /\ \A b : T!Fill(b)' = T!Fill(b)
  BY <1>1, SameMarks DEF T!Touches, T!Fill, T!Min, SameMarket
<1>5. CASE kind = "touch"
  <2>1. T!RawEntry(kind)' = T!RawEntry(kind)
    BY <1>1, <1>2, <1>4, <1>5 DEF T!RawEntry, SameMarket, T!Null
  <2> QED BY <1>1, <2>1, SameMarks DEF T!Entry, T!Null
<1>6. CASE kind = "next_open"
  <2>1. ~(Len(days) < 2)
    BY <1>3, <1>6 DEF T!RawEntry
  <2>2. days'[2] = days[2] /\ ~(Len(days') < 2)
    BY <1>1, <2>1
  <2>3. T!RawEntry(kind)' = T!RawEntry(kind)
    BY <1>6, <2>1, <2>2 DEF T!RawEntry
  <2> QED BY <1>1, <2>3, SameMarks DEF T!Entry, T!Null
<1>7. CASE kind \in {"touch_5m", "touch_30m"}
  <2>1. T!RawEntry(kind)' = T!RawEntry(kind)
    <3> DEFINE h == hours[T!Min(T!Touches)]
    <3>1. h' = h
      BY <1>1, <1>4 DEF SameMarket
    <3>2. T!Fill(h)' = T!Fill(h)
      BY <1>1, <3>1, SameMarks DEF T!Fill, SameMarket
    <3>3. T!RawEntry(kind) = IF touchLevel = T!Null \/ T!Touches = {} THEN T!Null
                             ELSE IF kind = "touch_30m" THEN h.close ELSE T!Fill(h) + (h.close - T!Fill(h)) \div 12
      BY <1>7 DEF T!RawEntry
    <3>4. T!RawEntry(kind)' = IF touchLevel' = T!Null \/ T!Touches' = {} THEN T!Null
                              ELSE IF kind = "touch_30m" THEN h'.close
                                   ELSE T!Fill(h)' + (h'.close - T!Fill(h)') \div 12
      BY <1>7 DEF T!RawEntry, T!Null
    <3> HIDE DEF h
    <3> QED BY <1>1, <1>4, <3>1, <3>2, <3>3, <3>4 DEF SameMarket
  <2> QED BY <1>1, <2>1, SameMarks DEF T!Entry, T!Null
<1> QED BY <1>5, <1>6, <1>7 DEF T!Kinds

LEMMA WindowGrows ==
  ASSUME T!TradesAssumption, Market, Grown, NEW kind
  PROVE  /\ T!EntryIdx(kind)' = T!EntryIdx(kind) /\ T!EntryIdx(kind) \in 1..2
         /\ Len(T!Window(kind)) \in Nat /\ Len(T!Window(kind))' \in Nat
         /\ DOMAIN T!Window(kind) = 1..Len(T!Window(kind)) /\ DOMAIN T!Window(kind)' = 1..Len(T!Window(kind))'
         /\ Len(T!Window(kind)) <= Len(T!Window(kind))'
         /\ Len(T!Window(kind)) = MaxHold => Len(T!Window(kind))' = MaxHold
         /\ \A i \in 1..Len(T!Window(kind)) :
              /\ T!Window(kind)'[i] = T!Window(kind)[i]
              /\ days'[T!EntryIdx(kind) + i - 1] = days[T!EntryIdx(kind) + i - 1]
<1>1. /\ Market' /\ Len(days) \in Nat /\ Len(days') \in Nat /\ Len(days) <= Len(days')
      /\ \A i \in 1..Len(days) : days'[i] = days[i]
  BY DEF Grown
<1>2. T!EntryIdx(kind)' = T!EntryIdx(kind) /\ T!EntryIdx(kind) \in 1..2
  BY DEF T!EntryIdx
<1>3. MaxHold \in Nat \ {0}
  BY TradeConstants
<1> DEFINE e == T!EntryIdx(kind)
           w == T!Window(kind)
<1>4. /\ DOMAIN w = 1..Len(w)
      /\ Len(w) = IF Len(days) <= e THEN 0 ELSE IF Len(days) <= e + MaxHold THEN Len(days) - e ELSE MaxHold
      /\ \A i \in 1..Len(w) : e + i \in 1..Len(days) /\ w[i] = days[e + i]
  BY WindowFacts
<1>6. /\ DOMAIN w' = 1..Len(w')
      /\ Len(w') = IF Len(days') <= e' THEN 0
                   ELSE IF Len(days') <= e' + MaxHold THEN Len(days') - e' ELSE MaxHold
      /\ \A i \in 1..Len(w') : e' + i \in 1..Len(days') /\ w'[i] = days'[e' + i]
  <2>1. PICK d \in Seq(Shapes) : d = days'
    BY <1>1 DEF Market
  <2>2. w' = Held(d, e)
    BY <1>2, <2>1 DEF T!Window, Held, T!Min, e
  <2>3. PICK k \in 1..2 : k = e
    BY <1>2
  <2>4. /\ DOMAIN Held(d, k) = 1..Len(Held(d, k))
        /\ Len(Held(d, k)) = IF Len(d) <= k THEN 0 ELSE IF Len(d) <= k + MaxHold THEN Len(d) - k ELSE MaxHold
        /\ \A i \in 1..Len(Held(d, k)) : k + i \in 1..Len(d) /\ Held(d, k)[i] = d[k + i]
    BY HeldFacts
  <2>5. w' = Held(d, k) /\ e' = k /\ days' = d
    BY <1>2, <2>1, <2>2, <2>3
  <2> HIDE DEF e, w
  <2> QED BY <2>4, <2>5
<1>7. e' = e /\ e \in 1..2
  BY <1>2
<1> HIDE DEF e, w
<1>8. Len(w) \in Nat /\ Len(w') \in Nat /\ Len(w) <= Len(w') /\ (Len(w) = MaxHold => Len(w') = MaxHold)
  BY <1>1, <1>3, <1>4, <1>6, <1>7
<1>9. ASSUME NEW i \in 1..Len(w) PROVE w'[i] = w[i] /\ days'[e + i - 1] = days[e + i - 1]
  <2>1. i \in 1..Len(w') /\ e + i \in 1..Len(days) /\ e + i - 1 \in 1..Len(days)
    BY <1>1, <1>4, <1>7, <1>8
  <2> QED BY <1>1, <1>4, <1>6, <1>7, <2>1
<1> QED BY <1>4, <1>6, <1>7, <1>8, <1>9 DEF e, w

\* A bar's rules say the same of it the day after.
LEMMA RulesStay ==
  ASSUME T!TradesAssumption, Market, Grown, NEW kind \in T!Kinds, T!Entry(kind) # T!Null,
         NEW i \in 1..Len(T!Window(kind))
  PROVE  /\ RulesAt(kind, i)' = RulesAt(kind, i) /\ FirstRule(kind, i)' = FirstRule(kind, i)
         /\ T!Fired(RulesAt(kind, i))' = T!Fired(RulesAt(kind, i))
<1>1. SameMarket
  BY DEF Grown
<1>2. ASSUME NEW b, NEW p, NEW stop, NEW target
      PROVE  T!Rules(b, p, stop, target)' = T!Rules(b, p, stop, target)
  <2>1. /\ \A x, y : T!AtOrBetter(x, y)' <=> T!AtOrBetter(x, y)
        /\ \A x, y : T!AtOrWorse(x, y)' <=> T!AtOrWorse(x, y)
    BY <1>1 DEF T!AtOrBetter, T!AtOrWorse, T!Sign, SameMarket
  <2>2. /\ T!Best(b)' = T!Best(b) /\ T!Worst(b)' = T!Worst(b)
        /\ T!Far(p)' = T!Far(p) /\ T!Mid(p)' = T!Mid(p)
    BY <1>1 DEF T!Best, T!Worst, T!Far, T!Mid, SameMarket
  <2>3. T!Extreme(b)' <=> T!Extreme(b)
    BY <1>1 DEF T!Extreme, T!Best, T!AtOrBetter, T!Sign, SameMarket
  <2>4. exitPolicy' = exitPolicy
    BY <1>1 DEF SameMarket
  <2>5. T!Gaps(b, stop, target)' = T!Gaps(b, stop, target) /\ T!InBar(b, stop, target)' = T!InBar(b, stop, target)
    BY <1>1 DEF T!Gaps, T!InBar, T!AtOpen, T!Favorable, T!AtOrBetter, T!AtOrWorse, T!Best, T!Worst, T!Sign,
       SameMarket, T!Null
  <2>6. \A mark, reason : T!Favorable(b, mark, reason)' = T!Favorable(b, mark, reason)
    BY <1>1 DEF T!Favorable, T!AtOrBetter, T!Best, T!Sign, SameMarket
  <2>7. /\ T!Favorable(b, T!Mid(p), "mid_band")' = T!Favorable(b, T!Mid(p), "mid_band")
        /\ T!Favorable(b, T!Far(p), "upper_band")' = T!Favorable(b, T!Far(p), "upper_band")
    BY <1>1 DEF T!Favorable, T!AtOrBetter, T!Best, T!Sign, SameMarket, T!Mid, T!Far
  <2> QED BY <2>3, <2>4, <2>5, <2>7 DEF T!Rules
<1>3. /\ T!EntryIdx(kind)' = T!EntryIdx(kind) /\ T!Window(kind)'[i] = T!Window(kind)[i]
      /\ days'[T!EntryIdx(kind) + i - 1] = days[T!EntryIdx(kind) + i - 1]
  BY WindowGrows
<1>4. T!Entry(kind)' = T!Entry(kind)
  BY EntryStays
<1>5. /\ T!StopMark(T!Entry(kind))' = T!StopMark(T!Entry(kind))
      /\ T!TargetMark(T!Entry(kind))' = T!TargetMark(T!Entry(kind))
  BY <1>1, <1>4 DEF T!StopMark, T!TargetMark, T!Sign, SameMarket, T!Null
<1>6. PICK b, p, stop, target : /\ b = T!Window(kind)[i] /\ p = days[T!EntryIdx(kind) + i - 1]
                                /\ stop = T!StopMark(T!Entry(kind)) /\ target = T!TargetMark(T!Entry(kind))
  OBVIOUS
<1>7. RulesAt(kind, i) = T!Rules(b, p, stop, target)
  BY <1>6 DEF RulesAt
<1>8. RulesAt(kind, i)' = T!Rules(b, p, stop, target)'
  BY <1>1, <1>3, <1>4, <1>5, <1>6 DEF RulesAt, T!Rules, T!Gaps, T!InBar, T!AtOpen, T!Favorable
<1>9. RulesAt(kind, i)' = RulesAt(kind, i)
  BY <1>2, <1>7, <1>8
<1>10. T!Fired(RulesAt(kind, i))' = T!Fired(RulesAt(kind, i))
  BY <1>9 DEF T!Fired
<1>11. FirstRule(kind, i)' = FirstRule(kind, i)
  BY <1>9, <1>10 DEF FirstRule, T!Min
<1> QED BY <1>9, <1>10, <1>11

\* An exit that was met, or that time forced, is not met again elsewhere.
LEMMA ExitStays ==
  ASSUME T!TradesAssumption, Market, Grown, NEW kind \in T!Kinds, T!Entry(kind) # T!Null,
         T!Window(kind) # <<>>, T!Exit(kind).reason # "unfinished"
  PROVE  T!Exit(kind)' = T!Exit(kind) /\ T!Exit(kind).idx \in 1..Len(T!Window(kind))
<1>1. SameMarket /\ T!Entry(kind)' = T!Entry(kind)
  BY EntryStays DEF Grown
<1>2. PICK n : n = Len(T!Window(kind))
  OBVIOUS
<1>3. /\ n \in Nat /\ Len(T!Window(kind))' \in Nat /\ n <= Len(T!Window(kind))'
      /\ n = MaxHold => Len(T!Window(kind))' = MaxHold
      /\ DOMAIN T!Window(kind) = 1..n /\ DOMAIN T!Window(kind)' = 1..Len(T!Window(kind))'
      /\ \A i \in 1..n : T!Window(kind)'[i] = T!Window(kind)[i]
  BY <1>2, WindowGrows
<1>4. \A i \in 1..n : /\ RulesAt(kind, i)' = RulesAt(kind, i) /\ FirstRule(kind, i)' = FirstRule(kind, i)
                      /\ T!Fired(RulesAt(kind, i))' = T!Fired(RulesAt(kind, i))
  BY <1>2, RulesStay
<1>5. Hits(kind) \subseteq 1..n /\ Hits(kind)' \subseteq 1..Len(T!Window(kind))'
      /\ \A i \in 1..n : i \in Hits(kind)' <=> i \in Hits(kind)
  <2>1. Hits(kind) = {i \in 1..n : T!Fired(RulesAt(kind, i)) # {}}
    BY <1>3 DEF Hits
  <2>2. Hits(kind)' = {i \in 1..Len(T!Window(kind))' : T!Fired(RulesAt(kind, i))' # {}}
    BY <1>3 DEF Hits
  <2> QED BY <1>3, <1>4, <2>1, <2>2
<1>6. T!Exit(kind).idx \in 1..n
  BY <1>2, ExitFacts
<1>7. CASE Hits(kind) = {}
  <2>1. T!Exit(kind) = [idx |-> n, price |-> T!Window(kind)[n].close, reason |-> T!Terminal(T!Window(kind)),
                        ambiguous |-> FALSE]
    BY <1>2, <1>7, ExitIs
  <2>2. T!Terminal(T!Window(kind)) = "timeout" /\ n = MaxHold
    BY <1>2, <2>1 DEF T!Terminal
  <2>3. Len(T!Window(kind))' = n /\ Hits(kind)' = {}
    BY <1>3, <1>5, <1>7, <2>2
  <2>4. T!Terminal(T!Window(kind))' = "timeout"
    BY <2>2, <2>3 DEF T!Terminal
  <2>5. T!Exit(kind)' = [idx |-> Len(T!Window(kind))', price |-> T!Window(kind)'[Len(T!Window(kind))'].close,
                         reason |-> T!Terminal(T!Window(kind))', ambiguous |-> FALSE]
    BY <2>3 DEF T!Exit, Hits, RulesAt
  <2>6. n \in 1..n
    BY <1>3, <1>6
  <2> QED BY <1>2, <1>3, <1>6, <2>1, <2>2, <2>3, <2>4, <2>5, <2>6
<1>8. CASE Hits(kind) # {}
  <2>1. PICK i : i = T!Min(Hits(kind))
    OBVIOUS
  <2>2. i \in Hits(kind) /\ i \in 1..n /\ \A j \in Hits(kind) : i <= j
    <3>1. Hits(kind) \in SUBSET Nat
      BY <1>3, <1>5
    <3> QED BY <1>5, <1>8, <2>1, <3>1, LeastOf, SameBounds
  <2>3. T!Min(Hits(kind))' = i
    <3>1. PICK h : h = Hits(kind)'
      OBVIOUS
    <3>2. h \in SUBSET Nat /\ i \in h
      BY <1>3, <1>5, <2>2, <3>1
    <3>3. \A j \in h : i <= j
      <4> TAKE j \in h
      <4>1. CASE j \in 1..n
        BY <1>5, <2>2, <3>1, <4>1
      <4>2. CASE j \notin 1..n
        BY <1>3, <1>5, <2>2, <3>1, <4>2
      <4> QED BY <4>1, <4>2
    <3>4. T!Min(h) \in h /\ \A j \in h : T!Min(h) <= j
      BY <3>2, LeastOf, SameBounds
    <3>5. T!Min(h) = i
      <4>1. T!Min(h) \in Nat /\ i \in Nat /\ T!Min(h) <= i /\ i <= T!Min(h)
        BY <3>2, <3>3, <3>4
      <4> QED BY <4>1
    <3> QED BY <3>1, <3>5 DEF T!Min
  <2>4. T!Exit(kind) = [idx |-> i, price |-> FirstRule(kind, i).price, reason |-> FirstRule(kind, i).reason,
                        ambiguous |-> T!Ambiguous(T!Window(kind)[i], FirstRule(kind, i), T!TargetMark(T!Entry(kind)))]
    BY <1>8, <2>1, ExitIs
  <2>5. Hits(kind)' # {}
    BY <1>5, <2>2
  <2>6. T!Exit(kind)' =
          [idx |-> i, price |-> FirstRule(kind, i)'.price, reason |-> FirstRule(kind, i)'.reason,
           ambiguous |-> T!Ambiguous(T!Window(kind)[i], FirstRule(kind, i), T!TargetMark(T!Entry(kind)))']
    <3>1. T!Exit(kind)' =
            [idx |-> T!Min(Hits(kind))', price |-> FirstRule(kind, T!Min(Hits(kind)))'.price,
             reason |-> FirstRule(kind, T!Min(Hits(kind)))'.reason,
             ambiguous |-> T!Ambiguous(T!Window(kind)[T!Min(Hits(kind))], FirstRule(kind, T!Min(Hits(kind))),
                                       T!TargetMark(T!Entry(kind)))']
      BY <2>5 DEF T!Exit, Hits, RulesAt, FirstRule
    <3>2. FirstRule(kind, T!Min(Hits(kind)))' = FirstRule(kind, i)'
      BY <2>3 DEF FirstRule, RulesAt
    <3>3. T!Ambiguous(T!Window(kind)[T!Min(Hits(kind))], FirstRule(kind, T!Min(Hits(kind))),
                      T!TargetMark(T!Entry(kind)))'
          = T!Ambiguous(T!Window(kind)[i], FirstRule(kind, i), T!TargetMark(T!Entry(kind)))'
      BY <2>3, <3>2 DEF T!Ambiguous
    <3> QED BY <2>3, <3>1, <3>2, <3>3
  <2>7. T!Ambiguous(T!Window(kind)[i], FirstRule(kind, i), T!TargetMark(T!Entry(kind)))'
        = T!Ambiguous(T!Window(kind)[i], FirstRule(kind, i), T!TargetMark(T!Entry(kind)))
    <3>1. T!TargetMark(T!Entry(kind))' = T!TargetMark(T!Entry(kind))
      BY <1>1 DEF T!TargetMark, T!Sign, SameMarket
    <3>2. T!Window(kind)'[i] = T!Window(kind)[i] /\ FirstRule(kind, i)' = FirstRule(kind, i)
      BY <1>3, <1>4, <2>2
    <3> QED BY <1>1, <3>1, <3>2 DEF T!Ambiguous, T!AtOrBetter, T!Best, T!Sign, SameMarket
  <2> QED BY <1>2, <1>4, <1>6, <2>2, <2>4, <2>6, <2>7
<1> QED BY <1>7, <1>8

LEMMA TouchStays ==
  ASSUME T!TradesAssumption, Market, Grown, NEW kind \in T!Kinds, T!Entry(kind) # T!Null,
         T!DayTouched(kind) > 0
  PROVE  T!DayTouched(kind)' = T!DayTouched(kind)
<1>1. SameMarket /\ T!Entry(kind)' = T!Entry(kind)
  BY EntryStays DEF Grown
<1>2. PICK n, d : n = Len(T!Window(kind)) /\ d = T!DayTouched(kind)
  OBVIOUS
<1>3. /\ n \in Nat /\ Len(T!Window(kind))' \in Nat /\ n <= Len(T!Window(kind))'
      /\ DOMAIN T!Window(kind) = 1..n /\ DOMAIN T!Window(kind)' = 1..Len(T!Window(kind))'
      /\ \A i \in 1..n : T!Window(kind)'[i] = T!Window(kind)[i]
  BY <1>2, WindowGrows
<1>4. PICK target : target = T!TargetMark(T!Entry(kind))
  OBVIOUS
<1>5. T!TargetMark(T!Entry(kind))' = target
  BY <1>1, <1>4 DEF T!TargetMark, T!Sign, SameMarket
<1>6. PICK at : at = {i \in DOMAIN T!Window(kind)' :
                           T!AtOrBetter(T!Best(T!Window(kind)[i]), T!TargetMark(T!Entry(kind)))'}
  OBVIOUS
<1>7. \A i \in 1..n : i \in at <=> T!AtOrBetter(T!Best(T!Window(kind)[i]), target)
  <2> TAKE i \in 1..n
  <2>1. T!Window(kind)'[i] = T!Window(kind)[i] /\ i \in DOMAIN T!Window(kind)'
    BY <1>3
  <2> QED BY <1>1, <1>5, <1>6, <2>1 DEF T!AtOrBetter, T!Best, T!Sign, SameMarket
<1>8. at \in SUBSET Nat /\ \A i \in at : i >= 1
  BY <1>3, <1>6
<1>9. /\ d \in 1..n /\ T!AtOrBetter(T!Best(T!Window(kind)[d]), target)
      /\ \A i \in 1..n : T!AtOrBetter(T!Best(T!Window(kind)[i]), target) => d <= i
  BY <1>2, <1>4, TouchFacts
<1>10. d \in at /\ \A i \in at : d <= i
  <2>1. ASSUME NEW i \in at PROVE d <= i
    <3>1. CASE i \in 1..n
      BY <1>7, <1>9, <2>1, <3>1
    <3>2. CASE i \notin 1..n
      BY <1>3, <1>8, <1>9, <2>1, <3>2
    <3> QED BY <3>1, <3>2
  <2> QED BY <1>7, <1>9, <2>1
<1>11. T!Min(at) = d
  <2>1. T!Min(at) \in at /\ \A i \in at : T!Min(at) <= i
    BY <1>8, <1>10, LeastOf, SameBounds
  <2>2. T!Min(at) \in Nat /\ d \in Nat /\ T!Min(at) <= d /\ d <= T!Min(at)
    BY <1>8, <1>10, <2>1
  <2> QED BY <2>2
<1>12. T!DayTouched(kind)' = IF at = {} THEN 0 ELSE T!Min(at)
  BY <1>6 DEF T!DayTouched, T!Min
<1> QED BY <1>2, <1>10, <1>11, <1>12

\* A row whose exit is settled is written the same again, the touch aside.
LEMMA RowStays ==
  ASSUME T!TradesAssumption, Market, Grown, NEW kind \in T!Kinds, T!Resolved(T!Row(kind))
  PROVE  SameTrade(T!Row(kind), T!Row(kind)')
<1>1. /\ SameMarket /\ Len(days) \in Nat /\ Len(days') \in Nat /\ Len(days) <= Len(days')
      /\ \A i \in 1..Len(days) : days'[i] = days[i]
  BY DEF Grown
<1>2. T!Entry(kind) # T!Null /\ T!Window(kind) # <<>>
  BY DEF T!Row, T!Unresolved, T!Resolved
<1>3. PICK entry, x, n : entry = T!Entry(kind) /\ x = T!Exit(kind) /\ n = x.idx
  OBVIOUS
<1>4. T!Row(kind) = [entry |-> entry, exit |-> x.price, reason |-> x.reason, idx |-> n, ambiguous |-> x.ambiguous,
                     gross |-> T!Gain(entry, x.price), net |-> T!Net(T!Gain(entry, x.price)),
                     mfe |-> T!MFE(kind, n), mae |-> T!MAE(kind, n),
                     touched |-> T!DayTouched(kind), forward |-> T!Forward(kind)]
  BY <1>2, <1>3 DEF T!Row
<1>5. x.reason # "unfinished"
  BY <1>4 DEF T!Resolved
<1>6. T!Entry(kind)' = entry /\ T!Exit(kind)' = x /\ n \in 1..Len(T!Window(kind))
  BY <1>2, <1>3, <1>5, EntryStays, ExitStays
<1>7. /\ T!EntryIdx(kind)' = T!EntryIdx(kind) /\ T!EntryIdx(kind) \in 1..2
      /\ Len(T!Window(kind)) \in Nat /\ Len(T!Window(kind))' \in Nat /\ Len(T!Window(kind)) <= Len(T!Window(kind))'
      /\ \A i \in 1..Len(T!Window(kind)) : T!Window(kind)'[i] = T!Window(kind)[i]
  BY WindowGrows
<1>8. T!Window(kind)' # <<>>
  BY <1>6, <1>7
<1>9. T!Row(kind)' = [entry |-> entry, exit |-> x.price, reason |-> x.reason, idx |-> n, ambiguous |-> x.ambiguous,
                     gross |-> T!Gain(entry, x.price)', net |-> T!Net(T!Gain(entry, x.price))',
                     mfe |-> T!MFE(kind, n)', mae |-> T!MAE(kind, n)',
                     touched |-> T!DayTouched(kind)', forward |-> T!Forward(kind)']
  BY <1>2, <1>3, <1>6, <1>8 DEF T!Row, T!Null, T!Gain, T!Net, T!MFE, T!MAE
<1>10. /\ T!Gain(entry, x.price)' = T!Gain(entry, x.price)
       /\ T!Net(T!Gain(entry, x.price))' = T!Net(T!Gain(entry, x.price))
  BY <1>1 DEF T!Gain, T!Net, T!Sign, SameMarket
<1>11. T!MFE(kind, n)' = T!MFE(kind, n) /\ T!MAE(kind, n)' = T!MAE(kind, n)
  <2>1. \A i \in 1..n : T!Window(kind)'[i] = T!Window(kind)[i]
    BY <1>6, <1>7
  <2>2. \A i \in 1..n : /\ T!Gain(T!Entry(kind), T!Best(T!Window(kind)[i]))'
                           = T!Gain(T!Entry(kind), T!Best(T!Window(kind)[i]))
                        /\ T!Gain(T!Entry(kind), T!Worst(T!Window(kind)[i]))'
                           = T!Gain(T!Entry(kind), T!Worst(T!Window(kind)[i]))
    BY <1>1, <1>3, <1>6, <2>1 DEF T!Gain, T!Best, T!Worst, T!Sign, SameMarket
  <2>3. /\ {T!Gain(T!Entry(kind), T!Best(T!Window(kind)[i])) : i \in 1..n}'
           = {T!Gain(T!Entry(kind), T!Best(T!Window(kind)[i])) : i \in 1..n}
        /\ {T!Gain(T!Entry(kind), T!Worst(T!Window(kind)[i])) : i \in 1..n}'
           = {T!Gain(T!Entry(kind), T!Worst(T!Window(kind)[i])) : i \in 1..n}
    BY <2>2
  <2> QED BY <2>3 DEF T!MFE, T!MAE, T!Max, T!Min
<1>12. T!Forward(kind)' = T!Forward(kind)
  <2>1. Len(days) > T!EntryIdx(kind)
    BY <1>1, <1>2, <1>7, WindowFacts
  <2>2. T!EntryIdx(kind) \in 1..Len(days) /\ T!EntryIdx(kind) + 1 \in 1..Len(days) /\ Len(days') > T!EntryIdx(kind)
    BY <1>1, <1>7, <2>1
  <2> QED BY <1>1, <1>7, <2>1, <2>2 DEF T!Forward
<1> QED BY <1>4, <1>9, <1>10, <1>11, <1>12 DEF SameTrade

\* So what the rows on file have in common with the ones that would be written stays.
LEMMA CurrentStays ==
  ASSUME T!TradesAssumption, Market, Grown, NEW kind \in T!Kinds, NEW rec,
         Sound(rec, kind), Current(rec, kind)
  PROVE  Current(rec, kind)'
<1>3. rec.entry # T!Null => rec.entry = T!Entry(kind)'
  BY EntryStays DEF Current
<1>4. rec.forward # T!Null => rec.forward = T!Forward(kind)' /\ Len(days') > T!EntryIdx(kind)'
  <2> SUFFICES ASSUME rec.forward # T!Null PROVE rec.forward = T!Forward(kind)' /\ Len(days') > T!EntryIdx(kind)'
    OBVIOUS
  <2>1. rec.forward = T!Forward(kind) /\ Len(days) > T!EntryIdx(kind)
    BY DEF Current
  <2>2. /\ T!EntryIdx(kind)' = T!EntryIdx(kind) /\ T!EntryIdx(kind) \in 1..2
        /\ Len(days) \in Nat /\ Len(days') \in Nat /\ Len(days) <= Len(days')
        /\ \A i \in 1..Len(days) : days'[i] = days[i]
    BY WindowGrows DEF Grown
  <2>3. T!EntryIdx(kind) \in 1..Len(days) /\ T!EntryIdx(kind) + 1 \in 1..Len(days) /\ Len(days') > T!EntryIdx(kind)
    BY <2>1, <2>2
  <2> QED BY <2>1, <2>2, <2>3 DEF T!Forward
<1>5. rec.touched > 0 => rec.touched = T!DayTouched(kind)'
  <2> SUFFICES ASSUME rec.touched > 0 PROVE rec.touched = T!DayTouched(kind)'
    OBVIOUS
  <2>1. rec.touched = T!DayTouched(kind) /\ rec.entry # T!Null
    <3>1. rec.reason # "none"
      BY DEF Sound
    <3> QED BY <3>1 DEF Sound, Current
  <2>2. T!Entry(kind) # T!Null /\ T!DayTouched(kind) > 0
    BY <2>1 DEF Current
  <2> QED BY <2>1, <2>2, TouchStays
<1>6. T!Resolved(rec) => SameTrade(rec, T!Row(kind)')
  <2> SUFFICES ASSUME T!Resolved(rec) PROVE SameTrade(rec, T!Row(kind)')
    OBVIOUS
  <2>1. SameTrade(rec, T!Row(kind))
    BY DEF Current
  <2>2. T!Resolved(T!Row(kind))
    BY <2>1 DEF SameTrade, T!Resolved
  <2>3. SameTrade(T!Row(kind), T!Row(kind)')
    BY <2>2, RowStays
  <2> QED BY <2>1, <2>3 DEF SameTrade
<1> QED BY <1>3, <1>4, <1>5, <1>6 DEF Current, T!Null, T!Resolved, SameTrade

-----------------------------------------------------------------------------
(* Trades: the invariant holds.                                            *)

TradesInv ==
  /\ Market /\ booked = [kind \in T!Kinds |-> booked[kind]]
  /\ \A kind \in T!Kinds : Sound(booked[kind], kind) /\ Current(booked[kind], kind)

LEMMA TradesStart == ASSUME T!TradesAssumption, T!Init PROVE TradesInv
<1>1. Market
  <2>1. PICK s \in Shapes : days = <<s>>
    BY DEF T!Init
  <2>2. days \in Seq(Shapes) /\ days # <<>> /\ days[1] = s /\ T!IsBar(s) /\ DOMAIN days = 1..1
    BY <2>1, TradeConstants
  <2>3. hours \in Hourlies \/ hours = days
    BY DEF T!Init
  <2>4. hours \in Seq({hours[i] : i \in DOMAIN hours}) /\ \A i \in DOMAIN hours : T!IsBar(hours[i])
    <3>1. CASE hours \in Hourlies
      BY <3>1 DEF T!TradesAssumption
    <3>2. CASE hours = days
      <4>1. \A i \in DOMAIN days : days[i] = s
        BY <2>2
      <4>2. <<s>> \in Seq({days[i] : i \in DOMAIN days})
        BY <2>2
      <4> QED BY <2>1, <2>2, <3>2, <4>1, <4>2
    <3> QED BY <2>3, <3>1, <3>2
  <2> QED BY <2>2, <2>4 DEF T!Init, Market
<1>2. booked = [kind \in T!Kinds |-> T!Unresolved(kind)]
  BY DEF T!Init
<1>3. ASSUME NEW kind \in T!Kinds PROVE Sound(booked[kind], kind) /\ Current(booked[kind], kind)
  <2>1. booked[kind] = [entry |-> T!Entry(kind), exit |-> T!Null, reason |-> "none", idx |-> 0, ambiguous |-> FALSE,
                        gross |-> T!Null, net |-> T!Null, mfe |-> T!Null, mae |-> T!Null, touched |-> 0,
                        forward |-> T!Null]
    BY <1>2 DEF T!Unresolved
  <2>2. T!Window(kind) = <<>>
    <3>1. Len(days) = 1
      BY DEF T!Init
    <3>2. Len(T!Window(kind)) = 0 /\ T!Window(kind) \in Seq(Shapes)
      BY <1>1, <3>1, WindowFacts
    <3> QED BY <3>2
  <2>3. T!Row(kind) = booked[kind]
    BY <1>2, <2>2 DEF T!Row
  <2>4. Sound(T!Row(kind), kind)
    BY <1>1, RowFacts
  <2>5. PICK rec : rec = booked[kind]
    OBVIOUS
  <2>6. rec.entry = T!Entry(kind) /\ rec.reason = "none" /\ rec.touched = 0 /\ rec.forward = T!Null
    BY <2>1, <2>5
  <2>7. Current(booked[kind], kind)
    BY <2>5, <2>6 DEF Current, T!Resolved
  <2> QED BY <2>3, <2>4, <2>7
<1> QED BY <1>1, <1>2, <1>3 DEF TradesInv

LEMMA BacktestKeeps ==
  ASSUME T!TradesAssumption, TradesInv, T!Backtest
  PROVE  TradesInv' /\ \A kind \in T!Kinds : booked'[kind] = T!Row(kind)
<1>1. booked' = [kind \in T!Kinds |-> T!Row(kind)]
  BY DEF T!Backtest
<1>2. Market /\ Grown
  BY BarsStay DEF TradesInv
<1>3. ASSUME NEW kind \in T!Kinds PROVE Sound(booked[kind], kind)' /\ Current(booked[kind], kind)'
  <2>1. PICK rec : rec = T!Row(kind)
    OBVIOUS
  <2>2. Sound(rec, kind)
    BY <1>2, <2>1, RowFacts
  <2>3. Current(rec, kind)
    <3>1. CASE T!Entry(kind) = T!Null \/ T!Window(kind) = <<>>
      <4>1. rec.entry = T!Entry(kind) /\ rec.reason = "none" /\ rec.touched = 0 /\ rec.forward = T!Null
        BY <2>1, <3>1 DEF T!Row, T!Unresolved
      <4> QED BY <4>1 DEF Current, T!Resolved
    <3>2. CASE T!Entry(kind) # T!Null /\ T!Window(kind) # <<>>
      <4>1. rec.entry = T!Entry(kind) /\ rec.touched = T!DayTouched(kind) /\ rec.forward = T!Forward(kind)
        BY <2>1, <3>2 DEF T!Row
      <4>2. T!Forward(kind) # T!Null => Len(days) > T!EntryIdx(kind)
        BY DEF T!Forward
      <4> QED BY <2>1, <4>1, <4>2 DEF Current, SameTrade
    <3> QED BY <3>1, <3>2
  <2>4. Sound(rec, kind)' /\ Current(rec, kind)'
    BY <1>2, <2>2, <2>3, SoundStays, CurrentStays
  <2>5. booked'[kind] = rec
    BY <1>1, <2>1
  <2>6. Sound(booked[kind], kind)'
    BY <2>4, <2>5 DEF Sound, IsRow, Left
  <2>7. Current(booked[kind], kind)'
    BY <2>4, <2>5 DEF Current, SameTrade, T!Resolved
  <2> QED BY <2>6, <2>7
<1>4. \A kind \in T!Kinds : booked'[kind] = T!Row(kind)
  BY <1>1
<1>5. booked' = [kind \in T!Kinds |-> booked'[kind]]
  BY <1>1
<1> QED BY <1>2, <1>3, <1>4, <1>5 DEF TradesInv, T!Kinds, Grown

LEMMA SessionKeeps ==
  ASSUME T!TradesAssumption, TradesInv, T!Session
  PROVE  TradesInv' /\ booked' = booked
<1>1. Market /\ Grown /\ booked' = booked
  BY BarsStay DEF TradesInv, T!Session
<1>2. ASSUME NEW kind \in T!Kinds PROVE Sound(booked[kind], kind)' /\ Current(booked[kind], kind)'
  <2>1. PICK rec : rec = booked[kind]
    OBVIOUS
  <2>2. Sound(rec, kind) /\ Current(rec, kind)
    BY <2>1 DEF TradesInv
  <2>3. Sound(rec, kind)' /\ Current(rec, kind)'
    BY <1>1, <2>2, SoundStays, CurrentStays
  <2>4. booked'[kind] = rec
    BY <1>1, <2>1
  <2> QED BY <2>3, <2>4 DEF Sound, Current, IsRow, SameTrade, T!Resolved, Left, T!Gain, T!Null
<1> QED BY <1>1, <1>2 DEF TradesInv, T!Kinds, Grown

LEMMA RowIs ==
  ASSUME T!TradesAssumption, Market, NEW kind \in T!Kinds
  PROVE  /\ IsRow(T!Row(kind)) /\ T!Row(kind).entry = T!Entry(kind)
         /\ T!Entry(kind) # T!Null /\ T!Window(kind) # <<>> =>
              T!Row(kind).touched = T!DayTouched(kind) /\ T!Row(kind).forward = T!Forward(kind)
<1>1. IsRow(T!Row(kind))
  BY RowFacts DEF Sound
<1>2. CASE T!Entry(kind) = T!Null \/ T!Window(kind) = <<>>
  <2>1. T!Row(kind).entry = T!Entry(kind)
    BY <1>2 DEF T!Row, T!Unresolved
  <2> QED BY <1>1, <1>2, <2>1
<1>3. CASE T!Entry(kind) # T!Null /\ T!Window(kind) # <<>>
  <2>1. /\ T!Row(kind).entry = T!Entry(kind)
        /\ T!Row(kind).touched = T!DayTouched(kind) /\ T!Row(kind).forward = T!Forward(kind)
    BY <1>3 DEF T!Row
  <2> QED BY <1>1, <2>1
<1> QED BY <1>2, <1>3

LEMMA TradesSafety == ASSUME TradesInv PROVE T!NoInventedMoney /\ T!HarnessPasses
<1>1. ASSUME NEW kind \in T!Kinds PROVE Sound(booked[kind], kind)
  BY DEF TradesInv
<1>2. T!NoInventedMoney
  <2>1. ASSUME NEW kind \in T!Kinds, NEW rec, rec = booked[kind], rec.reason # "none"
        PROVE  /\ Left(kind, [idx |-> rec.idx, price |-> rec.exit, reason |-> rec.reason],
                       T!StopMark(rec.entry), T!TargetMark(rec.entry))
               /\ rec.mae <= rec.gross /\ rec.gross <= rec.mfe /\ (rec.touched = 0 => rec.reason # "target")
    BY <1>1, <2>1 DEF Sound
  <2> QED BY <2>1 DEF T!NoInventedMoney, Left
<1>3. ASSUME NEW kind \in T!Kinds
      PROVE  T!EntrySane(kind) /\ T!ExitSane(kind) /\ T!ReturnIdentity(kind)
  <2>1. PICK rec : rec = booked[kind]
    OBVIOUS
  <2>2. Sound(rec, kind)
    BY <1>1, <2>1
  <2>3. T!EntrySane(kind)
    BY <2>1, <2>2 DEF Sound, T!EntrySane
  <2>4. T!ReturnIdentity(kind)
    BY <2>1, <2>2 DEF Sound, T!ReturnIdentity
  <2>5. T!ExitSane(kind)
    <3> SUFFICES ASSUME rec.exit # T!Null
                 PROVE  /\ T!EntryIdx(kind) + rec.idx \in DOMAIN days
                        /\ T!Inside(rec.exit, days[T!EntryIdx(kind) + rec.idx])
      BY <2>1 DEF T!ExitSane
    <3>1. rec.reason # "none"
      BY <2>2 DEF Sound
    <3>2. rec.idx \in Nat /\ rec.idx >= 1 /\ T!EntryIdx(kind) + rec.idx <= Len(days)
      BY <2>2, <3>1 DEF Sound, IsRow
    <3>3. T!EntryIdx(kind) \in 1..2 /\ DOMAIN days = 1..Len(days) /\ Len(days) \in Nat
      BY DEF T!EntryIdx, TradesInv, Market
    <3>4. Left(kind, [idx |-> rec.idx, price |-> rec.exit, reason |-> rec.reason],
               T!StopMark(rec.entry), T!TargetMark(rec.entry))
      BY <2>2, <3>1 DEF Sound
    <3> QED BY <3>2, <3>3, <3>4 DEF Left, T!Inside
  <2> QED BY <2>3, <2>4, <2>5
<1> QED BY <1>2, <1>3 DEF T!HarnessPasses

LEMMA ExitsStay == ASSUME T!TradesAssumption, TradesInv, [T!Next]_(T!vars) PROVE T!ExitIsFinal
<1>1. ASSUME booked' = booked PROVE T!ExitIsFinal
  BY <1>1 DEF T!ExitIsFinal
<1>2. CASE T!Backtest
  <2>1. ASSUME NEW kind \in T!Kinds, NEW old, NEW new, old = booked[kind], new = booked'[kind]
        PROVE  /\ T!Resolved(old) => [new EXCEPT !.touched = 0] = [old EXCEPT !.touched = 0]
               /\ old.touched > 0 => new.touched = old.touched
               /\ old.entry # T!Null => new.entry = old.entry
               /\ old.forward # T!Null => new.forward = old.forward
    <3>1. new = T!Row(kind) /\ Market /\ Sound(old, kind) /\ Current(old, kind)
      BY <1>2, <2>1, BacktestKeeps DEF TradesInv
    <3>2. /\ IsRow(new) /\ new.entry = T!Entry(kind)
          /\ T!Entry(kind) # T!Null /\ T!Window(kind) # <<>> =>
               new.touched = T!DayTouched(kind) /\ new.forward = T!Forward(kind)
      BY <3>1, RowIs
    <3>3. old.entry # T!Null => new.entry = old.entry
      BY <3>1, <3>2 DEF Current
    <3>4. old.touched > 0 => new.touched = old.touched
      <4> SUFFICES ASSUME old.touched > 0 PROVE new.touched = old.touched
        OBVIOUS
      <4>1. old.entry # T!Null
        <5>1. old.reason # "none"
          BY <3>1 DEF Sound
        <5> QED BY <3>1, <5>1 DEF Sound
      <4>2. T!Entry(kind) # T!Null /\ old.touched = T!DayTouched(kind)
        BY <3>1, <4>1 DEF Current
      <4>3. T!Window(kind) # <<>>
        BY <4>2, <3>1, TouchFacts
      <4> QED BY <3>2, <4>2, <4>3
    <3>5. old.forward # T!Null => new.forward = old.forward
      <4> SUFFICES ASSUME old.forward # T!Null PROVE new.forward = old.forward
        OBVIOUS
      <4>1. old.entry # T!Null
        <5>1. old.reason # "none"
          BY <3>1 DEF Sound
        <5> QED BY <3>1, <5>1 DEF Sound
      <4>2. T!Entry(kind) # T!Null /\ old.forward = T!Forward(kind) /\ Len(days) > T!EntryIdx(kind)
        BY <3>1, <4>1 DEF Current
      <4>3. T!Window(kind) # <<>>
        <5>1. Len(days) \in Nat /\ T!EntryIdx(kind) \in 1..2 /\ MaxHold \in Nat \ {0}
          BY <3>1, TradeConstants DEF Market, T!EntryIdx
        <5>2. Len(T!Window(kind)) # 0
          BY <3>1, <4>2, <5>1, WindowFacts
        <5> QED BY <5>2
      <4> QED BY <3>2, <4>2, <4>3
    <3>6. T!Resolved(old) => [new EXCEPT !.touched = 0] = [old EXCEPT !.touched = 0]
      <4>1. T!Resolved(old) => SameTrade(old, new)
        BY <3>1 DEF Current
      <4>2. IsRow(old) /\ IsRow(new)
        BY <3>1, <3>2 DEF Sound
      <4> QED BY <4>1, <4>2 DEF SameTrade, IsRow
    <3> QED BY <3>3, <3>4, <3>5, <3>6
  <2> QED BY <2>1 DEF T!ExitIsFinal
<1>3. CASE T!Session
  BY <1>1, <1>3 DEF T!Session
<1>4. CASE UNCHANGED T!vars
  BY <1>1, <1>4 DEF T!vars
<1> QED BY <1>2, <1>3, <1>4 DEF T!Next

LEMMA StutterKeeps == ASSUME T!TradesAssumption, TradesInv, UNCHANGED T!vars PROVE TradesInv'
<1>1. Market /\ Grown /\ booked' = booked
  <2>1. SameMarket /\ days' = days /\ booked' = booked /\ Market
    BY DEF T!vars, SameMarket, TradesInv
  <2>2. Len(days) \in Nat
    BY <2>1 DEF Market
  <2>3. Market'
    BY <2>1 DEF Market, SameMarket, T!Sides, T!AtOrWorse, T!Worst, T!Sign, T!Null, T!IsBar
  <2> QED BY <2>1, <2>2, <2>3 DEF Grown
<1>2. ASSUME NEW kind \in T!Kinds PROVE Sound(booked[kind], kind)' /\ Current(booked[kind], kind)'
  <2>1. PICK rec : rec = booked[kind]
    OBVIOUS
  <2>2. Sound(rec, kind) /\ Current(rec, kind)
    BY <2>1 DEF TradesInv
  <2>3. Sound(rec, kind)' /\ Current(rec, kind)'
    BY <1>1, <2>2, SoundStays, CurrentStays
  <2>4. booked'[kind] = rec
    BY <1>1, <2>1
  <2> QED BY <2>3, <2>4 DEF Sound, Current, IsRow, SameTrade, T!Resolved, Left, T!Gain, T!Null
<1> QED BY <1>1, <1>2 DEF TradesInv, T!Kinds, Grown

\* Whatever bars come, no exit is better than the market was, every price on file is one
\* the harness finds traded on a bar it names, and what a backtest resolved no later one
\* changes: the window of a row is a prefix of the one any later run sees, and the first
\* rule to fire in it stays the first.
THEOREM TradesStand ==
  ASSUME T!TradesAssumption
  PROVE  T!Spec => [](T!NoInventedMoney /\ T!HarnessPasses) /\ [][T!ExitIsFinal]_(T!vars)
<1>1. T!Init => TradesInv
  BY TradesStart
<1>2. TradesInv /\ [T!Next]_(T!vars) => TradesInv'
  <2>1. ASSUME TradesInv, UNCHANGED T!vars PROVE TradesInv'
    BY <2>1, StutterKeeps
  <2>2. ASSUME TradesInv, T!Next PROVE TradesInv'
    BY <2>2, BacktestKeeps, SessionKeeps DEF T!Next
  <2> QED BY <2>1, <2>2
<1>3. TradesInv => T!NoInventedMoney /\ T!HarnessPasses
  BY TradesSafety
<1>4. TradesInv /\ [T!Next]_(T!vars) => T!ExitIsFinal
  BY ExitsStay
<1> QED BY <1>1, <1>2, <1>3, <1>4, PTL DEF T!Spec
==============================================================================
