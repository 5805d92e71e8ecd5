----------------------------- MODULE ChartPages ------------------------------
(***************************************************************************)
(* The chart of a ticker's page (components/TickerChart.tsx): a range of   *)
(* closed sessions and today's partial one, which the live feed rewrites,  *)
(* extended to the left by pages of older sessions as the reader drags. A  *)
(* switch of the range replaces the bars under a chart that stays, and     *)
(* with it a request for an older page may be out. Sessions are numbered;  *)
(* a bar is its session and whether it is partial.                         *)
(***************************************************************************)
EXTENDS Integers, Sequences

CONSTANTS
  Yesterday,  \* the last session of before today
  Ranges,     \* how many sessions the page renders
  PageSize,   \* how many one request brings
  MaxDeeds    \* bound on what the reader does and what is delivered

ChartAssumption ==
  /\ Yesterday \in Nat \ {0} /\ Ranges \subseteq Nat \ {0} /\ PageSize \in Nat \ {0}
  /\ MaxDeeds \in Nat

Today == Yesterday + 1

VARIABLES
  first,       \* the ticker's first session
  ticked,      \* the poller has written today's row of bars_live
  ingested,    \* the night has written today's closed bar
  bars,        \* barsRef
  exhausted, interacted,
  out,         \* the request for an older page that is out, if any
  view,        \* the number of the render
  late,        \* since then an answer came to an earlier one
  deeds

vars == <<first, ticked, ingested, bars, exhausted, interacted, out, view, late, deeds>>

Deed == deeds < MaxDeeds /\ deeds' = deeds + 1

Bar(s) == [session |-> s, partial |-> FALSE]
Partial == [session |-> Today, partial |-> TRUE]
Sessions(bs) == {bs[i].session : i \in DOMAIN bs}
LastClosed == IF ingested THEN Today ELSE Yesterday
Run(a, b) == [i \in 1..(IF b < a THEN 0 ELSE b - a + 1) |-> Bar(a + i - 1)]
Later(a, b) == IF a > b THEN a ELSE b

-----------------------------------------------------------------------------
(* The server. *)

\* The closed bar of today wins over the live one.
Chart(range) ==
  LET closed == Run(Later(first, LastClosed - range + 1), LastClosed)
  IN IF ticked /\ Today \notin Sessions(closed) THEN Append(closed, Partial) ELSE closed

\* Strictly before the cursor, oldest first; nothing at the start of the history.
ChartBefore(session) == Run(Later(first, session - PageSize), session - 1)

Tick ==
  /\ ~ticked /\ ~ingested /\ ticked' = TRUE
  /\ UNCHANGED <<first, ingested, bars, exhausted, interacted, out, view, late, deeds>>

Ingest ==
  /\ ~ingested /\ ingested' = TRUE
  /\ UNCHANGED <<first, ticked, bars, exhausted, interacted, out, view, late, deeds>>

-----------------------------------------------------------------------------
(* The chart. *)

\* New props; a request that is out stays out, and inFlight with it.
Render(range) ==
  /\ Deed
  /\ bars' = Chart(range)
  /\ exhausted' = FALSE /\ interacted' = FALSE /\ view' = view + 1
  /\ late' = FALSE
  /\ UNCHANGED <<first, ticked, ingested, out>>

Interact ==
  /\ ~interacted /\ interacted' = TRUE
  /\ UNCHANGED <<first, ticked, ingested, bars, exhausted, out, view, late, deeds>>

\* The viewport reaches into the blank.
LoadOlder ==
  /\ Deed /\ interacted /\ out = {} /\ ~exhausted /\ bars # <<>>
  /\ out' = {[before |-> bars[1].session, view |-> view]}
  /\ UNCHANGED <<first, ticked, ingested, bars, exhausted, interacted, view, late>>

\* Mutant: the page as it came.
PrependAll(older, loaded) == older \o loaded

\* Without what is loaded already.
Prepend(older, loaded) ==
  SelectSeq(older, LAMBDA b : b.session \notin Sessions(loaded)) \o loaded

\* Nothing older, or nothing new: the chart stops asking.
Answer(ask) ==
  /\ LET merged == Prepend(ChartBefore(ask.before), bars)
     IN /\ bars' = merged
        /\ exhausted' = (exhausted \/ Len(merged) = Len(bars))
  /\ late' = (late \/ ask.view # view)
  /\ out' = {}
  /\ UNCHANGED <<first, ticked, ingested, interacted, view, deeds>>

\* The chart stays as it is; the next drag asks again.
Fail ==
  /\ out # {} /\ out' = {}
  /\ UNCHANGED <<first, ticked, ingested, bars, exhausted, interacted, view, late, deeds>>

\* In place of the partial one; a closed bar of the session stays.
WithCandle(bs) ==
  IF Today \in Sessions(bs) THEN bs ELSE Append(bs, Partial)

Deliver ==
  /\ Deed /\ ticked /\ view > 0
  /\ bars' = WithCandle(bars)
  /\ UNCHANGED <<first, ticked, ingested, exhausted, interacted, out, view, late>>

Init ==
  /\ first \in 1..Yesterday /\ ticked = FALSE /\ ingested = FALSE /\ bars = <<>>
  /\ exhausted = FALSE /\ interacted = FALSE /\ out = {} /\ view = 0 /\ late = FALSE
  /\ deeds = 0

Next ==
  \/ Tick \/ Ingest
  \/ \E range \in Ranges : Render(range)
  \/ Interact \/ LoadOlder \/ Fail \/ Deliver
  \/ \E ask \in out : Answer(ask)

Spec == Init /\ [][Next]_vars

-----------------------------------------------------------------------------

\* Sessions ascend, each once, whatever page meets whatever range: a series out of
\* order blanks the chart (prepend).
BarsAscend ==
  \A i \in 2..Len(bars) : bars[i - 1].session < bars[i].session

\* From the first bar to the last no session is missing, and a chart that stops
\* asking shows the start of the history, unless an answer came to another range
\* than the one that asked.
ChartIsWhole ==
  ~late =>
    /\ \A i \in 2..Len(bars) : bars[i].session = bars[i - 1].session + 1
    /\ exhausted => bars[1].session = first

\* Without that condition it does not hold: a page for a longer range lands before a
\* shorter one and leaves a hole, or is all known to a longer one and ends it.
ChartIsAlwaysWhole == \A i \in 2..Len(bars) : bars[i].session = bars[i - 1].session + 1
=============================================================================
