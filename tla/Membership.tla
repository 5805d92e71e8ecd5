------------------------------ MODULE Membership ------------------------------
(***************************************************************************)
(* Who is in the trade and the watch universe on which day, for one ticker *)
(* and one config generation: run_universe's quarterly rows, the step      *)
(* function TickerMembership reads from them, and the membership run_events*)
(* stamps on each event. The writers are the nightly chain (a few days of  *)
(* events), the monthly job (one quarter, then its events), add-ticker     *)
(* (every live quarter, then every event) and `cscan universe` by hand.    *)
(*                                                                         *)
(* A day's rating is what the criteria make of that day's indicator row.   *)
(* Left out: the criteria themselves (module UniverseRules), the side and  *)
(* type of an event, and the kinds of entry the weekly backtest stamps.    *)
(***************************************************************************)
EXTENDS Integers, FiniteSets, FiniteSetsExt

CONSTANTS
  LastDay,       \* bound: days are 1..LastDay
  QuarterDays,   \* days in a quarter: quarter q ends on day q * QuarterDays
  NightWindow,        \* days the nightly window reaches back
  Disruptions,   \* "kill", "hand", "revise"
  MaxDisruptions \* bound: how many times something goes wrong

Days == 1..LastDay
Quarters == 1..(LastDay \div QuarterDays)
AsOf(q) == q * QuarterDays
Ratings == {"trade", "watch", "out"}

MembershipAssumption ==
  /\ LastDay \in Nat /\ QuarterDays \in Nat \ {0} /\ NightWindow \in Nat
  /\ Disruptions \subseteq {"kill", "hand", "revise"} /\ MaxDisruptions \in Nat

VARIABLES
  today,
  bars,      \* the rating of each day the ticker traded
  universe,  \* the rows of the live quarters: a rating, or "skipped"
  events,    \* the membership stamped on the event of each day that fired
  restamp,   \* the days a job has yet to write events for
  trust,     \* "broken" by a disruption, "mending" in the add-ticker after it
  mishaps

vars == <<today, bars, universe, events, restamp, trust, mishaps>>

Mishap(kind) ==
  /\ kind \in Disruptions /\ mishaps < MaxDisruptions
  /\ mishaps' = mishaps + 1 /\ trust' = "broken"

-----------------------------------------------------------------------------

\* Mutant: the newest bar, however old.
FreshBarsEver(q) == {d \in DOMAIN bars : d <= AsOf(q)}

\* _latest_indicator_row: on or before the quarter's end, and inside it.
FreshBars(q) == {d \in DOMAIN bars : d <= AsOf(q) /\ d > AsOf(q) - QuarterDays}

\* A ticker without such a bar gets no row for the quarter.
Evaluated(q) == IF FreshBars(q) = {} THEN "skipped" ELSE bars[Max(FreshBars(q))]

\* The rows that decide on a day: of quarters that ended on or before it.
RowsAt(d) == {q \in DOMAIN universe : universe[q] # "skipped" /\ AsOf(q) <= d}

\* TickerMembership: the last of them; no row is no member.
MemberAt(d) == IF RowsAt(d) = {} THEN "out" ELSE universe[Max(RowsAt(d))]

\* _latest_completed_quarter: it ended before today.
Completed == {q \in Quarters : AsOf(q) < today}

Stamped(days) == [d \in days \cap DOMAIN bars |-> MemberAt(d)]

Verdicts(qs) == [q \in qs |-> Evaluated(q)]

\* An upsert: the new rows replace those under the same keys.
Over(new, rows) ==
  [k \in DOMAIN new \cup DOMAIN rows |-> IF k \in DOMAIN new THEN new[k] ELSE rows[k]]

-----------------------------------------------------------------------------

Init ==
  /\ today = 1 /\ bars = <<>> /\ universe = <<>> /\ events = <<>>
  /\ restamp = {} /\ trust = "sound" /\ mishaps = 0

\* The session of today closes: the ticker trades, or is halted or delisted.
Close ==
  /\ today \notin DOMAIN bars /\ today < LastDay
  /\ \/ \E rating \in Ratings : bars' = Over([d \in {today} |-> rating], bars)
     \/ bars' = bars
  /\ today' = today + 1
  /\ UNCHANGED <<universe, events, restamp, trust, mishaps>>

\* Older bars change with a re-adjusted history.
Revise ==
  /\ Mishap("revise")
  /\ \E d \in DOMAIN bars, rating \in Ratings : bars' = [bars EXCEPT ![d] = rating]
  /\ UNCHANGED <<today, universe, events, restamp>>

\* run_events over the nightly's window, up to the last closed session. The
\* chains share a lock with nobody but themselves, so it may come between.
Nightly ==
  /\ events' = Over(Stamped((today - 1 - NightWindow)..(today - 1)), events)
  /\ UNCHANGED <<today, bars, universe, restamp, trust, mishaps>>

\* monthly: the newest completed quarter, unless it has rows already. Its
\* events are written in a second step.
Monthly ==
  /\ restamp = {} /\ Completed # {}
  /\ Max(Completed) \notin DOMAIN universe
  /\ universe' = Over(Verdicts({Max(Completed)}), universe)
  /\ restamp' = AsOf(Max(Completed))..today
  /\ UNCHANGED <<today, bars, events, trust, mishaps>>

\* add-ticker: every quarter the generation holds, then every event.
AddTicker ==
  /\ restamp = {} /\ DOMAIN universe # {}
  /\ universe' = Verdicts(DOMAIN universe)
  /\ restamp' = 1..today
  /\ trust' = IF trust = "broken" /\ DOMAIN universe \subseteq Completed THEN "mending" ELSE trust
  /\ UNCHANGED <<today, bars, events, mishaps>>

\* `cscan universe --quarter Q`: any quarter that does not end after today, and
\* no events. With --tickers for another name it makes the quarter live.
ByHand ==
  /\ Mishap("hand")
  /\ \E q \in {q \in Quarters : AsOf(q) <= today} :
       \/ universe' = Over(Verdicts({q}), universe)
       \/ q \notin DOMAIN universe /\ universe' = Over([k \in {q} |-> "skipped"], universe)
  /\ UNCHANGED <<today, bars, events, restamp>>

\* The second step of monthly and add-ticker.
Restamp ==
  /\ restamp # {}
  /\ events' = Over(Stamped(restamp), events)
  /\ restamp' = {}
  /\ trust' = IF trust = "mending" THEN "sound" ELSE trust
  /\ UNCHANGED <<today, bars, universe, mishaps>>

Kill ==
  /\ restamp # {} /\ Mishap("kill") /\ restamp' = {}
  /\ UNCHANGED <<today, bars, universe, events>>

Next == Close \/ Revise \/ Nightly \/ Monthly \/ AddTicker \/ ByHand \/ Restamp \/ Kill

Spec == Init /\ [][Next]_vars

-----------------------------------------------------------------------------

TypeOK ==
  /\ today \in Days /\ DOMAIN bars \subseteq Days /\ \A d \in DOMAIN bars : bars[d] \in Ratings
  /\ DOMAIN universe \subseteq Quarters
  /\ \A q \in DOMAIN universe : universe[q] \in Ratings \cup {"skipped"}
  /\ DOMAIN events \subseteq Days /\ \A d \in DOMAIN events : events[d] \in Ratings
  /\ restamp \subseteq Days
  /\ trust \in {"sound", "mending", "broken"} /\ mishaps \in 0..MaxDisruptions

\* Whatever order the jobs come in, an event carries the membership the universe
\* table gives its day, and the table the verdict of each quarter's own last
\* bar: no row rests on a bar from before its quarter, or on a quarter that was
\* not over. A job that stops between its two steps, an evaluation by hand and a
\* re-adjusted history break this until the ticker is added again.
MembershipIsCurrent ==
  (trust = "sound" /\ restamp = {}) =>
    /\ \A d \in DOMAIN events : events[d] = MemberAt(d)
    /\ \A q \in DOMAIN universe :
         LET own == {d \in DOMAIN bars : (d - 1) \div QuarterDays + 1 = q}
         IN universe[q] = IF own = {} THEN "skipped" ELSE bars[Max(own)]
=============================================================================
