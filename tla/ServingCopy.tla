----------------------------- MODULE ServingCopy -----------------------------
(***************************************************************************)
(* What `cscan sync` ships of the charts and the events (jobs/sync         *)
(* run_sync): the whole subset by hand, and in the nightly only what is    *)
(* newer than the serving store's own newest row, tickers it lacks, and    *)
(* events modified since the last sync that ended ok. A generation is the  *)
(* events of one config_hash; `serving_config` names the one the site      *)
(* reads, the research database's setting the one a sync ships.            *)
(*                                                                         *)
(* A row is the number of times its contents changed, 0 if there is none.  *)
(***************************************************************************)
EXTENDS Integers, FiniteSets, FiniteSetsExt, Functions

CONSTANTS
  Tickers,
  Generations,
  First,        \* the generation served at the start
  FirstDay,     \* the day the instance begins; what is older is on both stores
  LastDay,      \* bound: days
  Overlap,      \* SYNC_OVERLAP_DAYS
  ModOverlap,   \* SYNC_MODIFIED_OVERLAP, in days
  MaxLag,       \* MAX_TARGET_LAG_SESSIONS
  CopyKinds,    \* what may happen in this instance
  MaxEvents     \* bound: how often something of CopyKinds happens

Days == 1..LastDay

ServingCopyKinds ==
  {"late",      \* a night's bar is fetched on a later day
   "restate",   \* a ticker's whole history is rewritten (a split)
   "history",   \* a ticker starts with a short history
   "modify",    \* a writer changes an event of any age
   "rebuild",   \* a backtest writes another generation
   "setting",   \* someone sets the research database's generation
   "config",    \* cscan db sync-config
   "full",      \* cscan sync by hand
   "stop",      \* a sync dies between two tables
   "cut",       \* a sync dies between two chunks of one table
   "unread"}    \* a watermark cannot be read

ServingCopyAssumption ==
  /\ CopyKinds \subseteq ServingCopyKinds /\ First \in Generations
  /\ {Overlap, MaxEvents} \subseteq Nat /\ {ModOverlap, MaxLag} \subseteq Nat \ {0}
  /\ LastDay \in Nat /\ FirstDay \in Days

VARIABLES
  today,
  bars, chart,   \* daily bars by ticker: on research, on serving
  events, copy,  \* events by generation and day: on research, on serving
  stamp,         \* modified_at of the research events, a day
  open,          \* the events transaction not yet committed
  setting,       \* capitalscan.default_config_hash on research
  pin, served,   \* serving_config: on research, on serving
  synced,        \* the start of the last sync that ended ok
  sync,          \* the running sync
  behind,        \* bars the next sync's window misses: written there, or left by a cut
  passed,        \* events still to ship when a sync of another generation moved the line
  happened

vars == <<today, bars, chart, events, copy, stamp, open, setting, pin, served, synced,
          sync, behind, passed, happened>>

research == <<today, bars, events, stamp, open, setting, pin>>
serving  == <<chart, copy, served>>

Happens(kind) == kind \in CopyKinds /\ happened < MaxEvents /\ happened' = happened + 1

Never == [d \in Days |-> 0]
None  == [day |-> 0, gen |-> First, at |-> 0]
Idle  == [phase |-> "idle", start |-> 0, gen |-> First, from |-> 0, whole |-> {}, eventsFrom |-> 0,
          since |-> 0, bars |-> [t \in Tickers |-> Never], events |-> Never, stamp |-> Never,
          pin |-> First]

On(row, ds) == {d \in ds : row[d] > 0}
Newest(ds)  == IF ds = {} THEN 0 ELSE Max(ds)

-----------------------------------------------------------------------------
(* The research store. Bars and events of a day come with its nightly.     *)

\* A ticker may start with a short history, on both stores.
Init ==
  /\ today = FirstDay
  /\ \E short \in SUBSET Tickers :
       /\ "history" \in CopyKinds \/ short = {}
       /\ bars = [t \in Tickers |-> [d \in Days |->
                   IF d = FirstDay \/ (d < FirstDay /\ t \notin short) THEN 1 ELSE 0]]
  /\ chart = bars
  /\ events = [g \in Generations |-> [d \in Days |-> IF d <= FirstDay /\ g = First THEN 1 ELSE 0]]
  /\ copy = events
  /\ stamp = [g \in Generations |-> [d \in Days |-> IF d <= FirstDay /\ g = First THEN d ELSE 0]]
  /\ open = None /\ setting = First /\ pin = First /\ served = First
  /\ synced = FirstDay /\ sync = Idle /\ behind = {} /\ passed = {} /\ happened = 0

\* A bar at d will not be shipped by its window: `max(ts)` of serving, over all
\* tickers, is too far ahead of it.
OutOfWindow(d) == d < Newest(UNION {On(chart[t], Days) : t \in Tickers}) - Overlap

\* A night's chain, for the tickers whose fetch worked; events of the live
\* generation, with their stamp.
Night ==
  /\ today < LastDay /\ sync = Idle /\ open = None
  /\ today' = today + 1
  /\ \E missed \in SUBSET Tickers :
       /\ IF missed = {} THEN UNCHANGED happened ELSE Happens("late")
       /\ missed # Tickers
       /\ bars' = [t \in Tickers |-> IF t \in missed THEN bars[t] ELSE [bars[t] EXCEPT ![today + 1] = 1]]
  /\ events' = [events EXCEPT ![setting][today + 1] = 1]
  /\ stamp' = [stamp EXCEPT ![setting][today + 1] = today + 1]
  /\ UNCHANGED <<chart, copy, open, setting, pin, served, synced, sync, behind, passed>>

\* Bars written behind the newest one. The jobs that write bars and the nightly
\* keep out of each other's way (the nightly's lock, _jobs_running).
WriteBars(t, ds) ==
  /\ sync = Idle
  /\ bars' = [bars EXCEPT ![t] = [d \in Days |-> IF d \in ds THEN @[d] + 1 ELSE @[d]]]
  /\ UNCHANGED <<today, events, stamp, open, setting, pin, serving, synced, sync, passed>>

MissedByWindow(t, ds) == behind' = behind \cup {<<t, d>> : d \in {x \in ds : OutOfWindow(x)}}

FetchLate ==
  \E t \in Tickers, d \in 1..today :
    /\ bars[t][d] = 0 /\ d > Min(On(bars[t], Days))
    /\ WriteBars(t, {d}) /\ MissedByWindow(t, {d}) /\ UNCHANGED happened

Restate ==
  \E t \in Tickers :
    LET ds == On(bars[t], Days)
    IN  Happens("restate") /\ WriteBars(t, ds) /\ MissedByWindow(t, ds)

\* A ticker with a short history gets its whole one.
AddHistory ==
  \E t \in Tickers :
    LET older == {d \in Days : d < Min(On(bars[t], Days))}
    IN  older # {} /\ WriteBars(t, older) /\ UNCHANGED <<behind, happened>>

\* A transaction stamps its row with its own start, and commits within a day.
BeginModify ==
  /\ open = None /\ Happens("modify")
  /\ \E g \in Generations, d \in Days : events[g][d] > 0 /\ open' = [day |-> d, gen |-> g, at |-> today]
  /\ UNCHANGED <<today, bars, events, stamp, setting, pin, serving, synced, sync, behind, passed>>

Commit ==
  /\ open # None
  /\ events' = [events EXCEPT ![open.gen][open.day] = @ + 1]
  /\ stamp' = [stamp EXCEPT ![open.gen][open.day] = open.at]
  /\ open' = None
  /\ UNCHANGED <<today, bars, setting, pin, serving, synced, sync, behind, passed, happened>>

\* Midnight passes while it is open.
Midnight ==
  /\ open # None /\ open.at = today /\ today < LastDay
  /\ today' = today + 1
  /\ UNCHANGED <<bars, events, stamp, open, setting, pin, serving, synced, sync, behind, passed, happened>>

\* A backtest of another configuration writes its whole generation.
Rebuild ==
  /\ Happens("rebuild") /\ open = None
  /\ \E g \in Generations :
       /\ On(events[g], Days) = {}
       /\ events' = [events EXCEPT ![g] = [d \in Days |-> IF d <= today THEN 1 ELSE 0]]
       /\ stamp' = [stamp EXCEPT ![g] = [d \in Days |-> IF d <= today THEN today ELSE 0]]
  /\ UNCHANGED <<today, bars, open, setting, pin, serving, synced, sync, behind, passed>>

\* By hand, once the generation is there.
SetDefault ==
  /\ Happens("setting")
  /\ \E g \in Generations \ {setting} : On(events[g], Days) # {} /\ setting' = g
  /\ UNCHANGED <<today, bars, events, stamp, open, pin, serving, synced, sync, behind, passed>>

\* Research first, then serving, which may not answer.
SyncConfig ==
  /\ Happens("config")
  /\ \E g \in Generations : pin' = g /\ served' \in {served, g}
  /\ UNCHANGED <<today, bars, events, stamp, open, setting, chart, copy, synced, sync, behind, passed>>

-----------------------------------------------------------------------------
(* One sync: bounds, one snapshot of research, then table by table.        *)

\* Mutant: no overlap.
FromWithoutOverlap(newest) == newest

\* The target's own newest row, minus the overlap; 0 is no bound.
From(newest) == IF newest = 0 THEN 0 ELSE newest - Overlap

\* The tickers serving lacks, or holds a shorter history of.
Backfilled ==
  {t \in Tickers :
     LET here == On(bars[t], Days)  there == On(chart[t], Days)
     IN  there = {} \/ (here # {} /\ Min(here) < Min(there))}

\* The line behind which no event changed since the last sync that ended ok.
Since == IF synced = 0 THEN 0 ELSE synced - ModOverlap

Start(incremental, readable) ==
  LET inc        == incremental /\ readable
      eventsFrom == From(Newest(On(copy[setting], Days)))
      window     == From(Newest(UNION {On(chart[t], Days) : t \in Tickers}))
  IN  sync' = [phase |-> "bars", start |-> today, gen |-> setting,
               from       |-> IF inc THEN window ELSE 0,
               whole      |-> IF inc THEN Backfilled ELSE {},
               eventsFrom |-> IF inc THEN eventsFrom ELSE 0,
               since      |-> IF inc THEN Since ELSE 0,
               bars |-> bars, events |-> events[setting], stamp |-> stamp[setting], pin |-> pin]

SyncStart ==
  /\ sync = Idle
  /\ \/ Start(TRUE, TRUE) /\ UNCHANGED happened
     \/ Start(FALSE, TRUE) /\ Happens("full")
     \/ Start(TRUE, FALSE) /\ Happens("unread")
  /\ UNCHANGED <<research, serving, synced, behind, passed>>

ShipsBar(t, d)   == d >= sync.from \/ t \in sync.whole
\* The second arm takes the older events whose stamp is recent enough.
ShipsEvent(d) == d >= sync.eventsFrom \/ sync.stamp[d] >= sync.since

BarsToShip == {p \in Tickers \X Days : sync.bars[p[1]][p[2]] > 0 /\ ShipsBar(p[1], p[2])}

\* The SELECT has no order, and every chunk is a transaction. What a copy leaves is
\* missed for good where what it shipped moved the window past it, and completed the
\* ticker's first date.
BarsShipped(ps) ==
  /\ chart' = [t \in Tickers |-> [d \in Days |-> IF <<t, d>> \in ps THEN sync.bars[t][d] ELSE chart[t][d]]]
  /\ behind' = (behind \ ps) \cup
       {p \in BarsToShip \ ps : /\ chart[p[1]][p[2]] # sync.bars[p[1]][p[2]]
                               /\ OutOfWindow(p[2])' /\ p[1] \notin Backfilled'}

CopyBars ==
  /\ sync.phase = "bars"
  /\ sync' = [sync EXCEPT !.phase = "events"]
  /\ UNCHANGED <<research, copy, served, synced, passed, happened>>
  /\ BarsShipped(BarsToShip)

Shipped(ds) ==
  LET shipped == {d \in ds : sync.events[d] > 0 /\ ShipsEvent(d)}
  IN  /\ copy' = [copy EXCEPT ![sync.gen] = [d \in Days |-> IF d \in shipped THEN sync.events[d] ELSE @[d]]]
      /\ passed' = {e \in passed : e[1] # sync.gen \/ e[2] \notin shipped}

CopyEvents ==
  /\ sync.phase = "events"
  /\ Shipped(Days)
  /\ sync' = [sync EXCEPT !.phase = "pin"]
  /\ UNCHANGED <<research, chart, served, synced, behind, happened>>

\* serving_config is the last table; then the run's row is closed, which moves
\* the line of every generation ("Any `ok` sync counts", _events_modified_since).
CopyPin ==
  /\ sync.phase = "pin"
  /\ served' = sync.pin /\ synced' = sync.start /\ sync' = Idle
  /\ passed' = passed \cup {e \in (Generations \ {sync.gen}) \X Days :
                              events[e[1]][e[2]] > 0 /\ copy[e[1]][e[2]] # events[e[1]][e[2]]}
  /\ UNCHANGED <<research, chart, copy, behind, happened>>

Stop ==
  /\ sync # Idle /\ Happens("stop") /\ sync' = Idle
  /\ UNCHANGED <<research, serving, synced, behind, passed>>

\* Between two chunks of the charts, or of the events.
Cut ==
  /\ Happens("cut") /\ sync' = Idle
  /\ UNCHANGED <<research, served, synced>>
  /\ \/ /\ sync.phase = "bars" /\ UNCHANGED <<copy, passed>>
        /\ \E ps \in SUBSET BarsToShip : BarsShipped(ps)
     \/ /\ sync.phase = "events" /\ UNCHANGED <<chart, behind>>
        /\ \E ds \in SUBSET Days : Shipped(ds)

-----------------------------------------------------------------------------
(* The preflight of a poller that writes this store; every day is a session. *)

\* The newest bar of any ticker, and the sessions after it.
SessionsBehind(session) == {d \in 1..session : d > Newest(UNION {On(chart[t], Days) : t \in Tickers})}

\* assert_target_is_current: an empty store is refused, too.
RefusedAsStale(session) ==
  (\A t \in Tickers : On(chart[t], Days) = {}) \/ Cardinality(SessionsBehind(session)) > MaxLag

Next ==
  \/ Night \/ FetchLate \/ Restate \/ AddHistory \/ BeginModify \/ Commit \/ Midnight
  \/ Rebuild \/ SetDefault \/ SyncConfig
  \/ SyncStart \/ CopyBars \/ CopyEvents \/ CopyPin \/ Stop \/ Cut

Spec == Init /\ [][Next]_vars

-----------------------------------------------------------------------------

\* A sync that ends ok leaves serving with every event of its generation as its
\* snapshot had it, whatever was modified, failed or was rebuilt before, except what
\* was still to ship when a sync of another generation moved the line
\* (_events_modified_since, "an incremental pass cannot know what it has missed").
EventsArrive ==
  sync.phase = "pin" =>
    \A d \in Days :
      sync.events[d] > 0 /\ <<sync.gen, d>> \notin passed => copy[sync.gen][d] = sync.events[d]

\* Not promised: a generation switched to, its first pass cut, is never completed by
\* the incremental passes that follow if the line is newer than its rebuild.
GenerationsArrive ==
  sync.phase = "pin" => \A d \in Days : sync.events[d] > 0 => copy[sync.gen][d] = sync.events[d]

\* And with every bar, except what was written behind the window of the newest bar,
\* and what a copy that was cut left there.
BarsArrive ==
  sync.phase = "events" =>
    \A t \in Tickers, d \in Days :
      /\ sync.bars[t][d] > 0 /\ <<t, d>> \notin behind
      => chart[t][d] = sync.bars[t][d]

\* Not promised: a bar restated behind the window stays as it was on serving, and a
\* hole that a cut copy left behind the window stays open ("a re-run converges",
\* run_sync, is true of a full pass alone).
ChartsMatch ==
  sync.phase = "events" =>
    \A t \in Tickers, d \in Days : sync.bars[t][d] > 0 => chart[t][d] = sync.bars[t][d]

\* A sync moves the site to a generation only when all of it that the line did not
\* pass is on serving, if the setting and serving_config agree (_tables:
\* serving_config comes last).
PinComesLast ==
  served' # served /\ sync # Idle /\ sync' = Idle /\ sync.pin = sync.gen =>
    \A d \in Days : sync.events[d] > 0 /\ <<served', d>> \notin passed => copy[served'][d] > 0

\* The poller of the session after a sync that ended ok is let in, if the nightly of
\* that day had a bar of any ticker, and so is one of the same day
\* (assert_target_is_current: "Two means a sync did not happen").
NextPollIsLetIn ==
  sync.phase = "pin" /\ (\E t \in Tickers : sync.bars[t][sync.start] > 0) =>
    ~RefusedAsStale(sync.start) /\ ~RefusedAsStale(sync.start + 1)
=============================================================================
