--------------------------- MODULE WeeklyBacktest ---------------------------
(***************************************************************************)
(* The weekly label refresh: `run_job.sh weekly` under systemd, and the    *)
(* chunked backtest of `cscan weekly`.                                     *)
(*                                                                         *)
(* The universe is cut into chunks of ChunkSize tickers. Each chunk leaves *)
(* a row in `runs`, and a restarted run skips the chunks that already have *)
(* an `ok` row of this week. `scheduled_runs` holds one slot for each      *)
(* week; `resume-check` reads it and turns a second start of a finished    *)
(* week into a skip.                                                       *)
(*                                                                         *)
(* Time is a week number. A start of the unit while it is active is lost,  *)
(* as systemd does; Restart=on-failure and OnBootSec start it again. Left  *)
(* out: the StartLimit (five failures in 90 minutes, which the bound on    *)
(* mishaps never reaches), the config-hash guard, the refit and the        *)
(* artifact publish at the end (their failure never changes the slot), and *)
(* a hand-run `cscan weekly`, which takes no lock.                         *)
(***************************************************************************)
EXTENDS Integers, FiniteSets, Sequences, Functions

CONSTANTS
  Tickers,       \* the active tickers
  ChunkSize,     \* tickers in a chunk
  LastWeek,      \* bound: weeks are 1..LastWeek, and 0 is before the first
  Disruptions,   \* what may go wrong in this instance
  MaxDisruptions \* bound: how many times something goes wrong

DisruptionKinds ==
  { "kill",      \* RuntimeMaxSec, the OOM killer
    "power",     \* the workstation goes down
    "chunk",     \* every ticker of a chunk raises (BacktestRunFailed), or the
                 \* write does, or what follows the write
    "ticker",    \* some tickers of a chunk raise
    "finalize",  \* finalize_cofire raises
    "check",     \* resume-check cannot read the decision
    "reorder",   \* nightly's ticker refresh rewrites the rows of `tickers`
    "overrun" }  \* Saturday comes while the unit is still active

ASSUME UniverseAssumption == IsFiniteSet(Tickers) /\ Tickers # {}
ASSUME WeekAssumption == ChunkSize \in Nat \ {0} /\ LastWeek \in Nat \ {0}
ASSUME MishapAssumption == Disruptions \subseteq DisruptionKinds /\ MaxDisruptions \in Nat

VARIABLES
  week,      \* the current week
  up,        \* the workstation is on
  unit,      \* the systemd unit: inactive, active, or waiting out RestartSec
  pc,        \* where the chain is
  order,     \* the order in which `SELECT ticker FROM tickers` returns its rows
  resolved,  \* the tickers this run works through, in its own order
  since,     \* the week weekly_period_start_utc() gave this run
  chunk,     \* the chunk the loop is at
  began,     \* the week the current chunk's `runs` row was started in
  failed,    \* tickers that failed in this run
  ledger,    \* the finished and abandoned backtest_compute rows of `runs`
  slot,      \* scheduled_runs: the status of each week's slot
  labels,    \* the week in which each ticker's labels were last computed
  cofire,    \* the labels finalize_cofire last counted over
  mishaps    \* disruptions so far

machine == <<week, up, unit>>
run     == <<resolved, since, chunk, began, failed>>
store   == <<ledger, slot, labels, cofire>>
vars    == <<machine, pc, order, run, store, mishaps>>

Weeks == 1..LastWeek
Positions == 1..Cardinality(Tickers)
Orders == Bijection(Positions, Tickers)
NumChunks == (Cardinality(Tickers) - 1) \div ChunkSize + 1
Slice(i) == {resolved[k] : k \in {k \in Positions : (k - 1) \div ChunkSize + 1 = i}}

Mishap(kind) ==
  /\ kind \in Disruptions
  /\ mishaps < MaxDisruptions
  /\ mishaps' = mishaps + 1

TypeOK ==
  /\ week \in Weeks /\ up \in BOOLEAN
  /\ unit \in {"inactive", "active", "restart"}
  /\ pc \in {"idle", "check", "record", "loop", "compute", "landed", "close"}
  /\ order \in Orders /\ resolved \in Orders
  /\ since \in 0..LastWeek /\ began \in 0..LastWeek
  /\ chunk \in 1..(NumChunks + 1)
  /\ failed \subseteq Tickers
  /\ ledger \subseteq [chunk: 1..NumChunks, week: Weeks, status: {"ok", "failed", "running"}]
  /\ slot \in [Weeks -> {"none", "started", "failed", "ok"}]
  /\ labels \in [Tickers -> 0..LastWeek]
  /\ cofire \in [Tickers -> 0..LastWeek]
  /\ mishaps \in 0..MaxDisruptions

\* The first Saturday's trigger has just started the unit.
Init ==
  /\ week = 1 /\ up = TRUE /\ unit = "active" /\ pc = "check"
  /\ order \in Orders /\ resolved = order
  /\ since = 0 /\ chunk = 1 /\ began = 0 /\ failed = {}
  /\ ledger = {}
  /\ slot = [w \in Weeks |-> "none"]
  /\ labels = [t \in Tickers |-> 0] /\ cofire = labels
  /\ mishaps = 0

-----------------------------------------------------------------------------
(* systemd and the machine.                                                *)

\* Saturday 00:00. The trigger starts an idle unit; a machine that is off
\* catches up at its next boot; a unit that is active is left alone.
NextWeek ==
  /\ week < LastWeek
  /\ week' = week + 1
  /\ IF unit = "inactive" THEN UNCHANGED mishaps ELSE Mishap("overrun")
  /\ IF up /\ unit = "inactive" THEN unit' = "active" /\ pc' = "check"
     ELSE UNCHANGED <<unit, pc>>
  /\ UNCHANGED <<up, order, run, store>>

\* RestartSec after a failure.
Restart ==
  /\ unit = "restart"
  /\ unit' = "active" /\ pc' = "check"
  /\ UNCHANGED <<week, up, order, run, store, mishaps>>

\* OnBootSec, and Persistent for a trigger missed while the machine was off.
Boot ==
  /\ ~up
  /\ up' = TRUE
  /\ unit' = "active" /\ pc' = "check"
  /\ UNCHANGED <<week, order, run, store, mishaps>>

InChunk == pc \in {"compute", "landed"}

\* A chunk that was in flight leaves its row as run_job opened it.
Abandon ==
  ledger' = IF InChunk
            THEN ledger \cup {[chunk |-> chunk, week |-> began, status |-> "running"]}
            ELSE ledger

PowerLoss ==
  /\ up
  /\ Mishap("power")
  /\ Abandon
  /\ up' = FALSE /\ unit' = "inactive" /\ pc' = "idle"
  /\ UNCHANGED <<week, order, run, slot, labels, cofire>>

\* RuntimeMaxSec or the OOM killer: a failure, so the unit restarts.
Kill ==
  /\ pc # "idle"
  /\ Mishap("kill")
  /\ Abandon
  /\ unit' = "restart" /\ pc' = "idle"
  /\ UNCHANGED <<week, up, order, run, slot, labels, cofire>>

\* nightly upserts every constituent, which moves rows about the table that the
\* weekly's query reads in no stated order.
RefreshTickers ==
  /\ up
  /\ Mishap("reorder")
  /\ order' \in Orders
  /\ UNCHANGED <<machine, pc, run, store>>

-----------------------------------------------------------------------------
(* run_job.sh and cscan weekly.                                            *)

Recorded == {w \in Weeks : slot[w] # "none"}

AlreadyCompleteEver ==                  \* mutant: the period is not compared
  Recorded # {} /\ slot[CHOOSE w \in Recorded : \A x \in Recorded : x <= w] = "ok"

AlreadyCompleteBefore ==                \* mutant: strictly after the period's start
  \E w \in Recorded : slot[w] = "ok" /\ w > week

\* resume_decision: the latest recorded run is ok and belongs to this period.
AlreadyComplete ==
  \E w \in Recorded : slot[w] = "ok" /\ w = week

Skip ==
  /\ pc = "check"
  /\ AlreadyComplete
  /\ unit' = "inactive" /\ pc' = "idle"
  /\ UNCHANGED <<week, up, order, run, store, mishaps>>

\* Any exit but "already complete" means run, an error included.
GoAhead ==
  /\ pc = "check"
  /\ IF AlreadyComplete THEN Mishap("check") ELSE UNCHANGED mishaps
  /\ pc' = "record"
  /\ UNCHANGED <<machine, order, run, store>>

\* scheduled_runs.record, then the tickers and the floor of this run.
Record ==
  /\ pc = "record"
  /\ slot' = [slot EXCEPT ![week] = "started"]
  /\ resolved' = order
  /\ since' = week
  /\ chunk' = 1 /\ failed' = {}
  /\ pc' = "loop"
  /\ UNCHANGED <<machine, order, began, ledger, labels, cofire, mishaps>>

ChunkAlreadyDoneEver ==                 \* mutant: no floor in time
  \E r \in ledger : r.chunk = chunk /\ r.status = "ok"

\* _chunk_already_done: an ok row of this chunk, started since the period began.
ChunkAlreadyDone ==
  \E r \in ledger : r.chunk = chunk /\ r.status = "ok" /\ r.week >= since

SkipChunk ==
  /\ pc = "loop" /\ chunk <= NumChunks
  /\ ChunkAlreadyDone
  /\ chunk' = chunk + 1
  /\ UNCHANGED <<machine, pc, order, resolved, since, began, failed, store, mishaps>>

StartChunk ==
  /\ pc = "loop" /\ chunk <= NumChunks
  /\ ~ChunkAlreadyDone
  /\ began' = week
  /\ pc' = "compute"
  /\ UNCHANGED <<machine, order, resolved, since, chunk, failed, store, mishaps>>

\* run_job closes a row ok: failed tickers are only a note on it.
Status(bad) == "ok"

\* run_backtest writes the tickers that worked in one transaction.
WriteChunk ==
  /\ pc = "compute"
  /\ \E bad \in SUBSET Slice(chunk) :
       /\ bad # Slice(chunk)
       /\ IF bad = {} THEN UNCHANGED mishaps ELSE Mishap("ticker")
       /\ labels' = [t \in Tickers |-> IF t \in Slice(chunk) \ bad THEN week ELSE labels[t]]
       /\ failed' = failed \cup bad
  /\ pc' = "landed"
  /\ UNCHANGED <<machine, order, resolved, since, chunk, began, ledger, slot, cofire>>

\* run_job closes the chunk's row.
CloseChunk ==
  /\ pc = "landed"
  /\ ledger' = ledger \cup {[chunk |-> chunk, week |-> began, status |-> Status(failed)]}
  /\ chunk' = chunk + 1
  /\ pc' = "loop"
  /\ UNCHANGED <<machine, order, resolved, since, began, failed, slot, labels, cofire, mishaps>>

\* An exception before or after the write ends the run with the slot as record left it.
FailChunk ==
  /\ InChunk
  /\ Mishap("chunk")
  /\ ledger' = ledger \cup {[chunk |-> chunk, week |-> began, status |-> "failed"]}
  /\ unit' = "restart" /\ pc' = "idle"
  /\ UNCHANGED <<week, up, order, run, slot, labels, cofire>>

CountedLastChunk ==                     \* mutant: only the last chunk is counted
  [t \in Tickers |-> IF t \in Slice(NumChunks) THEN labels[t] ELSE cofire[t]]

\* finalize_cofire counts over whatever labels have landed, all of them.
Counted == labels

Finalize ==
  /\ pc = "loop" /\ chunk > NumChunks
  /\ cofire' = Counted
  /\ pc' = "close"
  /\ UNCHANGED <<machine, order, run, ledger, slot, labels, mishaps>>

FinalizeFails ==
  /\ pc = "loop" /\ chunk > NumChunks
  /\ Mishap("finalize")
  /\ unit' = "restart" /\ pc' = "idle"
  /\ UNCHANGED <<week, up, order, run, store>>

\* scheduled_runs.complete targets the job's most recent slot, whatever the date.
SlotToClose == CHOOSE w \in Recorded : \A x \in Recorded : x <= w

CloseOk ==
  /\ pc = "close" /\ failed = {}
  /\ slot' = [slot EXCEPT ![SlotToClose] = "ok"]
  /\ unit' = "inactive" /\ pc' = "idle"
  /\ UNCHANGED <<week, up, order, run, ledger, labels, cofire, mishaps>>

\* Failed tickers fail the slot, and exit code 1 restarts the unit.
CloseFailed ==
  /\ pc = "close" /\ failed # {}
  /\ slot' = [slot EXCEPT ![SlotToClose] = "failed"]
  /\ unit' = "restart" /\ pc' = "idle"
  /\ UNCHANGED <<week, up, order, run, ledger, labels, cofire, mishaps>>

-----------------------------------------------------------------------------
ChainStep ==
  \/ Skip \/ GoAhead \/ Record
  \/ SkipChunk \/ StartChunk \/ WriteChunk \/ CloseChunk
  \/ Finalize \/ CloseOk \/ CloseFailed

Next ==
  \/ ChainStep
  \/ FailChunk \/ FinalizeFails \/ Kill
  \/ Restart \/ Boot \/ PowerLoss
  \/ NextWeek \/ RefreshTickers

\* A started chain runs, systemd restarts a failed unit, and somebody turns the
\* workstation on again.
Fairness == WF_vars(ChainStep) /\ WF_vars(Restart) /\ WF_vars(Boot)

Spec == Init /\ [][Next]_vars

FairSpec == Spec /\ Fairness

-----------------------------------------------------------------------------
(* Properties.                                                             *)

\* A week closed ok has every ticker's labels recomputed since that week began,
\* however many times the run was killed and resumed (_chunk_already_done).
OkMeansLabelled == \A w \in Weeks : slot[w] = "ok" => \A t \in Tickers : labels[t] >= w

\* When a week is closed, cofire_count was counted over the labels as they are:
\* no chunk was written after the count (finalize_cofire).
CofireIsCurrent == pc = "idle" /\ slot[week] = "ok" => cofire = labels

\* A week closed ok is not opened again by the boots, restarts and triggers that
\* follow (resume_decision).
ClosedStaysClosed == [][\A w \in Weeks : slot[w] = "ok" => slot'[w] = "ok"]_vars

\* Every week is refreshed: its slot is closed ok in the end, or the week is over.
EveryWeekRefreshed == \A w \in Weeks : (week = w) ~> (slot[w] = "ok" \/ week > w)

-----------------------------------------------------------------------------
(* The inductive invariants behind the safety properties.                  *)

Working == pc \in {"loop", "compute", "landed", "close"}

\* The slot a run works on is the newest one, and nobody else has touched it.
NewestSlot ==
  /\ \A w \in Weeks : w > week => slot[w] = "none"
  /\ pc # "idle" <=> unit = "active"
  /\ ~up => unit = "inactive"
  /\ Working =>
       /\ since \in 1..week
       /\ slot[since] = "started"
       /\ \A w \in Weeks : w > since => slot[w] = "none"
  /\ InChunk => began \in since..week /\ chunk <= NumChunks
  /\ pc = "close" => chunk = NumChunks + 1

\* A count is only taken back by a run that has opened the slot again.
CountStands ==
  /\ pc = "close" => cofire = labels
  /\ ~Working /\ slot[week] = "ok" => cofire = labels

SlotInv == TypeOK /\ NewestSlot /\ CountStands

\* An ok row vouches for the labels of its chunk, and the chunks a run has left
\* behind are vouched for since its week began. True of runs in which the order
\* of the tickers stays and no single ticker fails.
RowsVouch ==
  /\ resolved = order
  /\ \A t \in Tickers : labels[t] <= week
  /\ \A r \in ledger : r.status = "ok" => \A t \in Slice(r.chunk) : labels[t] >= r.week
  /\ pc = "landed" => \A t \in Slice(chunk) : labels[t] >= began
  /\ Working => \A j \in 1..(chunk - 1) :
       \E r \in ledger : r.chunk = j /\ r.status = "ok" /\ r.week >= since

WeeklyInv == SlotInv /\ RowsVouch /\ OkMeansLabelled
=============================================================================
