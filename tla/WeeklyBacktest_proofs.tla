----------------------- MODULE WeeklyBacktest_proofs -----------------------
(***************************************************************************)
(* Machine-checked proofs about what runs beside the nightly chain and may *)
(* be stopped halfway. WeeklyBacktest: what holds of the weekly refresh    *)
(* for every universe, chunk size, number of weeks and disruptions.        *)
(* PredictionRepairs: what the two repairs by hand leave of the forward    *)
(* log, for any histories of the stores and any number of deeds of others  *)
(* between their steps. Paths: what the path rows of an event and its      *)
(* stored labels say of its bars, for any bars, horizons and nights.       *)
(* Backtests: what the rows of a configuration that counts as swept are,   *)
(* for any universe, sweep, chunk sizes and sequence of commands. The four *)
(* share no state: the latter three are instances.                         *)
(***************************************************************************)
EXTENDS WeeklyBacktest, WellFoundedInduction, FiniteSetTheorems, TLAPS

CONSTANTS Floor, Slots, Histories, MaxDeeds
VARIABLES
  serving, outcomes, servSeq, research, resSeq, events, bySlot, move, fill, owed, lost, sound, deeds

P == INSTANCE PredictionRepairs

CONSTANTS LastDay, Prices, Horizons, MaxHold, Gain, Recent, PathKinds, MaxPathKinds
VARIABLES
  today, bars, entryKind, scope, entry, entryDay, path, seen, peak, ret, stored, pathStep, edited,
  fresh, rewritten, pathMishaps

L == INSTANCE Paths WITH kind <- entryKind, labels <- stored, mishaps <- pathMishaps

CONSTANTS Names, Base, Members, Worlds, ChunkSizes, MaxCommands
VARIABLES fires, priced, flaws, profile, tagged, closed, command, commands

K == INSTANCE Backtests WITH Tickers <- Names, bars <- priced, rows <- tagged, ledger <- closed

-----------------------------------------------------------------------------
(* The weekly refresh.                                                     *)

\* The universe has a size, and positions to put its tickers in.
LEMMA UniverseSize == Cardinality(Tickers) \in Nat \ {0}
  BY FS_CardinalityType, FS_EmptySet, UniverseAssumption

\* Integer division, as the chunk arithmetic uses it.
LEMMA DivMonotone ==
  ASSUME NEW a \in Nat, NEW b \in Nat, NEW s \in Nat \ {0}, a <= b
  PROVE  a \div s \in Nat /\ b \div s \in Nat /\ a \div s <= b \div s
  OBVIOUS

\* Every position of the universe lies in one of the chunks 1..NumChunks.
LEMMA ChunksCover ==
  /\ NumChunks \in Nat \ {0}
  /\ \A k \in Positions : (k - 1) \div ChunkSize + 1 \in 1..NumChunks
<1>1. Cardinality(Tickers) - 1 \in Nat
  BY UniverseSize
<1>2. NumChunks \in Nat \ {0}
  BY <1>1, DivMonotone, WeekAssumption DEF NumChunks
<1>3. ASSUME NEW k \in Positions PROVE (k - 1) \div ChunkSize + 1 \in 1..NumChunks
  <2>1. k - 1 \in Nat /\ k - 1 <= Cardinality(Tickers) - 1
    BY UniverseSize DEF Positions
  <2>2. QED BY <1>1, <2>1, DivMonotone, WeekAssumption DEF NumChunks
<1>4. QED BY <1>2, <1>3

\* A stored order lists every ticker.
LEMMA OrdersList ==
  ASSUME NEW o \in Orders
  PROVE  /\ o \in [Positions -> Tickers]
         /\ \A t \in Tickers : \E k \in Positions : o[k] = t
  BY DEF Orders, Bijection, Injection, Surjection

\* A chunk holds tickers of the universe.
LEMMA SliceOfUniverse ==
  ASSUME resolved \in Orders, NEW i
  PROVE  Slice(i) \subseteq Tickers
  BY OrdersList DEF Slice

\* A disruption keeps its count within the bound.
LEMMA MishapCount ==
  ASSUME mishaps \in 0..MaxDisruptions, NEW kind, Mishap(kind)
  PROVE  mishaps' \in 0..MaxDisruptions
  BY MishapAssumption DEF Mishap

-----------------------------------------------------------------------------
(* Types.                                                                  *)

\* The types hold at the first Saturday.
LEMMA TypeInit == Init => TypeOK
<1> SUFFICES ASSUME Init PROVE TypeOK
  OBVIOUS
<1>1. 1 \in Weeks /\ 0 \in 0..LastWeek /\ 1 \in 1..(NumChunks + 1)
  BY WeekAssumption, ChunksCover DEF Weeks
<1>2. mishaps \in 0..MaxDisruptions
  BY MishapAssumption DEF Init
<1>3. QED BY <1>1, <1>2 DEF Init, TypeOK

-----------------------------------------------------------------------------
(* The slot a run works on.                                                *)

\* At the first Saturday no slot is recorded and no chain is working.
LEMMA SlotInit == Init => SlotInv
<1> SUFFICES ASSUME Init PROVE SlotInv
  OBVIOUS
<1>1. TypeOK
  BY TypeInit
<1>2. NewestSlot
  BY DEF Init, NewestSlot, InChunk, Working
<1>3. CountStands
  BY DEF Init, CountStands, Working
<1>4. QED BY <1>1, <1>2, <1>3 DEF SlotInv

\* complete() closes the slot that the run recorded: nothing newer exists.
LEMMA ClosesOwnSlot ==
  ASSUME SlotInv, Working
  PROVE  SlotToClose = since /\ since \in Weeks
<1>1. since \in Weeks /\ slot[since] = "started" /\ \A w \in Weeks : w > since => slot[w] = "none"
  BY DEF SlotInv, TypeOK, NewestSlot, Weeks
<1>2. since \in Recorded /\ \A w \in Recorded : w <= since
  BY <1>1 DEF Recorded, Weeks
<1>3. \A w \in Recorded : (\A x \in Recorded : x <= w) => w = since
  BY <1>1, <1>2 DEF Recorded, Weeks
<1>4. SlotToClose = since
  BY <1>2, <1>3 DEF SlotToClose
<1>5. QED BY <1>1, <1>4

\* Each group of actions below keeps the invariant: what starts and stops the unit,
\* what opens a run, what works through the chunks, what closes the slot.
LEMMA UnitSteps ==
  ASSUME SlotInv, NextWeek \/ Restart \/ Boot \/ PowerLoss \/ Kill \/ RefreshTickers
  PROVE  SlotInv'
<1> USE DEF SlotInv, machine, run, store
<1>r. ASSUME Abandon PROVE ledger' \subseteq [chunk: 1..NumChunks, week: Weeks, status: {"ok", "failed", "running"}]
  BY <1>r DEF Abandon, InChunk, TypeOK, NewestSlot, Working, Weeks
<1>1. CASE NextWeek
  <2>m. mishaps' \in 0..MaxDisruptions
    BY <1>1, MishapCount DEF NextWeek, TypeOK
  <2>0. week' = week + 1 /\ week' \in Weeks
    BY <1>1, WeekAssumption DEF NextWeek, TypeOK, Weeks
  <2>1. TypeOK'
    BY <1>1, <2>0, <2>m DEF NextWeek, TypeOK
  <2>2. NewestSlot'
    BY <1>1, <2>0 DEF NextWeek, NewestSlot, InChunk, Working, TypeOK, Weeks
  <2>3. CountStands'
    BY <1>1, <2>0 DEF NextWeek, CountStands, NewestSlot, InChunk, Working, TypeOK, Weeks
  <2>4. QED BY <2>1, <2>2, <2>3
<1>2. CASE Restart
  <2>1. TypeOK'
    BY <1>2 DEF Restart, TypeOK
  <2>2. NewestSlot' /\ CountStands'
    BY <1>2 DEF Restart, NewestSlot, InChunk, CountStands, Working
  <2>3. QED BY <2>1, <2>2
<1>3. CASE Boot
  <2>1. TypeOK'
    BY <1>3 DEF Boot, TypeOK
  <2>2. NewestSlot' /\ CountStands'
    BY <1>3 DEF Boot, NewestSlot, InChunk, CountStands, Working
  <2>3. QED BY <2>1, <2>2
<1>4. CASE PowerLoss
  <2>1. mishaps' \in 0..MaxDisruptions
    BY <1>4, MishapCount DEF PowerLoss, TypeOK
  <2>2. TypeOK'
    BY <1>4, <1>r, <2>1 DEF PowerLoss, TypeOK
  <2>3. NewestSlot' /\ CountStands'
    BY <1>4 DEF PowerLoss, NewestSlot, InChunk, CountStands, Working, TypeOK, Weeks
  <2>4. QED BY <2>2, <2>3
<1>5. CASE Kill
  <2>1. mishaps' \in 0..MaxDisruptions
    BY <1>5, MishapCount DEF Kill, TypeOK
  <2>2. TypeOK'
    BY <1>5, <1>r, <2>1 DEF Kill, TypeOK
  <2>3. NewestSlot' /\ CountStands'
    BY <1>5 DEF Kill, NewestSlot, InChunk, CountStands, Working, TypeOK, Weeks
  <2>4. QED BY <2>2, <2>3
<1>6. CASE RefreshTickers
  <2>1. mishaps' \in 0..MaxDisruptions
    BY <1>6, MishapCount DEF RefreshTickers, TypeOK
  <2>2. TypeOK'
    BY <1>6, <2>1 DEF RefreshTickers, TypeOK
  <2>3. NewestSlot' /\ CountStands'
    BY <1>6 DEF RefreshTickers, NewestSlot, InChunk, CountStands, Working
  <2>4. QED BY <2>2, <2>3
<1>7. QED BY <1>1, <1>2, <1>3, <1>4, <1>5, <1>6

\* Skipping a finished week, going ahead, and recording the slot.
LEMMA OpenSteps ==
  ASSUME SlotInv, Skip \/ GoAhead \/ Record
  PROVE  SlotInv'
<1> USE DEF SlotInv, machine, run, store
<1>1. CASE Skip
  <2>1. TypeOK'
    BY <1>1 DEF Skip, TypeOK
  <2>2. NewestSlot' /\ CountStands'
    BY <1>1 DEF Skip, NewestSlot, InChunk, CountStands, Working
  <2>3. QED BY <2>1, <2>2
<1>2. CASE GoAhead
  <2>1. mishaps' \in 0..MaxDisruptions
    BY <1>2, MishapCount DEF GoAhead, TypeOK
  <2>2. TypeOK'
    BY <1>2, <2>1 DEF GoAhead, TypeOK
  <2>3. NewestSlot' /\ CountStands'
    BY <1>2 DEF GoAhead, NewestSlot, InChunk, CountStands, Working
  <2>4. QED BY <2>2, <2>3
<1>3. CASE Record
  <2>1. slot' \in [Weeks -> {"none", "started", "failed", "ok"}] /\ since' \in 0..LastWeek
    BY <1>3 DEF Record, TypeOK, Weeks
  <2>2. chunk' \in 1..(NumChunks + 1)
    BY <1>3, ChunksCover DEF Record
  <2>3. TypeOK'
    BY <1>3, <2>1, <2>2 DEF Record, TypeOK
  <2>4. NewestSlot' /\ CountStands'
    BY <1>3 DEF Record, NewestSlot, InChunk, CountStands, Working, TypeOK, Weeks
  <2>5. QED BY <2>3, <2>4
<1>4. QED BY <1>1, <1>2, <1>3

\* Working through the chunks: a row is written under the week its chunk began in.
LEMMA ChunkSteps ==
  ASSUME SlotInv, SkipChunk \/ StartChunk \/ WriteChunk \/ CloseChunk \/ FailChunk
  PROVE  SlotInv'
<1> USE DEF SlotInv, machine, run, store
<1>t. NumChunks \in Nat \ {0} /\ week \in 1..LastWeek
  BY ChunksCover DEF TypeOK, Weeks
<1>1. CASE SkipChunk
  <2>1. TypeOK'
    BY <1>1, <1>t DEF SkipChunk, TypeOK
  <2>2. NewestSlot' /\ CountStands'
    BY <1>1 DEF SkipChunk, NewestSlot, InChunk, CountStands, Working
  <2>3. QED BY <2>1, <2>2
<1>2. CASE StartChunk
  <2>1. TypeOK'
    BY <1>2, <1>t DEF StartChunk, TypeOK
  <2>2. NewestSlot' /\ CountStands'
    BY <1>2, <1>t DEF StartChunk, NewestSlot, InChunk, CountStands, Working
  <2>3. QED BY <2>1, <2>2
<1>r. ASSUME InChunk PROVE began \in Weeks /\ chunk \in 1..NumChunks
  BY <1>r, <1>t DEF NewestSlot, InChunk, Working, TypeOK, Weeks
<1>3. CASE WriteChunk
  <2>0. PICK bad \in SUBSET Slice(chunk) :
          /\ IF bad = {} THEN UNCHANGED mishaps ELSE Mishap("ticker")
          /\ labels' = [t \in Tickers |-> IF t \in Slice(chunk) \ bad THEN week ELSE labels[t]]
          /\ failed' = failed \cup bad
    BY <1>3 DEF WriteChunk
  <2>1. mishaps' \in 0..MaxDisruptions
    BY <2>0, MishapCount DEF TypeOK
  <2>2. labels' \in [Tickers -> 0..LastWeek]
    BY <2>0, <1>t DEF TypeOK
  <2>3. failed' \subseteq Tickers
    BY <2>0, SliceOfUniverse DEF TypeOK
  <2>4. TypeOK'
    BY <1>3, <2>1, <2>2, <2>3 DEF WriteChunk, TypeOK
  <2>5. NewestSlot' /\ CountStands'
    BY <1>3 DEF WriteChunk, NewestSlot, InChunk, CountStands, Working
  <2>6. QED BY <2>4, <2>5
<1>4. CASE CloseChunk
  <2>1. ledger' \subseteq [chunk: 1..NumChunks, week: Weeks, status: {"ok", "failed", "running"}]
    BY <1>4, <1>r DEF CloseChunk, InChunk, Status, TypeOK
  <2>2. TypeOK'
    BY <1>4, <1>r, <1>t, <2>1 DEF CloseChunk, InChunk, TypeOK
  <2>3. NewestSlot' /\ CountStands'
    BY <1>4, <1>t DEF CloseChunk, NewestSlot, InChunk, CountStands, Working
  <2>4. QED BY <2>2, <2>3
<1>5. CASE FailChunk
  <2>1. mishaps' \in 0..MaxDisruptions
    BY <1>5, MishapCount DEF FailChunk, TypeOK
  <2>2. ledger' \subseteq [chunk: 1..NumChunks, week: Weeks, status: {"ok", "failed", "running"}]
    BY <1>5, <1>r DEF FailChunk, TypeOK
  <2>3. TypeOK'
    BY <1>5, <2>1, <2>2 DEF FailChunk, TypeOK
  <2>4. NewestSlot' /\ CountStands'
    BY <1>5 DEF FailChunk, NewestSlot, InChunk, CountStands, Working, TypeOK, Weeks
  <2>5. QED BY <2>3, <2>4
<1>6. QED BY <1>1, <1>2, <1>3, <1>4, <1>5

\* Counting co-fires and closing the slot of this run.
LEMMA CloseSteps ==
  ASSUME SlotInv, Finalize \/ FinalizeFails \/ CloseOk \/ CloseFailed
  PROVE  SlotInv'
<1> USE DEF SlotInv, machine, run, store
<1>1. CASE Finalize
  <2>1. TypeOK'
    BY <1>1 DEF Finalize, Counted, TypeOK
  <2>2. NewestSlot' /\ CountStands'
    BY <1>1, ChunksCover DEF Finalize, Counted, NewestSlot, InChunk, CountStands, Working, TypeOK
  <2>3. QED BY <2>1, <2>2
<1>2. CASE FinalizeFails
  <2>1. mishaps' \in 0..MaxDisruptions
    BY <1>2, MishapCount DEF FinalizeFails, TypeOK
  <2>2. TypeOK'
    BY <1>2, <2>1 DEF FinalizeFails, TypeOK
  <2>3. NewestSlot' /\ CountStands'
    BY <1>2 DEF FinalizeFails, NewestSlot, InChunk, CountStands, Working, TypeOK, Weeks
  <2>4. QED BY <2>2, <2>3
<1>3. ASSUME pc = "close" PROVE SlotToClose = since /\ since \in Weeks
  BY <1>3, ClosesOwnSlot DEF Working
<1>4. CASE CloseOk
  <2>0. slot' = [slot EXCEPT ![since] = "ok"] /\ since \in Weeks
    BY <1>4, <1>3 DEF CloseOk
  <2>1. TypeOK'
    BY <1>4, <2>0 DEF CloseOk, TypeOK
  <2>2. NewestSlot' /\ CountStands'
    BY <1>4, <2>0 DEF CloseOk, NewestSlot, InChunk, CountStands, Working, TypeOK, Weeks
  <2>3. QED BY <2>1, <2>2
<1>5. CASE CloseFailed
  <2>0. slot' = [slot EXCEPT ![since] = "failed"] /\ since \in Weeks
    BY <1>5, <1>3 DEF CloseFailed
  <2>1. TypeOK'
    BY <1>5, <2>0 DEF CloseFailed, TypeOK
  <2>2. NewestSlot' /\ CountStands'
    BY <1>5, <2>0 DEF CloseFailed, NewestSlot, InChunk, CountStands, Working, TypeOK, Weeks
  <2>3. QED BY <2>1, <2>2
<1>6. QED BY <1>1, <1>2, <1>4, <1>5

\* Every step keeps the invariant.
LEMMA SlotStep == SlotInv /\ [Next]_vars => SlotInv'
<1> SUFFICES ASSUME SlotInv, [Next]_vars PROVE SlotInv'
  OBVIOUS
<1>1. CASE UNCHANGED vars
  BY <1>1 DEF vars, machine, run, store, SlotInv, TypeOK, NewestSlot, InChunk, CountStands, Working
<1>2. QED
  BY <1>1, UnitSteps, OpenSteps, ChunkSteps, CloseSteps DEF Next, ChainStep

\* A run works on the slot it recorded, and that slot is the newest (scheduled_runs).
THEOREM SlotHolds == Spec => []SlotInv
  BY SlotInit, SlotStep, PTL DEF Spec

\* Every variable keeps its type.
THEOREM TypeHolds == Spec => []TypeOK
<1>1. SlotInv => TypeOK
  BY DEF SlotInv
<1>2. QED BY <1>1, SlotHolds, PTL

\* A closed week's cofire counts are those of its labels, whatever was killed,
\* lost or reordered on the way (finalize_cofire).
THEOREM CofireHolds == Spec => []CofireIsCurrent
<1>1. SlotInv => CofireIsCurrent
  BY DEF SlotInv, CountStands, CofireIsCurrent, Working
<1>2. QED BY <1>1, SlotHolds, PTL

-----------------------------------------------------------------------------
(* A week closed ok stays closed, as long as resume-check can read its slot.*)

\* A run that is about to record its slot does not reopen a closed one.
OpensNothingClosed == pc = "record" => slot[week] # "ok"

\* resume-check lets through only a week that is not closed, and a new week is not.
LEMMA OpenStep ==
  ASSUME "check" \notin Disruptions
  PROVE  SlotInv /\ OpensNothingClosed /\ [Next]_vars => OpensNothingClosed'
<1> SUFFICES ASSUME SlotInv, OpensNothingClosed, [Next]_vars, pc' = "record"
             PROVE  slot'[week'] # "ok"
  BY DEF OpensNothingClosed
<1> USE DEF OpensNothingClosed, SlotInv, machine, run, store
<1>1. CASE GoAhead
  <2>1. ~AlreadyComplete /\ UNCHANGED <<week, slot>>
    BY <1>1 DEF GoAhead, Mishap
  <2>2. QED BY <2>1 DEF AlreadyComplete, Recorded, TypeOK
<1>2. CASE NextWeek
  <2>1. week' \in Weeks /\ week' > week /\ UNCHANGED slot
    BY <1>2, WeekAssumption DEF NextWeek, TypeOK, Weeks
  <2>2. QED BY <2>1 DEF NewestSlot
<1>3. CASE Skip \/ Record \/ SkipChunk \/ StartChunk \/ WriteChunk \/ CloseChunk \/ Finalize \/ CloseOk \/ CloseFailed
  BY <1>3 DEF Skip, Record, SkipChunk, StartChunk, WriteChunk, CloseChunk, Finalize, CloseOk, CloseFailed
<1>4. CASE FailChunk \/ FinalizeFails \/ Kill \/ Restart \/ Boot \/ PowerLoss
  BY <1>4 DEF FailChunk, FinalizeFails, Kill, Restart, Boot, PowerLoss
<1>5. CASE RefreshTickers \/ UNCHANGED vars
  BY <1>5 DEF RefreshTickers, vars
<1>6. QED BY <1>1, <1>2, <1>3, <1>4, <1>5 DEF Next, ChainStep

\* Only Record and the two closes write a slot, and none of them finds it closed.
LEMMA ClosedStep ==
  ASSUME SlotInv, OpensNothingClosed, [Next]_vars,
         NEW w \in Weeks, slot[w] = "ok"
  PROVE  slot'[w] = "ok"
<1> USE DEF OpensNothingClosed, SlotInv, machine, run, store
<1>1. CASE Record
  BY <1>1 DEF Record, TypeOK
<1>2. CASE CloseOk \/ CloseFailed
  <2>1. SlotToClose = since /\ slot[since] = "started"
    BY <1>2, ClosesOwnSlot DEF CloseOk, CloseFailed, Working, NewestSlot
  <2>2. QED BY <1>2, <2>1 DEF CloseOk, CloseFailed, TypeOK
<1>3. CASE GoAhead \/ Skip \/ SkipChunk \/ StartChunk \/ WriteChunk \/ CloseChunk \/ Finalize
  BY <1>3 DEF GoAhead, Skip, SkipChunk, StartChunk, WriteChunk, CloseChunk, Finalize
<1>4. CASE FailChunk \/ FinalizeFails \/ Kill \/ Restart \/ Boot \/ PowerLoss
  BY <1>4 DEF FailChunk, FinalizeFails, Kill, Restart, Boot, PowerLoss
<1>5. CASE NextWeek \/ RefreshTickers \/ UNCHANGED vars
  BY <1>5 DEF NextWeek, RefreshTickers, vars
<1>6. QED BY <1>1, <1>2, <1>3, <1>4, <1>5 DEF Next, ChainStep

\* Boots, restarts and triggers never open a week again that was closed ok
\* (resume_decision), unless resume-check itself fails.
THEOREM ClosedHolds ==
  ASSUME "check" \notin Disruptions
  PROVE  Spec => ClosedStaysClosed
<1>1. Init => OpensNothingClosed
  BY DEF Init, OpensNothingClosed
<1>2. SlotInv /\ OpensNothingClosed /\ [Next]_vars => OpensNothingClosed'
  BY OpenStep
<1>3. SlotInv /\ OpensNothingClosed /\ [Next]_vars
        => [\A w \in Weeks : slot[w] = "ok" => slot'[w] = "ok"]_vars
  BY ClosedStep
<1>4. QED BY <1>1, <1>2, <1>3, SlotHolds, PTL DEF Spec, ClosedStaysClosed

-----------------------------------------------------------------------------
(* A week closed ok has fresh labels for every ticker.                     *)

\* Every ticker of the universe is in a chunk of the run.
LEMMA SlicesCover ==
  ASSUME resolved \in Orders, NEW t \in Tickers
  PROVE  \E j \in 1..NumChunks : t \in Slice(j)
<1>1. PICK k \in Positions : resolved[k] = t
  BY OrdersList
<1>2. (k - 1) \div ChunkSize + 1 \in 1..NumChunks
  BY ChunksCover
<1>3. QED BY <1>1, <1>2 DEF Slice

\* An action that leaves the labels and the order alone, and adds no ok row, keeps
\* the vouching of the rows.
LEMMA VouchStable ==
  ASSUME RowsVouch, TypeOK, week' >= week, week' \in Nat,
         UNCHANGED <<labels, order, resolved, since>>,
         ledger \subseteq ledger',
         \A r \in ledger' : r.status = "ok" => r \in ledger,
         Working' => Working /\ chunk' = chunk,
         pc' = "landed" => UNCHANGED <<pc, chunk, began>>
  PROVE  RowsVouch'
<1>1. \A j : Slice(j)' = Slice(j)
  BY DEF Slice
<1>2. (\A t \in Tickers : labels[t] <= week)'
  <2>1. ASSUME NEW t \in Tickers PROVE labels[t] <= week'
    <3>1. labels[t] \in Nat /\ week \in Nat /\ labels[t] <= week
      BY DEF RowsVouch, TypeOK, Weeks
    <3>2. QED BY <3>1
  <2>2. QED BY <2>1
<1>3. QED BY <1>1, <1>2 DEF RowsVouch

\* Every step keeps what the ok rows vouch for, as labels only get newer.
LEMMA VouchStep ==
  ASSUME "ticker" \notin Disruptions, "reorder" \notin Disruptions,
         SlotInv, RowsVouch, [Next]_vars
  PROVE  RowsVouch'
<1> USE DEF SlotInv, machine, run, store
<1>w. week \in Nat /\ week' \in Nat /\ week' >= week
  BY DEF TypeOK, Weeks, Next, ChainStep, Skip, GoAhead, Record, SkipChunk, StartChunk, WriteChunk, CloseChunk, Finalize, CloseOk,
     CloseFailed, FailChunk, FinalizeFails, Kill, Restart, Boot, PowerLoss, NextWeek, RefreshTickers, vars
<1>1. CASE Skip \/ GoAhead \/ StartChunk \/ Finalize \/ CloseOk \/ CloseFailed
  BY <1>1, <1>w, VouchStable DEF Skip, GoAhead, StartChunk, Finalize, CloseOk, CloseFailed, Working
<1>2. CASE FinalizeFails \/ Restart \/ Boot \/ UNCHANGED vars
  BY <1>2, <1>w, VouchStable DEF FinalizeFails, Restart, Boot, vars, Working
<1>3. CASE NextWeek
  BY <1>3, <1>w, VouchStable DEF NextWeek, Working
<1>4. CASE Kill \/ PowerLoss \/ FailChunk
  BY <1>4, <1>w, VouchStable DEF Kill, PowerLoss, FailChunk, Abandon, InChunk, Working
<1>5. CASE RefreshTickers
  BY <1>5 DEF RefreshTickers, Mishap
<1>6. CASE Record
  <2>1. \A j : Slice(j)' = Slice(j)
    BY <1>6 DEF Record, Slice, RowsVouch
  <2>2. QED BY <1>6, <2>1 DEF Record, RowsVouch
<1>7. CASE SkipChunk
  <2>1. \A j : Slice(j)' = Slice(j)
    BY <1>7 DEF SkipChunk, Slice
  <2>2. \A j \in 1..(chunk' - 1) : \E r \in ledger : r.chunk = j /\ r.status = "ok" /\ r.week >= since
    BY <1>7 DEF SkipChunk, ChunkAlreadyDone, RowsVouch, Working, TypeOK
  <2>3. QED BY <1>7, <2>1, <2>2 DEF SkipChunk, RowsVouch
<1>8. CASE WriteChunk
  <2>1. labels' = [t \in Tickers |-> IF t \in Slice(chunk) THEN week ELSE labels[t]]
    BY <1>8 DEF WriteChunk, Mishap
  <2>2. UNCHANGED <<week, order, resolved, since, chunk, began, ledger>> /\ \A j : Slice(j)' = Slice(j)
    BY <1>8 DEF WriteChunk, Slice
  <2>3. began <= week /\ began \in Nat
    BY <1>8 DEF WriteChunk, NewestSlot, InChunk, TypeOK, Working
  <2>4. \A t \in Tickers : labels'[t] <= week /\ labels'[t] >= labels[t] /\ labels[t] \in Nat /\ labels'[t] \in Nat
    BY <2>1, <1>w DEF RowsVouch, TypeOK
  <2>5. \A t \in Slice(chunk) : labels'[t] >= began
    BY <2>1, <2>3, <1>w, SliceOfUniverse DEF TypeOK
  <2>6. ASSUME NEW r \in ledger, r.status = "ok", NEW t \in Slice(r.chunk) PROVE labels'[t] >= r.week
    <3>1. t \in Tickers /\ r.week \in Nat
      BY <2>6, SliceOfUniverse DEF TypeOK, Weeks
    <3>2. QED BY <3>1, <2>6, <2>4 DEF RowsVouch
  <2>7. \A j \in 1..(chunk - 1) : \E r \in ledger : r.chunk = j /\ r.status = "ok" /\ r.week >= since
    BY <1>8 DEF WriteChunk, RowsVouch, Working
  <2>8. QED BY <2>2, <2>4, <2>5, <2>6, <2>7, <1>8 DEF WriteChunk, RowsVouch
<1>9. CASE CloseChunk
  <2> DEFINE row == [chunk |-> chunk, week |-> began, status |-> "ok"]
  <2>1. UNCHANGED <<week, order, resolved, since, labels>> /\ chunk' = chunk + 1 /\ pc' = "loop"
        /\ ledger' = ledger \cup {row} /\ \A j : Slice(j)' = Slice(j)
    BY <1>9 DEF CloseChunk, Status, Slice
  <2>2. began >= since /\ chunk \in Nat
    BY <1>9 DEF CloseChunk, NewestSlot, InChunk, TypeOK, Working
  <2>3. \A t \in Slice(row.chunk) : labels[t] >= row.week
    BY <1>9 DEF CloseChunk, RowsVouch
  <2>4. \A j \in 1..(chunk' - 1) : \E r \in ledger' : r.chunk = j /\ r.status = "ok" /\ r.week >= since
    <3>1. ASSUME NEW j \in 1..(chunk - 1) PROVE \E r \in ledger' : r.chunk = j /\ r.status = "ok" /\ r.week >= since
      BY <3>1, <2>1, <1>9 DEF CloseChunk, RowsVouch, Working
    <3>2. row \in ledger' /\ row.chunk = chunk /\ row.status = "ok" /\ row.week >= since
      BY <2>1, <2>2
    <3>3. \A j \in 1..(chunk' - 1) : j \in 1..(chunk - 1) \/ j = chunk
      BY <2>1, <2>2
    <3> HIDE DEF row
    <3>4. QED BY <3>1, <3>2, <3>3
  <2>5. QED BY <2>1, <2>3, <2>4 DEF RowsVouch
<1>10. QED BY <1>1, <1>2, <1>3, <1>4, <1>5, <1>6, <1>7, <1>8, <1>9 DEF Next, ChainStep

\* A run that reaches the end has gone through every chunk, so every ticker.
LEMMA EndCovers ==
  ASSUME SlotInv, RowsVouch, pc = "close", NEW t \in Tickers
  PROVE  labels[t] >= since
<1>1. PICK j \in 1..NumChunks : t \in Slice(j)
  BY SlicesCover DEF SlotInv, TypeOK
<1>2. chunk = NumChunks + 1
  BY DEF SlotInv, NewestSlot
<1>3. PICK r \in ledger : r.chunk = j /\ r.status = "ok" /\ r.week >= since
  BY <1>1, <1>2, ChunksCover DEF RowsVouch, Working
<1>4. labels[t] >= r.week
  BY <1>1, <1>3 DEF RowsVouch
<1>5. labels[t] \in Nat /\ r.week \in Nat /\ since \in Nat
  BY DEF SlotInv, TypeOK, Weeks
<1>6. QED BY <1>3, <1>4, <1>5

\* Only CloseOk makes a slot ok, and labels only get newer.
LEMMA LabelledStep ==
  ASSUME SlotInv, RowsVouch, OkMeansLabelled, [Next]_vars
  PROVE  OkMeansLabelled'
<1> USE DEF SlotInv, machine, run, store, OkMeansLabelled
<1>1. CASE CloseOk
  <2>1. SlotToClose = since /\ UNCHANGED labels
    BY <1>1, ClosesOwnSlot DEF CloseOk, Working
  <2>2. \A t \in Tickers : labels[t] >= since
    BY <1>1, EndCovers DEF CloseOk
  <2>3. QED BY <1>1, <2>1, <2>2 DEF CloseOk, TypeOK
<1>2. CASE CloseFailed
  BY <1>2 DEF CloseFailed, TypeOK
<1>3. CASE Record
  BY <1>3 DEF Record, TypeOK
<1>4. CASE WriteChunk
  <2>1. UNCHANGED slot
    BY <1>4 DEF WriteChunk
  <2>2. \A t \in Tickers : labels'[t] >= labels[t] /\ labels[t] \in Nat /\ labels'[t] \in Nat
    BY <1>4 DEF WriteChunk, RowsVouch, TypeOK, Weeks
  <2>3. QED BY <2>1, <2>2 DEF Weeks
<1>5. CASE Skip \/ GoAhead \/ SkipChunk \/ StartChunk \/ CloseChunk \/ Finalize
  BY <1>5 DEF Skip, GoAhead, SkipChunk, StartChunk, CloseChunk, Finalize
<1>6. CASE FailChunk \/ FinalizeFails \/ Kill \/ Restart \/ Boot \/ PowerLoss
  BY <1>6 DEF FailChunk, FinalizeFails, Kill, Restart, Boot, PowerLoss
<1>7. CASE NextWeek \/ RefreshTickers \/ UNCHANGED vars
  BY <1>7 DEF NextWeek, RefreshTickers, vars
<1>8. QED BY <1>1, <1>2, <1>3, <1>4, <1>5, <1>6, <1>7 DEF Next, ChainStep

\* Kills, power losses, failed chunks and overruns never close a week ok with a
\* ticker left behind, as long as the tickers keep their order and none fails alone.
THEOREM WeeklyHolds ==
  ASSUME "ticker" \notin Disruptions, "reorder" \notin Disruptions
  PROVE  Spec => []WeeklyInv
<1>1. Init => RowsVouch /\ OkMeansLabelled
  BY WeekAssumption DEF Init, RowsVouch, OkMeansLabelled, Working, Weeks
<1>2. SlotInv /\ RowsVouch /\ OkMeansLabelled /\ [Next]_vars => RowsVouch' /\ OkMeansLabelled'
  BY VouchStep, LabelledStep
<1>3. QED BY <1>1, <1>2, SlotHolds, PTL DEF Spec, WeeklyInv

\* The same for the property itself.
THEOREM LabelledHolds ==
  ASSUME "ticker" \notin Disruptions, "reorder" \notin Disruptions
  PROVE  Spec => []OkMeansLabelled
<1>1. WeeklyInv => OkMeansLabelled
  BY DEF WeeklyInv
<1>2. QED BY <1>1, WeeklyHolds, PTL

-----------------------------------------------------------------------------
(* The repairs of the forward log: the inductive invariant.                *)

RepairTypes ==
  /\ serving \subseteq P!Rows /\ IsFiniteSet(serving)
  /\ research \subseteq P!Rows /\ IsFiniteSet(research)
  /\ IsFiniteSet(events)
  /\ outcomes \subseteq [pred : Nat, key : P!Keys]
  /\ servSeq \in Nat /\ resSeq \in Nat
  /\ move \in [at : {"no", "reads", "planned", "applied", "reset"}, serving : SUBSET P!Rows,
               research : SUBSET P!Rows, moves : SUBSET [old : Nat, new : Nat]]
  /\ fill \in [at : {"no", "planned", "undone"}, plan : SUBSET P!Rows, seen : SUBSET P!Rows]

\* Both stores keep their constraints, and research's sequence is past all it minted.
StoresAreKeyed ==
  /\ P!IdsAreUnique(serving) /\ P!KeysAreUnique(serving)
  /\ P!IdsAreUnique(research) /\ P!Minted(events)
  /\ \A p \in research : p.id < Floor => p.id <= resSeq

\* Only a repair that moved rows and has not ended leaves serving's sequence behind.
SequenceIsAhead == ~owed \/ sound => \A p \in serving : p.id <= servSeq

\* An adopted row keeps its id and its signal on serving, whatever is moved.
AdoptedStays == P!Adopted(research, serving) /\ P!Adopted(move.research, serving)

\* What was read of serving is still there until the plan is applied, and what had to
\* move then is nowhere and cannot come back, because its signal is there under another id.
MoveInHand ==
  /\ move.at \in {"reads", "planned"} => move.serving \subseteq serving
  /\ move.at = "planned" => move.moves = P!PlanReassignment(move.serving, move.research)
  /\ move.at \in {"applied", "reset"} =>
       \A p \in P!Moving(move.serving, move.research) :
         p \notin serving /\ \E q \in serving : q.key = p.key

\* A planned link is of a row that was read, to an event of its slot that no row that
\* was read has, and to no event that is planned twice.
FillInHand ==
  /\ fill.seen \subseteq research
  /\ \A q \in fill.plan :
       /\ q.event # 0
       /\ \E r \in fill.seen : r.id = q.id /\ r.key = q.key
       /\ \E e \in events : e.id = q.event /\ e.slot = q.key.slot
       /\ \A r \in fill.seen : r.event # q.event
       /\ \A p \in fill.plan : p.event = q.event => p = q
  /\ P!FillAloneLands

RepairInv ==
  /\ RepairTypes /\ StoresAreKeyed /\ SequenceIsAhead /\ AdoptedStays /\ MoveInHand
  /\ FillInHand /\ P!OutcomesFollow /\ P!LinksAreSound

-----------------------------------------------------------------------------
(* Lemmas about the operators.                                             *)

LEMMA FiniteImage ==
  ASSUME NEW S, IsFiniteSet(S), NEW f, f = [x \in S |-> f[x]]
  PROVE  IsFiniteSet({f[x] : x \in S})
<1>1. f \in Surjection(S, {f[x] : x \in S})
  BY DEF Surjection
<1> QED BY <1>1, FS_Surjection

\* A finite set of numbers has a bound: the least prefix of an enumeration without one
\* cannot be.
LEMMA FiniteBound ==
  ASSUME NEW S \in SUBSET Nat, IsFiniteSet(S)
  PROVE  \E b \in Nat : \A x \in S : x <= b
<1> DEFINE n == Cardinality(S)
<1>1. n \in Nat /\ ExistsBijection(1..n, S)
  BY FS_CardinalityType
<1>2. PICK f \in Bijection(1..n, S) : TRUE
  BY <1>1 DEF ExistsBijection
<1>3. f \in [1..n -> S] /\ \A x \in S : \E i \in 1..n : f[i] = x
  BY <1>2 DEF Bijection, Injection, Surjection
<1> DEFINE Bounded(k) == \E b \in Nat : \A i \in 1..k : f[i] <= b
           bad == {k \in 0..n : ~ Bounded(k)}
<1> HIDE DEF n
<1>4. Bounded(0)
  <2>1. \A i \in 1..0 : f[i] <= 0
    OBVIOUS
  <2> QED BY <2>1
<1>5. \A m \in 1..n : Bounded(m - 1) => Bounded(m)
  <2> SUFFICES ASSUME NEW m \in 1..n, Bounded(m - 1) PROVE Bounded(m)
    OBVIOUS
  <2>1. PICK b \in Nat : \A i \in 1..(m - 1) : f[i] <= b
    OBVIOUS
  <2>2. \A i \in 1..n : f[i] \in Nat
    BY <1>3
  <2>3. PICK c \in Nat : b <= c /\ f[m] <= c
    <3>1. CASE b <= f[m]
      BY <2>2, <3>1
    <3>2. CASE f[m] <= b
      BY <2>2, <3>2
    <3> QED BY <2>2, <3>1, <3>2
  <2>4. \A i \in 1..m : f[i] <= c
    <3> TAKE i \in 1..m
    <3>1. CASE i = m
      BY <3>1, <2>3
    <3>2. CASE i # m
      <4>1. i \in 1..(m - 1) /\ i \in 1..n
        BY <3>2, <1>1
      <4>2. f[i] \in Nat /\ f[i] <= b
        BY <4>1, <2>1, <2>2
      <4> QED BY <4>2, <2>3
    <3> QED BY <3>1, <3>2
  <2> QED BY <2>4
<1> HIDE DEF Bounded
<1>6. bad = {}
  <2> SUFFICES ASSUME bad # {} PROVE FALSE
    OBVIOUS
  <2>1. bad \subseteq Nat
    BY <1>1
  <2>2. \E m \in bad : \A y \in bad : ~ (<<y, m>> \in OpToRel(<, Nat))
    <3> HIDE DEF bad
    <3> QED BY <2>1, WFMin, NatLessThanWellFounded
  <2>3. PICK m \in bad : \A y \in bad : ~ (<<y, m>> \in OpToRel(<, Nat))
    BY <2>2
  <2>4. m \in 0..n /\ ~ Bounded(m)
    OBVIOUS
  <2>5. m # 0
    BY <2>4, <1>4
  <2>6. m \in 1..n /\ m - 1 \in 0..n /\ m - 1 \in Nat /\ m \in Nat /\ m - 1 < m
    BY <2>4, <2>5, <1>1
  <2>7. <<m - 1, m>> \in OpToRel(<, Nat)
    BY <2>6 DEF OpToRel
  <2>8. Bounded(m - 1)
    BY <2>3, <2>6, <2>7
  <2> QED BY <1>5, <2>4, <2>6, <2>8
<1>7. n \in 0..n
  BY <1>1
<1>8. Bounded(n)
  BY <1>6, <1>7
<1> QED BY <1>3, <1>8 DEF Bounded

\* A finite set of numbers has a greatest.
LEMMA FiniteMax ==
  ASSUME NEW S \in SUBSET Nat, IsFiniteSet(S), S # {}
  PROVE  P!Max(S) \in S /\ (\A x \in S : x <= P!Max(S)) /\ L!Max(S) = P!Max(S)
<1>1. PICK n \in Nat : \A x \in S : x <= n
  BY FiniteBound
<1> DEFINE gaps == {n - x : x \in S}
<1>2. gaps \subseteq Nat /\ gaps # {}
  <2>1. \A x \in S : n - x \in Nat
    BY <1>1
  <2> QED BY <2>1
<1>3. \E m \in gaps : \A y \in gaps : ~ (<<y, m>> \in OpToRel(<, Nat))
  <2> HIDE DEF gaps
  <2> QED BY <1>2, WFMin, NatLessThanWellFounded
<1>4. PICK x \in S : \A y \in S : ~ (<<n - y, n - x>> \in OpToRel(<, Nat))
  BY <1>3
<1>5. \A y \in S : x >= y
  <2> TAKE y \in S
  <2>1. n - y \in Nat /\ n - x \in Nat
    BY <1>1
  <2>2. ~(n - y < n - x)
    BY <1>4, <2>1 DEF OpToRel
  <2> QED BY <2>1, <2>2, <1>1
<1> QED BY <1>5 DEF P!Max, L!Max

LEMMA GreatestOf ==
  ASSUME NEW S \in SUBSET P!Rows, IsFiniteSet(S)
  PROVE  /\ P!Greatest(P!Ids(S)) \in Nat
         /\ \A p \in S : p.id <= P!Greatest(P!Ids(S))
         /\ IsFiniteSet(P!Ids(S))
<1> DEFINE f == [p \in S |-> p.id]
<1>1. f = [p \in S |-> f[p]]
  OBVIOUS
<1>2. IsFiniteSet({f[p] : p \in S})
  <2> HIDE DEF f
  <2> QED BY <1>1, FiniteImage
<1>3. P!Ids(S) = {f[p] : p \in S}
  BY DEF P!Ids
<1>4. IsFiniteSet(P!Ids(S)) /\ P!Ids(S) \subseteq Nat
  BY <1>2, <1>3 DEF P!Ids, P!Rows
<1>5. CASE S = {}
  BY <1>4, <1>5 DEF P!Greatest, P!Ids
<1>6. CASE S # {}
  <2>1. P!Ids(S) # {} /\ \A p \in S : p.id \in P!Ids(S)
    BY <1>6 DEF P!Ids
  <2>2. P!Max(P!Ids(S)) \in P!Ids(S) /\ \A x \in P!Ids(S) : x <= P!Max(P!Ids(S))
    BY <1>4, <2>1, FiniteMax
  <2> QED BY <1>4, <2>1, <2>2 DEF P!Greatest
<1> QED BY <1>5, <1>6

\* The plan of the ids: each row that has to move gets an id of its own, past all.
LEMMA PlanFacts ==
  ASSUME NEW S \in SUBSET P!Rows, IsFiniteSet(S), P!IdsAreUnique(S), NEW R, Floor \in Nat \ {0}
  PROVE  LET plan == P!PlanReassignment(S, R) IN
         /\ plan \subseteq [old : Nat, new : Nat]
         /\ \A m \in plan : m.old < Floor /\ m.new >= Floor /\ \E p \in P!Moving(S, R) : p.id = m.old
         /\ \A p \in P!Moving(S, R) : p \in S /\ p.id < Floor /\ \E m \in plan : m.old = p.id
         /\ \A m, n \in plan : (m.old = n.old \/ m.new = n.new) => m = n
<1> DEFINE moving == P!Moving(S, R)
           start == P!Bigger(Floor, P!Greatest(P!Ids(S)) + 1)
           before(i) == {q \in moving : q.id < i}
           new(i) == start + Cardinality(before(i))
           plan == {[old |-> p.id, new |-> new(p.id)] : p \in moving}
<1>1. moving \subseteq S /\ \A p \in moving : p.id < Floor
  BY DEF P!Moving
<1>2. start \in Nat /\ start >= Floor
  BY GreatestOf DEF P!Bigger
<1>3. \A p \in moving : IsFiniteSet(before(p.id)) /\ Cardinality(before(p.id)) \in Nat
  <2> TAKE p \in moving
  <2>1. before(p.id) \in SUBSET S
    BY <1>1
  <2>2. IsFiniteSet(before(p.id))
    BY <2>1, FS_Subset
  <2> QED BY <2>2, FS_CardinalityType
<1>4. \A p, q \in moving : p.id < q.id => new(p.id) < new(q.id)
  <2> SUFFICES ASSUME NEW p \in moving, NEW q \in moving, p.id < q.id
               PROVE  new(p.id) < new(q.id)
    OBVIOUS
  <2>1. p.id \in Nat /\ q.id \in Nat /\ \A r \in moving : r.id \in Nat
    BY <1>1 DEF P!Rows
  <2>2. before(p.id) \in SUBSET before(q.id) /\ p \in before(q.id) /\ p \notin before(p.id)
    <3>1. \A r \in moving : r.id < p.id => r.id < q.id
      BY <2>1
    <3> QED BY <2>1, <3>1
  <2>3. Cardinality(before(p.id)) <= Cardinality(before(q.id))
        /\ Cardinality(before(p.id)) # Cardinality(before(q.id))
    <3>1. IsFiniteSet(before(q.id))
      BY <1>3
    <3>2. before(p.id) # before(q.id)
      BY <2>2
    <3> HIDE DEF before
    <3> QED BY <3>1, <3>2, <2>2, FS_Subset
  <2>4. Cardinality(before(p.id)) \in Nat /\ Cardinality(before(q.id)) \in Nat
    BY <1>3
  <2> HIDE DEF start, before
  <2> QED BY <1>2, <2>3, <2>4
<1>5. \A p \in moving : p.id \in Nat /\ new(p.id) \in Nat /\ new(p.id) >= Floor
  <2> TAKE p \in moving
  <2>1. p.id \in Nat
    BY <1>1 DEF P!Rows
  <2>2. Cardinality(before(p.id)) \in Nat
    BY <1>3
  <2> HIDE DEF start, before
  <2> QED BY <1>2, <2>1, <2>2
<1>6. P!PlanReassignment(S, R) = plan
  BY DEF P!PlanReassignment, P!Cardinality, Cardinality
<1> HIDE DEF new, moving
<1>7. plan \subseteq [old : Nat, new : Nat]
  BY <1>5
<1>8. \A m \in plan : m.old < Floor /\ m.new >= Floor /\ \E p \in moving : p.id = m.old
  BY <1>1, <1>5
<1>9. \A p \in moving : p \in S /\ p.id < Floor /\ \E m \in plan : m.old = p.id
  <2> TAKE p \in moving
  <2>1. [old |-> p.id, new |-> new(p.id)] \in plan
    OBVIOUS
  <2> QED BY <1>1, <2>1
<1>10. \A m, n \in plan : (m.old = n.old \/ m.new = n.new) => m = n
  <2> SUFFICES ASSUME NEW m \in plan, NEW n \in plan, m.old = n.old \/ m.new = n.new
               PROVE  m = n
    OBVIOUS
  <2>1. PICK p \in moving : m = [old |-> p.id, new |-> new(p.id)]
    OBVIOUS
  <2>2. PICK q \in moving : n = [old |-> q.id, new |-> new(q.id)]
    OBVIOUS
  <2>3. CASE p.id = q.id
    BY <2>1, <2>2, <2>3
  <2>4. CASE p.id # q.id
    <3>1. p.id < q.id \/ q.id < p.id
      BY <1>5, <2>4
    <3>2. new(p.id) < new(q.id) \/ new(q.id) < new(p.id)
      BY <1>4, <3>1
    <3>3. new(p.id) # new(q.id)
      BY <1>5, <3>2
    <3> QED BY <2>1, <2>2, <2>4, <3>3
  <2> QED BY <2>3, <2>4
<1> QED BY <1>6, <1>7, <1>8, <1>9, <1>10 DEF moving

\* The links found for some rows: to an event of the slot that no prediction has, and
\* none of them to the same.
LEMMA ResolvedFacts ==
  ASSUME NEW rows \in SUBSET P!Rows, P!IdsAreUnique(rows), P!Minted(events)
  PROVE  /\ \A q \in P!Resolved(rows) :
              /\ q \in P!Rows /\ \E r \in rows : q.id = r.id /\ q.key = r.key
              /\ q.event # 0 => /\ q.event \notin P!Owned
                                /\ \E e \in events : e.id = q.event /\ e.slot = q.key.slot
         /\ \A q \in P!Resolved(rows) : q.event # 0 =>
              \A p \in P!Resolved(rows) : p.event = q.event => p = q
         /\ P!IdsAreUnique(P!Resolved(rows))
         /\ IsFiniteSet(rows) => IsFiniteSet(P!Resolved(rows))
<1> DEFINE link(p) == IF P!EventOfSlot(p) \in P!Owned THEN 0 ELSE P!EventOfSlot(p)
           free == {[p EXCEPT !.event = link(p)] : p \in rows}
           twin(p) == \E q \in free : q.id # p.id /\ q.event = p.event
           last(p) == [p EXCEPT !.event = IF twin(p) THEN 0 ELSE @]
<1>1. P!Resolved(rows) = {last(p) : p \in free}
  BY DEF P!Resolved
<1>2. \A p \in rows : link(p) \in Nat
        /\ (link(p) # 0 => link(p) \notin P!Owned
              /\ \E e \in events : e.id = link(p) /\ e.slot = p.key.slot)
  <2> TAKE p \in rows
  <2> DEFINE those == {e \in events : e.slot = p.key.slot}
  <2>1. CASE Cardinality(those) = 1
    <3>1. those # {}
      BY <2>1, FS_EmptySet
    <3>2. (CHOOSE e \in those : TRUE) \in those
      BY <3>1
    <3>3. P!EventOfSlot(p) = (CHOOSE e \in those : TRUE).id
      BY <2>1 DEF P!EventOfSlot, P!Cardinality, Cardinality
    <3>4. \A e \in events : e.id \in Nat
      BY DEF P!Minted
    <3>5. PICK e \in events : e.slot = p.key.slot /\ e.id = P!EventOfSlot(p)
      BY <3>2, <3>3
    <3> QED BY <3>4, <3>5
  <2>2. CASE Cardinality(those) # 1
    BY <2>2 DEF P!EventOfSlot, P!Cardinality, Cardinality
  <2> QED BY <2>1, <2>2
<1> HIDE DEF link
<1>3. \A q \in free : /\ q \in P!Rows /\ \E r \in rows : q.id = r.id /\ q.key = r.key
                      /\ q.event # 0 => q.event \notin P!Owned
                           /\ \E e \in events : e.id = q.event /\ e.slot = q.key.slot
  BY <1>2 DEF P!Rows
<1>4. P!IdsAreUnique(free)
  <2> SUFFICES ASSUME NEW p \in free, NEW q \in free, p.id = q.id PROVE p = q
    BY DEF P!IdsAreUnique
  <2>1. PICK a \in rows : p = [a EXCEPT !.event = link(a)]
    OBVIOUS
  <2>2. PICK b \in rows : q = [b EXCEPT !.event = link(b)]
    OBVIOUS
  <2>3. a.id = b.id
    BY <2>1, <2>2 DEF P!Rows
  <2>4. a = b
    BY <2>3 DEF P!IdsAreUnique
  <2> QED BY <2>1, <2>2, <2>4
<1>5. IsFiniteSet(rows) => IsFiniteSet(free)
  <2> HAVE IsFiniteSet(rows)
  <2> DEFINE f == [p \in rows |-> [p EXCEPT !.event = link(p)]]
  <2>1. f = [p \in rows |-> f[p]]
    OBVIOUS
  <2>2. free = {f[p] : p \in rows}
    OBVIOUS
  <2> HIDE DEF f
  <2> QED BY <2>1, <2>2, FiniteImage
<1> HIDE DEF free
<1>6. \A p \in free : /\ last(p) \in P!Rows /\ last(p).id = p.id /\ last(p).key = p.key
                      /\ last(p).event # 0 => last(p) = p /\ ~ twin(p)
  <2> TAKE p \in free
  <2>1. p \in P!Rows
    BY <1>3
  <2> HIDE DEF twin
  <2>2. CASE twin(p)
    BY <2>1, <2>2 DEF P!Rows
  <2>3. CASE ~ twin(p)
    <3>1. last(p) = p
      BY <2>1, <2>3 DEF P!Rows
    <3> QED BY <2>1, <2>3, <3>1
  <2> QED BY <2>2, <2>3
<1> HIDE DEF last
<1>7. \A q \in P!Resolved(rows) : \E p \in free : q = last(p)
  BY <1>1
<1>8. \A q \in P!Resolved(rows) : q.event # 0 =>
        \A p \in P!Resolved(rows) : p.event = q.event => p = q
  <2> SUFFICES ASSUME NEW q \in P!Resolved(rows), NEW p \in P!Resolved(rows), q.event # 0,
                      p.event = q.event
               PROVE  p = q
    OBVIOUS
  <2>1. q \in free /\ ~ twin(q)
    BY <1>6, <1>7
  <2>2. p \in free
    BY <1>6, <1>7
  <2>3. p.id = q.id
    BY <2>1, <2>2
  <2> QED BY <2>1, <2>2, <2>3, <1>4 DEF P!IdsAreUnique
<1>9. \A q \in P!Resolved(rows) :
        /\ q \in P!Rows /\ \E r \in rows : q.id = r.id /\ q.key = r.key
        /\ q.event # 0 => q.event \notin P!Owned
             /\ \E e \in events : e.id = q.event /\ e.slot = q.key.slot
  <2> TAKE q \in P!Resolved(rows)
  <2>1. PICK p \in free : q = last(p)
    BY <1>7
  <2>2. q \in P!Rows /\ \E r \in rows : q.id = r.id /\ q.key = r.key
    BY <2>1, <1>3, <1>6
  <2>3. ASSUME q.event # 0
        PROVE  q.event \notin P!Owned /\ \E e \in events : e.id = q.event /\ e.slot = q.key.slot
    BY <2>1, <2>3, <1>3, <1>6
  <2> QED BY <2>2, <2>3
<1>10. P!IdsAreUnique(P!Resolved(rows))
  <2> SUFFICES ASSUME NEW p \in P!Resolved(rows), NEW q \in P!Resolved(rows), p.id = q.id PROVE p = q
    BY DEF P!IdsAreUnique
  <2>1. PICK a \in free : p = last(a)
    BY <1>7
  <2>2. PICK b \in free : q = last(b)
    BY <1>7
  <2>3. a = b
    BY <2>1, <2>2, <1>4, <1>6 DEF P!IdsAreUnique
  <2> QED BY <2>1, <2>2, <2>3
<1>11. IsFiniteSet(rows) => IsFiniteSet(P!Resolved(rows))
  <2> HAVE IsFiniteSet(rows)
  <2> DEFINE f == [p \in free |-> last(p)]
  <2>1. f = [p \in free |-> f[p]]
    OBVIOUS
  <2>2. P!Resolved(rows) = {f[p] : p \in free}
    BY <1>1
  <2> HIDE DEF f
  <2> QED BY <2>1, <2>2, <1>5, FiniteImage
<1> QED BY <1>8, <1>9, <1>10, <1>11

-----------------------------------------------------------------------------
(* Init, and each step.                                                    *)

LEMMA RepairsInit == ASSUME P!RepairsAssumption, P!Init PROVE RepairInv
<1>1. PICK h \in Histories :
        /\ serving = h.serving /\ research = h.research /\ events = h.events
        /\ servSeq = P!Greatest(P!Ids(h.serving)) /\ resSeq = P!Greatest(P!Ids(h.research))
  BY DEF P!Init
<1>2. P!IsHistory(h)
  BY DEF P!RepairsAssumption
<1>3. /\ serving \subseteq P!Rows /\ IsFiniteSet(serving) /\ P!IdsAreUnique(serving)
      /\ research \subseteq P!Rows /\ IsFiniteSet(research) /\ P!IdsAreUnique(research)
      /\ P!KeysAreUnique(serving) /\ IsFiniteSet(events) /\ P!Minted(events)
      /\ P!Linked(research, events) /\ P!Adopted(research, serving)
  BY <1>1, <1>2 DEF P!IsHistory, P!IsFiniteSet, IsFiniteSet
<1>4. /\ servSeq \in Nat /\ \A p \in serving : p.id <= servSeq
      /\ resSeq \in Nat /\ \A p \in research : p.id <= resSeq
  BY <1>1, <1>3, GreatestOf
<1>5. outcomes = {} /\ move = P!Still /\ fill = P!Idle
  BY DEF P!Init
<1>6. RepairTypes
  BY <1>3, <1>4, <1>5 DEF RepairTypes, P!Still, P!Idle
<1>7. StoresAreKeyed /\ SequenceIsAhead
  BY <1>3, <1>4 DEF StoresAreKeyed, SequenceIsAhead
<1>8. AdoptedStays /\ MoveInHand /\ FillInHand
  BY <1>3, <1>5 DEF AdoptedStays, P!Adopted, MoveInHand, FillInHand, P!FillAloneLands, P!Still, P!Idle
<1>9. P!OutcomesFollow /\ P!LinksAreSound
  BY <1>3, <1>5 DEF P!OutcomesFollow, P!LinksAreSound
<1> QED BY <1>6, <1>7, <1>8, <1>9 DEF RepairInv

LEMMA PiScoresKeeps == ASSUME RepairInv, NEW key \in P!Keys, P!PiScores(key) PROVE RepairInv'
<1> DEFINE row == [id |-> servSeq + 1, key |-> key, event |-> 0]
<1>1. RepairTypes /\ StoresAreKeyed
  BY DEF RepairInv
<1>2. /\ \A p \in serving : p.key # key
      /\ servSeq' = servSeq + 1
      /\ UNCHANGED <<outcomes, research, resSeq, events, bySlot, move, fill, owed, sound>>
  BY DEF P!PiScores
<1>3. \/ serving' = serving
      \/ serving' = serving \cup {row} /\ \A p \in serving : p.id # servSeq + 1
  BY DEF P!PiScores, P!Ids
<1>4. row \in P!Rows /\ row.id = servSeq + 1 /\ row.key = key
  BY <1>1 DEF RepairTypes, P!Rows
<1> HIDE DEF row
<1>5. IsFiniteSet(serving') /\ serving' \subseteq P!Rows /\ serving \subseteq serving'
  BY <1>1, <1>3, <1>4, FS_AddElement DEF RepairTypes
<1>6. RepairTypes'
  BY <1>1, <1>2, <1>5 DEF RepairTypes
<1>7. StoresAreKeyed'
  <2>1. P!IdsAreUnique(serving') /\ P!KeysAreUnique(serving')
    BY <1>1, <1>2, <1>3, <1>4 DEF StoresAreKeyed, P!IdsAreUnique, P!KeysAreUnique
  <2> QED BY <1>1, <1>2, <2>1 DEF StoresAreKeyed
<1>8. SequenceIsAhead'
  <2> SUFFICES ASSUME ~owed \/ sound, NEW p \in serving' PROVE p.id <= servSeq + 1
    BY <1>2 DEF SequenceIsAhead
  <2>1. servSeq \in Nat /\ \A q \in serving : q.id \in Nat /\ q.id <= servSeq
    BY <1>1 DEF RepairInv, SequenceIsAhead, RepairTypes, P!Rows
  <2> QED BY <1>3, <1>4, <2>1
<1>9. AdoptedStays'
  BY <1>2, <1>5 DEF RepairInv, AdoptedStays, P!Adopted
<1>10. MoveInHand'
  <2>1. MoveInHand
        /\ (P!PlanReassignment(move.serving, move.research))'
             = P!PlanReassignment(move.serving, move.research)
        /\ (P!Moving(move.serving, move.research))' = P!Moving(move.serving, move.research)
    BY <1>2 DEF RepairInv
  <2>2. ASSUME move.at \in {"applied", "reset"}, NEW p \in P!Moving(move.serving, move.research)
        PROVE  p \notin serving' /\ \E q \in serving' : q.key = p.key
    <3>1. p \notin serving /\ \E q \in serving : q.key = p.key
      BY <2>1, <2>2 DEF MoveInHand
    <3>2. p.key # key
      BY <1>2, <3>1
    <3>3. p \notin serving'
      BY <1>3, <1>4, <3>1, <3>2
    <3> QED BY <1>5, <3>1, <3>3
  <2> QED BY <1>2, <1>5, <2>1, <2>2 DEF MoveInHand
<1>11. FillInHand' /\ P!LinksAreSound'
  BY <1>2 DEF RepairInv, FillInHand, P!FillAloneLands, P!LinksAreSound
<1>12. P!OutcomesFollow'
  BY <1>2, <1>5 DEF RepairInv, P!OutcomesFollow
<1> QED BY <1>6, <1>7, <1>8, <1>9, <1>10, <1>11, <1>12 DEF RepairInv

LEMMA MatureKeeps == ASSUME RepairInv, NEW p \in serving, P!Mature(p) PROVE RepairInv'
<1>1. /\ outcomes' = outcomes \cup {[pred |-> p.id, key |-> p.key]}
      /\ UNCHANGED <<serving, servSeq, research, resSeq, events, bySlot, move, fill, owed, sound>>
  BY DEF P!Mature
<1>2. RepairTypes'
  <2>1. [pred |-> p.id, key |-> p.key] \in [pred : Nat, key : P!Keys]
    BY DEF RepairInv, RepairTypes, P!Rows
  <2> QED BY <1>1, <2>1 DEF RepairInv, RepairTypes
<1>3. P!OutcomesFollow'
  BY <1>1 DEF RepairInv, P!OutcomesFollow
<1>4. StoresAreKeyed' /\ SequenceIsAhead' /\ AdoptedStays' /\ FillInHand' /\ P!LinksAreSound'
  BY <1>1 DEF RepairInv, StoresAreKeyed, SequenceIsAhead, AdoptedStays, FillInHand, P!FillAloneLands,
              P!LinksAreSound
<1>5. MoveInHand'
  BY <1>1 DEF RepairInv, MoveInHand
<1> QED BY <1>2, <1>3, <1>4, <1>5 DEF RepairInv

LEMMA SettleKeeps == ASSUME RepairInv, NEW key \in P!Keys, P!Settle(key) PROVE RepairInv'
<1> DEFINE n == Cardinality(events)
           event == [id |-> n + 1, slot |-> key.slot, label |-> key.label]
<1>1. /\ events' = events \cup {event}
      /\ UNCHANGED <<serving, outcomes, servSeq, research, resSeq, bySlot, move, fill, owed, sound>>
  BY DEF P!Settle, P!Cardinality, Cardinality
<1>2. IsFiniteSet(events) /\ P!Minted(events)
  BY DEF RepairInv, RepairTypes, StoresAreKeyed
<1>3. n \in Nat
  BY <1>2, FS_CardinalityType
<1>4. \A e \in events : e \in [id : 1..n, slot : Slots, label : P!Labels]
  BY <1>2 DEF P!Minted, P!Cardinality, Cardinality
<1>5. event \notin events
  BY <1>3, <1>4
<1>6. IsFiniteSet(events') /\ Cardinality(events') = n + 1
  <2> HIDE DEF event
  <2> QED BY <1>1, <1>2, <1>5, FS_AddElement
<1>7. P!Minted(events')
  <2>1. event \in [id : 1..(n + 1), slot : Slots, label : P!Labels]
    BY <1>3 DEF P!Keys
  <2>2. \A e \in events : e \in [id : 1..(n + 1), slot : Slots, label : P!Labels]
    BY <1>3, <1>4
  <2>3. \A e \in events : e.id # event.id
    BY <1>3, <1>4
  <2> HIDE DEF event, n
  <2>4. \A e, f \in events' : e.id = f.id => e = f
    BY <1>1, <1>2, <2>3 DEF P!Minted
  <2> QED BY <1>1, <1>6, <2>1, <2>2, <2>4 DEF P!Minted, P!Cardinality, Cardinality
<1> HIDE DEF event, n
<1>8. RepairTypes' /\ StoresAreKeyed'
  BY <1>1, <1>6, <1>7 DEF RepairInv, RepairTypes, StoresAreKeyed
<1>9. SequenceIsAhead' /\ AdoptedStays' /\ P!OutcomesFollow'
  BY <1>1 DEF RepairInv, SequenceIsAhead, AdoptedStays, P!OutcomesFollow
<1>10. MoveInHand'
  BY <1>1 DEF RepairInv, MoveInHand
<1>11. FillInHand'
  BY <1>1 DEF RepairInv, FillInHand, P!FillAloneLands
<1>12. P!LinksAreSound'
  BY <1>1 DEF RepairInv, P!LinksAreSound, P!Linked
<1> QED BY <1>8, <1>9, <1>10, <1>11, <1>12 DEF RepairInv

\* Research's rows stay and rows come that research or serving minted.
LEMMA ResearchGrows ==
  ASSUME RepairInv, UNCHANGED <<serving, outcomes, servSeq, events, bySlot, move, fill, owed, sound>>,
         NEW added \in SUBSET P!Rows, research' = research \cup added, IsFiniteSet(added),
         \A p \in added : p \notin research /\ p.id \notin P!Ids(research), P!IdsAreUnique(added),
         resSeq' \in Nat, \A p \in research' : p.id < Floor => p.id <= resSeq',
         P!Adopted(added, serving), P!Linked(added, events),
         \A p \in added : p.event \notin P!Owned
  PROVE  RepairInv'
<1>1. RepairTypes'
  BY FS_Union DEF RepairInv, RepairTypes
<1>2. StoresAreKeyed'
  <2>1. P!IdsAreUnique(research')
    BY DEF RepairInv, StoresAreKeyed, P!IdsAreUnique, P!Ids
  <2> QED BY <2>1 DEF RepairInv, StoresAreKeyed
<1>3. SequenceIsAhead' /\ P!OutcomesFollow'
  BY DEF RepairInv, SequenceIsAhead, P!OutcomesFollow
<1>4. AdoptedStays'
  BY DEF RepairInv, AdoptedStays, P!Adopted
<1>5. MoveInHand'
  BY DEF RepairInv, MoveInHand
<1>6. FillInHand'
  <2>1. fill.seen \subseteq research /\ research \subseteq research'
    BY DEF RepairInv, FillInHand
  <2>2. P!FillAloneLands'
    BY <2>1 DEF RepairInv, FillInHand, P!FillAloneLands
  <2> QED BY <2>1, <2>2 DEF RepairInv, FillInHand
<1>7. P!LinksAreSound'
  <2>1. \A p \in research' : p.event # 0 => \E e \in events : e.id = p.event /\ e.slot = p.key.slot
    BY DEF RepairInv, P!LinksAreSound, P!Linked
  <2>2. ASSUME NEW p \in research', p.event # 0, NEW q \in research' \ {p}
        PROVE  q.event # p.event
    <3>1. CASE p \in research /\ q \in research
      BY <2>2, <3>1 DEF RepairInv, P!LinksAreSound, P!Linked
    <3>2. CASE p \in added /\ q \in added
      BY <2>2, <3>2 DEF P!Linked
    <3>3. CASE p \in added /\ q \in research
      BY <2>2, <3>3 DEF P!Owned
    <3>4. CASE p \in research /\ q \in added
      BY <2>2, <3>4 DEF P!Owned
    <3> QED BY <2>2, <3>1, <3>2, <3>3, <3>4
  <2> QED BY <2>1, <2>2 DEF P!LinksAreSound, P!Linked
<1> QED BY <1>1, <1>2, <1>3, <1>4, <1>5, <1>6, <1>7 DEF RepairInv

LEMMA ResearchScoresKeeps ==
  ASSUME RepairInv, P!RepairsAssumption, NEW e \in events, P!ResearchScores(e) PROVE RepairInv'
<1> DEFINE row == [id |-> resSeq + 1, key |-> [slot |-> e.slot, label |-> e.label], event |-> e.id]
<1>1. /\ e.id \notin P!Owned /\ resSeq + 1 < Floor /\ resSeq' = resSeq + 1
      /\ research' = research \cup {row}
      /\ UNCHANGED <<serving, outcomes, servSeq, events, bySlot, move, fill, owed, sound>>
  BY DEF P!ResearchScores
<1>2. resSeq \in Nat /\ Floor \in Nat
  BY DEF RepairInv, RepairTypes, P!RepairsAssumption
<1>3. e.id \in Nat /\ e.slot \in Slots /\ e.label \in P!Labels
  BY DEF RepairInv, StoresAreKeyed, P!Minted
<1>4. row \in P!Rows /\ row.id = resSeq + 1 /\ row.event = e.id /\ row.key.slot = e.slot
  BY <1>2, <1>3 DEF P!Rows, P!Keys
<1> HIDE DEF row
<1>5. \A p \in research : p.id \in Nat /\ (p.id < Floor => p.id <= resSeq)
  BY DEF RepairInv, RepairTypes, StoresAreKeyed, P!Rows
<1>6. \A p \in research : p.id # resSeq + 1
  BY <1>1, <1>2, <1>5
<1>7. \A p \in research' : p.id < Floor => p.id <= resSeq'
  BY <1>1, <1>2, <1>4, <1>5
<1>8. P!Adopted({row}, serving)
  BY <1>1, <1>2, <1>4 DEF P!Adopted
<1>9. P!Linked({row}, events) /\ P!IdsAreUnique({row})
  BY <1>4 DEF P!Linked, P!IdsAreUnique
<1>10. IsFiniteSet({row})
  BY FS_Singleton
<1> QED BY <1>1, <1>2, <1>4, <1>6, <1>7, <1>8, <1>9, <1>10, ResearchGrows DEF P!Ids

LEMMA PullKeeps == ASSUME RepairInv, P!RepairsAssumption, P!Pull PROVE RepairInv'
<1> DEFINE new == {p \in serving : p.id >= Floor /\ p.id \notin P!Ids(research)}
           link(p) == IF P!EventOfKey(p) \in P!Owned THEN 0 ELSE P!EventOfKey(p)
           byKey == {[p EXCEPT !.event = link(p)] : p \in new}
           added == IF bySlot THEN P!Resolved(new) ELSE byKey
<1>1. /\ research' = research \cup added
      /\ UNCHANGED <<serving, outcomes, servSeq, resSeq, events, bySlot, move, fill, owed, sound>>
  BY DEF P!Pull
<1>2. /\ serving \subseteq P!Rows /\ IsFiniteSet(serving) /\ P!IdsAreUnique(serving)
      /\ P!KeysAreUnique(serving) /\ P!Minted(events) /\ resSeq \in Nat /\ Floor \in Nat
      /\ \A p \in research : p.id \in Nat /\ (p.id < Floor => p.id <= resSeq)
  BY DEF RepairInv, RepairTypes, StoresAreKeyed, P!RepairsAssumption, P!Rows
<1>3. new \subseteq serving /\ \A p \in new : p.id >= Floor /\ p.id \notin P!Ids(research) /\ p.id \in Nat
  BY <1>2 DEF P!Rows
<1> HIDE DEF new
<1>4. new \in SUBSET P!Rows /\ IsFiniteSet(new) /\ P!IdsAreUnique(new)
  BY <1>2, <1>3, FS_Subset DEF P!IdsAreUnique
<1>5. \A p \in new : /\ link(p) \in Nat
                     /\ link(p) # 0 => /\ link(p) \notin P!Owned
                                       /\ \E e \in events : /\ e.id = link(p)
                                                            /\ [slot |-> e.slot, label |-> e.label] = p.key
  <2> TAKE p \in new
  <2> DEFINE those == {e \in events : [slot |-> e.slot, label |-> e.label] = p.key}
  <2>1. CASE those = {}
    BY <2>1 DEF P!EventOfKey
  <2>2. CASE those # {}
    <3>1. (CHOOSE e \in those : TRUE) \in those
      BY <2>2
    <3>2. P!EventOfKey(p) = (CHOOSE e \in those : TRUE).id
      BY <2>2 DEF P!EventOfKey
    <3>3. PICK e \in events : [slot |-> e.slot, label |-> e.label] = p.key /\ e.id = P!EventOfKey(p)
      BY <3>1, <3>2
    <3>4. e.id \in Nat
      BY <1>2 DEF P!Minted
    <3> QED BY <3>3, <3>4
  <2> QED BY <2>1, <2>2
<1> HIDE DEF link
<1>6. \A q \in byKey : \E p \in new : q = [p EXCEPT !.event = link(p)]
  OBVIOUS
<1>7. /\ \A q \in added : /\ q \in P!Rows /\ \E p \in new : q.id = p.id /\ q.key = p.key
                          /\ q.event # 0 => /\ q.event \notin P!Owned
                                            /\ \E e \in events : e.id = q.event /\ e.slot = q.key.slot
      /\ \A q \in added : q.event # 0 => \A p \in added : p.event = q.event => p = q
      /\ P!IdsAreUnique(added) /\ IsFiniteSet(added)
  <2>1. CASE bySlot
    BY <1>2, <1>4, <2>1, ResolvedFacts
  <2>2. CASE ~ bySlot
    <3>1. added = byKey
      BY <2>2
    <3>2. \A q \in byKey : \E p \in new :
            /\ q.id = p.id /\ q.key = p.key /\ q.event = link(p) /\ q \in P!Rows
            /\ q = [p EXCEPT !.event = link(p)]
      BY <1>4, <1>5, <1>6 DEF P!Rows
    <3>3. P!IdsAreUnique(byKey)
      BY <1>4, <3>2 DEF P!IdsAreUnique
    <3>4. ASSUME NEW q \in byKey, NEW p \in byKey, q.event # 0, p.event = q.event
          PROVE  p = q
      <4>1. PICK a \in new : q.key = a.key /\ q.event = link(a) /\ q = [a EXCEPT !.event = link(a)]
        BY <3>2
      <4>2. PICK b \in new : p.key = b.key /\ p.event = link(b) /\ p = [b EXCEPT !.event = link(b)]
        BY <3>2
      <4>3. PICK e \in events : e.id = link(a) /\ [slot |-> e.slot, label |-> e.label] = a.key
        BY <1>5, <3>4, <4>1
      <4>4. PICK f \in events : f.id = link(b) /\ [slot |-> f.slot, label |-> f.label] = b.key
        BY <1>5, <3>4, <4>2
      <4>5. e = f
        BY <1>2, <3>4, <4>1, <4>2, <4>3, <4>4 DEF P!Minted
      <4>6. a.key = b.key
        BY <4>3, <4>4, <4>5
      <4>7. a = b
        BY <1>2, <1>3, <4>6 DEF P!KeysAreUnique
      <4> QED BY <4>1, <4>2, <4>7
    <3>5. IsFiniteSet(byKey)
      <4> DEFINE f == [p \in new |-> [p EXCEPT !.event = link(p)]]
      <4>1. f = [p \in new |-> f[p]]
        OBVIOUS
      <4>2. byKey = {f[p] : p \in new}
        OBVIOUS
      <4> HIDE DEF f
      <4> QED BY <4>1, <4>2, <1>4, FiniteImage
    <3>6. ASSUME NEW q \in byKey, q.event # 0
          PROVE  q.event \notin P!Owned /\ \E e \in events : e.id = q.event /\ e.slot = q.key.slot
      <4>1. PICK p \in new : q.key = p.key /\ q.event = link(p)
        BY <3>2
      <4>2. PICK e \in events : e.id = link(p) /\ [slot |-> e.slot, label |-> e.label] = p.key
        BY <1>5, <3>6, <4>1
      <4>3. e.slot = q.key.slot
        BY <4>1, <4>2
      <4> QED BY <1>5, <3>6, <4>1, <4>2, <4>3
    <3> HIDE DEF byKey, added
    <3> QED BY <3>1, <3>2, <3>3, <3>4, <3>5, <3>6
  <2> QED BY <2>1, <2>2
<1> HIDE DEF added
<1>8. \A p \in added : p \notin research /\ p.id \notin P!Ids(research) /\ p.id >= Floor /\ p.id \in Nat
  <2>1. \A p \in research : p.id \in P!Ids(research)
    BY DEF P!Ids
  <2> QED BY <1>3, <1>7, <2>1
<1>9. \A p \in research' : p.id < Floor => p.id <= resSeq'
  BY <1>1, <1>2, <1>8
<1>10. P!Adopted(added, serving)
  BY <1>3, <1>7 DEF P!Adopted
<1>11. P!Linked(added, events)
  BY <1>7 DEF P!Linked
<1>12. \A p \in added : p.event \notin P!Owned
  BY <1>7 DEF P!Owned
<1> QED BY <1>1, <1>2, <1>7, <1>8, <1>9, <1>10, <1>11, <1>12, ResearchGrows

\* The steps that leave both stores and the fill alone.
LEMMA StoresStand ==
  ASSUME RepairInv, UNCHANGED <<P!stores, fill>>, MoveInHand', P!Adopted(move'.research, serving),
         SequenceIsAhead',
         move' \in [at : {"no", "reads", "planned", "applied", "reset"}, serving : SUBSET P!Rows,
                    research : SUBSET P!Rows, moves : SUBSET [old : Nat, new : Nat]]
  PROVE  RepairInv'
<1>1. UNCHANGED <<serving, outcomes, servSeq, research, resSeq, events>>
  BY DEF P!stores
<1>2. RepairTypes' /\ StoresAreKeyed' /\ P!OutcomesFollow' /\ P!LinksAreSound'
  BY <1>1 DEF RepairInv, RepairTypes, StoresAreKeyed, P!OutcomesFollow, P!LinksAreSound
<1>3. AdoptedStays' /\ FillInHand'
  BY <1>1 DEF RepairInv, AdoptedStays, FillInHand, P!FillAloneLands
<1> QED BY <1>2, <1>3 DEF RepairInv

LEMMA LaunchKeeps == ASSUME RepairInv, P!PollerLaunches PROVE RepairInv'
<1>1. ~P!SequenceBehind /\ UNCHANGED <<P!stores, fill, move, owed>>
  BY DEF P!PollerLaunches
<1>2. serving \in SUBSET P!Rows /\ IsFiniteSet(serving) /\ servSeq \in Nat
  BY DEF RepairInv, RepairTypes
<1>3. \A p \in serving : p.id <= servSeq
  <2> TAKE p \in serving
  <2>1. P!Ids(serving) # {} /\ p.id \in Nat
    BY <1>2 DEF P!Ids, P!Rows
  <2>2. P!Greatest(P!Ids(serving)) \in Nat /\ p.id <= P!Greatest(P!Ids(serving))
    BY <1>2, GreatestOf
  <2>3. ~ (servSeq < P!Greatest(P!Ids(serving)))
    BY <1>1, <2>1 DEF P!SequenceBehind
  <2> QED BY <1>2, <2>1, <2>2, <2>3
<1>4. UNCHANGED <<serving, servSeq>>
  BY <1>1 DEF P!stores
<1>5. SequenceIsAhead'
  BY <1>3, <1>4 DEF SequenceIsAhead
<1>6. MoveInHand' /\ P!Adopted(move'.research, serving)
  BY <1>1, <1>4 DEF RepairInv, MoveInHand, AdoptedStays
<1> QED BY <1>1, <1>5, <1>6, StoresStand DEF RepairInv, RepairTypes

LEMMA LinkBySlotKeeps == ASSUME RepairInv, P!LinkBySlot PROVE RepairInv'
<1>1. UNCHANGED <<P!stores, fill, move, owed, sound>>
  BY DEF P!LinkBySlot
<1>2. SequenceIsAhead' /\ MoveInHand' /\ P!Adopted(move'.research, serving)
  BY <1>1 DEF RepairInv, SequenceIsAhead, MoveInHand, AdoptedStays, P!stores
<1> QED BY <1>1, <1>2, StoresStand DEF RepairInv, RepairTypes

LEMMA MoveReadsKeeps ==
  ASSUME RepairInv, P!RepairsAssumption, P!MoveReads \/ P!MovePlans \/ P!MoveEnds \/ P!MoveDies PROVE RepairInv'
<1>1. UNCHANGED <<P!stores, fill, owed, sound>>
  BY DEF P!MoveReads, P!MovePlans, P!MoveEnds, P!MoveDies
<1>2. SequenceIsAhead'
  BY <1>1 DEF RepairInv, SequenceIsAhead, P!stores
<1>3. serving \in SUBSET P!Rows /\ IsFiniteSet(serving) /\ research \in SUBSET P!Rows
      /\ P!IdsAreUnique(serving) /\ P!Adopted(research, serving) /\ serving' = serving
  BY <1>1 DEF RepairInv, RepairTypes, StoresAreKeyed, AdoptedStays, P!stores
<1>4. move \in [at : {"no", "reads", "planned", "applied", "reset"}, serving : SUBSET P!Rows,
                research : SUBSET P!Rows, moves : SUBSET [old : Nat, new : Nat]]
      /\ P!Adopted(move.research, serving)
  BY DEF RepairInv, RepairTypes, AdoptedStays
<1>5. CASE P!MoveReads
  <2>1. move' = [at |-> "reads", serving |-> serving, research |-> {}, moves |-> {}]
    BY <1>5 DEF P!MoveReads, P!Still
  <2>2. MoveInHand' /\ P!Adopted(move'.research, serving)
    BY <1>3, <2>1 DEF MoveInHand, P!Adopted
  <2> QED BY <1>1, <1>2, <1>3, <2>1, <2>2, StoresStand
<1>6. CASE P!MovePlans
  <2>1. move.at = "reads" /\ move' = [at |-> "planned", serving |-> move.serving, research |-> research,
                                      moves |-> P!PlanReassignment(move.serving, research)]
    BY <1>4, <1>6 DEF P!MovePlans
  <2>2. move.serving \subseteq serving
    BY <2>1 DEF RepairInv, MoveInHand
  <2>3. move.serving \in SUBSET P!Rows /\ IsFiniteSet(move.serving) /\ P!IdsAreUnique(move.serving)
    BY <1>3, <2>2, FS_Subset DEF P!IdsAreUnique
  <2>4. P!PlanReassignment(move.serving, research) \in SUBSET [old : Nat, new : Nat]
    BY <2>3, PlanFacts DEF P!RepairsAssumption
  <2>5. MoveInHand'
    <3>1. (P!PlanReassignment(move.serving, move.research))' = P!PlanReassignment(move'.serving, move'.research)
      OBVIOUS
    <3> QED BY <1>3, <2>1, <2>2, <3>1 DEF MoveInHand
  <2> QED BY <1>1, <1>2, <1>3, <2>1, <2>3, <2>4, <2>5, StoresStand
<1>7. CASE P!MoveEnds \/ P!MoveDies
  <2>1. move' = [at |-> "no", serving |-> {}, research |-> {}, moves |-> {}]
    BY <1>7 DEF P!MoveEnds, P!MoveDies, P!Still
  <2>2. MoveInHand' /\ P!Adopted(move'.research, serving)
    BY <2>1 DEF MoveInHand, P!Adopted
  <2> QED BY <1>1, <1>2, <1>3, <2>1, <2>2, StoresStand
<1> QED BY <1>5, <1>6, <1>7

LEMMA MoveResetsKeeps == ASSUME RepairInv, P!RepairsAssumption, P!MoveResets PROVE RepairInv'
<1>1. /\ move.at = "applied" \/ (move.at = "planned" /\ move.moves = {})
      /\ servSeq' = P!Bigger(P!Greatest(P!Ids(serving)), Floor)
      /\ owed' = FALSE /\ move' = [move EXCEPT !.at = "reset"]
      /\ UNCHANGED <<serving, outcomes, research, resSeq, events, fill>>
  BY DEF P!MoveResets, P!ResetSequence
<1>2. RepairTypes /\ serving \in SUBSET P!Rows /\ IsFiniteSet(serving) /\ P!IdsAreUnique(serving)
      /\ Floor \in Nat \ {0}
  BY DEF RepairInv, RepairTypes, StoresAreKeyed, P!RepairsAssumption
<1>3. servSeq' \in Nat /\ \A p \in serving : p.id <= servSeq'
  <2>1. \A p \in serving : p.id \in Nat
    BY <1>2 DEF P!Rows
  <2> QED BY <1>1, <1>2, <2>1, GreatestOf DEF P!Bigger
<1>4. RepairTypes'
  BY <1>1, <1>2, <1>3 DEF RepairTypes
<1>5. StoresAreKeyed' /\ P!OutcomesFollow' /\ P!LinksAreSound' /\ AdoptedStays' /\ FillInHand'
  <2>1. move'.research = move.research
    BY <1>1, <1>2 DEF RepairTypes
  <2> QED BY <1>1, <2>1 DEF RepairInv, StoresAreKeyed, P!OutcomesFollow, P!LinksAreSound,
                            AdoptedStays, FillInHand, P!FillAloneLands
<1>6. SequenceIsAhead'
  BY <1>1, <1>3 DEF SequenceIsAhead
<1>7. MoveInHand'
  <2>1. move'.at = "reset" /\ move'.serving = move.serving /\ move'.research = move.research
    BY <1>1, <1>2 DEF RepairTypes
  <2>2. \A p \in P!Moving(move.serving, move.research) : p \notin serving /\ \E q \in serving : q.key = p.key
    <3>1. CASE move.at = "applied"
      BY <3>1 DEF RepairInv, MoveInHand
    <3>2. CASE move.at = "planned" /\ move.moves = {}
      <4>1. P!PlanReassignment(move.serving, move.research) = {}
        BY <3>2 DEF RepairInv, MoveInHand
      <4>2. P!Moving(move.serving, move.research) = {}
        BY <4>1 DEF P!PlanReassignment
      <4> QED BY <4>2
    <3> QED BY <1>1, <3>1, <3>2
  <2>3. (P!Moving(move.serving, move.research))' = P!Moving(move.serving, move.research)
    BY <2>1 DEF P!Moving, P!Mismatched
  <2> QED BY <1>1, <2>1, <2>2, <2>3 DEF MoveInHand
<1> QED BY <1>4, <1>5, <1>6, <1>7 DEF RepairInv

\* What the plan makes of the ids of serving: those that move go to ids that were free,
\* each to its own, and those at or above the floor stay.
LEMMA MovedFacts ==
  ASSUME RepairInv, P!RepairsAssumption, move.at = "planned",
         {m.new : m \in move.moves} \cap P!Ids(serving) = {}
  PROVE  /\ \A p \in serving : P!Moved(p.id) \in Nat \ {0} /\ (p.id >= Floor => P!Moved(p.id) = p.id)
         /\ \A p, q \in serving : P!Moved(p.id) = P!Moved(q.id) => p = q
         /\ \A p \in P!Moving(move.serving, move.research) :
              p \in serving /\ p.id < Floor /\ \A q \in serving : P!Moved(q.id) # p.id
<1> DEFINE S == move.serving
           R == move.research
<1>1. /\ serving \subseteq P!Rows /\ IsFiniteSet(serving) /\ P!IdsAreUnique(serving)
      /\ S \subseteq serving /\ move.moves = P!PlanReassignment(S, R) /\ Floor \in Nat \ {0}
  BY DEF RepairInv, RepairTypes, StoresAreKeyed, MoveInHand, P!RepairsAssumption
<1>2. S \in SUBSET P!Rows /\ IsFiniteSet(S) /\ P!IdsAreUnique(S)
  BY <1>1, FS_Subset DEF P!IdsAreUnique
<1> DEFINE moves == move.moves
<1>3. /\ moves \subseteq [old : Nat, new : Nat]
      /\ \A m \in moves : m.old < Floor /\ m.new >= Floor /\ \E p \in P!Moving(S, R) : p.id = m.old
      /\ \A p \in P!Moving(S, R) : p \in S /\ p.id < Floor /\ \E m \in moves : m.old = p.id
      /\ \A m, n \in moves : (m.old = n.old \/ m.new = n.new) => m = n
  BY <1>1, <1>2, PlanFacts
<1>4. \A p \in serving : p.id \in Nat \ {0} /\ p.id \in P!Ids(serving)
  BY <1>1 DEF P!Rows, P!Ids
<1>5. \A m \in moves : m.new \notin P!Ids(serving)
  OBVIOUS
<1>6. \A m \in moves : P!Moved(m.old) = m.new
  <2> TAKE m \in moves
  <2>1. (CHOOSE n \in moves : n.old = m.old) \in moves /\ (CHOOSE n \in moves : n.old = m.old).old = m.old
    OBVIOUS
  <2>2. (CHOOSE n \in moves : n.old = m.old) = m
    BY <1>3, <2>1
  <2> QED BY <2>2 DEF P!Moved
<1>7. \A i : (\A m \in moves : m.old # i) => P!Moved(i) = i
  BY DEF P!Moved
<1>8. \A p \in serving : \/ P!Moved(p.id) = p.id /\ \A m \in moves : m.old # p.id
                         \/ \E m \in moves : m.old = p.id /\ P!Moved(p.id) = m.new
  BY <1>6, <1>7
<1> HIDE DEF moves, S, R
<1>9. \A p \in serving : P!Moved(p.id) \in Nat \ {0} /\ (p.id >= Floor => P!Moved(p.id) = p.id)
  <2> TAKE p \in serving
  <2>1. CASE P!Moved(p.id) = p.id
    BY <1>4, <2>1
  <2>2. CASE \E m \in moves : m.old = p.id /\ P!Moved(p.id) = m.new
    <3>1. PICK m \in moves : m.old = p.id /\ P!Moved(p.id) = m.new
      BY <2>2
    <3>2. m.new \in Nat /\ m.new >= Floor /\ m.old < Floor
      BY <1>3
    <3> QED BY <1>1, <1>4, <3>1, <3>2
  <2> QED BY <1>8, <2>1, <2>2
<1>10. ASSUME NEW p \in serving, NEW q \in serving, P!Moved(p.id) = P!Moved(q.id)
       PROVE  p = q
  <2>1. p.id = q.id
    <3>1. CASE (\A m \in moves : m.old # p.id) /\ (\A m \in moves : m.old # q.id)
      BY <1>7, <1>10, <3>1
    <3>2. CASE (\A m \in moves : m.old # p.id) /\ (\E m \in moves : m.old = q.id)
      BY <1>4, <1>5, <1>6, <1>7, <1>10, <3>2
    <3>3. CASE (\E m \in moves : m.old = p.id) /\ (\A m \in moves : m.old # q.id)
      BY <1>4, <1>5, <1>6, <1>7, <1>10, <3>3
    <3>4. CASE (\E m \in moves : m.old = p.id) /\ (\E m \in moves : m.old = q.id)
      <4>1. PICK m \in moves : m.old = p.id
        BY <3>4
      <4>2. PICK n \in moves : n.old = q.id
        BY <3>4
      <4>3. m = n
        BY <1>3, <1>6, <1>10, <4>1, <4>2
      <4> QED BY <4>1, <4>2, <4>3
    <3> QED BY <3>1, <3>2, <3>3, <3>4
  <2> QED BY <1>1, <2>1 DEF P!IdsAreUnique
<1>11. ASSUME NEW p \in P!Moving(S, R)
       PROVE  p \in serving /\ p.id < Floor /\ \A q \in serving : P!Moved(q.id) # p.id
  <2>1. p \in serving /\ p.id < Floor
    BY <1>1, <1>3 DEF S
  <2>2. PICK m \in moves : m.old = p.id
    BY <1>3
  <2>3. ASSUME NEW q \in serving, P!Moved(q.id) = p.id
        PROVE  FALSE
    <3>1. CASE P!Moved(q.id) = q.id /\ \A n \in moves : n.old # q.id
      BY <2>2, <2>3, <3>1
    <3>2. CASE \E n \in moves : n.old = q.id /\ P!Moved(q.id) = n.new
      <4>1. PICK n \in moves : P!Moved(q.id) = n.new
        BY <3>2
      <4>2. n.new \in Nat /\ n.new >= Floor
        BY <1>3
      <4> QED BY <1>1, <1>4, <2>1, <2>3, <4>1, <4>2
    <3> QED BY <1>8, <3>1, <3>2
  <2> QED BY <2>1, <2>3
<1> QED BY <1>9, <1>10, <1>11 DEF S, R

LEMMA MoveAppliesKeeps == ASSUME RepairInv, P!RepairsAssumption, P!MoveApplies PROVE RepairInv'
<1>1. /\ move.at = "planned"
      /\ UNCHANGED <<servSeq, research, resSeq, events, fill>>
  BY DEF P!MoveApplies
<1>2. CASE {m.new : m \in move.moves} \cap P!Ids(serving) # {}
  <2>1. move' = [at |-> "no", serving |-> {}, research |-> {}, moves |-> {}]
        /\ UNCHANGED <<serving, outcomes, owed, sound>>
    BY <1>2 DEF P!MoveApplies, P!Still
  <2>2. MoveInHand' /\ P!Adopted(move'.research, serving)
    BY <2>1 DEF MoveInHand, P!Adopted
  <2>3. SequenceIsAhead' /\ UNCHANGED <<P!stores, fill>>
    BY <1>1, <2>1 DEF RepairInv, SequenceIsAhead, P!stores
  <2> QED BY <2>1, <2>2, <2>3, StoresStand
<1>3. CASE {m.new : m \in move.moves} \cap P!Ids(serving) = {}
  <2> DEFINE moved(p) == [p EXCEPT !.id = P!Moved(p.id)]
  <2>1. /\ serving' = {moved(p) : p \in serving}
        /\ outcomes' = {[o EXCEPT !.pred = P!Moved(o.pred)] : o \in outcomes}
        /\ owed' = TRUE /\ sound' = FALSE /\ move' = [move EXCEPT !.at = "applied"]
    BY <1>3 DEF P!MoveApplies
  <2>2. /\ \A p \in serving : P!Moved(p.id) \in Nat \ {0} /\ (p.id >= Floor => P!Moved(p.id) = p.id)
        /\ \A p, q \in serving : P!Moved(p.id) = P!Moved(q.id) => p = q
        /\ \A p \in P!Moving(move.serving, move.research) :
             p \in serving /\ p.id < Floor /\ \A q \in serving : P!Moved(q.id) # p.id
    BY <1>1, <1>3, MovedFacts
  <2>3. /\ RepairTypes /\ StoresAreKeyed /\ serving \subseteq P!Rows
        /\ outcomes \subseteq [pred : Nat, key : P!Keys]
    BY DEF RepairInv, RepairTypes
  <2>4. \A p \in serving : /\ moved(p) \in P!Rows /\ moved(p).id = P!Moved(p.id) /\ moved(p).key = p.key
                           /\ moved(p) \in serving'
    BY <2>1, <2>2, <2>3 DEF P!Rows
  <2>5. IsFiniteSet(serving')
    <3> DEFINE f == [p \in serving |-> moved(p)]
    <3>1. f = [p \in serving |-> f[p]]
      OBVIOUS
    <3>2. serving' = {f[p] : p \in serving}
      BY <2>1
    <3> HIDE DEF f
    <3> QED BY <3>1, <3>2, <2>3, FiniteImage DEF RepairTypes
  <2>6. \A q \in serving' : \E p \in serving : q = moved(p)
    BY <2>1
  <2> HIDE DEF moved
  <2>7. \A o \in outcomes : \E p \in serving : p.id = o.pred /\ p.key = o.key
    BY DEF RepairInv, P!OutcomesFollow
  <2>8. \A o \in outcomes' : /\ o \in [pred : Nat, key : P!Keys]
                             /\ \E p \in serving' : p.id = o.pred /\ p.key = o.key
    <3> TAKE o \in outcomes'
    <3>1. PICK a \in outcomes : o = [a EXCEPT !.pred = P!Moved(a.pred)]
      BY <2>1
    <3>2. a \in [pred : Nat, key : P!Keys]
      BY <2>3
    <3>3. o.pred = P!Moved(a.pred) /\ o.key = a.key
      BY <3>1, <3>2
    <3>4. PICK p \in serving : p.id = a.pred /\ p.key = a.key
      BY <2>7
    <3>5. moved(p) \in serving' /\ moved(p).id = o.pred /\ moved(p).key = o.key
      BY <2>4, <3>3, <3>4
    <3>6. P!Moved(a.pred) \in Nat
      BY <2>2, <3>4
    <3> QED BY <3>1, <3>2, <3>5, <3>6
  <2>9. RepairTypes'
    <3>1. serving' \subseteq P!Rows
      BY <2>4, <2>6
    <3> QED BY <1>1, <2>1, <2>3, <2>5, <2>8, <3>1 DEF RepairTypes
  <2>10. StoresAreKeyed'
    <3>1. P!IdsAreUnique(serving')
      BY <2>2, <2>4, <2>6 DEF P!IdsAreUnique
    <3>2. P!KeysAreUnique(serving')
      BY <2>3, <2>4, <2>6 DEF StoresAreKeyed, P!KeysAreUnique
    <3> QED BY <1>1, <2>3, <3>1, <3>2 DEF StoresAreKeyed
  <2>11. \A Q : P!Adopted(Q, serving) => P!Adopted(Q, serving')
    <3> SUFFICES ASSUME NEW Q, P!Adopted(Q, serving), NEW r \in Q, r.id >= Floor
                 PROVE  \E p \in serving' : p.id = r.id /\ p.key = r.key
      BY DEF P!Adopted
    <3>1. PICK p \in serving : p.id = r.id /\ p.key = r.key
      BY DEF P!Adopted
    <3> QED BY <2>2, <2>4, <3>1
  <2>12. move'.at = "applied" /\ move'.serving = move.serving /\ move'.research = move.research
    BY <2>1, <2>3 DEF RepairTypes
  <2>13. AdoptedStays'
    BY <1>1, <2>11, <2>12 DEF RepairInv, AdoptedStays
  <2>14. MoveInHand'
    <3>1. (P!Moving(move.serving, move.research))' = P!Moving(move.serving, move.research)
      BY <2>12 DEF P!Moving, P!Mismatched
    <3>2. ASSUME NEW p \in P!Moving(move.serving, move.research)
          PROVE  p \notin serving' /\ \E q \in serving' : q.key = p.key
      <4>1. p \notin serving'
        BY <2>2, <2>4, <2>6
      <4> QED BY <2>2, <2>4, <4>1
    <3> QED BY <2>12, <3>1, <3>2 DEF MoveInHand
  <2>15. SequenceIsAhead' /\ P!OutcomesFollow' /\ FillInHand' /\ P!LinksAreSound'
    BY <1>1, <2>1, <2>8 DEF RepairInv, SequenceIsAhead, P!OutcomesFollow, FillInHand,
                                P!FillAloneLands, P!LinksAreSound
  <2> QED BY <2>9, <2>10, <2>13, <2>14, <2>15 DEF RepairInv
<1> QED BY <1>2, <1>3

\* The steps that leave both stores and the move alone.
LEMMA OnlyTheFill ==
  ASSUME RepairInv, UNCHANGED <<P!stores, move, owed, sound>>, FillInHand',
         fill' \in [at : {"no", "planned", "undone"}, plan : SUBSET P!Rows, seen : SUBSET P!Rows]
  PROVE  RepairInv'
<1>1. UNCHANGED <<serving, outcomes, servSeq, research, resSeq, events>>
  BY DEF P!stores
<1>2. /\ RepairTypes' /\ StoresAreKeyed' /\ SequenceIsAhead' /\ AdoptedStays'
      /\ P!OutcomesFollow' /\ P!LinksAreSound'
  BY <1>1 DEF RepairInv, RepairTypes, StoresAreKeyed, P!OutcomesFollow, P!LinksAreSound, SequenceIsAhead,
              AdoptedStays
<1>3. MoveInHand'
  BY <1>1 DEF RepairInv, MoveInHand
<1> QED BY <1>2, <1>3 DEF RepairInv

LEMMA FillReadsKeeps == ASSUME RepairInv, P!FillReads PROVE RepairInv'
<1> DEFINE links == P!Resolved(P!ReadUnresolved)
           plan == {p \in links : p.event # 0}
<1>1. fill' = [at |-> "planned", plan |-> plan, seen |-> research]
      /\ UNCHANGED <<P!stores, move, owed, sound>>
  BY DEF P!FillReads
<1>2. research \subseteq P!Rows /\ P!IdsAreUnique(research) /\ P!Minted(events)
  BY DEF RepairInv, RepairTypes, StoresAreKeyed
<1>3. /\ P!ReadUnresolved \in SUBSET P!Rows /\ P!ReadUnresolved \subseteq research
      /\ P!IdsAreUnique(P!ReadUnresolved)
  BY <1>2 DEF P!ReadUnresolved, P!IdsAreUnique
<1>4. /\ \A q \in links : /\ q \in P!Rows /\ \E r \in P!ReadUnresolved : q.id = r.id /\ q.key = r.key
                          /\ q.event # 0 => /\ q.event \notin P!Owned
                                            /\ \E e \in events : e.id = q.event /\ e.slot = q.key.slot
      /\ \A q \in links : q.event # 0 => \A p \in links : p.event = q.event => p = q
  BY <1>2, <1>3, ResolvedFacts
<1> HIDE DEF links
<1>5. \A q \in plan :
        /\ q \in P!Rows /\ q.event # 0
        /\ \E r \in research : r.id = q.id /\ r.key = q.key
        /\ \E e \in events : e.id = q.event /\ e.slot = q.key.slot
        /\ \A r \in research : r.event # q.event
        /\ \A p \in plan : p.event = q.event => p = q
  <2> TAKE q \in plan
  <2>1. q \in links /\ q.event # 0
    OBVIOUS
  <2>2. \A r \in research : r.event # q.event
    BY <1>4, <2>1 DEF P!Owned
  <2>3. \A p \in plan : p.event = q.event => p = q
    BY <1>4, <2>1
  <2> QED BY <1>3, <1>4, <2>1, <2>2, <2>3
<1> HIDE DEF plan
<1>6. FillInHand'
  <2>1. fill'.at = "planned" /\ fill'.plan = plan /\ fill'.seen = research /\ UNCHANGED <<research, events>>
    BY <1>1 DEF P!stores
  <2> QED BY <1>5, <2>1 DEF FillInHand, P!FillAloneLands
<1> QED BY <1>1, <1>2, <1>5, <1>6, OnlyTheFill

LEMMA FillEndsKeeps == ASSUME RepairInv, P!FillEnds \/ P!FillDies PROVE RepairInv'
<1>1. fill' = [at |-> "no", plan |-> {}, seen |-> {}] /\ UNCHANGED <<P!stores, move, owed, sound>>
  BY DEF P!FillEnds, P!FillDies, P!Idle
<1>2. FillInHand'
  BY <1>1 DEF FillInHand, P!FillAloneLands
<1> QED BY <1>1, <1>2, OnlyTheFill

\* What a fill writes: rows that had no link get a sound one, and on what was read no
\* event twice.
LEMMA FilledFacts ==
  ASSUME RepairInv
  PROVE  /\ IsFiniteSet(P!AfterFill)
         /\ \A p \in research : \E q \in P!AfterFill : q.id = p.id /\ q.key = p.key /\ (p.event # 0 => q = p)
         /\ \A q \in P!AfterFill : \E p \in research :
              /\ q \in P!Rows /\ q.id = p.id /\ q.key = p.key
              /\ \/ q = p
                 \/ p.event = 0 /\ \E l \in fill.plan : l.id = p.id /\ l.event = q.event
         /\ P!IdsAreUnique(P!AfterFill)
         /\ \A q \in P!AfterFill : q.event # 0 => \E e \in events : e.id = q.event /\ e.slot = q.key.slot
         /\ research = fill.seen =>
              \A q \in P!AfterFill : q.event # 0 => \A p \in P!AfterFill : p.event = q.event => p = q
<1> DEFINE new(p) == IF P!Filled(p) = {} THEN p
                     ELSE [p EXCEPT !.event = (CHOOSE q \in P!Filled(p) : TRUE).event]
<1>1. /\ research \subseteq P!Rows /\ IsFiniteSet(research) /\ P!IdsAreUnique(research)
      /\ fill.plan \subseteq P!Rows /\ FillInHand /\ P!Linked(research, events)
  BY DEF RepairInv, RepairTypes, StoresAreKeyed, P!LinksAreSound
<1>2. \A p \in research :
        /\ new(p) \in P!Rows /\ new(p).id = p.id /\ new(p).key = p.key
        /\ p.event # 0 => new(p) = p
        /\ \/ new(p) = p
           \/ p.event = 0 /\ \E l \in fill.plan : l.id = p.id /\ l.event = new(p).event
  <2> TAKE p \in research
  <2>1. CASE P!Filled(p) = {}
    BY <1>1, <2>1
  <2>2. CASE P!Filled(p) # {}
    <3>1. PICK l \in fill.plan : l.id = p.id /\ p.event = 0 /\ l = (CHOOSE q \in P!Filled(p) : TRUE)
      <4>1. (CHOOSE q \in P!Filled(p) : TRUE) \in P!Filled(p)
        BY <2>2
      <4> QED BY <4>1 DEF P!Filled
    <3>2. new(p) = [p EXCEPT !.event = l.event]
      BY <2>2, <3>1
    <3> QED BY <1>1, <3>1, <3>2 DEF P!Rows
  <2> QED BY <2>1, <2>2
<1>3. P!AfterFill = {new(p) : p \in research}
  BY DEF P!AfterFill
<1> HIDE DEF new
<1>4. IsFiniteSet(P!AfterFill)
  <2> DEFINE f == [p \in research |-> new(p)]
  <2>1. f = [p \in research |-> f[p]]
    OBVIOUS
  <2>2. P!AfterFill = {f[p] : p \in research}
    BY <1>3
  <2> HIDE DEF f
  <2> QED BY <1>1, <2>1, <2>2, FiniteImage
<1>5. \A p \in research : \E q \in P!AfterFill : q.id = p.id /\ q.key = p.key /\ (p.event # 0 => q = p)
  BY <1>2, <1>3
<1>6. \A q \in P!AfterFill : \E p \in research : q = new(p)
  BY <1>3
<1>7. P!IdsAreUnique(P!AfterFill)
  BY <1>1, <1>2, <1>6 DEF P!IdsAreUnique
<1>8. ASSUME NEW q \in P!AfterFill, q.event # 0
      PROVE  \E e \in events : e.id = q.event /\ e.slot = q.key.slot
  <2>1. PICK p \in research : q = new(p)
    BY <1>6
  <2>2. CASE q = p
    BY <1>1, <1>8, <2>2 DEF P!Linked
  <2>3. CASE \E l \in fill.plan : l.id = p.id /\ l.event = q.event
    <3>1. PICK l \in fill.plan : l.id = p.id /\ l.event = q.event
      BY <2>3
    <3>2. PICK r \in research : r.id = l.id /\ r.key = l.key
      BY <1>1 DEF FillInHand
    <3>3. r = p
      BY <1>1, <3>1, <3>2 DEF P!IdsAreUnique
    <3>4. l.key = q.key
      BY <1>2, <2>1, <3>2, <3>3
    <3> QED BY <1>1, <3>1, <3>4 DEF FillInHand
  <2> QED BY <1>2, <2>1, <2>2, <2>3
<1>9. ASSUME research = fill.seen, NEW q \in P!AfterFill, q.event # 0, NEW p \in P!AfterFill, p.event = q.event
      PROVE  p = q
  <2>1. PICK a \in research : p = new(a)
    BY <1>6
  <2>2. PICK b \in research : q = new(b)
    BY <1>6
  <2>3. CASE p = a /\ q = b
    BY <1>1, <1>9, <2>3 DEF P!Linked
  <2>4. CASE p = a /\ \E l \in fill.plan : l.id = b.id /\ l.event = q.event
    BY <1>1, <1>9, <2>4 DEF FillInHand
  <2>5. CASE q = b /\ \E l \in fill.plan : l.id = a.id /\ l.event = p.event
    BY <1>1, <1>9, <2>5 DEF FillInHand
  <2>6. CASE (\E l \in fill.plan : l.id = a.id /\ l.event = p.event)
             /\ \E l \in fill.plan : l.id = b.id /\ l.event = q.event
    <3>1. PICK l \in fill.plan : l.id = a.id /\ l.event = p.event
      BY <2>6
    <3>2. PICK m \in fill.plan : m.id = b.id /\ m.event = q.event
      BY <2>6
    <3>3. l = m
      BY <1>1, <1>9, <3>1, <3>2 DEF FillInHand
    <3>4. a = b
      BY <1>1, <3>1, <3>2, <3>3 DEF P!IdsAreUnique
    <3> QED BY <2>1, <2>2, <3>4
  <2> QED BY <1>2, <2>1, <2>2, <2>3, <2>4, <2>5, <2>6
<1>10. \A q \in P!AfterFill : \E p \in research :
              /\ q \in P!Rows /\ q.id = p.id /\ q.key = p.key
              /\ \/ q = p
                 \/ p.event = 0 /\ \E l \in fill.plan : l.id = p.id /\ l.event = q.event
  <2> TAKE q \in P!AfterFill
  <2>1. PICK p \in research : q = new(p)
    BY <1>6
  <2> QED BY <1>2, <2>1
<1> QED BY <1>4, <1>5, <1>7, <1>8, <1>9, <1>10

LEMMA FillAppliesKeeps == ASSUME RepairInv, P!FillApplies PROVE RepairInv'
<1> DEFINE owners(e) == {p \in P!AfterFill : p.event = e}
           shared == \E p \in P!AfterFill : p.event # 0 /\ Cardinality(owners(p.event)) > 1
<1>1. /\ fill.at = "planned"
      /\ IF shared THEN fill' = [fill EXCEPT !.at = "undone"] /\ UNCHANGED research
                   ELSE fill' = P!Idle /\ research' = P!AfterFill
      /\ UNCHANGED <<serving, outcomes, servSeq, resSeq, events, move, owed, sound>>
  BY DEF P!FillApplies, P!Cardinality, Cardinality
<1>2. /\ IsFiniteSet(P!AfterFill)
      /\ \A p \in research : \E q \in P!AfterFill : q.id = p.id /\ q.key = p.key /\ (p.event # 0 => q = p)
      /\ \A q \in P!AfterFill : \E p \in research : q \in P!Rows /\ q.id = p.id /\ q.key = p.key
      /\ P!IdsAreUnique(P!AfterFill)
      /\ \A q \in P!AfterFill : q.event # 0 => \E e \in events : e.id = q.event /\ e.slot = q.key.slot
      /\ research = fill.seen =>
           \A q \in P!AfterFill : q.event # 0 => \A p \in P!AfterFill : p.event = q.event => p = q
  BY FilledFacts
<1>3. \A e : IsFiniteSet(owners(e)) /\ Cardinality(owners(e)) \in Nat
  <2> TAKE e
  <2>1. owners(e) \in SUBSET P!AfterFill
    OBVIOUS
  <2>2. IsFiniteSet(owners(e))
    <3> HIDE DEF owners
    <3> QED BY <1>2, <2>1, FS_Subset
  <2> QED BY <2>2, FS_CardinalityType
<1>4. CASE shared
  <2>1. research # fill.seen
    <3> SUFFICES ASSUME research = fill.seen PROVE FALSE
      OBVIOUS
    <3>1. PICK p \in P!AfterFill : p.event # 0 /\ Cardinality(owners(p.event)) > 1
      BY <1>4
    <3>2. owners(p.event) = {p}
      BY <1>2, <3>1
    <3>3. Cardinality(owners(p.event)) = 1
      <4> HIDE DEF owners
      <4> QED BY <3>2, FS_Singleton
    <3> HIDE DEF owners
    <3> QED BY <3>1, <3>3
  <2>2. fill \in [at : {"no", "planned", "undone"}, plan : SUBSET P!Rows, seen : SUBSET P!Rows]
    BY DEF RepairInv, RepairTypes
  <2>3. fill' = [fill EXCEPT !.at = "undone"] /\ UNCHANGED <<P!stores, move, owed, sound>>
    <3> HIDE DEF shared
    <3> QED BY <1>1, <1>4 DEF P!stores
  <2>4. fill'.at = "undone" /\ fill'.plan = fill.plan /\ fill'.seen = fill.seen
        /\ fill' \in [at : {"no", "planned", "undone"}, plan : SUBSET P!Rows, seen : SUBSET P!Rows]
    BY <2>2, <2>3
  <2>5. FillInHand'
    <3>1. UNCHANGED <<research, events>>
      BY <2>3 DEF P!stores
    <3> QED BY <2>1, <2>4, <3>1 DEF RepairInv, FillInHand, P!FillAloneLands
  <2> QED BY <2>3, <2>4, <2>5, OnlyTheFill
<1>5. CASE ~ shared
  <2>1. fill' = P!Idle /\ research' = P!AfterFill
    <3> HIDE DEF shared
    <3> QED BY <1>1, <1>5
  <2>2. \A q \in P!AfterFill : q.event # 0 => \A p \in P!AfterFill : p.event = q.event => p = q
    <3> SUFFICES ASSUME NEW q \in P!AfterFill, q.event # 0, NEW p \in P!AfterFill, p.event = q.event PROVE p = q
      OBVIOUS
    <3>1. ~ (Cardinality(owners(q.event)) > 1)
      BY <1>5
    <3>2. p \in owners(q.event) /\ q \in owners(q.event)
      OBVIOUS
    <3> HIDE DEF owners
    <3>3. Cardinality(owners(q.event)) # 0
      BY <1>3, <3>2, FS_EmptySet
    <3>4. Cardinality(owners(q.event)) = 1
      BY <1>3, <3>1, <3>3
    <3>5. PICK x : owners(q.event) = {x}
      BY <1>3, <3>4, FS_Singleton
    <3> QED BY <3>2, <3>5
  <2>3. RepairTypes'
    <3>1. research' \subseteq P!Rows /\ IsFiniteSet(research')
      BY <1>2, <2>1
    <3> QED BY <1>1, <2>1, <3>1 DEF RepairInv, RepairTypes, P!Idle
  <2>4. StoresAreKeyed'
    <3>1. \A p \in research' : p.id < Floor => p.id <= resSeq'
      BY <1>1, <1>2, <2>1 DEF RepairInv, StoresAreKeyed
    <3> QED BY <1>1, <1>2, <2>1, <3>1 DEF RepairInv, StoresAreKeyed
  <2>5. SequenceIsAhead' /\ P!OutcomesFollow'
    BY <1>1 DEF RepairInv, SequenceIsAhead, P!OutcomesFollow
  <2>6. AdoptedStays'
    BY <1>1, <1>2, <2>1 DEF RepairInv, AdoptedStays, P!Adopted
  <2>7. MoveInHand'
    BY <1>1 DEF RepairInv, MoveInHand
  <2>8. FillInHand'
    BY <2>1 DEF FillInHand, P!FillAloneLands, P!Idle
  <2>9. P!LinksAreSound'
    BY <1>1, <1>2, <2>1, <2>2 DEF P!LinksAreSound, P!Linked
  <2> QED BY <2>3, <2>4, <2>5, <2>6, <2>7, <2>8, <2>9 DEF RepairInv
<1> QED BY <1>4, <1>5

LEMMA RepairsStep == ASSUME P!RepairsAssumption, RepairInv, [P!Next]_(P!vars) PROVE RepairInv'
<1>1. ASSUME NEW key \in P!Keys, P!PiScores(key) \/ P!Settle(key) PROVE RepairInv'
  BY <1>1, PiScoresKeeps, SettleKeeps
<1>2. ASSUME NEW p \in serving, P!Mature(p) PROVE RepairInv'
  BY <1>2, MatureKeeps
<1>3. ASSUME NEW e \in events, P!ResearchScores(e) PROVE RepairInv'
  BY <1>3, ResearchScoresKeeps
<1>4. CASE P!Pull \/ P!LinkBySlot \/ P!PollerLaunches
  BY <1>4, PullKeeps, LinkBySlotKeeps, LaunchKeeps
<1>5. CASE P!MoveReads \/ P!MovePlans \/ P!MoveEnds \/ P!MoveDies \/ P!MoveApplies \/ P!MoveResets
  BY <1>5, MoveReadsKeeps, MoveAppliesKeeps, MoveResetsKeeps
<1>6. CASE P!FillReads \/ P!FillApplies \/ P!FillEnds \/ P!FillDies
  BY <1>6, FillReadsKeeps, FillAppliesKeeps, FillEndsKeeps
<1>7. CASE UNCHANGED P!vars
  <2>1. UNCHANGED <<P!stores, fill, move, owed, sound>>
    BY <1>7 DEF P!vars, P!stores
  <2>2. SequenceIsAhead' /\ MoveInHand' /\ P!Adopted(move'.research, serving)
    BY <2>1 DEF RepairInv, SequenceIsAhead, MoveInHand, AdoptedStays, P!stores
  <2> QED BY <2>1, <2>2, StoresStand DEF RepairInv, RepairTypes
<1> QED BY <1>1, <1>2, <1>3, <1>4, <1>5, <1>6, <1>7 DEF P!Next

-----------------------------------------------------------------------------
(* What follows.                                                           *)

LEMMA ReuseIsOver == ASSUME RepairInv, P!RepairsAssumption PROVE P!ReuseIsRepaired
<1> SUFFICES ASSUME move.at = "reset", {p \in serving : p.id < Floor} \subseteq move.serving,
                    NEW q \in serving, NEW r \in move.research, r.id = q.id, r.key # q.key
             PROVE  FALSE
  BY DEF P!ReuseIsRepaired, P!Mismatched
<1>1. q.id \in Nat /\ P!IdsAreUnique(serving) /\ P!Adopted(move.research, serving)
  BY DEF RepairInv, RepairTypes, StoresAreKeyed, AdoptedStays, P!Rows
<1>2. CASE q.id < Floor
  <2>1. q \in move.serving
    BY <1>2
  <2>2. q.id \in P!Mismatched(move.serving, move.research)
    BY <2>1 DEF P!Mismatched
  <2>3. q \in P!Moving(move.serving, move.research)
    BY <1>2, <2>1, <2>2 DEF P!Moving
  <2> QED BY <2>3 DEF RepairInv, MoveInHand
<1>3. CASE q.id >= Floor
  <2>1. PICK p \in serving : p.id = r.id /\ p.key = r.key
    BY <1>1, <1>3 DEF P!Adopted
  <2> QED BY <1>1, <2>1 DEF P!IdsAreUnique
<1>4. q.id < Floor \/ q.id >= Floor
  BY <1>1 DEF P!RepairsAssumption
<1> QED BY <1>1, <1>2, <1>3, <1>4

LEMMA RoomIsFound == ASSUME RepairInv, P!RepairsAssumption, [P!Next]_(P!vars) PROVE P!InsertsFindRoom
<1>1. ~owed \/ sound => \A p \in serving : p.id <= servSeq /\ p.id \in Nat /\ servSeq \in Nat
  BY DEF RepairInv, SequenceIsAhead, RepairTypes, P!Rows
<1>2. ASSUME lost', ~lost PROVE owed /\ ~sound
  <2>1. PICK key \in P!Keys : P!PiScores(key)
    BY <1>2 DEF P!Next, P!vars, P!PiScores, P!Mature, P!Settle, P!ResearchScores, P!Pull,
                P!LinkBySlot, P!PollerLaunches, P!MoveReads, P!MovePlans, P!MoveApplies, P!MoveResets,
                P!MoveEnds, P!MoveDies, P!FillReads, P!FillApplies, P!FillEnds, P!FillDies
  <2>2. PICK p \in serving : p.id = servSeq + 1
    BY <1>2, <2>1 DEF P!PiScores, P!Ids
  <2>3. ~ (~owed \/ sound)
    BY <1>1, <2>2
  <2> QED BY <2>3 DEF RepairInv, RepairTypes
<1>3. ASSUME P!SequenceBehind PROVE owed
  <2>1. serving # {} /\ servSeq < P!Greatest(P!Ids(serving)) /\ P!Ids(serving) # {}
    BY <1>3 DEF P!SequenceBehind, P!Ids
  <2>2. serving \in SUBSET P!Rows /\ IsFiniteSet(serving)
    BY DEF RepairInv, RepairTypes
  <2>3. IsFiniteSet(P!Ids(serving)) /\ P!Ids(serving) \in SUBSET Nat
    BY <2>2, GreatestOf DEF P!Ids, P!Rows
  <2>4. P!Greatest(P!Ids(serving)) \in P!Ids(serving)
    BY <2>1, <2>3, FiniteMax DEF P!Greatest
  <2>5. PICK p \in serving : p.id = P!Greatest(P!Ids(serving))
    BY <2>4 DEF P!Ids
  <2>6. ~ (p.id <= servSeq) \/ ~ (p.id \in Nat /\ servSeq \in Nat)
    BY <2>1, <2>5
  <2> QED BY <1>1, <2>6
<1> QED BY <1>2, <1>3 DEF P!InsertsFindRoom

LEMMA NothingLost == ASSUME RepairInv, P!RepairsAssumption, [P!Next]_(P!vars) PROVE P!NothingIsUndone
<1>1. research \subseteq P!Rows /\ serving \subseteq P!Rows
  BY DEF RepairInv, RepairTypes
<1>2. CASE P!MoveApplies
  <2>1. research' = research
    BY <1>2 DEF P!MoveApplies
  <2>2. \A p \in serving : \E q \in serving' : q.key = p.key
    <3>1. CASE serving' = serving
      BY <3>1
    <3>2. CASE serving' = {[p EXCEPT !.id = P!Moved(@)] : p \in serving}
      <4>1. \A p \in serving : [p EXCEPT !.id = P!Moved(@)].key = p.key
        BY <1>1 DEF P!Rows
      <4> QED BY <3>2, <4>1
    <3> QED BY <1>2, <3>1, <3>2 DEF P!MoveApplies
  <2> QED BY <2>1, <2>2 DEF P!NothingIsUndone
<1>3. CASE P!FillApplies
  <2>1. serving' = serving /\ (research' = research \/ research' = P!AfterFill)
    BY <1>3 DEF P!FillApplies
  <2>2. \A p \in research : \E q \in P!AfterFill : p.event # 0 => q = p
    BY FilledFacts
  <2> QED BY <2>1, <2>2 DEF P!NothingIsUndone
<1>4. CASE ~ P!MoveApplies /\ ~ P!FillApplies
  <2>1. serving \subseteq serving' /\ research \subseteq research'
    BY <1>4 DEF P!Next, P!vars, P!stores, P!PiScores, P!Mature, P!Settle, P!ResearchScores,
                P!Pull, P!LinkBySlot, P!PollerLaunches, P!MoveReads, P!MovePlans, P!MoveResets,
                P!MoveEnds, P!MoveDies, P!FillReads, P!FillEnds, P!FillDies
  <2> QED BY <2>1 DEF P!NothingIsUndone
<1> QED BY <1>2, <1>3, <1>4

\* Whatever the Pi, research and the pull do between the steps of the two repairs, and
\* wherever a repair dies: outcomes keep their signal, links are sound and stay, nothing
\* scored is lost, a repair of the ids that ends leaves no id with two signals, one of the
\* links fails only when another wrote, and an insert finds its id free unless a repair
\* has moved rows and none has ended, which the poller's preflight sees.
THEOREM RepairsAreHarmless ==
  ASSUME P!RepairsAssumption
  PROVE  P!Spec => /\ [](P!OutcomesFollow /\ P!ReuseIsRepaired /\ P!LinksAreSound /\ P!FillAloneLands)
                 /\ [][P!NothingIsUndone /\ P!InsertsFindRoom]_(P!vars)
<1>1. P!Init => RepairInv
  BY RepairsInit
<1>2. RepairInv /\ [P!Next]_(P!vars) => RepairInv'
  BY RepairsStep
<1>3. RepairInv => P!OutcomesFollow /\ P!ReuseIsRepaired /\ P!LinksAreSound /\ P!FillAloneLands
  BY ReuseIsOver DEF RepairInv, FillInHand
<1>4. RepairInv /\ [P!Next]_(P!vars) => [P!NothingIsUndone /\ P!InsertsFindRoom]_(P!vars)
  BY RoomIsFound, NothingLost
<1> QED BY <1>1, <1>2, <1>3, <1>4, PTL DEF P!Spec

-----------------------------------------------------------------------------
(* The paths and their labels: the inductive invariant.                    *)

PathTypes ==
  /\ today \in 1..LastDay /\ bars \in [1..LastDay -> {0} \cup Prices]
  /\ entryKind \in {"touch", "next_open"} /\ scope \in BOOLEAN
  /\ entry \in {0} \cup Prices
  /\ path \in [1..L!Window -> Int] /\ seen \in {L!Null} \cup 0..L!Window
  /\ pathStep \in {"done", "capture", "labels", "fill"}
  /\ edited \in BOOLEAN /\ fresh \in BOOLEAN /\ rewritten \in BOOLEAN

\* An entry is a price of the signal's day or of the first bar after it.
EntryFollows ==
  /\ entryKind = "touch" => entry # 0
  /\ entryKind = "next_open" /\ entry # 0 => L!Filed(1) # {}

\* A window that was captured is of an event with an entry and its bar, and one that
\* is full and not edited since is what the bars say.
WindowsAreWhole ==
  /\ seen # L!Null => scope /\ entry # 0 /\ bars[1] # 0
  /\ seen = L!Window /\ ~edited => L!Window <= Cardinality(L!Filed(1)) /\ path = L!NewPath
  /\ L!CapturedIsBackfilled

\* A peak was taken from rows, and rows stay.
PeaksHaveRows ==
  /\ (\E h \in Horizons : peak[h] # L!Null) => \E i \in 1..L!Window : path[i] # L!Null
  /\ L!PeakIsReference

\* The first m returns after the entry.
Returns(m) == [i \in 1..m |-> bars[L!Nth(L!Filed(1), L!EntryOffset + i)] - entry]

\* What a backtest stored is of the first bars after the entry, of as many as there
\* were or the position spans, and as long as none of them changed it is so still.
LabelsOf(m) ==
  /\ entry # 0
  /\ fresh => m = MaxHold
  /\ fresh \/ ~rewritten =>
       /\ L!EntryOffset + m <= Cardinality(L!Filed(1))
       /\ stored = L!Metrics(Returns(m))

LabelsAreOfBars ==
  \/ stored = L!Unresolved /\ ~fresh
  \/ \E m \in 1..MaxHold : LabelsOf(m)

PathsInv ==
  PathTypes /\ EntryFollows /\ WindowsAreWhole /\ PeaksHaveRows /\ LabelsAreOfBars

-----------------------------------------------------------------------------
(* Lemmas about the n-th bar.                                              *)

\* The days up to one of a set count it, and those of two days count differently.
LEMMA RankFacts ==
  ASSUME NEW S \in SUBSET Nat, IsFiniteSet(S)
  PROVE  /\ \A d \in S : L!Rank(S, d) \in 1..Cardinality(S)
         /\ \A c, d \in S : L!Rank(S, c) = L!Rank(S, d) => c = d
<1> DEFINE upto(c) == {e \in S : e <= c}
<1>1. \A c \in S : /\ IsFiniteSet(upto(c)) /\ Cardinality(upto(c)) \in 1..Cardinality(S)
                   /\ L!Rank(S, c) = Cardinality(upto(c))
  <2> TAKE c \in S
  <2>0. c \in S /\ c \in Nat
    OBVIOUS
  <2>1. upto(c) \in SUBSET S /\ c \in upto(c)
    BY <2>0
  <2>2. IsFiniteSet(upto(c)) /\ Cardinality(upto(c)) <= Cardinality(S)
    BY <2>1, FS_Subset
  <2>3. Cardinality(upto(c)) \in Nat /\ Cardinality(upto(c)) # 0 /\ Cardinality(S) \in Nat
    <3> HIDE DEF upto
    <3> QED BY <2>1, <2>2, FS_CardinalityType, FS_EmptySet
  <2>4. L!Rank(S, c) = Cardinality(upto(c))
    BY DEF L!Rank, L!Cardinality, Cardinality
  <2> HIDE DEF upto
  <2> QED BY <2>2, <2>3, <2>4
<1>2. \A b, c \in S : b < c => L!Rank(S, b) # L!Rank(S, c)
  <2> SUFFICES ASSUME NEW b \in S, NEW c \in S, b < c PROVE L!Rank(S, b) # L!Rank(S, c)
    OBVIOUS
  <2>1. b \in Nat /\ c \in Nat /\ \A e \in S : e \in Nat
    OBVIOUS
  <2>2. upto(b) \in SUBSET upto(c)
    <3>1. \A e \in S : e <= b => e <= c
      BY <2>1
    <3> QED BY <3>1
  <2>3. c \in upto(c) /\ c \notin upto(b)
    BY <2>1
  <2> HIDE DEF upto
  <2> QED BY <2>2, <2>3, <1>1, FS_Subset
<1>3. \A c \in S : c \in Nat
  OBVIOUS
<1>4. \A d \in S : L!Rank(S, d) \in 1..Cardinality(S)
  BY <1>1
<1>5. \A c, d \in S : L!Rank(S, c) = L!Rank(S, d) => c = d
  BY <1>2, <1>3
<1> QED BY <1>4, <1>5

\* The n-th day of a set is one of them, and there is no other.
LEMMA NthFacts ==
  ASSUME NEW S \in SUBSET Nat, IsFiniteSet(S)
  PROVE  \A n \in 1..Cardinality(S) :
           /\ L!Nth(S, n) \in S /\ L!Rank(S, L!Nth(S, n)) = n
           /\ \A d \in S : L!Rank(S, d) = n => d = L!Nth(S, n)
<1> SUFFICES ASSUME NEW n \in 1..Cardinality(S)
             PROVE  /\ L!Nth(S, n) \in S /\ L!Rank(S, L!Nth(S, n)) = n
                    /\ \A d \in S : L!Rank(S, d) = n => d = L!Nth(S, n)
  OBVIOUS
<1> DEFINE rank == [d \in S |-> L!Rank(S, d)]
           ranks == {rank[d] : d \in S}
<1>1. Cardinality(S) \in Nat
  BY FS_CardinalityType
<1>2. /\ \A d \in S : rank[d] \in 1..Cardinality(S)
      /\ \A c, d \in S : rank[c] = rank[d] => c = d
  BY RankFacts
<1>3. rank \in Bijection(S, ranks)
  <2>1. rank \in [S -> ranks] /\ \A x \in ranks : \E d \in S : rank[d] = x
    OBVIOUS
  <2> HIDE DEF rank, ranks
  <2> QED BY <2>1, <1>2 DEF Bijection, Injection, Surjection, IsInjective
<1>4. Cardinality(ranks) = Cardinality(S)
  <2> HIDE DEF rank, ranks
  <2> QED BY <1>3, FS_Bijection DEF ExistsBijection
<1>5. IsFiniteSet(1..Cardinality(S)) /\ Cardinality(1..Cardinality(S)) = Cardinality(S)
  BY <1>1, FS_Interval
<1>6. ranks \in SUBSET (1..Cardinality(S))
  <2> HIDE DEF rank
  <2> QED BY <1>2
<1>7. ranks = 1..Cardinality(S)
  <2> HIDE DEF ranks
  <2> QED BY <1>4, <1>5, <1>6, FS_Subset
<1>8. PICK d \in S : rank[d] = n
  BY <1>7
<1>9. L!Rank(S, d) = n
  BY <1>8
<1> HIDE DEF rank, ranks
<1>10. L!Nth(S, n) \in S /\ L!Rank(S, L!Nth(S, n)) = n
  BY <1>9 DEF L!Nth
<1>11. \A b, c \in S : L!Rank(S, b) = L!Rank(S, c) => b = c
  BY RankFacts
<1> QED BY <1>10, <1>11

\* Later days do not move the earlier ones.
LEMMA NthOfPrefix ==
  ASSUME NEW T \in SUBSET Nat, IsFiniteSet(T), NEW S \in SUBSET T, \A s \in S, t \in T \ S : s < t
  PROVE  /\ IsFiniteSet(S) /\ Cardinality(S) <= Cardinality(T) /\ Cardinality(S) \in Nat
         /\ Cardinality(T) \in Nat
         /\ \A n \in 1..Cardinality(S) : L!Nth(T, n) = L!Nth(S, n) /\ L!Nth(S, n) \in S
<1>1. IsFiniteSet(S) /\ Cardinality(S) <= Cardinality(T) /\ Cardinality(S) \in Nat /\ Cardinality(T) \in Nat
  BY FS_Subset, FS_CardinalityType
<1>2. S \in SUBSET Nat
  OBVIOUS
<1>3. \A d \in S : L!Rank(S, d) = L!Rank(T, d)
  <2> TAKE d \in S
  <2>1. \A e \in T : e <= d => e \in S
    <3> SUFFICES ASSUME NEW e \in T, e <= d, e \notin S PROVE FALSE
      OBVIOUS
    <3>1. d < e /\ d \in Nat /\ e \in Nat
      OBVIOUS
    <3> QED BY <3>1
  <2>2. {e \in S : e <= d} = {e \in T : e <= d}
    BY <2>1
  <2> QED BY <2>2 DEF L!Rank
<1>4. ASSUME NEW n \in 1..Cardinality(S) PROVE L!Nth(T, n) = L!Nth(S, n) /\ L!Nth(S, n) \in S
  <2>1. L!Nth(S, n) \in S /\ L!Rank(S, L!Nth(S, n)) = n
    BY <1>1, <1>2, NthFacts
  <2>2. L!Nth(S, n) \in T /\ L!Rank(T, L!Nth(S, n)) = n
    BY <2>1, <1>3
  <2>3. n \in 1..Cardinality(T)
    BY <1>1
  <2>4. \A d \in T : L!Rank(T, d) = n => d = L!Nth(T, n)
    BY <2>3, NthFacts
  <2> QED BY <2>1, <2>2, <2>4
<1> QED BY <1>1, <1>4

\* Without its first day a set's days move up by one.
LEMMA NthOfRest ==
  ASSUME NEW S \in SUBSET Nat, IsFiniteSet(S), S # {}, NEW T, T = {e \in S : e > L!Nth(S, 1)}
  PROVE  /\ L!Nth(S, 1) \in S /\ Cardinality(S) \in Nat \ {0} /\ Cardinality(T) = Cardinality(S) - 1
         /\ \A n \in 1..Cardinality(T) : L!Nth(T, n) = L!Nth(S, n + 1)
<1>1. Cardinality(S) \in Nat \ {0}
  BY FS_CardinalityType, FS_EmptySet
<1> DEFINE f == L!Nth(S, 1)
<1> HIDE DEF f
<1>2. f \in S /\ L!Rank(S, f) = 1 /\ f \in Nat
  <2>1. 1 \in 1..Cardinality(S)
    BY <1>1
  <2>2. L!Nth(S, 1) \in S /\ L!Rank(S, L!Nth(S, 1)) = 1
    BY <2>1, NthFacts
  <2> QED BY <2>2 DEF f
<1>3. \A e \in S : e <= f => e = f
  <2>1. {e \in S : e <= f} \in SUBSET S
    OBVIOUS
  <2>2. IsFiniteSet({e \in S : e <= f})
    BY <2>1, FS_Subset
  <2>3. Cardinality({e \in S : e <= f}) = 1
    BY <1>2 DEF L!Rank, L!Cardinality, Cardinality
  <2>4. PICK x : {e \in S : e <= f} = {x}
    BY <2>2, <2>3, FS_Singleton
  <2>5. f \in {e \in S : e <= f}
    BY <1>2
  <2> QED BY <2>4, <2>5
<1>4. T = S \ {f} /\ T \in SUBSET Nat
  <2>1. \A e \in S : e > f <=> e # f
    <3> TAKE e \in S
    <3>1. e \in Nat
      OBVIOUS
    <3> QED BY <3>1, <1>2, <1>3
  <2>2. T = {e \in S : e > f}
    BY DEF f
  <2> QED BY <2>1, <2>2
<1>5. IsFiniteSet(T) /\ Cardinality(T) = Cardinality(S) - 1
  BY <1>2, <1>4, FS_RemoveElement
<1>6. ASSUME NEW n \in 1..Cardinality(T) PROVE L!Nth(T, n) = L!Nth(S, n + 1)
  <2> DEFINE d == L!Nth(T, n)
  <2> HIDE DEF d
  <2>1. d \in T /\ L!Rank(T, d) = n
    BY <1>4, <1>5, NthFacts DEF d
  <2>2. d \in S /\ d \in Nat /\ d > f
    <3>1. d \in S /\ d \in Nat /\ d # f
      BY <2>1, <1>4
    <3> QED BY <3>1, <1>2, <1>3
  <2>3. {e \in S : e <= d} = {e \in T : e <= d} \cup {f}
    BY <1>2, <1>4, <2>2
  <2>4. f \notin {e \in T : e <= d}
    BY <1>4
  <2>5. IsFiniteSet({e \in T : e <= d})
    BY <1>5, FS_Subset
  <2>6. L!Rank(S, d) = n + 1
    <3>1. Cardinality({e \in S : e <= d}) = Cardinality({e \in T : e <= d}) + 1
      BY <2>3, <2>4, <2>5, FS_AddElement
    <3>2. L!Rank(S, d) = Cardinality({e \in S : e <= d}) /\ L!Rank(T, d) = Cardinality({e \in T : e <= d})
      BY DEF L!Rank, L!Cardinality, Cardinality
    <3> QED BY <2>1, <3>1, <3>2
  <2>7. n + 1 \in 1..Cardinality(S)
    BY <1>1, <1>5
  <2>8. \A c \in S : L!Rank(S, c) = n + 1 => c = L!Nth(S, n + 1)
    BY <2>7, NthFacts
  <2> QED BY <2>2, <2>6, <2>8 DEF d
<1> QED BY <1>1, <1>2, <1>5, <1>6 DEF f

-----------------------------------------------------------------------------
(* Lemmas about bounds, returns and labels.                                *)

LEMMA NatMin ==
  ASSUME NEW S \in SUBSET Nat, S # {}
  PROVE  L!Min(S) \in S /\ \A x \in S : L!Min(S) <= x
<1>1. \E m \in S : \A y \in S : ~ (<<y, m>> \in OpToRel(<, Nat))
  BY WFMin, NatLessThanWellFounded
<1>2. PICK m \in S : \A y \in S : ~ (<<y, m>> \in OpToRel(<, Nat))
  BY <1>1
<1>3. \A y \in S : m <= y
  <2> TAKE y \in S
  <2>1. y \in Nat /\ m \in Nat
    OBVIOUS
  <2>2. ~ (y < m)
    BY <1>2, <2>1 DEF OpToRel
  <2> QED BY <2>1, <2>2
<1> QED BY <1>3 DEF L!Min

LEMMA ConstFacts ==
  ASSUME L!PathsAssumption
  PROVE  /\ L!Window \in Nat /\ MaxHold \in Nat \ {0} /\ MaxHold + 1 <= L!Window
         /\ \A h \in Horizons : h \in Nat \ {0} /\ h + 1 <= L!Window
         /\ L!EntryOffset \in {0, 1}
<1>1. L!Max(Horizons) \in Horizons /\ \A h \in Horizons : h <= L!Max(Horizons)
  BY FiniteMax DEF L!PathsAssumption, L!IsFiniteSet, IsFiniteSet
<1>2. PICK h \in Horizons : MaxHold <= h
  BY DEF L!PathsAssumption
<1>3. MaxHold \in Nat \ {0} /\ \A g \in Horizons : g \in Nat \ {0}
  BY DEF L!PathsAssumption
<1>4. L!Window = L!Max(Horizons) + 1
  BY DEF L!Window
<1>5. L!EntryOffset \in {0, 1}
  BY DEF L!EntryOffset
<1> QED BY <1>1, <1>2, <1>3, <1>4, <1>5

\* The days on file after the signal's.
LEMMA FiledFacts ==
  ASSUME L!PathsAssumption, PathTypes
  PROVE  /\ L!Filed(1) \in SUBSET Nat /\ IsFiniteSet(L!Filed(1)) /\ Cardinality(L!Filed(1)) \in Nat
         /\ \A d \in L!Filed(1) : d \in 2..today /\ d \in 1..LastDay /\ bars[d] \in Prices
         /\ Len(L!Fwd) = Cardinality(L!Filed(1))
         /\ \A i \in 1..Cardinality(L!Filed(1)) :
              L!Fwd[i] = L!Nth(L!Filed(1), i) /\ L!Nth(L!Filed(1), i) \in L!Filed(1)
<1>1. LastDay \in Nat /\ today \in Nat /\ today <= LastDay /\ Prices \subseteq 1..1000
  <2>1. LastDay \in Nat /\ Prices \subseteq 1..1000
    BY DEF L!PathsAssumption
  <2>2. today \in 1..LastDay
    BY DEF PathTypes
  <2> QED BY <2>1, <2>2
<1>2. \A d \in L!Filed(1) : d \in 2..today /\ d \in 1..LastDay /\ bars[d] \in Prices
  BY <1>1 DEF L!Filed, PathTypes
<1>3. L!Filed(1) \in SUBSET Nat /\ L!Filed(1) \in SUBSET (2..today)
  BY <1>1, <1>2
<1>4. IsFiniteSet(L!Filed(1))
  <2>1. IsFiniteSet(2..today)
    BY <1>1, FS_Interval
  <2> QED BY <1>3, <2>1, FS_Subset
<1>5. Cardinality(L!Filed(1)) \in Nat
  BY <1>4, FS_CardinalityType
<1>6. /\ Len(L!Fwd) = Cardinality(L!Filed(1))
      /\ \A i \in 1..Cardinality(L!Filed(1)) : L!Fwd[i] = L!Nth(L!Filed(1), i)
  BY <1>5 DEF L!Fwd, L!After, L!Cardinality, Cardinality
<1> QED BY <1>2, <1>3, <1>4, <1>5, <1>6, NthFacts

Hits(rs, m) == {i \in 1..m : rs[i] >= Gain}
Exit(rs, m) == IF Hits(rs, m) = {} THEN m ELSE L!Min(Hits(rs, m))

\* What the metrics of m returns are.
Shown(rs, m) ==
  LET exit == Exit(rs, m) IN
  LET when == L!PeakDay(1..exit, rs) IN
  [held |-> exit, exit |-> rs[exit], mfe |-> rs[when], when |-> when,
   touched |-> IF Hits(rs, m) = {} THEN 0 ELSE 1, day |-> IF Hits(rs, m) = {} THEN L!Null ELSE exit]

\* No difference of two prices is as low as Null.
IsReturn(x) == x \in Int /\ -1000 < x /\ x < 1000

LEMMA PeakDayFacts ==
  ASSUME NEW n \in Nat \ {0}, NEW rs, \A i \in 1..n : IsReturn(rs[i])
  PROVE  L!PeakDay(1..n, rs) \in 1..n /\ \A j \in 1..n : rs[j] <= rs[L!PeakDay(1..n, rs)]
<1> DEFINE gaps == {1000 - rs[i] : i \in 1..n}
           best == {i \in 1..n : \A j \in 1..n : rs[j] <= rs[i]}
<1>1. gaps \in SUBSET Nat
  <2>1. \A i \in 1..n : 1000 - rs[i] \in Nat
    BY DEF IsReturn
  <2> QED BY <2>1
<1>2. gaps # {}
  <2>1. 1 \in 1..n
    OBVIOUS
  <2> QED BY <2>1
<1>3. \E g \in gaps : \A x \in gaps : g <= x
  <2> HIDE DEF gaps, best
  <2>1. L!Min(gaps) \in gaps /\ \A x \in gaps : L!Min(gaps) <= x
    BY <1>1, <1>2, NatMin
  <2> QED BY <2>1
<1>4. PICK i \in 1..n : \A j \in 1..n : 1000 - rs[i] <= 1000 - rs[j]
  BY <1>3
<1>5. \A j \in 1..n : rs[j] <= rs[i]
  <2> TAKE j \in 1..n
  <2>1. 1000 - rs[i] <= 1000 - rs[j]
    BY <1>4
  <2>2. rs[i] \in Int /\ rs[j] \in Int
    BY DEF IsReturn
  <2> QED BY <2>1, <2>2
<1>6. best \in SUBSET Nat /\ best # {}
  BY <1>5
<1>7. L!Min(best) \in best
  <2> HIDE DEF best
  <2> QED BY <1>6, NatMin
<1> QED BY <1>7 DEF L!PeakDay

LEMMA ShownFacts ==
  ASSUME NEW m \in Nat \ {0}, NEW rs, \A i \in 1..m : IsReturn(rs[i])
  PROVE  /\ Exit(rs, m) \in 1..m
         /\ L!PeakDay(1..Exit(rs, m), rs) \in 1..Exit(rs, m)
         /\ \A j \in 1..Exit(rs, m) : rs[j] <= rs[L!PeakDay(1..Exit(rs, m), rs)]
<1>1. Exit(rs, m) \in 1..m
  <2>1. CASE Hits(rs, m) = {}
    BY <2>1 DEF Exit
  <2>2. CASE Hits(rs, m) # {}
    <3>1. Hits(rs, m) \in SUBSET Nat /\ Hits(rs, m) \in SUBSET (1..m)
      BY DEF Hits
    <3>2. L!Min(Hits(rs, m)) \in Hits(rs, m)
      BY <2>2, <3>1, NatMin
    <3> QED BY <2>2, <3>1, <3>2 DEF Exit
  <2> QED BY <2>1, <2>2
<1>2. Exit(rs, m) \in Nat \ {0} /\ \A i \in 1..Exit(rs, m) : IsReturn(rs[i])
  BY <1>1
<1> DEFINE e == Exit(rs, m)
<1>3. e \in Nat \ {0} /\ \A i \in 1..e : IsReturn(rs[i])
  BY <1>2
<1> HIDE DEF e
<1>4. L!PeakDay(1..e, rs) \in 1..e /\ \A j \in 1..e : rs[j] <= rs[L!PeakDay(1..e, rs)]
  BY <1>3, PeakDayFacts
<1> QED BY <1>1, <1>4 DEF e

\* The peak is told by the returns up to it.
LEMMA PeakDaySame ==
  ASSUME NEW S, NEW rs, NEW ss, \A i \in S : rs[i] = ss[i]
  PROVE  L!PeakDay(S, rs) = L!PeakDay(S, ss)
<1>1. {i \in S : \A j \in S : rs[j] <= rs[i]} = {i \in S : \A j \in S : ss[j] <= ss[i]}
  OBVIOUS
<1> QED BY <1>1 DEF L!PeakDay

LEMMA ShownSame ==
  ASSUME NEW m \in Nat \ {0}, NEW rs, NEW ss, \A i \in 1..m : IsReturn(rs[i]) /\ ss[i] = rs[i]
  PROVE  Shown(rs, m) = Shown(ss, m)
<1>1. Hits(rs, m) = Hits(ss, m)
  BY DEF Hits
<1>2. Exit(rs, m) = Exit(ss, m)
  BY <1>1 DEF Exit
<1>3. Exit(rs, m) \in 1..m /\ L!PeakDay(1..Exit(rs, m), rs) \in 1..Exit(rs, m)
  BY ShownFacts
<1>4. \A i \in 1..Exit(rs, m) : i \in 1..m
  BY <1>3
<1>5. L!PeakDay(1..Exit(rs, m), rs) = L!PeakDay(1..Exit(rs, m), ss)
  <2> DEFINE S == 1..Exit(rs, m)
  <2>1. \A i \in S : rs[i] = ss[i]
    BY <1>4
  <2> HIDE DEF S
  <2>2. L!PeakDay(S, rs) = L!PeakDay(S, ss)
    BY <2>1, PeakDaySame
  <2> QED BY <2>2 DEF S
<1>6. /\ rs[Exit(rs, m)] = ss[Exit(rs, m)]
      /\ rs[L!PeakDay(1..Exit(rs, m), rs)] = ss[L!PeakDay(1..Exit(rs, m), rs)]
  BY <1>3, <1>4
<1> QED BY <1>1, <1>2, <1>5, <1>6 DEF Shown

\* The metrics look no further than the position may be held.
LEMMA MetricsAre ==
  ASSUME L!PathsAssumption, NEW n \in Nat \ {0}, NEW rs, rs = [i \in 1..n |-> rs[i]],
         NEW m, m = IF n <= MaxHold THEN n ELSE MaxHold
  PROVE  m \in 1..MaxHold /\ m <= n /\ L!Metrics(rs) = Shown(rs, m)
<1>1. MaxHold \in Nat \ {0}
  BY DEF L!PathsAssumption
<1>2. m \in 1..MaxHold /\ m <= n /\ m \in Nat \ {0}
  BY <1>1
<1>3. Len(rs) = n /\ rs # <<>>
  <2>1. Len(rs) = n
    OBVIOUS
  <2> QED BY <2>1
<1>4. L!Min({n, MaxHold}) = m
  BY <1>1 DEF L!Min
<1>5. L!Max(1..m) = m
  BY <1>2 DEF L!Max
<1>6. L!Metrics(rs) =
        LET hits == Hits(rs, m)
            exit == IF hits = {} THEN m ELSE L!Min(hits)
            when == L!PeakDay(1..exit, rs)
        IN [held |-> exit, exit |-> rs[exit], mfe |-> rs[when], when |-> when,
            touched |-> IF hits = {} THEN 0 ELSE 1, day |-> IF hits = {} THEN L!Null ELSE exit]
  BY <1>3, <1>4, <1>5 DEF L!Metrics, Hits
<1> QED BY <1>2, <1>6 DEF Shown, Exit

\* Where the path shows what a backtest saw, the path's labels are the backtest's.
LEMMA DerivedFacts ==
  ASSUME L!PathsAssumption, L!EntryOffset \in {0, 1}, L!Window \in Nat, NEW m \in 1..MaxHold,
         L!EntryOffset + m <= L!Window,
         NEW rs, \A i \in 1..m : IsReturn(rs[i]) /\ path[L!EntryOffset + i] = rs[i],
         stored = Shown(rs, m)
  PROVE  /\ stored.held # L!Null /\ L!Derived.mfe # L!Null
         /\ L!Derived.mfe = stored.mfe /\ L!Derived.when = stored.when
         /\ ~ (L!Derived.mfe < stored.exit)
         /\ m = MaxHold => L!Derived.touched = stored.touched /\ L!Derived.day = stored.day
<1>1. m \in Nat \ {0} /\ MaxHold \in Nat
  BY DEF L!PathsAssumption
<1> DEFINE e == Exit(rs, m)
           when == L!PeakDay(1..e, rs)
<1>2. /\ e \in 1..m /\ when \in 1..e
      /\ \A j \in 1..e : rs[j] <= rs[when]
  BY <1>1, ShownFacts
<1>3. stored = [held |-> e, exit |-> rs[e], mfe |-> rs[when], when |-> when,
                touched |-> IF Hits(rs, m) = {} THEN 0 ELSE 1,
                day |-> IF Hits(rs, m) = {} THEN L!Null ELSE e]
  BY DEF Shown
<1> HIDE DEF e, when
<1>4. \A n \in 1..m : L!InPath(n) = 1..n
  <2> TAKE n \in 1..m
  <2>1. \A i \in 1..n : i \in 1..m /\ L!EntryOffset + i <= L!Window /\ path[L!EntryOffset + i] # L!Null
    BY <1>1 DEF IsReturn, L!Null
  <2> QED BY <2>1 DEF L!InPath
<1>5. \A i \in 1..m : i \in L!InPath(L!Window) /\ L!OnPath[i] = rs[i]
  <2>1. \A i \in 1..m : /\ i \in 1..L!Window /\ L!EntryOffset + i <= L!Window
                        /\ path[L!EntryOffset + i] = rs[i] /\ rs[i] # L!Null
    BY <1>1 DEF IsReturn, L!Null
  <2>2. \A i \in 1..m : i \in L!InPath(L!Window)
    BY <2>1 DEF L!InPath
  <2> QED BY <2>1, <2>2 DEF L!OnPath
<1>6. e \in 1..m /\ L!InPath(e) = 1..e /\ 1..e # {} /\ e # L!Null /\ stored.held = e
  <2>1. e \in 1..m /\ e \in 1..e /\ e # L!Null
    BY <1>1, <1>2 DEF L!Null
  <2>2. 1..e # {}
    BY <2>1
  <2> QED BY <2>1, <2>2, <1>3, <1>4
<1>7. L!PeakDay(1..e, L!OnPath) = when /\ L!OnPath[when] = rs[when] /\ when \in 1..m
  <2>1. \A i \in 1..e : i \in 1..m
    BY <1>1, <1>2
  <2>2. \A i \in 1..e : L!OnPath[i] = rs[i]
    BY <2>1, <1>5
  <2>3. L!PeakDay(1..e, L!OnPath) = L!PeakDay(1..e, rs)
    BY <2>2, PeakDaySame
  <2> QED BY <2>1, <2>2, <2>3, <1>2 DEF when
<1> DEFINE hits == {i \in L!InPath(MaxHold) : L!OnPath[i] >= Gain}
<1>8. L!Derived = [stored EXCEPT !.mfe = rs[when], !.when = when,
                               !.touched = IF hits = {} THEN 0 ELSE 1,
                               !.day = IF hits = {} THEN L!Null ELSE L!Min(hits)]
  BY <1>6, <1>7 DEF L!Derived
<1>9. m = MaxHold => hits = Hits(rs, m)
  <2> SUFFICES ASSUME m = MaxHold PROVE hits = Hits(rs, m)
    OBVIOUS
  <2>1. L!InPath(MaxHold) = 1..m
    BY <1>1, <1>4
  <2> QED BY <2>1, <1>5 DEF Hits
<1>10. Hits(rs, m) # {} => e = L!Min(Hits(rs, m))
  BY DEF e, Exit
<1>11. IsReturn(rs[when]) /\ IsReturn(rs[e]) /\ e \in 1..e /\ rs[e] <= rs[when]
  BY <1>2, <1>6, <1>7, <1>1
<1> HIDE DEF hits
<1>12. /\ L!Derived.mfe = rs[when] /\ L!Derived.when = when
       /\ L!Derived.touched = (IF hits = {} THEN 0 ELSE 1)
       /\ L!Derived.day = (IF hits = {} THEN L!Null ELSE L!Min(hits))
  BY <1>3, <1>8
<1>13. ~ (L!Derived.mfe < stored.exit)
  <2>1. rs[e] \in Int /\ rs[when] \in Int /\ rs[e] <= rs[when]
    BY <1>11 DEF IsReturn
  <2>2. ~ (rs[when] < rs[e])
    BY <2>1
  <2>3. stored.exit = rs[e]
    BY <1>3
  <2> QED BY <2>2, <2>3, <1>12
<1> QED BY <1>3, <1>6, <1>9, <1>10, <1>11, <1>12, <1>13 DEF IsReturn, L!Null

\* The returns the bars on file show.
LEMMA ReturnsFacts ==
  ASSUME L!PathsAssumption, PathTypes, NEW p \in Prices,
         NEW n \in 1..Cardinality(L!Filed(1))
  PROVE  IsReturn(bars[L!Nth(L!Filed(1), n)] - p)
<1> DEFINE b == bars[L!Nth(L!Filed(1), n)]
<1>1. b \in Prices
  BY FiledFacts
<1> HIDE DEF b
<1>2. b \in 1..1000 /\ p \in 1..1000
  <2>1. \A q \in Prices : q \in 1..1000
    BY DEF L!PathsAssumption
  <2> QED BY <2>1, <1>1
<1>3. IsReturn(b - p)
  BY <1>2 DEF IsReturn
<1> QED BY <1>3 DEF b

\* What a window of the path shows.
LEMMA NewPathFacts ==
  ASSUME L!PathsAssumption, PathTypes
  PROVE  /\ \A i \in 1..L!Window : i <= Cardinality(L!Filed(1)) => L!NewPath[i] = bars[L!Nth(L!Filed(1), i)] - entry
         /\ \A i \in 1..L!Window : ~(i <= Cardinality(L!Filed(1))) => L!NewPath[i] = path[i]
         /\ entry # 0 => L!NewPath \in [1..L!Window -> Int]
         /\ entry # 0 => \A i \in 1..L!Window : path[i] # L!Null => L!NewPath[i] # L!Null
<1>1. /\ Cardinality(L!Filed(1)) \in Nat /\ L!Window \in Nat
      /\ Len(L!Fwd) = Cardinality(L!Filed(1))
      /\ \A i \in 1..Cardinality(L!Filed(1)) : L!Fwd[i] = L!Nth(L!Filed(1), i)
  BY FiledFacts, ConstFacts
<1>2. \A i \in 1..L!Window : i <= Cardinality(L!Filed(1)) => L!NewPath[i] = bars[L!Nth(L!Filed(1), i)] - entry
  <2> TAKE i \in 1..L!Window
  <2> HAVE i <= Cardinality(L!Filed(1))
  <2>1. i \in 1..Cardinality(L!Filed(1))
    BY <1>1
  <2> QED BY <1>1, <2>1 DEF L!NewPath
<1>3. \A i \in 1..L!Window : ~(i <= Cardinality(L!Filed(1))) => L!NewPath[i] = path[i]
  BY <1>1 DEF L!NewPath
<1>4. ASSUME entry # 0, NEW i \in 1..L!Window
      PROVE  L!NewPath[i] \in Int /\ (path[i] # L!Null => L!NewPath[i] # L!Null)
  <2>1. CASE i <= Cardinality(L!Filed(1))
    <3>1. i \in 1..Cardinality(L!Filed(1))
      BY <1>1, <2>1
    <3>2. IsReturn(bars[L!Nth(L!Filed(1), i)] - entry)
      BY <1>4, <3>1, ReturnsFacts DEF PathTypes
    <3> QED BY <1>2, <2>1, <3>2 DEF IsReturn, L!Null
  <2>2. CASE ~(i <= Cardinality(L!Filed(1)))
    BY <1>3, <2>2 DEF PathTypes
  <2> QED BY <2>1, <2>2
<1>5. L!NewPath = [i \in 1..L!Window |-> L!NewPath[i]]
  BY DEF L!NewPath
<1>6. entry # 0 => L!NewPath \in [1..L!Window -> Int]
  BY <1>4, <1>5
<1> QED BY <1>2, <1>3, <1>4, <1>6

-----------------------------------------------------------------------------
(* What the steps do to the bars.                                          *)

FiledIs ==
  /\ L!Filed(1) \in SUBSET Nat /\ IsFiniteSet(L!Filed(1)) /\ Cardinality(L!Filed(1)) \in Nat
  /\ Len(L!Fwd) = Cardinality(L!Filed(1))

NewPathIs ==
  /\ L!NewPath = [i \in 1..L!Window |-> L!NewPath[i]]
  /\ \A i \in 1..L!Window :
       L!NewPath[i] = IF i <= Cardinality(L!Filed(1)) THEN bars[L!Nth(L!Filed(1), i)] - entry ELSE path[i]

LEMMA FiledHolds == L!PathsAssumption /\ PathTypes => FiledIs
BY FiledFacts DEF FiledIs

LEMMA NewPathHolds == L!PathsAssumption /\ PathTypes => NewPathIs
<1> SUFFICES ASSUME L!PathsAssumption, PathTypes PROVE NewPathIs
  OBVIOUS
<1>1. L!NewPath = [i \in 1..L!Window |-> L!NewPath[i]]
  BY DEF L!NewPath
<1> QED BY <1>1, NewPathFacts DEF NewPathIs

LEMMA FiledNext ==
  ASSUME L!PathsAssumption, PathTypes'
  PROVE  FiledIs' /\ NewPathIs'
BY FiledHolds, NewPathHolds, PTL

\* The bars after the signal grow at the end and do not change.
LaterOnly ==
  /\ L!Filed(1) \subseteq L!Filed(1)'
  /\ \A s \in L!Filed(1), t \in L!Filed(1)' \ L!Filed(1) : s < t
  /\ \A d \in L!Filed(1) : bars'[d] = bars[d]

LEMMA LaterBars ==
  ASSUME L!PathsAssumption, PathTypes, PathTypes', LaterOnly
  PROVE  /\ Cardinality(L!Filed(1)) <= Cardinality(L!Filed(1)') /\ Cardinality(L!Filed(1)') \in Nat
         /\ \A n \in 1..Cardinality(L!Filed(1)) :
              L!Nth(L!Filed(1)', n) = L!Nth(L!Filed(1), n) /\ bars'[L!Nth(L!Filed(1), n)] = bars[L!Nth(L!Filed(1), n)]
<1> DEFINE S == L!Filed(1)
           T == L!Filed(1)'
<1>1. T \in SUBSET Nat /\ IsFiniteSet(T)
  BY FiledNext DEF FiledIs
<1>2. S \in SUBSET T /\ \A s \in S, t \in T \ S : s < t
  BY DEF LaterOnly
<1>3. \A d \in S : bars'[d] = bars[d]
  BY DEF LaterOnly
<1> HIDE DEF S, T
<1>4. /\ Cardinality(S) <= Cardinality(T) /\ Cardinality(T) \in Nat
      /\ \A n \in 1..Cardinality(S) : L!Nth(T, n) = L!Nth(S, n) /\ L!Nth(S, n) \in S
  BY <1>1, <1>2, NthOfPrefix
<1>5. \A n \in 1..Cardinality(S) : bars'[L!Nth(S, n)] = bars[L!Nth(S, n)]
  BY <1>3, <1>4
<1> QED BY <1>4, <1>5 DEF S, T

\* What was read of the bars is what they say still.
LEMMA ReturnsStay ==
  ASSUME L!PathsAssumption, PathTypes, PathTypes', LaterOnly, UNCHANGED <<entryKind, entry>>,
         NEW m \in 1..MaxHold, L!EntryOffset + m <= Cardinality(L!Filed(1))
  PROVE  L!EntryOffset' + m <= Cardinality(L!Filed(1)') /\ Returns(m)' = Returns(m)
<1>1. L!EntryOffset' = L!EntryOffset /\ L!EntryOffset \in {0, 1} /\ m \in Nat /\ Cardinality(L!Filed(1)) \in Nat
  BY ConstFacts, FiledFacts DEF L!EntryOffset
<1>2. L!EntryOffset' + m <= Cardinality(L!Filed(1)')
  BY <1>1, LaterBars
<1>3. \A i \in 1..m : L!EntryOffset + i \in 1..Cardinality(L!Filed(1))
  BY <1>1
<1>4. \A i \in 1..m : bars'[L!Nth(L!Filed(1)', L!EntryOffset' + i)] - entry'
                     = bars[L!Nth(L!Filed(1), L!EntryOffset + i)] - entry
  BY <1>1, <1>3, LaterBars
<1>5. Returns(m)' = [i \in 1..m |-> bars'[L!Nth(L!Filed(1)', L!EntryOffset' + i)] - entry']
  BY DEF Returns
<1> QED BY <1>2, <1>4, <1>5 DEF Returns

LEMMA NewPathStays ==
  ASSUME L!PathsAssumption, PathTypes, PathTypes', LaterOnly, UNCHANGED <<entry, path>>,
         L!Window <= Cardinality(L!Filed(1))
  PROVE  L!Window <= Cardinality(L!Filed(1))' /\ L!NewPath' = L!NewPath
<1>1. L!Window \in Nat /\ Cardinality(L!Filed(1)) \in Nat
  BY ConstFacts, FiledFacts
<1>2. L!Window' = L!Window /\ Cardinality(L!Filed(1))' = Cardinality(L!Filed(1)')
  BY DEF L!Window
<1>3. /\ L!Window <= Cardinality(L!Filed(1))'
      /\ \A i \in 1..L!Window : i <= Cardinality(L!Filed(1)) /\ i <= Cardinality(L!Filed(1)')
  BY <1>1, <1>2, LaterBars
<1>4. \A i \in 1..L!Window : i \in 1..Cardinality(L!Filed(1))
  BY <1>1
<1>5. /\ L!NewPath' = [i \in 1..L!Window |-> L!NewPath'[i]]
      /\ \A i \in 1..L!Window : L!NewPath'[i] = bars'[L!Nth(L!Filed(1)', i)] - entry'
  BY <1>2, <1>3, FiledNext DEF NewPathIs
<1>6. /\ L!NewPath = [i \in 1..L!Window |-> L!NewPath[i]]
      /\ \A i \in 1..L!Window : L!NewPath[i] = bars[L!Nth(L!Filed(1), i)] - entry
  BY <1>3, NewPathHolds DEF NewPathIs
<1>7. \A i \in 1..L!Window : L!NewPath'[i] = L!NewPath[i]
  BY <1>4, <1>5, <1>6, LaterBars
<1> QED BY <1>3, <1>5, <1>6, <1>7

\* A night's bar comes last, and a rewritten one of the signal's day is not after it.
LEMMA NightBarIsLast ==
  ASSUME L!PathsAssumption, PathTypes, L!NightBars
  PROVE  LaterOnly
<1>1. today \in Nat /\ today' = today + 1 /\ today + 1 \in 1..LastDay /\ LastDay \in Nat
  BY DEF L!PathsAssumption, PathTypes, L!NightBars
<1>2. PICK p \in {0} \cup Prices : bars' = [bars EXCEPT ![today + 1] = p]
  BY DEF L!NightBars, L!WriteBar
<1>3. \A d \in 1..LastDay : d # today + 1 => bars'[d] = bars[d]
  BY <1>2 DEF PathTypes
<1>4. \A d \in L!Filed(1) : d \in 1..LastDay /\ d \in 2..today /\ d # today + 1 /\ bars[d] > 0
  BY <1>1 DEF L!Filed
<1>5. \A d \in L!Filed(1) : bars'[d] = bars[d]
  BY <1>3, <1>4
<1>6. \A d \in L!Filed(1)' : d \in 2..(today + 1) /\ bars'[d] > 0
  BY <1>1 DEF L!Filed
<1>7. \A d \in L!Filed(1) : d \in L!Filed(1)'
  BY <1>1, <1>4, <1>5 DEF L!Filed
<1>8. \A t \in L!Filed(1)' : t # today + 1 => t \in L!Filed(1)
  <2> SUFFICES ASSUME NEW t \in L!Filed(1)', t # today + 1 PROVE t \in L!Filed(1)
    OBVIOUS
  <2>1. t \in 2..today /\ t \in 1..LastDay
    BY <1>1, <1>6
  <2>2. bars[t] > 0
    BY <1>3, <1>6, <2>1
  <2> QED BY <2>1, <2>2 DEF L!Filed
<1>9. \A s \in L!Filed(1), t \in L!Filed(1)' \ L!Filed(1) : s < t
  <2> TAKE s \in L!Filed(1), t \in L!Filed(1)' \ L!Filed(1)
  <2>1. t = today + 1 /\ s \in 2..today
    BY <1>4, <1>8
  <2> QED BY <2>1, <1>1
<1> QED BY <1>5, <1>7, <1>9 DEF LaterOnly

LEMMA RewriteFacts ==
  ASSUME L!PathsAssumption, PathTypes, L!Rewrite
  PROVE  /\ L!Filed(1) \subseteq L!Filed(1)' /\ bars' \in [1..LastDay -> {0} \cup Prices]
         /\ bars[1] # 0 => bars'[1] # 0
         /\ ~ fresh' /\ fresh' = FALSE
         /\ rewritten' \in BOOLEAN /\ edited' \in BOOLEAN /\ (seen = L!Window => edited')
         /\ ~ rewritten' => ~ rewritten /\ LaterOnly
<1>1. today \in 1..LastDay /\ today' = today /\ LastDay \in Nat /\ today \in Nat
  BY DEF L!PathsAssumption, PathTypes, L!Rewrite
<1>2. PICK d \in 1..today, p \in Prices : L!WriteBar(d, p)
  BY DEF L!Rewrite
<1>3. d \in 1..LastDay /\ d \in Nat /\ d <= today /\ p \in Nat /\ p > 0
  BY <1>1, <1>2 DEF L!PathsAssumption
<1>4. /\ bars' = [bars EXCEPT ![d] = p] /\ fresh' = FALSE
      /\ rewritten' \in BOOLEAN /\ edited' \in BOOLEAN
      /\ seen = L!Window => edited'
      /\ ~ rewritten' => ~ rewritten /\ ~ (1 < d)
  <2>1. d <= today /\ ~ (d > today)
    BY <1>1, <1>3
  <2>2. /\ bars' = [bars EXCEPT ![d] = p] /\ fresh' = (fresh /\ d > today)
        /\ edited' = (edited \/ (seen = L!Window /\ d <= today))
        /\ rewritten' = (rewritten \/ (1 < d /\ d <= today))
    BY <1>2 DEF L!WriteBar
  <2>3. fresh' = FALSE
    BY <2>1, <2>2
  <2>4. rewritten' \in BOOLEAN /\ edited' \in BOOLEAN
    BY <2>2
  <2>5. seen = L!Window => edited'
    BY <2>1, <2>2
  <2>6. ~ rewritten' => ~ rewritten /\ ~ (1 < d)
    BY <2>1, <2>2
  <2> QED BY <2>2, <2>3, <2>4, <2>5, <2>6
<1>5. \A c \in 1..LastDay : bars'[c] = (IF c = d THEN p ELSE bars[c])
  BY <1>3, <1>4 DEF PathTypes
<1>6. \A c \in L!Filed(1) : c \in 1..LastDay /\ c \in 2..today /\ bars[c] > 0
  BY <1>1 DEF L!Filed
<1>7. \A c \in L!Filed(1) : c \in L!Filed(1)'
  BY <1>1, <1>3, <1>5, <1>6 DEF L!Filed
<1>8. ASSUME ~ rewritten' PROVE LaterOnly
  <2>1. d = 1
    BY <1>3, <1>4, <1>8
  <2>2. \A c \in L!Filed(1) : bars'[c] = bars[c]
    BY <2>1, <1>5, <1>6
  <2>3. \A c \in L!Filed(1)' : c \in L!Filed(1)
    <3> TAKE c \in L!Filed(1)'
    <3>1. c \in 2..today /\ c \in 1..LastDay /\ bars'[c] > 0
      BY <1>1 DEF L!Filed
    <3>2. bars[c] > 0
      BY <2>1, <3>1, <1>5
    <3> QED BY <3>1, <3>2 DEF L!Filed
  <2> QED BY <2>2, <2>3, <1>7 DEF LaterOnly
<1>9. bars' \in [1..LastDay -> {0} \cup Prices]
  BY <1>2, <1>4 DEF PathTypes
<1>10. bars[1] # 0 => bars'[1] # 0
  BY <1>1, <1>3, <1>5
<1> QED BY <1>4, <1>7, <1>8, <1>9, <1>10

\* The backtest meets the bars after the entry, and only those.
LEMMA BacktestFacts ==
  ASSUME L!PathsAssumption, PathTypes, EntryFollows, L!Backtest
  PROVE  /\ UNCHANGED <<today, bars, entryKind>>
         /\ entry' \in {0} \cup Prices
         /\ entry # 0 => entry' # 0
         /\ entryKind = "touch" => entry' = entry
         /\ entryKind = "next_open" /\ entry' # 0 => L!Filed(1) # {}
         /\ fresh' \in BOOLEAN /\ edited' \in BOOLEAN
         /\ seen = L!Window /\ ~ edited' => ~ edited /\ entry' = entry
         /\ \/ stored' = L!Unresolved /\ ~ fresh'
            \/ \E m \in 1..MaxHold :
                 /\ entry' # 0 /\ (fresh' => m = MaxHold)
                 /\ L!EntryOffset + m <= Cardinality(L!Filed(1))
                 /\ stored' = L!Metrics([i \in 1..m |-> bars[L!Nth(L!Filed(1), L!EntryOffset + i)] - entry'])
<1> DEFINE day == IF entryKind = "touch" THEN 1 ELSE IF L!Fwd = <<>> THEN 0 ELSE L!Fwd[1]
           p   == IF entryKind = "touch" THEN entry ELSE IF day = 0 THEN 0 ELSE bars[day]
           rs  == IF p = 0 THEN <<>> ELSE [i \in 1..Len(L!After(day)) |-> bars[L!After(day)[i]] - p]
           card == Cardinality(L!Filed(1))
           n   == card - L!EntryOffset
<1>1. /\ UNCHANGED <<today, bars, entryKind>> /\ entry' = p
      /\ stored' = L!Metrics(rs) /\ fresh' = (Len(rs) >= MaxHold)
      /\ edited' = (edited \/ (seen = L!Window /\ p # entry))
  BY DEF L!Backtest
<1>2. /\ L!Filed(1) \in SUBSET Nat /\ IsFiniteSet(L!Filed(1)) /\ card \in Nat
      /\ \A d \in L!Filed(1) : d \in 2..today /\ d \in 1..LastDay /\ bars[d] \in Prices
      /\ Len(L!Fwd) = card
      /\ \A i \in 1..card : L!Fwd[i] = L!Nth(L!Filed(1), i) /\ L!Nth(L!Filed(1), i) \in L!Filed(1)
      /\ MaxHold \in Nat \ {0} /\ \A q \in Prices : q \in 1..1000
  BY FiledFacts, ConstFacts DEF L!PathsAssumption
<1>3. L!Filed(1) = {} <=> card = 0
  BY <1>2, FS_EmptySet
<1>4. L!Fwd = <<>> <=> card = 0
  <2>1. L!Fwd = [i \in 1..card |-> L!Nth(L!Filed(1), i)]
    BY DEF L!Fwd, L!After, L!Cardinality, Cardinality
  <2>2. CASE card = 0
    <3>1. L!Fwd = [i \in 1..0 |-> L!Nth(L!Filed(1), i)]
      BY <2>1, <2>2
    <3> QED BY <3>1, <2>2
  <2>3. CASE card # 0
    <3>1. Len(<<>>) = 0
      OBVIOUS
    <3> QED BY <2>3, <1>2, <3>1
  <2> QED BY <2>2, <2>3
<1> DEFINE Shows == n \in Nat /\ rs = [i \in 1..n |-> bars[L!Nth(L!Filed(1), L!EntryOffset + i)] - p]
<1>5. \/ p = 0 /\ rs = <<>> /\ entry = 0 /\ entryKind = "next_open"
      \/ p \in Prices /\ p # 0 /\ Shows /\ (entryKind = "touch" => p = entry) /\ (entryKind = "next_open" => card # 0)
  <2>5. CASE entryKind = "touch"
    <3>1. day = 1 /\ p = entry /\ p \in Prices /\ p # 0 /\ L!EntryOffset = 0
      BY <2>5 DEF PathTypes, EntryFollows, L!EntryOffset
    <3>2. L!After(day) = L!Fwd
      BY <3>1 DEF L!Fwd
    <3>3. n = card /\ n \in Nat /\ \A i \in 1..n : L!EntryOffset + i = i /\ i \in 1..card
      BY <3>1, <1>2
    <3>4. rs = [i \in 1..n |-> bars[L!Fwd[i]] - p]
      <4> HIDE DEF n, day, p
      <4> QED BY <3>1, <3>2, <3>3, <1>2
    <3>5. Shows
      <4>1. \A i \in 1..n : L!Fwd[i] = L!Nth(L!Filed(1), L!EntryOffset + i)
        BY <3>3, <1>2
      <4> HIDE DEF n, day, p, rs
      <4> QED BY <3>3, <3>4, <4>1
    <3> HIDE DEF day, p, rs, n
    <3> QED BY <3>1, <3>5, <2>5
  <2>6. CASE entryKind = "next_open" /\ card = 0
    <3>1. day = 0 /\ p = 0 /\ rs = <<>> /\ entry = 0
      BY <1>3, <1>4, <2>6 DEF EntryFollows
    <3> HIDE DEF day, p, rs, n
    <3> QED BY <3>1, <2>6
  <2>7. CASE entryKind = "next_open" /\ card # 0
    <3>1. day = L!Nth(L!Filed(1), 1) /\ day \in L!Filed(1) /\ day # 0 /\ L!EntryOffset = 1
      <4>1. 1 \in 1..card
        BY <1>2, <2>7
      <4> QED BY <4>1, <1>2, <1>4, <2>7 DEF L!EntryOffset
    <3>2. p = bars[day] /\ p \in Prices /\ p # 0
      <4>1. p = bars[day]
        BY <2>7, <3>1
      <4>2. bars[day] \in Prices
        <5> HIDE DEF day
        <5> QED BY <1>2, <3>1
      <4>3. \A q \in Prices : q # 0
        <5>1. \A q \in Prices : q \in 1..1000
          BY DEF L!PathsAssumption
        <5>2. 0 \notin 1..1000
          OBVIOUS
        <5> QED BY <5>1, <5>2
      <4> HIDE DEF day, p
      <4> QED BY <4>1, <4>2, <4>3
    <3>3. L!Filed(day) = {e \in L!Filed(1) : e > L!Nth(L!Filed(1), 1)}
      <4> HIDE DEF day
      <4>1. day \in 2..today /\ today \in Nat
        BY <1>2, <3>1 DEF PathTypes, L!PathsAssumption
      <4>2. \A e \in (day + 1)..today : e \in 2..today
        BY <4>1
      <4>3. \A e \in 2..today : e > day <=> e \in (day + 1)..today
        BY <4>1
      <4> QED BY <4>1, <4>2, <4>3, <3>1 DEF L!Filed
    <3>4. /\ Cardinality(L!Filed(day)) = card - 1
          /\ \A i \in 1..Cardinality(L!Filed(day)) : L!Nth(L!Filed(day), i) = L!Nth(L!Filed(1), i + 1)
      <4> DEFINE T == L!Filed(day)
      <4>1. L!Filed(1) # {} /\ T = {e \in L!Filed(1) : e > L!Nth(L!Filed(1), 1)}
        BY <1>3, <2>7, <3>3
      <4> HIDE DEF T, day
      <4> QED BY <4>1, <1>2, NthOfRest DEF T
    <3> HIDE DEF day
    <3>5. n = Cardinality(L!Filed(day)) /\ n \in Nat
      BY <3>1, <3>4, <1>2, <2>7
    <3>6. Len(L!After(day)) = n /\ \A i \in 1..n : L!After(day)[i] = L!Nth(L!Filed(1), L!EntryOffset + i)
      <4>1. L!After(day) = [i \in 1..n |-> L!Nth(L!Filed(day), i)]
        BY <3>5 DEF L!After, L!Cardinality, Cardinality
      <4>2. \A i \in 1..n : i + 1 = L!EntryOffset + i
        BY <3>1, <3>5
      <4> HIDE DEF n
      <4> QED BY <4>1, <4>2, <3>4, <3>5
    <3>7. rs = [i \in 1..n |-> bars[L!After(day)[i]] - p]
      <4> HIDE DEF n, p
      <4> QED BY <3>2, <3>6
    <3>8. Shows
      <4> HIDE DEF n, p, rs
      <4> QED BY <3>5, <3>6, <3>7
    <3> HIDE DEF p, rs, n
    <3> QED BY <3>2, <3>8, <2>7
  <2> QED BY <2>5, <2>6, <2>7 DEF PathTypes
<1> HIDE DEF day, p, rs
<1>6. /\ UNCHANGED <<today, bars, entryKind>> /\ entry' \in {0} \cup Prices /\ (entry # 0 => entry' # 0)
      /\ entryKind = "touch" => entry' = entry
      /\ entryKind = "next_open" /\ entry' # 0 => L!Filed(1) # {}
      /\ fresh' \in BOOLEAN /\ edited' \in BOOLEAN
      /\ seen = L!Window /\ ~ edited' => ~ edited /\ entry' = entry
  <2>1. UNCHANGED <<today, bars, entryKind>> /\ entry' \in {0} \cup Prices /\ (entry # 0 => entry' # 0)
    BY <1>1, <1>5
  <2>2. (entryKind = "touch" => entry' = entry) /\ (entryKind = "next_open" /\ entry' # 0 => L!Filed(1) # {})
    BY <1>1, <1>3, <1>5
  <2>3. fresh' \in BOOLEAN /\ edited' \in BOOLEAN
    BY <1>1
  <2>4. seen = L!Window /\ ~ edited' => ~ edited /\ entry' = entry
    BY <1>1
  <2> QED BY <2>1, <2>2, <2>3, <2>4
<1>7. CASE rs = <<>>
  <2>1. L!Metrics(rs) = L!Unresolved
    BY <1>7 DEF L!Metrics
  <2>2. ~ (Len(rs) >= MaxHold)
    BY <1>2, <1>7
  <2> QED BY <1>1, <1>6, <2>1, <2>2
<1>8. CASE p # 0 /\ rs # <<>>
  <2>1. n \in Nat /\ rs = [i \in 1..n |-> bars[L!Nth(L!Filed(1), L!EntryOffset + i)] - p] /\ p \in Prices
    BY <1>5, <1>8
  <2>2. n # 0
    <3> SUFFICES ASSUME n = 0 PROVE FALSE
      OBVIOUS
    <3>1. rs = [i \in 1..0 |-> bars[L!Nth(L!Filed(1), L!EntryOffset + i)] - p]
      BY <2>1
    <3> QED BY <3>1, <1>8
  <2> DEFINE m == IF n <= MaxHold THEN n ELSE MaxHold
             ss == [i \in 1..m |-> bars[L!Nth(L!Filed(1), L!EntryOffset + i)] - p]
  <2>3. n \in Nat \ {0} /\ rs = [i \in 1..n |-> rs[i]] /\ Len(rs) = n
    BY <2>1, <2>2
  <2>4. m \in 1..MaxHold /\ m <= n /\ m \in Nat \ {0} /\ (n >= MaxHold => m = MaxHold) /\ m <= MaxHold
    BY <1>2, <2>3
  <2>5. L!Metrics(rs) = Shown(rs, m)
    <3> HIDE DEF n
    <3> QED BY <2>3, MetricsAre
  <2>6. L!Metrics(ss) = Shown(ss, m)
    <3>1. ss = [i \in 1..m |-> ss[i]] /\ m = IF m <= MaxHold THEN m ELSE MaxHold
      BY <2>4
    <3> HIDE DEF ss, m
    <3> QED BY <2>4, <3>1, MetricsAre
  <2>7. \A i \in 1..m : IsReturn(rs[i]) /\ ss[i] = rs[i]
    <3> TAKE i \in 1..m
    <3>1. i \in 1..n /\ L!EntryOffset + i \in 1..card
      BY <2>3, <2>4, <1>2, ConstFacts
    <3>2. rs[i] = bars[L!Nth(L!Filed(1), L!EntryOffset + i)] - p
      BY <2>1, <3>1
    <3>3. IsReturn(bars[L!Nth(L!Filed(1), L!EntryOffset + i)] - p)
      BY <2>1, <3>1, ReturnsFacts
    <3> QED BY <3>2, <3>3
  <2>8. Shown(rs, m) = Shown(ss, m)
    <3> HIDE DEF ss, m
    <3> QED BY <2>4, <2>7, ShownSame
  <2>9. stored' = L!Metrics(ss) /\ (fresh' => m = MaxHold) /\ entry' # 0 /\ L!EntryOffset + m <= card
    <3>1. L!EntryOffset + m <= card
      BY <2>3, <2>4, <1>2, ConstFacts
    <3>2. fresh' => m = MaxHold
      BY <1>1, <2>3, <2>4
    <3> HIDE DEF ss, m
    <3> QED BY <3>1, <3>2, <1>1, <1>8, <2>5, <2>6, <2>8
  <2>10. ss = [i \in 1..m |-> bars[L!Nth(L!Filed(1), L!EntryOffset + i)] - entry']
    BY <1>1
  <2> HIDE DEF ss, m
  <2> QED BY <1>6, <2>4, <2>9, <2>10
<1> QED BY <1>5, <1>7, <1>8

-----------------------------------------------------------------------------
(* Every step keeps the invariant.                                         *)

LEMMA PathsInit ==
  ASSUME L!PathsAssumption, L!Init
  PROVE  PathsInv
<1>1. L!Window \in Nat /\ LastDay \in Nat \ {0} /\ L!Window # L!Null
  BY ConstFacts DEF L!PathsAssumption, L!Null
<1>2. PathTypes
  <2>1. today \in 1..LastDay
    BY <1>1 DEF L!Init
  <2>2. path \in [1..L!Window -> Int] /\ entry \in {0} \cup Prices
    BY DEF L!Init, L!Null
  <2> QED BY <2>1, <2>2 DEF PathTypes, L!Init
<1>3. EntryFollows
  <2>1. \A p \in Prices : p \in 1..1000
    BY DEF L!PathsAssumption
  <2>2. entryKind = "touch" => entry \in Prices
    BY DEF L!Init
  <2>3. 0 \notin 1..1000
    OBVIOUS
  <2>4. entryKind = "next_open" => entry = 0
    BY DEF L!Init
  <2> QED BY <2>1, <2>2, <2>3, <2>4 DEF EntryFollows
<1>4. WindowsAreWhole
  BY <1>1 DEF WindowsAreWhole, L!Init, L!CapturedIsBackfilled
<1>5. PeaksHaveRows
  BY DEF PeaksHaveRows, L!Init, L!PeakIsReference
<1>6. LabelsAreOfBars
  BY DEF LabelsAreOfBars, L!Init
<1> QED BY <1>2, <1>3, <1>4, <1>5, <1>6 DEF PathsInv

Night == L!Capture \/ L!Labels \/ L!Fill \/ L!Killed

\* Only bars and backtests touch the bars, the entry and the labels.
LEMMA UnmovedFacts ==
  ASSUME L!PathsAssumption, PathsInv, UNCHANGED <<L!event, today, bars>>
  PROVE  /\ EntryFollows' /\ LabelsAreOfBars' /\ LaterOnly
         /\ L!Filed(1)' = L!Filed(1) /\ L!EntryOffset' = L!EntryOffset
<1>1. UNCHANGED <<entryKind, scope, entry, entryDay, stored, fresh, rewritten, today, bars>>
  BY DEF L!event
<1>2. L!Filed(1)' = L!Filed(1) /\ L!EntryOffset' = L!EntryOffset
  BY <1>1 DEF L!Filed, L!EntryOffset
<1>3. EntryFollows'
  BY <1>1, <1>2 DEF PathsInv, EntryFollows
<1>4. LaterOnly
  BY <1>1, <1>2 DEF LaterOnly
<1>5. \A m \in 1..MaxHold : LabelsOf(m) => LabelsOf(m)'
  <2> SUFFICES ASSUME NEW m \in 1..MaxHold, LabelsOf(m) PROVE LabelsOf(m)'
    OBVIOUS
  <2>1. Returns(m)' = Returns(m)
    BY <1>1, <1>2 DEF Returns
  <2> QED BY <1>1, <1>2, <2>1 DEF LabelsOf
<1>6. LabelsAreOfBars'
  BY <1>1, <1>5 DEF PathsInv, LabelsAreOfBars
<1> QED BY <1>2, <1>3, <1>4, <1>6

LEMMA TypesStep ==
  ASSUME L!PathsAssumption, PathsInv, [L!Next]_(L!vars)
  PROVE  PathTypes'
<1> USE DEF PathsInv
<1>1. CASE L!NightBars
  <2>1. today' \in 1..LastDay
    BY <1>1 DEF L!NightBars, PathTypes, L!PathsAssumption
  <2>2. PICK p \in {0} \cup Prices : L!WriteBar(today + 1, p)
    BY <1>1 DEF L!NightBars
  <2>3. bars' \in [1..LastDay -> {0} \cup Prices] /\ edited' \in BOOLEAN /\ fresh' \in BOOLEAN /\ rewritten' \in BOOLEAN
    BY <2>2 DEF L!WriteBar, PathTypes
  <2> QED BY <1>1, <2>1, <2>3 DEF L!NightBars, PathTypes, L!Window
<1>2. CASE L!Rewrite
  BY <1>2, RewriteFacts DEF L!Rewrite, PathTypes, L!Window
<1>3. ASSUME L!CapturePath PROVE path' \in [1..L!Window -> Int] /\ seen' \in {L!Null} \cup 0..L!Window
  <2>1. CASE entry > 0 /\ scope /\ bars[1] > 0
    <3>1. path' = L!NewPath /\ seen' = L!Min({Len(L!Fwd), L!Window}) /\ entry # 0
      BY <1>3, <2>1 DEF L!CapturePath
    <3>2. L!Min({Len(L!Fwd), L!Window}) \in 0..L!Window
      <4>1. Len(L!Fwd) \in Nat /\ L!Window \in Nat
        BY FiledFacts, ConstFacts
      <4> QED BY <4>1 DEF L!Min
    <3> QED BY <3>1, <3>2, NewPathFacts
  <2>2. CASE ~ (entry > 0 /\ scope /\ bars[1] > 0)
    BY <1>3, <2>2 DEF L!CapturePath, PathTypes
  <2> QED BY <2>1, <2>2
<1>4. CASE L!Capture
  <2>1. path' \in [1..L!Window -> Int] /\ seen' \in {L!Null} \cup 0..L!Window
    BY <1>3, <1>4 DEF L!Capture, PathTypes
  <2> QED BY <1>4, <2>1 DEF L!Capture, L!event, PathTypes, L!Window
<1>5. CASE L!Backfill
  <2>1. path' \in [1..L!Window -> Int] /\ seen' \in {L!Null} \cup 0..L!Window
    BY <1>3, <1>5 DEF L!Backfill
  <2> QED BY <1>5, <2>1 DEF L!Backfill, L!event, PathTypes, L!Window
<1>6. CASE L!Labels \/ L!Fill \/ L!Killed
  BY <1>6 DEF L!Labels, L!Fill, L!Killed, L!event, PathTypes, L!Window
<1>7. CASE L!Backtest
  <2>1. UNCHANGED <<today, bars, entryKind, scope, path, seen, pathStep, rewritten>>
    BY <1>7 DEF L!Backtest
  <2>2. entry' \in {0} \cup Prices /\ fresh' \in BOOLEAN /\ edited' \in BOOLEAN
    BY <1>7, BacktestFacts
  <2> QED BY <2>1, <2>2 DEF PathTypes, L!Window
<1>8. CASE UNCHANGED L!vars
  BY <1>8 DEF L!vars, PathTypes, L!Window
<1> QED BY <1>1, <1>2, <1>4, <1>5, <1>6, <1>7, <1>8 DEF L!Next

LEMMA EntryStep ==
  ASSUME L!PathsAssumption, PathsInv, [L!Next]_(L!vars)
  PROVE  EntryFollows'
<1> USE DEF PathsInv
<1>1. CASE L!NightBars
  <2>1. UNCHANGED <<entryKind, entry>> /\ L!Filed(1) \subseteq L!Filed(1)'
    BY <1>1, NightBarIsLast DEF L!NightBars, LaterOnly
  <2> QED BY <2>1 DEF EntryFollows
<1>2. CASE L!Rewrite
  <2>1. UNCHANGED <<entryKind, entry>> /\ L!Filed(1) \subseteq L!Filed(1)'
    BY <1>2, RewriteFacts DEF L!Rewrite
  <2> QED BY <2>1 DEF EntryFollows
<1>3. CASE L!Backtest
  <2>1. /\ UNCHANGED <<today, bars, entryKind>> /\ (entryKind = "touch" => entry' = entry)
        /\ entryKind = "next_open" /\ entry' # 0 => L!Filed(1) # {}
    BY <1>3, BacktestFacts
  <2>2. L!Filed(1)' = L!Filed(1)
    BY <2>1 DEF L!Filed
  <2> QED BY <2>1, <2>2 DEF EntryFollows
<1>4. CASE L!Capture \/ L!Backfill \/ L!Labels \/ L!Fill \/ L!Killed \/ UNCHANGED L!vars
  <2>1. UNCHANGED <<L!event, today, bars>>
    BY <1>4 DEF L!Capture, L!Backfill, L!Labels, L!Fill, L!Killed, L!vars, L!event
  <2> QED BY <2>1, UnmovedFacts
<1> QED BY <1>1, <1>2, <1>3, <1>4 DEF L!Next

LEMMA SameBars ==
  ASSUME UNCHANGED <<L!event, today, bars, path>>
  PROVE  /\ L!Filed(1)' = L!Filed(1) /\ L!NewPath' = L!NewPath /\ L!Fwd' = L!Fwd /\ LaterOnly
         /\ UNCHANGED <<entryKind, scope, entry, bars>>
<1>1. UNCHANGED <<entryKind, scope, entry, today, bars, path>>
  BY DEF L!event
<1>2. L!Filed(1)' = L!Filed(1)
  BY <1>1 DEF L!Filed
<1>3. L!Fwd' = L!Fwd
  BY <1>2 DEF L!Fwd, L!After
<1>4. L!NewPath' = L!NewPath
  BY <1>1, <1>3 DEF L!NewPath, L!Window
<1>5. LaterOnly
  BY <1>1, <1>2 DEF LaterOnly
<1> QED BY <1>1, <1>2, <1>3, <1>4, <1>5

\* A capture leaves the path as a second one would.
LEMMA CaptureFacts ==
  ASSUME L!PathsAssumption, PathsInv, PathTypes', UNCHANGED <<L!event, today, bars>>,
         entry # 0, path' = L!NewPath, seen' = L!Min({Len(L!Fwd), L!Window})
  PROVE  /\ L!CaughtUp' /\ seen' # L!Null
         /\ seen' = L!Window => L!Window <= Cardinality(L!Filed(1))' /\ path' = L!NewPath'
<1>1. PathTypes /\ UNCHANGED <<entryKind, scope, entry, today, bars>>
  BY DEF L!event, PathsInv
<1>2. L!Filed(1)' = L!Filed(1)
  BY <1>1 DEF L!Filed
<1>3. L!Fwd' = L!Fwd
  BY <1>2 DEF L!Fwd, L!After
<1>4. /\ L!NewPath' = [i \in 1..L!Window |-> L!NewPath'[i]]
      /\ \A i \in 1..L!Window :
           L!NewPath'[i] = IF i <= Cardinality(L!Filed(1)) THEN bars[L!Nth(L!Filed(1), i)] - entry ELSE path'[i]
  BY <1>1, <1>2, FiledNext DEF NewPathIs, L!Window
<1>5. /\ L!NewPath = [i \in 1..L!Window |-> L!NewPath[i]]
      /\ \A i \in 1..L!Window :
           L!NewPath[i] = IF i <= Cardinality(L!Filed(1)) THEN bars[L!Nth(L!Filed(1), i)] - entry ELSE path[i]
  BY <1>1, NewPathHolds DEF NewPathIs
<1>6. \A i \in 1..L!Window : L!NewPath'[i] = L!NewPath[i]
  BY <1>4, <1>5
<1>7. L!NewPath' = path'
  BY <1>4, <1>5, <1>6
<1>8. /\ Len(L!Fwd) = Cardinality(L!Filed(1)) /\ Len(L!Fwd) \in Nat /\ L!Window \in Nat
      /\ L!Window' = L!Window
  BY <1>1, FiledFacts, ConstFacts DEF L!Window
<1>9. seen' = IF Len(L!Fwd) <= L!Window THEN Len(L!Fwd) ELSE L!Window
  BY <1>8 DEF L!Min
<1>10. seen' # L!Null /\ (seen' = L!Window => L!Window <= Len(L!Fwd))
  BY <1>8, <1>9 DEF L!Null
<1>11. L!CaughtUp'
  BY <1>3, <1>7, <1>8 DEF L!CaughtUp
<1> QED BY <1>2, <1>7, <1>8, <1>10, <1>11

LEMMA WindowsStep ==
  ASSUME L!PathsAssumption, PathsInv, PathTypes', [L!Next]_(L!vars)
  PROVE  WindowsAreWhole'
<1>1. /\ PathTypes /\ EntryFollows
      /\ seen # L!Null => scope /\ entry # 0 /\ bars[1] # 0
      /\ seen = L!Window /\ ~edited => L!Window <= Cardinality(L!Filed(1)) /\ path = L!NewPath
      /\ L!CapturedIsBackfilled
  BY DEF PathsInv, WindowsAreWhole
<1>2. /\ L!Window \in Nat /\ L!Window # L!Null /\ L!Window' = L!Window
      /\ entry # 0 => entry > 0
      /\ bars[1] # 0 => bars[1] > 0
  <2>1. \A p \in {0} \cup Prices : p # 0 => p > 0
    BY DEF L!PathsAssumption
  <2>2. entry \in {0} \cup Prices /\ bars[1] \in {0} \cup Prices
    BY <1>1 DEF PathTypes, L!PathsAssumption
  <2>3. L!Window' = L!Window
    BY DEF L!Window
  <2>4. L!Window \in Nat
    BY ConstFacts
  <2>5. L!Window # L!Null
    BY <2>4 DEF L!Null
  <2> QED BY <2>1, <2>2, <2>3, <2>4, <2>5
<1>3. CASE L!NightBars
  <2>1. UNCHANGED <<entryKind, scope, entry, path, seen>> /\ pathStep' = "capture"
    BY <1>3 DEF L!NightBars
  <2>2. bars'[1] = bars[1] /\ (seen = L!Window /\ ~edited' => ~edited)
    <3>1. PICK p \in {0} \cup Prices : L!WriteBar(today + 1, p)
      BY <1>3 DEF L!NightBars
    <3>2. today + 1 # 1 /\ 1 \in 1..LastDay
      BY <1>1 DEF PathTypes, L!PathsAssumption
    <3> QED BY <3>1, <3>2, <1>1 DEF L!WriteBar, PathTypes
  <2>3. seen = L!Window /\ ~edited' => L!Window <= Cardinality(L!Filed(1))' /\ path' = L!NewPath'
    BY <2>1, <2>2, <1>1, <1>3, NightBarIsLast, NewPathStays
  <2> QED BY <2>1, <2>2, <2>3, <1>1, <1>2 DEF WindowsAreWhole, L!CapturedIsBackfilled
<1>4. CASE L!Rewrite
  <2>1. UNCHANGED <<entryKind, scope, entry, path, seen>> /\ pathStep' = "done"
    BY <1>4 DEF L!Rewrite
  <2>2. (bars[1] # 0 => bars'[1] # 0) /\ (seen = L!Window => edited')
    BY <1>1, <1>4, RewriteFacts
  <2> QED BY <2>1, <2>2, <1>1, <1>2 DEF WindowsAreWhole, L!CapturedIsBackfilled
<1>5. ASSUME L!CapturePath, UNCHANGED <<L!event, today, bars>>
      PROVE  \/ L!CaughtUp' /\ entry' # 0 /\ scope' /\ bars'[1] # 0
                /\ (seen' = L!Window => L!Window <= Cardinality(L!Filed(1))' /\ path' = L!NewPath')
             \/ seen' = L!Null /\ ~ (entry' > 0 /\ scope' /\ bars'[1] > 0)
  <2>1. UNCHANGED <<scope, entry, bars>>
    BY <1>5 DEF L!event
  <2>2. CASE entry > 0 /\ scope /\ bars[1] > 0
    <3>1. path' = L!NewPath /\ seen' = L!Min({Len(L!Fwd), L!Window}) /\ entry # 0 /\ bars[1] # 0
      BY <1>5, <2>2 DEF L!CapturePath
    <3> QED BY <1>5, <2>1, <2>2, <3>1, CaptureFacts
  <2>3. CASE ~ (entry > 0 /\ scope /\ bars[1] > 0)
    <3>1. seen = L!Null
      BY <1>1, <1>2, <2>3
    <3>2. seen' = seen
      BY <1>5, <2>3 DEF L!CapturePath
    <3> QED BY <2>1, <2>3, <3>1, <3>2
  <2> QED BY <2>2, <2>3
<1>6. CASE L!Capture
  <2>1. UNCHANGED <<L!event, today, bars, edited>> /\ pathStep' = "labels"
    BY <1>6 DEF L!Capture
  <2>2. CASE seen < L!Window
    <3>1. L!CapturePath
      BY <1>6, <2>2 DEF L!Capture
    <3>2. \/ L!CaughtUp' /\ entry' # 0 /\ scope' /\ bars'[1] # 0
             /\ (seen' = L!Window => L!Window <= Cardinality(L!Filed(1))' /\ path' = L!NewPath')
          \/ seen' = L!Null /\ ~ (entry' > 0 /\ scope' /\ bars'[1] > 0)
      BY <1>5, <2>1, <3>1
    <3> QED BY <1>2, <2>1, <3>2 DEF WindowsAreWhole, L!CapturedIsBackfilled
  <2>3. CASE ~ (seen < L!Window)
    <3>1. UNCHANGED <<path, seen>> /\ seen = L!Window
      BY <1>6, <2>3, <1>1, <1>2 DEF L!Capture, PathTypes, L!Null
    <3>2. /\ L!Filed(1)' = L!Filed(1) /\ L!NewPath' = L!NewPath /\ L!Fwd' = L!Fwd
          /\ UNCHANGED <<entryKind, scope, entry, bars>>
      BY <2>1, <3>1, SameBars
    <3>3. ~ edited' => L!Window <= Cardinality(L!Filed(1)) /\ path' = L!NewPath'
      BY <1>1, <2>1, <3>1, <3>2
    <3>4. L!Window <= Cardinality(L!Filed(1)) => L!Min({Len(L!Fwd), L!Window}) = L!Window
      <4>1. Len(L!Fwd) = Cardinality(L!Filed(1)) /\ Len(L!Fwd) \in Nat
        BY <1>1, FiledFacts
      <4> QED BY <4>1, <1>2 DEF L!Min
    <3>5. ~ edited' => L!CaughtUp'
      BY <1>2, <3>1, <3>2, <3>3, <3>4 DEF L!CaughtUp
    <3> QED BY <1>1, <1>2, <2>1, <3>1, <3>2, <3>3, <3>5 DEF WindowsAreWhole, L!CapturedIsBackfilled
  <2> QED BY <2>2, <2>3
<1>7. CASE L!Backfill
  <2>1. L!CapturePath /\ UNCHANGED <<L!event, today, bars>> /\ pathStep' = "done"
    BY <1>7 DEF L!Backfill
  <2>2. \/ L!CaughtUp' /\ entry' # 0 /\ scope' /\ bars'[1] # 0
           /\ (seen' = L!Window => L!Window <= Cardinality(L!Filed(1))' /\ path' = L!NewPath')
        \/ seen' = L!Null /\ ~ (entry' > 0 /\ scope' /\ bars'[1] > 0)
    BY <1>5, <2>1
  <2> QED BY <1>2, <2>1, <2>2 DEF WindowsAreWhole, L!CapturedIsBackfilled
<1>8. CASE L!Labels \/ L!Fill \/ L!Killed \/ UNCHANGED L!vars
  <2>1. /\ UNCHANGED <<L!event, today, bars, path, seen, edited>>
        /\ pathStep' \in {"labels", "fill"} => pathStep \in {"labels", "fill"}
    BY <1>8 DEF L!Labels, L!Fill, L!Killed, L!vars, L!event
  <2>2. /\ L!Filed(1)' = L!Filed(1) /\ L!NewPath' = L!NewPath /\ L!Fwd' = L!Fwd
        /\ UNCHANGED <<entryKind, scope, entry, bars>>
    BY <2>1, SameBars
  <2>3. L!CaughtUp => L!CaughtUp'
    BY <1>2, <2>1, <2>2 DEF L!CaughtUp
  <2> QED BY <1>1, <1>2, <2>1, <2>2, <2>3 DEF WindowsAreWhole, L!CapturedIsBackfilled
<1>9. CASE L!Backtest
  <2>1. UNCHANGED <<today, bars, scope, path, seen, pathStep>> /\ pathStep = "done"
    BY <1>9 DEF L!Backtest
  <2>2. (entry # 0 => entry' # 0) /\ (seen = L!Window /\ ~ edited' => ~ edited /\ entry' = entry)
    BY <1>1, <1>9, BacktestFacts
  <2>3. L!Filed(1)' = L!Filed(1)
    BY <2>1 DEF L!Filed
  <2>4. LaterOnly
    BY <2>1, <2>3 DEF LaterOnly
  <2>5. seen = L!Window /\ ~ edited' => L!Window <= Cardinality(L!Filed(1))' /\ path' = L!NewPath'
    BY <1>1, <2>1, <2>2, <2>4, NewPathStays
  <2> QED BY <1>1, <1>2, <2>1, <2>2, <2>5 DEF WindowsAreWhole, L!CapturedIsBackfilled
<1> QED BY <1>3, <1>4, <1>6, <1>7, <1>8, <1>9 DEF L!Next

\* A label is of the whole window, or there is none.
LEMMA PeakFacts ==
  ASSUME L!PathsAssumption, NEW h \in Horizons, L!EntryOffset \in {0, 1}, L!Window \in Nat,
         L!PeakLabel(h) # L!Null
  PROVE  LET days == {L!EntryOffset + k : k \in 1..h}
         IN  (\A i \in days : path[i] # L!Null) /\ L!PeakLabel(h) = L!Max({path[i] : i \in days})
<1> DEFINE days == {L!EntryOffset + k : k \in 1..h}
           span == (L!EntryOffset + 1)..(L!EntryOffset + h)
<1>1. h \in Nat \ {0}
  BY ConstFacts
<1>2. Cardinality(L!Rows(h)) >= h /\ L!PeakLabel(h) = L!Max({path[i] : i \in L!Rows(h)})
  BY DEF L!PeakLabel, L!Cardinality, Cardinality
<1>3. IsFiniteSet(span) /\ Cardinality(span) = h
  <2>1. L!EntryOffset + 1 \in Int /\ L!EntryOffset + h \in Int /\ ~ (L!EntryOffset + 1 > L!EntryOffset + h)
        /\ (L!EntryOffset + h) - (L!EntryOffset + 1) + 1 = h
    BY <1>1
  <2> QED BY <2>1, FS_Interval
<1>4. L!Rows(h) \in SUBSET span
  BY DEF L!Rows
<1>5. Cardinality(L!Rows(h)) \in Nat /\ Cardinality(L!Rows(h)) <= h
  <2> HIDE DEF span
  <2>1. IsFiniteSet(L!Rows(h)) /\ Cardinality(L!Rows(h)) <= h
    BY <1>3, <1>4, FS_Subset
  <2> QED BY <2>1, FS_CardinalityType
<1>6. L!Rows(h) = span
  <2>1. Cardinality(L!Rows(h)) = h
    BY <1>1, <1>2, <1>5
  <2> HIDE DEF span
  <2> QED BY <1>3, <1>4, <2>1, FS_Subset
<1>7. span = days
  <2>1. \A i \in span : i - L!EntryOffset \in 1..h /\ i = L!EntryOffset + (i - L!EntryOffset)
    BY <1>1
  <2>2. \A k \in 1..h : L!EntryOffset + k \in span
    BY <1>1
  <2> QED BY <2>1, <2>2
<1>8. \A i \in L!Rows(h) : path[i] # L!Null
  BY DEF L!Rows
<1> HIDE DEF span, days
<1> QED BY <1>2, <1>6, <1>7, <1>8 DEF days

LEMMA PeaksStep ==
  ASSUME L!PathsAssumption, PathsInv, PathTypes', [L!Next]_(L!vars)
  PROVE  PeaksHaveRows'
<1>1. /\ PathTypes /\ WindowsAreWhole /\ L!PeakIsReference
      /\ (\E h \in Horizons : peak[h] # L!Null) => \E i \in 1..L!Window : path[i] # L!Null
      /\ L!Window' = L!Window /\ L!Window \in Nat
      /\ entry > 0 => entry # 0
  <2>1. L!Window' = L!Window
    BY DEF L!Window
  <2>2. PathTypes /\ WindowsAreWhole /\ PeaksHaveRows
    BY DEF PathsInv
  <2>3. L!Window \in Nat
    BY ConstFacts
  <2> QED BY <2>1, <2>2, <2>3 DEF PeaksHaveRows
<1>2. ASSUME L!CapturePath, NEW i \in 1..L!Window, path[i] # L!Null PROVE path'[i] # L!Null
  <2>1. CASE entry > 0 /\ scope /\ bars[1] > 0
    BY <1>1, <1>2, <2>1, NewPathFacts DEF L!CapturePath
  <2>2. CASE ~ (entry > 0 /\ scope /\ bars[1] > 0)
    BY <1>2, <2>2 DEF L!CapturePath
  <2> QED BY <2>1, <2>2
<1>3. CASE L!Capture \/ L!Backfill
  <2>1. UNCHANGED peak /\ pathStep' # "fill"
    BY <1>3 DEF L!Capture, L!Backfill, PathTypes
  <2>2. L!CapturePath \/ UNCHANGED path
    BY <1>3 DEF L!Capture, L!Backfill
  <2>3. \A i \in 1..L!Window : path[i] # L!Null => path'[i] # L!Null
    BY <1>2, <2>2
  <2> QED BY <1>1, <2>1, <2>3 DEF PeaksHaveRows, L!PeakIsReference
<1>4. CASE L!NightBars \/ L!Rewrite \/ L!Fill \/ L!Killed \/ L!Backtest
  <2>1. UNCHANGED <<peak, path>> /\ pathStep' # "fill"
    BY <1>4 DEF L!NightBars, L!Rewrite, L!Fill, L!Killed, L!Backtest
  <2> QED BY <1>1, <2>1 DEF PeaksHaveRows, L!PeakIsReference
<1>5. CASE UNCHANGED L!vars
  <2>1. UNCHANGED <<peak, path, pathStep, scope, entry, entryKind>>
    BY <1>5 DEF L!vars
  <2>2. L!EntryOffset' = L!EntryOffset
    BY <2>1 DEF L!EntryOffset
  <2> QED BY <1>1, <2>1, <2>2 DEF PeaksHaveRows, L!PeakIsReference
<1>6. CASE L!Labels
  <2>1. UNCHANGED <<path, scope, entry, entryKind>>
    BY <1>6 DEF L!Labels, L!event
  <2>2. L!EntryOffset' = L!EntryOffset /\ L!EntryOffset \in {0, 1}
    BY <2>1 DEF L!EntryOffset
  <2> DEFINE has == \E i \in 1..L!Window : path[i] # L!Null
  <2>3. CASE scope /\ entry > 0 /\ has
    <3>1. peak' = [h \in Horizons |-> L!PeakLabel(h)]
      BY <1>6, <2>3 DEF L!Labels
    <3>2. \A h \in Horizons : peak'[h] = L!PeakLabel(h)
      BY <3>1
    <3>3. ASSUME NEW h \in Horizons, peak'[h] # L!Null
          PROVE  LET days == {L!EntryOffset + k : k \in 1..h}
                 IN  (\A i \in days : path[i] # L!Null) /\ peak'[h] = L!Max({path[i] : i \in days})
      BY <1>1, <2>2, <3>2, <3>3, PeakFacts
    <3>4. L!PeakIsReference'
      BY <2>1, <2>2, <3>3 DEF L!PeakIsReference
    <3> QED BY <1>1, <2>1, <2>3, <3>4 DEF PeaksHaveRows
  <2>4. CASE ~ (scope /\ entry > 0 /\ has)
    <3>1. peak' = peak
      BY <1>6, <2>4 DEF L!Labels
    <3>2. scope /\ entry > 0 => \A h \in Horizons : peak[h] = L!Null
      BY <1>1, <2>4
    <3> QED BY <1>1, <2>1, <3>1, <3>2 DEF PeaksHaveRows, L!PeakIsReference
  <2> QED BY <2>3, <2>4
<1> QED BY <1>3, <1>4, <1>5, <1>6 DEF L!Next

LEMMA LabelsStep ==
  ASSUME L!PathsAssumption, PathsInv, PathTypes', [L!Next]_(L!vars)
  PROVE  LabelsAreOfBars'
<1>1. PathTypes /\ EntryFollows /\ LabelsAreOfBars
  BY DEF PathsInv
<1>2. ASSUME UNCHANGED <<entryKind, entry, stored>>, fresh' => fresh, ~ rewritten' => ~ rewritten,
             fresh' \/ ~ rewritten' => LaterOnly
      PROVE  LabelsAreOfBars'
  <2>1. CASE stored = L!Unresolved /\ ~ fresh
    BY <1>2, <2>1 DEF LabelsAreOfBars
  <2>2. ASSUME NEW m \in 1..MaxHold, LabelsOf(m) PROVE LabelsOf(m)'
    <3>1. fresh' => m = MaxHold
      BY <1>2, <2>2 DEF LabelsOf
    <3>2. ASSUME fresh' \/ ~ rewritten'
          PROVE  L!EntryOffset' + m <= Cardinality(L!Filed(1))' /\ stored' = L!Metrics(Returns(m)')
      <4>1. LaterOnly /\ L!EntryOffset + m <= Cardinality(L!Filed(1)) /\ stored = L!Metrics(Returns(m))
        BY <1>2, <2>2, <3>2 DEF LabelsOf
      <4>2. L!EntryOffset' + m <= Cardinality(L!Filed(1)') /\ Returns(m)' = Returns(m)
        BY <1>1, <1>2, <4>1, ReturnsStay
      <4> QED BY <1>2, <4>1, <4>2
    <3> QED BY <1>2, <2>2, <3>1, <3>2 DEF LabelsOf
  <2>3. CASE \E m \in 1..MaxHold : LabelsOf(m)
    BY <2>2, <2>3 DEF LabelsAreOfBars
  <2> QED BY <1>1, <2>1, <2>3 DEF LabelsAreOfBars
<1>3. CASE L!NightBars
  <2>1. PICK p \in {0} \cup Prices : L!WriteBar(today + 1, p)
    BY <1>3 DEF L!NightBars
  <2>2. (fresh' => fresh) /\ (~ rewritten' => ~ rewritten)
    BY <2>1 DEF L!WriteBar
  <2>3. UNCHANGED <<entryKind, entry, stored>>
    BY <1>3 DEF L!NightBars
  <2> QED BY <1>1, <1>2, <1>3, <2>2, <2>3, NightBarIsLast
<1>4. CASE L!Rewrite
  <2>1. UNCHANGED <<entryKind, entry, stored>>
    BY <1>4 DEF L!Rewrite
  <2>2. ~ fresh' /\ (~ rewritten' => ~ rewritten /\ LaterOnly)
    BY <1>1, <1>4, RewriteFacts
  <2> QED BY <1>2, <2>1, <2>2
<1>5. CASE L!Backtest
  <2>1. UNCHANGED <<today, bars, entryKind>>
    BY <1>5 DEF L!Backtest
  <2>2. L!Filed(1)' = L!Filed(1) /\ L!EntryOffset' = L!EntryOffset
    BY <2>1 DEF L!Filed, L!EntryOffset
  <2>3. CASE stored' = L!Unresolved /\ ~ fresh'
    BY <2>3 DEF LabelsAreOfBars
  <2>4. CASE \E m \in 1..MaxHold :
               /\ entry' # 0 /\ (fresh' => m = MaxHold)
               /\ L!EntryOffset + m <= Cardinality(L!Filed(1))
               /\ stored' = L!Metrics([i \in 1..m |-> bars[L!Nth(L!Filed(1), L!EntryOffset + i)] - entry'])
    <3>1. PICK m \in 1..MaxHold :
               /\ entry' # 0 /\ (fresh' => m = MaxHold)
               /\ L!EntryOffset + m <= Cardinality(L!Filed(1))
               /\ stored' = L!Metrics([i \in 1..m |-> bars[L!Nth(L!Filed(1), L!EntryOffset + i)] - entry'])
      BY <2>4
    <3>2. Returns(m)' = [i \in 1..m |-> bars[L!Nth(L!Filed(1), L!EntryOffset + i)] - entry']
      BY <2>1, <2>2 DEF Returns
    <3>3. LabelsOf(m)'
      BY <2>2, <3>1, <3>2 DEF LabelsOf
    <3> QED BY <3>3 DEF LabelsAreOfBars
  <2> QED BY <1>1, <1>5, <2>3, <2>4, BacktestFacts
<1>6. CASE L!Capture \/ L!Backfill \/ L!Labels \/ L!Fill \/ L!Killed \/ UNCHANGED L!vars
  <2>1. UNCHANGED <<L!event, today, bars>>
    BY <1>6 DEF L!Capture, L!Backfill, L!Labels, L!Fill, L!Killed, L!vars, L!event
  <2> QED BY <2>1, UnmovedFacts
<1> QED BY <1>3, <1>4, <1>5, <1>6 DEF L!Next

-----------------------------------------------------------------------------
(* What follows.                                                           *)

\* While the labels are of the bars, and the path too, they agree.
LEMMA LabelsOnPath ==
  ASSUME L!PathsAssumption, PathsInv, path = L!NewPath, fresh \/ ~ rewritten,
         ~ (stored = L!Unresolved /\ ~ fresh)
  PROVE  /\ stored.held # L!Null /\ L!Derived.mfe # L!Null
         /\ L!Derived.mfe = stored.mfe /\ L!Derived.when = stored.when
         /\ ~ (L!Derived.mfe < stored.exit)
         /\ fresh => L!Derived.touched = stored.touched /\ L!Derived.day = stored.day
<1>1. PathTypes /\ LabelsAreOfBars
  BY DEF PathsInv
<1>2. PICK m \in 1..MaxHold : LabelsOf(m)
  BY <1>1 DEF LabelsAreOfBars
<1>3. /\ entry # 0 /\ entry \in Prices /\ (fresh => m = MaxHold)
      /\ L!EntryOffset + m <= Cardinality(L!Filed(1)) /\ stored = L!Metrics(Returns(m))
  BY <1>1, <1>2 DEF LabelsOf, PathTypes
<1>4. /\ L!EntryOffset \in {0, 1} /\ L!Window \in Nat /\ MaxHold \in Nat \ {0} /\ MaxHold + 1 <= L!Window
      /\ m \in Nat \ {0} /\ m <= MaxHold /\ L!EntryOffset + m <= L!Window
      /\ Cardinality(L!Filed(1)) \in Nat
  BY <1>1, ConstFacts, FiledFacts
<1> DEFINE rs == Returns(m)
<1>5. \A i \in 1..m : /\ L!EntryOffset + i \in 1..Cardinality(L!Filed(1)) /\ L!EntryOffset + i \in 1..L!Window
                      /\ L!EntryOffset + i <= Cardinality(L!Filed(1))
                      /\ rs[i] = bars[L!Nth(L!Filed(1), L!EntryOffset + i)] - entry
  BY <1>3, <1>4 DEF Returns
<1>6. rs = [i \in 1..m |-> rs[i]]
  BY DEF Returns
<1> HIDE DEF rs
<1>7. \A i \in 1..m : IsReturn(rs[i]) /\ path[L!EntryOffset + i] = rs[i]
  <2> TAKE i \in 1..m
  <2>1. IsReturn(bars[L!Nth(L!Filed(1), L!EntryOffset + i)] - entry)
    BY <1>1, <1>3, <1>5, ReturnsFacts
  <2>2. L!NewPath[L!EntryOffset + i] = bars[L!Nth(L!Filed(1), L!EntryOffset + i)] - entry
    BY <1>1, <1>5, NewPathFacts
  <2> QED BY <2>1, <2>2, <1>5
<1>8. stored = Shown(rs, m)
  <2>1. m = IF m <= MaxHold THEN m ELSE MaxHold
    BY <1>4
  <2>2. L!Metrics(rs) = Shown(rs, m)
    BY <1>4, <1>6, <2>1, MetricsAre
  <2> QED BY <1>3, <2>2 DEF rs
<1> QED BY <1>3, <1>4, <1>7, <1>8, DerivedFacts

LEMMA LabelsFollow ==
  ASSUME L!PathsAssumption, PathsInv
  PROVE  L!LabelsReconcile /\ L!QuietTimesPass
<1>1. L!Unresolved.held = L!Null /\ L!Derived \in {L!Derived}
  BY DEF L!Unresolved
<1>2. L!LabelsReconcile
  <2> SUFFICES ASSUME fresh, path = L!NewPath PROVE L!Differ = {}
    BY DEF L!LabelsReconcile
  <2>1. /\ L!Derived.mfe = stored.mfe /\ L!Derived.when = stored.when
        /\ L!Derived.touched = stored.touched /\ L!Derived.day = stored.day
    BY LabelsOnPath
  <2> QED BY <2>1 DEF L!Differ
<1>3. L!QuietTimesPass
  <2> SUFFICES ASSUME ~ rewritten, L!CaughtUp PROVE L!GatePasses
    BY DEF L!QuietTimesPass
  <2>1. path = L!NewPath /\ seen = L!Min({Len(L!Fwd), L!Window})
    BY DEF L!CaughtUp
  <2>2. seen # L!Null
    <3>1. Len(L!Fwd) \in Nat /\ L!Window \in Nat
      BY FiledFacts, ConstFacts DEF PathsInv
    <3> QED BY <2>1, <3>1 DEF L!Min, L!Null
  <2>3. CASE stored = L!Unresolved /\ ~ fresh
    <3>1. L!Derived = stored
      BY <1>1, <2>3 DEF L!Derived
    <3>2. stored.held = L!Null /\ stored.mfe = L!Null
      BY <2>3 DEF L!Unresolved
    <3> QED BY <3>1, <3>2 DEF L!GatePasses, L!Raises, L!Uncovered, L!PeakBelowExit, L!Unexplained, L!Differ
  <2>4. CASE ~ (stored = L!Unresolved /\ ~ fresh)
    <3>1. /\ L!Derived.mfe = stored.mfe /\ L!Derived.when = stored.when
          /\ ~ (L!Derived.mfe < stored.exit)
      BY <2>1, <2>4, LabelsOnPath
    <3>2. L!Differ \subseteq L!Explained
      BY <3>1 DEF L!Differ, L!Explained, L!Reach
    <3>3. ~ L!PeakBelowExit
      BY <3>1 DEF L!PeakBelowExit
    <3> QED BY <2>2, <3>2, <3>3 DEF L!GatePasses, L!Raises, L!Uncovered, L!Unexplained
  <2> QED BY <2>3, <2>4
<1> QED BY <1>2, <1>3

\* For any bars, horizons and holding period, and however nights, deaths, rewrites and
\* backtests come: a path caught up is the backfill's, a peak is of the whole window
\* after the entry, stored labels of a closed window agree with those of the path, and
\* the gate passes in quiet times (path_backfill, peak_labels, path_reconcile).
THEOREM PathsAreOfTheBars ==
  ASSUME L!PathsAssumption
  PROVE  L!Spec => [](L!CapturedIsBackfilled /\ L!PeakIsReference /\ L!LabelsReconcile /\ L!QuietTimesPass)
<1>1. L!Init => PathsInv
  BY PathsInit
<1>2. PathsInv /\ [L!Next]_(L!vars) => PathsInv'
  <2> SUFFICES ASSUME PathsInv, [L!Next]_(L!vars) PROVE PathsInv'
    OBVIOUS
  <2>1. PathTypes'
    BY TypesStep
  <2> QED BY <2>1, EntryStep, WindowsStep, PeaksStep, LabelsStep DEF PathsInv
<1>3. PathsInv => L!CapturedIsBackfilled /\ L!PeakIsReference /\ L!LabelsReconcile /\ L!QuietTimesPass
  BY LabelsFollow DEF PathsInv, WindowsAreWhole, PeaksHaveRows
<1> QED BY <1>1, <1>2, <1>3, PTL DEF L!Spec

-----------------------------------------------------------------------------
(* `cscan backtest`: the inductive invariant.                              *)

CommandIsRecord ==
  command \in [name : {"idle", "backtest", "backtest_sweep", "backtest_compute"}, config : K!Configs,
               todo : {command.todo}, tickers : {command.tickers}, run : {command.run}, full : BOOLEAN,
               failed : {command.failed}, chunk : {command.chunk}, of : {command.of}, written : BOOLEAN]

\* A row is of a ticker that fires.
RowsAreOfFires ==
  /\ fires \subseteq K!Universe
  /\ DOMAIN tagged = K!Configs
  /\ \A c \in K!Configs :
       /\ tagged[c] = [t \in K!Universe |-> tagged[c][t]]
       /\ \A t \in K!Universe : tagged[c][t] # K!Absent => t \in fires

\* What is under way: a run that counts as full has every ticker, and one of the sweep
\* is of a member that is not swept.
CommandIsOfItsKind ==
  /\ command.full => command.run \in {{}, K!Universe}
  /\ command.name = "idle" => command = K!Idle
  /\ command.name \in {"backtest", "backtest_compute"} => command.config = Base
  /\ command.name = "backtest_compute" => ~command.full
  /\ command.name = "backtest_sweep" =>
       /\ command.full => command.tickers = K!Universe
       /\ command.todo \in Seq(K!ToSet(Members))
       /\ command.run # {} =>
            /\ command.config \in K!ToSet(Members) /\ ~K!Swept(command.config)
            /\ command.todo # <<>>
  /\ command.written => command.run # {}

\* A run of the whole universe without a failed ticker has written all of it.
WrittenIsWhole ==
  command.written /\ command.full /\ command.failed = {} => K!Whole(command.config)

BacktestsInv ==
  /\ CommandIsRecord /\ RowsAreOfFires /\ CommandIsOfItsKind /\ WrittenIsWhole /\ K!SweptIsWhole

-----------------------------------------------------------------------------
(* `cscan backtest`: the steps.                                            *)

LEMMA FiresAreFinite ==
  ASSUME K!BacktestsAssumption, fires \subseteq K!Universe
  PROVE  Cardinality(fires) \in Nat
<1>1. Names \in Seq(K!ToSet(Names))
  BY DEF K!BacktestsAssumption
<1>2. Len(Names) \in Nat /\ DOMAIN Names = 1..Len(Names)
  BY <1>1
<1> DEFINE f == [i \in 1..Len(Names) |-> Names[i]]
<1>3. IsFiniteSet({f[i] : i \in 1..Len(Names)})
  <2>1. f = [i \in 1..Len(Names) |-> f[i]] /\ IsFiniteSet(1..Len(Names))
    BY <1>2, FS_Interval
  <2> HIDE DEF f
  <2> QED BY <2>1, FiniteImage
<1>4. K!Universe = {f[i] : i \in 1..Len(Names)}
  BY <1>2 DEF K!Universe, K!ToSet
<1> HIDE DEF f
<1> QED BY <1>3, <1>4, FS_Subset, FS_CardinalityType

\* What a write leaves whole, and what it makes whole.
LEMMA WrittenFacts ==
  ASSUME K!BacktestsAssumption, RowsAreOfFires, NEW c \in K!Configs, NEW S, NEW full \in BOOLEAN,
         tagged' = K!Written(c, S, full), UNCHANGED fires
  PROVE  /\ RowsAreOfFires'
         /\ \A d \in K!Configs : d # c => tagged'[d] = tagged[d]
         /\ full /\ S = K!Universe => K!Whole(c)'
         /\ ~full /\ K!Whole(c) => K!Whole(c)'
<1>1. Cardinality(fires) \in Nat
  BY FiresAreFinite DEF RowsAreOfFires
<1> DEFINE new == [t \in K!Universe |->
                     IF t \in fires \cap S /\ (full \/ tagged[c][t] = K!Absent)
                     THEN K!Count(S) ELSE tagged[c][t]]
<1>2. tagged' = [tagged EXCEPT ![c] = new]
  BY DEF K!Written
<1> HIDE DEF new
<1>3. DOMAIN tagged' = K!Configs /\ tagged'[c] = new /\ \A d \in K!Configs : d # c => tagged'[d] = tagged[d]
  BY <1>2 DEF RowsAreOfFires
<1>4. new = [t \in K!Universe |-> new[t]]
  BY DEF new
<1>5. \A t \in K!Universe : new[t] # K!Absent => t \in fires
  BY DEF new, RowsAreOfFires
<1>6. RowsAreOfFires'
  <2>1. \A d \in K!Configs : /\ tagged'[d] = [t \in K!Universe |-> tagged'[d][t]]
                             /\ \A t \in K!Universe : tagged'[d][t] # K!Absent => t \in fires
    BY <1>3, <1>4, <1>5 DEF RowsAreOfFires
  <2> QED BY <1>3, <2>1 DEF RowsAreOfFires, K!Configs, K!Universe, K!Absent
<1>7. ASSUME full, S = K!Universe PROVE K!Whole(c)'
  <2>1. K!Count(S) = Cardinality(fires)
    <3>1. fires \cap S = fires
      BY <1>7 DEF RowsAreOfFires
    <3> QED BY <3>1 DEF K!Count, K!Cardinality, Cardinality
  <2>2. \A t \in fires : new[t] = Cardinality(fires)
    BY <1>7, <2>1 DEF new, RowsAreOfFires
  <2> QED BY <1>3, <2>2 DEF K!Whole, K!Cardinality, Cardinality
<1>8. ASSUME ~full, K!Whole(c) PROVE K!Whole(c)'
  <2>1. \A t \in fires : tagged[c][t] = Cardinality(fires)
    BY <1>8 DEF K!Whole, K!Cardinality, Cardinality
  <2>2. \A t \in fires : new[t] = Cardinality(fires)
    BY <1>1, <1>8, <2>1 DEF new, RowsAreOfFires, K!Absent
  <2> QED BY <1>3, <2>2 DEF K!Whole, K!Cardinality, Cardinality
<1> QED BY <1>3, <1>6, <1>7, <1>8

LEMMA SameRows ==
  ASSUME RowsAreOfFires, UNCHANGED <<fires, tagged>>
  PROVE  RowsAreOfFires' /\ \A c \in K!Configs : K!Whole(c)' <=> K!Whole(c)
BY DEF RowsAreOfFires, K!Configs, K!Universe, K!Absent, K!Whole, K!Cardinality

\* A row of the ledger sweeps a member only if it is of a sweep that ended well.
LEMMA SweptBy ==
  ASSUME NEW e, closed' = closed \cup {e}, NEW c, K!Swept(c)'
  PROVE  K!Swept(c) \/ (e.job = "backtest_sweep" /\ e.config = c /\ e.status = "ok" /\ ~e.notes /\ e.full)
BY DEF K!Swept

LEMMA IdleCommand ==
  ASSUME command' = K!Idle
  PROVE  CommandIsRecord' /\ CommandIsOfItsKind' /\ WrittenIsWhole'
<1>1. CommandIsRecord'
  BY DEF CommandIsRecord, K!Idle, K!Configs
<1>2. CommandIsOfItsKind' /\ WrittenIsWhole'
  BY DEF CommandIsOfItsKind, WrittenIsWhole, K!Idle
<1> QED BY <1>1, <1>2

\* A command that only opens, skips or starts: rows and ledger stay.
LEMMA CommandStep ==
  ASSUME BacktestsInv, UNCHANGED <<fires, tagged, closed>>, CommandIsRecord', CommandIsOfItsKind',
         ~command'.written
  PROVE  BacktestsInv'
<1>1. RowsAreOfFires' /\ \A c \in K!Configs : K!Whole(c)' <=> K!Whole(c)
  BY SameRows DEF BacktestsInv
<1>2. K!SweptIsWhole'
  BY <1>1 DEF BacktestsInv, K!SweptIsWhole, K!Swept, K!Configs
<1>3. WrittenIsWhole'
  BY DEF WrittenIsWhole
<1> QED BY <1>1, <1>2, <1>3 DEF BacktestsInv

LEMMA RunStep == ASSUME K!BacktestsAssumption, BacktestsInv, K!RunBacktest PROVE BacktestsInv'
<1>1. /\ CommandIsRecord /\ RowsAreOfFires /\ CommandIsOfItsKind /\ K!SweptIsWhole
      /\ command.config \in K!Configs /\ command.full \in BOOLEAN
  BY DEF BacktestsInv, CommandIsRecord
<1>2. PICK raised \in SUBSET command.run :
        /\ tagged' = K!Written(command.config, command.run \ raised, command.full)
        /\ command' = [command EXCEPT !.failed = raised, !.written = TRUE]
  BY DEF K!RunBacktest
<1>3. command.run # {} /\ UNCHANGED <<fires, closed>> /\ command.name # "idle"
  BY <1>1 DEF K!RunBacktest, K!data, CommandIsOfItsKind, K!Idle
<1>4. /\ command'.failed = raised /\ command'.written = TRUE
      /\ \A f \in {"name", "config", "todo", "tickers", "run", "full", "chunk", "of"} : command'[f] = command[f]
      /\ CommandIsRecord'
  BY <1>1, <1>2 DEF CommandIsRecord, K!Configs
<1>5. CommandIsOfItsKind'
  BY <1>1, <1>3, <1>4 DEF CommandIsOfItsKind, K!Universe, K!Swept, K!ToSet
<1>6. PICK mine \in K!Configs : mine = command.config
  BY <1>1
<1>7. /\ RowsAreOfFires'
      /\ \A d \in K!Configs : d # mine => tagged'[d] = tagged[d]
      /\ command.full /\ command.run \ raised = K!Universe => K!Whole(mine)'
  <2>1. tagged' = K!Written(mine, command.run \ raised, command.full)
    BY <1>2, <1>6
  <2> QED BY <1>1, <1>3, <2>1, WrittenFacts
<1>8. WrittenIsWhole'
  <2> SUFFICES ASSUME command.full, raised = {} PROVE K!Whole(mine)'
    BY <1>4, <1>6 DEF WrittenIsWhole, K!Whole, K!Cardinality
  <2>1. command.run \ raised = K!Universe
    BY <1>1, <1>3 DEF CommandIsOfItsKind
  <2> QED BY <1>7, <2>1
<1>9. K!SweptIsWhole'
  <2> SUFFICES ASSUME NEW c \in K!ToSet(Members), K!Swept(c) PROVE K!Whole(c)'
    BY <1>3 DEF K!SweptIsWhole, K!Swept
  <2>1. K!Whole(c)
    BY <1>1 DEF K!SweptIsWhole
  <2>2. c # command.config
    BY <1>1, <1>3 DEF CommandIsOfItsKind, CommandIsRecord, K!BacktestsAssumption
  <2>3. tagged'[c] = tagged[c]
    BY <1>6, <1>7, <2>2 DEF K!Configs
  <2> QED BY <1>3, <2>1, <2>3 DEF K!Whole, K!Cardinality
<1> QED BY <1>4, <1>5, <1>7, <1>8, <1>9 DEF BacktestsInv

\* A command ends or a part of it does: rows stay, the ledger may get a row.
LEMMA CloseStep ==
  ASSUME BacktestsInv, UNCHANGED <<fires, tagged>>, CommandIsRecord', CommandIsOfItsKind',
         ~command'.written,
         closed' = closed \/ \E e : /\ closed' = closed \cup {e}
                                    /\ e.job = "backtest_sweep" /\ e.status = "ok" /\ ~e.notes /\ e.full =>
                                         e.config \in K!Configs /\ K!Whole(e.config)
  PROVE  BacktestsInv'
<1>1. RowsAreOfFires' /\ \A c \in K!Configs : K!Whole(c)' <=> K!Whole(c)
  BY SameRows DEF BacktestsInv
<1>2. K!SweptIsWhole'
  <2> SUFFICES ASSUME NEW c \in K!ToSet(Members), K!Swept(c)' PROVE K!Whole(c)'
    BY DEF K!SweptIsWhole
  <2>1. c \in K!Configs
    BY DEF K!Configs
  <2>2. CASE closed' = closed
    BY <1>1, <2>1, <2>2 DEF BacktestsInv, K!SweptIsWhole, K!Swept
  <2>3. CASE closed' # closed
    <3>1. PICK e : /\ closed' = closed \cup {e}
                   /\ e.job = "backtest_sweep" /\ e.status = "ok" /\ ~e.notes /\ e.full => K!Whole(e.config)
      BY <2>3
    <3>2. K!Swept(c) \/ (e.job = "backtest_sweep" /\ e.config = c /\ e.status = "ok" /\ ~e.notes /\ e.full)
      BY <3>1, SweptBy
    <3>3. K!Whole(c)
      BY <3>1, <3>2 DEF BacktestsInv, K!SweptIsWhole
    <3> QED BY <1>1, <2>1, <3>3
  <2> QED BY <2>2, <2>3
<1>3. WrittenIsWhole'
  BY DEF WrittenIsWhole
<1> QED BY <1>1, <1>2, <1>3 DEF BacktestsInv

LEMMA FinalizeStep == ASSUME K!BacktestsAssumption, BacktestsInv, K!Finalize
  PROVE  BacktestsInv' /\ \A c \in K!Configs : K!Whole(c) => K!Whole(c)'
<1>1. /\ CommandIsRecord /\ RowsAreOfFires /\ command = K!Idle /\ UNCHANGED <<fires, command, closed>>
  BY DEF BacktestsInv, K!Finalize, K!data
<1> DEFINE there == {t \in K!Universe : tagged[Base][t] # K!Absent}
           new == [t \in K!Universe |-> IF t \in there THEN Cardinality(there) ELSE K!Absent]
<1>2. tagged' = [tagged EXCEPT ![Base] = new]
  BY DEF K!Finalize, K!Cardinality, Cardinality
<1>3. there \subseteq fires
  BY <1>1 DEF RowsAreOfFires, K!Configs
<1>4. new = [t \in K!Universe |-> new[t]] /\ (\A t \in K!Universe : new[t] # K!Absent => t \in fires)
  BY <1>3
<1>5. K!Whole(Base) => \A t \in fires : new[t] = Cardinality(fires)
  <2> SUFFICES ASSUME \A t \in fires : tagged[Base][t] = Cardinality(fires)
               PROVE  \A t \in fires : new[t] = Cardinality(fires)
    BY DEF K!Whole, K!Cardinality, Cardinality
  <2>1. Cardinality(fires) \in Nat /\ fires \subseteq K!Universe
    BY <1>1, FiresAreFinite DEF RowsAreOfFires
  <2>2. \A t \in fires : tagged[Base][t] # K!Absent
    BY <2>1 DEF K!Absent
  <2>3. there = fires
    BY <1>3, <2>1, <2>2
  <2> QED BY <2>1, <2>3
<1> HIDE DEF there, new
<1>6. /\ DOMAIN tagged' = K!Configs /\ tagged'[Base] = new
      /\ \A d \in K!Configs : d # Base => tagged'[d] = tagged[d]
  BY <1>1, <1>2 DEF RowsAreOfFires, K!Configs
<1>7. RowsAreOfFires'
  <2>1. \A d \in K!Configs : /\ tagged'[d] = [t \in K!Universe |-> tagged'[d][t]]
                             /\ \A t \in K!Universe : tagged'[d][t] # K!Absent => t \in fires
    BY <1>1, <1>4, <1>6 DEF RowsAreOfFires
  <2> QED BY <1>1, <1>6, <2>1 DEF RowsAreOfFires, K!Configs, K!Universe, K!Absent
<1>8. \A c \in K!Configs : K!Whole(c) => K!Whole(c)'
  <2> TAKE c \in K!Configs
  <2>1. CASE c = Base
    BY <1>1, <1>5, <1>6, <2>1 DEF K!Whole, K!Cardinality, Cardinality
  <2>2. CASE c # Base
    BY <1>1, <1>6, <2>2 DEF K!Whole, K!Cardinality
  <2> QED BY <2>1, <2>2
<1>9. K!SweptIsWhole'
  BY <1>1, <1>8 DEF K!SweptIsWhole, K!Swept, K!Configs, BacktestsInv
<1> QED BY <1>1, <1>7, <1>8, <1>9, IdleCommand DEF BacktestsInv

\* The nightly's row is of a ticker that had none, so that no configuration was whole.
LEMMA ScanStep == ASSUME K!BacktestsAssumption, BacktestsInv, NEW u \in K!Universe, K!Scan(u)
  PROVE  BacktestsInv' /\ \A c \in K!Configs : K!Whole(c) => K!Whole(c)'
<1>1. /\ RowsAreOfFires /\ UNCHANGED <<fires, command, closed>>
      /\ u \in fires /\ tagged[Base][u] = K!Absent
  BY DEF BacktestsInv, K!Scan, K!data
<1> DEFINE new == [tagged[Base] EXCEPT ![u] = K!Null]
<1>2. tagged' = [tagged EXCEPT ![Base] = new]
  BY DEF K!Scan
<1>3. tagged[Base] = [t \in K!Universe |-> tagged[Base][t]]
  BY <1>1 DEF RowsAreOfFires, K!Configs
<1>4. new = [t \in K!Universe |-> new[t]] /\ \A t \in K!Universe : t # u => new[t] = tagged[Base][t]
  BY <1>3
<1> HIDE DEF new
<1>5. /\ DOMAIN tagged' = K!Configs /\ tagged'[Base] = new
      /\ \A d \in K!Configs : d # Base => tagged'[d] = tagged[d]
  BY <1>1, <1>2 DEF RowsAreOfFires, K!Configs
<1>6. RowsAreOfFires'
  <2>1. \A d \in K!Configs : /\ tagged'[d] = [t \in K!Universe |-> tagged'[d][t]]
                             /\ \A t \in K!Universe : tagged'[d][t] # K!Absent => t \in fires
    BY <1>1, <1>4, <1>5 DEF RowsAreOfFires
  <2> QED BY <1>1, <1>5, <2>1 DEF RowsAreOfFires, K!Configs, K!Universe, K!Absent
<1>7. ~K!Whole(Base)
  <2>1. Cardinality(fires) # K!Absent
    BY <1>1, FiresAreFinite DEF RowsAreOfFires, K!Absent
  <2> QED BY <1>1, <2>1 DEF K!Whole, K!Cardinality, Cardinality
<1>8. \A c \in K!Configs : K!Whole(c) => K!Whole(c)'
  BY <1>1, <1>5, <1>7 DEF K!Whole, K!Cardinality
<1>9. K!SweptIsWhole'
  BY <1>1, <1>8 DEF K!SweptIsWhole, K!Swept, K!Configs, BacktestsInv
<1>10. CommandIsRecord' /\ CommandIsOfItsKind'
  BY <1>1 DEF BacktestsInv, CommandIsRecord, CommandIsOfItsKind, K!Configs, K!Universe, K!Swept, K!Idle, K!ToSet
<1>11. WrittenIsWhole'
  BY <1>1, <1>8 DEF BacktestsInv, WrittenIsWhole, CommandIsRecord
<1> QED BY <1>6, <1>8, <1>9, <1>10, <1>11 DEF BacktestsInv

LEMMA CommandsStart ==
  ASSUME K!BacktestsAssumption, BacktestsInv,
         \/ \E S \in SUBSET K!Universe \ {{}} : K!StartAll(S) \/ K!StartSweep(S)
         \/ \E z \in ChunkSizes : K!StartCompute(z)
  PROVE  BacktestsInv' /\ tagged' = tagged /\ fires' = fires
<1>1. UNCHANGED <<fires, tagged, closed>>
  BY DEF K!StartAll, K!StartSweep, K!StartCompute, K!data
<1>2. Members \in Seq(K!ToSet(Members))
  BY DEF K!BacktestsAssumption
<1>3. ASSUME NEW S \in SUBSET K!Universe \ {{}}, K!StartAll(S) PROVE BacktestsInv'
  <2>1. command' = [K!Idle EXCEPT !.name = "backtest", !.run = S, !.full = S = K!Universe]
    BY <1>3 DEF K!StartAll
  <2>2. CommandIsRecord' /\ ~command'.written
    BY <2>1 DEF CommandIsRecord, K!Idle, K!Configs
  <2>3. CommandIsOfItsKind'
    BY <2>1 DEF CommandIsOfItsKind, K!Idle, K!Universe, K!ToSet
  <2> QED BY <1>1, <2>2, <2>3, CommandStep
<1>4. ASSUME NEW S \in SUBSET K!Universe \ {{}}, K!StartSweep(S) PROVE BacktestsInv'
  <2>1. command' = [K!Idle EXCEPT !.name = "backtest_sweep", !.todo = Members,
                                  !.full = S = K!Universe, !.tickers = S]
    BY <1>4 DEF K!StartSweep
  <2>2. CommandIsRecord' /\ ~command'.written
    BY <2>1 DEF CommandIsRecord, K!Idle, K!Configs
  <2>3. CommandIsOfItsKind'
    BY <1>2, <2>1 DEF CommandIsOfItsKind, K!Idle, K!Universe, K!ToSet
  <2> QED BY <1>1, <2>2, <2>3, CommandStep
<1>5. ASSUME NEW z \in ChunkSizes, K!StartCompute(z) PROVE BacktestsInv'
  <2> DEFINE todo == K!Chunked(Names, z)
  <2>1. command' = [K!Idle EXCEPT !.name = "backtest_compute", !.todo = todo, !.of = Len(todo)]
    BY <1>5 DEF K!StartCompute
  <2> HIDE DEF todo
  <2>2. CommandIsRecord' /\ ~command'.written
    BY <2>1 DEF CommandIsRecord, K!Idle, K!Configs
  <2>3. CommandIsOfItsKind'
    BY <2>1 DEF CommandIsOfItsKind, K!Idle, K!Universe, K!ToSet
  <2> QED BY <1>1, <2>2, <2>3, CommandStep
<1> QED BY <1>1, <1>3, <1>4, <1>5

LEMMA CommandsGoOn ==
  ASSUME K!BacktestsAssumption, BacktestsInv, K!NextMember \/ K!NextChunk
  PROVE  BacktestsInv' /\ tagged' = tagged /\ fires' = fires
<1>1. UNCHANGED <<fires, tagged, closed>> /\ CommandIsRecord /\ CommandIsOfItsKind /\ command.run = {}
      /\ ~command.written
  BY DEF K!NextMember, K!NextChunk, K!data, BacktestsInv, CommandIsOfItsKind
<1>2. CASE command' = K!Idle
  BY <1>1, <1>2, IdleCommand, CommandStep DEF K!Idle
<1>3. CASE K!NextMember /\ command' # K!Idle
  <2>1. /\ command.name = "backtest_sweep" /\ command.todo \in Seq(K!ToSet(Members)) /\ command.todo # <<>>
        /\ command.full => command.tickers = K!Universe
    BY <1>1, <1>3 DEF K!NextMember, CommandIsOfItsKind
  <2>2. /\ Head(command.todo) \in K!ToSet(Members) /\ Tail(command.todo) \in Seq(K!ToSet(Members))
    BY <2>1
  <2>3. CASE K!Swept(Head(command.todo))
    <3>1. command' = [command EXCEPT !.todo = Tail(@)]
      BY <1>3, <2>1, <2>3 DEF K!NextMember
    <3>2. CommandIsRecord' /\ ~command'.written
      BY <1>1, <3>1 DEF CommandIsRecord, K!Configs
    <3>3. CommandIsOfItsKind'
      BY <1>1, <2>1, <2>2, <3>1 DEF CommandIsOfItsKind, CommandIsRecord, K!Idle, K!Universe, K!ToSet, K!Swept
    <3> QED BY <1>1, <3>2, <3>3, CommandStep
  <2>4. CASE ~K!Swept(Head(command.todo))
    <3>1. command' = [command EXCEPT !.config = Head(command.todo), !.run = command.tickers, !.failed = {},
                                     !.written = FALSE]
      BY <1>3, <2>1, <2>4 DEF K!NextMember, K!Opened
    <3>2. CommandIsRecord' /\ ~command'.written
      BY <1>1, <2>2, <3>1 DEF CommandIsRecord, K!Configs
    <3>3. CommandIsOfItsKind'
      BY <1>1, <2>1, <2>2, <2>4, <3>1 DEF CommandIsOfItsKind, CommandIsRecord, K!Idle, K!Universe, K!ToSet, K!Swept
    <3> QED BY <1>1, <3>2, <3>3, CommandStep
  <2> QED BY <2>3, <2>4
<1>4. CASE K!NextChunk /\ command' # K!Idle
  <2>1. command.name = "backtest_compute" /\ ~command.full
    BY <1>1, <1>4 DEF K!NextChunk, CommandIsOfItsKind
  <2>2. \/ command' = [command EXCEPT !.chunk = @ + 1]
        \/ command' = [K!Opened(command, Base, K!ToSet(command.todo[command.chunk + 1])) EXCEPT !.chunk = @ + 1]
    BY <1>4 DEF K!NextChunk
  <2> DEFINE slice == K!ToSet(command.todo[command.chunk + 1])
  <2>3. CommandIsRecord' /\ ~command'.written /\ command'.name = command.name /\ command'.full = command.full
        /\ command'.config \in {command.config, Base} /\ (command'.run = {} \/ ~command'.written)
    <3> HIDE DEF slice
    <3> QED BY <1>1, <2>2 DEF CommandIsRecord, K!Configs, K!Opened, slice
  <2>4. CommandIsOfItsKind'
    BY <1>1, <2>1, <2>3 DEF CommandIsOfItsKind, K!Universe, K!ToSet, K!Swept, K!Idle
  <2> QED BY <1>1, <2>3, <2>4, CommandStep
<1> QED BY <1>1, <1>2, <1>3, <1>4

LEMMA CommandsEnd ==
  ASSUME K!BacktestsAssumption, BacktestsInv,
         K!EveryWorkerRaises \/ K!CloseAll \/ K!CloseMember \/ K!CloseChunk \/ K!Interrupt
  PROVE  BacktestsInv' /\ tagged' = tagged /\ fires' = fires
<1>1. UNCHANGED <<fires, tagged>> /\ CommandIsRecord /\ CommandIsOfItsKind
  BY DEF K!EveryWorkerRaises, K!CloseAll, K!CloseMember, K!CloseChunk, K!Interrupt, K!data, BacktestsInv
<1>2. CASE K!EveryWorkerRaises
  <2> DEFINE e == K!Entry(command.name, command.config, "failed", TRUE, command.full, command.chunk, command.of)
  <2>1. command' = K!Idle /\ closed' = closed \cup {e} /\ e.status # "ok"
    BY <1>2 DEF K!EveryWorkerRaises, K!Entry
  <2> HIDE DEF e
  <2> QED BY <1>1, <2>1, IdleCommand, CloseStep DEF K!Idle
<1>3. CASE K!CloseAll
  <2>1. command' = K!Idle /\ \E status : closed' = closed \cup
                               {K!Entry("backtest", Base, status, TRUE, command.full, 0, 0)}
    BY <1>3 DEF K!CloseAll
  <2>2. PICK status : closed' = closed \cup {K!Entry("backtest", Base, status, TRUE, command.full, 0, 0)}
    BY <2>1
  <2> DEFINE e == K!Entry("backtest", Base, status, TRUE, command.full, 0, 0)
  <2>3. closed' = closed \cup {e} /\ e.job = "backtest"
    BY <2>2 DEF K!Entry
  <2> HIDE DEF e
  <2> QED BY <1>1, <2>1, <2>3, IdleCommand, CloseStep DEF K!Idle
<1>4. CASE K!Interrupt
  BY <1>1, <1>4, IdleCommand, CloseStep DEF K!Interrupt, K!Idle
<1>5. CASE K!CloseChunk
  <2>1. command.name = "backtest_compute" /\ ~command.full
    BY <1>1, <1>5 DEF K!CloseChunk, CommandIsOfItsKind
  <2> DEFINE e == K!Entry("backtest_compute", Base, "ok", command.failed # {}, FALSE, command.chunk, command.of)
  <2>2. /\ command' = [command EXCEPT !.config = Base, !.run = {}, !.failed = {}, !.written = FALSE]
        /\ closed' = closed \cup {e} /\ e.job = "backtest_compute"
    BY <1>5 DEF K!CloseChunk, K!Entry, K!Opened
  <2> HIDE DEF e
  <2>3. CommandIsRecord' /\ ~command'.written
    BY <1>1, <2>2 DEF CommandIsRecord, K!Configs
  <2>4. CommandIsOfItsKind'
    BY <1>1, <2>1, <2>2 DEF CommandIsOfItsKind, CommandIsRecord, K!Idle, K!Universe, K!ToSet, K!Swept
  <2> QED BY <1>1, <2>2, <2>3, <2>4, CloseStep
<1>6. CASE K!CloseMember
  <2>1. /\ command.name = "backtest_sweep" /\ command.written /\ command.run # {}
        /\ command.todo \in Seq(K!ToSet(Members)) /\ (command.full => command.tickers = K!Universe)
    BY <1>1, <1>6 DEF K!CloseMember, CommandIsOfItsKind
  <2>2. /\ command' = [command EXCEPT !.config = Base, !.run = {}, !.failed = {}, !.written = FALSE,
                                      !.todo = Tail(command.todo)]
        /\ closed' = closed \cup {K!Entry("backtest_sweep", command.config, "ok",
                                          command.failed # {}, command.full, 0, 0)}
    BY <1>1, <1>6 DEF K!CloseMember, K!Opened, CommandIsRecord
  <2>3. CommandIsRecord' /\ ~command'.written
    BY <1>1, <2>2 DEF CommandIsRecord, K!Configs
  <2>4. Tail(command.todo) \in Seq(K!ToSet(Members))
    BY <1>1, <2>1 DEF CommandIsOfItsKind
  <2>5. CommandIsOfItsKind'
    BY <1>1, <2>1, <2>2, <2>4 DEF CommandIsOfItsKind, CommandIsRecord, K!Idle, K!Universe, K!ToSet, K!Swept
  <2>6. \E e : /\ closed' = closed \cup {e}
               /\ e.job = "backtest_sweep" /\ e.status = "ok" /\ ~e.notes /\ e.full =>
                    e.config \in K!Configs /\ K!Whole(e.config)
    <3> DEFINE e == K!Entry("backtest_sweep", command.config, "ok", command.failed # {}, command.full, 0, 0)
    <3>1. e.notes = (command.failed # {}) /\ e.full = command.full /\ e.config = command.config
      BY DEF K!Entry
    <3> HIDE DEF e
    <3>2. ~e.notes /\ e.full => e.config \in K!Configs /\ K!Whole(e.config)
      BY <1>1, <2>1, <3>1 DEF BacktestsInv, WrittenIsWhole, CommandIsRecord
    <3> QED BY <2>2, <3>2 DEF e
  <2> QED BY <1>1, <2>3, <2>5, <2>6, CloseStep
<1> QED BY <1>1, <1>2, <1>3, <1>4, <1>5, <1>6

\* Before the first command nothing is on file and nothing is swept.
LEMMA NothingIsSwept == ASSUME K!BacktestsAssumption, K!Init PROVE BacktestsInv
<1>1. /\ tagged = [c \in K!Configs |-> [t \in K!Universe |-> K!Absent]] /\ command = K!Idle
      /\ closed \in {{}, {K!Entry("backtest", Base, "ok", FALSE, TRUE, 0, 0)}}
      /\ fires \subseteq K!Universe
  BY DEF K!Init, K!BacktestsAssumption, K!Universe
<1>2. RowsAreOfFires
  BY <1>1 DEF RowsAreOfFires
<1>3. CommandIsRecord /\ CommandIsOfItsKind /\ WrittenIsWhole
  <2>1. CommandIsRecord
    BY <1>1 DEF CommandIsRecord, K!Idle, K!Configs
  <2> QED BY <1>1, <2>1 DEF CommandIsOfItsKind, WrittenIsWhole, K!Idle
<1>4. \A e \in closed : e.job = "backtest"
  BY <1>1 DEF K!Entry
<1> QED BY <1>2, <1>3, <1>4 DEF BacktestsInv, K!SweptIsWhole, K!Swept

\* A write of some tickers leaves a whole configuration whole, and so does one of all of them.
LEMMA CountsSurviveRuns ==
  ASSUME K!BacktestsAssumption, BacktestsInv, K!RunBacktest, NEW c \in K!Configs, K!Whole(c)
  PROVE  K!Whole(c)' \/ (command'.full /\ command'.failed # {})
<1>1. /\ CommandIsRecord /\ RowsAreOfFires /\ CommandIsOfItsKind
      /\ command.config \in K!Configs /\ command.full \in BOOLEAN
  BY DEF BacktestsInv, CommandIsRecord
<1>2. PICK raised \in SUBSET command.run :
        /\ tagged' = K!Written(command.config, command.run \ raised, command.full)
        /\ command' = [command EXCEPT !.failed = raised, !.written = TRUE]
  BY DEF K!RunBacktest
<1>3. command.run # {} /\ UNCHANGED fires
  BY DEF K!RunBacktest, K!data
<1>4. command'.failed = raised /\ command'.full = command.full
  BY <1>1, <1>2 DEF CommandIsRecord
<1>5. CASE c # command.config
  <2>1. tagged'[c] = tagged[c]
    BY <1>1, <1>2, <1>5 DEF K!Written, RowsAreOfFires
  <2> QED BY <1>3, <2>1 DEF K!Whole, K!Cardinality
<1>6. CASE c = command.config
  <2>1. /\ command.full /\ command.run \ raised = K!Universe => K!Whole(c)'
        /\ ~command.full => K!Whole(c)'
    <3>1. tagged' = K!Written(c, command.run \ raised, command.full)
      BY <1>2, <1>6
    <3> QED BY <1>1, <1>3, <3>1, WrittenFacts
  <2>2. command.full /\ raised = {} => command.run \ raised = K!Universe
    BY <1>1, <1>3 DEF CommandIsOfItsKind
  <2> QED BY <1>1, <1>4, <2>1, <2>2
<1> QED BY <1>5, <1>6

LEMMA BacktestSteps ==
  ASSUME K!BacktestsAssumption, BacktestsInv, [K!Next]_(K!vars)
  PROVE  BacktestsInv' /\ K!CountsStayWhole
<1> SUFFICES /\ BacktestsInv'
             /\ \A c \in K!Configs : K!Whole(c) => K!Whole(c)' \/ (command'.full /\ command'.failed # {})
  BY DEF K!CountsStayWhole
<1>1. ASSUME tagged' = tagged, fires' = fires PROVE \A c \in K!Configs : K!Whole(c) => K!Whole(c)'
  BY <1>1 DEF K!Whole, K!Cardinality
<1>2. CASE UNCHANGED K!vars
  <2>1. UNCHANGED <<fires, tagged, closed, command>>
    BY <1>2 DEF K!vars
  <2>2. RowsAreOfFires' /\ \A c \in K!Configs : K!Whole(c)' <=> K!Whole(c)
    BY <2>1, SameRows DEF BacktestsInv
  <2>3. CommandIsRecord' /\ CommandIsOfItsKind'
    BY <2>1 DEF BacktestsInv, CommandIsRecord, CommandIsOfItsKind, K!Swept, K!Configs, K!Universe,
       K!Idle, K!ToSet
  <2>4. WrittenIsWhole' /\ K!SweptIsWhole'
    BY <2>1, <1>1 DEF BacktestsInv, CommandIsRecord, WrittenIsWhole, K!SweptIsWhole, K!Swept, K!Configs,
       K!Whole, K!Cardinality
  <2> QED BY <1>1, <2>1, <2>2, <2>3, <2>4 DEF BacktestsInv
<1>3. CASE (\E S \in SUBSET K!Universe \ {{}} : K!StartAll(S) \/ K!StartSweep(S))
           \/ \E z \in ChunkSizes : K!StartCompute(z)
  BY <1>1, <1>3, CommandsStart
<1>4. CASE K!RunBacktest
  BY <1>4, RunStep, CountsSurviveRuns
<1>5. CASE K!EveryWorkerRaises \/ K!CloseAll \/ K!CloseMember \/ K!CloseChunk \/ K!Interrupt
  BY <1>1, <1>5, CommandsEnd
<1>6. CASE K!NextMember \/ K!NextChunk
  BY <1>1, <1>6, CommandsGoOn
<1>7. CASE K!Finalize
  BY <1>7, FinalizeStep
<1>8. CASE \E t \in K!Universe : K!Scan(t)
  BY <1>8, ScanStep
<1> QED BY <1>2, <1>3, <1>4, <1>5, <1>6, <1>7, <1>8 DEF K!Next

\* However the commands of `cscan backtest` are interrupted, fail for some tickers or are run on
\* a few, a member the sweep will skip has a row of every ticker that fires, each with the count of
\* the whole universe (_sweep_config_already_done), and such counts are only lost to a run of the
\* whole universe in which a ticker failed (run_backtest's full_universe).
THEOREM SweepsLandWhole ==
  ASSUME K!BacktestsAssumption
  PROVE  K!Spec => []K!SweptIsWhole /\ [][K!CountsStayWhole]_(K!vars)
<1>1. K!Init => BacktestsInv
  BY NothingIsSwept
<1>2. BacktestsInv /\ [K!Next]_(K!vars) => BacktestsInv'
  BY BacktestSteps
<1>3. BacktestsInv => K!SweptIsWhole
  BY DEF BacktestsInv
<1>4. BacktestsInv /\ [K!Next]_(K!vars) => [K!CountsStayWhole]_(K!vars)
  BY BacktestSteps
<1> QED BY <1>1, <1>2, <1>3, <1>4, PTL DEF K!Spec
=============================================================================
