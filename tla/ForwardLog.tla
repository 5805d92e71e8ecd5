----------------------------- MODULE ForwardLog -----------------------------
(***************************************************************************)
(* The forward log of CapitalScan: the predictions it recorded for signals *)
(* and the outcomes later resolved against them, kept in two PostgreSQL    *)
(* stores.                                                                 *)
(*                                                                         *)
(*   research  the workstation's store; the nightly chain writes it.       *)
(*   serving   the store the web site reads; the Raspberry Pi's poller     *)
(*             inserts events and predictions into it during the session,  *)
(*             and the nightly chain copies research over it.              *)
(*                                                                         *)
(* Each store mints its own event ids, so one integer names different      *)
(* events on the two sides; a prediction keeps ONE id on both, which is    *)
(* why the two stores mint prediction ids on different sides of Floor.     *)
(*                                                                         *)
(* A step of the model is one database transaction (or one read that a     *)
(* later transaction uses), so the nightly chain, a weekly refit and the   *)
(* poller interleave exactly where the program lets them.                  *)
(*                                                                         *)
(* Not here: bars, indicators, universe, charts (they carry no link        *)
(* between the stores), the incremental window of the events copy (the     *)
(* whole snapshot is copied), labels without a side, and the manual        *)
(* commands `sync`, `predict --clear` and `purge`.                         *)
(***************************************************************************)
EXTENDS Integers, FiniteSets, Functions

CONSTANTS
  Slots,          \* debounce slots: (ticker, signal_date, side, entry_kind)
  Labels,         \* signal types that can fill a slot
  SlotDay,        \* the trading day of each slot
  LastDay,        \* bound: the trading days are 1..LastDay
  Horizon,        \* trading days until an event's forward window closes
  Floor,          \* ServingParams.serving_id_floor
  MaxResearchId,  \* bound: research mints predictions below this id
  MaxServingId,   \* bound: serving mints predictions up to this id
  MaxEventId,     \* bound: event ids of either store
  Disruptions,    \* what may go wrong in this instance
  MaxDisruptions  \* bound: how many times something goes wrong

DisruptionKinds ==
  { "pull",      \* pull_live_records cannot reach serving
    "sync",      \* run_sync is cut off between two tables
    "kill",      \* the chain is killed: RuntimeMaxSec, a reboot, a reaper
    "skip",      \* predict drops events: StaleArtifact, a missing feature
    "latebar",   \* a ticker's bar is missing when run_events runs
    "relabel",   \* a later pass picks another primary type for a slot
    "midsession",\* a chain runs while the poller's session is open
    "refit" }    \* weekly runs predict beside the nightly chain

ASSUME CalendarAssumption ==
  /\ LastDay \in Nat \ {0}
  /\ Horizon \in Nat \ {0}
  /\ SlotDay \in [Slots -> 1..LastDay]

ASSUME IdAssumption ==
  /\ Floor \in Nat
  /\ MaxResearchId \in Nat
  /\ MaxServingId \in Nat
  /\ MaxEventId \in Nat
  /\ MaxResearchId < Floor /\ Floor <= MaxServingId

ASSUME DisruptionAssumption ==
  /\ Disruptions \subseteq DisruptionKinds
  /\ MaxDisruptions \in Nat

VARIABLES
  rEvents,   \* research.events
  closed,    \* ids of research events whose forward labels are filled
  rPred,     \* research.predictions
  rOut,      \* research.outcomes
  rEvSeq,    \* research events_id_seq
  rSeq,      \* research predictions_id_seq
  sEvents,   \* serving.events; prov marks a run_id that starts with poll
  sPred,     \* serving.predictions
  sOut,      \* serving.outcomes
  sEvSeq,    \* serving events_id_seq
  sSeq,      \* serving predictions_id_seq
  day,       \* today
  phase,     \* "session" until the Pi's last scoring pass, then "closed"
  pc,        \* where the nightly chain is
  end,       \* the day the chain processes
  pulled,    \* the chain's pull succeeded
  frame,     \* the rows a transfer has read and not written yet
  snap,      \* what run_sync's REPEATABLE READ snapshot sees
  mishaps    \* disruptions so far

research == <<rEvents, closed, rPred, rOut, rEvSeq, rSeq>>
serving  == <<sEvents, sPred, sOut, sEvSeq, sSeq>>
calendar == <<day, phase>>
transfer == <<frame, snap>>
chain    == <<pc, end, pulled>>
vars     == <<research, serving, calendar, chain, transfer, mishaps>>

NoEvent == 0                           \* a NULL event_id

EventIds == 1..MaxEventId
ResearchIds == 1..MaxResearchId
ServingIds == (Floor + 1)..MaxServingId
PredIds == ResearchIds \cup ServingIds

Event   == [id: EventIds, slot: Slots, label: Labels]
SEvent  == [id: EventIds, slot: Slots, label: Labels, prov: BOOLEAN]
Pred    == [id: PredIds, slot: Slots, label: Labels, ev: EventIds \cup {NoEvent}]
Outcome == [pred: PredIds, slot: Slots]
Snapshot == [events: SUBSET Event, preds: SUBSET Pred, outs: SUBSET Outcome]

EmptySnapshot == [events |-> {}, preds |-> {}, outs |-> {}]

Ids(rows) == {r.id : r \in rows}
SameKey(a, b) == a.slot = b.slot /\ a.label = b.label
BornServing(p) == p.id >= Floor

\* setval(seq, max(id)): next becomes the greatest id of the table, and an empty
\* table leaves the sequence alone.
Setval(next, seq, ids) ==
  IF ids = {} THEN next = seq
  ELSE next \in ids /\ \A i \in ids : i <= next

\* nextval for every row of a batch, in an order the INSERT does not promise.
\* f numbers the batch and the sequence ends at n.
Mints(seq, batch, n) ==
  IF n - seq = Cardinality(batch) THEN Bijection(batch, (seq + 1)..n) ELSE {}

Mishap(kind) ==
  /\ kind \in Disruptions
  /\ mishaps < MaxDisruptions
  /\ mishaps' = mishaps + 1

-----------------------------------------------------------------------------
TypeOK ==
  /\ rEvents \subseteq Event
  /\ closed \subseteq EventIds
  /\ rPred \subseteq Pred
  /\ rOut \subseteq Outcome
  /\ rEvSeq \in 0..MaxEventId
  /\ rSeq \in 0..MaxResearchId
  /\ sEvents \subseteq SEvent
  /\ sPred \subseteq Pred
  /\ sOut \subseteq Outcome
  /\ sEvSeq \in 0..MaxEventId
  /\ sSeq \in Floor..MaxServingId
  /\ day \in 1..LastDay
  /\ phase \in {"session", "closed"}
  /\ pc \in {"idle", "events", "labels", "pull", "pull_write", "predict",
             "outcomes", "sync", "sync_events", "sync_clear", "sync_copy",
             "sync_outcomes", "sweep"}
  /\ end \in 0..LastDay
  /\ pulled \in BOOLEAN
  /\ frame \subseteq Pred
  /\ snap \in Snapshot
  /\ mishaps \in 0..MaxDisruptions

\* Both stores after a first sync of an empty log: serving's sequence already
\* sits on the floor.
Init ==
  /\ rEvents = {} /\ closed = {} /\ rPred = {} /\ rOut = {}
  /\ rEvSeq = 0 /\ rSeq = 0
  /\ sEvents = {} /\ sPred = {} /\ sOut = {}
  /\ sEvSeq = 0 /\ sSeq = Floor
  /\ day = 1 /\ phase = "session"
  /\ pc = "idle" /\ end = 0 /\ pulled = FALSE
  /\ frame = {} /\ snap = EmptySnapshot
  /\ mishaps = 0

-----------------------------------------------------------------------------
(* The Raspberry Pi, during the session, on serving.                       *)

\* The poller debounces on (ticker, date, label): one slot can carry two
\* provisional events under two labels.
Fire(s, l) ==
  /\ phase = "session"
  /\ SlotDay[s] = day
  /\ ~ \E e \in sEvents : e.slot = s /\ e.label = l
  /\ sEvSeq < MaxEventId
  /\ sEvSeq' = sEvSeq + 1
  /\ sEvents' = sEvents \cup
       {[id |-> sEvSeq + 1, slot |-> s, label |-> l, prov |-> TRUE]}
  /\ UNCHANGED <<research, sPred, sOut, sSeq, calendar, chain, transfer, mishaps>>

\* The rows run_predict adds to a store: one for each scored event, linked to
\* it, under the id f gives it.
Predicted(events, f) ==
  {[id |-> f[e.id], slot |-> e.slot, label |-> e.label, ev |-> e.id] : e \in events}

UnscoredByLabel(events, preds) ==       \* mutant: conflict on the label, not the event
  {e \in events : \A p \in preds : ~SameKey(p, e)}

\* Events that no prediction of the store is linked to: what insert_new does
\* not turn into DO NOTHING.
Unscored(events, preds) ==
  {e \in events : \A p \in preds : p.ev # e.id}

\* `predict --serving --since today` scores what the model can score of
\* today's events.
Score ==
  /\ phase = "session"
  /\ \E es \in SUBSET {e \in Unscored(sEvents, sPred) : SlotDay[e.slot] = day} :
       /\ es # {}
       /\ \E n \in sSeq..MaxServingId : \E f \in Mints(sSeq, Ids(es), n) :
            /\ sPred' = sPred \cup Predicted(es, f)
            /\ sSeq' = n
  /\ UNCHANGED <<research, sEvents, sOut, sEvSeq, calendar, chain, transfer, mishaps>>

\* The session CSV loop ends after its final scoring pass.
CloseSession ==
  /\ phase = "session"
  /\ phase' = "closed"
  /\ UNCHANGED <<research, serving, day, chain, transfer, mishaps>>

\* The next session opens; a chain that is still running has overrun into it.
NextDay ==
  /\ phase = "closed"
  /\ day < LastDay
  /\ IF pc = "idle" THEN UNCHANGED mishaps ELSE Mishap("midsession")
  /\ day' = day + 1
  /\ phase' = "session"
  /\ UNCHANGED <<research, serving, chain, transfer>>

-----------------------------------------------------------------------------
(* The nightly chain, on research.                                         *)

\* _nightly_end: today once the close has passed, else the day before.
NightlyEnd == IF phase = "closed" THEN day ELSE day - 1

Start ==
  /\ pc = "idle"
  /\ NightlyEnd > 0
  /\ IF phase = "closed" THEN UNCHANGED mishaps ELSE Mishap("midsession")
  /\ pc' = "events"
  /\ end' = NightlyEnd
  /\ pulled' = FALSE
  /\ UNCHANGED <<research, serving, calendar, transfer>>

\* The slots of the days the pass covers.
Window == {s \in Slots : SlotDay[s] <= end}
Labelled == {s \in Slots : \E e \in rEvents : e.slot = s}

\* One pass picks one primary label for each slot it has a bar for and upserts
\* it on (slot, label). Only new keys add a row: those of slots seen for the
\* first time, and of slots whose primary type has changed since.
RunEvents ==
  /\ pc = "events"
  /\ \E new \in SUBSET Window : \E primary \in [new -> Labels] :
       /\ \A e \in rEvents : e.slot \in new => e.label # primary[e.slot]
       /\ IF new \cap Labelled # {} THEN Mishap("relabel")
          ELSE IF ~ (Window \subseteq new \cup Labelled) THEN Mishap("latebar")
          ELSE UNCHANGED mishaps
       /\ \E n \in rEvSeq..MaxEventId : \E f \in Mints(rEvSeq, new, n) :
            /\ rEvents' = rEvents \cup
                 {[id |-> f[s], slot |-> s, label |-> primary[s]] : s \in new}
            /\ rEvSeq' = n
  /\ pc' = "labels"
  /\ UNCHANGED <<closed, rPred, rOut, rSeq, serving, calendar, end, pulled, transfer>>

\* path capture, peak labels and forward returns: every window that has ended
\* is labelled, and a stored label is never touched.
PeakLabels ==
  /\ pc = "labels"
  /\ closed' = closed \cup
       {e.id : e \in {e \in rEvents : SlotDay[e.slot] + Horizon <= end}}
  /\ pc' = "pull"
  /\ UNCHANGED <<rEvents, rPred, rOut, rEvSeq, rSeq, serving, calendar, end, pulled,
                 transfer, mishaps>>

IncomingToday ==                        \* mutant: scoped by date like its sister tables
  {p \in sPred : BornServing(p) /\ SlotDay[p.slot] = end /\ p.id \notin Ids(rPred)}

\* Serving-born predictions research does not hold: selected by the floor.
Incoming == {p \in sPred : BornServing(p) /\ p.id \notin Ids(rPred)}

LabelLink(p) ==                         \* mutant: resolved on the label, not the slot
  LET es == Ids({e \in rEvents : SameKey(e, p)})
  IN IF \E i \in es : es = {i} THEN CHOOSE i \in es : TRUE ELSE NoEvent

\* _apply_slot_remap: the one research event of the slot; none or two give NULL.
SlotLink(p) ==
  LET es == Ids({e \in rEvents : e.slot = p.slot})
  IN IF \E i \in es : es = {i} THEN CHOOSE i \in es : TRUE ELSE NoEvent

\* _null_inbound_remap_collisions: NULL when another research row owns the event.
FreeLink(p) ==
  IF \E q \in rPred : q.ev = SlotLink(p) /\ q.id # p.id THEN NoEvent ELSE SlotLink(p)

LinkVerbatim(p) == p.ev                 \* mutant: serving's event id kept

\* _null_duplicate_slot_targets: NULL when two incoming rows claim one event.
OwnLink(p) ==
  IF \E q \in Incoming : q # p /\ FreeLink(q) = FreeLink(p) THEN NoEvent ELSE FreeLink(p)

PullRead ==
  /\ pc = "pull"
  /\ frame' = {[p EXCEPT !.ev = OwnLink(p)] : p \in Incoming}
  /\ pc' = "pull_write"
  /\ UNCHANGED <<research, serving, calendar, end, pulled, snap, mishaps>>

\* predictions_event_id is UNIQUE: the row would give an event a second owner.
LinkTaken(p, preds) ==
  p.ev # NoEvent /\ \E q \in preds : q.ev = p.ev /\ q.id # p.id

\* _reset_sequences on research counts only the ids below the floor.
ResearchReset ==
  /\ Setval(rSeq', rSeq, {i \in Ids(rPred') : i < Floor})
  /\ Setval(rEvSeq', rEvSeq, Ids(rEvents))

\* insert_new on id, then the reset that runs whether or not the insert raised.
PullWrite ==
  /\ pc = "pull_write"
  /\ LET raises == \E p \in frame : p.id \notin Ids(rPred) /\ LinkTaken(p, rPred)
     IN /\ rPred' = IF raises THEN rPred
                    ELSE rPred \cup {p \in frame : p.id \notin Ids(rPred)}
        /\ pulled' = ~raises
  /\ ResearchReset
  /\ frame' = {}
  /\ pc' = "predict"
  /\ UNCHANGED <<rEvents, closed, rOut, serving, calendar, end, snap, mishaps>>

\* The pull's failure is reported and the chain goes on.
PullFail ==
  /\ pc \in {"pull", "pull_write"}
  /\ Mishap("pull")
  /\ frame' = {}
  /\ pc' = "predict"
  /\ UNCHANGED <<research, serving, calendar, end, pulled, snap>>

\* run_predict on research: first write wins, so only unlinked events gain a
\* row.
WritePredictions(es) ==
  \E n \in rSeq..MaxResearchId : \E f \in Mints(rSeq, Ids(es), n) :
    /\ rPred' = rPred \cup Predicted(es, f)
    /\ rSeq' = n

Predict ==
  /\ pc = "predict"
  /\ \E es \in SUBSET Unscored(rEvents, rPred) :
       /\ IF es = Unscored(rEvents, rPred) THEN UNCHANGED mishaps ELSE Mishap("skip")
       /\ WritePredictions(es)
  /\ pc' = "outcomes"
  /\ UNCHANGED <<rEvents, closed, rOut, rEvSeq, serving, calendar, end, pulled, transfer>>

\* weekly's refit calls run_predict with no pull ahead of it and under a lock of
\* its own.
WeeklyRefit ==
  /\ Mishap("refit")
  /\ Unscored(rEvents, rPred) # {}
  /\ WritePredictions(Unscored(rEvents, rPred))
  /\ UNCHANGED <<rEvents, closed, rOut, rEvSeq, serving, calendar, chain, transfer>>

ResolvableEarly ==                      \* mutant: the forward window may be open
  {[pred |-> pe[1].id, slot |-> pe[2].slot] :
     pe \in {x \in rPred \X rEvents : x[1].ev = x[2].id}}

\* RESOLVE_SQL: joined on event_id, one row for each prediction for good.
Resolvable ==
  {[pred |-> pe[1].id, slot |-> pe[2].slot] :
     pe \in {x \in rPred \X rEvents : x[1].ev = x[2].id /\ x[2].id \in closed}}

Outcomes ==
  /\ pc = "outcomes"
  /\ rOut' = rOut \cup {o \in Resolvable : \A x \in rOut : x.pred # o.pred}
  /\ pc' = "sync"
  /\ UNCHANGED <<rEvents, closed, rPred, rEvSeq, rSeq, serving, calendar, end, pulled,
                 transfer, mishaps>>

-----------------------------------------------------------------------------
(* run_sync: research -> serving, table by table from one snapshot.        *)

ServingResetNoFloor ==                  \* mutant: the floor is left out
  /\ Setval(sSeq', sSeq, Ids(sPred))
  /\ Setval(sEvSeq', sEvSeq, Ids(sEvents))

ServingResetToFloor ==                  \* mutant: the greatest(...) is left out
  /\ sSeq' = Floor
  /\ Setval(sEvSeq', sEvSeq, Ids(sEvents))

\* _reset_sequences on serving never lets predictions fall below the floor.
ServingReset ==
  /\ Setval(sSeq', sSeq, Ids(sPred) \cup {Floor})
  /\ Setval(sEvSeq', sEvSeq, Ids(sEvents))

SyncBegin ==
  /\ pc = "sync"
  /\ ServingReset
  /\ snap' = [events |-> rEvents, preds |-> rPred, outs |-> rOut]
  /\ pc' = "sync_events"
  /\ UNCHANGED <<research, sEvents, sPred, sOut, calendar, end, pulled, frame, mishaps>>

\* events upsert on the natural key: serving keeps its own id and the poller's
\* run_id is overwritten.
SyncEvents ==
  /\ pc = "sync_events"
  /\ LET new == {e \in snap.events : ~ \E x \in sEvents : SameKey(x, e)}
     IN \E n \in sEvSeq..MaxEventId : \E f \in Mints(sEvSeq, Ids(new), n) :
          /\ sEvents' =
               {[x EXCEPT !.prov = x.prov /\ ~ \E e \in snap.events : SameKey(x, e)] :
                  x \in sEvents}
               \cup {[id |-> f[e.id], slot |-> e.slot, label |-> e.label,
                      prov |-> FALSE] : e \in new}
          /\ sEvSeq' = n
  /\ pc' = "sync_clear"
  /\ UNCHANGED <<research, sPred, sOut, sSeq, calendar, end, pulled, transfer, mishaps>>

OutboundByOwnLabel(p) ==                \* mutant: the prediction's own natural key
  LET hits == Ids({x \in sEvents : SameKey(x, p)})
  IN IF hits = {} THEN NoEvent ELSE CHOOSE i \in hits : TRUE

\* The outbound remap: the research event's key, looked up on serving.
Outbound(p) ==
  LET hits == Ids({x \in sEvents : \E e \in snap.events : e.id = p.ev /\ SameKey(x, e)})
  IN IF hits = {} THEN NoEvent ELSE CHOOSE i \in hits : TRUE

OutFrame == {[p EXCEPT !.ev = Outbound(p)] : p \in snap.preds}

\* Serving rows that hold an event the frame claims and are not in the frame.
Colliding(rows) ==
  {q \in sPred : q.id \notin Ids(rows) /\ \E p \in rows : p.ev # NoEvent /\ p.ev = q.ev}

\* outcomes.prediction_id is a foreign key: deleting a resolved row raises.
SyncClear ==
  /\ pc = "sync_clear"
  /\ LET gone == Colliding(OutFrame)
     IN IF \E o \in sOut : o.pred \in Ids(gone)
          THEN /\ pc' = "idle"
               /\ snap' = EmptySnapshot
               /\ UNCHANGED <<sPred, frame>>
          ELSE /\ pc' = "sync_copy"
               /\ sPred' = sPred \ gone
               /\ frame' = OutFrame
               /\ UNCHANGED snap
  /\ UNCHANGED <<research, sEvents, sOut, sEvSeq, sSeq, calendar, end, pulled, mishaps>>

\* Row p of the frame cannot be written while serving row q holds its event.
Blocked ==
  {b \in frame \X sPred : b[1].ev # NoEvent /\ b[1].ev = b[2].ev /\ b[1].id # b[2].id}

\* No order of the rows frees every event they claim: a holder outside the frame
\* never moves off, and rows in a ring wait for one another.
NoOrderWorks ==
  \/ \E b \in Blocked : b[2].id \notin Ids(frame)
  \/ \E ring \in SUBSET {b[1] : b \in Blocked} :
       /\ ring # {}
       /\ \A p \in ring : \E b \in Blocked : b[1] = p /\ b[2].id \in Ids(ring)

\* INSERT ... SELECT FROM stage ON CONFLICT (id) DO UPDATE names no row order.
SyncCopy ==
  /\ pc = "sync_copy"
  /\ ~NoOrderWorks
  /\ sPred' = {q \in sPred : q.id \notin Ids(frame)} \cup frame
  /\ frame' = {}
  /\ pc' = "sync_outcomes"
  /\ UNCHANGED <<research, sEvents, sOut, sEvSeq, sSeq, calendar, end, pulled, snap, mishaps>>

SyncCopyRaises ==
  /\ pc = "sync_copy"
  /\ Blocked # {}
  /\ frame' = {} /\ snap' = EmptySnapshot
  /\ pc' = "idle"
  /\ UNCHANGED <<research, serving, calendar, end, pulled, mishaps>>

SyncOutcomes ==
  /\ pc = "sync_outcomes"
  /\ sOut' = {o \in sOut : \A x \in snap.outs : x.pred # o.pred} \cup snap.outs
  /\ ServingReset
  /\ snap' = EmptySnapshot
  /\ pc' = "sweep"
  /\ UNCHANGED <<research, sEvents, sPred, calendar, end, pulled, frame, mishaps>>

\* The sync is cut off between two tables; what was copied stays.
SyncFail ==
  /\ pc \in {"sync", "sync_events", "sync_clear", "sync_copy", "sync_outcomes"}
  /\ Mishap("sync")
  /\ frame' = {} /\ snap' = EmptySnapshot
  /\ pc' = "idle"
  /\ UNCHANGED <<research, serving, calendar, end, pulled>>

\* _sweep_provisional_poll_rows on serving, only after a sync that succeeded.
Sweep ==
  /\ pc = "sweep"
  /\ sEvents' = {x \in sEvents : ~ (x.prov /\ SlotDay[x.slot] = end)}
  /\ pc' = "idle"
  /\ UNCHANGED <<research, sPred, sOut, sEvSeq, sSeq, calendar, end, pulled, transfer, mishaps>>

Kill ==
  /\ pc # "idle"
  /\ Mishap("kill")
  /\ frame' = {} /\ snap' = EmptySnapshot
  /\ pc' = "idle"
  /\ UNCHANGED <<research, serving, calendar, end, pulled>>

-----------------------------------------------------------------------------
Pi == Score \/ \E s \in Slots, l \in Labels : Fire(s, l)

Clock == CloseSession \/ NextDay

Nightly ==
  \/ Start \/ RunEvents \/ PeakLabels
  \/ PullRead \/ PullWrite \/ PullFail
  \/ Predict \/ Outcomes
  \/ SyncBegin \/ SyncEvents \/ SyncClear \/ SyncCopy \/ SyncCopyRaises \/ SyncOutcomes
  \/ SyncFail \/ Sweep \/ Kill

Next == Pi \/ Clock \/ Nightly \/ WeeklyRefit

\* What moves the chain forward when nothing disrupts it.
ChainStep ==
  \/ RunEvents \/ PeakLabels \/ PullRead \/ PullWrite \/ Predict \/ Outcomes
  \/ SyncBegin \/ SyncEvents \/ SyncClear \/ SyncCopy \/ SyncCopyRaises \/ SyncOutcomes
  \/ Sweep

\* The session ends every day, the timer starts the chain after the close, and a
\* chain that is not disrupted reaches its end.
Fairness ==
  /\ WF_vars(CloseSession)
  /\ WF_vars(phase = "closed" /\ Start)
  /\ WF_vars(ChainStep)

Spec == Init /\ [][Next]_vars

FairSpec == Spec /\ Fairness

-----------------------------------------------------------------------------
(* Properties.                                                             *)

\* A research prediction that names an event names one of its own slot: the
\* two stores' event ids never leak into each other (_apply_slot_remap).
EvidenceLinksOwnSlot ==
  \A p \in rPred : p.ev # NoEvent =>
    \E e \in rEvents : e.id = p.ev /\ e.slot = p.slot

\* An outcome belongs to a prediction on record, describes that prediction's
\* slot, and there is one (RESOLVE_SQL's DO NOTHING).
OutcomesAreEvidence ==
  /\ \A o \in rOut : \E p \in rPred : p.id = o.pred /\ p.slot = o.slot /\ p.ev \in closed
  /\ \A o, x \in rOut : o.pred = x.pred => o = x

\* One prediction id names one prediction on both stores, whichever store
\* minted it and in whatever order pulls, syncs and resets ran: the premise on
\* which `predictions` is copied by id in both directions (sync.py, the floor).
CrossStoreIdentity ==
  \A p \in rPred, q \in sPred : p.id = q.id => p.slot = q.slot /\ p.label = q.label

\* The id either sequence mints next is taken on neither store
\* (_reset_sequences).
NextIdsAreFree ==
  /\ rSeq + 1 \notin Ids(rPred) \cup Ids(sPred)
  /\ sSeq + 1 \notin Ids(rPred) \cup Ids(sPred)

\* Once run_sync has written predictions, each of the snapshot's links is on
\* serving the same event it is on research, on a row no sweep will delete.
SyncedLinksAgree ==
  pc = "sync_outcomes" =>
    \A p \in snap.preds : \E q \in sPred :
      /\ q.id = p.id
      /\ IF p.ev = NoEvent THEN q.ev = NoEvent
         ELSE \E x \in sEvents, e \in snap.events :
                x.id = q.ev /\ e.id = p.ev /\ SameKey(x, e) /\ ~x.prov

\* The serving sweep of a chain whose pull succeeded takes no event a
\* prediction links to, and leaves no prediction of the days it processed
\* pointing at another slot (cli.nightly, the sweep's second target).
SweepStrandsNothing ==
  [][Sweep /\ pulled =>
       \A q \in sPred : q.ev # NoEvent /\ SlotDay[q.slot] <= end =>
         \E x \in sEvents' : x.id = q.ev /\ x.slot = q.slot]_vars

\* While nothing fails, no event the sweep deletes is linked by any prediction on
\* serving: "The sync must have moved every prediction off the rows deleted here"
\* (cli.nightly). A failed pull breaks it.
SweptRowsStep ==
  Sweep => \A q \in sPred, x \in sEvents \ sEvents' : q.ev # x.id

\* A prediction only the Pi's store holds is never taken away before research
\* has adopted it (run_sync, _unadopted).
OnlyCopyStep ==
  \A q \in sPred : BornServing(q) /\ q.id \notin Ids(rPred) => q.id \in Ids(sPred')

\* The same of every step: run_sync's promise, which a failed pull breaks.
OnlyCopyIsKept == [][OnlyCopyStep]_vars

\* The number a reader saw is the number research keeps: where a slot has one
\* research event and one live prediction, research does not score the slot a
\* second time (cli.nightly, pull ahead of predict).
LiveNumberKept ==
  \A p, r \in rPred :
    (/\ BornServing(p) /\ ~BornServing(r) /\ p.slot = r.slot
     /\ \A q \in rPred : BornServing(q) /\ q.slot = p.slot => q = p)
    => \E e, x \in rEvents : e # x /\ e.slot = p.slot /\ x.slot = p.slot

\* While nothing fails, nothing is late and no chain overruns into a session,
\* the poller's live number is the one research keeps (cli.nightly, pull ahead
\* of predict).
CalmNumberKept == mishaps = 0 => LiveNumberKept

\* While nothing fails, the sync takes away no prediction that only the Pi's
\* store holds, and the sweep no event a prediction links to.
CalmNightsLoseNothing == [][mishaps' = 0 => OnlyCopyStep /\ SweptRowsStep]_vars

\* A live prediction is not left behind: research adopts it, or it is no longer
\* on serving (pull_live_records: the selection has no date bound).
LiveRowsReachResearch ==
  \A i \in ServingIds : i \in Ids(sPred) ~> (i \in Ids(rPred) \/ i \notin Ids(sPred))

\* Research is append-only evidence, whatever the two writers, the failures and
\* the retries do: the abstract log of EvidenceLog.
Evidence == INSTANCE EvidenceLog WITH events <- rEvents, log <- rPred, outcomes <- rOut
EvidenceSpec == Evidence!Spec

-----------------------------------------------------------------------------
(* The inductive invariant behind the safety properties.                   *)

UniqueIds(rows) == \A a, b \in rows : a.id = b.id => a = b

UniqueLinks(rows) ==
  \A p, q \in rows : p.ev # NoEvent /\ p.ev = q.ev => p = q

\* Each sequence is past every id its own store minted, and a primary key is one.
ResearchKeys ==
  /\ UniqueIds(rEvents)
  /\ \A e \in rEvents : e.id <= rEvSeq
  /\ UniqueIds(rPred) /\ UniqueLinks(rPred)
  /\ \A p \in rPred : ~BornServing(p) => p.id <= rSeq

ServingKeys ==
  /\ UniqueIds(sEvents)
  /\ \A x \in sEvents : x.id <= sEvSeq
  /\ UniqueIds(sPred)
  /\ \A q \in sPred : BornServing(q) => q.id <= sSeq

\* A row on the side of the floor that the other store mints came from there, and
\* is there still.
Provenance ==
  /\ \A q \in sPred : ~BornServing(q) => q.id \in Ids(rPred)
  /\ \A p \in rPred : BornServing(p) => p.id \in Ids(sPred)

\* What a transfer carries is a past of research, and no adopted row is missing
\* from the snapshot that decides what serving may delete.
SnapshotIsPast ==
  /\ snap.events \subseteq rEvents /\ snap.preds \subseteq rPred /\ snap.outs \subseteq rOut
  /\ pc \in {"sync_events", "sync_clear", "sync_copy"} =>
       \A p \in rPred : BornServing(p) => p \in snap.preds

PullFrame ==
  pc = "pull_write" =>
    /\ UniqueIds(frame) /\ UniqueLinks(frame)
    /\ \A p \in frame :
         /\ BornServing(p)
         /\ \E q \in sPred : q.id = p.id /\ SameKey(q, p)
         /\ p.ev # NoEvent => \E e \in rEvents : e.id = p.ev /\ e.slot = p.slot

CopyFrame ==
  pc = "sync_copy" =>
    /\ UniqueIds(frame)
    /\ \A p \in frame : \E q \in rPred : q.id = p.id /\ SameKey(q, p)

IInv ==
  /\ TypeOK
  /\ ResearchKeys /\ ServingKeys /\ Provenance
  /\ SnapshotIsPast /\ PullFrame /\ CopyFrame
  /\ CrossStoreIdentity /\ EvidenceLinksOwnSlot /\ OutcomesAreEvidence

-----------------------------------------------------------------------------
(* The invariant of the transfers, beside IInv.                            *)

\* A chain that a session overtakes is of an earlier day.
ChainIsBehind ==
  pc # "idle" => end <= day /\ (phase = "session" => end < day)

\* A pull that has not been made has not succeeded; one that has, left no
\* prediction of the chain's days behind.
PullIsComplete ==
  /\ pc \in {"events", "labels", "pull", "pull_write"} => ~pulled
  /\ pc = "pull_write" =>
       \A q \in sPred : BornServing(q) /\ SlotDay[q.slot] <= end =>
         q.id \in Ids(rPred) \cup Ids(frame)
  /\ pulled /\ pc \in {"predict", "outcomes", "sync", "sync_events", "sync_clear", "sync_copy"} =>
       \A q \in sPred : SlotDay[q.slot] <= end => q.id \in Ids(rPred)

\* The snapshot holds the events its predictions name, and every row that came
\* from research.
SnapshotIsWhole ==
  /\ \A p \in snap.preds : p.ev # NoEvent =>
       \E e \in snap.events : e.id = p.ev /\ e.slot = p.slot
  /\ pc \in {"sync_events", "sync_clear", "sync_copy"} =>
       \A q \in sPred : ~BornServing(q) => q.id \in Ids(snap.preds)

\* The snapshot's events are on serving, and none of them is provisional there.
EventsAreCopied ==
  pc \in {"sync_clear", "sync_copy", "sync_outcomes"} =>
    \A e \in snap.events :
      /\ \E x \in sEvents : SameKey(x, e)
      /\ \A x \in sEvents : SameKey(x, e) => ~x.prov

\* The serving row q says of p's event what p says of it on research.
SameEvent(p, q) ==
  IF p.ev = NoEvent THEN q.ev = NoEvent
  ELSE \E x \in sEvents, e \in snap.events :
         x.id = q.ev /\ e.id = p.ev /\ SameKey(x, e) /\ ~x.prov

\* The frame of the copy is the snapshot's predictions, each at its own event.
FrameIsTranslated ==
  pc = "sync_copy" =>
    /\ \A p \in snap.preds : \E f \in frame : f.id = p.id
    /\ \A f \in frame : \E p \in snap.preds :
         p.id = f.id /\ p.slot = f.slot /\ SameEvent(p, f)

\* After a pull and a copy, the links of the chain's days are off the rows that
\* a sweep deletes.
LinksSurviveSweep ==
  pulled /\ pc \in {"sync_outcomes", "sweep"} =>
    \A q \in sPred : q.ev # NoEvent /\ SlotDay[q.slot] <= end =>
      \E x \in sEvents : x.id = q.ev /\ x.slot = q.slot /\ ~x.prov

TransferInv ==
  /\ ChainIsBehind /\ PullIsComplete
  /\ SnapshotIsWhole /\ EventsAreCopied /\ FrameIsTranslated
  /\ SyncedLinksAgree /\ LinksSurviveSweep

-----------------------------------------------------------------------------
(* What is true as long as nothing has gone wrong.                         *)

AfterPull ==
  {"predict", "outcomes", "sync", "sync_events", "sync_clear", "sync_copy",
   "sync_outcomes", "sweep"}

\* The chain has the closed day for itself, and its pull succeeds.
CalmChain ==
  pc # "idle" =>
    /\ phase = "closed" /\ end = day
    /\ pc = "pull_write" => frame = {[p EXCEPT !.ev = OwnLink(p)] : p \in Incoming}
    /\ pc \in AfterPull => pulled /\ Incoming = {}

\* Research has one event of a slot, and has them all once run_events is through;
\* neither store has a row of a day to come.
CalmEvents ==
  /\ \A e, x \in rEvents : e.slot = x.slot => e = x
  /\ \A e \in rEvents : SlotDay[e.slot] <= day /\ (phase = "session" => SlotDay[e.slot] < day)
  /\ \A q \in sPred : SlotDay[q.slot] <= day
  /\ pc \notin {"idle", "events"} =>
       \A s \in Slots : SlotDay[s] <= day => \E e \in rEvents : e.slot = s

\* Research scores no slot that a live prediction is still to come for, and a
\* slot's only live prediction holds its event.
CalmLinks ==
  /\ \A r \in rPred : ~BornServing(r) =>
       /\ \E e \in rEvents : e.id = r.ev /\ e.slot = r.slot
       /\ \A q \in sPred : BornServing(q) /\ q.slot = r.slot => q.id \in Ids(rPred)
  /\ \A p \in rPred :
       BornServing(p) /\ (\A q \in rPred : BornServing(q) /\ q.slot = p.slot => q = p) =>
         \E e \in rEvents : e.id = p.ev /\ e.slot = p.slot

CalmInv == mishaps = 0 => CalmChain /\ CalmEvents /\ CalmLinks

=============================================================================
