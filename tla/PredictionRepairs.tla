-------------------------- MODULE PredictionRepairs ---------------------------
(***************************************************************************)
(* The two repairs of the forward log, run by hand on live stores: one     *)
(* moves serving's predictions off ids that research uses, the other links *)
(* predictions that were adopted while links went by label. The Pi scores, *)
(* research scores and the nightly pull adopts between their steps, for    *)
(* neither takes a lock, and each may be killed. A key is a debounce slot  *)
(* and a label; the live label of a slot may differ from the settled one.  *)
(***************************************************************************)
EXTENDS Integers, FiniteSets, FiniteSetsExt

CONSTANTS
  Floor,     \* serving's ids begin here; research never gets there
  Slots,
  Histories, \* what the stores may hold when the split of the ids begins
  MaxDeeds   \* bound on what the others do, and on kills

Labels == {"live", "settled"}
Keys == [slot : Slots, label : Labels]
Rows == [id : Nat \ {0}, key : Keys, event : Nat]

\* No two rows of a store share an id, and on serving no two a key.
IdsAreUnique(S) == \A p, q \in S : p.id = q.id => p = q
KeysAreUnique(S) == \A p, q \in S : p.key = q.key => p = q

\* A link goes to an event of the prediction's slot, and an event has one prediction.
Linked(R, es) ==
  \A p \in R : p.event # 0 =>
    /\ \E e \in es : e.id = p.event /\ e.slot = p.key.slot
    /\ \A q \in R \ {p} : q.event # p.event

\* Research has a row from above the floor only by adopting it.
Adopted(R, S) == \A r \in R : r.id >= Floor => \E p \in S : p.id = r.id /\ p.key = r.key

\* Research mints the ids of its events one by one.
Minted(es) ==
  /\ es \subseteq [id : 1..Cardinality(es), slot : Slots, label : Labels]
  /\ \A e, f \in es : e.id = f.id => e = f

\* Two stores that keep their constraints, with links that went by label.
IsHistory(h) ==
  /\ \A S \in {h.serving, h.research} : IsFiniteSet(S) /\ S \subseteq Rows /\ IdsAreUnique(S)
  /\ KeysAreUnique(h.serving)
  /\ IsFiniteSet(h.events) /\ Minted(h.events)
  /\ Linked(h.research, h.events) /\ Adopted(h.research, h.serving)

RepairsAssumption ==
  /\ Floor \in Nat \ {0} /\ MaxDeeds \in Nat
  /\ \A h \in Histories : IsHistory(h)

VARIABLES
  serving,   \* serving's predictions
  outcomes,  \* serving's outcomes: the id they refer to, and the signal they are of
  servSeq,   \* serving's sequence
  research,  \* research's predictions
  resSeq,
  events,    \* research's events
  bySlot,    \* the pull links by slot
  move,      \* the repair of the ids under way
  fill,      \* the repair of the links under way
  owed,      \* the ids were moved, and no repair has ended since
  lost,      \* an insert of the Pi met an id in use
  sound,     \* a launch of the poller was not refused, and no repair moved rows since
  deeds

vars == <<serving, outcomes, servSeq, research, resSeq, events, bySlot, move, fill, owed, lost, sound, deeds>>

stores == <<serving, outcomes, servSeq, research, resSeq, events>>

Deed == deeds < MaxDeeds /\ deeds' = deeds + 1

Ids(S) == {p.id : p \in S}
Greatest(S) == IF S = {} THEN 0 ELSE Max(S)
Bigger(a, b) == IF a > b THEN a ELSE b

-----------------------------------------------------------------------------
(* Links. *)

Owned == {p.event : p \in research} \ {0}

\* The one event of the slot; two are as good as none.
EventOfSlot(p) ==
  LET those == {e \in events : e.slot = p.key.slot}
  IN IF Cardinality(those) = 1 THEN (CHOOSE e \in those : TRUE).id ELSE 0

EventOfKey(p) ==
  LET those == {e \in events : [slot |-> e.slot, label |-> e.label] = p.key}
  IN IF those = {} THEN 0 ELSE (CHOOSE e \in those : TRUE).id

\* An event that has its prediction keeps it, and of two rows that would share one
\* neither gets it.
Resolved(rows) ==
  LET free == {[p EXCEPT !.event = IF EventOfSlot(p) \in Owned THEN 0 ELSE EventOfSlot(p)] : p \in rows}
      twin(p) == \E q \in free : q.id # p.id /\ q.event = p.event
  IN {[p EXCEPT !.event = IF twin(p) THEN 0 ELSE @] : p \in free}

-----------------------------------------------------------------------------
(* The others. *)

\* A sequence moves on even when the insert fails.
PiScores(key) ==
  /\ Deed /\ \A p \in serving : p.key # key
  /\ servSeq' = servSeq + 1
  /\ LET taken == servSeq + 1 \in Ids(serving)
     IN /\ lost' = (lost \/ taken)
        /\ serving' = IF taken THEN serving ELSE serving \cup {[id |-> servSeq + 1, key |-> key, event |-> 0]}
  /\ UNCHANGED <<outcomes, research, resSeq, events, bySlot, move, fill, owed, sound>>

\* An outcome, whose foreign key holds the prediction fast.
Mature(p) ==
  /\ Deed /\ p.id \notin {o.pred : o \in outcomes}
  /\ outcomes' = outcomes \cup {[pred |-> p.id, key |-> p.key]}
  /\ UNCHANGED <<serving, servSeq, research, resSeq, events, bySlot, move, fill, owed, lost, sound>>

Settle(key) ==
  /\ Deed /\ \A e \in events : [slot |-> e.slot, label |-> e.label] # key
  /\ events' = events \cup {[id |-> Cardinality(events) + 1, slot |-> key.slot, label |-> key.label]}
  /\ UNCHANGED <<serving, outcomes, servSeq, research, resSeq, bySlot, move, fill, owed, lost, sound>>

ResearchScores(e) ==
  /\ Deed /\ e.id \notin Owned
  /\ resSeq + 1 < Floor
  /\ resSeq' = resSeq + 1
  /\ research' = research \cup
       {[id |-> resSeq + 1, key |-> [slot |-> e.slot, label |-> e.label], event |-> e.id]}
  /\ UNCHANGED <<serving, outcomes, servSeq, events, bySlot, move, fill, owed, lost, sound>>

\* Research adopts what is new above the floor.
Pull ==
  /\ Deed
  /\ LET new == {p \in serving : p.id >= Floor /\ p.id \notin Ids(research)}
         byKey == {[p EXCEPT !.event = IF EventOfKey(p) \in Owned THEN 0 ELSE EventOfKey(p)] : p \in new}
     IN new # {} /\ research' = research \cup (IF bySlot THEN Resolved(new) ELSE byKey)
  /\ UNCHANGED <<serving, outcomes, servSeq, resSeq, events, bySlot, move, fill, owed, lost, sound>>

LinkBySlot ==
  /\ ~bySlot /\ bySlot' = TRUE
  /\ UNCHANGED <<stores, move, fill, owed, lost, sound, deeds>>

\* sequences_behind: the sequence is below the largest id given out.
SequenceBehind == Ids(serving) # {} /\ servSeq < Greatest(Ids(serving))

\* assert_sequences_are_ahead: the poller refuses to start on such a store. The
\* wrapper scores whether it started or not.
PollerLaunches ==
  /\ ~SequenceBehind /\ sound' = TRUE
  /\ UNCHANGED <<stores, bySlot, move, fill, owed, lost, deeds>>

-----------------------------------------------------------------------------
(* The ids: `repair_prediction_ids.py --apply`. It reads one store after the     *)
(* other.                                                                        *)

Still == [at |-> "no", serving |-> {}, research |-> {}, moves |-> {}]

Mismatched(S, R) == {p.id : p \in {q \in S : \E r \in R : r.id = q.id /\ r.key # q.key}}

\* Below the floor, and unknown to research or under an id research gave to another.
Moving(S, R) ==
  {p \in S : p.id < Floor /\ (p.key \notin {r.key : r \in R} \/ p.id \in Mismatched(S, R))}

\* In the order of the ids, from the first that is free.
PlanReassignment(S, R) ==
  LET moving == Moving(S, R)
      start == Bigger(Floor, Greatest(Ids(S)) + 1)
  IN {[old |-> p.id, new |-> start + Cardinality({q \in moving : q.id < p.id})] : p \in moving}

MoveReads ==
  /\ move.at = "no" /\ deeds < MaxDeeds
  /\ move' = [Still EXCEPT !.at = "reads", !.serving = serving]
  /\ UNCHANGED <<stores, bySlot, fill, owed, lost, sound, deeds>>

MovePlans ==
  /\ move.at = "reads"
  /\ move' = [move EXCEPT !.at = "planned", !.research = research,
                          !.moves = PlanReassignment(move.serving, research)]
  /\ UNCHANGED <<stores, bySlot, fill, owed, lost, sound, deeds>>

Moved(id) == IF \E m \in move.moves : m.old = id THEN (CHOOSE m \in move.moves : m.old = id).new ELSE id

\* One command moves predictions with their outcomes; a new id that was taken
\* meanwhile undoes it.
MoveApplies ==
  /\ move.at = "planned" /\ move.moves # {}
  /\ IF {m.new : m \in move.moves} \cap Ids(serving) # {}
     THEN move' = Still /\ UNCHANGED <<serving, outcomes, owed, sound>>
     ELSE /\ serving' = {[p EXCEPT !.id = Moved(@)] : p \in serving}
          /\ outcomes' = {[o EXCEPT !.pred = Moved(@)] : o \in outcomes}
          /\ owed' = TRUE /\ sound' = FALSE
          /\ move' = [move EXCEPT !.at = "applied"]
  /\ UNCHANGED <<servSeq, research, resSeq, events, bySlot, fill, lost, deeds>>

\* Mutant: only a repair that moved something sees to the sequence.
ResetAfterMoves == IF move.moves = {} THEN servSeq ELSE Bigger(Greatest(Ids(serving)), Floor)

\* Whether it moved anything or not.
ResetSequence == Bigger(Greatest(Ids(serving)), Floor)

MoveResets ==
  /\ move.at = "applied" \/ (move.at = "planned" /\ move.moves = {})
  /\ servSeq' = ResetSequence
  /\ owed' = FALSE
  /\ move' = [move EXCEPT !.at = "reset"]
  /\ UNCHANGED <<serving, outcomes, research, resSeq, events, bySlot, fill, lost, sound, deeds>>

\* It looks at serving again, and at research as it was.
MoveEnds ==
  /\ move.at = "reset" /\ move' = Still
  /\ UNCHANGED <<stores, bySlot, fill, owed, lost, sound, deeds>>

MoveDies ==
  /\ move.at # "no" /\ Deed /\ move' = Still
  /\ UNCHANGED <<stores, bySlot, fill, owed, lost, sound>>

-----------------------------------------------------------------------------
(* The links: `backfill_prediction_event_ids.py --apply`.                        *)

Idle == [at |-> "no", plan |-> {}, seen |-> {}]

ReadUnresolved == {p \in research : p.id >= Floor /\ p.event = 0}

FillReads ==
  /\ fill.at = "no" /\ ReadUnresolved # {}
  /\ fill' = [at |-> "planned", plan |-> {p \in Resolved(ReadUnresolved) : p.event # 0},
              seen |-> research]
  /\ UNCHANGED <<stores, bySlot, move, owed, lost, sound, deeds>>

\* Only a link that is still missing.
Filled(p) == {q \in fill.plan : q.id = p.id /\ p.event = 0}

AfterFill ==
  {IF Filled(p) = {} THEN p ELSE [p EXCEPT !.event = (CHOOSE q \in Filled(p) : TRUE).event]
    : p \in research}

\* One statement: an event another prediction has got meanwhile undoes all of it.
FillApplies ==
  /\ fill.at = "planned"
  /\ LET owners(e) == {p \in AfterFill : p.event = e}
     IN IF \E p \in AfterFill : p.event # 0 /\ Cardinality(owners(p.event)) > 1
        THEN fill' = [fill EXCEPT !.at = "undone"] /\ UNCHANGED research
        ELSE fill' = Idle /\ research' = AfterFill
  /\ UNCHANGED <<serving, outcomes, servSeq, resSeq, events, bySlot, move, owed, lost, sound, deeds>>

FillEnds ==
  /\ fill.at = "undone" /\ fill' = Idle
  /\ UNCHANGED <<stores, bySlot, move, owed, lost, sound, deeds>>

FillDies ==
  /\ fill.at = "planned" /\ Deed /\ fill' = Idle
  /\ UNCHANGED <<stores, bySlot, move, owed, lost, sound>>

Init ==
  /\ \E h \in Histories :
       /\ serving = h.serving /\ research = h.research /\ events = h.events
       /\ servSeq = Greatest(Ids(h.serving)) /\ resSeq = Greatest(Ids(h.research))
  /\ outcomes = {} /\ bySlot = FALSE /\ move = Still /\ fill = Idle
  /\ owed = FALSE /\ lost = FALSE /\ sound = FALSE /\ deeds = 0

Next ==
  \/ \E key \in Keys : PiScores(key) \/ Settle(key)
  \/ \E p \in serving : Mature(p)
  \/ \E e \in events : ResearchScores(e)
  \/ Pull \/ LinkBySlot \/ PollerLaunches
  \/ MoveReads \/ MovePlans \/ MoveApplies \/ MoveResets \/ MoveEnds \/ MoveDies
  \/ FillReads \/ FillApplies \/ FillEnds \/ FillDies

Spec == Init /\ [][Next]_vars

-----------------------------------------------------------------------------

\* Each outcome refers to the prediction of its signal, under whatever id.
OutcomesFollow ==
  \A o \in outcomes : \E p \in serving : p.id = o.pred /\ p.key = o.key

\* Nothing scored is lost, and no link once made is changed.
NothingIsUndone ==
  /\ {p.key : p \in serving} \subseteq {p.key : p \in serving'}
  /\ \A p \in research : p.event # 0 => p \in research'

\* A repair that ends leaves no id that named another signal in the research it read,
\* but for what the Pi has put below the floor meanwhile.
ReuseIsRepaired ==
  move.at = "reset" /\ {p \in serving : p.id < Floor} \subseteq move.serving =>
    Mismatched(serving, move.research) = {}

\* The Pi's inserts find their ids free, unless a repair moved rows and none has
\* ended since. The poller is refused for that alone, and after a launch that was
\* not refused no insert fails until rows are moved again.
InsertsFindRoom ==
  /\ lost' /\ ~lost => owed /\ ~sound
  /\ SequenceBehind => owed

\* A link goes to an event of the prediction's slot, and an event has one prediction.
LinksAreSound == Linked(research, events)

\* The repair of the links fails only when another wrote since it read.
FillAloneLands == fill.at = "undone" => research # fill.seen

\* The split of the ids keeps them apart from then on. It does not hold: a row known
\* to research under another id stays where it is, and research mints that id later.
ReuseStaysAway ==
  (move.at = "reset" /\ move'.at = "no" /\ Mismatched(serving, research) = {}) =>
     \A p \in serving : p.id < Floor => p.id <= resSeq
=============================================================================
