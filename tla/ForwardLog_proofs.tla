-------------------------- MODULE ForwardLog_proofs --------------------------
(***************************************************************************)
(* Machine-checked proofs about ForwardLog, for every value of its         *)
(* constants: the invariant IInv is inductive, the safety properties       *)
(* follow from it, and research implements EvidenceLog.  Beside it,        *)
(* TransferInv says what a pull, a sync and a sweep carry and leave, and   *)
(* CalmInv what is true of the log until something goes wrong.             *)
(***************************************************************************)
EXTENDS ForwardLog, TLAPS

USE CalendarAssumption, IdAssumption, DisruptionAssumption

-----------------------------------------------------------------------------
(* Lemmas about the operators.                                             *)

\* The ids a batch is given lie after the sequence, up to where it ends, and no
\* two rows share one.
LEMMA MintsFacts ==
  ASSUME NEW seq, NEW n, NEW batch, NEW f \in Mints(seq, batch, n)
  PROVE  /\ f \in [batch -> (seq + 1)..n]
         /\ \A a, b \in batch : f[a] = f[b] => a = b
BY DEF Mints, Bijection, Injection, IsInjective

\* A scored batch on either store: typed rows, each linked to an event of the batch
\* and carrying its slot, no two with one id or one link.
LEMMA PredictedFacts ==
  ASSUME NEW es, NEW seq \in Nat, NEW n \in Nat,
         \A e \in es : e.id \in EventIds /\ e.slot \in Slots /\ e.label \in Labels,
         UniqueIds(es),
         (seq + 1)..n \subseteq PredIds,
         NEW f \in Mints(seq, Ids(es), n)
  PROVE  /\ Predicted(es, f) \subseteq Pred
         /\ UniqueIds(Predicted(es, f)) /\ UniqueLinks(Predicted(es, f))
         /\ \A p \in Predicted(es, f) :
              /\ p.id \in (seq + 1)..n
              /\ p.ev \in EventIds
              /\ \E e \in es : e.id = p.ev /\ e.slot = p.slot
<1>1. /\ f \in [Ids(es) -> (seq + 1)..n]
      /\ \A a, b \in Ids(es) : f[a] = f[b] => a = b
  BY MintsFacts
<1>2. \A e \in es : e.id \in Ids(es)
  BY DEF Ids
<1>3. \A p \in Predicted(es, f) : \E e \in es :
        p = [id |-> f[e.id], slot |-> e.slot, label |-> e.label, ev |-> e.id]
  BY DEF Predicted
<1>4. Predicted(es, f) \subseteq Pred
  BY <1>1, <1>2, <1>3 DEF Pred
<1>5. UniqueIds(Predicted(es, f))
  BY <1>1, <1>2, <1>3 DEF UniqueIds
<1>6. UniqueLinks(Predicted(es, f))
  BY <1>1, <1>2, <1>3 DEF UniqueLinks, UniqueIds
<1>7. ASSUME NEW p \in Predicted(es, f)
      PROVE  /\ p.id \in (seq + 1)..n
             /\ p.ev \in EventIds
             /\ \E e \in es : e.id = p.ev /\ e.slot = p.slot
  BY <1>1, <1>2, <1>3
<1> QED BY <1>4, <1>5, <1>6, <1>7

\* The slot remap answers with an event of the prediction's slot, or with NULL.
LEMMA OwnLinkFacts ==
  ASSUME TypeOK, NEW p \in Incoming
  PROVE  /\ OwnLink(p) \in EventIds \cup {NoEvent}
         /\ OwnLink(p) # NoEvent =>
              /\ \E e \in rEvents : e.id = OwnLink(p) /\ e.slot = p.slot
              /\ OwnLink(p) = FreeLink(p)
              /\ \A q \in Incoming : q # p => FreeLink(q) # FreeLink(p)
<1> DEFINE es == Ids({e \in rEvents : e.slot = p.slot})
<1>1. SlotLink(p) = IF \E i \in es : es = {i} THEN CHOOSE i \in es : TRUE ELSE NoEvent
  BY DEF SlotLink
<1>2. \A i \in es : \E e \in rEvents : e.id = i /\ e.slot = p.slot /\ i \in EventIds
  BY DEF Ids, TypeOK, Event
<1> HIDE DEF es
<1>3. SlotLink(p) \in es \/ SlotLink(p) = NoEvent
  BY <1>1
<1>4. SlotLink(p) # NoEvent =>
        /\ SlotLink(p) \in EventIds
        /\ \E e \in rEvents : e.id = SlotLink(p) /\ e.slot = p.slot
  BY <1>2, <1>3
<1> QED BY <1>4 DEF OwnLink, FreeLink

-----------------------------------------------------------------------------
(* Type correctness.                                                       *)

\* The empty stores have their types.
LEMMA TypeInit == Init => TypeOK
<1> SUFFICES ASSUME Init PROVE TypeOK
  OBVIOUS
<1>1. snap \in Snapshot
  BY DEF Init, Snapshot, EmptySnapshot
<1>2. pulled \in BOOLEAN
  BY DEF Init
<1>3. /\ rEvSeq \in 0..MaxEventId /\ rSeq \in 0..MaxResearchId
      /\ sEvSeq \in 0..MaxEventId /\ sSeq \in Floor..MaxServingId
      /\ day \in 1..LastDay /\ end \in 0..LastDay /\ mishaps \in 0..MaxDisruptions
  BY DEF Init
<1> QED BY <1>1, <1>2, <1>3 DEF Init, TypeOK

\* A disruption is counted, and the count stays within its bound.
LEMMA MishapType ==
  ASSUME TypeOK, \/ UNCHANGED mishaps
                 \/ \E kind \in DisruptionKinds : Mishap(kind)
  PROVE  mishaps' \in 0..MaxDisruptions
BY DEF TypeOK, Mishap

\* setval leaves a sequence at an id of its table, or where it was.
LEMMA SetvalFacts ==
  ASSUME NEW next, NEW seq, NEW ids, Setval(next, seq, ids)
  PROVE  /\ next = seq \/ next \in ids
         /\ \A i \in ids : i <= next
BY DEF Setval

\* The pull is done or it is not.
LEMMA PulledType == TypeOK /\ [Next]_vars => pulled' \in BOOLEAN
<1> SUFFICES ASSUME TypeOK, [Next]_vars PROVE pulled' \in BOOLEAN
  OBVIOUS
<1>1. pulled \in BOOLEAN
  BY DEF TypeOK
<1>2. CASE Start
  BY <1>2 DEF Start
<1>3. CASE PullWrite
  BY <1>3 DEF PullWrite
<1>4. CASE UNCHANGED pulled
  BY <1>1, <1>4
<1>5. CASE Pi \/ Clock \/ WeeklyRefit
  BY <1>1, <1>5 DEF Pi, Fire, Score, Clock, CloseSession, NextDay, WeeklyRefit, chain
<1>6. CASE Nightly
  BY <1>1, <1>2, <1>3, <1>6 DEF Nightly, RunEvents, PeakLabels, PullRead, PullFail,
     Predict, Outcomes, SyncBegin, SyncEvents, SyncClear, SyncCopy, SyncCopyRaises,
     SyncOutcomes, SyncFail, Sweep, Kill
<1>7. CASE UNCHANGED vars
  BY <1>1, <1>7 DEF vars, chain
<1> QED BY <1>5, <1>6, <1>7 DEF Next

\* Every step keeps the types.
LEMMA TypeStep == TypeOK /\ UniqueIds(rEvents) /\ UniqueIds(sEvents) /\ [Next]_vars => TypeOK'
<1> SUFFICES ASSUME TypeOK, UniqueIds(rEvents), UniqueIds(sEvents), [Next]_vars
             PROVE  TypeOK'
  OBVIOUS
<1> USE DEF NoEvent
<1>0. pulled' \in BOOLEAN
  BY PulledType
<1>m. Mishap("pull") \/ Mishap("sync") \/ Mishap("kill") \/ Mishap("skip")
      \/ Mishap("latebar") \/ Mishap("relabel") \/ Mishap("midsession")
      \/ Mishap("refit") \/ UNCHANGED mishaps
      => mishaps' \in 0..MaxDisruptions
  BY MishapType DEF DisruptionKinds
<1>1. ASSUME NEW s \in Slots, NEW l \in Labels, Fire(s, l) PROVE TypeOK'
  <2>1. sEvSeq + 1 \in EventIds /\ sEvSeq' \in 0..MaxEventId
    BY <1>1 DEF Fire, TypeOK, EventIds
  <2>r. [id |-> sEvSeq + 1, slot |-> s, label |-> l, prov |-> TRUE] \in SEvent
    BY <2>1 DEF SEvent
  <2>2. sEvents' \subseteq SEvent
    BY <1>1, <2>r DEF Fire, TypeOK
  <2> QED BY <1>0, <1>1, <2>1, <2>2 DEF Fire, TypeOK, research, calendar, chain, transfer
<1>2. CASE Score
  <2>1. PICK es \in SUBSET {e \in Unscored(sEvents, sPred) : SlotDay[e.slot] = day} :
          \E n \in sSeq..MaxServingId : \E f \in Mints(sSeq, Ids(es), n) :
            sPred' = sPred \cup Predicted(es, f) /\ sSeq' = n
    BY <1>2 DEF Score
  <2>2. PICK n \in sSeq..MaxServingId : \E f \in Mints(sSeq, Ids(es), n) :
            sPred' = sPred \cup Predicted(es, f) /\ sSeq' = n
    BY <2>1
  <2>3. PICK f \in Mints(sSeq, Ids(es), n) :
            sPred' = sPred \cup Predicted(es, f) /\ sSeq' = n
    BY <2>2
  <2>4. /\ \A e \in es : e.id \in EventIds /\ e.slot \in Slots /\ e.label \in Labels
        /\ UniqueIds(es)
    BY DEF Unscored, TypeOK, SEvent, UniqueIds
  <2>5. sSeq \in Nat /\ n \in Nat /\ (sSeq + 1)..n \subseteq PredIds
    BY <2>2 DEF TypeOK, PredIds, ServingIds
  <2>6. Predicted(es, f) \subseteq Pred
    BY <2>4, <2>5, PredictedFacts
  <2>7. sPred' \subseteq Pred /\ sSeq' \in Floor..MaxServingId
    BY <2>2, <2>3, <2>6 DEF TypeOK
  <2> QED BY <1>0, <1>2, <2>7 DEF Score, TypeOK, research, calendar, chain, transfer
<1>3. CASE CloseSession
  BY <1>0, <1>3 DEF CloseSession, TypeOK, research, serving, chain, transfer
<1>4. CASE NextDay
  <2>1. day' \in 1..LastDay /\ phase' \in {"session", "closed"}
    BY <1>4 DEF NextDay, TypeOK
  <2>2. mishaps' \in 0..MaxDisruptions
    BY <1>4, <1>m DEF NextDay
  <2> QED BY <1>0, <1>4, <2>1, <2>2 DEF NextDay, TypeOK, research, serving, chain, transfer
<1>5. CASE Start
  <2>1. end' \in 0..LastDay
    BY <1>5 DEF Start, NightlyEnd, TypeOK
  <2>2. mishaps' \in 0..MaxDisruptions
    BY <1>5, <1>m DEF Start
  <2> QED BY <1>0, <1>5, <2>1, <2>2 DEF Start, TypeOK, research, serving, calendar, transfer
<1>6. CASE RunEvents
  <2>a. PICK new \in SUBSET Window : \E primary \in [new -> Labels] :
          \E n \in rEvSeq..MaxEventId : \E f \in Mints(rEvSeq, new, n) :
            /\ rEvents' = rEvents \cup
                 {[id |-> f[s], slot |-> s, label |-> primary[s]] : s \in new}
            /\ rEvSeq' = n
    BY <1>6 DEF RunEvents
  <2>b. PICK primary \in [new -> Labels], n \in rEvSeq..MaxEventId :
          \E f \in Mints(rEvSeq, new, n) :
            /\ rEvents' = rEvents \cup
                 {[id |-> f[s], slot |-> s, label |-> primary[s]] : s \in new}
            /\ rEvSeq' = n
    BY <2>a
  <2>1. PICK f \in Mints(rEvSeq, new, n) :
          /\ rEvents' = rEvents \cup
               {[id |-> f[s], slot |-> s, label |-> primary[s]] : s \in new}
          /\ rEvSeq' = n
    BY <2>b
  <2>2. f \in [new -> (rEvSeq + 1)..n] /\ (rEvSeq + 1)..n \subseteq EventIds
    BY <2>1, MintsFacts DEF TypeOK, EventIds
  <2>3. new \subseteq Slots
    BY DEF Window
  <2>4. \A s \in new : [id |-> f[s], slot |-> s, label |-> primary[s]] \in Event
    BY <2>2, <2>3 DEF Event
  <2>5. rEvents' \subseteq Event /\ rEvSeq' \in 0..MaxEventId
    BY <2>1, <2>4 DEF TypeOK
  <2>6. mishaps' \in 0..MaxDisruptions
    BY <1>6, <1>m DEF RunEvents
  <2> QED BY <1>0, <1>6, <2>5, <2>6 DEF RunEvents, TypeOK, serving, calendar, transfer
<1>7. CASE PeakLabels
  <2>1. closed' \subseteq EventIds
    BY <1>7 DEF PeakLabels, TypeOK, Event
  <2> QED BY <1>0, <1>7, <2>1 DEF PeakLabels, TypeOK, serving, calendar, transfer
<1>8. CASE PullRead
  <2>1. \A p \in Incoming : [p EXCEPT !.ev = OwnLink(p)] \in Pred
    BY OwnLinkFacts DEF Incoming, TypeOK, Pred
  <2>2. frame' \subseteq Pred
    BY <1>8, <2>1 DEF PullRead
  <2> QED BY <1>0, <1>8, <2>2 DEF PullRead, TypeOK, research, serving, calendar
<1>9. CASE PullWrite
  <2>1. rPred' \subseteq Pred
    BY <1>9 DEF PullWrite, TypeOK
  <2>2. rSeq' \in 0..MaxResearchId
    <3>1. \A i \in {i \in Ids(rPred') : i < Floor} : i \in 0..MaxResearchId
      BY <2>1 DEF Ids, Pred, PredIds, ResearchIds, ServingIds
    <3> QED BY <1>9, <3>1, SetvalFacts DEF PullWrite, ResearchReset, TypeOK
  <2>3. rEvSeq' \in 0..MaxEventId
    BY <1>9, SetvalFacts DEF PullWrite, ResearchReset, TypeOK, Ids, Event, EventIds
  <2> QED BY <1>0, <1>9, <2>1, <2>2, <2>3 DEF PullWrite, TypeOK, serving, calendar
<1>10. CASE PullFail
  <2>1. mishaps' \in 0..MaxDisruptions
    BY <1>10, <1>m DEF PullFail
  <2> QED BY <1>0, <1>10, <2>1 DEF PullFail, TypeOK, research, serving, calendar
<1>11. ASSUME NEW es \in SUBSET Unscored(rEvents, rPred), WritePredictions(es)
       PROVE  rPred' \subseteq Pred /\ rSeq' \in 0..MaxResearchId
  <2>a. PICK n \in rSeq..MaxResearchId : \E f \in Mints(rSeq, Ids(es), n) :
          rPred' = rPred \cup Predicted(es, f) /\ rSeq' = n
    BY <1>11 DEF WritePredictions
  <2>1. PICK f \in Mints(rSeq, Ids(es), n) :
          rPred' = rPred \cup Predicted(es, f) /\ rSeq' = n
    BY <2>a
  <2>2. /\ \A e \in es : e.id \in EventIds /\ e.slot \in Slots /\ e.label \in Labels
        /\ UniqueIds(es)
    BY DEF Unscored, TypeOK, Event, UniqueIds
  <2>3. rSeq \in Nat /\ n \in Nat /\ (rSeq + 1)..n \subseteq PredIds
    BY <2>1 DEF TypeOK, PredIds, ResearchIds
  <2>4. Predicted(es, f) \subseteq Pred
    BY <2>2, <2>3, PredictedFacts
  <2> QED BY <2>1, <2>4 DEF TypeOK
<1>12. CASE Predict
  <2>1. rPred' \subseteq Pred /\ rSeq' \in 0..MaxResearchId
    BY <1>11, <1>12 DEF Predict
  <2>2. mishaps' \in 0..MaxDisruptions
    BY <1>12, <1>m DEF Predict
  <2> QED BY <1>0, <1>12, <2>1, <2>2 DEF Predict, TypeOK, serving, calendar, transfer
<1>13. CASE WeeklyRefit
  <2>1. rPred' \subseteq Pred /\ rSeq' \in 0..MaxResearchId
    BY <1>11, <1>13 DEF WeeklyRefit
  <2>2. mishaps' \in 0..MaxDisruptions
    BY <1>13, <1>m DEF WeeklyRefit
  <2> QED BY <1>0, <1>13, <2>1, <2>2 DEF WeeklyRefit, TypeOK, serving, calendar, chain, transfer
<1>14. CASE Outcomes
  <2>1. Resolvable \subseteq Outcome
    BY DEF Resolvable, TypeOK, Pred, Event, Outcome
  <2>2. rOut' \subseteq Outcome
    BY <1>14, <2>1 DEF Outcomes, TypeOK
  <2> QED BY <1>0, <1>14, <2>2 DEF Outcomes, TypeOK, serving, calendar, transfer
<1>15. ASSUME ServingReset PROVE sSeq' \in Floor..MaxServingId /\ sEvSeq' \in 0..MaxEventId
  <2>1. sSeq' \in Ids(sPred) \cup {Floor} /\ Floor <= sSeq'
    BY <1>15 DEF ServingReset, Setval
  <2>2. \A i \in Ids(sPred) : i \in PredIds
    BY DEF Ids, TypeOK, Pred
  <2>3. sSeq' \in Floor..MaxServingId
    BY <2>1, <2>2 DEF PredIds, ResearchIds, ServingIds
  <2>4. \A i \in Ids(sEvents) : i \in 0..MaxEventId
    BY DEF Ids, TypeOK, SEvent, EventIds
  <2> QED BY <1>15, <2>3, <2>4, SetvalFacts DEF ServingReset, TypeOK
<1>16. CASE SyncBegin
  <2>1. snap' \in Snapshot
    BY <1>16 DEF SyncBegin, TypeOK, Snapshot
  <2> QED BY <1>0, <1>15, <1>16, <2>1 DEF SyncBegin, TypeOK, research, calendar
<1>17. CASE SyncEvents
  <2> DEFINE new == {e \in snap.events : ~ \E x \in sEvents : SameKey(x, e)}
  <2>a. PICK n \in sEvSeq..MaxEventId : \E f \in Mints(sEvSeq, Ids(new), n) :
            /\ sEvents' =
                 {[x EXCEPT !.prov = x.prov /\ ~ \E e \in snap.events : SameKey(x, e)] :
                    x \in sEvents}
                 \cup {[id |-> f[e.id], slot |-> e.slot, label |-> e.label,
                        prov |-> FALSE] : e \in new}
            /\ sEvSeq' = n
    BY <1>17 DEF SyncEvents
  <2>1. PICK f \in Mints(sEvSeq, Ids(new), n) :
            /\ sEvents' =
                 {[x EXCEPT !.prov = x.prov /\ ~ \E e \in snap.events : SameKey(x, e)] :
                    x \in sEvents}
                 \cup {[id |-> f[e.id], slot |-> e.slot, label |-> e.label,
                        prov |-> FALSE] : e \in new}
            /\ sEvSeq' = n
    BY <2>a
  <2>i. f \in [Ids(new) -> (sEvSeq + 1)..n]
    <3> HIDE DEF new
    <3> QED BY MintsFacts
  <2>j. n \in 0..MaxEventId
    BY DEF TypeOK
  <2>2. f \in [Ids(new) -> (sEvSeq + 1)..n] /\ (sEvSeq + 1)..n \subseteq EventIds
    BY <2>i, <2>j DEF TypeOK, EventIds
  <2>3. \A e \in new : e.id \in Ids(new) /\ e.slot \in Slots /\ e.label \in Labels
    BY DEF Ids, TypeOK, Snapshot, Event
  <2>4. \A e \in new : [id |-> f[e.id], slot |-> e.slot, label |-> e.label,
                         prov |-> FALSE] \in SEvent
    BY <2>2, <2>3 DEF SEvent
  <2>5. \A x \in sEvents :
          [x EXCEPT !.prov = x.prov /\ ~ \E e \in snap.events : SameKey(x, e)] \in SEvent
    BY DEF TypeOK, SEvent
  <2>6. sEvents' \subseteq SEvent /\ sEvSeq' \in 0..MaxEventId
    <3> HIDE DEF new
    <3> QED BY <2>1, <2>4, <2>5 DEF TypeOK
  <2> QED BY <1>0, <1>17, <2>6 DEF SyncEvents, TypeOK, research, calendar, transfer
<1>18. CASE SyncClear
  <2>1. \A p \in snap.preds : Outbound(p) \in EventIds \cup {NoEvent}
    <3> SUFFICES ASSUME NEW p \in snap.preds PROVE Outbound(p) \in EventIds \cup {NoEvent}
      OBVIOUS
    <3> DEFINE hits == Ids({x \in sEvents : \E e \in snap.events : e.id = p.ev /\ SameKey(x, e)})
    <3>1. hits \subseteq EventIds
      BY DEF Ids, TypeOK, SEvent
    <3>2. Outbound(p) = IF hits = {} THEN NoEvent ELSE CHOOSE i \in hits : TRUE
      BY DEF Outbound
    <3> HIDE DEF hits
    <3> QED BY <3>1, <3>2
  <2>2. \A p \in snap.preds : p \in Pred
    BY DEF TypeOK, Snapshot
  <2>3. OutFrame \subseteq Pred
    BY <2>1, <2>2 DEF OutFrame, Pred
  <2>4. EmptySnapshot \in Snapshot
    BY DEF EmptySnapshot, Snapshot
  <2>5. sPred' \subseteq Pred /\ frame' \subseteq Pred /\ snap' \in Snapshot
    BY <1>18, <2>3, <2>4 DEF SyncClear, TypeOK
  <2> QED BY <1>0, <1>18, <2>5 DEF SyncClear, TypeOK, research, calendar
<1>19. CASE SyncCopy
  BY <1>0, <1>19 DEF SyncCopy, TypeOK, research, calendar
<1>20. EmptySnapshot \in Snapshot
  BY DEF EmptySnapshot, Snapshot
<1>21. CASE SyncCopyRaises
  BY <1>0, <1>20, <1>21 DEF SyncCopyRaises, TypeOK, research, serving, calendar
<1>22. CASE SyncOutcomes
  <2>1. sOut' \subseteq Outcome
    BY <1>22 DEF SyncOutcomes, TypeOK, Snapshot
  <2> QED BY <1>0, <1>15, <1>20, <1>22, <2>1 DEF SyncOutcomes, TypeOK, research, calendar
<1>23. CASE SyncFail \/ Kill
  <2>1. mishaps' \in 0..MaxDisruptions
    BY <1>23, <1>m DEF SyncFail, Kill
  <2> QED BY <1>0, <1>20, <1>23, <2>1 DEF SyncFail, Kill, TypeOK, research, serving, calendar
<1>24. CASE Sweep
  BY <1>0, <1>24 DEF Sweep, TypeOK, research, calendar, transfer
<1>25. CASE UNCHANGED vars
  BY <1>0, <1>25 DEF vars, research, serving, calendar, chain, transfer, TypeOK
<1> QED
  BY <1>1, <1>2, <1>3, <1>4, <1>5, <1>6, <1>7, <1>8, <1>9, <1>10, <1>12, <1>13, <1>14,
     <1>16, <1>17, <1>18, <1>19, <1>21, <1>22, <1>23, <1>24, <1>25
  DEF Next, Pi, Clock, Nightly

-----------------------------------------------------------------------------
(* What a part of the invariant needs in order to survive a step.          *)

InSync == {"sync_events", "sync_clear", "sync_copy"}

\* Actions that leave both identities of the stores alone keep the parts of the invariant about them.
LEMMA ResearchKeysStable ==
  ResearchKeys /\ UNCHANGED <<rEvents, rPred, rEvSeq, rSeq>> => ResearchKeys'
BY DEF ResearchKeys, UniqueIds, UniqueLinks, BornServing

\* The same for the rows and numbers of the serving store.
LEMMA ServingKeysStable ==
  ServingKeys /\ UNCHANGED <<sEvents, sPred, sEvSeq, sSeq>> => ServingKeys'
BY DEF ServingKeys, UniqueIds, BornServing

\* The same for where a prediction was born.
LEMMA ProvenanceStable ==
  Provenance /\ UNCHANGED <<rPred, sPred>> => Provenance'
BY DEF Provenance, BornServing, Ids

\* Research may grow beside a snapshot, by rows it minted itself.
LEMMA SnapshotStable ==
  ASSUME SnapshotIsPast,
         rEvents \subseteq rEvents', rPred \subseteq rPred', rOut \subseteq rOut',
         snap' \in {snap, EmptySnapshot},
         pc' \in InSync => /\ pc \in InSync /\ snap' = snap
                           /\ \A p \in rPred' \ rPred : ~BornServing(p)
  PROVE  SnapshotIsPast'
<1>1. /\ snap'.events \subseteq rEvents' /\ snap'.preds \subseteq rPred'
      /\ snap'.outs \subseteq rOut'
  BY DEF SnapshotIsPast, EmptySnapshot
<1>2. ASSUME pc' \in InSync, NEW p \in rPred', BornServing(p) PROVE p \in snap'.preds
  BY <1>2 DEF SnapshotIsPast, InSync
<1> QED BY <1>1, <1>2 DEF SnapshotIsPast, InSync, BornServing

\* The frame of a pull stays good while research and the chain stand still.
LEMMA PullFrameStable ==
  ASSUME PullFrame,
         \/ pc' # "pull_write"
         \/ UNCHANGED <<pc, frame, rEvents>> /\ sPred \subseteq sPred'
  PROVE  PullFrame'
BY DEF PullFrame, UniqueIds, UniqueLinks, BornServing, SameKey

\* The snapshot of a sync stays good while the chain stands still.
LEMMA CopyFrameStable ==
  ASSUME CopyFrame,
         \/ pc' # "sync_copy"
         \/ UNCHANGED <<pc, frame>> /\ rPred \subseteq rPred'
  PROVE  CopyFrame'
BY DEF CopyFrame, UniqueIds, SameKey

\* The identity across the stores depends on the two tables of predictions only.
LEMMA IdentityStable ==
  CrossStoreIdentity /\ UNCHANGED <<rPred, sPred>> => CrossStoreIdentity'
BY DEF CrossStoreIdentity

\* The links of research depend on its events and predictions only.
LEMMA LinksStable ==
  EvidenceLinksOwnSlot /\ rEvents \subseteq rEvents' /\ UNCHANGED rPred
    => EvidenceLinksOwnSlot'
BY DEF EvidenceLinksOwnSlot

\* The outcomes of research depend on its predictions and outcomes only.
LEMMA OutcomesStable ==
  OutcomesAreEvidence /\ rPred \subseteq rPred' /\ closed \subseteq closed' /\ UNCHANGED rOut
    => OutcomesAreEvidence'
BY DEF OutcomesAreEvidence

-----------------------------------------------------------------------------
(* The steps that disturb it, one lemma each.                              *)

\* The poller adds an event with a new number to serving.
LEMMA FireInv ==
  ASSUME IInv, NEW s \in Slots, NEW l \in Labels, Fire(s, l)
  PROVE  ServingKeys'
<1>1. \A x \in sEvents : x.id \in Nat /\ x.id <= sEvSeq
  BY DEF IInv, TypeOK, SEvent, EventIds, ServingKeys
<1>2. sEvSeq \in Nat
  BY DEF IInv, TypeOK
<1> DEFINE row == [id |-> sEvSeq + 1, slot |-> s, label |-> l, prov |-> TRUE]
<1>3. row.id = sEvSeq + 1
  OBVIOUS
<1>4. /\ sEvents' = sEvents \cup {row} /\ sEvSeq' = sEvSeq + 1
      /\ UNCHANGED <<sPred, sSeq>>
  BY DEF Fire
<1> HIDE DEF row
<1>5. \A x \in sEvents : x.id # row.id
  BY <1>1, <1>2, <1>3
<1>6. UniqueIds(sEvents')
  BY <1>4, <1>5 DEF IInv, ServingKeys, UniqueIds
<1>7. \A x \in sEvents' : x.id <= sEvSeq'
  BY <1>1, <1>2, <1>3, <1>4
<1>8. UniqueIds(sPred') /\ \A q \in sPred' : BornServing(q) => q.id <= sSeq'
  BY <1>4 DEF IInv, ServingKeys, UniqueIds, BornServing
<1> QED BY <1>6, <1>7, <1>8 DEF ServingKeys, UniqueIds, BornServing

\* A pass of predict adds predictions with new numbers to one store.
LEMMA ScoreInv ==
  ASSUME IInv, Score
  PROVE  ServingKeys' /\ Provenance' /\ CrossStoreIdentity' /\ sPred \subseteq sPred'
<1>1. PICK es \in SUBSET {e \in Unscored(sEvents, sPred) : SlotDay[e.slot] = day} :
        \E n \in sSeq..MaxServingId : \E f \in Mints(sSeq, Ids(es), n) :
          sPred' = sPred \cup Predicted(es, f) /\ sSeq' = n
  BY DEF Score
<1>2. PICK n \in sSeq..MaxServingId : \E f \in Mints(sSeq, Ids(es), n) :
        sPred' = sPred \cup Predicted(es, f) /\ sSeq' = n
  BY <1>1
<1>3. PICK f \in Mints(sSeq, Ids(es), n) :
        sPred' = sPred \cup Predicted(es, f) /\ sSeq' = n
  BY <1>2
<1>4. /\ \A e \in es : e.id \in EventIds /\ e.slot \in Slots /\ e.label \in Labels
      /\ UniqueIds(es)
  BY DEF Unscored, IInv, TypeOK, SEvent, ServingKeys, UniqueIds
<1>5. /\ sSeq \in Nat /\ n \in Nat /\ sSeq <= n /\ Floor <= sSeq
      /\ (sSeq + 1)..n \subseteq PredIds
  BY <1>2 DEF IInv, TypeOK, PredIds, ServingIds
<1>6. /\ UniqueIds(Predicted(es, f))
      /\ \A p \in Predicted(es, f) : p.id \in (sSeq + 1)..n
  BY <1>4, <1>5, PredictedFacts
<1>7. \A p \in sPred : p.id \in Nat /\ p.id <= sSeq
  BY <1>5 DEF IInv, TypeOK, Pred, PredIds, ResearchIds, ServingIds, ServingKeys, BornServing
<1>8. UniqueIds(sPred')
  BY <1>3, <1>5, <1>6, <1>7 DEF IInv, ServingKeys, UniqueIds
<1>9. \A q \in sPred' : q.id <= sSeq'
  BY <1>3, <1>5, <1>6, <1>7
<1>10. ServingKeys'
  BY <1>8, <1>9 DEF Score, IInv, ServingKeys, UniqueIds, BornServing
<1>11. \A p \in Predicted(es, f) : BornServing(p)
  BY <1>5, <1>6 DEF BornServing
<1>12. Provenance'
  BY <1>3, <1>11 DEF Score, research, IInv, Provenance, Ids, BornServing
<1>13. \A p \in rPred, q \in Predicted(es, f) : p.id # q.id
  <2> SUFFICES ASSUME NEW p \in rPred, NEW q \in Predicted(es, f), p.id = q.id PROVE FALSE
    OBVIOUS
  <2>1. BornServing(p) /\ q.id > sSeq
    BY <1>5, <1>6 DEF BornServing
  <2>2. PICK x \in sPred : x.id = p.id
    BY <2>1 DEF IInv, Provenance, Ids
  <2> QED BY <1>5, <1>6, <1>7, <2>1, <2>2
<1>14. CrossStoreIdentity'
  BY <1>3, <1>13 DEF Score, research, IInv, CrossStoreIdentity
<1> QED BY <1>3, <1>10, <1>12, <1>14

\* run_events rewrites the window and leaves linked events standing.
LEMMA RunEventsInv ==
  ASSUME IInv, RunEvents
  PROVE  ResearchKeys' /\ rEvents \subseteq rEvents'
<1>1. PICK new \in SUBSET Window : \E primary \in [new -> Labels] :
        \E n \in rEvSeq..MaxEventId : \E f \in Mints(rEvSeq, new, n) :
          /\ rEvents' = rEvents \cup
               {[id |-> f[s], slot |-> s, label |-> primary[s]] : s \in new}
          /\ rEvSeq' = n
  BY DEF RunEvents
<1>2. PICK primary \in [new -> Labels], n \in rEvSeq..MaxEventId :
        \E f \in Mints(rEvSeq, new, n) :
          /\ rEvents' = rEvents \cup
               {[id |-> f[s], slot |-> s, label |-> primary[s]] : s \in new}
          /\ rEvSeq' = n
  BY <1>1
<1>3. PICK f \in Mints(rEvSeq, new, n) :
        /\ rEvents' = rEvents \cup
             {[id |-> f[s], slot |-> s, label |-> primary[s]] : s \in new}
        /\ rEvSeq' = n
  BY <1>2
<1>4. /\ f \in [new -> (rEvSeq + 1)..n]
      /\ \A a, b \in new : f[a] = f[b] => a = b
  BY MintsFacts
<1>5. rEvSeq \in Nat /\ n \in Nat /\ rEvSeq <= n
  BY DEF IInv, TypeOK
<1>6. \A e \in rEvents : e.id \in Nat /\ e.id <= rEvSeq
  BY DEF IInv, TypeOK, ResearchKeys, Event, EventIds
<1>7. UniqueIds(rEvents')
  BY <1>3, <1>4, <1>5, <1>6 DEF IInv, ResearchKeys, UniqueIds
<1>8. \A e \in rEvents' : e.id <= rEvSeq'
  BY <1>3, <1>4, <1>5, <1>6
<1>9. UNCHANGED <<rPred, rSeq>>
  BY DEF RunEvents
<1>10. UniqueIds(rPred') /\ UniqueLinks(rPred') /\ \A p \in rPred' : ~BornServing(p) => p.id <= rSeq'
  BY <1>9 DEF IInv, ResearchKeys, UniqueIds, UniqueLinks, BornServing
<1> QED BY <1>3, <1>7, <1>8, <1>10 DEF ResearchKeys, BornServing

\* The three nulling steps of the pull leave a frame research can hold as it is.
LEMMA PullReadInv ==
  ASSUME IInv, PullRead
  PROVE  PullFrame'
<1> DEFINE row(p) == [p EXCEPT !.ev = OwnLink(p)]
<1>0. frame' = {row(p) : p \in Incoming} /\ UNCHANGED <<sPred, rEvents>>
  BY DEF PullRead, serving, research
<1>1. \A p \in Incoming :
        /\ p \in sPred /\ BornServing(p)
        /\ row(p).id = p.id /\ SameKey(p, row(p)) /\ row(p).ev = OwnLink(p)
  BY DEF Incoming, IInv, TypeOK, Pred, SameKey
<1>2. \A p \in Incoming : OwnLink(p) # NoEvent =>
        /\ \E e \in rEvents : e.id = OwnLink(p) /\ e.slot = p.slot
        /\ OwnLink(p) = FreeLink(p)
        /\ \A q \in Incoming : q # p => FreeLink(q) # FreeLink(p)
  BY OwnLinkFacts DEF IInv
<1> HIDE DEF row
<1>3. UniqueIds(frame')
  BY <1>0, <1>1 DEF IInv, ServingKeys, UniqueIds
<1>4. UniqueLinks(frame')
  <2> SUFFICES ASSUME NEW p \in Incoming, NEW q \in Incoming,
                      row(p).ev # NoEvent, row(p).ev = row(q).ev
               PROVE  p = q
    BY <1>0 DEF UniqueLinks
  <2> QED BY <1>1, <1>2
<1>5. \A p \in Incoming : BornServing(row(p))
  BY <1>1 DEF BornServing
<1>6. \A p \in Incoming : row(p).ev # NoEvent =>
        \E e \in rEvents : e.id = row(p).ev /\ e.slot = row(p).slot
  BY <1>1, <1>2 DEF SameKey
<1>7. \A p \in frame' :
        /\ BornServing(p)
        /\ \E q \in sPred' : q.id = p.id /\ SameKey(q, p)
        /\ p.ev # NoEvent => \E e \in rEvents' : e.id = p.ev /\ e.slot = p.slot
  BY <1>0, <1>1, <1>5, <1>6
<1> QED BY <1>3, <1>4, <1>7 DEF PullFrame, UniqueIds, UniqueLinks, BornServing, SameKey

\* The adopted rows keep their numbers, and link to their own slot or to nothing.
LEMMA PullWriteInv ==
  ASSUME IInv, PullWrite
  PROVE  /\ ResearchKeys' /\ Provenance' /\ CrossStoreIdentity' /\ EvidenceLinksOwnSlot'
         /\ rPred \subseteq rPred' /\ UNCHANGED <<rEvents, closed, rOut, snap>> /\ pc' = "predict"
<1> DEFINE raises == \E p \in frame : p.id \notin Ids(rPred) /\ LinkTaken(p, rPred)
           added == rPred' \ rPred
<1>0. /\ pc = "pull_write"
      /\ UNCHANGED <<rEvents, closed, rOut, snap, sPred>> /\ pc' = "predict"
      /\ rPred \subseteq rPred'
  BY DEF PullWrite, serving
<1>1. \A p \in added : p \in frame /\ p.id \notin Ids(rPred) /\ ~LinkTaken(p, rPred)
  BY DEF PullWrite
<1>2. /\ UniqueIds(frame) /\ UniqueLinks(frame)
      /\ \A p \in added :
           /\ BornServing(p)
           /\ \E q \in sPred : q.id = p.id /\ SameKey(q, p)
           /\ p.ev # NoEvent => \E e \in rEvents : e.id = p.ev /\ e.slot = p.slot
  BY <1>0, <1>1 DEF IInv, PullFrame
<1>3. \A p \in rPred' : p \in rPred \/ p \in added
  OBVIOUS
<1> HIDE DEF added
<1>4. UniqueIds(rPred')
  BY <1>1, <1>2, <1>3 DEF IInv, ResearchKeys, UniqueIds, Ids
<1>5. UniqueLinks(rPred')
  <2> SUFFICES ASSUME NEW p \in rPred', NEW q \in rPred', p.ev # NoEvent, p.ev = q.ev
               PROVE  p = q
    BY DEF UniqueLinks
  <2>1. CASE p \in rPred /\ q \in rPred
    BY <2>1 DEF IInv, ResearchKeys, UniqueLinks
  <2>2. CASE p \in added /\ q \in added
    BY <1>1, <1>2, <2>2 DEF UniqueLinks
  <2>3. CASE p \in rPred /\ q \in added
    BY <1>1, <2>3 DEF LinkTaken, Ids
  <2>4. CASE p \in added /\ q \in rPred
    BY <1>1, <2>4 DEF LinkTaken, Ids
  <2> QED BY <1>3, <2>1, <2>2, <2>3, <2>4
<1>6. \A p \in rPred' : ~BornServing(p) => p.id <= rSeq'
  <2> SUFFICES ASSUME NEW p \in rPred', ~BornServing(p) PROVE p.id <= rSeq'
    OBVIOUS
  <2>1. p \in rPred
    BY <1>2, <1>3
  <2>2. p.id \in {i \in Ids(rPred') : i < Floor}
    BY <2>1 DEF Ids, BornServing, IInv, TypeOK, Pred, PredIds, ResearchIds, ServingIds
  <2>3. Setval(rSeq', rSeq, {i \in Ids(rPred') : i < Floor})
    BY DEF PullWrite, ResearchReset
  <2> QED BY <2>2, <2>3, SetvalFacts
<1>7. \A e \in rEvents' : e.id <= rEvSeq'
  <2>1. Setval(rEvSeq', rEvSeq, Ids(rEvents))
    BY DEF PullWrite, ResearchReset
  <2> QED BY <1>0, <2>1, SetvalFacts DEF Ids
<1>8. ResearchKeys'
  BY <1>0, <1>4, <1>5, <1>6, <1>7 DEF IInv, ResearchKeys, UniqueIds, UniqueLinks, BornServing
<1>9. Provenance'
  BY <1>0, <1>2, <1>3 DEF IInv, Provenance, Ids, BornServing
<1>10. CrossStoreIdentity'
  <2> SUFFICES ASSUME NEW p \in rPred', NEW q \in sPred, p.id = q.id
               PROVE  p.slot = q.slot /\ p.label = q.label
    BY <1>0 DEF CrossStoreIdentity
  <2>1. CASE p \in rPred
    BY <2>1 DEF IInv, CrossStoreIdentity
  <2>2. CASE p \in added
    <3>1. PICK x \in sPred : x.id = p.id /\ SameKey(x, p)
      BY <1>2, <2>2
    <3>2. x = q
      BY <3>1 DEF IInv, ServingKeys, UniqueIds
    <3> QED BY <3>1, <3>2 DEF SameKey
  <2> QED BY <1>3, <2>1, <2>2
<1>11. EvidenceLinksOwnSlot'
  BY <1>0, <1>2, <1>3 DEF IInv, EvidenceLinksOwnSlot
<1> QED BY <1>0, <1>8, <1>9, <1>10, <1>11

\* run_predict on research, from the nightly chain or from the weekly refit.
LEMMA WritePredictionsInv ==
  ASSUME IInv, NEW es \in SUBSET Unscored(rEvents, rPred), WritePredictions(es),
         UNCHANGED <<rEvents, rEvSeq, sPred>>
  PROVE  /\ ResearchKeys' /\ Provenance' /\ CrossStoreIdentity' /\ EvidenceLinksOwnSlot'
         /\ rPred \subseteq rPred' /\ \A p \in rPred' \ rPred : ~BornServing(p)
<1>1. PICK n \in rSeq..MaxResearchId : \E f \in Mints(rSeq, Ids(es), n) :
        rPred' = rPred \cup Predicted(es, f) /\ rSeq' = n
  BY DEF WritePredictions
<1>2. PICK f \in Mints(rSeq, Ids(es), n) :
        rPred' = rPred \cup Predicted(es, f) /\ rSeq' = n
  BY <1>1
<1> DEFINE added == Predicted(es, f)
<1>3. /\ \A e \in es : e.id \in EventIds /\ e.slot \in Slots /\ e.label \in Labels
      /\ UniqueIds(es)
  BY DEF Unscored, IInv, TypeOK, Event, ResearchKeys, UniqueIds
<1>4. /\ rSeq \in Nat /\ n \in Nat /\ rSeq <= n /\ n < Floor
      /\ (rSeq + 1)..n \subseteq PredIds
  BY <1>1 DEF IInv, TypeOK, PredIds, ResearchIds
<1>5. /\ UniqueIds(added) /\ UniqueLinks(added)
      /\ \A p \in added :
           /\ p.id \in (rSeq + 1)..n
           /\ \E e \in es : e.id = p.ev /\ e.slot = p.slot
  BY <1>3, <1>4, PredictedFacts
<1> HIDE DEF added
<1>6. \A p \in added : ~BornServing(p)
  BY <1>4, <1>5 DEF BornServing
<1>7. \A p \in rPred : p.id \in Nat /\ (~BornServing(p) => p.id <= rSeq)
                       /\ (BornServing(p) => p.id >= Floor)
  BY DEF IInv, TypeOK, ResearchKeys, Pred, PredIds, ResearchIds, ServingIds, BornServing
<1>8. \A p \in rPred, q \in added : p.id # q.id
  BY <1>4, <1>5, <1>7
<1>9. \A p \in rPred, q \in added : p.ev # q.ev
  BY <1>5 DEF Unscored
<1>10. rPred' = rPred \cup added
  BY <1>2 DEF added
<1>11. UniqueIds(rPred') /\ UniqueLinks(rPred')
  BY <1>5, <1>8, <1>9, <1>10 DEF IInv, ResearchKeys, UniqueIds, UniqueLinks
<1>12. \A p \in rPred' : ~BornServing(p) => p.id <= rSeq'
  BY <1>2, <1>4, <1>5, <1>7, <1>10
<1>13. ResearchKeys'
  BY <1>11, <1>12 DEF IInv, ResearchKeys, UniqueIds, UniqueLinks, BornServing
<1>14. Provenance'
  BY <1>6, <1>10 DEF IInv, Provenance, Ids, BornServing
<1>15. \A q \in sPred, p \in added : p.id # q.id
  <2> SUFFICES ASSUME NEW q \in sPred, NEW p \in added, p.id = q.id PROVE FALSE
    OBVIOUS
  <2>1. PICK x \in rPred : x.id = q.id
    BY <1>6 DEF IInv, Provenance, Ids, BornServing
  <2> QED BY <1>8, <2>1
<1>16. CrossStoreIdentity'
  BY <1>10, <1>15 DEF IInv, CrossStoreIdentity
<1>17. EvidenceLinksOwnSlot'
  BY <1>5, <1>10 DEF IInv, EvidenceLinksOwnSlot, Unscored
<1> QED BY <1>6, <1>10, <1>13, <1>14, <1>16, <1>17

\* The resolver adds outcomes of predictions that have none.
LEMMA OutcomesInv ==
  ASSUME IInv, Outcomes
  PROVE  OutcomesAreEvidence' /\ rOut \subseteq rOut'
<1>1. \A o \in Resolvable : \E p \in rPred, e \in rEvents :
        o = [pred |-> p.id, slot |-> e.slot] /\ p.ev = e.id /\ e.id \in closed
  BY DEF Resolvable
<1>2. \A o \in Resolvable : \E p \in rPred : p.id = o.pred /\ p.slot = o.slot /\ p.ev \in closed
  <2> SUFFICES ASSUME NEW o \in Resolvable
               PROVE  \E p \in rPred : p.id = o.pred /\ p.slot = o.slot /\ p.ev \in closed
    OBVIOUS
  <2>1. PICK p \in rPred, e \in rEvents :
          o = [pred |-> p.id, slot |-> e.slot] /\ p.ev = e.id /\ e.id \in closed
    BY <1>1
  <2>2. p.ev # NoEvent
    BY <2>1 DEF IInv, TypeOK, Event, EventIds, NoEvent
  <2>3. PICK x \in rEvents : x.id = p.ev /\ x.slot = p.slot
    BY <2>2 DEF IInv, EvidenceLinksOwnSlot
  <2>4. x = e
    BY <2>1, <2>3 DEF IInv, ResearchKeys, UniqueIds
  <2> QED BY <2>1, <2>3, <2>4
<1>3. \A o, x \in Resolvable : o.pred = x.pred => o = x
  <2> SUFFICES ASSUME NEW o \in Resolvable, NEW x \in Resolvable, o.pred = x.pred PROVE o = x
    OBVIOUS
  <2>1. PICK p \in rPred, e \in rEvents :
          o = [pred |-> p.id, slot |-> e.slot] /\ p.ev = e.id
    BY <1>1
  <2>2. PICK q \in rPred, d \in rEvents :
          x = [pred |-> q.id, slot |-> d.slot] /\ q.ev = d.id
    BY <1>1
  <2>3. p = q
    BY <2>1, <2>2 DEF IInv, ResearchKeys, UniqueIds
  <2>4. e = d
    BY <2>1, <2>2, <2>3 DEF IInv, ResearchKeys, UniqueIds
  <2> QED BY <2>1, <2>2, <2>3, <2>4
<1>4. rOut' = rOut \cup {o \in Resolvable : \A x \in rOut : x.pred # o.pred}
      /\ UNCHANGED <<rPred, closed>>
  BY DEF Outcomes
<1>5. \A o \in rOut' : \E p \in rPred' : p.id = o.pred /\ p.slot = o.slot /\ p.ev \in closed'
  BY <1>2, <1>4 DEF IInv, OutcomesAreEvidence
<1>6. \A o, x \in rOut' : o.pred = x.pred => o = x
  BY <1>3, <1>4 DEF IInv, OutcomesAreEvidence
<1> QED BY <1>4, <1>5, <1>6 DEF OutcomesAreEvidence

\* setval on serving never falls behind an id the table holds.
LEMMA ServingResetInv ==
  ASSUME IInv, ServingReset, UNCHANGED <<sEvents, sPred>>
  PROVE  ServingKeys'
<1>1. Setval(sSeq', sSeq, Ids(sPred) \cup {Floor}) /\ Setval(sEvSeq', sEvSeq, Ids(sEvents))
  BY DEF ServingReset
<1>2. \A q \in sPred : q.id <= sSeq'
  BY <1>1, SetvalFacts DEF Ids
<1>3. \A x \in sEvents : x.id <= sEvSeq'
  BY <1>1, SetvalFacts DEF Ids
<1> QED BY <1>2, <1>3 DEF IInv, ServingKeys, UniqueIds, BornServing

\* The upsert on the natural key moves no event's id, and mints new ones after
\* the sequence.
LEMMA SyncEventsInv ==
  ASSUME IInv, SyncEvents
  PROVE  ServingKeys'
<1> DEFINE new == {e \in snap.events : ~ \E x \in sEvents : SameKey(x, e)}
           kept(x) == [x EXCEPT !.prov = x.prov /\ ~ \E e \in snap.events : SameKey(x, e)]
<1>1. PICK n \in sEvSeq..MaxEventId : \E f \in Mints(sEvSeq, Ids(new), n) :
        /\ sEvents' = {kept(x) : x \in sEvents} \cup
             {[id |-> f[e.id], slot |-> e.slot, label |-> e.label, prov |-> FALSE] : e \in new}
        /\ sEvSeq' = n
  BY DEF SyncEvents
<1>2. PICK f \in Mints(sEvSeq, Ids(new), n) :
        /\ sEvents' = {kept(x) : x \in sEvents} \cup
             {[id |-> f[e.id], slot |-> e.slot, label |-> e.label, prov |-> FALSE] : e \in new}
        /\ sEvSeq' = n
  BY <1>1
<1>3. \A x \in sEvents : kept(x).id = x.id
  BY DEF IInv, TypeOK, SEvent
<1>4. \A a, b \in new : a.id = b.id => a = b
  BY DEF IInv, ResearchKeys, SnapshotIsPast, UniqueIds
<1>5. \A e \in new : e.id \in Ids(new)
  BY DEF Ids
<1> HIDE DEF new, kept
<1>6. /\ f \in [Ids(new) -> (sEvSeq + 1)..n]
      /\ \A a, b \in Ids(new) : f[a] = f[b] => a = b
  BY MintsFacts
<1>7. sEvSeq \in Nat /\ n \in Nat /\ sEvSeq <= n
  BY DEF IInv, TypeOK
<1>8. \A x \in sEvents : x.id \in Nat /\ x.id <= sEvSeq
  BY DEF IInv, TypeOK, ServingKeys, SEvent, EventIds
<1>9. UniqueIds(sEvents')
  <2>1. \A e \in new : f[e.id] \in (sEvSeq + 1)..n
    BY <1>5, <1>6
  <2>2. \A d, e \in new : f[d.id] = f[e.id] => d = e
    BY <1>4, <1>5, <1>6
  <2>3. \A x, y \in sEvents : kept(x).id = kept(y).id => x = y
    BY <1>3 DEF IInv, ServingKeys, UniqueIds
  <2>4. \A x \in sEvents, e \in new : kept(x).id # f[e.id]
    BY <1>3, <1>7, <1>8, <2>1
  <2> DEFINE row(e) == [id |-> f[e.id], slot |-> e.slot, label |-> e.label, prov |-> FALSE]
  <2>5. /\ \A e \in new : row(e).id = f[e.id]
        /\ sEvents' = {kept(x) : x \in sEvents} \cup {row(e) : e \in new}
    BY <1>2
  <2> HIDE DEF row
  <2>6. ASSUME NEW y \in sEvents', NEW z \in sEvents', y.id = z.id PROVE y = z
    <3>1. CASE \E a, b \in sEvents : y = kept(a) /\ z = kept(b)
      BY <2>3, <2>6, <3>1
    <3>2. CASE \E d, e \in new : y = row(d) /\ z = row(e)
      BY <2>2, <2>5, <2>6, <3>2
    <3>3. CASE \E a \in sEvents, e \in new : \/ y = kept(a) /\ z = row(e)
                                             \/ y = row(e) /\ z = kept(a)
      BY <2>4, <2>5, <2>6, <3>3
    <3> QED BY <2>5, <3>1, <3>2, <3>3
  <2> QED BY <2>6 DEF UniqueIds
<1>10. \A x \in sEvents' : x.id <= sEvSeq'
  <2>1. \A e \in new : f[e.id] <= n
    BY <1>5, <1>6, <1>7
  <2>2. \A x \in sEvents : kept(x).id <= n
    BY <1>3, <1>7, <1>8
  <2> QED BY <1>2, <2>1, <2>2
<1>11. UNCHANGED <<sPred, sSeq>>
  BY DEF SyncEvents
<1> QED BY <1>9, <1>10, <1>11 DEF IInv, ServingKeys, UniqueIds, BornServing

\* What SyncClear deletes is not in the snapshot, so research has not adopted it.
LEMMA SyncClearInv ==
  ASSUME IInv, SyncClear
  PROVE  ServingKeys' /\ Provenance' /\ CrossStoreIdentity' /\ CopyFrame'
<1>1. pc = "sync_clear" /\ UNCHANGED <<rPred, sEvents, sEvSeq, sSeq>>
  BY DEF SyncClear, research
<1>2. sPred' \subseteq sPred
  BY DEF SyncClear
<1>3. ServingKeys'
  BY <1>1, <1>2 DEF IInv, ServingKeys, UniqueIds, BornServing
<1>4. CrossStoreIdentity'
  BY <1>1, <1>2 DEF IInv, CrossStoreIdentity
<1>5. \A p \in snap.preds : \E r \in OutFrame : r.id = p.id
  <2>1. \A p \in snap.preds : [p EXCEPT !.ev = Outbound(p)].id = p.id
    BY DEF IInv, TypeOK, Snapshot, Pred
  <2> QED BY <2>1 DEF OutFrame
<1>6. Ids(snap.preds) \subseteq Ids(OutFrame)
  BY <1>5 DEF Ids
<1>7. \A q \in sPred \ sPred' : q.id \notin Ids(OutFrame)
  BY DEF SyncClear, Colliding
<1>8. \A p \in rPred : BornServing(p) => p.id \in Ids(snap.preds)
  BY <1>1 DEF IInv, SnapshotIsPast, Ids
<1>9. ASSUME NEW p \in rPred, BornServing(p) PROVE p.id \in Ids(sPred')
  <2>1. PICK q \in sPred : q.id = p.id
    BY <1>9 DEF IInv, Provenance, Ids
  <2>2. q \in sPred'
    BY <1>6, <1>7, <1>8, <1>9, <2>1
  <2> QED BY <2>1, <2>2 DEF Ids
<1>10. Provenance'
  BY <1>1, <1>2, <1>9 DEF IInv, Provenance, BornServing, Ids
<1>11. \A r \in OutFrame : \E p \in rPred : p.id = r.id /\ SameKey(p, r)
  <2>1. \A p \in snap.preds :
          LET r == [p EXCEPT !.ev = Outbound(p)] IN r.id = p.id /\ SameKey(p, r)
    BY DEF IInv, TypeOK, Snapshot, Pred, SameKey
  <2>2. snap.preds \subseteq rPred
    BY DEF IInv, SnapshotIsPast
  <2> QED BY <2>1, <2>2 DEF OutFrame
<1>12. UniqueIds(OutFrame)
  <2>1. \A p \in snap.preds : [p EXCEPT !.ev = Outbound(p)].id = p.id /\ p \in rPred
    BY DEF IInv, TypeOK, Snapshot, SnapshotIsPast, Pred
  <2>2. \A p, q \in rPred : p.id = q.id => p = q
    BY DEF IInv, ResearchKeys, UniqueIds
  <2>3. \A r \in OutFrame : \E p \in snap.preds : r = [p EXCEPT !.ev = Outbound(p)]
    BY DEF OutFrame
  <2>4. ASSUME NEW a \in OutFrame, NEW b \in OutFrame, a.id = b.id PROVE a = b
    <3>1. PICK p \in snap.preds : a = [p EXCEPT !.ev = Outbound(p)]
      BY <2>3
    <3>2. PICK q \in snap.preds : b = [q EXCEPT !.ev = Outbound(q)]
      BY <2>3
    <3>3. p = q
      BY <2>1, <2>2, <2>4, <3>1, <3>2
    <3> QED BY <3>1, <3>2, <3>3
  <2> QED BY <2>4 DEF UniqueIds
<1>13. pc' = "sync_copy" => frame' = OutFrame
  BY <1>1 DEF SyncClear
<1>14. CopyFrame'
  BY <1>1, <1>11, <1>12, <1>13 DEF CopyFrame, UniqueIds, SameKey
<1> QED BY <1>3, <1>4, <1>10, <1>14

\* The copy overwrites rows by id; every row it writes is one research holds.
LEMMA SyncCopyInv ==
  ASSUME IInv, SyncCopy
  PROVE  ServingKeys' /\ Provenance' /\ CrossStoreIdentity'
<1>1. /\ pc = "sync_copy" /\ UNCHANGED <<rPred, sEvents, sEvSeq, sSeq>>
      /\ sPred' = {q \in sPred : q.id \notin Ids(frame)} \cup frame
  BY DEF SyncCopy, research
<1>2. /\ UniqueIds(frame)
      /\ \A r \in frame : \E p \in rPred : p.id = r.id /\ SameKey(p, r)
  BY <1>1 DEF IInv, CopyFrame
<1>3. UniqueIds(sPred')
  BY <1>1, <1>2 DEF IInv, ServingKeys, UniqueIds, Ids
<1>4. ASSUME NEW r \in frame, BornServing(r) PROVE r.id <= sSeq
  <2>1. PICK p \in rPred : p.id = r.id
    BY <1>2
  <2>2. PICK q \in sPred : q.id = p.id
    BY <1>4, <2>1 DEF IInv, Provenance, Ids, BornServing
  <2> QED BY <1>4, <2>1, <2>2 DEF IInv, ServingKeys, BornServing
<1>5. ServingKeys'
  BY <1>1, <1>3, <1>4 DEF IInv, ServingKeys, UniqueIds, BornServing
<1>6. Ids(sPred) \subseteq Ids(sPred')
  BY <1>1 DEF Ids
<1>7. \A q \in sPred' : ~BornServing(q) => q.id \in Ids(rPred)
  BY <1>1, <1>2 DEF IInv, Provenance, Ids
<1>8. Provenance'
  BY <1>1, <1>6, <1>7 DEF IInv, Provenance, BornServing, Ids
<1>9. CrossStoreIdentity'
  <2> SUFFICES ASSUME NEW p \in rPred, NEW q \in sPred', p.id = q.id
               PROVE  p.slot = q.slot /\ p.label = q.label
    BY <1>1 DEF CrossStoreIdentity
  <2>1. CASE q \in sPred
    BY <2>1 DEF IInv, CrossStoreIdentity
  <2>2. CASE q \in frame
    <3>1. PICK x \in rPred : x.id = q.id /\ SameKey(x, q)
      BY <1>2, <2>2
    <3>2. x = p
      BY <3>1 DEF IInv, ResearchKeys, UniqueIds
    <3> QED BY <3>1, <3>2 DEF SameKey
  <2> QED BY <1>1, <2>1, <2>2
<1> QED BY <1>5, <1>8, <1>9

-----------------------------------------------------------------------------
(* The invariant is inductive.                                             *)

\* The invariant holds of the empty stores.
LEMMA IInvInit == Init => IInv
<1> SUFFICES ASSUME Init PROVE IInv
  OBVIOUS
<1>1. TypeOK
  BY TypeInit
<1>2. ResearchKeys /\ ServingKeys /\ Provenance
  BY DEF Init, ResearchKeys, ServingKeys, Provenance, UniqueIds, UniqueLinks
<1>3. SnapshotIsPast /\ PullFrame /\ CopyFrame
  BY DEF Init, SnapshotIsPast, PullFrame, CopyFrame, EmptySnapshot
<1>4. CrossStoreIdentity /\ EvidenceLinksOwnSlot /\ OutcomesAreEvidence
  BY DEF Init, CrossStoreIdentity, EvidenceLinksOwnSlot, OutcomesAreEvidence
<1> QED BY <1>1, <1>2, <1>3, <1>4 DEF IInv

\* What a step leaves alone, for the parts of the invariant it cannot disturb.
LEMMA ResearchUntouched ==
  ASSUME IInv, UNCHANGED research
  PROVE  ResearchKeys' /\ EvidenceLinksOwnSlot' /\ OutcomesAreEvidence'
<1>1. UNCHANGED <<rEvents, closed, rPred, rOut, rEvSeq, rSeq>>
  BY DEF research
<1> QED BY <1>1, ResearchKeysStable, LinksStable, OutcomesStable DEF IInv

\* Some steps leave the serving store's predictions as they are.
LEMMA ServingUntouched ==
  ASSUME IInv, UNCHANGED <<sEvents, sPred, sEvSeq, sSeq>>
  PROVE  /\ ServingKeys'
         /\ UNCHANGED rPred => Provenance' /\ CrossStoreIdentity'
BY ServingKeysStable, ProvenanceStable, IdentityStable DEF IInv

\* Every step keeps the invariant.
LEMMA IInvStep == IInv /\ [Next]_vars => IInv'
<1> SUFFICES ASSUME IInv, [Next]_vars PROVE IInv'
  OBVIOUS
<1>t. TypeOK'
  BY TypeStep DEF IInv, ResearchKeys, ServingKeys
<1>i. /\ TypeOK /\ ResearchKeys /\ ServingKeys /\ Provenance
      /\ SnapshotIsPast /\ PullFrame /\ CopyFrame
      /\ CrossStoreIdentity /\ EvidenceLinksOwnSlot /\ OutcomesAreEvidence
  BY DEF IInv
<1>s. ASSUME UNCHANGED <<research, snap>>, pc' \in InSync => pc \in InSync
      PROVE  SnapshotIsPast'
  BY <1>i, <1>s, SnapshotStable DEF research
<1>1. ASSUME NEW s \in Slots, NEW l \in Labels, Fire(s, l) PROVE IInv'
  <2>1. UNCHANGED <<research, sPred, pc, frame, snap>>
    BY <1>1 DEF Fire, chain, transfer
  <2>2. ServingKeys'
    BY <1>1, FireInv
  <2>3. ResearchKeys' /\ EvidenceLinksOwnSlot' /\ OutcomesAreEvidence'
    BY <2>1, ResearchUntouched
  <2>4. Provenance' /\ CrossStoreIdentity'
    BY <1>i, <2>1, ProvenanceStable, IdentityStable DEF research
  <2>5. SnapshotIsPast'
    BY <1>s, <2>1
  <2>6. PullFrame' /\ CopyFrame'
    BY <1>i, <2>1, PullFrameStable, CopyFrameStable DEF research
  <2> QED BY <1>t, <2>2, <2>3, <2>4, <2>5, <2>6 DEF IInv
<1>2. CASE Score
  <2>1. UNCHANGED <<research, pc, frame, snap>>
    BY <1>2 DEF Score, chain, transfer
  <2>2. ServingKeys' /\ Provenance' /\ CrossStoreIdentity' /\ sPred \subseteq sPred'
    BY <1>2, ScoreInv
  <2>3. ResearchKeys' /\ EvidenceLinksOwnSlot' /\ OutcomesAreEvidence'
    BY <2>1, ResearchUntouched
  <2>4. SnapshotIsPast'
    BY <1>s, <2>1
  <2>5. PullFrame' /\ CopyFrame'
    BY <1>i, <2>1, <2>2, PullFrameStable, CopyFrameStable DEF research
  <2> QED BY <1>t, <2>2, <2>3, <2>4, <2>5 DEF IInv
<1>3. ASSUME UNCHANGED <<research, serving, snap>>,
             \/ UNCHANGED <<pc, frame>>
             \/ pc' \notin InSync /\ pc' # "pull_write"
      PROVE  IInv'
  <2>1. ResearchKeys' /\ EvidenceLinksOwnSlot' /\ OutcomesAreEvidence'
    BY <1>3, ResearchUntouched
  <2>2. ServingKeys' /\ Provenance' /\ CrossStoreIdentity'
    BY <1>3, ServingUntouched DEF research, serving
  <2>3. SnapshotIsPast'
    BY <1>3, <1>s
  <2>4. PullFrame' /\ CopyFrame'
    BY <1>3, <1>i, PullFrameStable, CopyFrameStable DEF research, serving, InSync
  <2> QED BY <1>t, <2>1, <2>2, <2>3, <2>4 DEF IInv
<1>4. CASE CloseSession \/ NextDay \/ Start \/ PullFail
  <2>1. UNCHANGED <<research, serving, snap>>
    BY <1>4 DEF CloseSession, NextDay, Start, PullFail, transfer
  <2>2. \/ UNCHANGED <<pc, frame>>
        \/ pc' \notin InSync /\ pc' # "pull_write"
    BY <1>4 DEF CloseSession, NextDay, Start, PullFail, transfer, chain, InSync
  <2> QED BY <1>3, <2>1, <2>2
<1>5. CASE SyncCopyRaises \/ SyncFail \/ Kill
  <2>1. UNCHANGED <<research, serving>> /\ snap' = EmptySnapshot /\ pc' = "idle"
    BY <1>5 DEF SyncCopyRaises, SyncFail, Kill
  <2>2. ResearchKeys' /\ EvidenceLinksOwnSlot' /\ OutcomesAreEvidence'
    BY <2>1, ResearchUntouched
  <2>3. ServingKeys' /\ Provenance' /\ CrossStoreIdentity'
    BY <2>1, ServingUntouched DEF research, serving
  <2>4. SnapshotIsPast' /\ PullFrame' /\ CopyFrame'
    BY <1>i, <2>1, SnapshotStable, PullFrameStable, CopyFrameStable DEF research, InSync
  <2> QED BY <1>t, <2>2, <2>3, <2>4 DEF IInv
<1>6. CASE RunEvents
  <2>1. /\ UNCHANGED <<closed, rPred, rOut, rSeq, sEvents, sPred, sEvSeq, sSeq, frame, snap>>
        /\ pc' = "labels"
    BY <1>6 DEF RunEvents, serving, transfer
  <2>2. ResearchKeys' /\ rEvents \subseteq rEvents'
    BY <1>6, RunEventsInv
  <2>3. ServingKeys' /\ Provenance' /\ CrossStoreIdentity'
    BY <2>1, ServingUntouched
  <2>4. EvidenceLinksOwnSlot' /\ OutcomesAreEvidence'
    BY <1>i, <2>1, <2>2, LinksStable, OutcomesStable
  <2>5. SnapshotIsPast' /\ PullFrame' /\ CopyFrame'
    BY <1>i, <2>1, <2>2, SnapshotStable, PullFrameStable, CopyFrameStable DEF InSync
  <2> QED BY <1>t, <2>2, <2>3, <2>4, <2>5 DEF IInv
<1>7. CASE PeakLabels
  <2>1. /\ UNCHANGED <<rEvents, rPred, rOut, rEvSeq, rSeq, sEvents, sPred, sEvSeq, sSeq, snap>>
        /\ pc' = "pull" /\ closed \subseteq closed'
    BY <1>7 DEF PeakLabels, serving, transfer
  <2>2. ResearchKeys' /\ EvidenceLinksOwnSlot' /\ OutcomesAreEvidence'
    BY <1>i, <2>1, ResearchKeysStable, LinksStable, OutcomesStable
  <2>3. ServingKeys' /\ Provenance' /\ CrossStoreIdentity'
    BY <2>1, ServingUntouched
  <2>4. SnapshotIsPast' /\ PullFrame' /\ CopyFrame'
    BY <1>i, <2>1, SnapshotStable, PullFrameStable, CopyFrameStable DEF InSync
  <2> QED BY <1>t, <2>2, <2>3, <2>4 DEF IInv
<1>8. CASE PullRead
  <2>1. UNCHANGED <<research, serving, snap>> /\ pc' = "pull_write"
    BY <1>8 DEF PullRead
  <2>2. PullFrame'
    BY <1>8, PullReadInv
  <2>3. ResearchKeys' /\ EvidenceLinksOwnSlot' /\ OutcomesAreEvidence'
    BY <2>1, ResearchUntouched
  <2>4. ServingKeys' /\ Provenance' /\ CrossStoreIdentity'
    BY <2>1, ServingUntouched DEF research, serving
  <2>5. SnapshotIsPast' /\ CopyFrame'
    BY <1>i, <1>s, <2>1, CopyFrameStable DEF InSync
  <2> QED BY <1>t, <2>2, <2>3, <2>4, <2>5 DEF IInv
<1>9. CASE PullWrite
  <2>1. /\ ResearchKeys' /\ Provenance' /\ CrossStoreIdentity' /\ EvidenceLinksOwnSlot'
        /\ rPred \subseteq rPred' /\ UNCHANGED <<rEvents, closed, rOut, snap>>
        /\ pc' = "predict"
    BY <1>9, PullWriteInv
  <2>2. ServingKeys'
    BY <1>9, ServingUntouched DEF PullWrite, serving
  <2>3. OutcomesAreEvidence'
    BY <1>i, <2>1, OutcomesStable
  <2>4. SnapshotIsPast' /\ PullFrame' /\ CopyFrame'
    BY <1>i, <2>1, SnapshotStable, PullFrameStable, CopyFrameStable DEF InSync
  <2> QED BY <1>t, <2>1, <2>2, <2>3, <2>4 DEF IInv
<1>10. ASSUME NEW es \in SUBSET Unscored(rEvents, rPred), WritePredictions(es),
              UNCHANGED <<rEvents, closed, rOut, rEvSeq, serving, snap>>,
              UNCHANGED <<pc, frame>> \/ pc' = "outcomes"
       PROVE  IInv'
  <2>1. /\ ResearchKeys' /\ Provenance' /\ CrossStoreIdentity' /\ EvidenceLinksOwnSlot'
        /\ rPred \subseteq rPred' /\ \A p \in rPred' \ rPred : ~BornServing(p)
    BY <1>10, WritePredictionsInv DEF serving
  <2>2. ServingKeys'
    BY <1>10, ServingUntouched DEF serving
  <2>3. OutcomesAreEvidence'
    BY <1>10, <1>i, <2>1, OutcomesStable
  <2>4. SnapshotIsPast'
    BY <1>10, <1>i, <2>1, SnapshotStable DEF InSync
  <2>5. PullFrame' /\ CopyFrame'
    BY <1>10, <1>i, <2>1, PullFrameStable, CopyFrameStable DEF serving
  <2> QED BY <1>t, <2>1, <2>2, <2>3, <2>4, <2>5 DEF IInv
<1>11. CASE Predict
  BY <1>10, <1>11 DEF Predict, transfer
<1>12. CASE WeeklyRefit
  BY <1>10, <1>12 DEF WeeklyRefit, chain, transfer
<1>13. CASE Outcomes
  <2>1. /\ UNCHANGED <<rEvents, closed, rPred, rEvSeq, rSeq, sEvents, sPred, sEvSeq, sSeq, snap>>
        /\ pc' = "sync"
    BY <1>13 DEF Outcomes, serving, transfer
  <2>2. OutcomesAreEvidence' /\ rOut \subseteq rOut'
    BY <1>13, OutcomesInv
  <2>3. ResearchKeys' /\ EvidenceLinksOwnSlot'
    BY <1>i, <2>1, ResearchKeysStable, LinksStable
  <2>4. ServingKeys' /\ Provenance' /\ CrossStoreIdentity'
    BY <2>1, ServingUntouched
  <2>5. SnapshotIsPast' /\ PullFrame' /\ CopyFrame'
    BY <1>i, <2>1, <2>2, SnapshotStable, PullFrameStable, CopyFrameStable DEF InSync
  <2> QED BY <1>t, <2>2, <2>3, <2>4, <2>5 DEF IInv
<1>14. CASE SyncBegin
  <2>1. /\ ServingReset /\ UNCHANGED <<research, sEvents, sPred>> /\ pc' = "sync_events"
        /\ snap' = [events |-> rEvents, preds |-> rPred, outs |-> rOut]
    BY <1>14 DEF SyncBegin
  <2>2. ServingKeys'
    BY <2>1, ServingResetInv
  <2>3. ResearchKeys' /\ EvidenceLinksOwnSlot' /\ OutcomesAreEvidence'
    BY <2>1, ResearchUntouched
  <2>4. Provenance' /\ CrossStoreIdentity'
    BY <1>i, <2>1, ProvenanceStable, IdentityStable DEF research
  <2>5. SnapshotIsPast'
    BY <2>1 DEF SnapshotIsPast, research
  <2>6. PullFrame' /\ CopyFrame'
    BY <1>i, <2>1, PullFrameStable, CopyFrameStable
  <2> QED BY <1>t, <2>2, <2>3, <2>4, <2>5, <2>6 DEF IInv
<1>15. CASE SyncEvents
  <2>1. UNCHANGED <<research, sPred, sSeq, snap>> /\ pc = "sync_events" /\ pc' = "sync_clear"
    BY <1>15 DEF SyncEvents, transfer
  <2>2. ServingKeys'
    BY <1>15, SyncEventsInv
  <2>3. ResearchKeys' /\ EvidenceLinksOwnSlot' /\ OutcomesAreEvidence'
    BY <2>1, ResearchUntouched
  <2>4. Provenance' /\ CrossStoreIdentity'
    BY <1>i, <2>1, ProvenanceStable, IdentityStable DEF research
  <2>5. SnapshotIsPast' /\ PullFrame' /\ CopyFrame'
    BY <1>i, <1>s, <2>1, PullFrameStable, CopyFrameStable DEF InSync
  <2> QED BY <1>t, <2>2, <2>3, <2>4, <2>5 DEF IInv
<1>16. CASE SyncClear
  <2>1. ServingKeys' /\ Provenance' /\ CrossStoreIdentity' /\ CopyFrame'
    BY <1>16, SyncClearInv
  <2>2. /\ UNCHANGED research /\ pc = "sync_clear"
        /\ \/ pc' = "idle" /\ snap' = EmptySnapshot
           \/ pc' = "sync_copy" /\ UNCHANGED snap
    BY <1>16 DEF SyncClear
  <2>3. ResearchKeys' /\ EvidenceLinksOwnSlot' /\ OutcomesAreEvidence'
    BY <2>2, ResearchUntouched
  <2>4. SnapshotIsPast' /\ PullFrame'
    BY <1>i, <2>2, SnapshotStable, PullFrameStable DEF InSync, research
  <2> QED BY <1>t, <2>1, <2>3, <2>4 DEF IInv
<1>17. CASE SyncCopy
  <2>1. ServingKeys' /\ Provenance' /\ CrossStoreIdentity'
    BY <1>17, SyncCopyInv
  <2>2. UNCHANGED <<research, snap>> /\ pc' = "sync_outcomes"
    BY <1>17 DEF SyncCopy
  <2>3. ResearchKeys' /\ EvidenceLinksOwnSlot' /\ OutcomesAreEvidence'
    BY <2>2, ResearchUntouched
  <2>4. SnapshotIsPast' /\ PullFrame' /\ CopyFrame'
    BY <1>i, <1>s, <2>2, PullFrameStable, CopyFrameStable DEF InSync
  <2> QED BY <1>t, <2>1, <2>3, <2>4 DEF IInv
<1>18. CASE SyncOutcomes
  <2>1. /\ ServingReset /\ UNCHANGED <<research, sEvents, sPred>> /\ pc' = "sweep"
        /\ snap' = EmptySnapshot
    BY <1>18 DEF SyncOutcomes
  <2>2. ServingKeys'
    BY <2>1, ServingResetInv
  <2>3. ResearchKeys' /\ EvidenceLinksOwnSlot' /\ OutcomesAreEvidence'
    BY <2>1, ResearchUntouched
  <2>4. Provenance' /\ CrossStoreIdentity'
    BY <1>i, <2>1, ProvenanceStable, IdentityStable DEF research
  <2>5. SnapshotIsPast' /\ PullFrame' /\ CopyFrame'
    BY <1>i, <2>1, SnapshotStable, PullFrameStable, CopyFrameStable DEF InSync, research
  <2> QED BY <1>t, <2>2, <2>3, <2>4, <2>5 DEF IInv
<1>19. CASE Sweep
  <2>1. /\ UNCHANGED <<research, sPred, sSeq, sEvSeq, snap>> /\ pc' = "idle"
        /\ sEvents' \subseteq sEvents
    BY <1>19 DEF Sweep, transfer
  <2>2. ServingKeys'
    BY <1>i, <2>1 DEF ServingKeys, UniqueIds, BornServing
  <2>3. ResearchKeys' /\ EvidenceLinksOwnSlot' /\ OutcomesAreEvidence'
    BY <2>1, ResearchUntouched
  <2>4. Provenance' /\ CrossStoreIdentity'
    BY <1>i, <2>1, ProvenanceStable, IdentityStable DEF research
  <2>5. SnapshotIsPast' /\ PullFrame' /\ CopyFrame'
    BY <1>i, <1>s, <2>1, PullFrameStable, CopyFrameStable DEF InSync
  <2> QED BY <1>t, <2>2, <2>3, <2>4, <2>5 DEF IInv
<1>20. CASE UNCHANGED vars
  <2>1. UNCHANGED <<research, serving, snap, pc, frame>>
    BY <1>20 DEF vars, chain, transfer
  <2> QED BY <1>3, <2>1
<1> QED
  BY <1>1, <1>2, <1>4, <1>5, <1>6, <1>7, <1>8, <1>9, <1>11, <1>12, <1>13, <1>14, <1>15,
     <1>16, <1>17, <1>18, <1>19, <1>20
  DEF Next, Pi, Clock, Nightly

\* The inductive invariant holds in every reachable state, for any set of slots and
\* labels and any bounds: the interleavings of the chain, the refit and the poller.
THEOREM InvariantHolds == Spec => []IInv
<1>1. Init => IInv
  BY IInvInit
<1>2. IInv /\ [Next]_vars => IInv'
  BY IInvStep
<1> QED BY <1>1, <1>2, PTL DEF Spec

-----------------------------------------------------------------------------
(* What follows from it.                                                   *)

\* Every variable keeps its type: ids stay in their store's range.
THEOREM TypeCorrect == Spec => []TypeOK
<1>1. IInv => TypeOK
  BY DEF IInv
<1> QED BY <1>1, InvariantHolds, PTL

\* One prediction id is one prediction on both stores.
THEOREM IdentityHolds == Spec => []CrossStoreIdentity
<1>1. IInv => CrossStoreIdentity
  BY DEF IInv
<1> QED BY <1>1, InvariantHolds, PTL

\* The resets of run_sync and of the pull leave either sequence where its next
\* id is taken on neither store.
THEOREM NextIdsFree == Spec => []NextIdsAreFree
<1>1. IInv => NextIdsAreFree
  <2> SUFFICES ASSUME IInv PROVE NextIdsAreFree
    OBVIOUS
  <2>1. rSeq \in Nat /\ rSeq <= MaxResearchId /\ sSeq \in Nat /\ Floor <= sSeq
    BY DEF IInv, TypeOK
  <2>2. \A p \in rPred \cup sPred : p.id \in Nat /\ p.id # Floor
    BY DEF IInv, TypeOK, Pred, PredIds, ResearchIds, ServingIds
  <2>3. \A p \in rPred : BornServing(p) => \E q \in sPred : q.id = p.id /\ BornServing(q)
    BY DEF IInv, Provenance, Ids, BornServing
  <2>4. \A q \in sPred : ~BornServing(q) => \E p \in rPred : q.id = p.id /\ ~BornServing(p)
    BY DEF IInv, Provenance, Ids, BornServing
  <2>5. \A p \in rPred : ~BornServing(p) => p.id <= rSeq
    BY DEF IInv, ResearchKeys
  <2>6. \A q \in sPred : BornServing(q) => q.id <= sSeq
    BY DEF IInv, ServingKeys
  <2>7. \A p \in rPred \cup sPred : p.id <= rSeq \/ (Floor < p.id /\ p.id <= sSeq)
    BY <2>1, <2>2, <2>3, <2>4, <2>5, <2>6 DEF BornServing
  <2>8. \A p \in rPred \cup sPred : p.id # rSeq + 1 /\ p.id # sSeq + 1
    BY <2>1, <2>2, <2>7
  <2> QED BY <2>8 DEF NextIdsAreFree, Ids
<1> QED BY <1>1, InvariantHolds, PTL

\* No prediction on research is linked to another slot's event, whichever store
\* its id came from.
THEOREM LinksOwnSlot == Spec => []EvidenceLinksOwnSlot
<1>1. IInv => EvidenceLinksOwnSlot
  BY DEF IInv
<1> QED BY <1>1, InvariantHolds, PTL

\* Every outcome resolves one prediction on record, on its own slot.
THEOREM OutcomesHold == Spec => []OutcomesAreEvidence
<1>1. IInv => OutcomesAreEvidence
  BY DEF IInv
<1> QED BY <1>1, InvariantHolds, PTL

-----------------------------------------------------------------------------
(* Research implements the abstract log.                                   *)

\* A write that only adds well-linked predictions is a Record step.
LEMMA RecordStep ==
  ASSUME ResearchKeys', EvidenceLinksOwnSlot', rPred \subseteq rPred',
         UNCHANGED <<rEvents, rOut>>
  PROVE  Evidence!Record
<1>1. \A p \in rPred' \ rPred : Evidence!AboutItsSlot(p, rEvents)
  BY DEF EvidenceLinksOwnSlot, Evidence!AboutItsSlot
<1>2. Evidence!OneEntryEach(rPred')
  BY DEF ResearchKeys, UniqueIds, UniqueLinks, Evidence!OneEntryEach
<1> QED BY <1>1, <1>2 DEF Evidence!Record

\* run_outcomes resolves open predictions, each once.
LEMMA ResolveStep == IInv /\ IInv' /\ Outcomes => Evidence!Resolve
<1> SUFFICES ASSUME IInv, IInv', Outcomes PROVE Evidence!Resolve
  OBVIOUS
<1>1. /\ rOut' = rOut \cup {o \in Resolvable : \A x \in rOut : x.pred # o.pred}
      /\ UNCHANGED <<rEvents, rPred, closed>>
  BY DEF Outcomes
<1>2. \A o \in rOut' \ rOut : \A x \in rOut : x.pred # o.pred
  BY <1>1
<1>3. \A o \in rOut' \ rOut : \E p \in rPred, e \in rEvents :
        o.pred = p.id /\ o.slot = e.slot /\ p.ev = e.id
  BY <1>1 DEF Resolvable
<1>4. ASSUME NEW o \in rOut' \ rOut
      PROVE  \E p \in rPred : p.id = o.pred /\ p.slot = o.slot /\ p.ev # NoEvent
  <2>1. PICK p \in rPred, e \in rEvents : o.pred = p.id /\ o.slot = e.slot /\ p.ev = e.id
    BY <1>3
  <2>2. p.ev # NoEvent
    BY <2>1 DEF IInv, TypeOK, Event, EventIds, NoEvent
  <2>3. PICK x \in rEvents : x.id = p.ev /\ x.slot = p.slot
    BY <2>2 DEF IInv, EvidenceLinksOwnSlot
  <2>4. x = e
    BY <2>1, <2>3 DEF IInv, ResearchKeys, UniqueIds
  <2> QED BY <2>1, <2>2, <2>3, <2>4
<1> QED BY <1>1, <1>2, <1>4 DEF Evidence!Resolve

\* Every step of the two stores is, on research, a step of the append-only log.
LEMMA EvidenceStep == IInv /\ IInv' /\ [Next]_vars => [Evidence!Next]_<<rEvents, rPred, rOut>>
<1> SUFFICES ASSUME IInv, IInv', [Next]_vars
             PROVE  Evidence!Next \/ UNCHANGED <<rEvents, rPred, rOut>>
  OBVIOUS
<1>i. ResearchKeys' /\ EvidenceLinksOwnSlot'
  BY DEF IInv
<1>1. CASE RunEvents
  <2>1. rEvents \subseteq rEvents' /\ UNCHANGED <<rPred, rOut>>
    BY <1>1, RunEventsInv DEF RunEvents
  <2> QED BY <2>1 DEF Evidence!Observe, Evidence!Next
<1>2. CASE PullWrite \/ Predict \/ WeeklyRefit
  <2>1. rPred \subseteq rPred' /\ UNCHANGED <<rEvents, rOut>>
    BY <1>2 DEF PullWrite, Predict, WeeklyRefit, WritePredictions
  <2> QED BY <1>i, <2>1, RecordStep DEF Evidence!Next
<1>3. CASE Outcomes
  BY <1>3, ResolveStep DEF Evidence!Next
<1>4. CASE Pi \/ Clock
  BY <1>4 DEF Pi, Fire, Score, Clock, CloseSession, NextDay, research
<1>5. CASE Start \/ PeakLabels \/ PullRead \/ PullFail
  BY <1>5 DEF Start, PeakLabels, PullRead, PullFail, research
<1>6. CASE SyncBegin \/ SyncEvents \/ SyncClear \/ SyncCopy \/ SyncCopyRaises
           \/ SyncOutcomes \/ SyncFail \/ Sweep \/ Kill
  BY <1>6 DEF SyncBegin, SyncEvents, SyncClear, SyncCopy, SyncCopyRaises, SyncOutcomes,
     SyncFail, Sweep, Kill, research
<1>7. CASE UNCHANGED vars
  BY <1>7 DEF vars, research
<1> QED BY <1>1, <1>2, <1>3, <1>4, <1>5, <1>6, <1>7 DEF Next, Nightly

\* Research is append-only evidence: whatever the poller, the refit, the failures
\* and the retries do, it implements EvidenceLog.
THEOREM ResearchIsEvidence == Spec => EvidenceSpec
<1>1. Init => Evidence!Init
  BY DEF Init, Evidence!Init
<1>2. IInv /\ IInv' /\ [Next]_vars => [Evidence!Next]_Evidence!vars
  BY EvidenceStep DEF Evidence!vars
<1> QED BY <1>1, <1>2, InvariantHolds, PTL DEF Spec, EvidenceSpec, Evidence!Spec

-----------------------------------------------------------------------------
(* The transfers between the stores.                                       *)

\* The rows a scoring pass adds are the Pi's own, of today, in a session.
LEMMA ScoreRows ==
  ASSUME IInv, Score
  PROVE  /\ phase = "session" /\ sPred \subseteq sPred'
         /\ \A q \in sPred' \ sPred : BornServing(q) /\ SlotDay[q.slot] = day
         /\ UNCHANGED <<research, sEvents, calendar, chain, transfer, mishaps>>
<1>1. PICK es \in SUBSET {e \in Unscored(sEvents, sPred) : SlotDay[e.slot] = day} :
        \E n \in sSeq..MaxServingId : \E f \in Mints(sSeq, Ids(es), n) :
          sPred' = sPred \cup Predicted(es, f) /\ sSeq' = n
  BY DEF Score
<1>2. PICK n \in sSeq..MaxServingId : \E f \in Mints(sSeq, Ids(es), n) :
        sPred' = sPred \cup Predicted(es, f) /\ sSeq' = n
  BY <1>1
<1>3. PICK f \in Mints(sSeq, Ids(es), n) :
        sPred' = sPred \cup Predicted(es, f) /\ sSeq' = n
  BY <1>2
<1>4. /\ \A e \in es : e.id \in EventIds /\ e.slot \in Slots /\ e.label \in Labels
      /\ UniqueIds(es)
  BY DEF Unscored, IInv, TypeOK, SEvent, ServingKeys, UniqueIds
<1>5. /\ sSeq \in Nat /\ n \in Nat /\ sSeq <= n /\ Floor <= sSeq
      /\ (sSeq + 1)..n \subseteq PredIds
  BY <1>2 DEF IInv, TypeOK, PredIds, ServingIds
<1>6. \A p \in Predicted(es, f) :
        p.id \in (sSeq + 1)..n /\ \E e \in es : e.slot = p.slot
  BY <1>4, <1>5, PredictedFacts
<1>7. \A p \in Predicted(es, f) : BornServing(p) /\ SlotDay[p.slot] = day
  BY <1>5, <1>6 DEF BornServing
<1> QED BY <1>3, <1>7 DEF Score

\* What the pull carries is every live prediction that research lacks, by its id.
LEMMA PullReadIds ==
  ASSUME IInv, PullRead
  PROVE  \A q \in sPred : BornServing(q) => q.id \in Ids(rPred) \cup Ids(frame')
<1>1. \A p \in Incoming : [p EXCEPT !.ev = OwnLink(p)].id = p.id
  BY DEF Incoming, IInv, TypeOK, Pred
<1>2. \A p \in Incoming : p.id \in Ids(frame')
  BY <1>1 DEF PullRead, Ids
<1> QED BY <1>2 DEF Incoming

\* A chain never runs ahead of the calendar, and not with it during a session.
LEMMA ChainIsBehindStep == TypeOK /\ ChainIsBehind /\ [Next]_vars => ChainIsBehind'
<1> SUFFICES ASSUME TypeOK, ChainIsBehind, [Next]_vars PROVE ChainIsBehind'
  OBVIOUS
<1>0. day \in Nat /\ end \in Nat
  BY DEF TypeOK
<1>1. CASE CloseSession
  BY <1>0, <1>1 DEF CloseSession, chain, ChainIsBehind
<1>2. CASE NextDay
  BY <1>0, <1>2 DEF NextDay, chain, ChainIsBehind
<1>3. CASE Start
  BY <1>0, <1>3 DEF Start, NightlyEnd, calendar, ChainIsBehind, TypeOK
<1>4. ASSUME UNCHANGED <<calendar, end>>, pc' = "idle" \/ pc # "idle" PROVE ChainIsBehind'
  BY <1>4 DEF ChainIsBehind, calendar
<1>5. ASSUME UNCHANGED <<calendar, chain>> PROVE ChainIsBehind'
  BY <1>5 DEF ChainIsBehind, calendar, chain
<1>6. CASE Pi \/ WeeklyRefit \/ UNCHANGED vars
  BY <1>5, <1>6 DEF Pi, Fire, Score, WeeklyRefit, vars
<1>7. CASE RunEvents \/ PeakLabels \/ PullRead \/ PullWrite \/ PullFail \/ Predict \/ Outcomes
  BY <1>4, <1>7 DEF RunEvents, PeakLabels, PullRead, PullWrite, PullFail, Predict, Outcomes
<1>8. CASE SyncBegin \/ SyncEvents \/ SyncClear \/ SyncCopy \/ SyncCopyRaises
           \/ SyncOutcomes \/ SyncFail \/ Sweep \/ Kill
  BY <1>4, <1>8 DEF SyncBegin, SyncEvents, SyncClear, SyncCopy, SyncCopyRaises,
     SyncOutcomes, SyncFail, Sweep, Kill
<1> QED BY <1>1, <1>2, <1>3, <1>6, <1>7, <1>8 DEF Next, Clock, Nightly

\* A pull that succeeds leaves no prediction of the chain's days behind, and the
\* session's later ones are of a later day.
LEMMA PullIsCompleteStep ==
  IInv /\ IInv' /\ ChainIsBehind /\ PullIsComplete /\ [Next]_vars => PullIsComplete'
<1> SUFFICES ASSUME IInv, IInv', ChainIsBehind, PullIsComplete, [Next]_vars
             PROVE  PullIsComplete'
  OBVIOUS
<1> DEFINE Late == {"predict", "outcomes", "sync", "sync_events", "sync_clear", "sync_copy"}
<1>0. day \in Nat /\ end \in Nat
  BY DEF IInv, TypeOK
<1>1. ASSUME UNCHANGED <<sPred, pc, end, pulled, frame>>, rPred \subseteq rPred'
      PROVE  PullIsComplete'
  BY <1>1 DEF PullIsComplete, Ids, BornServing
<1>2. CASE \E s \in Slots, l \in Labels : Fire(s, l)
  BY <1>1, <1>2 DEF Fire, research, chain, transfer
<1>3. CASE Score
  <2>1. /\ UNCHANGED <<rPred, pc, end, pulled, frame>>
        /\ phase = "session" /\ sPred \subseteq sPred'
        /\ \A q \in sPred' \ sPred : SlotDay[q.slot] = day
    BY <1>3, ScoreRows DEF research, chain, transfer
  <2>2. pc # "idle" => end < day
    BY <2>1 DEF ChainIsBehind
  <2>3. pc # "idle" => \A q \in sPred' : SlotDay[q.slot] <= end => q \in sPred
    BY <1>0, <2>1, <2>2
  <2> QED BY <2>1, <2>3 DEF PullIsComplete, BornServing
<1>4. CASE CloseSession \/ NextDay \/ UNCHANGED vars
  <2>1. UNCHANGED <<rPred, sPred, pc, end, pulled, frame>>
    BY <1>4 DEF CloseSession, NextDay, vars, research, serving, chain, transfer
  <2> QED BY <1>1, <2>1
<1>5. CASE WeeklyRefit
  <2>1. UNCHANGED <<sPred, pc, end, pulled, frame>> /\ rPred \subseteq rPred'
    BY <1>5 DEF WeeklyRefit, WritePredictions, serving, chain, transfer
  <2> QED BY <1>1, <2>1
<1>6. ASSUME ~pulled', pc' # "pull_write" PROVE PullIsComplete'
  BY <1>6 DEF PullIsComplete
<1>7. CASE Start \/ RunEvents \/ PeakLabels \/ PullFail
  BY <1>6, <1>7 DEF Start, RunEvents, PeakLabels, PullFail, PullIsComplete
<1>8. CASE PullRead
  <2>1. UNCHANGED <<rPred, sPred, end, pulled>> /\ pc = "pull" /\ pc' = "pull_write"
    BY <1>8 DEF PullRead, research, serving
  <2>2. \A q \in sPred : BornServing(q) => q.id \in Ids(rPred) \cup Ids(frame')
    BY <1>8, PullReadIds
  <2> QED BY <2>1, <2>2 DEF PullIsComplete, BornServing
<1>9. CASE PullWrite
  <2>1. /\ pc = "pull_write" /\ pc' = "predict" /\ UNCHANGED <<sPred, end>>
        /\ pulled' => Ids(frame) \subseteq Ids(rPred') /\ Ids(rPred) \subseteq Ids(rPred')
    BY <1>9 DEF PullWrite, serving, Ids
  <2>2. \A q \in sPred : ~BornServing(q) => q.id \in Ids(rPred')
    BY <2>1 DEF IInv, Provenance, BornServing
  <2>3. \A q \in sPred : BornServing(q) /\ SlotDay[q.slot] <= end =>
          q.id \in Ids(rPred) \cup Ids(frame)
    BY <2>1 DEF PullIsComplete
  <2> QED BY <2>1, <2>2, <2>3 DEF PullIsComplete
<1>10. ASSUME pc \in Late, pc' \in Late, sPred' \subseteq sPred, rPred \subseteq rPred',
              UNCHANGED <<end, pulled>>
       PROVE  PullIsComplete'
  BY <1>10 DEF PullIsComplete, Ids
<1>11. ASSUME pc' \in {"idle", "sync_outcomes", "sweep"} PROVE PullIsComplete'
  BY <1>11 DEF PullIsComplete
<1>12. CASE Predict \/ Outcomes
  <2>1. rPred \subseteq rPred'
    BY <1>12 DEF Predict, Outcomes, WritePredictions
  <2> QED BY <1>10, <1>12, <2>1 DEF Predict, Outcomes, serving
<1>13. CASE SyncBegin \/ SyncEvents \/ SyncClear
  <2>1. rPred' = rPred /\ sPred' \subseteq sPred
    BY <1>13 DEF SyncBegin, SyncEvents, SyncClear, research
  <2> QED BY <1>10, <1>11, <1>13, <2>1 DEF SyncBegin, SyncEvents, SyncClear
<1>14. CASE SyncCopy \/ SyncCopyRaises \/ SyncOutcomes \/ SyncFail \/ Sweep \/ Kill
  BY <1>11, <1>14 DEF SyncCopy, SyncCopyRaises, SyncOutcomes, SyncFail, Sweep, Kill
<1> QED
  BY <1>2, <1>3, <1>4, <1>5, <1>7, <1>8, <1>9, <1>12, <1>13, <1>14
  DEF Next, Pi, Clock, Nightly

\* The snapshot is of one moment, and deletions aside serving's rows from research
\* stay the snapshot's until the copy.
LEMMA SnapshotIsWholeStep == IInv /\ SnapshotIsWhole /\ [Next]_vars => SnapshotIsWhole'
<1> SUFFICES ASSUME IInv, SnapshotIsWhole, [Next]_vars PROVE SnapshotIsWhole'
  OBVIOUS
<1>1. ASSUME UNCHANGED snap, pc' \in InSync => pc \in InSync /\ sPred' \subseteq sPred
      PROVE  SnapshotIsWhole'
  BY <1>1 DEF SnapshotIsWhole, InSync, BornServing
<1>2. ASSUME snap' = EmptySnapshot, pc' \notin InSync PROVE SnapshotIsWhole'
  BY <1>2 DEF SnapshotIsWhole, InSync, EmptySnapshot
<1>3. CASE \/ \E s \in Slots, l \in Labels : Fire(s, l)
           \/ CloseSession \/ NextDay \/ WeeklyRefit \/ UNCHANGED vars
  <2>1. UNCHANGED <<snap, pc, sPred>>
    BY <1>3 DEF Fire, CloseSession, NextDay, WeeklyRefit, vars, serving, chain, transfer
  <2> QED BY <1>1, <2>1
<1>4. CASE Score
  <2>1. UNCHANGED <<snap, pc>> /\ \A q \in sPred' \ sPred : BornServing(q)
    BY <1>4, ScoreRows DEF chain, transfer
  <2> QED BY <2>1 DEF SnapshotIsWhole, BornServing
<1>5. CASE Start \/ RunEvents \/ PeakLabels \/ PullRead \/ PullWrite \/ PullFail
           \/ Predict \/ Outcomes
  BY <1>1, <1>5 DEF Start, RunEvents, PeakLabels, PullRead, PullWrite, PullFail, Predict,
     Outcomes, InSync, transfer
<1>6. CASE SyncBegin
  <2>1. /\ snap' = [events |-> rEvents, preds |-> rPred, outs |-> rOut]
        /\ UNCHANGED sPred
    BY <1>6 DEF SyncBegin
  <2>2. \A q \in sPred : ~BornServing(q) => q.id \in Ids(rPred)
    BY DEF IInv, Provenance
  <2>3. \A p \in rPred : p.ev # NoEvent => \E e \in rEvents : e.id = p.ev /\ e.slot = p.slot
    BY DEF IInv, EvidenceLinksOwnSlot
  <2> QED BY <2>1, <2>2, <2>3 DEF SnapshotIsWhole, BornServing
<1>7. CASE SyncEvents
  BY <1>1, <1>7 DEF SyncEvents, InSync, transfer
<1>8. CASE SyncClear
  <2>1. sPred' \subseteq sPred /\ pc \in InSync
    BY <1>8 DEF SyncClear, InSync
  <2>2. \/ UNCHANGED snap
        \/ snap' = EmptySnapshot /\ pc' \notin InSync
    BY <1>8 DEF SyncClear, InSync
  <2> QED BY <1>1, <1>2, <2>1, <2>2
<1>9. CASE SyncCopy \/ Sweep
  BY <1>1, <1>9 DEF SyncCopy, Sweep, InSync, transfer
<1>10. CASE SyncCopyRaises \/ SyncOutcomes \/ SyncFail \/ Kill
  BY <1>2, <1>10 DEF SyncCopyRaises, SyncOutcomes, SyncFail, Kill, InSync
<1> QED
  BY <1>3, <1>4, <1>5, <1>6, <1>7, <1>8, <1>9, <1>10 DEF Next, Pi, Clock, Nightly

\* The upsert of the events leaves each of the snapshot's keys on serving, and none
\* of them provisional.
LEMMA SyncEventsCopies ==
  ASSUME IInv, SyncEvents
  PROVE  /\ \A e \in snap.events : \E x \in sEvents' : SameKey(x, e)
         /\ \A e \in snap.events, x \in sEvents' : SameKey(x, e) => ~x.prov
<1> DEFINE new == {e \in snap.events : ~ \E x \in sEvents : SameKey(x, e)}
           kept(x) == [x EXCEPT !.prov = x.prov /\ ~ \E e \in snap.events : SameKey(x, e)]
<1>1. PICK n \in sEvSeq..MaxEventId : \E f \in Mints(sEvSeq, Ids(new), n) :
        sEvents' = {kept(x) : x \in sEvents} \cup
          {[id |-> f[e.id], slot |-> e.slot, label |-> e.label, prov |-> FALSE] : e \in new}
  BY DEF SyncEvents
<1>2. PICK f \in Mints(sEvSeq, Ids(new), n) :
        sEvents' = {kept(x) : x \in sEvents} \cup
          {[id |-> f[e.id], slot |-> e.slot, label |-> e.label, prov |-> FALSE] : e \in new}
  BY <1>1
<1> DEFINE row(e) == [id |-> f[e.id], slot |-> e.slot, label |-> e.label, prov |-> FALSE]
<1>3. \A x \in sEvents :
        /\ SameKey(kept(x), x)
        /\ kept(x).prov => ~ \E e \in snap.events : SameKey(x, e)
  BY DEF IInv, TypeOK, SEvent, SameKey
<1>4. \A e \in new : SameKey(row(e), e) /\ ~row(e).prov
  BY DEF SameKey
<1>5. \A e \in snap.events : e \in new \/ \E x \in sEvents : SameKey(x, e)
  OBVIOUS
<1>6. sEvents' = {kept(x) : x \in sEvents} \cup {row(e) : e \in new}
  BY <1>2
<1> HIDE DEF new, kept, row
<1>7. \A e \in snap.events : \E x \in sEvents' : SameKey(x, e)
  BY <1>3, <1>4, <1>5, <1>6 DEF SameKey
<1>8. \A e \in snap.events, x \in sEvents' : SameKey(x, e) => ~x.prov
  BY <1>3, <1>4, <1>6 DEF SameKey
<1> QED BY <1>7, <1>8

\* Once copied, the snapshot's events stay on serving and stay settled: the poller
\* opens no second row of a key, and the sweep waits for the end of the sync.
LEMMA EventsAreCopiedStep == IInv /\ EventsAreCopied /\ [Next]_vars => EventsAreCopied'
<1> SUFFICES ASSUME IInv, EventsAreCopied, [Next]_vars PROVE EventsAreCopied'
  OBVIOUS
<1> DEFINE Copied == {"sync_clear", "sync_copy", "sync_outcomes"}
<1>1. ASSUME pc' \in Copied => pc \in Copied /\ UNCHANGED <<snap, sEvents>>
      PROVE  EventsAreCopied'
  BY <1>1 DEF EventsAreCopied
<1>2. CASE CloseSession \/ NextDay \/ WeeklyRefit \/ UNCHANGED vars
  <2>1. UNCHANGED <<snap, pc, sEvents>>
    BY <1>2 DEF CloseSession, NextDay, WeeklyRefit, vars, serving, chain, transfer
  <2> QED BY <1>1, <2>1
<1>3. CASE Score
  <2>1. UNCHANGED <<snap, pc, sEvents>>
    BY <1>3, ScoreRows DEF chain, transfer
  <2> QED BY <1>1, <2>1
<1>4. ASSUME NEW s \in Slots, NEW l \in Labels, Fire(s, l) PROVE EventsAreCopied'
  <2> DEFINE row == [id |-> sEvSeq + 1, slot |-> s, label |-> l, prov |-> TRUE]
  <2>1. /\ UNCHANGED <<snap, pc>> /\ sEvents' = sEvents \cup {row}
        /\ \A x \in sEvents : ~SameKey(x, row)
    BY <1>4 DEF Fire, chain, transfer, SameKey
  <2>2. SameKey(row, row)
    BY DEF SameKey
  <2> HIDE DEF row
  <2>3. ASSUME pc \in Copied, NEW e \in snap.events PROVE ~SameKey(row, e)
    <3>1. PICK x \in sEvents : SameKey(x, e)
      BY <2>3 DEF EventsAreCopied
    <3> QED BY <2>1, <3>1 DEF SameKey
  <2> QED BY <2>1, <2>3 DEF EventsAreCopied
<1>5. CASE Start \/ RunEvents \/ PeakLabels \/ PullRead \/ PullWrite \/ PullFail
           \/ Predict \/ Outcomes \/ SyncBegin
  BY <1>1, <1>5 DEF Start, RunEvents, PeakLabels, PullRead, PullWrite, PullFail, Predict,
     Outcomes, SyncBegin
<1>6. CASE SyncEvents
  BY <1>6, SyncEventsCopies DEF SyncEvents, EventsAreCopied, transfer
<1>7. CASE SyncClear
  BY <1>1, <1>7 DEF SyncClear
<1>8. CASE SyncCopy \/ SyncCopyRaises \/ SyncOutcomes \/ SyncFail \/ Sweep \/ Kill
  BY <1>1, <1>8 DEF SyncCopy, SyncCopyRaises, SyncOutcomes, SyncFail, Sweep, Kill
<1> QED
  BY <1>2, <1>3, <1>4, <1>5, <1>6, <1>7, <1>8 DEF Next, Pi, Clock, Nightly

\* The outbound remap takes a prediction of the snapshot to its own event.
LEMMA OutboundIsSame ==
  ASSUME IInv, SnapshotIsWhole, EventsAreCopied, pc = "sync_clear",
         NEW p \in snap.preds, NEW q, q.ev = Outbound(p)
  PROVE  SameEvent(p, q)
<1> DEFINE hits == Ids({x \in sEvents : \E e \in snap.events : e.id = p.ev /\ SameKey(x, e)})
<1>1. Outbound(p) = IF hits = {} THEN NoEvent ELSE CHOOSE i \in hits : TRUE
  BY DEF Outbound
<1>2. \A i \in hits : \E x \in sEvents, e \in snap.events :
        x.id = i /\ e.id = p.ev /\ SameKey(x, e) /\ ~x.prov
  BY DEF Ids, EventsAreCopied
<1>3. CASE p.ev = NoEvent
  <2>1. \A e \in snap.events : e.id # NoEvent
    BY DEF IInv, TypeOK, Snapshot, Event, EventIds, NoEvent
  <2>2. hits = {}
    BY <1>2, <1>3, <2>1
  <2> QED BY <1>1, <1>3, <2>2 DEF SameEvent
<1>4. CASE p.ev # NoEvent
  <2>1. PICK e \in snap.events : e.id = p.ev
    BY <1>4 DEF SnapshotIsWhole
  <2>2. PICK x \in sEvents : SameKey(x, e)
    BY DEF EventsAreCopied
  <2>3. x.id \in hits
    BY <2>1, <2>2 DEF Ids
  <2> HIDE DEF hits
  <2>4. Outbound(p) \in hits
    BY <1>1, <2>3
  <2> QED BY <1>2, <1>4, <2>4 DEF SameEvent
<1> QED BY <1>3, <1>4

\* The frame that SyncClear leaves for the copy.
LEMMA SyncClearTranslates ==
  ASSUME IInv, SnapshotIsWhole, EventsAreCopied, SyncClear
  PROVE  FrameIsTranslated'
<1> SUFFICES ASSUME pc' = "sync_copy" PROVE FrameIsTranslated'
  BY DEF FrameIsTranslated
<1>1. /\ pc = "sync_clear" /\ frame' = OutFrame
      /\ UNCHANGED <<snap, sEvents>>
  BY DEF SyncClear
<1> DEFINE out(p) == [p EXCEPT !.ev = Outbound(p)]
<1>2. \A p \in snap.preds :
        out(p).id = p.id /\ out(p).slot = p.slot /\ out(p).ev = Outbound(p)
  BY DEF IInv, TypeOK, Snapshot, Pred
<1>3. frame' = {out(p) : p \in snap.preds}
  BY <1>1 DEF OutFrame
<1> HIDE DEF out
<1>4. \A p \in snap.preds : SameEvent(p, out(p))
  BY <1>1, <1>2, OutboundIsSame
<1>5. \A p, f : SameEvent(p, f) => SameEvent(p, f)'
  BY <1>1 DEF SameEvent
<1> QED BY <1>1, <1>2, <1>3, <1>4 DEF FrameIsTranslated, SameEvent


\* An event named stays named while serving's events only grow.
LEMMA SameEventStable ==
  ASSUME UNCHANGED snap, sEvents \subseteq sEvents', NEW p, NEW q, SameEvent(p, q)
  PROVE  SameEvent(p, q)'
BY DEF SameEvent

\* The frame stays translated until it is written.
LEMMA FrameIsTranslatedStep ==
  ASSUME IInv, SnapshotIsWhole, EventsAreCopied, FrameIsTranslated, [Next]_vars
  PROVE  FrameIsTranslated'
<1>1. ASSUME pc = "sync_copy", UNCHANGED <<snap, frame>>, sEvents \subseteq sEvents'
      PROVE  FrameIsTranslated'
  BY <1>1, SameEventStable DEF FrameIsTranslated, SameEvent
<1>2. ASSUME pc' # "sync_copy" PROVE FrameIsTranslated'
  BY <1>2 DEF FrameIsTranslated
<1>3. CASE \/ \E s \in Slots, l \in Labels : Fire(s, l)
           \/ CloseSession \/ NextDay \/ WeeklyRefit \/ UNCHANGED vars
  <2>1. UNCHANGED <<snap, frame, pc>> /\ sEvents \subseteq sEvents'
    BY <1>3 DEF Fire, CloseSession, NextDay, WeeklyRefit, vars, serving, chain, transfer
  <2> QED BY <1>1, <1>2, <2>1
<1>4. CASE Score
  <2>1. UNCHANGED <<snap, frame, pc, sEvents>>
    BY <1>4, ScoreRows DEF chain, transfer
  <2> QED BY <1>1, <1>2, <2>1
<1>5. CASE SyncClear
  BY <1>5, SyncClearTranslates
<1>6. CASE Start \/ RunEvents \/ PeakLabels \/ PullRead \/ PullWrite \/ PullFail
           \/ Predict \/ Outcomes
  BY <1>2, <1>6 DEF Start, RunEvents, PeakLabels, PullRead, PullWrite, PullFail, Predict,
     Outcomes
<1>7. CASE SyncBegin \/ SyncEvents \/ SyncCopy \/ SyncCopyRaises \/ SyncOutcomes
           \/ SyncFail \/ Sweep \/ Kill
  BY <1>2, <1>7 DEF SyncBegin, SyncEvents, SyncCopy, SyncCopyRaises, SyncOutcomes, SyncFail,
     Sweep, Kill
<1> QED BY <1>3, <1>4, <1>5, <1>6, <1>7 DEF Next, Pi, Clock, Nightly

\* A copy that lands leaves the snapshot's links agreeing on both stores, and they
\* stay so while the Pi goes on.
LEMMA SyncedLinksStep ==
  ASSUME IInv, FrameIsTranslated, SyncedLinksAgree, [Next]_vars
  PROVE  SyncedLinksAgree'
<1> SUFFICES ASSUME pc' = "sync_outcomes"
             PROVE  \A p \in snap'.preds : \E q \in sPred' : q.id = p.id /\ SameEvent(p, q)'
  BY DEF SyncedLinksAgree, SameEvent
<1>1. ASSUME pc = "sync_outcomes", UNCHANGED snap, sEvents \subseteq sEvents', sPred \subseteq sPred'
      PROVE  \A p \in snap'.preds : \E q \in sPred' : q.id = p.id /\ SameEvent(p, q)'
  <2>1. \A p \in snap.preds : \E q \in sPred : q.id = p.id /\ SameEvent(p, q)
    BY <1>1 DEF SyncedLinksAgree, SameEvent
  <2> QED BY <1>1, <2>1, SameEventStable
<1>2. CASE \/ \E s \in Slots, l \in Labels : Fire(s, l)
           \/ CloseSession \/ NextDay \/ WeeklyRefit \/ UNCHANGED vars
  <2>1. UNCHANGED <<snap, pc, sPred>> /\ sEvents \subseteq sEvents'
    BY <1>2 DEF Fire, CloseSession, NextDay, WeeklyRefit, vars, serving, chain, transfer
  <2> QED BY <1>1, <2>1
<1>3. CASE Score
  <2>1. UNCHANGED <<snap, pc, sEvents>> /\ sPred \subseteq sPred'
    BY <1>3, ScoreRows DEF chain, transfer
  <2> QED BY <1>1, <2>1
<1>4. CASE SyncCopy
  <2>1. pc = "sync_copy" /\ UNCHANGED <<snap, sEvents>> /\ frame \subseteq sPred'
    BY <1>4 DEF SyncCopy
  <2>2. ASSUME NEW p \in snap.preds
        PROVE  \E q \in sPred' : q.id = p.id /\ SameEvent(p, q)'
    <3>1. PICK f \in frame : f.id = p.id
      BY <2>1 DEF FrameIsTranslated
    <3>2. PICK r \in snap.preds : r.id = f.id /\ SameEvent(r, f)
      BY <2>1 DEF FrameIsTranslated
    <3>3. r = p
      BY <3>1, <3>2 DEF IInv, SnapshotIsPast, ResearchKeys, UniqueIds
    <3>4. SameEvent(p, f)'
      BY <2>1, <3>2, <3>3, SameEventStable
    <3> QED BY <2>1, <3>1, <3>4
  <2> QED BY <2>1, <2>2
<1>5. CASE Start \/ RunEvents \/ PeakLabels \/ PullRead \/ PullWrite \/ PullFail
           \/ Predict \/ Outcomes
  BY <1>5 DEF Start, RunEvents, PeakLabels, PullRead, PullWrite, PullFail, Predict,
     Outcomes
<1>6. CASE SyncBegin \/ SyncEvents \/ SyncClear \/ SyncCopyRaises \/ SyncOutcomes
           \/ SyncFail \/ Sweep \/ Kill
  BY <1>6 DEF SyncBegin, SyncEvents, SyncClear, SyncCopyRaises, SyncOutcomes, SyncFail,
     Sweep, Kill
<1> QED BY <1>2, <1>3, <1>4, <1>5, <1>6 DEF Next, Pi, Clock, Nightly

\* Where the pull was complete, the copy leaves every link of the chain's days on a
\* settled event of the prediction's own slot.
LEMMA CopyLeavesSettled ==
  ASSUME IInv, PullIsComplete, SnapshotIsWhole, FrameIsTranslated, SyncCopy, pulled,
         NEW q \in sPred', q.ev # NoEvent, SlotDay[q.slot] <= end
  PROVE  \E x \in sEvents : x.id = q.ev /\ x.slot = q.slot /\ ~x.prov
<1>1. /\ pc = "sync_copy"
      /\ sPred' = {r \in sPred : r.id \notin Ids(frame)} \cup frame
  BY DEF SyncCopy
<1>2. CASE q \in frame
  <2>1. PICK p \in snap.preds : p.id = q.id /\ p.slot = q.slot /\ SameEvent(p, q)
    BY <1>1, <1>2 DEF FrameIsTranslated
  <2>2. p.ev # NoEvent
    BY <2>1 DEF SameEvent
  <2>3. PICK x \in sEvents, e \in snap.events :
          x.id = q.ev /\ e.id = p.ev /\ SameKey(x, e) /\ ~x.prov
    BY <2>1, <2>2 DEF SameEvent
  <2>4. PICK d \in snap.events : d.id = p.ev /\ d.slot = p.slot
    BY <2>2 DEF SnapshotIsWhole
  <2>5. d = e
    BY <2>3, <2>4 DEF IInv, SnapshotIsPast, ResearchKeys, UniqueIds
  <2> QED BY <2>1, <2>3, <2>4, <2>5 DEF SameKey
<1>3. CASE q \in sPred /\ q.id \notin Ids(frame)
  <2>1. q.id \notin Ids(snap.preds)
    <3>1. \A p \in snap.preds : p.id \in Ids(frame)
      BY <1>1 DEF FrameIsTranslated, Ids
    <3> QED BY <1>3, <3>1 DEF Ids
  <2>2. BornServing(q)
    BY <1>1, <1>3, <2>1 DEF SnapshotIsWhole
  <2>3. q.id \in Ids(rPred)
    BY <1>1, <1>3 DEF PullIsComplete
  <2>4. PICK p \in rPred : p.id = q.id
    BY <2>3 DEF Ids
  <2>5. p \in snap.preds
    BY <1>1, <2>2, <2>4 DEF IInv, SnapshotIsPast, BornServing
  <2> QED BY <2>1, <2>4, <2>5 DEF Ids
<1> QED BY <1>1, <1>2, <1>3

\* They stay on it until the sweep.
LEMMA LinksSurviveStep ==
  ASSUME IInv, IInv', ChainIsBehind, PullIsComplete, SnapshotIsWhole, FrameIsTranslated,
         LinksSurviveSweep, [Next]_vars
  PROVE  LinksSurviveSweep'
<1>0. day \in Nat /\ end \in Nat
  BY DEF IInv, TypeOK
<1> DEFINE Copied == {"sync_outcomes", "sweep"}
<1>1. ASSUME pc \in Copied, UNCHANGED <<end, pulled, sPred>>, sEvents \subseteq sEvents'
      PROVE  LinksSurviveSweep'
  BY <1>1 DEF LinksSurviveSweep
<1>2. ASSUME pc' \notin Copied PROVE LinksSurviveSweep'
  BY <1>2 DEF LinksSurviveSweep
<1>3. CASE \/ \E s \in Slots, l \in Labels : Fire(s, l)
           \/ CloseSession \/ NextDay \/ WeeklyRefit \/ UNCHANGED vars
  <2>1. UNCHANGED <<pc, end, pulled, sPred>> /\ sEvents \subseteq sEvents'
    BY <1>3 DEF Fire, CloseSession, NextDay, WeeklyRefit, vars, serving, chain, transfer
  <2> QED BY <1>1, <1>2, <2>1
<1>4. CASE Score
  <2>1. /\ UNCHANGED <<sEvents, pc, end, pulled>> /\ phase = "session"
        /\ \A q \in sPred' \ sPred : SlotDay[q.slot] = day
    BY <1>4, ScoreRows DEF chain, transfer
  <2>2. pc \in Copied => \A q \in sPred' : SlotDay[q.slot] <= end => q \in sPred
    BY <1>0, <2>1 DEF ChainIsBehind
  <2> QED BY <2>1, <2>2 DEF LinksSurviveSweep
<1>5. CASE SyncCopy
  <2>1. UNCHANGED <<sEvents, end, pulled>>
    BY <1>5 DEF SyncCopy
  <2> QED BY <1>5, <2>1, CopyLeavesSettled DEF LinksSurviveSweep
<1>6. CASE SyncOutcomes
  BY <1>1, <1>6 DEF SyncOutcomes
<1>7. CASE Start \/ RunEvents \/ PeakLabels \/ PullRead \/ PullWrite \/ PullFail
           \/ Predict \/ Outcomes
  BY <1>2, <1>7 DEF Start, RunEvents, PeakLabels, PullRead, PullWrite, PullFail, Predict,
     Outcomes
<1>8. CASE SyncBegin \/ SyncEvents \/ SyncClear \/ SyncCopyRaises
           \/ SyncFail \/ Sweep \/ Kill
  BY <1>2, <1>8 DEF SyncBegin, SyncEvents, SyncClear, SyncCopyRaises, SyncFail,
     Sweep, Kill
<1> QED BY <1>3, <1>4, <1>5, <1>6, <1>7, <1>8 DEF Next, Pi, Clock, Nightly

\* The invariant of the transfers, in every reachable state.
THEOREM TransfersHold == Spec => []TransferInv
<1>1. Init => TransferInv
  BY DEF Init, TransferInv, ChainIsBehind, PullIsComplete, SnapshotIsWhole, EventsAreCopied,
     FrameIsTranslated, SyncedLinksAgree, LinksSurviveSweep, EmptySnapshot
<1>2. IInv /\ IInv' /\ TransferInv /\ [Next]_vars => TransferInv'
  <2> SUFFICES ASSUME IInv, IInv', TransferInv, [Next]_vars PROVE TransferInv'
    OBVIOUS
  <2> USE DEF TransferInv
  <2>1. ChainIsBehind'
    BY ChainIsBehindStep DEF IInv
  <2>2. PullIsComplete'
    BY PullIsCompleteStep
  <2>3. SnapshotIsWhole'
    BY SnapshotIsWholeStep
  <2>4. EventsAreCopied'
    BY EventsAreCopiedStep
  <2>5. FrameIsTranslated'
    BY FrameIsTranslatedStep
  <2>6. SyncedLinksAgree'
    BY SyncedLinksStep
  <2>7. LinksSurviveSweep'
    BY LinksSurviveStep
  <2> QED BY <2>1, <2>2, <2>3, <2>4, <2>5, <2>6, <2>7
<1> QED BY <1>1, <1>2, InvariantHolds, PTL DEF Spec

\* Once run_sync has written predictions, each of the snapshot's links is on serving
\* the event it is on research.
THEOREM SyncedLinksHold == Spec => []SyncedLinksAgree
<1>1. TransferInv => SyncedLinksAgree
  BY DEF TransferInv
<1> QED BY <1>1, TransfersHold, PTL

\* The sweep of a chain whose pull succeeded strands no prediction of its days,
\* whatever the Pi wrote while the sync ran.
THEOREM SweepHolds == Spec => SweepStrandsNothing
<1>1. TransferInv /\ [Next]_vars =>
        [Sweep /\ pulled =>
           \A q \in sPred : q.ev # NoEvent /\ SlotDay[q.slot] <= end =>
             \E x \in sEvents' : x.id = q.ev /\ x.slot = q.slot]_vars
  <2> SUFFICES ASSUME TransferInv, Sweep, pulled,
                      NEW q \in sPred, q.ev # NoEvent, SlotDay[q.slot] <= end
               PROVE  \E x \in sEvents' : x.id = q.ev /\ x.slot = q.slot
    OBVIOUS
  <2>1. PICK x \in sEvents : x.id = q.ev /\ x.slot = q.slot /\ ~x.prov
    BY DEF TransferInv, LinksSurviveSweep, Sweep
  <2>2. x \in sEvents'
    BY <2>1 DEF Sweep
  <2> QED BY <2>1, <2>2
<1> QED BY <1>1, TransfersHold, PTL DEF Spec, SweepStrandsNothing

-----------------------------------------------------------------------------
(* As long as nothing has gone wrong.                                      *)

\* A step after which nothing has gone wrong is none of the disruptions.
LEMMA CalmStep ==
  ASSUME TypeOK, [Next]_vars, mishaps' = 0
  PROVE  /\ mishaps = 0
         /\ ~PullFail /\ ~WeeklyRefit /\ ~SyncFail /\ ~Kill
         /\ \A kind : ~Mishap(kind)
<1>0. mishaps \in Nat
  BY DEF TypeOK
<1>1. \A kind : ~Mishap(kind)
  BY <1>0 DEF Mishap
<1>2. ~PullFail /\ ~WeeklyRefit /\ ~SyncFail /\ ~Kill
  BY <1>1 DEF PullFail, WeeklyRefit, SyncFail, Kill
<1>3. UNCHANGED mishaps
  <2>1. CASE Pi \/ Clock \/ UNCHANGED vars
    BY <1>1, <2>1 DEF Pi, Fire, Score, Clock, CloseSession, NextDay, vars
  <2>2. CASE Start \/ RunEvents \/ PeakLabels \/ PullRead \/ PullWrite \/ Predict \/ Outcomes
    BY <1>1, <2>2 DEF Start, RunEvents, PeakLabels, PullRead, PullWrite, Predict, Outcomes
  <2>3. CASE SyncBegin \/ SyncEvents \/ SyncClear \/ SyncCopy \/ SyncCopyRaises
             \/ SyncOutcomes \/ Sweep
    BY <2>3 DEF SyncBegin, SyncEvents, SyncClear, SyncCopy, SyncCopyRaises, SyncOutcomes, Sweep
  <2> QED BY <1>2, <2>1, <2>2, <2>3 DEF Next, Nightly
<1> QED BY <1>1, <1>2, <1>3

\* A slot with one event on research has that event for its link.
LEMMA SlotLinkIsEvent ==
  ASSUME NEW p, NEW e \in rEvents, e.slot = p.slot,
         \A x \in rEvents : x.slot = e.slot => x = e
  PROVE  SlotLink(p) = e.id
<1> DEFINE es == Ids({x \in rEvents : x.slot = p.slot})
<1>1. es = {e.id}
  BY DEF Ids
<1>2. SlotLink(p) = IF \E i \in es : es = {i} THEN CHOOSE i \in es : TRUE ELSE NoEvent
  BY DEF SlotLink
<1> HIDE DEF es
<1> QED BY <1>1, <1>2

\* The pull of a calm night takes all it read, and leaves nothing behind.
LEMMA CalmPull ==
  ASSUME IInv, CalmChain, PullWrite
  PROVE  /\ pulled' /\ Incoming' = {}
         /\ rPred' = rPred \cup {[p EXCEPT !.ev = OwnLink(p)] : p \in Incoming}
<1> DEFINE row(p) == [p EXCEPT !.ev = OwnLink(p)]
<1>1. pc = "pull_write" /\ frame = {row(p) : p \in Incoming}
  BY DEF PullWrite, CalmChain
<1>2. \A p \in Incoming :
        row(p).id = p.id /\ row(p).ev = OwnLink(p) /\ p.id \notin Ids(rPred)
  BY DEF Incoming, IInv, TypeOK, Pred
<1> HIDE DEF row
<1>3. ASSUME NEW p \in Incoming, LinkTaken(row(p), rPred) PROVE FALSE
  <2>1. OwnLink(p) # NoEvent /\ \E q \in rPred : q.ev = OwnLink(p) /\ q.id # p.id
    BY <1>2, <1>3 DEF LinkTaken
  <2>2. OwnLink(p) = FreeLink(p)
    BY <2>1 DEF OwnLink
  <2> QED BY <2>1, <2>2 DEF FreeLink
<1>4. /\ pulled' /\ UNCHANGED sPred
      /\ rPred' = rPred \cup {f \in frame : f.id \notin Ids(rPred)}
  BY <1>1, <1>3 DEF PullWrite, serving
<1>5. rPred' = rPred \cup {row(p) : p \in Incoming}
  BY <1>1, <1>2, <1>4
<1>6. Incoming' = {}
  <2> SUFFICES ASSUME NEW q \in sPred, BornServing(q) PROVE q.id \in Ids(rPred')
    BY <1>4 DEF Incoming, BornServing
  <2>1. CASE q \in Incoming
    BY <1>2, <1>5, <2>1 DEF Ids
  <2>2. CASE q.id \in Ids(rPred)
    BY <1>5, <2>2 DEF Ids
  <2> QED BY <2>1, <2>2 DEF Incoming
<1> QED BY <1>4, <1>5, <1>6 DEF row

\* The link of a calm pull: a slot's only live prediction comes to own its event.
LEMMA CalmPullLinks ==
  ASSUME IInv, CalmChain, CalmEvents, CalmLinks, PullWrite
  PROVE  CalmLinks'
<1> DEFINE row(p) == [p EXCEPT !.ev = OwnLink(p)]
<1>1. /\ pc = "pull_write" /\ UNCHANGED <<rEvents, sPred>>
      /\ rPred' = rPred \cup {row(p) : p \in Incoming} /\ Incoming' = {}
  BY CalmPull DEF PullWrite, serving
<1>2. \A p \in Incoming :
        /\ p \in sPred /\ BornServing(p) /\ p.id \notin Ids(rPred)
        /\ row(p).id = p.id /\ row(p).slot = p.slot /\ row(p).ev = OwnLink(p)
  BY DEF Incoming, IInv, TypeOK, Pred
<1>3. \A p \in Incoming : BornServing(row(p))
  BY <1>2 DEF BornServing
<1> HIDE DEF row
<1>4. ASSUME NEW r \in rPred', ~BornServing(r)
      PROVE  /\ \E e \in rEvents : e.id = r.ev /\ e.slot = r.slot
             /\ \A q \in sPred : BornServing(q) => q.id \in Ids(rPred')
  <2>1. r \in rPred
    BY <1>1, <1>3, <1>4
  <2>2. \A q \in sPred : BornServing(q) => q.id \in Ids(rPred')
    BY <1>1 DEF Incoming, BornServing
  <2> QED BY <1>4, <2>1, <2>2 DEF CalmLinks
<1>5. ASSUME NEW p \in rPred', BornServing(p),
             \A q \in rPred' : BornServing(q) /\ q.slot = p.slot => q = p
      PROVE  \E e \in rEvents : e.id = p.ev /\ e.slot = p.slot
  <2>1. CASE p \in rPred
    BY <1>1, <1>5, <2>1 DEF CalmLinks
  <2>2. CASE p \notin rPred
    <3>1. PICK o \in Incoming : p = row(o)
      BY <1>1, <2>2
    <3>2. o.slot \in Slots /\ SlotDay[o.slot] <= day
      BY <1>2 DEF IInv, TypeOK, Pred, CalmEvents
    <3>3. PICK e \in rEvents : e.slot = o.slot
      BY <1>1, <3>2 DEF CalmEvents
    <3>4. \A x \in rEvents : x.slot = e.slot => x = e
      BY DEF CalmEvents
    <3>5. SlotLink(o) = e.id
      BY <3>3, <3>4, SlotLinkIsEvent
    <3>6. ASSUME NEW q \in rPred, q.ev = e.id PROVE FALSE
      <4>1. e.id # NoEvent
        BY DEF IInv, TypeOK, Event, EventIds, NoEvent
      <4>2. q.slot = o.slot
        <5>1. PICK x \in rEvents : x.id = q.ev /\ x.slot = q.slot
          BY <3>6, <4>1 DEF IInv, EvidenceLinksOwnSlot
        <5> QED BY <3>3, <3>6, <5>1 DEF IInv, ResearchKeys, UniqueIds
      <4>3. CASE BornServing(q)
        <5>1. q = p
          BY <1>1, <1>2, <1>5, <3>1, <4>2, <4>3
        <5> QED BY <2>2, <5>1
      <4>4. CASE ~BornServing(q)
        BY <1>2, <4>2, <4>4 DEF CalmLinks
      <4> QED BY <4>3, <4>4
    <3>7. FreeLink(o) = e.id
      BY <3>5, <3>6 DEF FreeLink
    <3>8. ASSUME NEW q \in Incoming, q # o, FreeLink(q) = FreeLink(o) PROVE FALSE
      <4>1. e.id # NoEvent
        BY DEF IInv, TypeOK, Event, EventIds, NoEvent
      <4>2. SlotLink(q) = e.id
        BY <3>7, <3>8, <4>1 DEF FreeLink
      <4>3. q.slot \in Slots /\ SlotDay[q.slot] <= day
        BY <1>2 DEF IInv, TypeOK, Pred, CalmEvents
      <4>4. PICK d \in rEvents : d.slot = q.slot
        BY <1>1, <4>3 DEF CalmEvents
      <4>5. \A x \in rEvents : x.slot = d.slot => x = d
        BY DEF CalmEvents
      <4>6. SlotLink(q) = d.id
        BY <4>4, <4>5, SlotLinkIsEvent
      <4>7. d = e
        BY <4>2, <4>6 DEF IInv, ResearchKeys, UniqueIds
      <4>8. row(q) = p
        BY <1>1, <1>2, <1>3, <1>5, <3>1, <3>3, <4>4, <4>7
      <4>9. q.id = o.id
        BY <1>2, <3>1, <4>8
      <4> QED BY <1>2, <3>8, <4>9 DEF IInv, ServingKeys, UniqueIds
    <3>9. OwnLink(o) = e.id
      BY <3>7, <3>8 DEF OwnLink
    <3> QED BY <1>2, <3>1, <3>3, <3>9
  <2> QED BY <2>1, <2>2
<1> QED BY <1>1, <1>4, <1>5 DEF CalmLinks, BornServing

\* A calm night's predictions are for slots whose live ones have all come in.
LEMMA CalmPredictLinks ==
  ASSUME IInv, CalmChain, CalmLinks, Predict
  PROVE  CalmLinks' /\ Incoming' = {}
<1>1. /\ pc = "predict" /\ UNCHANGED <<rEvents, sPred>>
      /\ \E es \in SUBSET Unscored(rEvents, rPred) : WritePredictions(es)
  BY DEF Predict, serving
<1>2. PICK es \in SUBSET Unscored(rEvents, rPred) : WritePredictions(es)
  BY <1>1
<1>3. PICK n \in rSeq..MaxResearchId : \E f \in Mints(rSeq, Ids(es), n) :
        rPred' = rPred \cup Predicted(es, f)
  BY <1>2 DEF WritePredictions
<1>4. PICK f \in Mints(rSeq, Ids(es), n) : rPred' = rPred \cup Predicted(es, f)
  BY <1>3
<1>5. /\ \A e \in es : e.id \in EventIds /\ e.slot \in Slots /\ e.label \in Labels
      /\ UniqueIds(es) /\ es \subseteq rEvents
  BY DEF Unscored, IInv, TypeOK, Event, ResearchKeys, UniqueIds
<1>6. rSeq \in Nat /\ n \in Nat /\ n <= MaxResearchId /\ (rSeq + 1)..n \subseteq PredIds
  BY DEF IInv, TypeOK, PredIds, ResearchIds
<1>7. \A p \in Predicted(es, f) :
        p.id \in (rSeq + 1)..n /\ \E e \in es : e.id = p.ev /\ e.slot = p.slot
  BY <1>5, <1>6, PredictedFacts
<1>8. \A p \in Predicted(es, f) :
        ~BornServing(p) /\ \E e \in rEvents : e.id = p.ev /\ e.slot = p.slot
  BY <1>5, <1>6, <1>7 DEF BornServing
<1>9. \A q \in sPred : BornServing(q) => q.id \in Ids(rPred)
  BY <1>1 DEF CalmChain, AfterPull, Incoming
<1>10. Ids(rPred) \subseteq Ids(rPred') /\ rPred \subseteq rPred'
  BY <1>4 DEF Ids
<1>11. Incoming' = {}
  BY <1>1, <1>9, <1>10 DEF Incoming, BornServing
<1>12. ASSUME NEW r \in rPred', ~BornServing(r)
       PROVE  /\ \E e \in rEvents : e.id = r.ev /\ e.slot = r.slot
              /\ \A q \in sPred : BornServing(q) => q.id \in Ids(rPred')
  BY <1>4, <1>8, <1>9, <1>10, <1>12 DEF CalmLinks
<1>13. ASSUME NEW p \in rPred', BornServing(p),
              \A q \in rPred' : BornServing(q) /\ q.slot = p.slot => q = p
       PROVE  \E e \in rEvents : e.id = p.ev /\ e.slot = p.slot
  BY <1>4, <1>8, <1>13 DEF CalmLinks
<1> QED BY <1>1, <1>11, <1>12, <1>13 DEF CalmLinks, BornServing

\* A calm pass of run_events gives each slot of a day that is over its one event.
LEMMA CalmRunEvents ==
  ASSUME IInv, CalmChain, CalmEvents, RunEvents, \A kind : ~Mishap(kind)
  PROVE  CalmEvents'
<1>1. PICK new \in SUBSET Window : \E primary \in [new -> Labels] :
        /\ new \cap Labelled = {} /\ Window \subseteq new \cup Labelled
        /\ \E n \in rEvSeq..MaxEventId : \E f \in Mints(rEvSeq, new, n) :
             rEvents' = rEvents \cup
               {[id |-> f[s], slot |-> s, label |-> primary[s]] : s \in new}
  BY DEF RunEvents
<1>2. PICK primary \in [new -> Labels], n \in rEvSeq..MaxEventId :
        /\ new \cap Labelled = {} /\ Window \subseteq new \cup Labelled
        /\ \E f \in Mints(rEvSeq, new, n) :
             rEvents' = rEvents \cup
               {[id |-> f[s], slot |-> s, label |-> primary[s]] : s \in new}
  BY <1>1
<1>3. PICK f \in Mints(rEvSeq, new, n) :
        rEvents' = rEvents \cup
          {[id |-> f[s], slot |-> s, label |-> primary[s]] : s \in new}
  BY <1>2
<1>4. /\ phase = "closed" /\ end = day /\ UNCHANGED <<sPred, day, phase>>
  BY DEF RunEvents, CalmChain, serving, calendar
<1> DEFINE row(s) == [id |-> f[s], slot |-> s, label |-> primary[s]]
<1>5. rEvents' = rEvents \cup {row(s) : s \in new} /\ \A s \in new : row(s).slot = s
  BY <1>3
<1> HIDE DEF row
<1>6. \A s \in new : SlotDay[s] <= day /\ \A e \in rEvents : e.slot # s
  BY <1>2, <1>4 DEF Window, Labelled
<1>7. \A e, x \in rEvents' : e.slot = x.slot => e = x
  BY <1>5, <1>6 DEF CalmEvents
<1>8. \A e \in rEvents' : SlotDay[e.slot] <= day
  BY <1>5, <1>6 DEF CalmEvents
<1>9. \A s \in Slots : SlotDay[s] <= day => \E e \in rEvents' : e.slot = s
  BY <1>2, <1>4, <1>5 DEF Window, Labelled
<1> QED BY <1>4, <1>7, <1>8, <1>9 DEF CalmEvents

\* The pull's links depend on both stores' predictions and research's events only.
LEMMA PullStable ==
  ASSUME UNCHANGED <<rPred, sPred, rEvents>>
  PROVE  /\ Incoming' = Incoming
         /\ {[p EXCEPT !.ev = OwnLink(p)] : p \in Incoming}' =
              {[p EXCEPT !.ev = OwnLink(p)] : p \in Incoming}
BY DEF Incoming, OwnLink, FreeLink, SlotLink, BornServing

\* The steps of a calm night that move the chain on and leave both stores'
\* predictions alone.
LEMMA CalmStable ==
  ASSUME CalmChain, CalmEvents, CalmLinks,
         UNCHANGED <<rEvents, rPred, sPred, calendar>>,
         \/ UNCHANGED <<chain, frame>>
         \/ pc' = "idle"
         \/ /\ UNCHANGED <<end, pulled>>
            /\ pc \in {"labels"} \cup AfterPull /\ pc' \in {"pull"} \cup AfterPull
            /\ pc = "labels" <=> pc' = "pull"
  PROVE  CalmChain' /\ CalmEvents' /\ CalmLinks'
<1>1. CalmLinks'
  BY DEF CalmLinks, BornServing
<1>2. CalmEvents'
  BY DEF CalmEvents, calendar, chain, AfterPull
<1>3. CalmChain'
  BY PullStable DEF CalmChain, calendar, chain, AfterPull
<1> QED BY <1>1, <1>2, <1>3

\* The Pi's scoring runs in a session, when research has no event of the day yet.
LEMMA CalmScore ==
  ASSUME IInv, CalmChain, CalmEvents, CalmLinks, Score
  PROVE  CalmChain' /\ CalmEvents' /\ CalmLinks'
<1>1. /\ phase = "session" /\ pc = "idle"
      /\ UNCHANGED <<rEvents, rPred, day, phase, pc>>
      /\ sPred \subseteq sPred'
      /\ \A q \in sPred' \ sPred : SlotDay[q.slot] = day
  BY ScoreRows DEF CalmChain, research, calendar, chain
<1>2. day \in Nat
  BY DEF IInv, TypeOK
<1>3. CalmEvents'
  BY <1>1, <1>2 DEF CalmEvents
<1>4. ASSUME NEW r \in rPred, ~BornServing(r),
             NEW q \in sPred', BornServing(q), q.slot = r.slot
      PROVE  q.id \in Ids(rPred)
  <2>1. PICK e \in rEvents : e.id = r.ev /\ e.slot = r.slot
    BY <1>4 DEF CalmLinks
  <2>2. SlotDay[e.slot] < day
    BY <1>1 DEF CalmEvents
  <2>3. SlotDay[e.slot] # day
    BY <1>2, <2>2, <1>1 DEF IInv, TypeOK, Event
  <2>4. q \in sPred
    BY <1>1, <1>4, <2>1, <2>3
  <2> QED BY <1>4, <2>4 DEF CalmLinks
<1> QED BY <1>1, <1>3, <1>4 DEF CalmChain, CalmLinks, BornServing

\* Rows leave serving: nothing new is to come in.
LEMMA CalmSyncClear ==
  ASSUME CalmChain, CalmEvents, CalmLinks, SyncClear
  PROVE  CalmChain' /\ CalmEvents' /\ CalmLinks'
<1>1. /\ pc = "sync_clear" /\ pc' \in {"idle", "sync_copy"}
      /\ sPred' \subseteq sPred
      /\ UNCHANGED <<rEvents, rPred, day, phase, end, pulled>>
  BY DEF SyncClear, research, calendar
<1>2. Incoming' \subseteq Incoming
  BY <1>1 DEF Incoming, BornServing
<1> QED BY <1>1, <1>2 DEF CalmChain, CalmEvents, CalmLinks, AfterPull, BornServing

\* The copy brings rows that research has, and of days that are over.
LEMMA CalmSyncCopy ==
  ASSUME IInv, CalmChain, CalmEvents, CalmLinks, SyncCopy
  PROVE  CalmChain' /\ CalmEvents' /\ CalmLinks'
<1>1. /\ pc = "sync_copy" /\ pc' = "sync_outcomes"
      /\ sPred' = {q \in sPred : q.id \notin Ids(frame)} \cup frame
      /\ UNCHANGED <<rEvents, rPred, day, phase, end, pulled>>
  BY DEF SyncCopy, research, calendar
<1>2. \A f \in frame : \E p \in rPred : p.id = f.id /\ p.slot = f.slot
  BY <1>1 DEF IInv, CopyFrame, SameKey
<1>3. \A q \in sPred' : BornServing(q) => q.id \in Ids(rPred)
  BY <1>1, <1>2 DEF CalmChain, AfterPull, Incoming, Ids
<1>4. ASSUME NEW p \in rPred PROVE SlotDay[p.slot] <= day
  <2>1. CASE BornServing(p)
    <3>1. PICK q \in sPred : q.id = p.id
      BY <2>1 DEF IInv, Provenance, Ids
    <3> QED BY <3>1 DEF IInv, CrossStoreIdentity, CalmEvents
  <2>2. CASE ~BornServing(p)
    BY <2>2 DEF CalmLinks, CalmEvents
  <2> QED BY <2>1, <2>2
<1>5. \A q \in sPred' : SlotDay[q.slot] <= day
  BY <1>1, <1>2, <1>4 DEF CalmEvents
<1>6. Incoming' = {}
  BY <1>1, <1>3 DEF Incoming, BornServing
<1>7. CalmChain' /\ CalmEvents'
  BY <1>1, <1>5, <1>6 DEF CalmChain, CalmEvents, AfterPull
<1>8. CalmLinks'
  BY <1>1, <1>3 DEF CalmLinks, BornServing
<1> QED BY <1>7, <1>8

\* As long as nothing goes wrong, every step keeps what is true of a calm log.
LEMMA CalmInvStep == IInv /\ CalmInv /\ [Next]_vars => CalmInv'
<1> SUFFICES ASSUME IInv, CalmInv, [Next]_vars, mishaps' = 0
             PROVE  CalmChain' /\ CalmEvents' /\ CalmLinks'
  BY DEF CalmInv
<1>0. /\ mishaps = 0
      /\ ~PullFail /\ ~WeeklyRefit /\ ~SyncFail /\ ~Kill
      /\ \A kind : ~Mishap(kind)
  BY CalmStep DEF IInv
<1>i. CalmChain /\ CalmEvents /\ CalmLinks
  BY <1>0 DEF CalmInv
<1>d. day \in Nat
  BY DEF IInv, TypeOK
<1>1. CASE UNCHANGED vars \/ \E s \in Slots, l \in Labels : Fire(s, l)
  <2>1. UNCHANGED <<rEvents, rPred, sPred, calendar, chain, frame>>
    BY <1>1 DEF Fire, vars, research, serving, transfer
  <2> QED BY <1>i, <2>1, CalmStable
<1>2. CASE Score
  BY <1>i, <1>2, CalmScore
<1>3. CASE CloseSession \/ NextDay
  <2>1. /\ UNCHANGED <<rEvents, rPred, sPred, pc>> /\ pc = "idle"
        /\ \/ day' = day /\ phase' = "closed"
           \/ day' = day + 1
    BY <1>0, <1>i, <1>3 DEF CloseSession, NextDay, CalmChain, research, serving, chain
  <2>2. \A e \in rEvents : SlotDay[e.slot] \in Nat
    BY DEF IInv, TypeOK, Event
  <2>3. \A q \in sPred : SlotDay[q.slot] \in Nat
    BY DEF IInv, TypeOK, Pred
  <2>4. CalmChain' /\ CalmLinks'
    BY <1>i, <2>1 DEF CalmChain, CalmLinks, BornServing
  <2>5. CalmEvents'
    BY <1>i, <1>d, <2>1, <2>2, <2>3 DEF CalmEvents
  <2> QED BY <2>4, <2>5
<1>4. CASE Start
  BY <1>0, <1>i, <1>4 DEF Start, NightlyEnd, CalmChain, CalmEvents, CalmLinks, AfterPull,
     research, serving, calendar, BornServing
<1>5. CASE RunEvents
  <2>1. CalmEvents'
    BY <1>0, <1>i, <1>5, CalmRunEvents
  <2>2. rEvents \subseteq rEvents' /\ UNCHANGED <<rPred, sPred>>
    BY <1>5, RunEventsInv DEF RunEvents, serving
  <2>3. CalmLinks'
    BY <1>i, <2>2 DEF CalmLinks, BornServing
  <2>4. CalmChain'
    BY <1>i, <1>5 DEF RunEvents, CalmChain, calendar, AfterPull
  <2> QED BY <2>1, <2>3, <2>4
<1>6. CASE PullRead
  <2>1. UNCHANGED <<rEvents, rPred, sPred, calendar, end>>
    BY <1>6 DEF PullRead, research, serving
  <2>2. CalmEvents' /\ CalmLinks'
    BY <1>i, <1>6, <2>1 DEF PullRead, CalmEvents, CalmLinks, calendar, BornServing
  <2>3. frame' = {[p EXCEPT !.ev = OwnLink(p)] : p \in Incoming}'
    BY <1>6, <2>1, PullStable DEF PullRead
  <2>4. CalmChain'
    BY <1>i, <1>6, <2>1, <2>3 DEF PullRead, CalmChain, calendar, AfterPull
  <2> QED BY <2>2, <2>4
<1>7. CASE PullWrite
  <2>1. CalmLinks' /\ pulled' /\ Incoming' = {}
    BY <1>i, <1>7, CalmPull, CalmPullLinks
  <2>2. CalmEvents'
    BY <1>i, <1>7 DEF PullWrite, CalmEvents, serving, calendar
  <2>3. CalmChain'
    BY <1>i, <1>7, <2>1 DEF PullWrite, CalmChain, calendar
  <2> QED BY <2>1, <2>2, <2>3
<1>8. CASE Predict
  <2>1. CalmLinks' /\ Incoming' = {}
    BY <1>i, <1>8, CalmPredictLinks
  <2>2. CalmEvents' /\ CalmChain'
    BY <1>i, <1>8, <2>1 DEF Predict, CalmEvents, CalmChain, serving, calendar, AfterPull
  <2> QED BY <2>1, <2>2
<1>9. CASE SyncClear
  BY <1>i, <1>9, CalmSyncClear
<1>10. CASE SyncCopy
  BY <1>i, <1>10, CalmSyncCopy
<1>11. CASE PeakLabels \/ Outcomes \/ SyncBegin \/ SyncEvents
  <2>1. /\ UNCHANGED <<rEvents, rPred, sPred, calendar, end, pulled>>
        /\ \/ pc = "labels" /\ pc' = "pull"
           \/ pc = "outcomes" /\ pc' = "sync"
           \/ pc = "sync" /\ pc' = "sync_events"
           \/ pc = "sync_events" /\ pc' = "sync_clear"
    BY <1>11 DEF PeakLabels, Outcomes, SyncBegin, SyncEvents, research, serving
  <2> QED BY <1>i, <2>1, CalmStable DEF AfterPull
<1>12. CASE SyncCopyRaises \/ SyncOutcomes \/ Sweep
  <2>1. /\ UNCHANGED <<rEvents, rPred, sPred, calendar, end, pulled>>
        /\ \/ pc' = "idle"
           \/ pc = "sync_outcomes" /\ pc' = "sweep"
    BY <1>12 DEF SyncCopyRaises, SyncOutcomes, Sweep, research, serving
  <2> QED BY <1>i, <2>1, CalmStable DEF AfterPull
<1> QED
  BY <1>0, <1>1, <1>2, <1>3, <1>4, <1>5, <1>6, <1>7, <1>8, <1>9, <1>10, <1>11, <1>12
  DEF Next, Pi, Clock, Nightly

-----------------------------------------------------------------------------
\* Until something goes wrong the chain has the night for itself, research one
\* event of a slot, and a slot's only live prediction that event.
THEOREM CalmLogHolds == Spec => []CalmInv
<1>1. Init => CalmInv
  BY DEF Init, CalmInv, CalmChain, CalmEvents, CalmLinks
<1> QED BY <1>1, CalmInvStep, InvariantHolds, PTL DEF Spec

\* As long as nothing goes wrong, research does not score a slot whose only live
\* prediction it holds.
THEOREM CalmNumberHolds == Spec => []CalmNumberKept
<1>1. IInv /\ CalmInv => CalmNumberKept
  <2> SUFFICES ASSUME IInv, CalmInv, mishaps = 0,
                      NEW p \in rPred, NEW r \in rPred,
                      BornServing(p), ~BornServing(r), p.slot = r.slot,
                      \A q \in rPred : BornServing(q) /\ q.slot = p.slot => q = p
               PROVE  FALSE
    BY DEF CalmNumberKept, LiveNumberKept
  <2>0. CalmEvents /\ CalmLinks
    BY DEF CalmInv
  <2>1. PICK e \in rEvents : e.id = p.ev /\ e.slot = p.slot
    BY <2>0 DEF CalmLinks
  <2>2. PICK x \in rEvents : x.id = r.ev /\ x.slot = r.slot
    BY <2>0 DEF CalmLinks
  <2>3. e = x
    BY <2>0, <2>1, <2>2 DEF CalmEvents
  <2>4. p.ev # NoEvent
    BY <2>1 DEF IInv, TypeOK, Event, EventIds, NoEvent
  <2>5. p = r
    BY <2>1, <2>2, <2>3, <2>4 DEF IInv, ResearchKeys, UniqueLinks
  <2> QED BY <2>5
<1> QED BY <1>1, CalmLogHolds, InvariantHolds, PTL

\* As long as nothing goes wrong, a sync takes away no prediction that only the
\* Pi's store holds, and a sweep no event that a prediction links to.
THEOREM CalmNightsHold == Spec => CalmNightsLoseNothing
<1>1. IInv /\ TransferInv /\ CalmInv /\ [Next]_vars =>
        [mishaps' = 0 => OnlyCopyStep /\ SweptRowsStep]_vars
  <2> SUFFICES ASSUME IInv, TransferInv, CalmInv, [Next]_vars, mishaps' = 0
               PROVE  OnlyCopyStep /\ SweptRowsStep
    OBVIOUS
  <2>0. /\ mishaps = 0
        /\ ~PullFail /\ ~WeeklyRefit /\ ~SyncFail /\ ~Kill
    BY CalmStep DEF IInv
  <2>i. CalmChain /\ CalmEvents /\ CalmLinks
    BY <2>0 DEF CalmInv
  <2>1. OnlyCopyStep
    <3>1. ASSUME Ids(sPred) \subseteq Ids(sPred') PROVE OnlyCopyStep
      BY <3>1 DEF OnlyCopyStep, Ids
    <3>2. CASE SyncClear
      BY <2>i, <3>2 DEF SyncClear, CalmChain, AfterPull, Incoming, OnlyCopyStep
    <3>3. CASE SyncCopy
      <4>1. Ids(sPred) \subseteq Ids(sPred')
        BY <3>3 DEF SyncCopy, Ids
      <4> QED BY <3>1, <4>1
    <3>4. CASE Score
      <4>1. Ids(sPred) \subseteq Ids(sPred')
        BY <3>4, ScoreRows DEF Ids
      <4> QED BY <3>1, <4>1
    <3>5. CASE UNCHANGED vars \/ CloseSession \/ NextDay \/ \E s \in Slots, l \in Labels : Fire(s, l)
      BY <3>1, <3>5 DEF Fire, CloseSession, NextDay, vars, serving
    <3>6. CASE Start \/ RunEvents \/ PeakLabels \/ PullRead \/ PullWrite \/ Predict \/ Outcomes
      BY <3>1, <3>6 DEF Start, RunEvents, PeakLabels, PullRead, PullWrite, Predict, Outcomes, serving
    <3>7. CASE SyncBegin \/ SyncEvents \/ SyncCopyRaises \/ SyncOutcomes \/ Sweep
      BY <3>1, <3>7 DEF SyncBegin, SyncEvents, SyncCopyRaises, SyncOutcomes, Sweep, serving
    <3> QED
      BY <2>0, <3>2, <3>3, <3>4, <3>5, <3>6, <3>7 DEF Next, Pi, Clock, Nightly
  <2>2. SweptRowsStep
    <3> SUFFICES ASSUME Sweep, NEW q \in sPred, NEW x \in sEvents \ sEvents', q.ev = x.id
                 PROVE  FALSE
      BY DEF SweptRowsStep
    <3>1. /\ pc = "sweep" /\ pulled /\ end = day /\ x.prov
      BY <2>i DEF Sweep, CalmChain, AfterPull
    <3>2. q.ev # NoEvent /\ SlotDay[q.slot] <= end
      BY <2>i, <3>1 DEF IInv, TypeOK, SEvent, EventIds, NoEvent, CalmEvents
    <3>3. PICK y \in sEvents : y.id = q.ev /\ ~y.prov
      BY <3>1, <3>2 DEF TransferInv, LinksSurviveSweep
    <3> QED BY <3>1, <3>3 DEF IInv, ServingKeys, UniqueIds
  <2> QED BY <2>1, <2>2
<1> QED BY <1>1, TransfersHold, CalmLogHolds, InvariantHolds, PTL DEF Spec, CalmNightsLoseNothing

=============================================================================
