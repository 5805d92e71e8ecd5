-------------------------- MODULE Membership_proofs ---------------------------
(***************************************************************************)
(* Machine-checked proofs about Membership, for any calendar, any length of *)
(* a quarter and of the nightly window, and any disruptions: as long as     *)
(* nothing has broken it, every event carries the membership of its day.    *)
(* And about UniverseRules, the verdict a quarter's row holds: no split     *)
(* moves the cap, and a watched name is one criterion away. And about       *)
(* EventRows, the rows the detection and the backtests write of the         *)
(* members' signals: they stay whole, resolved and apart. The calendar is   *)
(* shared; both have their own variables and are instances.                 *)
(***************************************************************************)
EXTENDS Membership, WellFoundedInduction, FiniteSetTheorems, TLAPS

CONSTANTS MaxSplits, MaxFilings, Receipt, Worth, Floor, Ceiling, Own, Active, SectorMates, MinPeers, Returns
VARIABLES now, listing, splits, ledger, applied, filings, seen, row

U == INSTANCE UniverseRules WITH today <- now

CONSTANTS MaxHold, Window, Disturbances, MaxDisturbances
VARIABLES session, stored, detected, rows, job, night, disruptions, stale, crossed, lagged

E == INSTANCE EventRows WITH today <- session, bars <- stored, Disruptions <- Disturbances,
                             MaxDisruptions <- MaxDisturbances

-----------------------------------------------------------------------------
(* The inductive invariant.                                                *)

TableTypes ==
  /\ today \in Nat \ {0}
  /\ DOMAIN bars \subseteq 1..(today - 1)
  /\ DOMAIN universe \subseteq Quarters
  /\ DOMAIN events \subseteq DOMAIN bars
  /\ trust \in {"sound", "mending", "broken"}

\* The rows are the verdicts of quarters that are over, so no later bar changes them;
\* an event that no job has still to write is stamped as they say.
Settled ==
  trust # "broken" =>
    /\ DOMAIN universe \subseteq Completed
    /\ \A q \in DOMAIN universe : universe[q] = Evaluated(q)
    /\ \A d \in DOMAIN events \ restamp : events[d] = MemberAt(d)

MembershipInv == TableTypes /\ Settled

-----------------------------------------------------------------------------
(* Lemmas about the calendar and the step function.                        *)

\* A non-empty set of numbers up to a bound has a maximum.
LEMMA BoundedMax ==
  ASSUME NEW n \in Int, NEW S \in SUBSET (1..n), S # {}
  PROVE  Max(S) \in S /\ \A x \in S : x <= Max(S)
<1> DEFINE T == {n - x : x \in S}
<1>1. T \subseteq Nat /\ T # {}
  <2>1. \A x \in S : n - x \in Nat
    OBVIOUS
  <2> QED BY <2>1
<1>2. \E m \in T : \A y \in T : ~ (<<y, m>> \in OpToRel(<, Nat))
  BY <1>1, WFMin, NatLessThanWellFounded
<1>3. PICK x \in S : \A y \in S : ~ (<<n - y, n - x>> \in OpToRel(<, Nat))
  BY <1>2
<1>4. \A y \in S : x >= y
  <2> TAKE y \in S
  <2>1. n - y \in Nat /\ n - x \in Nat
    OBVIOUS
  <2>2. ~(n - y < n - x)
    BY <1>3, <2>1 DEF OpToRel
  <2> QED BY <2>1, <2>2
<1> QED BY <1>4 DEF Max

\* A product grows with its factor.
LEMMA ProductGrows ==
  ASSUME NEW a \in Int, NEW b \in Int, NEW n \in Nat, a <= b
  PROVE  a * n <= b * n
OBVIOUS

\* The days that count as a quarter's own are those between its end and the one before.
LEMMA OwnDays ==
  ASSUME MembershipAssumption, NEW d \in Nat \ {0}, NEW q \in Int
  PROVE  (d - 1) \div QuarterDays + 1 = q <=> d <= AsOf(q) /\ d > AsOf(q) - QuarterDays
<1> DEFINE k == (d - 1) \div QuarterDays
           n == QuarterDays
<1>0. n \in Nat /\ n > 0 /\ d - 1 \in Nat
  BY DEF MembershipAssumption
<1>1. k \in Int /\ k * n <= d - 1 /\ d - 1 < k * n + n
  BY <1>0
<1> HIDE DEF k, n
<1>2. AsOf(q) = q * n
  BY DEF AsOf, n
<1>3. ASSUME k + 1 = q PROVE d <= q * n /\ d > q * n - n
  BY <1>0, <1>1, <1>3
<1>4. ASSUME d <= q * n, d > q * n - n PROVE k + 1 = q
  <2>1. CASE k + 1 < q
    <3>1. (k + 2) * n <= q * n
      BY <1>0, <1>1, <2>1, ProductGrows
    <3>2. (k + 2) * n = k * n + n + n
      BY <1>0, <1>1
    <3> QED BY <1>0, <1>1, <1>4, <3>1, <3>2
  <2>2. CASE q < k + 1
    <3>1. q * n <= k * n
      BY <1>0, <1>1, <2>2, ProductGrows
    <3> QED BY <1>0, <1>1, <1>4, <3>1
  <2> QED BY <1>1, <2>1, <2>2
<1> QED BY <1>2, <1>3, <1>4 DEF k, n

\* The newest quarter that is over is one of those that are.
LEMMA NewestIsCompleted ==
  ASSUME MembershipAssumption, Completed # {}
  PROVE  Max(Completed) \in Completed
<1>1. LastDay \div QuarterDays \in Int
  BY DEF MembershipAssumption
<1>2. Completed \in SUBSET (1..(LastDay \div QuarterDays))
  BY DEF Completed, Quarters
<1> QED BY <1>1, <1>2, BoundedMax

\* The membership of a day hangs on the rows of quarters that ended by then.
LEMMA MemberAtStable ==
  ASSUME MembershipAssumption, NEW d, DOMAIN universe \subseteq Quarters,
         {q \in DOMAIN universe' : AsOf(q) <= d} = {q \in DOMAIN universe : AsOf(q) <= d},
         \A q \in DOMAIN universe : AsOf(q) <= d => universe'[q] = universe[q]
  PROVE  MemberAt(d)' = MemberAt(d)
<1>1. RowsAt(d)' = {q \in DOMAIN universe' : universe'[q] # "skipped" /\ AsOf(q) <= d}
  BY DEF RowsAt, AsOf
<1>2. RowsAt(d)' = RowsAt(d)
  BY <1>1 DEF RowsAt
<1>3. MemberAt(d)' = IF RowsAt(d) = {} THEN "out" ELSE universe'[Max(RowsAt(d))]
  BY <1>2 DEF MemberAt
<1>4. CASE RowsAt(d) = {}
  BY <1>3, <1>4 DEF MemberAt
<1>5. CASE RowsAt(d) # {}
  <2>1. LastDay \div QuarterDays \in Int
    BY DEF MembershipAssumption
  <2>2. RowsAt(d) \in SUBSET (1..(LastDay \div QuarterDays))
    BY DEF RowsAt, Quarters
  <2>3. Max(RowsAt(d)) \in RowsAt(d)
    BY <1>5, <2>1, <2>2, BoundedMax
  <2>4. universe'[Max(RowsAt(d))] = universe[Max(RowsAt(d))]
    BY <2>3 DEF RowsAt
  <2> QED BY <1>3, <1>5, <2>4 DEF MemberAt
<1> QED BY <1>4, <1>5

-----------------------------------------------------------------------------
(* The steps.                                                              *)

\* A session's bar is of a quarter that no row speaks for yet.
LEMMA CloseKeeps ==
  ASSUME MembershipAssumption, MembershipInv, Close
  PROVE  MembershipInv'
<1>1. /\ today' = today + 1 /\ UNCHANGED <<universe, events, restamp, trust>>
      /\ \/ \E rating \in Ratings : bars' = Over([d \in {today} |-> rating], bars)
         \/ bars' = bars
  BY DEF Close
<1>2. /\ DOMAIN bars' \subseteq DOMAIN bars \cup {today} /\ DOMAIN bars \subseteq DOMAIN bars'
      /\ \A d \in DOMAIN bars : d # today => bars'[d] = bars[d]
  BY <1>1 DEF Over
<1>3. today \in Nat /\ today > 0 /\ \A d \in DOMAIN bars : d \in Nat /\ d > 0 /\ d < today
  BY DEF MembershipInv, TableTypes
<1>4. TableTypes'
  BY <1>1, <1>2, <1>3 DEF MembershipInv, TableTypes
<1>5. \A q : AsOf(q)' = AsOf(q)
  BY DEF AsOf
<1>6. Completed \subseteq Completed'
  <2>1. \A q \in Quarters : AsOf(q) \in Int
    BY DEF Quarters, AsOf, MembershipAssumption
  <2> QED BY <1>1, <1>3, <1>5, <2>1 DEF Completed
<1>7. ASSUME NEW q \in Completed PROVE Evaluated(q)' = Evaluated(q)
  <2>1. AsOf(q) < today /\ AsOf(q) \in Int
    BY <1>7 DEF Completed, Quarters, AsOf, MembershipAssumption
  <2>2. FreshBars(q)' = {d \in DOMAIN bars' : d <= AsOf(q) /\ d > AsOf(q) - QuarterDays}
    BY <1>5 DEF FreshBars
  <2>3. FreshBars(q)' = FreshBars(q)
    BY <1>2, <1>3, <2>1, <2>2 DEF FreshBars
  <2>4. \A d \in FreshBars(q) : bars'[d] = bars[d]
    BY <1>2, <1>3 DEF FreshBars
  <2>5. FreshBars(q) # {} => Max(FreshBars(q)) \in FreshBars(q)
    <3>1. FreshBars(q) \in SUBSET (1..(today - 1))
      BY DEF FreshBars, MembershipInv, TableTypes
    <3>2. today - 1 \in Int
      BY <1>3
    <3> QED BY <3>1, <3>2, BoundedMax
  <2> QED BY <2>3, <2>4, <2>5 DEF Evaluated
<1>8. \A d : MemberAt(d)' = MemberAt(d)
  <2>1. DOMAIN universe \subseteq Quarters
    BY DEF MembershipInv, TableTypes
  <2> QED BY <1>1, <2>1, MemberAtStable
<1>9. Settled'
  BY <1>1, <1>6, <1>7, <1>8 DEF MembershipInv, Settled
<1> QED BY <1>4, <1>9 DEF MembershipInv

\* Stamping writes what the rows say of each day, and the other events stay.
LEMMA StampingKeeps ==
  ASSUME MembershipAssumption, MembershipInv, NEW days, events' = Over(Stamped(days), events),
         UNCHANGED <<today, bars, universe>>, trust' \in {"sound", "mending", "broken"},
         \/ UNCHANGED restamp /\ trust' = trust
         \/ restamp' = {} /\ days = restamp /\ (trust = "broken" => trust' = "broken")
  PROVE  MembershipInv'
<1>1. /\ DOMAIN events' = (days \cap DOMAIN bars) \cup DOMAIN events
      /\ \A d \in DOMAIN events' :
           events'[d] = IF d \in days \cap DOMAIN bars THEN MemberAt(d) ELSE events[d]
  BY DEF Over, Stamped
<1>2. TableTypes'
  BY <1>1 DEF MembershipInv, TableTypes
<1>3. \A d : MemberAt(d)' = MemberAt(d)
  <2>1. DOMAIN universe \subseteq Quarters
    BY DEF MembershipInv, TableTypes
  <2> QED BY <2>1, MemberAtStable
<1>4. \A q : Evaluated(q)' = Evaluated(q)
  BY DEF Evaluated, FreshBars, AsOf
<1>5. Completed' = Completed
  BY DEF Completed, AsOf
<1>6. DOMAIN events \subseteq DOMAIN bars
  BY DEF MembershipInv, TableTypes
<1>7. ASSUME trust' # "broken", NEW d \in DOMAIN events' \ restamp'
      PROVE  events'[d] = MemberAt(d)
  BY <1>1, <1>6, <1>7 DEF MembershipInv, Settled
<1>8. Settled'
  BY <1>3, <1>4, <1>5, <1>7 DEF MembershipInv, Settled
<1> QED BY <1>2, <1>8 DEF MembershipInv

\* The monthly job's new row changes the membership of the days it writes again.
LEMMA MonthlyKeeps ==
  ASSUME MembershipAssumption, MembershipInv, Monthly
  PROVE  MembershipInv'
<1> DEFINE new == Max(Completed)
<1>1. /\ restamp = {} /\ Completed # {} /\ new \notin DOMAIN universe
      /\ universe' = Over(Verdicts({new}), universe)
      /\ restamp' = AsOf(new)..today
      /\ UNCHANGED <<today, bars, events, trust>>
  BY DEF Monthly
<1>2. new \in Completed /\ new \in Quarters
  BY <1>1, NewestIsCompleted DEF Completed
<1>3. AsOf(new) \in Int
  BY <1>2 DEF Quarters, AsOf, MembershipAssumption
<1> HIDE DEF new
<1>4. /\ DOMAIN universe' = {new} \cup DOMAIN universe
      /\ universe'[new] = Evaluated(new)
      /\ \A q \in DOMAIN universe : universe'[q] = universe[q]
  BY <1>1 DEF Over, Verdicts
<1>5. TableTypes'
  BY <1>1, <1>2, <1>4 DEF MembershipInv, TableTypes
<1>6. \A q : Evaluated(q)' = Evaluated(q)
  BY <1>1 DEF Evaluated, FreshBars, AsOf
<1>7. Completed' = Completed
  BY <1>1 DEF Completed, AsOf
<1>8. ASSUME NEW d \in DOMAIN events \ restamp' PROVE MemberAt(d)' = MemberAt(d)
  <2>1. d \in Nat /\ d < today /\ today \in Nat
    BY DEF MembershipInv, TableTypes
  <2>2. d < AsOf(new)
    BY <1>1, <1>3, <1>8, <2>1
  <2>3. {q \in DOMAIN universe' : AsOf(q) <= d} = {q \in DOMAIN universe : AsOf(q) <= d}
    BY <1>3, <1>4, <2>1, <2>2
  <2>4. DOMAIN universe \subseteq Quarters
    BY DEF MembershipInv, TableTypes
  <2> QED BY <1>4, <2>3, <2>4, MemberAtStable
<1>9. Settled'
  BY <1>1, <1>2, <1>4, <1>6, <1>7, <1>8 DEF MembershipInv, Settled
<1> QED BY <1>5, <1>9 DEF MembershipInv

\* add-ticker judges every quarter on file again, and has every event to write.
LEMMA AddTickerKeeps ==
  ASSUME MembershipInv, AddTicker
  PROVE  MembershipInv'
<1>1. /\ universe' = Verdicts(DOMAIN universe) /\ restamp' = 1..today
      /\ trust' = (IF trust = "broken" /\ DOMAIN universe \subseteq Completed THEN "mending" ELSE trust)
      /\ UNCHANGED <<today, bars, events>>
  BY DEF AddTicker
<1>2. DOMAIN universe' = DOMAIN universe /\ \A q \in DOMAIN universe : universe'[q] = Evaluated(q)
  BY <1>1 DEF Verdicts
<1>3. TableTypes'
  BY <1>1, <1>2 DEF MembershipInv, TableTypes
<1>4. \A q : Evaluated(q)' = Evaluated(q)
  BY <1>1 DEF Evaluated, FreshBars, AsOf
<1>5. Completed' = Completed
  BY <1>1 DEF Completed, AsOf
<1>6. trust' # "broken" => DOMAIN universe \subseteq Completed
  BY <1>1 DEF MembershipInv, Settled
<1>7. DOMAIN events \ restamp' = {}
  BY <1>1 DEF MembershipInv, TableTypes
<1>8. Settled'
  BY <1>1, <1>2, <1>4, <1>5, <1>6, <1>7 DEF Settled
<1> QED BY <1>3, <1>8 DEF MembershipInv

-----------------------------------------------------------------------------
(* The theorem.                                                            *)

LEMMA MembershipInit == Init => MembershipInv
<1> SUFFICES ASSUME Init PROVE MembershipInv
  OBVIOUS
<1>1. today = 1 /\ DOMAIN bars = {} /\ DOMAIN universe = {} /\ DOMAIN events = {} /\ trust = "sound"
  BY DEF Init
<1> QED BY <1>1 DEF MembershipInv, TableTypes, Settled

\* Every step of the session and of the four writers keeps the invariant.
LEMMA MembershipStep ==
  MembershipAssumption /\ MembershipInv /\ [Next]_vars => MembershipInv'
<1> SUFFICES ASSUME MembershipAssumption, MembershipInv, [Next]_vars PROVE MembershipInv'
  OBVIOUS
<1>1. CASE Close
  BY <1>1, CloseKeeps
<1>2. CASE Revise
  <2>1. /\ trust' = "broken" /\ UNCHANGED <<today, universe, events>>
        /\ DOMAIN bars' = DOMAIN bars
    BY <1>2 DEF Revise, Mishap
  <2> QED BY <2>1 DEF MembershipInv, TableTypes, Settled
<1>3. CASE Nightly
  <2>1. trust \in {"sound", "mending", "broken"}
    BY DEF MembershipInv, TableTypes
  <2> QED BY <1>3, <2>1, StampingKeeps DEF Nightly
<1>4. CASE Monthly
  BY <1>4, MonthlyKeeps
<1>5. CASE AddTicker
  BY <1>5, AddTickerKeeps
<1>6. CASE ByHand
  <2>1. /\ trust' = "broken" /\ UNCHANGED <<today, bars, events>>
        /\ \E q \in Quarters : DOMAIN universe' = {q} \cup DOMAIN universe
    BY <1>6 DEF ByHand, Mishap, Over, Verdicts
  <2> QED BY <2>1 DEF MembershipInv, TableTypes, Settled
<1>7. CASE Restamp
  <2>1. trust \in {"sound", "mending", "broken"}
    BY DEF MembershipInv, TableTypes
  <2>2. /\ events' = Over(Stamped(restamp), events) /\ restamp' = {}
        /\ UNCHANGED <<today, bars, universe>>
        /\ trust' \in {"sound", "mending", "broken"} /\ (trust = "broken" => trust' = "broken")
    BY <1>7, <2>1 DEF Restamp
  <2> QED BY <2>2, StampingKeeps
<1>8. CASE Kill
  <2>1. trust' = "broken" /\ UNCHANGED <<today, bars, universe, events>>
    BY <1>8 DEF Kill, Mishap
  <2> QED BY <2>1 DEF MembershipInv, TableTypes, Settled
<1>9. CASE UNCHANGED vars
  <2>1. /\ \A q : Evaluated(q)' = Evaluated(q)
        /\ \A d : MemberAt(d)' = MemberAt(d)
        /\ Completed' = Completed
    BY <1>9 DEF vars, Evaluated, FreshBars, AsOf, MemberAt, RowsAt, Completed
  <2> QED BY <1>9, <2>1 DEF vars, MembershipInv, TableTypes, Settled
<1> QED BY <1>1, <1>2, <1>3, <1>4, <1>5, <1>6, <1>7, <1>8, <1>9 DEF Next

\* In any order of the nightly, the monthly job and add-ticker, an event carries the
\* membership that the universe table gives its day, and each row of the table is the
\* verdict of its quarter's own last bar (run_universe, TickerMembership, run_events).
THEOREM EventsCarryMembership ==
  ASSUME MembershipAssumption
  PROVE  Spec => []MembershipIsCurrent
<1>1. Init => MembershipInv
  BY MembershipInit
<1>2. MembershipInv /\ [Next]_vars => MembershipInv'
  BY MembershipStep
<1>3. MembershipInv => MembershipIsCurrent
  <2> SUFFICES ASSUME MembershipInv, trust = "sound", restamp = {}
               PROVE  /\ \A d \in DOMAIN events : events[d] = MemberAt(d)
                      /\ \A q \in DOMAIN universe :
                           LET own == {d \in DOMAIN bars : (d - 1) \div QuarterDays + 1 = q}
                           IN universe[q] = IF own = {} THEN "skipped" ELSE bars[Max(own)]
    BY DEF MembershipIsCurrent
  <2>1. \A d \in DOMAIN events : events[d] = MemberAt(d)
    BY DEF MembershipInv, Settled
  <2>2. ASSUME NEW q \in DOMAIN universe
        PROVE  {d \in DOMAIN bars : (d - 1) \div QuarterDays + 1 = q} = FreshBars(q)
    <3>1. q \in Int /\ \A d \in DOMAIN bars : d \in Nat \ {0}
      BY DEF MembershipInv, TableTypes, Quarters
    <3>2. \A d \in DOMAIN bars :
            (d - 1) \div QuarterDays + 1 = q <=> d <= AsOf(q) /\ d > AsOf(q) - QuarterDays
      BY <3>1, OwnDays
    <3> QED BY <3>2 DEF FreshBars
  <2>3. \A q \in DOMAIN universe : universe[q] = Evaluated(q)
    BY DEF MembershipInv, Settled
  <2> QED BY <2>1, <2>2, <2>3 DEF Evaluated
<1> QED BY <1>1, <1>2, <1>3, PTL DEF Spec

-----------------------------------------------------------------------------
(* UniverseRules: the invariant.                                           *)

RulesTypes ==
  /\ now \in U!Days /\ listing \in U!Listings
  /\ splits \subseteq 1..(now - 1) /\ ledger \subseteq splits /\ applied \subseteq splits
  /\ DOMAIN filings \subseteq 1..(now - 1)
  /\ \A d \in DOMAIN filings : filings[d] \in {"sec", "yahoo"}
  /\ seen \in [q : Nat, close : Int, settled : BOOLEAN]
  /\ \A c \in U!Criteria : row.crit[c] \in U!Ternary

\* A close read while ledger and stored closes agree is the company's worth over every
\* split on file, and no split of a day that a filing may have counted is missing there.
SettledCloseIsWorth ==
  seen # U!Nothing =>
    /\ seen.q \in U!Quarters /\ U!AsOf(seen.q) <= now
    /\ seen.settled =>
         /\ ledger = applied
         /\ {s \in splits : s < U!AsOf(seen.q)} \subseteq ledger
         /\ seen.close = Worth - U!Cardinality(ledger)

RulesInv == RulesTypes /\ SettledCloseIsWorth /\ U!CapDoesNotMove /\ U!WatchIsOneStepAway

-----------------------------------------------------------------------------
(* UniverseRules: the operators.                                           *)

\* UniverseRules and this module count alike.
LEMMA SameCount == \A S : U!Cardinality(S) = Cardinality(S)
BY DEF U!Cardinality, Cardinality

\* A quarter ends on a day.
LEMMA QuarterEnds ==
  ASSUME U!UniverseAssumption, NEW q \in U!Quarters
  PROVE  U!AsOf(q) \in Nat
BY DEF U!UniverseAssumption, U!Quarters, U!AsOf

\* A set of days up to some day is parted in two by any day.
LEMMA PartedByDay ==
  ASSUME NEW n \in Nat, NEW S \in SUBSET (1..n), NEW d \in Nat
  PROVE  /\ U!Cardinality({s \in S : s <= d}) \in Nat /\ U!After(S, d) \in Nat /\ U!Cardinality(S) \in Nat
         /\ U!Cardinality({s \in S : s <= d}) + U!After(S, d) = U!Cardinality(S)
<1> DEFINE early == {s \in S : s <= d}
           late  == {s \in S : s > d}
<1>1. IsFiniteSet(S)
  <2>1. IsFiniteSet(1..n) /\ S \subseteq 1..n
    BY FS_Interval
  <2> QED BY <2>1, FS_Subset
<1>2. IsFiniteSet(early) /\ IsFiniteSet(late)
  BY <1>1, FS_Subset
<1>3. early \cup late = S /\ early \cap late = {}
  <2>1. \A s \in S : (s <= d \/ s > d) /\ ~(s <= d /\ s > d)
    OBVIOUS
  <2> QED BY <2>1
<1> HIDE DEF early, late
<1>4. /\ Cardinality(early \cup late) = Cardinality(early) + Cardinality(late) - Cardinality(early \cap late)
      /\ Cardinality(early) \in Nat /\ Cardinality(late) \in Nat /\ Cardinality(S) \in Nat
  BY <1>1, <1>2, FS_Union, FS_CardinalityType
<1>5. Cardinality(early \cap late) = 0
  BY <1>3, FS_EmptySet
<1>6. Cardinality(early) + Cardinality(late) = Cardinality(S)
  <2>1. Cardinality(S) = Cardinality(early) + Cardinality(late) - 0
    BY <1>3, <1>4, <1>5
  <2> QED BY <1>4, <2>1
<1> QED BY <1>4, <1>6, SameCount DEF U!After, early, late

\* The latest of some days is one of them.
LEMMA LatestDay ==
  ASSUME NEW n \in Nat, NEW S \in SUBSET (1..n), S # {}
  PROVE  U!Max(S) \in S
<1>1. Max(S) \in S
  BY BoundedMax
<1> QED BY <1>1 DEF U!Max, Max

\* A verdict has no criterion but a ternary one.
LEMMA MedianIsTernary ==
  ASSUME NEW rel \in U!Rels
  PROVE  rel.beats \in U!Ternary
<1>1. PICK r \in U!AllReturns : rel = [beats |-> U!BeatsMedian(r, Own), long |-> r[Own] # U!None]
  BY DEF U!Rels
<1>2. U!BeatsMedian(r, Own) \in U!Ternary
  BY Zenon DEF U!BeatsMedian, U!Ternary
<1> QED BY <1>1, <1>2

-----------------------------------------------------------------------------
(* UniverseRules: the steps.                                               *)

LEMMA NoRowIsFair ==
  /\ \A c \in U!Criteria : U!NoRow.crit[c] \in U!Ternary
  /\ U!NoRow.cap = U!None /\ U!NoRow.watch = "no"
BY DEF U!NoRow, U!Ternary

LEMMA RulesInit == U!UniverseAssumption /\ U!Init => RulesInv
<1> SUFFICES ASSUME U!UniverseAssumption, U!Init PROVE RulesInv
  OBVIOUS
<1>1. RulesTypes
  <2>1. DOMAIN filings = {}
    BY DEF U!Init
  <2>2. seen \in [q : Nat, close : Int, settled : BOOLEAN] /\ now \in U!Days
    BY DEF U!Init, U!Nothing, U!Days, U!UniverseAssumption
  <2>3. \A c \in U!Criteria : row.crit[c] \in U!Ternary
    BY NoRowIsFair DEF U!Init
  <2> QED BY <2>1, <2>2, <2>3 DEF U!Init, RulesTypes
<1> QED BY <1>1, NoRowIsFair DEF U!Init, RulesInv, SettledCloseIsWorth, U!CapDoesNotMove, U!WatchIsOneStepAway

\* A day takes nothing from what was read, for it is no day of that quarter.
LEMMA DayKeeps == U!UniverseAssumption /\ RulesInv /\ U!Day => RulesInv'
<1> SUFFICES ASSUME U!UniverseAssumption, RulesInv, U!Day PROVE RulesInv'
  OBVIOUS
<1>1. PICK split \in BOOLEAN, source \in {"sec", "yahoo", "none"} :
        /\ now < LastDay /\ now' = now + 1
        /\ splits' = IF split THEN splits \cup {now} ELSE splits
        /\ filings' = IF source = "none" THEN filings
                      ELSE [d \in DOMAIN filings \cup {now} |-> IF d = now THEN source ELSE filings[d]]
        /\ row' = U!NoRow
        /\ UNCHANGED <<listing, ledger, applied, seen>>
  BY DEF U!Day
<1>2. RulesTypes /\ SettledCloseIsWorth
  BY DEF RulesInv
<1>3. now \in Nat /\ now + 1 \in U!Days /\ 1..(now - 1) \subseteq 1..now /\ now \in 1..now
  BY <1>1, <1>2 DEF RulesTypes, U!Days, U!UniverseAssumption
<1>4. splits \subseteq splits' /\ splits' \subseteq splits \cup {now}
  BY <1>1
<1>5. /\ DOMAIN filings' \subseteq DOMAIN filings \cup {now}
      /\ \A d \in DOMAIN filings' : filings'[d] \in {"sec", "yahoo"}
  <2>1. CASE source = "none"
    BY <1>1, <1>2, <2>1 DEF RulesTypes
  <2>2. CASE source # "none"
    BY <1>1, <1>2, <2>2 DEF RulesTypes
  <2> QED BY <2>1, <2>2
<1>6. RulesTypes'
  <2>1. splits' \subseteq 1..(now' - 1) /\ DOMAIN filings' \subseteq 1..(now' - 1)
    <3>1. now' - 1 = now
      BY <1>1, <1>3
    <3> QED BY <1>2, <1>3, <1>4, <1>5, <3>1 DEF RulesTypes
  <2>2. ledger' \subseteq splits' /\ applied' \subseteq splits'
    BY <1>1, <1>2, <1>4 DEF RulesTypes
  <2>3. \A c \in U!Criteria : row'.crit[c] \in U!Ternary
    BY <1>1, NoRowIsFair
  <2> QED BY <1>1, <1>2, <1>3, <1>5, <2>1, <2>2, <2>3 DEF RulesTypes
<1>7. SettledCloseIsWorth'
  <2> SUFFICES ASSUME seen # U!Nothing
               PROVE  /\ seen.q \in U!Quarters /\ U!AsOf(seen.q) <= now + 1
                      /\ seen.settled => /\ ledger = applied
                                         /\ {s \in splits' : s < U!AsOf(seen.q)} \subseteq ledger
                                         /\ seen.close = Worth - U!Cardinality(ledger)
    BY <1>1 DEF SettledCloseIsWorth
  <2>1. seen.q \in U!Quarters /\ U!AsOf(seen.q) <= now /\ U!AsOf(seen.q) \in Nat
    BY <1>2, QuarterEnds DEF SettledCloseIsWorth
  <2>2. U!AsOf(seen.q) <= now + 1 /\ ~(now < U!AsOf(seen.q))
    BY <1>3, <2>1
  <2>3. {s \in splits' : s < U!AsOf(seen.q)} \subseteq {s \in splits : s < U!AsOf(seen.q)}
    BY <1>4, <2>2
  <2> QED BY <1>2, <2>1, <2>2, <2>3 DEF SettledCloseIsWorth
<1> QED BY <1>1, <1>6, <1>7, NoRowIsFair DEF RulesInv, U!CapDoesNotMove, U!WatchIsOneStepAway

\* A split that is recorded or applied in between makes what was read unsettled.
LEMMA ActionsKeep == RulesInv /\ (U!Record \/ U!Restate) => RulesInv'
<1> SUFFICES ASSUME RulesInv, U!Record \/ U!Restate PROVE RulesInv'
  OBVIOUS
<1>1. /\ UNCHANGED <<now, listing, splits, filings>> /\ row' = U!NoRow
      /\ seen' = [seen EXCEPT !.settled = FALSE]
      /\ ledger' \subseteq splits /\ applied' \subseteq splits
  BY DEF RulesInv, RulesTypes, U!Record, U!Restate
<1>2. RulesTypes'
  BY <1>1, NoRowIsFair DEF RulesInv, RulesTypes
<1>3. SettledCloseIsWorth'
  <2>1. CASE seen = U!Nothing
    <3>1. seen' = U!Nothing
      BY <1>1, <2>1 DEF U!Nothing
    <3> QED BY <3>1 DEF SettledCloseIsWorth
  <2>2. CASE seen # U!Nothing
    BY <1>1, <2>2 DEF RulesInv, SettledCloseIsWorth
  <2> QED BY <2>1, <2>2
<1> QED BY <1>1, <1>2, <1>3, NoRowIsFair DEF RulesInv, U!CapDoesNotMove, U!WatchIsOneStepAway

\* A close that is read is the market's, restated; settled, it lacks every split on file.
LEMMA LookKeeps == U!UniverseAssumption /\ RulesInv /\ U!Look => RulesInv'
<1> SUFFICES ASSUME U!UniverseAssumption, RulesInv, U!Look PROVE RulesInv'
  OBVIOUS
<1>1. PICK q \in U!Quarters :
        /\ U!AsOf(q) <= now
        /\ seen' = [q |-> q, close |-> U!StoredClose(U!LastBar(q)),
                    settled |-> ledger = applied /\ {s \in splits : s <= U!LastBar(q)} \subseteq ledger]
        /\ row' = U!NoRow
        /\ UNCHANGED <<now, listing, splits, ledger, applied, filings>>
  BY DEF U!Look
<1>2. /\ now \in Nat /\ splits \in SUBSET (1..(now - 1)) /\ applied \in SUBSET (1..(now - 1))
      /\ now - 1 \in Nat /\ U!AsOf(q) \in Nat /\ q \in Nat /\ Worth \in Nat
      /\ ledger \subseteq splits /\ applied \subseteq splits
  BY <1>1, QuarterEnds DEF RulesInv, RulesTypes, U!Days, U!Quarters, U!UniverseAssumption
<1>3. U!LastBar(q) \in Nat /\ \A s \in Nat : s < U!AsOf(q) => s <= U!LastBar(q)
  BY <1>1, <1>2 DEF U!LastBar
<1>4. /\ U!Cardinality({s \in splits : s <= U!LastBar(q)}) \in Nat
      /\ U!Cardinality({s \in applied : s <= U!LastBar(q)}) \in Nat
      /\ U!After(applied, U!LastBar(q)) \in Nat /\ U!Cardinality(applied) \in Nat
      /\ U!Cardinality({s \in applied : s <= U!LastBar(q)}) + U!After(applied, U!LastBar(q)) = U!Cardinality(applied)
  BY <1>2, <1>3, PartedByDay
<1>5. U!StoredClose(U!LastBar(q)) \in Int
  BY <1>2, <1>4 DEF U!StoredClose
<1>6. RulesTypes'
  BY <1>1, <1>2, <1>5, NoRowIsFair DEF RulesInv, RulesTypes
<1>7. SettledCloseIsWorth'
  <2>1. seen'.q = q /\ U!AsOf(q) <= now'
    BY <1>1
  <2>2. ASSUME seen'.settled
        PROVE  /\ ledger = applied /\ {s \in splits : s < U!AsOf(q)} \subseteq ledger
               /\ seen'.close = Worth - U!Cardinality(ledger)
    <3>1. ledger = applied /\ {s \in splits : s <= U!LastBar(q)} \subseteq ledger
      BY <1>1, <2>2
    <3>2. {s \in splits : s < U!AsOf(q)} \subseteq ledger
      <4> SUFFICES ASSUME NEW s \in splits, s < U!AsOf(q) PROVE s \in ledger
        OBVIOUS
      <4>1. s \in Nat
        BY <1>2
      <4> QED BY <1>3, <3>1, <4>1
    <3>3. {s \in splits : s <= U!LastBar(q)} = {s \in applied : s <= U!LastBar(q)}
      BY <1>2, <3>1
    <3>4. seen'.close = Worth - U!Cardinality({s \in splits : s <= U!LastBar(q)}) - U!After(applied, U!LastBar(q))
      BY <1>1 DEF U!StoredClose
    <3>5. seen'.close = Worth - U!Cardinality(applied)
      <4>1. seen'.close = Worth - U!Cardinality({s \in applied : s <= U!LastBar(q)}) - U!After(applied, U!LastBar(q))
        BY <3>3, <3>4
      <4> QED BY <1>2, <1>4, <4>1
    <3> QED BY <3>1, <3>2, <3>5
  <2> QED BY <1>1, <2>1, <2>2 DEF SettledCloseIsWorth
<1> QED BY <1>1, <1>6, <1>7, NoRowIsFair DEF RulesInv, U!CapDoesNotMove, U!WatchIsOneStepAway

\* The cap of a settled close is the company's worth, whichever filing counts.
LEMMA CapIsWorth ==
  ASSUME U!UniverseAssumption, RulesInv, seen # U!Nothing, seen.settled, listing # "mapped",
         U!Cap(seen.q, seen.close) # U!None
  PROVE  U!Cap(seen.q, seen.close) = Worth
<1> DEFINE q == seen.q
           d == U!Max(U!Eligible(q))
           cap == U!Count(d) - (IF listing = "mapped" THEN Receipt ELSE 0) + U!SplitsSince(d, q) + seen.close
<1>1. U!Eligible(q) # {} /\ U!Cap(q, seen.close) = cap
  BY DEF U!Cap
<1>2. /\ q \in U!Quarters /\ U!AsOf(q) \in Nat /\ U!AsOf(q) <= now /\ now \in Nat /\ now - 1 \in Nat
      /\ ledger \subseteq splits /\ ledger \in SUBSET (1..(now - 1)) /\ splits \in SUBSET (1..(now - 1))
      /\ DOMAIN filings \subseteq 1..(now - 1) /\ \A x \in DOMAIN filings : filings[x] \in {"sec", "yahoo"}
      /\ Worth \in Nat
  BY QuarterEnds DEF RulesInv, RulesTypes, SettledCloseIsWorth, U!Days, U!UniverseAssumption
<1>3. U!Eligible(q) \in SUBSET (1..(now - 1))
  BY <1>2 DEF U!Eligible
<1>4. d \in U!Eligible(q)
  BY <1>1, <1>2, <1>3, LatestDay
<1> HIDE DEF d
<1>5. d \in Nat /\ d < U!AsOf(q) /\ d \in DOMAIN filings /\ (listing = "depositary" => filings[d] = "yahoo")
  BY <1>2, <1>4 DEF U!Eligible
<1>6. {s \in splits : s <= d} = {s \in ledger : s <= d}
  <2>1. {s \in splits : s < U!AsOf(q)} \subseteq ledger
    BY DEF RulesInv, SettledCloseIsWorth
  <2>2. \A s \in splits : s <= d => s < U!AsOf(q)
    BY <1>2, <1>5
  <2> QED BY <1>2, <2>1, <2>2
<1>7. U!Count(d) = U!Cardinality({s \in ledger : s <= d})
  <2>1. ~(filings[d] = "sec" /\ listing \in {"depositary", "mapped"})
    BY <1>5
  <2>2. U!Count(d) = U!Cardinality({s \in ledger : s <= d}) + 0
    BY <1>6, <2>1 DEF U!Count
  <2>3. U!Cardinality({s \in ledger : s <= d}) \in Nat
    BY <1>2, <1>5, PartedByDay
  <2> QED BY <2>2, <2>3
<1>8. U!SplitsSince(d, q) = U!After(ledger, d) /\ seen.close = Worth - U!Cardinality(ledger)
  BY DEF U!SplitsSince, RulesInv, SettledCloseIsWorth
<1>9. /\ U!Cardinality({s \in ledger : s <= d}) \in Nat
      /\ U!After(ledger, d) \in Nat /\ U!Cardinality(ledger) \in Nat
      /\ U!Cardinality({s \in ledger : s <= d}) + U!After(ledger, d) = U!Cardinality(ledger)
  BY <1>2, <1>5, PartedByDay
<1>10. cap = U!Cardinality({s \in ledger : s <= d}) - 0 + U!After(ledger, d) + (Worth - U!Cardinality(ledger))
  BY <1>7, <1>8
<1> HIDE DEF cap
<1>11. cap = Worth
  BY <1>2, <1>9, <1>10
<1> QED BY <1>1, <1>11

LEMMA JudgeKeeps == U!UniverseAssumption /\ RulesInv /\ U!Judge => RulesInv'
<1> SUFFICES ASSUME U!UniverseAssumption, RulesInv, U!Judge PROVE RulesInv'
  OBVIOUS
<1> DEFINE cap == U!Cap(seen.q, seen.close)
<1>1. PICK above \in U!Ternary, slope \in U!Ternary, rel \in U!Rels :
        LET crit == [mcap |-> IF cap = U!None THEN U!Unknown ELSE IF cap >= Floor THEN "true" ELSE "false",
                    above |-> above, slope |-> slope, rel |-> rel.beats]
            trade == U!Trades(crit)
        IN row' = [cap |-> cap, settled |-> seen.settled, crit |-> crit, long |-> rel.long,
                  trade |-> trade, watch |-> IF trade THEN "no" ELSE U!WatchReason(crit, rel.long)]
  BY DEF U!Judge
<1>2. seen # U!Nothing /\ seen' = U!Nothing /\ UNCHANGED <<now, listing, splits, ledger, applied, filings>>
  BY DEF U!Judge
<1> DEFINE size == IF cap = U!None THEN U!Unknown ELSE IF cap >= Floor THEN "true" ELSE "false"
           crit == [mcap |-> size, above |-> above, slope |-> slope, rel |-> rel.beats]
<1>3. row' = [cap |-> cap, settled |-> seen.settled, crit |-> crit, long |-> rel.long,
              trade |-> U!Trades(crit),
              watch |-> IF U!Trades(crit) THEN "no" ELSE U!WatchReason(crit, rel.long)]
  BY <1>1
<1>4. \A c \in U!Criteria : crit[c] \in U!Ternary
  <2>1. size \in U!Ternary
    BY DEF U!Ternary
  <2>2. rel.beats \in U!Ternary
    BY MedianIsTernary
  <2> HIDE DEF size
  <2> QED BY <2>1, <2>2 DEF U!Criteria
<1>5. row'.crit = crit /\ row'.cap = cap /\ row'.settled = seen.settled /\ row'.long = rel.long
      /\ row'.trade = U!Trades(crit)
      /\ row'.watch = (IF U!Trades(crit) THEN "no" ELSE U!WatchReason(crit, rel.long))
  BY <1>3
<1>6. U!CapDoesNotMove'
  BY <1>2, <1>5, CapIsWorth DEF U!CapDoesNotMove
<1> HIDE DEF cap, crit
<1>7. RulesTypes'
  <2>1. U!Nothing \in [q : Nat, close : Int, settled : BOOLEAN]
    BY DEF U!Nothing
  <2> QED BY <1>2, <1>4, <1>5, <2>1 DEF RulesInv, RulesTypes
<1>8. U!WatchIsOneStepAway'
  <2> SUFFICES ASSUME row'.watch # "no"
               PROVE  LET named == IF row'.watch = "pullback" THEN "above" ELSE "rel"
                      IN /\ ~row'.trade /\ listing # "fund" /\ row'.crit[named] # "true"
                         /\ \A c \in U!Criteria \ {named} : row'.crit[c] = "true"
                         /\ row'.watch = "history" => ~row'.long
    BY <1>2 DEF U!WatchIsOneStepAway
  <2>1. ~U!Trades(crit) /\ row'.watch = U!WatchReason(crit, rel.long)
    BY <1>5
  <2>2. listing # "fund" /\ \E c \in U!Criteria : crit[c] # "true"
    BY <2>1 DEF U!Trades
  <2>3. crit.mcap = "true" /\ crit.slope = "true"
    BY <2>1 DEF U!WatchReason
  <2>4. CASE crit.above = "true" /\ crit.rel = U!Unknown /\ ~rel.long
    BY <1>5, <2>1, <2>2, <2>3, <2>4 DEF U!WatchReason, U!Criteria, U!Unknown
  <2>5. CASE ~(crit.above = "true" /\ crit.rel = U!Unknown /\ ~rel.long) /\ crit.above = "false" /\ crit.rel = "true"
    BY <1>5, <2>1, <2>2, <2>3, <2>5 DEF U!WatchReason, U!Criteria
  <2>6. CASE /\ ~(crit.above = "true" /\ crit.rel = U!Unknown /\ ~rel.long)
             /\ ~(crit.above = "false" /\ crit.rel = "true")
    <3>1. crit.above = "true" /\ crit.rel # "true" /\ row'.watch = "near_trade"
      BY <2>1, <2>3, <2>6 DEF U!WatchReason
    <3> QED BY <1>5, <2>1, <2>2, <2>3, <3>1 DEF U!Criteria
  <2> QED BY <2>4, <2>5, <2>6
<1> QED BY <1>2, <1>6, <1>7, <1>8 DEF RulesInv, SettledCloseIsWorth

LEMMA RulesInvariant == U!UniverseAssumption /\ U!Spec => []RulesInv
<1> SUFFICES ASSUME U!UniverseAssumption PROVE U!Spec => []RulesInv
  OBVIOUS
<1>1. U!Init => RulesInv
  BY RulesInit
<1>2. RulesInv /\ [U!Next]_(U!vars) => RulesInv'
  <2>1. CASE UNCHANGED U!vars
    BY <2>1 DEF U!vars, RulesInv, RulesTypes, SettledCloseIsWorth, U!CapDoesNotMove, U!WatchIsOneStepAway
  <2> QED BY <2>1, DayKeeps, ActionsKeep, LookKeeps, JudgeKeeps DEF U!Next
<1> QED BY <1>1, <1>2, PTL DEF U!Spec

\* Whatever splits came before or after the filing and the quarter, in whatever order
\* ledger and closes learnt of them, a quarter evaluated while these agree prices the
\* company at its worth; and a watched name is one criterion away from trading, never
\* size or slope (split_adjusted_shares, adr_adjusted_shares, watch_reason).
THEOREM VerdictsDoNotHangOnSplits ==
  ASSUME U!UniverseAssumption
  PROVE  U!Spec => [](U!TypeOK /\ U!CapDoesNotMove /\ U!WatchIsOneStepAway)
<1>1. RulesInv => U!TypeOK /\ U!CapDoesNotMove /\ U!WatchIsOneStepAway
  BY DEF RulesInv, RulesTypes, U!TypeOK
<1> QED BY <1>1, RulesInvariant, PTL
-----------------------------------------------------------------------------
(* EventRows: the heads of the clusters.                                   *)

\* What holds of no first day holds of no day.
LEMMA NoFirstDay ==
  ASSUME NEW Bad \in SUBSET Nat, \A n \in Bad : \E m \in Bad : m < n
  PROVE  Bad = {}
<1> SUFFICES ASSUME Bad # {} PROVE FALSE
  OBVIOUS
<1>1. PICK n \in Bad : \A m \in Bad : ~ (<<m, n>> \in OpToRel(<, Nat))
  BY WFMin, NatLessThanWellFounded
<1>2. PICK m \in Bad : m < n
  OBVIOUS
<1> QED BY <1>1, <1>2 DEF OpToRel

LEMMA SameLibrary ==
  ASSUME NEW S
  PROVE  E!Cardinality(S) = Cardinality(S) /\ E!Min(S) = Min(S) /\ E!Max(S) = Max(S)
BY DEF E!Cardinality, Cardinality, E!Min, Min, E!Max, Max

LEMMA BetweenFacts ==
  ASSUME NEW on \in SUBSET (1..LastDay), LastDay \in Nat, NEW from \in Int, NEW to \in Int
  PROVE  /\ E!BarsBetween(on, from, to) \in Nat
         /\ \A f \in Int : from <= f => E!BarsBetween(on, f, to) <= E!BarsBetween(on, from, to)
<1>1. IsFiniteSet(on)
  <2>1. IsFiniteSet(1..LastDay)
    BY FS_Interval
  <2> QED BY <2>1, FS_Subset
<1>2. ASSUME NEW f \in Int
      PROVE  /\ IsFiniteSet({d \in on : f < d /\ d <= to}) /\ E!BarsBetween(on, f, to) \in Nat
             /\ E!BarsBetween(on, f, to) = Cardinality({d \in on : f < d /\ d <= to})
  <2> DEFINE S == {d \in on : f < d /\ d <= to}
  <2>1. S \subseteq on
    OBVIOUS
  <2>2. E!BarsBetween(on, f, to) = E!Cardinality(S)
    BY DEF E!BarsBetween
  <2> HIDE DEF S
  <2>3. IsFiniteSet(S) /\ Cardinality(S) \in Nat /\ E!Cardinality(S) = Cardinality(S)
    BY <1>1, <2>1, FS_Subset, FS_CardinalityType, SameLibrary
  <2> QED BY <2>2, <2>3 DEF S
<1>3. ASSUME NEW f \in Int, from <= f
      PROVE  E!BarsBetween(on, f, to) <= E!BarsBetween(on, from, to)
  <2> DEFINE S == {d \in on : f < d /\ d <= to}
             T == {d \in on : from < d /\ d <= to}
  <2>1. S \subseteq T
    <3> SUFFICES ASSUME NEW d \in S PROVE d \in T
      OBVIOUS
    <3>1. d \in Int /\ d \in on /\ f < d /\ d <= to
      OBVIOUS
    <3> QED BY <1>3, <3>1
  <2>2. IsFiniteSet(T) /\ E!BarsBetween(on, f, to) = Cardinality(S) /\ E!BarsBetween(on, from, to) = Cardinality(T)
    BY <1>2
  <2> HIDE DEF S, T
  <2>3. Cardinality(S) <= Cardinality(T)
    BY <2>1, <2>2, FS_Subset
  <2> QED BY <2>2, <2>3
<1> QED BY <1>2, <1>3

\* One day's step of tag_clusters.
HeadOf(on, signals, before, d) ==
  IF d \notin signals THEN before
  ELSE IF before # E!Null /\ E!BarsBetween(on, before, d) <= MaxHold THEN before ELSE d

IsHeads(on, signals, h, n) ==
  /\ h \in [0..n -> 0..n] /\ h[0] = 0
  /\ \A d \in 1..n : h[d] = HeadOf(on, signals, h[d - 1], d) /\ h[d] <= d

\* The fold of tag_clusters can be carried through to any day.
LEMMA HeadsExist ==
  ASSUME LastDay \in Nat, NEW on, NEW signals
  PROVE  \E h : IsHeads(on, signals, h, LastDay)
<1> DEFINE Bad == {n \in 0..LastDay : ~ \E h : IsHeads(on, signals, h, n)}
<1>1. ASSUME NEW n \in Bad PROVE \E m \in Bad : m < n
  <2>1. n # 0
    <3>1. IsHeads(on, signals, [d \in 0..0 |-> 0], 0)
      BY DEF IsHeads
    <3> QED BY <3>1
  <2>2. n - 1 \in 0..LastDay /\ n - 1 < n /\ n \in Nat /\ n - 1 \in Nat
    BY <2>1
  <2>3. ASSUME NEW h, IsHeads(on, signals, h, n - 1) PROVE \E g : IsHeads(on, signals, g, n)
    <3> DEFINE last == HeadOf(on, signals, h[n - 1], n)
               g == [d \in 0..n |-> IF d = n THEN last ELSE h[d]]
    <3>1. h \in [0..(n - 1) -> 0..(n - 1)] /\ h[0] = 0
          /\ \A d \in 1..(n - 1) : h[d] = HeadOf(on, signals, h[d - 1], d) /\ h[d] <= d
      BY <2>3 DEF IsHeads
    <3>2. h[n - 1] \in 0..n /\ last \in 0..n
      BY <2>2, <3>1 DEF HeadOf
    <3>3. \A d \in 0..(n - 1) : h[d] \in 0..n /\ d # n /\ d \in 0..n
      BY <2>2, <3>1
    <3> HIDE DEF last
    <3>4. g \in [0..n -> 0..n] /\ g[n] = last /\ \A d \in 0..(n - 1) : g[d] = h[d]
      BY <2>2, <3>2, <3>3
    <3> HIDE DEF g
    <3>5. g[0] = 0
      BY <2>2, <3>1, <3>4
    <3>6. ASSUME NEW d \in 1..n PROVE g[d] = HeadOf(on, signals, g[d - 1], d) /\ g[d] <= d
      <4>1. d - 1 \in 0..(n - 1) /\ g[d - 1] = h[d - 1]
        BY <2>2, <3>4
      <4>2. CASE d = n
        BY <2>2, <3>2, <3>4, <4>1, <4>2 DEF last
      <4>3. CASE d # n
        <5>1. d \in 1..(n - 1) /\ d \in 0..(n - 1)
          BY <2>2, <4>3
        <5> QED BY <3>1, <3>4, <4>1, <5>1
      <4> QED BY <4>2, <4>3
    <3> QED BY <3>4, <3>5, <3>6 DEF IsHeads
  <2>4. n - 1 \in Bad
    BY <2>2, <2>3
  <2> QED BY <2>2, <2>4
<1>2. Bad \in SUBSET Nat
  OBVIOUS
<1>3. Bad = {}
  <2> HIDE DEF Bad
  <2> QED BY <1>1, <1>2, NoFirstDay
<1> QED BY <1>3

\* So the function tag_clusters computes is such a fold.
LEMMA HeadsAre ==
  ASSUME LastDay \in Nat, NEW on, NEW signals
  PROVE  \E h : /\ IsHeads(on, signals, h, LastDay)
                /\ E!Heads(on, signals) = [d \in signals |-> h[d]]
<1> DEFINE Step(head) ==
             [d \in 0..LastDay |->
                IF d = 0 THEN E!Null
                ELSE IF d \notin signals THEN head[d - 1]
                ELSE IF head[d - 1] # E!Null /\ E!BarsBetween(on, head[d - 1], d) <= MaxHold
                       THEN head[d - 1] ELSE d]
           h == CHOOSE f : f = Step(f)
<1>1. E!Heads(on, signals) = [d \in signals |-> h[d]]
  BY DEF E!Heads
<1>2. \E f : f = Step(f)
  <2>1. PICK f : IsHeads(on, signals, f, LastDay)
    BY HeadsExist
  <2>2. f \in [0..LastDay -> 0..LastDay] /\ f[0] = 0
        /\ \A d \in 1..LastDay : f[d] = HeadOf(on, signals, f[d - 1], d)
    BY <2>1 DEF IsHeads
  <2>3. \A d \in 0..LastDay : f[d] = Step(f)[d]
    <3> TAKE d \in 0..LastDay
    <3>1. CASE d = 0
      BY <2>2, <3>1 DEF E!Null
    <3>2. CASE d # 0
      <4>1. d \in 1..LastDay
        BY <3>2
      <4> QED BY <2>2, <3>2, <4>1 DEF HeadOf
    <3> QED BY <3>1, <3>2
  <2>4. DOMAIN f = 0..LastDay /\ f = [d \in 0..LastDay |-> f[d]]
    BY <2>2
  <2>5. f = Step(f)
    BY <2>3, <2>4
  <2> QED BY <2>5
<1>3. h = Step(h)
  <2> HIDE DEF Step
  <2> QED BY <1>2
<1> HIDE DEF h
<1>4. /\ DOMAIN h = 0..LastDay /\ h = [d \in 0..LastDay |-> h[d]] /\ h[0] = 0
      /\ \A d \in 1..LastDay : h[d] = HeadOf(on, signals, h[d - 1], d)
  <2>1. DOMAIN h = 0..LastDay /\ h = [d \in 0..LastDay |-> h[d]]
    BY <1>3
  <2>2. h[0] = 0
    BY <1>3 DEF E!Null
  <2>3. ASSUME NEW d \in 1..LastDay PROVE h[d] = HeadOf(on, signals, h[d - 1], d)
    <3>1. d \in 0..LastDay /\ d # 0
      OBVIOUS
    <3>2. h[d] = Step(h)[d]
      BY <1>3
    <3> QED BY <3>1, <3>2 DEF HeadOf
  <2> QED BY <2>1, <2>2, <2>3
<1> DEFINE Bad == {d \in 0..LastDay : ~(h[d] \in 0..LastDay /\ h[d] <= d)}
<1>5. Bad = {}
  <2>1. ASSUME NEW d \in Bad PROVE \E c \in Bad : c < d
    <3>1. d # 0
      BY <1>4
    <3>2. d \in 1..LastDay /\ d - 1 \in 0..LastDay /\ d - 1 < d
      BY <3>1
    <3>3. h[d] = h[d - 1] \/ h[d] = d
      BY <1>4, <3>2 DEF HeadOf
    <3>4. d - 1 \in Bad
      BY <3>2, <3>3
    <3> QED BY <3>2, <3>4
  <2>2. Bad \in SUBSET Nat
    OBVIOUS
  <2> HIDE DEF Bad
  <2> QED BY <2>1, <2>2, NoFirstDay
<1>6. IsHeads(on, signals, h, LastDay)
  <2>1. \A d \in 0..LastDay : h[d] \in 0..LastDay /\ h[d] <= d
    BY <1>5
  <2>2. h \in [0..LastDay -> 0..LastDay]
    BY <1>4, <2>1
  <2>3. \A d \in 1..LastDay : h[d] <= d
    BY <2>1
  <2> QED BY <1>4, <2>2, <2>3 DEF IsHeads
<1> QED BY <1>1, <1>6

\* The days that head a cluster.
TrueHeads(on, signals) == {d \in signals : E!Heads(on, signals)[d] = d}

\* A fold never goes back, and keeps to the last day it headed.
LEMMA LastHead ==
  ASSUME LastDay \in Nat, NEW on, NEW signals, NEW h, IsHeads(on, signals, h, LastDay),
         NEW c \in 1..LastDay, h[c] = c
  PROVE  \A d \in c..LastDay : c <= h[d] /\ h[d] <= d
<1>1. /\ h \in [0..LastDay -> 0..LastDay]
      /\ \A d \in 1..LastDay : h[d] = HeadOf(on, signals, h[d - 1], d) /\ h[d] <= d
  BY DEF IsHeads
<1> DEFINE Bad == {d \in c..LastDay : ~(c <= h[d])}
<1>2. Bad = {}
  <2>1. ASSUME NEW d \in Bad PROVE \E e \in Bad : e < d
    <3>1. d # c /\ d \in 1..LastDay /\ d - 1 \in c..LastDay /\ d - 1 \in 0..LastDay /\ d - 1 < d
      OBVIOUS
    <3>2. h[d] = h[d - 1] \/ h[d] = d
      BY <1>1, <3>1 DEF HeadOf
    <3>3. h[d] \in Int /\ h[d - 1] \in Int
      BY <1>1, <3>1
    <3>4. d - 1 \in Bad
      BY <3>1, <3>2, <3>3
    <3> QED BY <3>1, <3>4
  <2>2. Bad \in SUBSET Nat
    OBVIOUS
  <2> HIDE DEF Bad
  <2> QED BY <2>1, <2>2, NoFirstDay
<1>3. ASSUME NEW d \in c..LastDay PROVE c <= h[d] /\ h[d] <= d
  <2>1. d \in 1..LastDay /\ d \notin Bad
    BY <1>2
  <2> QED BY <1>1, <2>1
<1> QED BY <1>3

\* Two heads are more than MaxHold bars apart.
LEMMA HeadsApart ==
  ASSUME LastDay \in Nat, MaxHold \in Nat, NEW on \in SUBSET (1..LastDay), NEW signals \in SUBSET (1..LastDay),
         NEW c \in TrueHeads(on, signals), NEW d \in TrueHeads(on, signals), c < d
  PROVE  E!BarsBetween(on, c, d) > MaxHold
<1>1. PICK h : IsHeads(on, signals, h, LastDay) /\ E!Heads(on, signals) = [e \in signals |-> h[e]]
  BY HeadsAre
<1>2. /\ c \in 1..LastDay /\ d \in 1..LastDay /\ d \in signals /\ h[c] = c /\ h[d] = d
      /\ d - 1 \in c..LastDay /\ d - 1 \in 0..LastDay
  BY <1>1 DEF TrueHeads
<1>3. c <= h[d - 1] /\ h[d - 1] <= d - 1
  BY <1>1, <1>2, LastHead
<1>4. h[d] = HeadOf(on, signals, h[d - 1], d) /\ h[d - 1] \in Int
  BY <1>1, <1>2 DEF IsHeads
<1>5. h[d - 1] # E!Null /\ h[d - 1] # d
  BY <1>2, <1>3, <1>4 DEF E!Null
<1>6. ~(E!BarsBetween(on, h[d - 1], d) <= MaxHold)
  BY <1>2, <1>4, <1>5 DEF HeadOf
<1>7. E!BarsBetween(on, h[d - 1], d) <= E!BarsBetween(on, c, d) /\ E!BarsBetween(on, h[d - 1], d) \in Nat
      /\ E!BarsBetween(on, c, d) \in Nat
  BY <1>2, <1>3, <1>4, BetweenFacts
<1> QED BY <1>6, <1>7

\* The days up to one.
Upto(S, u) == {d \in S : d <= u}

\* Days and signals that come later move no head.
LEMMA HeadsOfPrefix ==
  ASSUME LastDay \in Nat, NEW on \in SUBSET (1..LastDay), NEW signals \in SUBSET (1..LastDay),
         NEW more \in SUBSET (1..LastDay), NEW later \in SUBSET (1..LastDay), NEW u \in 0..LastDay
  PROVE  on = Upto(more, u) /\ signals = Upto(later, u) =>
           \A c \in signals : E!Heads(more, later)[c] = E!Heads(on, signals)[c]
<1>1. PICK h : IsHeads(on, signals, h, LastDay) /\ E!Heads(on, signals) = [e \in signals |-> h[e]]
  BY HeadsAre
<1>2. PICK g : IsHeads(more, later, g, LastDay) /\ E!Heads(more, later) = [e \in later |-> g[e]]
  BY HeadsAre
<1>3. /\ h \in [0..LastDay -> 0..LastDay] /\ h[0] = 0
      /\ \A d \in 1..LastDay : h[d] = HeadOf(on, signals, h[d - 1], d)
      /\ g \in [0..LastDay -> 0..LastDay] /\ g[0] = 0
      /\ \A d \in 1..LastDay : g[d] = HeadOf(more, later, g[d - 1], d)
  BY <1>1, <1>2 DEF IsHeads
<1> SUFFICES ASSUME on = {d \in more : d <= u}, signals = {d \in later : d <= u}, NEW c \in signals
             PROVE  E!Heads(more, later)[c] = E!Heads(on, signals)[c]
  BY DEF Upto
<1>4. ASSUME NEW d \in 1..LastDay, d <= u, NEW b
      PROVE  HeadOf(on, signals, b, d) = HeadOf(more, later, b, d)
  <2>1. d \in signals <=> d \in later
    BY <1>4
  <2>2. {x \in on : b < x /\ x <= d} = {x \in more : b < x /\ x <= d}
    <3>1. \A x \in more : x <= d => x <= u
      BY <1>4
    <3> QED BY <3>1
  <2>3. E!BarsBetween(on, b, d) = E!BarsBetween(more, b, d)
    BY <2>2 DEF E!BarsBetween
  <2> QED BY <2>1, <2>3 DEF HeadOf
<1> DEFINE Bad == {d \in 0..u : h[d] # g[d]}
<1>5. Bad = {}
  <2>1. ASSUME NEW d \in Bad PROVE \E e \in Bad : e < d
    <3>1. d # 0
      BY <1>3
    <3>2. d \in 1..LastDay /\ d <= u /\ d - 1 \in 0..u /\ d - 1 < d
      BY <3>1
    <3>3. h[d] = HeadOf(on, signals, h[d - 1], d) /\ g[d] = HeadOf(on, signals, g[d - 1], d)
      BY <1>3, <1>4, <3>2
    <3>4. h[d - 1] # g[d - 1]
      BY <3>3
    <3> QED BY <3>2, <3>4
  <2>2. Bad \in SUBSET Nat
    OBVIOUS
  <2> HIDE DEF Bad
  <2> QED BY <2>1, <2>2, NoFirstDay
<1>6. c \in later /\ c \in 0..u
  OBVIOUS
<1>7. h[c] = g[c]
  BY <1>5, <1>6
<1> QED BY <1>1, <1>2, <1>6, <1>7

-----------------------------------------------------------------------------
(* EventRows: what a backtest writes.                                      *)

\* A bar is the first or the last of those there are.
LEMMA FirstAndLast ==
  ASSUME LastDay \in Nat, NEW S \in SUBSET (1..LastDay), S # {}
  PROVE  E!Min(S) \in S /\ E!Max(S) \in S /\ \A d \in S : E!Min(S) <= d /\ d <= E!Max(S)
<1>1. \E m \in S : \A d \in S : m <= d
  <2> DEFINE Bad == {n \in S : \E d \in S : ~(n <= d)}
  <2>1. CASE \A n \in S : \E d \in S : ~(n <= d)
    <3>1. ASSUME NEW n \in S PROVE \E m \in S : m < n
      BY <2>1
    <3>2. S \in SUBSET Nat
      OBVIOUS
    <3> QED BY <3>1, <3>2, NoFirstDay
  <2> QED BY <2>1
<1>2. \E m \in S : \A d \in S : d <= m
  <2> DEFINE T == {LastDay - d : d \in S}
  <2>1. CASE \A n \in S : \E d \in S : ~(d <= n)
    <3>1. ASSUME NEW t \in T PROVE \E m \in T : m < t
      <4>1. PICK n \in S : t = LastDay - n
        OBVIOUS
      <4>2. PICK d \in S : ~(d <= n)
        BY <2>1
      <4>3. LastDay - d \in T /\ LastDay - d < t
        BY <4>1, <4>2
      <4> QED BY <4>3
    <3>2. T \in SUBSET Nat /\ T # {}
      <4>1. \A d \in S : LastDay - d \in Nat
        OBVIOUS
      <4> QED BY <4>1
    <3> HIDE DEF T
    <3> QED BY <3>1, <3>2, NoFirstDay
  <2> QED BY <2>1
<1>3. E!Min(S) \in S /\ \A d \in S : E!Min(S) <= d
  BY <1>1 DEF E!Min
<1>4. E!Max(S) \in S /\ \A d \in S : d <= E!Max(S)
  <2>1. \E m \in S : \A d \in S : m >= d
    BY <1>2
  <2> QED BY <2>1 DEF E!Max
<1> QED BY <1>3, <1>4

\* The columns of a row agree with each other, and name bars the backtest has read.
LEMMA OutcomeFacts ==
  ASSUME LastDay \in Nat, NEW on \in SUBSET (1..LastDay), NEW d \in on, NEW kind \in E!Kinds, NEW head
  PROVE  LET outcome == E!Outcome(on, d, kind, head) IN
         /\ outcome.head = head
         /\ outcome.return => outcome.priced /\ outcome.entry # E!Null /\ outcome.exit # E!Null
         /\ outcome.entry # E!Null => outcome.entry \in on
         /\ outcome.exit # E!Null => outcome.exit \in on
         /\ outcome.entry # E!Null /\ E!Held(on, outcome.entry) # {} => outcome.exit # E!Null
<1> DEFINE entry == E!EntryDay(on, d, kind)
           held == IF entry = E!Null THEN {} ELSE E!Held(on, entry)
           outcome == E!Outcome(on, d, kind, head)
<1>1. entry = E!Null \/ entry \in on
  <2>1. CASE kind = "touch"
    BY <2>1 DEF E!EntryDay
  <2>2. CASE kind # "touch"
    <3> DEFINE after == {e \in on : e > d}
    <3>1. entry = IF after = {} THEN E!Null ELSE E!Min(after)
      BY <2>2 DEF E!EntryDay
    <3>2. after \in SUBSET (1..LastDay)
      OBVIOUS
    <3>3. after # {} => E!Min(after) \in after
      <4> HIDE DEF after
      <4> QED BY <3>2, FirstAndLast
    <3> QED BY <3>1, <3>3
  <2> QED BY <2>1, <2>2
<1>2. held \in SUBSET (1..LastDay) /\ held \subseteq on
  BY DEF E!Held
<1>3. held # {} => E!Max(held) \in held
  <2> HIDE DEF held
  <2> QED BY <1>2, FirstAndLast
<1>4. outcome = [entry |-> entry, priced |-> entry # E!Null,
             exit |-> IF held = {} THEN E!Null ELSE E!Max(held),
             reason |-> IF held = {} THEN "none"
                        ELSE IF E!Cardinality(held) = MaxHold THEN "timeout" ELSE "unfinished",
             return |-> held # {}, head |-> head]
  BY DEF E!Outcome
<1>5. held # {} => entry # E!Null
  OBVIOUS
<1>6. entry # E!Null => held = E!Held(on, entry)
  OBVIOUS
<1> HIDE DEF entry, held, outcome
<1>7. /\ outcome.entry = entry /\ outcome.exit = (IF held = {} THEN E!Null ELSE E!Max(held)) /\ outcome.head = head
      /\ outcome.return <=> held # {}
      /\ outcome.priced <=> entry # E!Null
  BY <1>4
<1>8. ASSUME held # {} PROVE outcome.exit \in on /\ outcome.exit # E!Null
  <2>1. outcome.exit = E!Max(held)
    BY <1>7, <1>8
  <2>2. outcome.exit \in on
    BY <1>2, <1>3, <1>8, <2>1
  <2> QED BY <2>2 DEF E!Null
<1> QED BY <1>1, <1>5, <1>6, <1>7, <1>8 DEF outcome

\* The days a backtest takes signals from.
SignalDays(on, types) == {d \in on : types[d] # "none"}

\* The key of a row is a day, a type and an entry kind.
IsKey(k, last) ==
  /\ k = <<k[1], k[2], k[3]>>
  /\ k[1] \in 1..last /\ k[2] \in E!Types /\ k[3] \in E!Kinds

\* A row of a key points at bars of those days only.
RowStands(k, outcome, on) ==
  /\ k[1] \in on
  /\ outcome.entry # E!Null => outcome.entry \in on
  /\ outcome.exit # E!Null => outcome.exit \in on

IsDetection(types) == types \in [E!Days -> E!Types \cup {"none"}]

IsSnapshot(s, last) ==
  /\ s.upto \in 1..last /\ s.bars \in SUBSET (1..s.upto)
  /\ IsDetection(s.detected)

LEMMA UpsertFacts ==
  ASSUME NEW new, NEW old
  PROVE  /\ DOMAIN E!Upsert(new, old) = DOMAIN new \cup DOMAIN old
         /\ \A k \in DOMAIN new : E!Upsert(new, old)[k] = new[k]
         /\ \A k \in DOMAIN old : k \notin DOMAIN new => E!Upsert(new, old)[k] = old[k]
BY DEF E!Upsert

\* What run_backtest writes of a snapshot, and which rows it reaches.
LEMMA WrittenFacts ==
  ASSUME LastDay \in Nat, NEW s, IsSnapshot(s, LastDay)
  PROVE  /\ \A k \in DOMAIN E!Written(s) :
              /\ IsKey(k, s.upto) /\ k[1] \in s.bars /\ s.detected[k[1]] = k[2]
              /\ RowStands(k, E!Written(s)[k], s.bars)
              /\ E!Written(s)[k].return =>
                   E!Written(s)[k].priced /\ E!Written(s)[k].entry # E!Null /\ E!Written(s)[k].exit # E!Null
              /\ E!Written(s)[k].head = E!Heads(s.bars, SignalDays(s.bars, s.detected))[k[1]]
              /\ E!Written(s)[k].entry # E!Null /\ E!Held(s.bars, E!Written(s)[k].entry) # {} =>
                   E!Written(s)[k].exit # E!Null
         /\ \A k : /\ IsKey(k, LastDay) /\ k[1] \in s.bars /\ s.detected[k[1]] = k[2]
                   => k \in DOMAIN E!Written(s)
<1> DEFINE signals == SignalDays(s.bars, s.detected)
           heads == E!Heads(s.bars, signals)
           keys == {E!Key(d, s.detected[d], kind) : d \in signals, kind \in E!Kinds}
<1>1. E!Written(s) = [k \in keys |-> E!Outcome(s.bars, k[1], k[3], heads[k[1]])]
  BY DEF E!Written, SignalDays
<1>2. s.bars \in SUBSET (1..LastDay) /\ s.bars \in SUBSET (1..s.upto) /\ s.detected \in [1..LastDay -> E!Types \cup {"none"}]
  BY DEF IsSnapshot, IsDetection, E!Days
<1> HIDE DEF heads
<1>3. ASSUME NEW k \in keys
      PROVE  IsKey(k, s.upto) /\ k[1] \in s.bars /\ s.detected[k[1]] = k[2]
  <2>1. PICK d \in signals, kind \in E!Kinds : k = <<d, s.detected[d], kind>>
    BY DEF E!Key
  <2>2. k[1] = d /\ k[2] = s.detected[d] /\ k[3] = kind
    BY <2>1
  <2>3. d \in s.bars /\ s.detected[d] # "none" /\ s.detected[d] \in E!Types
    BY <1>2 DEF SignalDays
  <2> QED BY <1>2, <2>1, <2>2, <2>3 DEF IsKey
<1>4. ASSUME NEW k, IsKey(k, LastDay), k[1] \in s.bars, s.detected[k[1]] = k[2]
      PROVE  k \in keys
  <2>1. k[1] \in signals /\ k[3] \in E!Kinds /\ k = <<k[1], s.detected[k[1]], k[3]>>
    BY <1>4 DEF IsKey, SignalDays, E!Types
  <2> QED BY <2>1 DEF E!Key
<1> HIDE DEF keys, signals
<1>5. ASSUME NEW k \in keys
      PROVE  /\ RowStands(k, E!Written(s)[k], s.bars)
             /\ E!Written(s)[k].return =>
                  E!Written(s)[k].priced /\ E!Written(s)[k].entry # E!Null /\ E!Written(s)[k].exit # E!Null
             /\ E!Written(s)[k].head = heads[k[1]]
             /\ E!Written(s)[k].entry # E!Null /\ E!Held(s.bars, E!Written(s)[k].entry) # {} =>
                  E!Written(s)[k].exit # E!Null
  <2>1. k[1] \in s.bars /\ k[3] \in E!Kinds
    BY <1>3 DEF IsKey
  <2>2. E!Written(s)[k] = E!Outcome(s.bars, k[1], k[3], heads[k[1]])
    BY <1>1
  <2>3. PICK on, d, kind, head : on = s.bars /\ d = k[1] /\ kind = k[3] /\ head = heads[k[1]]
    OBVIOUS
  <2>4. PICK outcome : outcome = E!Written(s)[k]
    OBVIOUS
  <2>5. on \in SUBSET (1..LastDay) /\ d \in on /\ kind \in E!Kinds /\ outcome = E!Outcome(on, d, kind, head)
    BY <1>2, <2>1, <2>2, <2>3, <2>4
  <2>6. /\ outcome.head = head
        /\ outcome.return => outcome.priced /\ outcome.entry # E!Null /\ outcome.exit # E!Null
        /\ outcome.entry # E!Null => outcome.entry \in on
        /\ outcome.exit # E!Null => outcome.exit \in on
        /\ outcome.entry # E!Null /\ E!Held(on, outcome.entry) # {} => outcome.exit # E!Null
    BY <2>5, OutcomeFacts
  <2> QED BY <2>1, <2>3, <2>4, <2>6 DEF RowStands
<1>6. DOMAIN E!Written(s) = keys
  BY <1>1
<1> QED BY <1>3, <1>4, <1>5, <1>6 DEF heads, signals

\* The rows name days, types and kinds that can be.
DayTypes ==
  /\ session \in 0..LastDay /\ stored \in SUBSET (1..session) /\ IsDetection(detected)
  /\ job = [j \in E!Jobs |-> job[j]]
  /\ \A j \in E!Jobs : job[j] # E!Idle => IsSnapshot(job[j], session)
  /\ night = "writing" <=> job["resolve"] # E!Idle
  /\ \A k \in DOMAIN rows : IsKey(k, session)

\* Nothing a backtest has read has changed since.
StillTrue(s) ==
  /\ s.bars = Upto(stored, s.upto)
  /\ \A d \in 1..s.upto : s.detected[d] = detected[d]

\* Unless the world was crossed, rows point at bars and snapshots hold; tonight's,
\* and the weekly one's while no session has closed over it, are of today.
Standing ==
  ~crossed =>
    /\ \A k \in DOMAIN rows : RowStands(k, rows[k], stored)
    /\ \A j \in E!Jobs : job[j] # E!Idle => StillTrue(job[j])
    /\ job["resolve"] # E!Idle => job["resolve"].upto = session
    /\ ~lagged /\ job["weekly"] # E!Idle => job["weekly"].upto = session

\* A current row tagged a head is the head the bars and detections of today call for.
HeadsTrue ==
  ~stale /\ ~crossed =>
    \A k \in DOMAIN rows :
      detected[k[1]] = k[2] /\ rows[k].head = k[1] =>
        E!Heads(stored, SignalDays(stored, detected))[k[1]] = k[1]

RowsInv == DayTypes /\ E!ReturnHasEntry /\ Standing /\ HeadsTrue /\ E!OpenIsResolved

LEMMA RowsInit ==
  ASSUME E!RowsAssumption, E!Init PROVE RowsInv
<1>1. DOMAIN rows = {} /\ session = 0 /\ stored = {} /\ night = "idle" /\ LastDay \in Nat
      /\ job = [j \in E!Jobs |-> E!Idle] /\ detected = [d \in E!Days |-> "none"]
  BY DEF E!Init, E!RowsAssumption
<1>2. \A j \in E!Jobs : job[j] = E!Idle
  BY <1>1
<1>3. "resolve" \in E!Jobs /\ "weekly" \in E!Jobs
  BY DEF E!Jobs
<1>4. DayTypes
  <2>1. IsDetection(detected)
    BY <1>1 DEF IsDetection
  <2>2. job = [j \in E!Jobs |-> job[j]]
    BY <1>1
  <2> QED BY <1>1, <1>2, <1>3, <2>1, <2>2 DEF DayTypes
<1>5. Standing
  BY <1>1, <1>2, <1>3 DEF Standing
<1>6. HeadsTrue
  BY <1>1 DEF HeadsTrue
<1>7. E!ReturnHasEntry /\ E!OpenIsResolved
  BY <1>1 DEF E!ReturnHasEntry, E!OpenIsResolved
<1> QED BY <1>4, <1>5, <1>6, <1>7 DEF RowsInv

-----------------------------------------------------------------------------
(* EventRows: the steps.                                                   *)

\* The heads a snapshot gives its signals are the heads of today's bars, while
\* what it has read stands.
LEMMA SnapshotHeads ==
  ASSUME LastDay \in Nat, NEW on \in SUBSET (1..LastDay), NEW types, NEW more \in SUBSET (1..LastDay), NEW present,
         NEW u \in 0..LastDay
  PROVE  on = Upto(more, u) /\ (\A d \in 1..u : types[d] = present[d]) =>
           \A c \in on : types[c] # "none" =>
             E!Heads(more, SignalDays(more, present))[c] = E!Heads(on, SignalDays(on, types))[c]
<1>1. SignalDays(on, types) \in SUBSET (1..LastDay) /\ SignalDays(more, present) \in SUBSET (1..LastDay)
  BY DEF SignalDays
<1>2. on = Upto(more, u) /\ SignalDays(on, types) = Upto(SignalDays(more, present), u) =>
        \A c \in SignalDays(on, types) :
          E!Heads(more, SignalDays(more, present))[c] = E!Heads(on, SignalDays(on, types))[c]
  BY <1>1, HeadsOfPrefix
<1> SUFFICES ASSUME on = Upto(more, u), \A d \in 1..u : types[d] = present[d], NEW c \in on, types[c] # "none"
             PROVE  E!Heads(more, SignalDays(more, present))[c] = E!Heads(on, SignalDays(on, types))[c]
  OBVIOUS
<1>3. SignalDays(on, types) = Upto(SignalDays(more, present), u)
  <2>1. (\A d \in on : d \in more /\ d \in 1..u) /\ \A d \in more : d <= u => d \in on
    BY DEF Upto
  <2> QED BY <2>1 DEF SignalDays, Upto
<1>4. c \in SignalDays(on, types)
  BY DEF SignalDays
<1> QED BY <1>2, <1>3, <1>4

LEMMA RowsClose ==
  ASSUME E!RowsAssumption, RowsInv, E!Close PROVE RowsInv'
<1>1. /\ DayTypes /\ Standing /\ HeadsTrue /\ E!ReturnHasEntry
      /\ session < LastDay /\ night = "idle" /\ session' = session + 1 /\ rows' = rows /\ job' = job
      /\ stale' = stale /\ crossed' = crossed /\ night' = "events"
      /\ lagged' = (lagged \/ job["weekly"] # E!Idle) /\ LastDay \in Nat
  BY DEF RowsInv, E!Close, E!RowsAssumption
<1>2. /\ session \in 0..LastDay /\ session' \in 0..LastDay /\ stored \in SUBSET (1..session) /\ IsDetection(detected)
      /\ job = [j \in E!Jobs |-> job[j]]
      /\ \A j \in E!Jobs : job[j] # E!Idle => IsSnapshot(job[j], session)
      /\ night = "writing" <=> job["resolve"] # E!Idle
      /\ \A k \in DOMAIN rows : IsKey(k, session)
  BY <1>1 DEF DayTypes
<1>3. \/ \E type \in E!Types \cup {"none"} : stored' = stored \cup {session'} /\ detected' = [detected EXCEPT ![session'] = type]
      \/ stored' = stored /\ detected' = detected
  <2>1. \/ stored' = stored \cup {session'} /\ \E type \in {"plain", "none"} : detected' = [detected EXCEPT ![session'] = type]
        \/ stored' = stored /\ detected' = detected
    BY DEF E!Close
  <2> QED BY <2>1 DEF E!Types
<1>4. /\ stored' \in SUBSET (1..session') /\ stored = Upto(stored', session) /\ IsDetection(detected')
      /\ \A d \in 1..session : detected'[d] = detected[d]
  <2>1. CASE stored' = stored /\ detected' = detected
    BY <1>1, <1>2, <2>1 DEF Upto
  <2>2. CASE \E type \in E!Types \cup {"none"} : stored' = stored \cup {session'} /\ detected' = [detected EXCEPT ![session'] = type]
    <3>1. PICK type \in E!Types \cup {"none"} : stored' = stored \cup {session'} /\ detected' = [detected EXCEPT ![session'] = type]
      BY <2>2
    <3>2. IsDetection(detected')
      BY <1>2, <3>1 DEF IsDetection
    <3>3. \A d \in 1..session : detected'[d] = detected[d]
      BY <1>1, <1>2, <3>1 DEF IsDetection, E!Days
    <3>4. stored' \in SUBSET (1..session') /\ stored = Upto(stored', session)
      BY <1>1, <1>2, <3>1 DEF Upto
    <3> QED BY <3>2, <3>3, <3>4
  <2> QED BY <1>3, <2>1, <2>2
<1>5. DayTypes'
  <2>1. \A j \in E!Jobs : job[j] # E!Idle => IsSnapshot(job[j], session')
    BY <1>1, <1>2 DEF IsSnapshot
  <2>2. \A k \in DOMAIN rows : IsKey(k, session')
    BY <1>1, <1>2 DEF IsKey
  <2>3. night' = "writing" <=> job["resolve"] # E!Idle
    BY <1>1, <1>2
  <2> QED BY <1>1, <1>2, <1>4, <2>1, <2>2, <2>3 DEF DayTypes
<1>6. Standing'
  <2> SUFFICES ASSUME ~crossed
        PROVE  /\ \A k \in DOMAIN rows : RowStands(k, rows[k], stored')
               /\ \A j \in E!Jobs : job[j] # E!Idle => StillTrue(job[j])'
               /\ job["resolve"] = E!Idle
               /\ ~lagged' => job["weekly"] = E!Idle
    BY <1>1 DEF Standing
  <2>1. \A k \in DOMAIN rows : RowStands(k, rows[k], stored)
    BY <1>1 DEF Standing
  <2>2. \A k \in DOMAIN rows : RowStands(k, rows[k], stored')
    BY <1>4, <2>1 DEF RowStands, Upto
  <2>3. ASSUME NEW j \in E!Jobs, job[j] # E!Idle PROVE StillTrue(job[j])'
    <3>1. StillTrue(job[j]) /\ IsSnapshot(job[j], session)
      BY <1>1, <1>2, <2>3 DEF Standing
    <3>2. PICK s : s = job[j] /\ s = job'[j]
      BY <1>1
    <3>3. s.upto \in 1..session /\ s.bars = Upto(stored, s.upto) /\ \A d \in 1..s.upto : s.detected[d] = detected[d]
      BY <3>1, <3>2 DEF StillTrue, IsSnapshot
    <3>4. s.bars = Upto(stored', s.upto)
      BY <1>2, <1>4, <3>3 DEF Upto
    <3>5. \A d \in 1..s.upto : s.detected[d] = detected'[d]
      BY <1>2, <1>4, <3>3
    <3> QED BY <3>2, <3>4, <3>5 DEF StillTrue
  <2> QED BY <1>1, <1>2, <2>2, <2>3
<1>7. HeadsTrue'
  <2> SUFFICES ASSUME ~stale, ~crossed, NEW k \in DOMAIN rows, detected'[k[1]] = k[2], rows[k].head = k[1]
               PROVE  E!Heads(stored', SignalDays(stored', detected'))[k[1]] = k[1]
    BY <1>1 DEF HeadsTrue
  <2>1. k[1] \in stored /\ k[1] \in 1..session /\ k[2] # "none"
    BY <1>1, <1>2 DEF Standing, RowStands, IsKey, E!Types
  <2>2. detected[k[1]] = k[2]
    BY <1>4, <2>1
  <2>3. E!Heads(stored, SignalDays(stored, detected))[k[1]] = k[1]
    BY <1>1, <2>2 DEF HeadsTrue
  <2>4. PICK more, present, on, types, u, c :
          more = stored' /\ present = detected' /\ on = stored /\ types = detected /\ u = session /\ c = k[1]
    OBVIOUS
  <2>5. /\ on \in SUBSET (1..LastDay) /\ more \in SUBSET (1..LastDay) /\ u \in 0..LastDay
        /\ on = Upto(more, u) /\ \A d \in 1..u : types[d] = present[d]
    BY <1>1, <1>2, <1>4, <2>4
  <2>6. c \in on /\ types[c] # "none"
    BY <2>1, <2>2, <2>4
  <2>7. E!Heads(more, SignalDays(more, present))[c] = E!Heads(on, SignalDays(on, types))[c]
    BY <1>1, <2>5, <2>6, SnapshotHeads
  <2> QED BY <2>3, <2>4, <2>7
<1>8. E!ReturnHasEntry' /\ E!OpenIsResolved'
  BY <1>1 DEF E!ReturnHasEntry, E!OpenIsResolved
<1> QED BY <1>5, <1>6, <1>7, <1>8 DEF RowsInv

LEMMA RowsDetectEvents ==
  ASSUME E!RowsAssumption, RowsInv, E!DetectEvents PROVE RowsInv'
<1> DEFINE keys == {E!Key(d, detected[d], "touch") :
                      d \in {e \in stored : e > session - Window /\ detected[e] # "none"}}
           new == [k \in keys |-> IF k \in DOMAIN rows THEN E!Updated(rows[k]) ELSE E!Fresh]
<1>1. /\ DayTypes /\ Standing /\ HeadsTrue /\ E!ReturnHasEntry
      /\ night = "events" /\ night' = "resolve" /\ rows' = E!Upsert(new, rows)
      /\ session' = session /\ stored' = stored /\ detected' = detected /\ job' = job
      /\ stale' = stale /\ crossed' = crossed /\ lagged' = lagged /\ LastDay \in Nat
  BY DEF RowsInv, E!DetectEvents, E!RowsAssumption
<1>2. /\ session \in 0..LastDay /\ stored \in SUBSET (1..session) /\ IsDetection(detected)
      /\ night = "writing" <=> job["resolve"] # E!Idle
      /\ \A k \in DOMAIN rows : IsKey(k, session)
  BY <1>1 DEF DayTypes
<1>3. ASSUME NEW k \in keys PROVE IsKey(k, session) /\ k[1] \in stored
  <2>1. PICK d \in {e \in stored : e > session - Window /\ detected[e] # "none"} : k = <<d, detected[d], "touch">>
    BY DEF E!Key
  <2>2. detected[d] \in E!Types /\ d \in 1..session /\ d \in stored
    <3>1. d \in stored /\ detected[d] # "none"
      OBVIOUS
    <3>2. d \in 1..session /\ d \in E!Days
      BY <1>1, <1>2, <3>1 DEF E!Days
    <3> QED BY <1>2, <3>1, <3>2 DEF IsDetection
  <2>3. k[1] = d /\ k[2] = detected[d] /\ k[3] = "touch" /\ k = <<k[1], k[2], k[3]>>
    BY <2>1
  <2> QED BY <2>1, <2>2, <2>3 DEF IsKey, E!Kinds
<1>4. /\ DOMAIN rows' = DOMAIN rows \cup keys
      /\ \A k \in DOMAIN rows : rows'[k] = rows[k]
      /\ \A k \in keys : k \notin DOMAIN rows => rows'[k] = E!Fresh
  <2> HIDE DEF keys
  <2>1. DOMAIN new = keys /\ \A k \in keys : new[k] = IF k \in DOMAIN rows THEN rows[k] ELSE E!Fresh
    BY DEF E!Updated
  <2> HIDE DEF new
  <2>2. /\ DOMAIN E!Upsert(new, rows) = DOMAIN new \cup DOMAIN rows
        /\ \A k \in DOMAIN new : E!Upsert(new, rows)[k] = new[k]
        /\ \A k \in DOMAIN rows : k \notin DOMAIN new => E!Upsert(new, rows)[k] = rows[k]
    BY UpsertFacts
  <2> QED BY <1>1, <2>1, <2>2
<1> HIDE DEF keys, new
<1>5. DayTypes'
  <2>1. \A k \in DOMAIN rows' : IsKey(k, session)
    BY <1>2, <1>3, <1>4
  <2> QED BY <1>1, <1>2, <2>1 DEF DayTypes
<1>6. E!Fresh.entry = E!Null /\ E!Fresh.exit = E!Null /\ E!Fresh.head = E!Null /\ E!Fresh.return = FALSE
  BY DEF E!Fresh
<1>7. Standing'
  <2> SUFFICES ASSUME ~crossed PROVE \A k \in DOMAIN rows' : RowStands(k, rows'[k], stored)
    BY <1>1 DEF Standing, StillTrue
  <2>1. \A k \in DOMAIN rows : RowStands(k, rows[k], stored)
    BY <1>1 DEF Standing
  <2> QED BY <1>3, <1>4, <1>6, <2>1 DEF RowStands
<1>8. HeadsTrue'
  <2> SUFFICES ASSUME ~stale, ~crossed, NEW k \in DOMAIN rows', detected[k[1]] = k[2], rows'[k].head = k[1]
               PROVE  E!Heads(stored, SignalDays(stored, detected))[k[1]] = k[1]
    BY <1>1 DEF HeadsTrue
  <2>1. k \in DOMAIN rows
    <3>1. CASE k \in keys /\ k \notin DOMAIN rows
      <4>1. k[1] = 0 /\ k[1] \in 1..session
        BY <1>3, <1>4, <1>6, <3>1 DEF IsKey, E!Null
      <4> QED BY <4>1
    <3> QED BY <1>4, <3>1
  <2> QED BY <1>1, <1>4, <2>1 DEF HeadsTrue
<1>9. E!ReturnHasEntry' /\ E!OpenIsResolved'
  BY <1>1, <1>4, <1>6 DEF E!ReturnHasEntry, E!OpenIsResolved
<1> QED BY <1>5, <1>7, <1>8, <1>9 DEF RowsInv

\* Steps that leave days and rows alone, and start or give up backtests.
LEMMA RowsUntouched ==
  ASSUME E!RowsAssumption, RowsInv, UNCHANGED <<session, stored, detected, rows, stale, crossed, lagged>>,
         job' = [j \in E!Jobs |-> job'[j]],
         \A j \in E!Jobs : job'[j] = job[j] \/ job'[j] = E!Idle \/ (stored # {} /\ job'[j] = E!Snapshot),
         night' = "writing" <=> job'["resolve"] # E!Idle,
         E!OpenIsResolved'
  PROVE  RowsInv'
<1>1. DayTypes /\ Standing /\ HeadsTrue /\ E!ReturnHasEntry /\ LastDay \in Nat
  BY DEF RowsInv, E!RowsAssumption
<1>2. /\ session \in 0..LastDay /\ stored \in SUBSET (1..session) /\ IsDetection(detected)
      /\ \A j \in E!Jobs : job[j] # E!Idle => IsSnapshot(job[j], session)
      /\ \A k \in DOMAIN rows : IsKey(k, session)
  BY <1>1 DEF DayTypes
<1>3. PICK old : old = E!Snapshot
  OBVIOUS
<1>4. /\ old.upto = session /\ old.bars = stored /\ old.detected = detected
      /\ stored # {} => IsSnapshot(old, session)
      /\ StillTrue(old)
  <2>1. old.upto = session /\ old.bars = stored /\ old.detected = detected
    BY <1>3 DEF E!Snapshot
  <2>2. stored # {} => IsSnapshot(old, session)
    BY <1>2, <2>1 DEF IsSnapshot
  <2>3. StillTrue(old)
    BY <1>2, <2>1 DEF StillTrue, Upto
  <2> QED BY <2>1, <2>2, <2>3
<1>5. DayTypes'
  <2>1. \A j \in E!Jobs : job'[j] # E!Idle => IsSnapshot(job'[j], session)
    BY <1>2, <1>3, <1>4
  <2> QED BY <1>2, <2>1 DEF DayTypes
<1>6. Standing'
  <2> SUFFICES ASSUME ~crossed
        PROVE  /\ \A j \in E!Jobs : job'[j] # E!Idle => StillTrue(job'[j])
               /\ job'["resolve"] # E!Idle => job'["resolve"].upto = session
               /\ ~lagged /\ job'["weekly"] # E!Idle => job'["weekly"].upto = session
    BY <1>1 DEF Standing, StillTrue
  <2>1. /\ \A j \in E!Jobs : job[j] # E!Idle => StillTrue(job[j])
        /\ job["resolve"] # E!Idle => job["resolve"].upto = session
        /\ ~lagged /\ job["weekly"] # E!Idle => job["weekly"].upto = session
    BY <1>1 DEF Standing
  <2>2. "resolve" \in E!Jobs /\ "weekly" \in E!Jobs
    BY DEF E!Jobs
  <2> QED BY <1>3, <1>4, <2>1, <2>2
<1>7. HeadsTrue' /\ E!ReturnHasEntry'
  BY <1>1 DEF HeadsTrue, E!ReturnHasEntry
<1> QED BY <1>5, <1>6, <1>7 DEF RowsInv

LEMMA RowsRead ==
  ASSUME E!RowsAssumption, RowsInv, NEW j \in E!Jobs, E!Read(j) PROVE RowsInv'
<1>1. /\ DayTypes /\ E!OpenIsResolved /\ job[j] = E!Idle /\ stored # {} /\ job' = [job EXCEPT ![j] = E!Snapshot]
      /\ IF j = "resolve" THEN night = "resolve" ELSE night = "idle"
      /\ night' = (IF j = "resolve" THEN "writing" ELSE night)
      /\ UNCHANGED <<session, stored, detected, rows, stale, crossed, lagged>>
  BY DEF RowsInv, E!Read
<1>2. /\ job = [i \in E!Jobs |-> job[i]]
      /\ night = "writing" <=> job["resolve"] # E!Idle
      /\ stored \in SUBSET (1..session) /\ session \in Int
  BY <1>1 DEF DayTypes
<1>3. PICK s : s = E!Snapshot
  OBVIOUS
<1>4. s # E!Idle
  <2>1. s.upto = session /\ E!Idle.upto = 0 /\ session # 0
    BY <1>1, <1>2, <1>3 DEF E!Snapshot, E!Idle
  <2> QED BY <2>1
<1>5. /\ job' = [i \in E!Jobs |-> job'[i]] /\ job'[j] = s
      /\ \A i \in E!Jobs : i # j => job'[i] = job[i]
  BY <1>1, <1>2, <1>3
<1>6. night' = "writing" <=> job'["resolve"] # E!Idle
  <2>1. CASE j = "resolve"
    BY <1>1, <1>4, <1>5, <2>1
  <2>2. CASE j # "resolve"
    <3>1. "resolve" \in E!Jobs
      BY DEF E!Jobs
    <3> QED BY <1>1, <1>2, <1>5, <2>2, <3>1
  <2> QED BY <2>1, <2>2
<1>7. E!OpenIsResolved'
  <2>1. night' # "done"
    BY <1>1
  <2> QED BY <2>1 DEF E!OpenIsResolved
<1> QED BY <1>1, <1>3, <1>5, <1>6, <1>7, RowsUntouched

\* Without an open position, everything whose window is complete has an exit.
LEMMA RowsNothingToResolve ==
  ASSUME E!RowsAssumption, RowsInv, E!NothingToResolve PROVE RowsInv'
<1>1. /\ DayTypes /\ night = "resolve" /\ night' = "done" /\ ~E!HasOpenNextOpen
      /\ UNCHANGED <<session, stored, detected, rows, job, stale, crossed, lagged>>
      /\ MaxHold \in Nat \ {0}
  BY DEF RowsInv, E!NothingToResolve, E!RowsAssumption
<1>2. /\ job = [i \in E!Jobs |-> job[i]]
      /\ night = "writing" <=> job["resolve"] # E!Idle
      /\ session \in Nat /\ stored \in SUBSET (1..session)
  BY <1>1 DEF DayTypes
<1>3. ASSUME NEW k \in DOMAIN rows, k[3] = "next_open", rows[k].entry # E!Null, rows[k].entry \in stored,
             session - rows[k].entry >= MaxHold
      PROVE  rows[k].exit # E!Null
  <2>1. PICK entry \in 1..session : entry = rows[k].entry /\ session - entry >= MaxHold
    BY <1>2, <1>3
  <2>2. E!Oldest = session - MaxHold /\ session > MaxHold
    <3>1. session > MaxHold /\ 1 <= session - MaxHold /\ session - MaxHold \in Int
      BY <1>1, <1>2, <2>1
    <3>2. PICK m \in Int : m = session - MaxHold
      BY <3>1
    <3>3. E!Max({1, m}) = m
      <4>1. 1 <= m
        BY <3>1, <3>2
      <4>2. E!Max({1, m}) = CHOOSE x \in {1, m} : \A y \in {1, m} : x >= y
        BY DEF E!Max
      <4>3. \A x \in {1, m} : (\A y \in {1, m} : x >= y) <=> x = m
        BY <4>1
      <4> QED BY <4>2, <4>3
    <3> QED BY <3>1, <3>2, <3>3 DEF E!Oldest
  <2>3. rows[k].entry <= E!Oldest
    BY <1>1, <1>2, <2>1, <2>2
  <2> QED BY <1>1, <1>3, <2>2, <2>3 DEF E!HasOpenNextOpen
<1>4. E!OpenIsResolved'
  BY <1>1, <1>3 DEF E!OpenIsResolved
<1>5. night' = "writing" <=> job'["resolve"] # E!Idle
  BY <1>1, <1>2
<1>6. job' = [i \in E!Jobs |-> job'[i]] /\ \A i \in E!Jobs : job'[i] = job[i]
  BY <1>1, <1>2
<1> QED BY <1>1, <1>4, <1>5, <1>6, RowsUntouched

LEMMA RowsResolveFails ==
  ASSUME E!RowsAssumption, RowsInv, E!ResolveFails PROVE RowsInv'
<1>1. /\ DayTypes /\ night' = "idle" /\ job' = [job EXCEPT !["resolve"] = E!Idle]
      /\ UNCHANGED <<session, stored, detected, rows, stale, crossed, lagged>>
  BY DEF RowsInv, E!ResolveFails
<1>2. job = [i \in E!Jobs |-> job[i]] /\ "resolve" \in E!Jobs
  BY <1>1 DEF DayTypes, E!Jobs
<1>3. /\ job' = [i \in E!Jobs |-> job'[i]] /\ job'["resolve"] = E!Idle
      /\ \A i \in E!Jobs : job'[i] = job[i] \/ job'[i] = E!Idle
  BY <1>1, <1>2
<1>4. E!OpenIsResolved' /\ (night' = "writing" <=> job'["resolve"] # E!Idle)
  BY <1>1, <1>3 DEF E!OpenIsResolved
<1> QED BY <1>1, <1>3, <1>4, RowsUntouched

LEMMA RowsEndNight ==
  ASSUME E!RowsAssumption, RowsInv, E!EndNight PROVE RowsInv'
<1>1. /\ DayTypes /\ night = "done" /\ night' = "idle"
      /\ UNCHANGED <<session, stored, detected, rows, job, stale, crossed, lagged>>
  BY DEF RowsInv, E!EndNight
<1>2. job = [i \in E!Jobs |-> job[i]] /\ (night = "writing" <=> job["resolve"] # E!Idle)
  BY <1>1 DEF DayTypes
<1>3. E!OpenIsResolved' /\ (night' = "writing" <=> job'["resolve"] # E!Idle)
  BY <1>1, <1>2 DEF E!OpenIsResolved
<1> QED BY <1>1, <1>2, <1>3, RowsUntouched

\* A backtest that read what stands rewrites every current row with what it came to.
LEMMA RowsWrite ==
  ASSUME E!RowsAssumption, RowsInv, NEW j \in E!Jobs, E!Write(j) PROVE RowsInv'
<1>1. PICK s : s = job[j]
  OBVIOUS
<1>2. PICK W : W = E!Written(s)
  OBVIOUS
<1>3. /\ DayTypes /\ E!ReturnHasEntry /\ Standing /\ HeadsTrue /\ s # E!Idle
      /\ rows' = E!Upsert(W, rows) /\ job' = [job EXCEPT ![j] = E!Idle]
      /\ night' = (IF j = "resolve" THEN "done" ELSE night)
      /\ ~stale' => ~stale \/ <<s.bars, s.detected>> = <<stored, detected>>
      /\ ~crossed' => ~crossed /\ \A i \in E!Jobs : i # j => job[i] = E!Idle
      /\ UNCHANGED <<session, stored, detected, lagged>> /\ LastDay \in Nat
  BY <1>1, <1>2 DEF RowsInv, E!Write, E!RowsAssumption
<1>4. /\ session \in 0..LastDay /\ stored \in SUBSET (1..session) /\ IsDetection(detected)
      /\ job = [i \in E!Jobs |-> job[i]]
      /\ \A i \in E!Jobs : job[i] # E!Idle => IsSnapshot(job[i], session)
      /\ night = "writing" <=> job["resolve"] # E!Idle
      /\ \A k \in DOMAIN rows : IsKey(k, session)
  BY <1>3 DEF DayTypes
<1>5. /\ s.upto \in 1..session /\ s.bars \in SUBSET (1..LastDay) /\ IsDetection(s.detected)
      /\ IsSnapshot(s, LastDay)
  BY <1>1, <1>3, <1>4 DEF IsSnapshot
<1>6. /\ \A k \in DOMAIN W :
              /\ IsKey(k, s.upto) /\ k[1] \in s.bars /\ s.detected[k[1]] = k[2]
              /\ RowStands(k, W[k], s.bars)
              /\ W[k].return => W[k].priced /\ W[k].entry # E!Null /\ W[k].exit # E!Null
              /\ W[k].head = E!Heads(s.bars, SignalDays(s.bars, s.detected))[k[1]]
              /\ W[k].entry # E!Null /\ E!Held(s.bars, W[k].entry) # {} => W[k].exit # E!Null
      /\ \A k : IsKey(k, LastDay) /\ k[1] \in s.bars /\ s.detected[k[1]] = k[2] => k \in DOMAIN W
  BY <1>2, <1>3, <1>5, WrittenFacts
<1>7. /\ DOMAIN rows' = DOMAIN W \cup DOMAIN rows
      /\ \A k \in DOMAIN W : rows'[k] = W[k]
      /\ \A k \in DOMAIN rows : k \notin DOMAIN W => rows'[k] = rows[k]
  <2>1. /\ DOMAIN E!Upsert(W, rows) = DOMAIN W \cup DOMAIN rows
        /\ \A k \in DOMAIN W : E!Upsert(W, rows)[k] = W[k]
        /\ \A k \in DOMAIN rows : k \notin DOMAIN W => E!Upsert(W, rows)[k] = rows[k]
    BY UpsertFacts
  <2>2. rows' = E!Upsert(W, rows)
    BY <1>3
  <2> QED BY <2>1, <2>2
<1>8. /\ job' = [i \in E!Jobs |-> job'[i]] /\ job'[j] = E!Idle
      /\ \A i \in E!Jobs : i # j => job'[i] = job[i]
  BY <1>3, <1>4
<1>9. DayTypes'
  <2>1. \A k \in DOMAIN rows' : IsKey(k, session)
    <3>1. \A k \in DOMAIN W : IsKey(k, session)
      BY <1>4, <1>5, <1>6 DEF IsKey
    <3> QED BY <1>4, <1>7, <3>1
  <2>2. \A i \in E!Jobs : job'[i] # E!Idle => IsSnapshot(job'[i], session)
    BY <1>4, <1>8
  <2>3. night' = "writing" <=> job'["resolve"] # E!Idle
    <3>1. "resolve" \in E!Jobs
      BY DEF E!Jobs
    <3> QED BY <1>3, <1>4, <1>8, <3>1
  <2> QED BY <1>3, <1>4, <1>8, <2>1, <2>2, <2>3 DEF DayTypes
<1>10. E!ReturnHasEntry'
  BY <1>3, <1>6, <1>7 DEF E!ReturnHasEntry
<1>11. ASSUME ~crossed
       PROVE  /\ s.bars = Upto(stored, s.upto) /\ \A d \in 1..s.upto : s.detected[d] = detected[d]
              /\ \A k \in DOMAIN rows' : RowStands(k, rows'[k], stored)
  <2>1. s.bars = Upto(stored, s.upto) /\ \A d \in 1..s.upto : s.detected[d] = detected[d]
    BY <1>1, <1>3, <1>11 DEF Standing, StillTrue
  <2>2. s.bars \subseteq stored
    BY <2>1 DEF Upto
  <2>3. \A k \in DOMAIN rows : RowStands(k, rows[k], stored)
    BY <1>3, <1>11 DEF Standing
  <2>4. \A k \in DOMAIN W : RowStands(k, W[k], stored)
    BY <1>6, <2>2 DEF RowStands
  <2> QED BY <1>7, <2>1, <2>3, <2>4
<1>12. Standing'
  BY <1>3, <1>8, <1>11 DEF Standing, E!Jobs
<1>13. ASSUME ~crossed, s.bars = stored, \A d \in stored : s.detected[d] = detected[d],
              NEW k \in DOMAIN rows', detected[k[1]] = k[2]
       PROVE  k \in DOMAIN W
  <2>1. k[1] \in stored
    BY <1>11, <1>13 DEF RowStands
  <2>2. IsKey(k, LastDay)
    BY <1>3, <1>4, <1>9 DEF DayTypes, IsKey
  <2> QED BY <1>6, <1>13, <2>1, <2>2
<1>14. HeadsTrue'
  <2> SUFFICES ASSUME ~stale', ~crossed', NEW k \in DOMAIN rows', detected[k[1]] = k[2], rows'[k].head = k[1]
               PROVE  E!Heads(stored, SignalDays(stored, detected))[k[1]] = k[1]
    BY <1>3 DEF HeadsTrue
  <2>0. ~crossed
    BY <1>3
  <2>1. CASE k \notin DOMAIN W
    <3>1. k \in DOMAIN rows /\ rows'[k] = rows[k]
      BY <1>7, <2>1
    <3>2. CASE ~stale
      BY <1>3, <2>0, <3>1, <3>2 DEF HeadsTrue
    <3>3. CASE <<s.bars, s.detected>> = <<stored, detected>>
      <4>1. s.bars = stored /\ s.detected = detected
        BY <3>3
      <4> QED BY <1>13, <2>0, <2>1, <4>1
    <3> QED BY <1>3, <3>2, <3>3
  <2>2. CASE k \in DOMAIN W
    <3>1. /\ IsKey(k, s.upto) /\ k[1] \in s.bars /\ s.detected[k[1]] = k[2]
          /\ E!Heads(s.bars, SignalDays(s.bars, s.detected))[k[1]] = k[1]
      BY <1>6, <1>7, <2>2
    <3>2. PICK on, types, more, present, u, c :
            on = s.bars /\ types = s.detected /\ more = stored /\ present = detected /\ u = s.upto /\ c = k[1]
      OBVIOUS
    <3>3. /\ on \in SUBSET (1..LastDay) /\ more \in SUBSET (1..LastDay) /\ u \in 0..LastDay
          /\ on = Upto(more, u) /\ \A d \in 1..u : types[d] = present[d]
      BY <1>3, <1>4, <1>5, <1>11, <2>0, <3>2
    <3>4. c \in on /\ types[c] # "none"
      BY <3>1, <3>2 DEF IsKey, E!Types
    <3>5. E!Heads(more, SignalDays(more, present))[c] = E!Heads(on, SignalDays(on, types))[c]
      <4>1. LastDay \in Nat
        BY <1>3
      <4>2. on = Upto(more, u) /\ (\A d \in 1..u : types[d] = present[d]) =>
              \A x \in on : types[x] # "none" =>
                E!Heads(more, SignalDays(more, present))[x] = E!Heads(on, SignalDays(on, types))[x]
        BY <3>3, <4>1, SnapshotHeads
      <4> QED BY <3>3, <3>4, <4>2
    <3> QED BY <3>1, <3>2, <3>5
  <2> QED BY <2>1, <2>2
<1>15. E!OpenIsResolved'
  <2> SUFFICES ASSUME night' = "done", ~crossed', ~lagged, NEW k \in DOMAIN rows', detected[k[1]] = k[2],
                      rows'[k].entry # E!Null, E!Held(stored, rows'[k].entry) # {}
               PROVE  rows'[k].exit # E!Null
    BY <1>3 DEF E!OpenIsResolved
  <2>1. s.upto = session
    <3>1. j = "resolve" \/ j = "weekly"
      BY DEF E!Jobs
    <3> QED BY <1>1, <1>3, <3>1 DEF Standing
  <2>2. s.bars = stored /\ \A d \in stored : s.detected[d] = detected[d]
    BY <1>3, <1>4, <1>11, <2>1 DEF Upto
  <2>3. k \in DOMAIN W
    BY <1>3, <1>13, <2>2
  <2> QED BY <1>6, <1>7, <2>2, <2>3
<1> QED BY <1>9, <1>10, <1>12, <1>14, <1>15 DEF RowsInv

\* Steps that change what the backtests read, and take rows away at most.
LEMMA RowsDisturbed ==
  ASSUME E!RowsAssumption, RowsInv, night = "idle", E!Disturbs, UNCHANGED <<session, job, night, lagged>>,
         stored' \in SUBSET (1..session), IsDetection(detected'), DOMAIN rows' \subseteq DOMAIN rows,
         \A k \in DOMAIN rows' : rows'[k] = rows[k] /\ (RowStands(k, rows[k], stored) => RowStands(k, rows[k], stored'))
  PROVE  RowsInv'
<1>1. /\ DayTypes /\ E!ReturnHasEntry /\ Standing /\ stale' = TRUE
      /\ ~crossed' => ~crossed /\ \A j \in E!Jobs : job[j] = E!Idle
  BY DEF RowsInv, E!Disturbs
<1>2. DayTypes'
  BY <1>1 DEF DayTypes
<1>3. Standing'
  <2>1. ~crossed' => \A k \in DOMAIN rows : RowStands(k, rows[k], stored)
    BY <1>1 DEF Standing
  <2>2. ~crossed' => \A k \in DOMAIN rows' : RowStands(k, rows'[k], stored')
    BY <2>1
  <2> QED BY <1>1, <2>2 DEF Standing, E!Jobs
<1>4. HeadsTrue' /\ E!ReturnHasEntry' /\ E!OpenIsResolved'
  BY <1>1 DEF HeadsTrue, E!ReturnHasEntry, E!OpenIsResolved
<1> QED BY <1>2, <1>3, <1>4 DEF RowsInv

LEMMA RowsLateBar ==
  ASSUME E!RowsAssumption, RowsInv, E!LateBar PROVE RowsInv'
<1>1. /\ DayTypes /\ night = "idle" /\ E!Disturbs /\ UNCHANGED <<session, job, night, lagged>>
      /\ UNCHANGED <<detected, rows>>
  BY DEF RowsInv, E!LateBar
<1>2. PICK d \in 1..session : stored' = stored \cup {d}
  BY DEF E!LateBar
<1>3. stored' \in SUBSET (1..session) /\ IsDetection(detected')
  BY <1>1, <1>2 DEF DayTypes
<1>4. \A k \in DOMAIN rows' : rows'[k] = rows[k] /\ (RowStands(k, rows[k], stored) => RowStands(k, rows[k], stored'))
  BY <1>1, <1>2 DEF RowStands
<1> QED BY <1>1, <1>3, <1>4, RowsDisturbed

LEMMA RowsRevise ==
  ASSUME E!RowsAssumption, RowsInv, E!Revise PROVE RowsInv'
<1>1. /\ DayTypes /\ night = "idle" /\ E!Disturbs /\ UNCHANGED <<session, job, night, lagged>>
      /\ UNCHANGED <<stored, rows>>
  BY DEF RowsInv, E!Revise
<1>2. PICK d \in stored, type \in E!Types \cup {"none"} : detected' = [detected EXCEPT ![d] = type]
  BY DEF E!Revise
<1>3. stored' \in SUBSET (1..session) /\ IsDetection(detected')
  BY <1>1, <1>2 DEF DayTypes, IsDetection
<1>4. \A k \in DOMAIN rows' : rows'[k] = rows[k] /\ (RowStands(k, rows[k], stored) => RowStands(k, rows[k], stored'))
  BY <1>1
<1> QED BY <1>1, <1>3, <1>4, RowsDisturbed

LEMMA RowsPurge ==
  ASSUME E!RowsAssumption, RowsInv, E!Purge PROVE RowsInv'
<1>1. /\ DayTypes /\ night = "idle" /\ E!Disturbs /\ UNCHANGED <<session, job, night, lagged>>
  BY DEF RowsInv, E!Purge
<1>2. PICK d \in stored :
        /\ stored' = stored \ {d} /\ detected' = [detected EXCEPT ![d] = "none"]
        /\ rows' = [k \in {k \in DOMAIN rows : ~E!PointsAt(k, rows[k], d)} |-> rows[k]]
  BY DEF E!Purge
<1>3. stored' \in SUBSET (1..session) /\ IsDetection(detected')
  BY <1>1, <1>2 DEF DayTypes, IsDetection
<1>4. \A k \in DOMAIN rows' : k \in DOMAIN rows /\ rows'[k] = rows[k] /\ ~E!PointsAt(k, rows[k], d)
  BY <1>2
<1>5. \A k \in DOMAIN rows' : RowStands(k, rows[k], stored) => RowStands(k, rows[k], stored')
  BY <1>2, <1>4 DEF RowStands, E!PointsAt
<1> QED BY <1>1, <1>3, <1>4, <1>5, RowsDisturbed

LEMMA RowsNext ==
  ASSUME E!RowsAssumption, RowsInv, [E!Next]_(E!vars) PROVE RowsInv'
<1>1. CASE E!Close BY <1>1, RowsClose
<1>2. CASE E!DetectEvents BY <1>2, RowsDetectEvents
<1>3. CASE E!NothingToResolve BY <1>3, RowsNothingToResolve
<1>4. CASE E!ResolveFails BY <1>4, RowsResolveFails
<1>5. CASE E!EndNight BY <1>5, RowsEndNight
<1>6. CASE \E j \in E!Jobs : E!Read(j) BY <1>6, RowsRead
<1>7. CASE \E j \in E!Jobs : E!Write(j) BY <1>7, RowsWrite
<1>8. CASE E!LateBar BY <1>8, RowsLateBar
<1>9. CASE E!Revise BY <1>9, RowsRevise
<1>10. CASE E!Purge BY <1>10, RowsPurge
<1>11. CASE UNCHANGED E!vars
  <2>1. UNCHANGED <<session, stored, detected, rows, job, night, stale, crossed, lagged>>
    BY <1>11 DEF E!vars
  <2>2. /\ job = [j \in E!Jobs |-> job[j]]
        /\ night = "writing" <=> job["resolve"] # E!Idle
    BY DEF RowsInv, DayTypes
  <2>3. job' = [j \in E!Jobs |-> job'[j]] /\ \A j \in E!Jobs : job'[j] = job[j]
    BY <2>1, <2>2
  <2>4. night' = "writing" <=> job'["resolve"] # E!Idle
    BY <2>1, <2>2
  <2>5. E!OpenIsResolved'
    BY <2>1 DEF RowsInv, E!OpenIsResolved
  <2> QED BY <2>1, <2>3, <2>4, <2>5, RowsUntouched
<1> QED BY <1>1, <1>2, <1>3, <1>4, <1>5, <1>6, <1>7, <1>8, <1>9, <1>10, <1>11 DEF E!Next

\* No two current heads overlap, and the harness, which compares each with the one
\* before only, finds that.
LEMMA HeadsHold ==
  ASSUME E!RowsAssumption, RowsInv PROVE E!HeadsDoNotOverlap
<1> DEFINE current == {k \in DOMAIN rows : detected[k[1]] = k[2]}
           days == E!HeadDays(current)
           Before(d) == {e \in days : e < d}
<1>1. /\ LastDay \in Nat /\ MaxHold \in Nat /\ session \in 0..LastDay /\ stored \in SUBSET (1..LastDay)
      /\ \A k \in DOMAIN rows : IsKey(k, LastDay)
      /\ Standing /\ HeadsTrue
  BY DEF E!RowsAssumption, RowsInv, DayTypes, IsKey
<1>2. days \in SUBSET (1..LastDay)
  BY <1>1 DEF E!HeadDays, IsKey
<1>3. E!Overlaps(current) =
        IF stored = {} THEN days
        ELSE {d \in days : Before(d) # {} /\ E!BarsBetween(stored, E!Max(Before(d)), d) <= MaxHold}
  BY DEF E!Overlaps
<1>4. ASSUME NEW d \in days, Before(d) # {}
      PROVE  /\ E!Max(Before(d)) \in days /\ E!Max(Before(d)) < d
             /\ \A e \in days : e < d => e <= E!Max(Before(d))
  <2>1. PICK S : S = Before(d)
    OBVIOUS
  <2>2. S \in SUBSET (1..LastDay) /\ S # {}
    BY <1>2, <1>4, <2>1
  <2>3. E!Max(S) \in S /\ \A e \in S : e <= E!Max(S)
    BY <1>1, <2>2, FirstAndLast
  <2> QED BY <2>1, <2>3
<1>5. ASSUME ~stale, ~crossed, NEW d \in days
      PROVE  d \in TrueHeads(stored, SignalDays(stored, detected)) /\ d \in stored
  <2>1. PICK k \in DOMAIN rows : d = k[1] /\ detected[k[1]] = k[2] /\ rows[k].head = k[1]
    BY DEF E!HeadDays
  <2>2. k[1] \in stored /\ k[2] # "none"
    BY <1>1, <1>5 DEF Standing, RowStands, IsKey, E!Types
  <2>3. E!Heads(stored, SignalDays(stored, detected))[k[1]] = k[1]
    BY <1>1, <1>5, <2>1 DEF HeadsTrue
  <2> QED BY <2>1, <2>2, <2>3 DEF TrueHeads, SignalDays
<1>6. ~stale /\ ~crossed => E!Overlaps(current) = {}
  <2> SUFFICES ASSUME ~stale, ~crossed PROVE E!Overlaps(current) = {}
    OBVIOUS
  <2>1. stored = {} => days = {}
    BY <1>5
  <2>2. ASSUME NEW d \in days, Before(d) # {}
        PROVE  ~(E!BarsBetween(stored, E!Max(Before(d)), d) <= MaxHold)
    <3>1. PICK c, on, signals : c = E!Max(Before(d)) /\ on = stored /\ signals = SignalDays(stored, detected)
      OBVIOUS
    <3>2. c \in days /\ c < d
      BY <1>4, <2>2, <3>1
    <3>3. c \in TrueHeads(on, signals) /\ d \in TrueHeads(on, signals)
      BY <1>5, <3>1, <3>2
    <3>4. on \in SUBSET (1..LastDay) /\ signals \in SUBSET (1..LastDay)
      BY <1>1, <3>1 DEF SignalDays
    <3>5. E!BarsBetween(on, c, d) > MaxHold
      BY <1>1, <3>2, <3>3, <3>4, HeadsApart
    <3>6. E!BarsBetween(on, c, d) \in Nat
      BY <1>1, <1>2, <3>2, <3>4, BetweenFacts
    <3> QED BY <1>1, <3>1, <3>5, <3>6
  <2> HIDE DEF days, Before, current
  <2> QED BY <1>3, <2>1, <2>2
<1>7. ASSUME E!Overlaps(current) = {}, NEW d \in days, NEW e \in days, d < e
      PROVE  E!BarsBetween(stored, d, e) > MaxHold
  <2>1. stored # {}
    BY <1>3, <1>7
  <2>2. d \in Before(e) /\ Before(e) # {}
    BY <1>7
  <2>3. PICK c : c = E!Max(Before(e))
    OBVIOUS
  <2>4. c \in days /\ d <= c
    BY <1>4, <1>7, <2>2, <2>3
  <2>5. ~(E!BarsBetween(stored, c, e) <= MaxHold)
    <3> HIDE DEF days, Before, current
    <3> QED BY <1>3, <1>7, <2>1, <2>2, <2>3
  <2>6. d \in Int /\ c \in Int /\ e \in Int
    BY <1>2, <2>4
  <2>7. /\ E!BarsBetween(stored, d, e) \in Nat /\ E!BarsBetween(stored, c, e) \in Nat
        /\ E!BarsBetween(stored, c, e) <= E!BarsBetween(stored, d, e)
    BY <1>1, <2>4, <2>6, BetweenFacts
  <2> QED BY <1>1, <2>5, <2>7
<1> QED BY <1>6, <1>7 DEF E!HeadsDoNotOverlap

LEMMA RowsPoint ==
  ASSUME RowsInv PROVE E!RowsPointAtBars
BY DEF RowsInv, Standing, RowStands, E!RowsPointAtBars

\* Only a purge takes bars away, and no row is left that points at one.
LEMMA RowsPurged ==
  ASSUME [E!Next]_(E!vars) PROVE E!PurgeIsComplete
<1>1. CASE E!Purge
  <2>1. PICK d \in stored :
          /\ stored' = stored \ {d}
          /\ rows' = [k \in {k \in DOMAIN rows : ~E!PointsAt(k, rows[k], d)} |-> rows[k]]
    BY <1>1 DEF E!Purge
  <2>2. \A k \in DOMAIN rows' : rows'[k] = rows[k] /\ ~E!PointsAt(k, rows[k], d)
    BY <2>1
  <2>3. \A e \in stored \ stored' : e = d
    BY <2>1
  <2> QED BY <2>2, <2>3 DEF E!PurgeIsComplete, E!PointsAt
<1>2. CASE stored \ stored' = {}
  BY <1>2 DEF E!PurgeIsComplete
<1>3. CASE E!Close
  <2>1. stored' = stored \cup {session'} \/ stored' = stored
    BY <1>3 DEF E!Close
  <2>2. stored \ stored' = {}
    BY <2>1
  <2> QED BY <1>2, <2>2
<1>4. CASE E!LateBar
  <2>1. \E d \in 1..session : stored' = stored \cup {d}
    BY <1>4 DEF E!LateBar
  <2>2. stored \ stored' = {}
    BY <2>1
  <2> QED BY <1>2, <2>2
<1>5. CASE stored' = stored
  <2>1. stored \ stored' = {}
    BY <1>5
  <2> QED BY <1>2, <2>1
<1>6. CASE E!DetectEvents \/ E!NothingToResolve \/ E!ResolveFails \/ E!EndNight
  BY <1>5, <1>6 DEF E!DetectEvents, E!NothingToResolve, E!ResolveFails, E!EndNight
<1>7. CASE E!Revise
  BY <1>5, <1>7 DEF E!Revise
<1>8. CASE \E j \in E!Jobs : E!Read(j) \/ E!Write(j)
  BY <1>5, <1>8 DEF E!Read, E!Write
<1>9. CASE UNCHANGED E!vars
  BY <1>5, <1>9 DEF E!vars
<1> QED BY <1>1, <1>3, <1>4, <1>6, <1>7, <1>8, <1>9 DEF E!Next

\* Whatever arrives late, is revised, purged or fails: no row has a return without
\* its entry and exit; unless the world changed under a backtest, rows point at
\* stored bars, the cluster heads the statistics count do not overlap, and the
\* night's chain leaves no next_open position open whose window is complete; and a
\* purge leaves no row pointing at its bar (run_events, run_backtest,
\* _tickers_with_open_next_open, tag_clusters, purge_bars).
THEOREM RowsHold ==
  ASSUME E!RowsAssumption
  PROVE  E!Spec => /\ [](/\ E!ReturnHasEntry /\ E!RowsPointAtBars
                         /\ E!HeadsDoNotOverlap /\ E!OpenIsResolved)
                   /\ [][E!PurgeIsComplete]_(E!vars)
<1>1. E!Init => RowsInv
  BY RowsInit
<1>2. RowsInv /\ [E!Next]_(E!vars) => RowsInv'
  BY RowsNext
<1>3. RowsInv => /\ E!ReturnHasEntry /\ E!RowsPointAtBars
                 /\ E!HeadsDoNotOverlap /\ E!OpenIsResolved
  <2>1. RowsInv => E!ReturnHasEntry /\ E!OpenIsResolved
    BY DEF RowsInv
  <2> QED BY <2>1, HeadsHold, RowsPoint
<1>4. [E!Next]_(E!vars) => [E!PurgeIsComplete]_(E!vars)
  BY RowsPurged
<1> QED BY <1>1, <1>2, <1>3, <1>4, PTL DEF E!Spec
=============================================================================
