--------------------------- MODULE Tickers_proofs -----------------------------
(***************************************************************************)
(* Machine-checked proofs about what the nightly jobs keep of a ticker.    *)
(* Shares, for any number of days, of filings and of disruptions: the      *)
(* ledger never hides a missing row, a count on file gives way to SEC's    *)
(* alone unless this night's guard rejects it or SEC's document cannot be  *)
(* read, and the guard's verdict settles. TickerTable, for any             *)
(* number of bars and of writes: no writer takes away what another         *)
(* resolved, and the span on file is that of the stored bars but for the   *)
(* batch in hand. The two share no variable: TickerTable is an instance.   *)
(***************************************************************************)
EXTENDS Shares, WellFoundedInduction, FiniteSetTheorems, TLAPS

CONSTANTS LastBar, MaxWrites
VARIABLES row, bars, constituent, listed, pending, writes

T == INSTANCE TickerTable

-----------------------------------------------------------------------------
(* Shares: the inductive invariant.                                        *)

Estimate == Row("yahoo", 0)

\* The row is of a filing of its day, inside the band.
IsFiled(r, d) == \E f \in facts : f.count # "absurd" /\ f.filed = d /\ r = Row("sec", f.accn)

\* What is on file of a CIK by that day, numbered in the order of its filing.
AreFacts(known, day) ==
  /\ IsFiniteSet(known)
  /\ \A f \in known : f \in [filed : 1..day, accn : 1..Cardinality(known), count : Counts]

FilingDays(known) == {f.filed : f \in InBand(known)}

SharesTypes ==
  /\ today \in Nat \ {0} /\ missing \in BOOLEAN /\ attempted \in BOOLEAN
  /\ AreFacts(facts, today)
  /\ pc \in {"idle", "yahoo", "write", "ledger"}
  /\ ledger \in Nat

\* What is on file is an estimate or a filing, and what a night read of SEC is filed.
RowsAreSourced ==
  /\ \A d \in DOMAIN shares : shares[d] = Estimate \/ IsFiled(shares[d], d)
  /\ \A d \in DOMAIN best : IsFiled(best[d], d)

\* A night that could read SEC's document has a filing for each one on file, and no
\* earlier one, but for the days its guard rejects.
BestIsComplete ==
  pc \in {"yahoo", "write"} /\ ~missing =>
    \A d \in DOMAIN shares :
      shares[d] # Estimate /\ d \notin rejected =>
        d \in DOMAIN best /\ shares[d].accn <= best[d].accn

\* Yahoo's points lie behind the filings of their days; a night that asked Yahoo has
\* one for every day, first in hand and then on file.
BatchIsLayered ==
  /\ pc = "yahoo" => batch = best /\ ~attempted
  /\ pc = "write" =>
       /\ DOMAIN best \subseteq DOMAIN batch
       /\ \A d \in DOMAIN batch : batch[d] = IF d \in DOMAIN best THEN best[d] ELSE Estimate
       /\ attempted => 1..today \subseteq DOMAIN batch
  /\ pc = "ledger" /\ attempted => 1..today \subseteq DOMAIN shares

SharesInv ==
  SharesTypes /\ RowsAreSourced /\ BestIsComplete /\ BatchIsLayered /\ FetchedMeansWritten

-----------------------------------------------------------------------------
(* Lemmas about the operators.                                             *)

\* A non-empty set of numbers up to a bound has a maximum.
LEMMA BoundedMax ==
  ASSUME NEW n \in Nat, NEW S \in SUBSET (1..n), S # {}
  PROVE  Max(S) \in S /\ \A x \in S : x <= Max(S)
<1> DEFINE gaps == {n - x : x \in S}
<1>1. gaps \subseteq Nat /\ gaps # {}
  <2>1. \A x \in S : n - x \in Nat
    OBVIOUS
  <2> QED BY <2>1
<1>2. \E m \in gaps : \A y \in gaps : ~ (<<y, m>> \in OpToRel(<, Nat))
  BY <1>1, WFMin, NatLessThanWellFounded
<1>3. PICK x \in S : \A y \in S : ~ (<<n - y, n - x>> \in OpToRel(<, Nat))
  BY <1>2
<1>4. \A y \in S : x >= y
  <2> TAKE y \in S
  <2>1. n - y \in Nat /\ n - x \in Nat
    OBVIOUS
  <2>2. ~(n - y < n - x)
    BY <1>3, <2>1 DEF OpToRel
  <2> QED BY <2>1, <2>2
<1> QED BY <1>4 DEF Max

\* Of any filings one has the last accession.
LEMMA LatestIsLast ==
  ASSUME NEW known, NEW day, AreFacts(known, day), NEW filings \in SUBSET known, filings # {}
  PROVE  Latest(filings) \in filings /\ \A g \in filings : g.accn <= Latest(filings).accn
<1> DEFINE accns == {f.accn : f \in filings}
<1>1. Cardinality(known) \in Nat
  BY FS_CardinalityType DEF AreFacts
<1>2. accns \in SUBSET (1..Cardinality(known)) /\ accns # {}
  BY DEF AreFacts
<1>3. Max(accns) \in accns /\ \A x \in accns : x <= Max(accns)
  <2> HIDE DEF accns
  <2> QED BY <1>1, <1>2, BoundedMax
<1>4. \E f \in filings : \A g \in filings : g.accn <= f.accn
  BY <1>3
<1> QED BY <1>4 DEF Latest

\* What is chosen for a day is the last filing of it inside the band.
LEMMA ChosenFacts ==
  ASSUME NEW known, NEW day, AreFacts(known, day)
  PROVE  /\ DOMAIN Chosen(known) = FilingDays(known)
         /\ DOMAIN Chosen(known) \subseteq 1..day
         /\ \A d \in DOMAIN Chosen(known) :
              /\ Chosen(known)[d] = Latest(FiledOn(known, d))
              /\ Chosen(known)[d] \in known
              /\ Chosen(known)[d].count # "absurd" /\ Chosen(known)[d].filed = d
              /\ \A f \in known : f.count # "absurd" /\ f.filed = d => f.accn <= Chosen(known)[d].accn
<1>1. Chosen(known) = [d \in FilingDays(known) |-> Latest(FiledOn(known, d))]
  BY DEF Chosen, FilingDays
<1>2. ASSUME NEW d \in FilingDays(known)
      PROVE  Latest(FiledOn(known, d)) \in FiledOn(known, d) /\ \A g \in FiledOn(known, d) : g.accn <= Latest(FiledOn(known, d)).accn
  <2>1. FiledOn(known, d) \in SUBSET known /\ FiledOn(known, d) # {}
    BY DEF InBand, FiledOn, FilingDays
  <2> QED BY <2>1, LatestIsLast
<1>3. FilingDays(known) \subseteq 1..day
  BY DEF InBand, AreFacts, FilingDays
<1>4. \A d \in DOMAIN Chosen(known) : Chosen(known)[d] = Latest(FiledOn(known, d))
  BY <1>1
<1>5. ASSUME NEW d \in DOMAIN Chosen(known)
      PROVE  /\ Chosen(known)[d] \in known
             /\ Chosen(known)[d].count # "absurd" /\ Chosen(known)[d].filed = d
             /\ \A f \in known : f.count # "absurd" /\ f.filed = d => f.accn <= Chosen(known)[d].accn
  <2>1. Latest(FiledOn(known, d)) \in FiledOn(known, d) /\ \A g \in FiledOn(known, d) : g.accn <= Latest(FiledOn(known, d)).accn
    BY <1>1, <1>2
  <2> QED BY <1>4, <2>1 DEF InBand, FiledOn
<1> QED BY <1>1, <1>3, <1>4, <1>5

\* A night has a filing for every day on which one was filed inside the band, the
\* days apart that its guard rejects.
LEMMA BestFacts ==
  ASSUME SharesTypes
  PROVE  /\ \A d \in DOMAIN Best(facts) : IsFiled(Best(facts)[d], d)
         /\ \A f \in facts : f.count # "absurd" /\ f.filed \notin ScaleErrors(Chosen(facts)) =>
              f.filed \in DOMAIN Best(facts) /\ f.accn <= Best(facts)[f.filed].accn
<1> DEFINE chosen == Chosen(facts)
<1>1. /\ DOMAIN Best(facts) = DOMAIN chosen \ ScaleErrors(chosen)
      /\ \A d \in DOMAIN Best(facts) : Best(facts)[d] = Row("sec", chosen[d].accn)
  BY DEF Best
<1>2. /\ \A f \in facts : f.count # "absurd" => f.filed \in DOMAIN chosen
      /\ \A d \in DOMAIN chosen :
           /\ chosen[d] \in facts /\ chosen[d].count # "absurd" /\ chosen[d].filed = d
           /\ \A f \in facts : f.count # "absurd" /\ f.filed = d => f.accn <= chosen[d].accn
  <2>1. AreFacts(facts, today) /\ DOMAIN chosen = FilingDays(facts)
    BY ChosenFacts DEF SharesTypes
  <2> QED BY <2>1, ChosenFacts DEF FilingDays, InBand
<1> HIDE DEF chosen
<1>3. ASSUME NEW d \in DOMAIN Best(facts) PROVE IsFiled(Best(facts)[d], d)
  BY <1>1, <1>2 DEF IsFiled
<1>4. ASSUME NEW f \in facts, f.count # "absurd", f.filed \notin ScaleErrors(chosen)
      PROVE  f.filed \in DOMAIN Best(facts) /\ f.accn <= Best(facts)[f.filed].accn
  <2>1. f.filed \in DOMAIN chosen /\ f.accn <= chosen[f.filed].accn
    BY <1>2, <1>4
  <2>2. f.filed \in DOMAIN Best(facts) /\ Best(facts)[f.filed] = Row("sec", chosen[f.filed].accn)
    BY <1>1, <1>4, <2>1
  <2> QED BY <2>1, <2>2 DEF Row
<1> QED BY <1>3, <1>4 DEF chosen

\* The rows of the filings are not estimates.
LEMMA FiledIsNotEstimated ==
  ASSUME SharesTypes, NEW r, NEW d, IsFiled(r, d)
  PROVE  r # Estimate /\ r.source = "sec" /\ r.accn \in Nat /\ r.accn > 0
         /\ r = Row("sec", r.accn)
<1>1. PICK f \in facts : r = Row("sec", f.accn)
  BY DEF IsFiled
<1>2. Cardinality(facts) \in Nat
  BY FS_CardinalityType DEF SharesTypes, AreFacts
<1>3. f.accn \in Nat /\ f.accn > 0
  BY <1>2 DEF SharesTypes, AreFacts
<1> QED BY <1>1, <1>3 DEF Row, Estimate

-----------------------------------------------------------------------------
(* The steps.                                                              *)

\* A new filing leaves what was filed as it was.
LEMMA FileKeeps ==
  ASSUME SharesInv, File
  PROVE  SharesInv'
<1> DEFINE n == Cardinality(facts) + 1
<1>1. PICK count \in Counts : facts' = facts \cup {[filed |-> today, accn |-> n, count |-> count]}
  BY DEF File
<1> DEFINE new == [filed |-> today, accn |-> n, count |-> count]
<1>2. IsFiniteSet(facts) /\ Cardinality(facts) \in Nat
  BY FS_CardinalityType DEF SharesInv, SharesTypes, AreFacts
<1>3. new \notin facts
  BY <1>2 DEF SharesInv, SharesTypes, AreFacts
<1>4. IsFiniteSet(facts') /\ Cardinality(facts') = n
  BY <1>1, <1>2, <1>3, FS_AddElement
<1>5. UNCHANGED <<today, shares, ledger, best, rejected, missing, batch, attempted, pc>>
  BY DEF File
<1>6. \A f \in facts' :
        f \in [filed : 1..today, accn : 1..n, count : Counts]
  <2>1. \A f \in facts : f \in [filed : 1..today, accn : 1..n, count : Counts]
    BY <1>2 DEF SharesInv, SharesTypes, AreFacts
  <2>2. new \in [filed : 1..today, accn : 1..n, count : Counts]
    BY <1>2 DEF SharesInv, SharesTypes, AreFacts
  <2> QED BY <1>1, <2>1, <2>2
<1>7. SharesTypes'
  BY <1>4, <1>5, <1>6 DEF SharesInv, SharesTypes, AreFacts
<1>8. \A r, d : IsFiled(r, d) => IsFiled(r, d)'
  BY <1>1 DEF IsFiled
<1>9. RowsAreSourced'
  BY <1>5, <1>8 DEF SharesInv, RowsAreSourced, Estimate, Row
<1>10. BestIsComplete' /\ BatchIsLayered' /\ FetchedMeansWritten'
  BY <1>5 DEF SharesInv, BestIsComplete, BatchIsLayered, FetchedMeansWritten, Estimate, Row
<1> QED BY <1>7, <1>9, <1>10 DEF SharesInv

\* A night begins with the last filing of each day, or with none.
LEMMA ReadFactsKeeps ==
  ASSUME SharesInv, ReadFacts
  PROVE  SharesInv'
<1>1. /\ \/ best' = Best(facts) /\ rejected' = ScaleErrors(Chosen(facts)) /\ missing' = FALSE
         \/ best' = <<>> /\ missing' = TRUE
      /\ batch' = best' /\ attempted' = FALSE /\ pc' = "yahoo"
      /\ UNCHANGED <<today, facts, shares, ledger>>
  BY DEF ReadFacts
<1>2. SharesTypes'
  BY <1>1 DEF SharesInv, SharesTypes
<1>3. \A r, d : IsFiled(r, d) => IsFiled(r, d)'
  BY <1>1 DEF IsFiled
<1>4. RowsAreSourced'
  <2>1. \A d \in DOMAIN best' : IsFiled(best'[d], d)
    BY <1>1, BestFacts DEF SharesInv
  <2> QED BY <1>1, <1>3, <2>1 DEF SharesInv, RowsAreSourced, Estimate, Row
<1>5. BestIsComplete'
  <2> SUFFICES ASSUME ~missing', NEW d \in DOMAIN shares, shares[d] # Estimate, d \notin rejected'
               PROVE  d \in DOMAIN best' /\ shares[d].accn <= best'[d].accn
    BY <1>1 DEF BestIsComplete, Estimate, Row
  <2>1. PICK f \in facts : f.count # "absurd" /\ f.filed = d /\ shares[d] = Row("sec", f.accn)
    BY DEF SharesInv, RowsAreSourced, IsFiled
  <2>2. best' = Best(facts) /\ rejected' = ScaleErrors(Chosen(facts))
    BY <1>1
  <2> QED BY <2>1, <2>2, BestFacts DEF SharesInv, Row
<1>6. BatchIsLayered' /\ FetchedMeansWritten'
  BY <1>1 DEF SharesInv, BatchIsLayered, FetchedMeansWritten
<1> QED BY <1>2, <1>4, <1>5, <1>6 DEF SharesInv

\* Yahoo's points go behind the filings of the night, or there are none.
LEMMA ReadYahooKeeps ==
  ASSUME SharesInv, ReadYahoo
  PROVE  SharesInv'
<1>1. /\ pc = "yahoo" /\ pc' = "write" /\ batch = best /\ ~attempted
      /\ UNCHANGED <<today, facts, shares, ledger, best, rejected, missing>>
  BY DEF ReadYahoo, SharesInv, BatchIsLayered
<1> DEFINE points == [d \in (1..today) \ TakenDays |-> Point(d)]
<1>2. \/ UNCHANGED <<batch, attempted>>
      \/ batch' = Over(points, batch) /\ attempted' = TRUE
  BY DEF ReadYahoo
<1>3. SharesTypes'
  BY <1>1, <1>2 DEF SharesInv, SharesTypes
<1>4. RowsAreSourced'
  BY <1>1 DEF SharesInv, RowsAreSourced, IsFiled, Estimate, Row
<1>5. BestIsComplete'
  BY <1>1 DEF SharesInv, BestIsComplete, Estimate, Row
<1>6. BatchIsLayered'
  <2>1. CASE UNCHANGED <<batch, attempted>>
    BY <1>1, <2>1 DEF BatchIsLayered, Estimate, Row
  <2>2. CASE batch' = Over(points, batch) /\ attempted' = TRUE
    <3>1. /\ DOMAIN points = (1..today) \ DOMAIN best
          /\ \A d \in DOMAIN points : points[d] = Estimate
      BY DEF TakenDays, Point, Estimate
    <3> HIDE DEF points
    <3>2. /\ DOMAIN batch' = DOMAIN points \cup DOMAIN best
          /\ \A d \in DOMAIN batch' :
               batch'[d] = IF d \in DOMAIN points THEN points[d] ELSE best[d]
      BY <1>1, <2>2 DEF Over
    <3>3. \A d \in DOMAIN batch' : batch'[d] = IF d \in DOMAIN best THEN best[d] ELSE Estimate
      BY <3>1, <3>2
    <3>4. 1..today \subseteq DOMAIN batch'
      BY <3>1, <3>2
    <3> QED BY <1>1, <3>2, <3>3, <3>4 DEF BatchIsLayered, Estimate, Row
  <2> QED BY <1>2, <2>1, <2>2
<1>7. FetchedMeansWritten'
  BY <1>1 DEF SharesInv, FetchedMeansWritten
<1> QED BY <1>3, <1>4, <1>5, <1>6, <1>7 DEF SharesInv

\* Rows of the night replace rows on file, day by day.
LEMMA WriteKeeps ==
  ASSUME SharesInv, Write
  PROVE  SharesInv' /\ FiledBeatsEstimated
<1>1. /\ pc = "write" /\ pc' = "ledger"
      /\ UNCHANGED <<today, facts, ledger, best, rejected, missing, batch, attempted>>
      /\ DOMAIN shares' = DOMAIN batch \cup DOMAIN shares
      /\ \A d \in DOMAIN shares' :
           shares'[d] = IF d \in DOMAIN batch THEN batch[d] ELSE shares[d]
  BY DEF Write, Over
<1>2. \A d \in DOMAIN batch : batch[d] = IF d \in DOMAIN best THEN best[d] ELSE Estimate
  BY <1>1 DEF SharesInv, BatchIsLayered
<1>3. SharesTypes'
  BY <1>1 DEF SharesInv, SharesTypes
<1>4. RowsAreSourced'
  <2>1. \A r, d : IsFiled(r, d) => IsFiled(r, d)'
    BY <1>1 DEF IsFiled
  <2>2. \A d \in DOMAIN shares' : shares'[d] = Estimate \/ IsFiled(shares'[d], d)
    BY <1>1, <1>2 DEF SharesInv, RowsAreSourced
  <2> QED BY <1>1, <2>1, <2>2 DEF SharesInv, RowsAreSourced, Estimate, Row
<1>5. BatchIsLayered'
  BY <1>1 DEF SharesInv, BatchIsLayered
<1>6. BestIsComplete' /\ FetchedMeansWritten'
  BY <1>1 DEF SharesInv, BestIsComplete, FetchedMeansWritten
<1>7. FiledBeatsEstimated
  <2> SUFFICES ASSUME NEW d \in DOMAIN shares, shares'[d] # shares[d], ~missing, d \notin rejected
               PROVE  shares'[d].source = "sec" /\ shares'[d].accn > shares[d].accn
    BY DEF FiledBeatsEstimated
  <2>1. d \in DOMAIN batch /\ shares'[d] = batch[d]
    BY <1>1
  <2>2. shares[d] # Estimate => d \in DOMAIN best /\ shares[d].accn <= best[d].accn
    BY <1>1 DEF SharesInv, BestIsComplete
  <2>3. d \in DOMAIN best /\ shares'[d] = best[d]
    BY <1>2, <2>1, <2>2
  <2>4. /\ best[d].source = "sec" /\ best[d].accn \in Nat /\ best[d].accn > 0
        /\ best[d] = Row("sec", best[d].accn)
    BY <2>3, FiledIsNotEstimated DEF SharesInv, RowsAreSourced
  <2>5. CASE shares[d] = Estimate
    BY <2>3, <2>4, <2>5 DEF Estimate, Row
  <2>6. CASE shares[d] # Estimate
    <3>1. shares[d].accn \in Nat /\ shares[d] = Row("sec", shares[d].accn)
      BY <2>6, FiledIsNotEstimated DEF SharesInv, RowsAreSourced
    <3>2. shares[d].accn # best[d].accn
      BY <2>3, <2>4, <3>1
    <3> QED BY <2>2, <2>3, <2>4, <2>6, <3>1, <3>2
  <2> QED BY <2>5, <2>6
<1> QED BY <1>3, <1>4, <1>5, <1>6, <1>7 DEF SharesInv

-----------------------------------------------------------------------------
(* The guard's verdicts.                                                   *)

\* A set of days is finite.
LEMMA DaysAreFinite ==
  ASSUME NEW n \in Nat, NEW days, days \subseteq 1..n
  PROVE  /\ IsFiniteSet(days) /\ Cardinality(days) \in Nat
         /\ \A some : some \subseteq days => Cardinality(some) <= Cardinality(days)
<1>1. IsFiniteSet(1..n)
  BY FS_Interval
<1>2. IsFiniteSet(days)
  BY <1>1, FS_Subset
<1> QED BY <1>2, FS_Subset, FS_CardinalityType

\* A filing of today changes what is chosen for today alone, and today is not within
\* the window of a settled day.
LEMMA FileSettles ==
  ASSUME SharesAssumption, SharesInv, SharesInv', File
  PROVE  VerdictsSettle
<1> DEFINE old == Chosen(facts)
           new == Chosen(facts')
<1>1. PICK count \in Counts :
        facts' = facts \cup {[filed |-> today, accn |-> Cardinality(facts) + 1, count |-> count]}
  BY DEF File
<1>2. AreFacts(facts, today) /\ AreFacts(facts', today) /\ today \in Nat /\ today' = today
  BY DEF SharesInv, SharesTypes, File, AreFacts
<1>3. /\ DOMAIN old \subseteq 1..today /\ DOMAIN new \subseteq 1..today
      /\ DOMAIN old \subseteq DOMAIN new /\ DOMAIN new \subseteq DOMAIN old \cup {today}
      /\ \A e \in DOMAIN old : e # today => new[e] = old[e]
  <2>1. /\ DOMAIN old = FilingDays(facts) /\ DOMAIN old \subseteq 1..today
        /\ \A e \in DOMAIN old : old[e] = Latest(FiledOn(facts, e))
    BY <1>2, ChosenFacts
  <2>2. /\ DOMAIN new = FilingDays(facts') /\ DOMAIN new \subseteq 1..today
        /\ \A e \in DOMAIN new : new[e] = Latest(FiledOn(facts', e))
    BY <1>2, ChosenFacts
  <2> HIDE DEF old, new
  <2>3. InBand(facts) \subseteq InBand(facts') /\ \A f \in InBand(facts') : f \in InBand(facts) \/ f.filed = today
    BY <1>1 DEF InBand
  <2>4. DOMAIN old \subseteq DOMAIN new /\ DOMAIN new \subseteq DOMAIN old \cup {today}
    BY <2>1, <2>2, <2>3 DEF FilingDays
  <2>5. ASSUME NEW e \in DOMAIN old, e # today
        PROVE  new[e] = old[e]
    <3>1. FiledOn(facts', e) = FiledOn(facts, e)
      BY <2>3, <2>5 DEF FiledOn
    <3> QED BY <2>1, <2>2, <2>4, <3>1
  <2> QED BY <2>1, <2>2, <2>4, <2>5
<1>4. /\ \A days : days \subseteq DOMAIN old => IsFiniteSet(days) /\ Cardinality(days) \in Nat
      /\ \A days : days \subseteq DOMAIN new =>
           /\ IsFiniteSet(days) /\ Cardinality(days) \in Nat
           /\ \A some : some \subseteq days => Cardinality(some) <= Cardinality(days)
  <2>1. \A days : days \subseteq 1..today =>
          /\ IsFiniteSet(days) /\ Cardinality(days) \in Nat
          /\ \A some : some \subseteq days => Cardinality(some) <= Cardinality(days)
    BY <1>2, DaysAreFinite
  <2> QED BY <1>3, <2>1, Zenon
<1>5. Cardinality(DOMAIN old) <= Cardinality(DOMAIN new)
  BY <1>3, <1>4
<1>6. SUFFICES ASSUME NEW d \in DOMAIN old, Settled(d)
               PROVE  d \in ScaleErrors(new) <=> d \in ScaleErrors(old)
  BY DEF VerdictsSettle
<1> DEFINE later == LaterThan(d)
<1>7. /\ Cardinality(later) >= ScaleWindow /\ Cardinality(DOMAIN old) >= MinFilings
      /\ ScaleWindow \in Nat \ {0} /\ MinFilings \in Nat
  BY <1>6 DEF Settled, SharesAssumption
<1>8. later # {} /\ d < today /\ d \in Nat
  <2>1. later # {}
    BY <1>7, FS_EmptySet
  <2> QED BY <1>2, <1>3, <2>1 DEF LaterThan
<1>9. later = {e \in DOMAIN old : d < e /\ e < today}
  BY DEF LaterThan
<1> HIDE DEF old, new, later
<1>10. Neighbours(DOMAIN new, d) = Neighbours(DOMAIN old, d) /\ today \notin Neighbours(DOMAIN old, d)
  <2>1. ASSUME NEW e \in DOMAIN old, e # today
        PROVE  Between(DOMAIN new, d, e) = Between(DOMAIN old, d, e)
    BY <1>3, <1>8, <2>1 DEF Between
  <2>2. ASSUME NEW days, days \subseteq DOMAIN new, DOMAIN old \subseteq days
        PROVE  Cardinality(Between(days, d, today)) >= ScaleWindow
    <3>1. later \subseteq Between(days, d, today) /\ Between(days, d, today) \subseteq DOMAIN new
      BY <1>9, <2>2 DEF Between
    <3>2. Cardinality(later) <= Cardinality(Between(days, d, today))
      BY <1>4, <3>1
    <3> QED BY <1>3, <1>4, <1>7, <3>1, <3>2
  <2>3. today \notin Neighbours(DOMAIN old, d) /\ today \notin Neighbours(DOMAIN new, d)
    <3>1. /\ Cardinality(Between(DOMAIN old, d, today)) >= ScaleWindow
          /\ Cardinality(Between(DOMAIN new, d, today)) >= ScaleWindow
          /\ Cardinality(Between(DOMAIN old, d, today)) \in Nat
          /\ Cardinality(Between(DOMAIN new, d, today)) \in Nat
      BY <1>3, <1>4, <2>2 DEF Between
    <3> QED BY <1>7, <3>1 DEF Neighbours
  <2> QED BY <1>3, <2>1, <2>3 DEF Neighbours
<1>11. OutOfLine(new, d) <=> OutOfLine(old, d)
  <2>1. new[d] = old[d]
    BY <1>3, <1>8
  <2>2. \A e \in Neighbours(DOMAIN old, d) : new[e] = old[e]
    BY <1>3, <1>10 DEF Neighbours
  <2>3. {e \in Neighbours(DOMAIN new, d) : new[e].count = "plain"}
          = {e \in Neighbours(DOMAIN old, d) : old[e].count = "plain"}
    BY <1>10, <2>2
  <2> QED BY <1>10, <2>1, <2>3 DEF OutOfLine
<1>12. Cardinality(DOMAIN new) >= MinFilings
  BY <1>4, <1>5, <1>7
<1> QED BY <1>3, <1>7, <1>11, <1>12 DEF ScaleErrors

-----------------------------------------------------------------------------
(* The theorem.                                                            *)

LEMMA SharesInit == Init => SharesInv
<1> SUFFICES ASSUME Init PROVE SharesInv
  OBVIOUS
<1>1. IsFiniteSet(facts) /\ DOMAIN shares = {} /\ DOMAIN best = {}
  BY FS_EmptySet DEF Init
<1>2. missing \in BOOLEAN /\ attempted \in BOOLEAN
  BY DEF Init
<1>3. facts = {} /\ today = 1 /\ ledger = 0 /\ pc = "idle"
  BY DEF Init
<1>4. SharesTypes
  BY <1>1, <1>2, <1>3 DEF SharesTypes, AreFacts
<1> QED
  BY <1>1, <1>4 DEF Init, SharesInv, RowsAreSourced, BestIsComplete, BatchIsLayered,
     FetchedMeansWritten

\* Only a filing can change a verdict.
LEMMA VerdictsStep ==
  SharesAssumption /\ SharesInv /\ SharesInv' /\ [Next]_vars => VerdictsSettle
<1> SUFFICES ASSUME SharesAssumption, SharesInv, SharesInv', [Next]_vars PROVE VerdictsSettle
  OBVIOUS
<1>1. CASE File
  BY <1>1, FileSettles
<1>2. CASE ~File
  <2>1. facts' = facts
    BY <1>2 DEF Next, vars, NextDay, ReadFacts, ReadYahoo, Write, RecordFetch, Kill
  <2>2. Chosen(facts)' = Chosen(facts)
    BY <2>1 DEF Chosen, Latest
  <2>3. ScaleErrors(Chosen(facts))' = ScaleErrors(Chosen(facts))
    BY <2>2 DEF ScaleErrors, OutOfLine, Neighbours, Between
  <2> QED BY <2>3 DEF VerdictsSettle
<1> QED BY <1>1, <1>2

\* Every step keeps the invariant, and replaces a count by a filing or not at all,
\* the two exceptions apart.
LEMMA SharesStep == SharesInv /\ [Next]_vars => SharesInv' /\ FiledBeatsEstimated
<1> SUFFICES ASSUME SharesInv, [Next]_vars PROVE SharesInv' /\ FiledBeatsEstimated
  OBVIOUS
<1> USE DEF FiledBeatsEstimated
<1>1. CASE NextDay
  <2>1. /\ pc = "idle" /\ today' = today + 1
        /\ UNCHANGED <<facts, shares, ledger, best, rejected, missing, batch, attempted, pc>>
    BY <1>1 DEF NextDay
  <2>2. \A f \in facts :
          f \in [filed : 1..today', accn : 1..Cardinality(facts), count : Counts]
    BY <2>1 DEF SharesInv, SharesTypes, AreFacts
  <2>3. SharesTypes'
    BY <2>1, <2>2 DEF SharesInv, SharesTypes, AreFacts
  <2> QED
    BY <2>1, <2>3 DEF SharesInv, RowsAreSourced, BestIsComplete, BatchIsLayered,
       FetchedMeansWritten, IsFiled, Estimate, Row
<1>2. CASE File
  BY <1>2, FileKeeps DEF File
<1>3. CASE ReadFacts
  BY <1>3, ReadFactsKeeps DEF ReadFacts
<1>4. CASE ReadYahoo
  BY <1>4, ReadYahooKeeps DEF ReadYahoo
<1>5. CASE Write
  BY <1>5, WriteKeeps
<1>6. CASE RecordFetch
  <2>1. /\ pc = "ledger" /\ pc' = "idle"
        /\ ledger' = (IF attempted THEN today ELSE ledger)
        /\ UNCHANGED <<today, facts, shares, best, rejected, missing, batch, attempted>>
    BY <1>6 DEF RecordFetch
  <2>2. SharesTypes'
    BY <2>1 DEF SharesInv, SharesTypes
  <2>3. FetchedMeansWritten'
    BY <2>1 DEF SharesInv, BatchIsLayered, FetchedMeansWritten
  <2> QED
    BY <2>1, <2>2, <2>3 DEF SharesInv, RowsAreSourced, BestIsComplete, BatchIsLayered,
       IsFiled, Estimate, Row
<1>7. CASE Kill \/ UNCHANGED vars
  <2>1. /\ pc' = "idle" \/ pc' = pc
        /\ UNCHANGED <<today, facts, shares, ledger, best, rejected, missing, batch, attempted>>
    BY <1>7 DEF Kill, vars
  <2>2. SharesTypes'
    BY <2>1 DEF SharesInv, SharesTypes
  <2> QED
    BY <2>1, <2>2 DEF SharesInv, RowsAreSourced, BestIsComplete, BatchIsLayered,
       FetchedMeansWritten, IsFiled, Estimate, Row
<1> QED BY <1>1, <1>2, <1>3, <1>4, <1>5, <1>6, <1>7 DEF Next

\* A ticker the ledger calls fetched has every day on file. A count on file gives way
\* to a later filing alone, except on a night that cannot read SEC's document and for
\* a filing that the scale guard of that very night rejects, though an earlier night
\* had let it in; and the guard's verdict on a filing is final once ScaleWindow later
\* ones lie before today, in a series long enough (run_shares, scale_error_indices).
THEOREM FilingsWin ==
  ASSUME SharesAssumption
  PROVE  Spec => [][FetchedMeansWritten' /\ FiledBeatsEstimated /\ VerdictsSettle]_vars
<1>1. Init => SharesInv
  BY SharesInit
<1>2. SharesInv /\ [Next]_vars => SharesInv' /\ FiledBeatsEstimated
  BY SharesStep
<1>3. SharesInv => FetchedMeansWritten
  BY DEF SharesInv
<1>4. SharesInv /\ SharesInv' /\ [Next]_vars => VerdictsSettle
  BY VerdictsStep
<1> QED BY <1>1, <1>2, <1>3, <1>4, PTL DEF Spec

-----------------------------------------------------------------------------
(* TickerTable: the invariant.                                             *)

Rows ==
  [exchange : {T!Nothing, "NYSE"}, sector : {T!Nothing, "wikipedia", "yahoo"},
   cik : {T!Nothing, "cik"}, first : Nat, last : Nat]

\* A prepared coverage is a window of bars.
Windows == {from..to : from, to \in T!Bars}

TableType ==
  /\ row \in Rows \cup {T!Absent}
  /\ bars \in SUBSET T!Bars
  /\ constituent \in BOOLEAN /\ listed \in BOOLEAN
  /\ pending \in [expand : SUBSET Rows, sector : SUBSET {"yahoo"}, coverage : SUBSET T!Bars]
  /\ writes \in Nat

\* r has the span of the days in S.
Spans(r, S) ==
  IF S = {} THEN r.first = 0 /\ r.last = 0
  ELSE /\ r.first \in S /\ r.last \in S
       /\ \A d \in S : r.first <= d /\ d <= r.last

\* What is prepared is for a row that is on file, or starts without a span.
PreparedFits ==
  /\ pending.sector # {} => T!OnFile
  /\ pending.coverage # {} =>
       T!OnFile /\ \E from, to \in T!Bars : from <= to /\ pending.coverage = from..to
  /\ \A new \in pending.expand : new.first = 0 /\ new.last = 0

\* The bars are those the row spans and those in hand.
SpanIsBehind ==
  /\ T!OnFile => \E old \in SUBSET T!Bars : bars = old \cup pending.coverage /\ Spans(row, old)
  /\ ~T!OnFile => bars = {}

TableInv == TableType /\ PreparedFits /\ SpanIsBehind

-----------------------------------------------------------------------------
(* Rows and spans. *)

\* The two kinds of values of `row` do not meet.
LEMMA RowIsNotAbsent == ASSUME NEW r \in Rows PROVE r # T!Absent
<1>1. "absent" \notin DOMAIN r
  BY DEF Rows
<1>2. "absent" \in DOMAIN T!Absent
  BY DEF T!Absent
<1> QED
  BY <1>1, <1>2

LEMMA StubIsARow == T!Stub \in Rows /\ T!Stub.first = 0 /\ T!Stub.last = 0
BY DEF T!Stub, Rows, T!Nothing

LEMMA CikIsKnown == T!CikNow \in {T!Nothing, "cik"}
BY DEF T!CikNow

\* Min and Max of the coverage are the ends of its window.
LEMMA WindowEnds ==
  ASSUME T!TickerAssumption, NEW from \in T!Bars, NEW to \in T!Bars, from <= to
  PROVE  Min(from..to) = from /\ Max(from..to) = to
<1>1. from \in from..to /\ to \in from..to
  BY DEF T!Bars, T!TickerAssumption
<1>2. \A d \in from..to : from <= d /\ d <= to
  BY DEF T!Bars, T!TickerAssumption
<1>3. \A d \in from..to : (\A e \in from..to : d <= e) => d = from
  BY <1>1, <1>2 DEF T!Bars, T!TickerAssumption
<1>4. \A d \in from..to : (\A e \in from..to : d >= e) => d = to
  BY <1>1, <1>2 DEF T!Bars, T!TickerAssumption
<1>5. Min(from..to) = from
  BY <1>1, <1>2, <1>3 DEF Min
<1>6. Max(from..to) = to
  <2>1. \A e \in from..to : to >= e
    BY <1>2 DEF T!Bars, T!TickerAssumption
  <2> QED
    BY <1>1, <1>4, <2>1 DEF Max
<1> QED
  BY <1>5, <1>6

LEMMA PairEnds ==
  ASSUME NEW a \in Nat, NEW b \in Nat
  PROVE  /\ Min({a, b}) = IF a <= b THEN a ELSE b
         /\ Max({a, b}) = IF a >= b THEN a ELSE b
BY DEF Min, Max

\* A set that a row spans has its ends.
LEMMA SpanHasEnds ==
  ASSUME T!TickerAssumption, NEW r \in Rows, NEW S \in SUBSET T!Bars, S # {}, Spans(r, S)
  PROVE  r.first = Min(S) /\ r.last = Max(S)
<1>1. /\ r.first \in S /\ r.last \in S
      /\ \A d \in S : r.first <= d /\ d <= r.last
  BY DEF Spans
<1>2. S \subseteq Nat
  BY DEF T!Bars, T!TickerAssumption
<1>3. ASSUME NEW d \in S, \A e \in S : d <= e PROVE d = r.first
  <2>1. d \in Nat /\ r.first \in Nat
    BY <1>1, <1>2
  <2>2. d <= r.first /\ r.first <= d
    BY <1>1, <1>3
  <2> QED
    BY <2>1, <2>2
<1>4. ASSUME NEW d \in S, \A e \in S : d >= e PROVE d = r.last
  <2>1. d \in Nat /\ r.last \in Nat
    BY <1>1, <1>2
  <2>2. d >= r.last /\ d <= r.last
    BY <1>1, <1>4
  <2> QED
    BY <2>1, <2>2
<1>5. Min(S) = r.first
  BY <1>1, <1>2, <1>3 DEF Min
<1>6. Max(S) = r.last
  <2>1. \A e \in S : r.last >= e
    BY <1>1, <1>2
  <2> QED
    BY <1>1, <1>4, <2>1 DEF Max
<1> QED
  BY <1>5, <1>6

\* The instance's extrema are those of the sets.
LEMMA SameExtrema == ASSUME NEW S PROVE T!Min(S) = Min(S) /\ T!Max(S) = Max(S)
BY DEF T!Min, T!Max, Min, Max

\* Covered widens a span by a window, and touches nothing else.
LEMMA CoveredSpans ==
  ASSUME T!TickerAssumption, NEW r \in Rows, NEW old \in SUBSET T!Bars, Spans(r, old),
         NEW from \in T!Bars, NEW to \in T!Bars, from <= to
  PROVE  LET new == T!Covered(r, from..to)
         IN /\ new \in Rows
            /\ new.exchange = r.exchange /\ new.sector = r.sector /\ new.cik = r.cik
            /\ Spans(new, old \cup (from..to))
            /\ r.first # 0 => new.first # 0 /\ new.first <= r.first /\ new.last >= r.last
<1> DEFINE new == T!Covered(r, from..to)
<1>1. new = [r EXCEPT !.first = IF r.first = 0 THEN from ELSE Min({r.first, from}),
                      !.last = Max({r.last, to})]
  <2>1. T!Min(from..to) = from /\ T!Max(from..to) = to
    BY WindowEnds, SameExtrema
  <2>2. T!Min({r.first, from}) = Min({r.first, from}) /\ T!Max({r.last, to}) = Max({r.last, to})
    BY SameExtrema
  <2> QED BY <2>1, <2>2 DEF T!Covered, Rows
<1>2. from \in Nat \ {0} /\ to \in Nat \ {0} /\ r.first \in Nat /\ r.last \in Nat
  BY DEF T!Bars, Rows, T!TickerAssumption
<1>3. /\ new \in Rows
      /\ new.exchange = r.exchange /\ new.sector = r.sector /\ new.cik = r.cik
      /\ new.first = (IF r.first = 0 THEN from ELSE IF r.first <= from THEN r.first ELSE from)
      /\ new.last = (IF r.last >= to THEN r.last ELSE to)
  <2>1. Min({r.first, from}) = (IF r.first <= from THEN r.first ELSE from)
    BY <1>2, PairEnds
  <2>2. Max({r.last, to}) = (IF r.last >= to THEN r.last ELSE to)
    BY <1>2, PairEnds
  <2> DEFINE first == IF r.first = 0 THEN from ELSE Min({r.first, from})
             last  == Max({r.last, to})
  <2>3. first \in Nat /\ last \in Nat
    BY <1>2, <2>1, <2>2
  <2>4. new = [r EXCEPT !.first = first, !.last = last]
    BY <1>1
  <2> HIDE DEF new, first, last
  <2>5. /\ new \in Rows
        /\ new.exchange = r.exchange /\ new.sector = r.sector /\ new.cik = r.cik
        /\ new.first = first /\ new.last = last
    BY <2>3, <2>4 DEF Rows
  <2> USE DEF first, last
  <2> QED
    BY <2>1, <2>2, <2>5
<1>4. Spans(new, old \cup (from..to))
  <2>1. CASE old = {}
    <3>1. new.first = from /\ new.last = to
      BY <1>2, <1>3, <2>1 DEF Spans
    <3> QED
      BY <1>2, <2>1, <3>1 DEF Spans
  <2>2. CASE old # {}
    <3>1. /\ r.first \in old /\ r.last \in old
          /\ \A d \in old : d \in Nat \ {0} /\ r.first <= d /\ d <= r.last
      <4>1. \A d \in old : d \in Nat \ {0}
        BY DEF T!Bars, T!TickerAssumption
      <4> QED
        BY <2>2, <4>1 DEF Spans
    <3>2. new.first \in old \cup (from..to) /\ new.last \in old \cup (from..to)
      BY <1>2, <1>3, <3>1
    <3>3. \A d \in old \cup (from..to) : new.first <= d /\ d <= new.last
      BY <1>2, <1>3, <3>1
    <3> QED
      BY <3>2, <3>3, <2>2 DEF Spans
  <2> QED
    BY <2>1, <2>2
<1>5. r.first # 0 => new.first # 0 /\ new.first <= r.first /\ new.last >= r.last
  BY <1>2, <1>3
<1> QED
  BY <1>3, <1>4, <1>5
-----------------------------------------------------------------------------
(* The invariant is inductive. *)

LEMMA TableInit == T!TickerAssumption /\ T!Init => TableInv
<1> SUFFICES ASSUME T!TickerAssumption, T!Init PROVE TableInv
  OBVIOUS
<1>1. ~T!OnFile /\ bars = {}
  BY DEF T!Init, T!OnFile
<1> QED
  BY <1>1 DEF T!Init, TableInv, TableType, PreparedFits, SpanIsBehind

\* A step that leaves the bars, the prepared coverage and the span of the row.
LEMMA SpanKept ==
  ASSUME TableInv, T!OnFile, row' # T!Absent, bars' = bars,
         pending'.coverage = pending.coverage,
         row'.first = row.first, row'.last = row.last
  PROVE  SpanIsBehind'
<1>1. PICK old \in SUBSET T!Bars : bars = old \cup pending.coverage /\ Spans(row, old)
  BY DEF TableInv, SpanIsBehind
<1>2. Spans(row', old)
  BY <1>1 DEF Spans
<1> QED
  BY <1>1, <1>2 DEF SpanIsBehind, T!OnFile

\* A step that puts a new row, without a span, on file.
LEMMA SpanStarts ==
  ASSUME TableInv, ~T!OnFile, NEW new \in Rows, row' = new, bars' = bars,
         pending'.coverage = pending.coverage, new.first = 0, new.last = 0
  PROVE  SpanIsBehind'
<1>1. bars = {} /\ pending.coverage = {}
  BY DEF TableInv, SpanIsBehind, PreparedFits
<1>2. Spans(row', {})
  BY DEF Spans
<1> QED
  BY <1>1, <1>2 DEF SpanIsBehind, T!OnFile

\* What CoverBars writes: the row it finds, widened by the batch it prepared.
LEMMA CoverBarsWidens ==
  ASSUME T!TickerAssumption, TableInv, T!CoverBars
  PROVE  /\ T!OnFile /\ row \in Rows /\ row' \in Rows
         /\ row'.exchange = row.exchange /\ row'.sector = row.sector /\ row'.cik = row.cik
         /\ Spans(row', bars)
         /\ row.first # 0 => row'.first # 0 /\ row'.first <= row.first /\ row'.last >= row.last
<1>1. T!OnFile /\ row \in Rows
  BY DEF T!CoverBars, TableInv, TableType, PreparedFits, T!OnFile
<1>2. PICK from \in T!Bars, to \in T!Bars : from <= to /\ pending.coverage = from..to
  BY DEF T!CoverBars, TableInv, PreparedFits
<1>3. PICK old \in SUBSET T!Bars : bars = old \cup (from..to) /\ Spans(row, old)
  BY <1>1, <1>2 DEF TableInv, SpanIsBehind
<1>4. row' = T!Covered(row, from..to)
  BY <1>2 DEF T!CoverBars
<1> QED
  BY <1>1, <1>2, <1>3, <1>4, CoveredSpans

LEMMA TableNext == T!TickerAssumption /\ TableInv /\ [T!Next]_(T!vars) => TableInv'
<1> SUFFICES ASSUME T!TickerAssumption, TableInv, [T!Next]_(T!vars) PROVE TableInv'
  OBVIOUS
<1> USE DEF TableInv, TableType
<1>0. T!OnFile => row \in Rows
  BY DEF T!OnFile
<1>1. CASE T!Index
  BY <1>1 DEF T!Index, PreparedFits, SpanIsBehind, Spans, T!OnFile
<1>2. CASE T!Ensure
  <2>1. CASE T!OnFile
    <3>1. row' = row
      BY <1>2, <2>1 DEF T!Ensure
    <3>2. SpanIsBehind'
      BY <1>2, <2>1, <3>1, SpanKept DEF T!Ensure, T!OnFile
    <3> QED
      BY <1>2, <2>1, <3>1, <3>2 DEF T!Ensure, PreparedFits, T!OnFile
  <2>2. CASE ~T!OnFile
    <3>1. row' = T!Stub /\ row' # T!Absent /\ row' \in Rows
      BY <1>2, <2>2, StubIsARow, RowIsNotAbsent DEF T!Ensure
    <3>2. SpanIsBehind'
      BY <1>2, <2>2, <3>1, StubIsARow, SpanStarts DEF T!Ensure
    <3> QED
      BY <1>2, <3>1, <3>2 DEF T!Ensure, PreparedFits, T!OnFile
  <2> QED
    BY <2>1, <2>2
<1>3. CASE T!Refresh
  <2>1. ASSUME NEW old \in Rows
        PROVE  /\ T!Refreshed(old) \in Rows
               /\ T!Refreshed(old).first = old.first /\ T!Refreshed(old).last = old.last
    BY CikIsKnown DEF T!Refreshed, Rows
  <2>2. CASE T!OnFile
    <3>1. row' = T!Refreshed(row)
      BY <1>3, <2>2 DEF T!Refresh
    <3>2. row' \in Rows /\ row' # T!Absent /\ row'.first = row.first /\ row'.last = row.last
      BY <1>0, <2>1, <2>2, <3>1, RowIsNotAbsent
    <3>3. SpanIsBehind'
      BY <1>3, <2>2, <3>2, SpanKept DEF T!Refresh
    <3> QED
      BY <1>3, <2>2, <3>2, <3>3 DEF T!Refresh, PreparedFits, T!OnFile
  <2>3. CASE ~T!OnFile
    <3>1. row' = T!Refreshed(T!Stub)
      BY <1>3, <2>3 DEF T!Refresh
    <3>2. row' \in Rows /\ row' # T!Absent /\ row'.first = 0 /\ row'.last = 0
      BY <2>1, <3>1, StubIsARow, RowIsNotAbsent
    <3>3. SpanIsBehind'
      BY <1>3, <2>3, <3>2, SpanStarts DEF T!Refresh
    <3> QED
      BY <1>3, <3>2, <3>3 DEF T!Refresh, PreparedFits, T!OnFile
  <2> QED
    BY <2>2, <2>3
<1>4. CASE T!ExpandRead
  <2>1. pending' = [pending EXCEPT !.expand =
                      IF T!OnFile THEN {} ELSE {[T!Stub EXCEPT !.exchange = "NYSE", !.cik = T!CikNow]}]
    BY <1>4 DEF T!ExpandRead
  <2>2. /\ [T!Stub EXCEPT !.exchange = "NYSE", !.cik = T!CikNow] \in Rows
        /\ [T!Stub EXCEPT !.exchange = "NYSE", !.cik = T!CikNow].first = 0
        /\ [T!Stub EXCEPT !.exchange = "NYSE", !.cik = T!CikNow].last = 0
    BY CikIsKnown, StubIsARow DEF Rows
  <2>3. /\ pending'.sector = pending.sector /\ pending'.coverage = pending.coverage
        /\ pending' \in [expand : SUBSET Rows, sector : SUBSET {"yahoo"}, coverage : SUBSET T!Bars]
        /\ \A new \in pending'.expand : new.first = 0 /\ new.last = 0
    BY <2>1, <2>2
  <2>4. SpanIsBehind'
    BY <1>4, <2>3 DEF T!ExpandRead, SpanIsBehind, Spans, T!OnFile
  <2> QED
    BY <1>4, <2>3, <2>4 DEF T!ExpandRead, T!Starts, PreparedFits, T!OnFile
<1>5. CASE T!ExpandInsert
  <2>1. PICK new \in pending.expand : row' = IF T!OnFile THEN row ELSE new
    BY <1>5 DEF T!ExpandInsert
  <2>2. new \in Rows /\ new # T!Absent /\ new.first = 0 /\ new.last = 0
    BY RowIsNotAbsent DEF PreparedFits
  <2>3. /\ pending'.sector = pending.sector /\ pending'.coverage = pending.coverage
        /\ pending'.expand = {}
        /\ pending' \in [expand : SUBSET Rows, sector : SUBSET {"yahoo"}, coverage : SUBSET T!Bars]
    BY <1>5 DEF T!ExpandInsert
  <2>4. row' \in Rows /\ row' # T!Absent
    BY <1>0, <2>1, <2>2 DEF T!OnFile
  <2>5. SpanIsBehind'
    <3>1. CASE T!OnFile
      BY <1>5, <2>1, <2>3, <2>4, <3>1, SpanKept DEF T!ExpandInsert
    <3>2. CASE ~T!OnFile
      BY <1>5, <2>1, <2>2, <2>3, <3>2, SpanStarts DEF T!ExpandInsert
    <3> QED
      BY <3>1, <3>2
  <2> QED
    BY <1>5, <2>3, <2>4, <2>5 DEF T!ExpandInsert, PreparedFits, T!OnFile
<1>6. CASE T!SectorRead
  <2>1. PICK found \in BOOLEAN :
          pending' = [pending EXCEPT !.sector = IF found THEN {"yahoo"} ELSE {}]
    BY <1>6 DEF T!SectorRead
  <2>2. /\ pending'.expand = pending.expand /\ pending'.coverage = pending.coverage
        /\ pending' \in [expand : SUBSET Rows, sector : SUBSET {"yahoo"}, coverage : SUBSET T!Bars]
    BY <2>1
  <2>3. SpanIsBehind'
    BY <1>6, <2>2, SpanKept DEF T!SectorRead, T!OnFile
  <2> QED
    BY <1>6, <2>2, <2>3 DEF T!SectorRead, T!Starts, PreparedFits, T!OnFile
<1>7. CASE T!SectorWrite
  <2>1. PICK sector \in pending.sector : row' = [row EXCEPT !.sector = sector]
    BY <1>7 DEF T!SectorWrite
  <2>2. T!OnFile /\ row \in Rows /\ sector = "yahoo"
    BY <1>0 DEF PreparedFits
  <2>3. row' \in Rows /\ row' # T!Absent /\ row'.first = row.first /\ row'.last = row.last
    <3>1. row' \in Rows /\ row'.first = row.first /\ row'.last = row.last
      BY <2>1, <2>2 DEF Rows
    <3> QED
      BY <3>1, RowIsNotAbsent
  <2>4. /\ pending'.expand = pending.expand /\ pending'.coverage = pending.coverage
        /\ pending'.sector = {}
        /\ pending' \in [expand : SUBSET Rows, sector : SUBSET {"yahoo"}, coverage : SUBSET T!Bars]
    BY <1>7 DEF T!SectorWrite
  <2>5. SpanIsBehind'
    BY <1>7, <2>2, <2>3, <2>4, SpanKept DEF T!SectorWrite
  <2> QED
    BY <1>7, <2>2, <2>3, <2>4, <2>5 DEF T!SectorWrite, PreparedFits, T!OnFile
<1>8. CASE T!FillCik
  <2>1. T!OnFile /\ row \in Rows
    BY <1>0, <1>8 DEF T!FillCik
  <2>2. row' \in Rows /\ row' # T!Absent /\ row'.first = row.first /\ row'.last = row.last
    <3>1. row' \in Rows /\ row'.first = row.first /\ row'.last = row.last
      BY <1>8, <2>1, CikIsKnown DEF T!FillCik, Rows
    <3> QED
      BY <3>1, RowIsNotAbsent
  <2>3. SpanIsBehind'
    BY <1>8, <2>1, <2>2, SpanKept DEF T!FillCik
  <2> QED
    BY <1>8, <2>1, <2>2, <2>3 DEF T!FillCik, PreparedFits, T!OnFile
<1>9. CASE T!StoreBars
  <2>1. PICK from \in T!Bars, to \in T!Bars :
          /\ from <= to
          /\ bars' = bars \cup (from..to)
          /\ pending' = [pending EXCEPT !.coverage = from..to]
    BY <1>9 DEF T!StoreBars
  <2>2. T!OnFile /\ pending.coverage = {} /\ row' = row
    BY <1>9 DEF T!StoreBars, T!Starts
  <2>3. from..to \in SUBSET T!Bars
    BY DEF T!Bars, T!TickerAssumption
  <2>4. /\ pending'.expand = pending.expand /\ pending'.sector = pending.sector
        /\ pending'.coverage = from..to
        /\ pending' \in [expand : SUBSET Rows, sector : SUBSET {"yahoo"}, coverage : SUBSET T!Bars]
    BY <2>1, <2>3
  <2>5. PICK old \in SUBSET T!Bars : bars = old /\ Spans(row, old)
    BY <2>2 DEF SpanIsBehind
  <2>6. SpanIsBehind'
    BY <2>1, <2>2, <2>4, <2>5 DEF SpanIsBehind, Spans, T!OnFile
  <2>7. PreparedFits'
    BY <2>1, <2>2, <2>4 DEF PreparedFits, T!OnFile
  <2> QED
    BY <1>9, <2>1, <2>2, <2>3, <2>4, <2>6, <2>7 DEF T!StoreBars, T!Starts
<1>10. CASE T!CoverBars
  <2>1. /\ T!OnFile /\ row' \in Rows /\ row' # T!Absent /\ Spans(row', bars)
    BY <1>10, CoverBarsWidens, RowIsNotAbsent
  <2>2. /\ pending'.expand = pending.expand /\ pending'.sector = pending.sector
        /\ pending'.coverage = {}
        /\ pending' \in [expand : SUBSET Rows, sector : SUBSET {"yahoo"}, coverage : SUBSET T!Bars]
    BY <1>10 DEF T!CoverBars
  <2>3. bars' = bars
    BY <1>10 DEF T!CoverBars
  <2>4. SpanIsBehind'
    BY <2>1, <2>2, <2>3 DEF SpanIsBehind, Spans, T!OnFile
  <2> QED
    BY <1>10, <2>1, <2>2, <2>3, <2>4 DEF T!CoverBars, PreparedFits, T!OnFile
<1>11. CASE UNCHANGED T!vars
  BY <1>11 DEF T!vars, PreparedFits, SpanIsBehind, Spans, T!OnFile
<1> QED
  BY <1>1, <1>2, <1>3, <1>4, <1>5, <1>6, <1>7, <1>8, <1>9, <1>10, <1>11 DEF T!Next

-----------------------------------------------------------------------------
(* The theorems. *)

\* The types, what is prepared and the span on file, in every reachable state.
THEOREM TableInvHolds ==
  ASSUME T!TickerAssumption
  PROVE  T!Spec => []TableInv
<1>1. T!Init => TableInv
  BY TableInit
<1>2. TableInv /\ [T!Next]_(T!vars) => TableInv'
  BY TableNext
<1> QED
  BY <1>1, <1>2, PTL DEF T!Spec

\* The span on file is that of the stored bars, but for the batch in hand:
\* _update_ticker_coverage widens the span it finds, in a second transaction.
THEOREM CoverageIsRight ==
  ASSUME T!TickerAssumption
  PROVE  T!Spec => []T!CoverageSpansBars
<1>1. TableInv => T!CoverageSpansBars
  <2> SUFFICES ASSUME TableInv, T!OnFile, pending.coverage = {}
               PROVE  IF bars = {} THEN row.first = 0
                      ELSE row.first = Min(bars) /\ row.last = Max(bars)
    BY SameExtrema DEF T!CoverageSpansBars
  <2>1. row \in Rows /\ bars \in SUBSET T!Bars
    BY DEF TableInv, TableType, T!OnFile
  <2>2. Spans(row, bars)
    BY DEF TableInv, SpanIsBehind
  <2>3. CASE bars = {}
    BY <2>2, <2>3 DEF Spans
  <2>4. CASE bars # {}
    BY <2>1, <2>2, <2>4, SpanHasEnds
  <2> QED
    BY <2>3, <2>4
<1> QED
  BY <1>1, TableInvHolds, PTL

\* What a writer does to a row on file, one case per writer.
LEMMA StepResolves ==
  T!TickerAssumption /\ TableInv /\ [T!Next]_(T!vars) => T!ResolvedSurvives
<1> SUFFICES ASSUME T!TickerAssumption, TableInv, [T!Next]_(T!vars), T!OnFile
             PROVE  /\ row' # T!Absent
                    /\ T!Known(row.exchange) => row'.exchange = row.exchange
                    /\ T!Canonical(row.sector) => T!Canonical(row'.sector)
                    /\ (T!Known(row.cik) /\ listed) => row'.cik = row.cik
                    /\ row.first # 0 => row'.first # 0 /\ row'.first <= row.first
                                        /\ row'.last >= row.last
  BY DEF T!ResolvedSurvives
<1>0. row \in Rows /\ row.first \in Nat /\ row.last \in Nat /\ row # T!Absent
  BY DEF TableInv, TableType, T!OnFile, Rows
<1>1. CASE row' = row
  BY <1>0, <1>1
<1>2. CASE T!Refresh
  <2>1. row' = [row EXCEPT !.sector = "wikipedia", !.cik = T!CikNow]
    BY <1>2 DEF T!Refresh, T!Refreshed
  <2>2. /\ row' \in Rows
        /\ row'.exchange = row.exchange /\ row'.sector = "wikipedia" /\ row'.cik = T!CikNow
        /\ row'.first = row.first /\ row'.last = row.last
    BY <1>0, <2>1, CikIsKnown DEF Rows
  <2>3. (T!Known(row.cik) /\ listed) => T!CikNow = row.cik
    BY <1>0 DEF T!Known, T!CikNow, Rows
  <2> QED
    BY <1>0, <2>2, <2>3, RowIsNotAbsent DEF T!Canonical
<1>3. CASE T!SectorWrite
  <2>1. PICK sector \in pending.sector : row' = [row EXCEPT !.sector = sector]
    BY <1>3 DEF T!SectorWrite
  <2>2. sector = "yahoo"
    BY DEF TableInv, TableType
  <2>3. /\ row' \in Rows
        /\ row'.exchange = row.exchange /\ row'.sector = "yahoo" /\ row'.cik = row.cik
        /\ row'.first = row.first /\ row'.last = row.last
    BY <1>0, <2>1, <2>2 DEF Rows
  <2> QED
    BY <1>0, <2>3, RowIsNotAbsent DEF T!Canonical
<1>4. CASE T!FillCik
  <2>1. row' = IF T!Known(row.cik) THEN row ELSE [row EXCEPT !.cik = T!CikNow]
    BY <1>4 DEF T!FillCik
  <2>2. CASE T!Known(row.cik)
    BY <1>1, <2>1, <2>2
  <2>3. CASE ~T!Known(row.cik)
    <3>1. /\ row' \in Rows
          /\ row'.exchange = row.exchange /\ row'.sector = row.sector
          /\ row'.first = row.first /\ row'.last = row.last
      BY <1>0, <2>1, <2>3, CikIsKnown DEF Rows
    <3> QED
      BY <1>0, <2>3, <3>1, RowIsNotAbsent
  <2> QED
    BY <2>2, <2>3
<1>5. CASE T!CoverBars
  BY <1>0, <1>5, CoverBarsWidens, RowIsNotAbsent
<1>6. CASE T!Index \/ T!Ensure \/ T!ExpandRead \/ T!ExpandInsert \/ T!SectorRead \/ T!StoreBars
           \/ UNCHANGED T!vars
  <2>1. row' = row
    BY <1>6 DEF T!Index, T!Ensure, T!ExpandRead, T!ExpandInsert, T!SectorRead, T!StoreBars, T!vars
  <2> QED
    BY <1>1, <2>1
<1> QED
  BY <1>2, <1>3, <1>4, <1>5, <1>6 DEF T!Next

\* No writer takes away what another resolved, in any order of their reads and
\* their writes: not the exchange of run_exchange_expansion, a sector of
\* run_sector_backfill or the refresh, a CIK the SEC map holds, or the span; and
\* after every step the span on file is that of the stored bars.
THEOREM WritersKeepResolved ==
  ASSUME T!TickerAssumption
  PROVE  T!Spec => [][T!ResolvedSurvives /\ T!CoverageSpansBars']_(T!vars)
<1>1. TableInv /\ T!CoverageSpansBars' /\ [T!Next]_(T!vars) =>
        [T!ResolvedSurvives /\ T!CoverageSpansBars']_(T!vars)
  BY StepResolves
<1> QED
  BY <1>1, TableInvHolds, CoverageIsRight, PTL DEF T!Spec
=============================================================================
