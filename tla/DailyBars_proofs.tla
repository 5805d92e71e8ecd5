-------------------------- MODULE DailyBars_proofs ---------------------------
(***************************************************************************)
(* Machine-checked proofs about DailyBars, for any number of days and      *)
(* chains, any window and any disruptions: the stored bars stay on one     *)
(* scale, every rewrite is audited, and the session's bar lands. And about *)
(* FetchCache, the disk cache the fetchers answer from, which is an        *)
(* instance with its own state; it shares the number of days and the       *)
(* disruptions.                                                            *)
(***************************************************************************)
EXTENDS DailyBars, WellFoundedInduction, TLAPS

CONSTANTS Tickers, RecentDays, MaxDelay, Attempts
VARIABLES today, served, cache, torn, call, attempt, answered, morning, at, losses

F == INSTANCE FetchCache WITH published <- served, answer <- answered, pc <- at, mishaps <- losses

-----------------------------------------------------------------------------
(* The inductive invariant.                                                *)

\* The store before the ex-date, and its bars since.
StoreIsOfItsDay ==
  /\ 1 \in DOMAIN bars
  /\ \A d \in DOMAIN bars : d >= Ex => bars[d] = 0
  /\ day < Ex =>
       /\ \A d \in DOMAIN bars : bars[d] = 1
       /\ "split" \notin actions /\ "split" \notin answer
       /\ audits = 0 /\ pc # "audit"

\* Undisturbed, the bars before the split are divided once or not yet, the newer ones
\* first: a fetch of the adjusted history reaches back a window, a rewrite to the start.
NewerBarsAreAdjustedFirst ==
  mishaps = 0 =>
    /\ \A d \in DOMAIN bars : bars[d] >= 0
    /\ \A d, e \in DOMAIN bars : d < e /\ e < Ex => bars[d] >= bars[e]
    /\ ~adjusts /\ audits = 0 /\ pc # "audit" =>
         \A d \in DOMAIN bars : d < Ex => bars[d] = 1

\* A pass that knows a recent split leaves no cliff once it has reconciled.
CliffIsReconciled ==
  /\ pc = "reconcile" /\ knew => "split" \in actions
  /\ mishaps = 0 /\ knew /\ pc # "reconcile" /\ ratio # "small" /\ day - Ex <= ReconcileDays =>
       SplitState # "unadjusted"

\* Only the bar of the ex-date is ever rejected, and a pass that knows the split takes it.
RejectsAreOfTheSplit ==
  /\ rejected \subseteq {Ex}
  /\ Ex \in rejected => day > Ex \/ (day = Ex /\ published)
  /\ knew /\ Ex \in rejected /\ day - Lookback <= Ex => Ex \in DOMAIN bars

\* Undisturbed, the first write of a ticker's actions carries its history, and every
\* write since the ex-date carries the split.
ActionsAreWhole ==
  mishaps = 0 =>
    /\ actions # {} => "old" \in actions
    /\ fullAt # 0 /\ pc # "write" => "old" \in actions
    /\ pc = "write" => "old" \in actions \cup answer
    /\ day >= Ex /\ pc = "write" => "split" \in answer
    /\ day >= Ex /\ pc = "missing" => "split" \in actions

\* Undisturbed, a second pass of a day since the ex-date knows the split, and has
\* stored today's bar if the vendor had it.
SecondPassLands ==
  mishaps = 0 /\ pass = 2 /\ pc \in {"daily", "reconcile", "audit"} =>
    /\ day >= Ex => "split" \in actions
    /\ asked /\ pc # "daily" => day \in DOMAIN bars

DailyInv ==
  /\ TypeOK /\ StoreIsOfItsDay /\ NewerBarsAreAdjustedFirst /\ CliffIsReconciled
  /\ RejectsAreOfTheSplit /\ ActionsAreWhole /\ SecondPassLands /\ RewritesAreAudited

-----------------------------------------------------------------------------
(* Lemmas about the operators.                                             *)

\* A set of days has a last and a first one.
LEMMA LastOfDays ==
  ASSUME NEW n \in Nat, NEW S \in SUBSET (1..n), S # {}
  PROVE  Max(S) \in S /\ \A x \in S : x <= Max(S)
<1> DEFINE T == {n - x : x \in S}
<1>1. T \subseteq Nat /\ T # {}
  <2>1. \A x \in S : n - x \in Nat
    OBVIOUS
  <2> QED BY <2>1
<1>2. \E m \in T : \A y \in T : ~ (<<y, m>> \in OpToRel(<, Nat))
  BY <1>1, WFMin, NatLessThanWellFounded
<1>3. PICK x \in S : \A y \in S : ~ (<<n - y, n - x>> \in OpToRel(<, Nat))
  BY <1>2
<1>4. \A y \in S : x >= y
  <2> TAKE y \in S
  <2>1. n - y \in Nat /\ n - x \in Nat
    OBVIOUS
  <2>2. ~(n - y < n - x)
    BY <1>3, <2>1 DEF OpToRel
  <2> QED BY <2>1, <2>2
<1> QED BY <1>4 DEF Max

LEMMA FirstOfDays ==
  ASSUME NEW n \in Nat, NEW S \in SUBSET (1..n), S # {}
  PROVE  Min(S) \in S /\ \A x \in S : Min(S) <= x
<1>1. S \subseteq Nat
  OBVIOUS
<1>2. PICK x \in S : \A y \in S : ~ (<<y, x>> \in OpToRel(<, Nat))
  BY <1>1, WFMin, NatLessThanWellFounded
<1>3. \A y \in S : x =< y
  <2> TAKE y \in S
  <2>1. x \in Nat /\ y \in Nat
    BY <1>1
  <2>2. ~(y < x)
    BY <1>2, <2>1 DEF OpToRel
  <2> QED BY <2>1, <2>2
<1> QED BY <1>3 DEF Min

\* A step between the two bars next to the ex-date is of these two bars.
LEMMA CliffNextToEx ==
  ASSUME DaysAssumption, TypeOK, SplitState = "unadjusted"
  PROVE  /\ Max(BarsBefore) \in BarsBefore /\ \A d \in BarsBefore : d <= Max(BarsBefore)
         /\ Min(BarsSince) \in BarsSince
         /\ bars[Max(BarsBefore)] - bars[Min(BarsSince)] = 1
<1>1. BarsBefore # {} /\ BarsSince # {}
  BY DEF SplitState
<1>2. BarsBefore \in SUBSET (1..LastDay) /\ BarsSince \in SUBSET (1..LastDay)
  BY DEF BarsBefore, BarsSince, TypeOK, Days
<1>3. LastDay \in Nat
  BY DEF DaysAssumption
<1>4. bars[Max(BarsBefore)] - bars[Min(BarsSince)] = 1
  <2> DEFINE step == bars[Max(BarsBefore)] - bars[Min(BarsSince)]
  <2>1. (CASE step = 1 -> "unadjusted" [] step = 0 -> "adjusted" [] OTHER -> "unresolved")
          = "unadjusted"
    BY <1>1 DEF SplitState
  <2> HIDE DEF step
  <2>2. step = 1
    BY <2>1
  <2> QED BY <2>2 DEF step
<1> QED BY <1>1, <1>2, <1>3, <1>4, LastOfDays, FirstOfDays

\* What a request answers with: the window's days that are over, or published.
LEMMA WhatIsFetched ==
  ASSUME DaysAssumption, DailyInv
  PROVE  /\ DOMAIN Fetched \subseteq Days
         /\ \A d \in DOMAIN Fetched : d <= day /\ (d < day \/ published) /\ day - Lookback <= d
         /\ \A d \in Days : day - Lookback <= d /\ (d < day \/ (d = day /\ published)) =>
              d \in DOMAIN Fetched
         /\ \A d \in DOMAIN Fetched : Fetched[d] = Served(d)
         /\ day - 1 \in DOMAIN Fetched
<1> USE DEF DaysAssumption, Days
<1>1. day \in 1..LastDay /\ day - 1 \in 1..LastDay /\ day - 1 < day
  BY DEF DailyInv, TypeOK
<1>2. DOMAIN Fetched = {d \in Window : d < day \/ published}
  BY DEF Fetched
<1>3. \A d \in DOMAIN Fetched : Fetched[d] = Served(d)
  BY DEF Fetched
<1> QED BY <1>1, <1>2, <1>3 DEF Window

\* validate_bars rejects at most the bar of the ex-date, for a split nobody knows.
LEMMA WhatIsRejected ==
  ASSUME DaysAssumption, DailyInv
  PROVE  /\ SplitLike(Fetched) \subseteq {Ex}
         /\ SplitLike(Fetched) # {} => "split" \notin actions
         /\ Ex \in SplitLike(Fetched) => Ex \in DOMAIN Fetched
         /\ DOMAIN Clean(Fetched) = DOMAIN Fetched \ SplitLike(Fetched)
         /\ \A d \in DOMAIN Clean(Fetched) : Clean(Fetched)[d] = Served(d)
<1> USE DEF DaysAssumption, Days
<1>1. ASSUME NEW d \in SplitLike(Fetched)
      PROVE  d = Ex /\ d \in DOMAIN Fetched /\ "split" \notin actions
  <2>1. d \in DOMAIN Fetched /\ d - 1 \in DOMAIN Fetched /\ "split" \notin actions
        /\ Fetched[d - 1] - Fetched[d] = 1
    BY <1>1 DEF SplitLike
  <2>2. Served(d - 1) - Served(d) = 1 /\ d \in Int
    BY <2>1, WhatIsFetched
  <2>3. d - 1 < Ex /\ ~(d < Ex)
    BY <2>2 DEF Served
  <2> QED BY <2>1, <2>2, <2>3
<1>2. DOMAIN Clean(Fetched) = DOMAIN Fetched \ SplitLike(Fetched)
  BY DEF Clean
<1>3. \A d \in DOMAIN Clean(Fetched) : Clean(Fetched)[d] = Fetched[d]
  BY DEF Clean
<1> QED BY <1>1, <1>2, <1>3, WhatIsFetched

\* The daily bars after a fetch: what it answers with, and the rest as it was.
LEMMA BarsAfterFetch ==
  ASSUME DaysAssumption, DailyInv, bars' = Upsert(bars, Clean(Fetched))
  PROVE  /\ DOMAIN bars' = DOMAIN bars \cup (DOMAIN Fetched \ SplitLike(Fetched))
         /\ \A d \in DOMAIN Fetched \ SplitLike(Fetched) : bars'[d] = Served(d)
         /\ \A d \in DOMAIN bars' :
              d \notin DOMAIN Fetched \ SplitLike(Fetched) => d \in DOMAIN bars /\ bars'[d] = bars[d]
<1>1. DOMAIN Clean(Fetched) = DOMAIN Fetched \ SplitLike(Fetched)
  BY WhatIsRejected
<1>2. \A d \in DOMAIN Clean(Fetched) : Clean(Fetched)[d] = Served(d)
  BY WhatIsRejected
<1> QED BY <1>1, <1>2 DEF Upsert

\* Two bars next to the ex-date that are left alone leave the hypothesis as it was.
LEMMA CliffStays ==
  ASSUME bars' = bars, ratio' = ratio
  PROVE  SplitState' = SplitState
BY DEF SplitState, BarsBefore, BarsSince

-----------------------------------------------------------------------------
(* The steps.                                                              *)

LEMMA DailyInit == DaysAssumption /\ KindsAssumption /\ Init => DailyInv
<1> SUFFICES ASSUME DaysAssumption, KindsAssumption, Init PROVE DailyInv
  OBVIOUS
<1> USE DEF Init
<1>a. /\ LastDay \in Nat /\ FirstNight \in 1..LastDay /\ Ex \in 1..LastDay
      /\ 1 < FirstNight /\ FirstNight < Ex /\ MaxNights \in Nat /\ MaxDisruptions \in Nat
  BY DEF DaysAssumption, KindsAssumption, Days
<1>b. DOMAIN bars = 1..(FirstNight - 1) /\ \A d \in DOMAIN bars : bars[d] = 1
  OBVIOUS
<1>1. TypeOK
  <2>1. /\ day \in FirstNight..LastDay /\ nights \in 0..MaxNights /\ fullAt \in 0..LastDay
        /\ audits \in Nat /\ mishaps \in 0..MaxDisruptions
    BY <1>a
  <2>2. DOMAIN bars \subseteq Days /\ \A d \in DOMAIN bars : bars[d] \in Int /\ bars[d] <= 1
    BY <1>a, <1>b DEF Days
  <2>3. DOMAIN hourly \subseteq Days /\ \A d \in DOMAIN hourly : hourly[d] \in Int
    BY <2>2
  <2>4. /\ published \in BOOLEAN /\ adjusts \in BOOLEAN /\ hourlyRaw \in BOOLEAN /\ paid \in BOOLEAN
        /\ knew \in BOOLEAN /\ asked \in BOOLEAN
    OBVIOUS
  <2>5. /\ actions \subseteq {"old", "split", "dividend"} /\ answer \subseteq {"old", "split", "dividend"}
        /\ rejected \subseteq Days /\ pass \in {1, 2} /\ ratio \in Ratios /\ pc = "idle"
    OBVIOUS
  <2> QED BY <2>1, <2>2, <2>3, <2>4, <2>5 DEF TypeOK
<1>2. StoreIsOfItsDay /\ NewerBarsAreAdjustedFirst
  BY <1>a, <1>b DEF StoreIsOfItsDay, NewerBarsAreAdjustedFirst
<1>3. CliffIsReconciled /\ RejectsAreOfTheSplit /\ ActionsAreWhole /\ SecondPassLands
  BY DEF CliffIsReconciled, RejectsAreOfTheSplit, ActionsAreWhole, SecondPassLands
<1>4. RewritesAreAudited
  BY <1>a, <1>b DEF RewritesAreAudited
<1> QED BY <1>1, <1>2, <1>3, <1>4 DEF DailyInv

\* The calendar and the vendor move on under a store that stands still.
LEMMA WorldKeeps ==
  ASSUME DaysAssumption, DailyInv, NextDay \/ Publish \/ VendorAdjusts \/ PayDividend
  PROVE  DailyInv'
<1> USE DEF NextDay, Publish, VendorAdjusts, PayDividend, vendor, store, chain
<1>a. /\ LastDay \in Nat /\ FirstNight \in 1..LastDay /\ Ex \in 1..LastDay /\ Lookback \in Nat
      /\ MaxNights \in Nat /\ day \in Nat /\ (day' = day \/ (day < LastDay /\ day' = day + 1))
  BY DEF DaysAssumption, DailyInv, TypeOK, Days
<1>1. TypeOK'
  <2>1. day' \in FirstNight..LastDay /\ nights' \in 0..MaxNights
    BY <1>a DEF DailyInv, TypeOK
  <2>2. published' \in BOOLEAN /\ adjusts' \in BOOLEAN /\ hourlyRaw' \in BOOLEAN /\ paid' \in BOOLEAN
    BY DEF DailyInv, TypeOK
  <2> QED BY <2>1, <2>2 DEF DailyInv, TypeOK
<1>2. StoreIsOfItsDay'
  BY <1>a DEF DailyInv, StoreIsOfItsDay
<1>3. NewerBarsAreAdjustedFirst'
  BY DEF DailyInv, NewerBarsAreAdjustedFirst
<1>4. CliffIsReconciled'
  <2>1. day' - Ex <= ReconcileDays => day - Ex <= ReconcileDays
    BY <1>a DEF DaysAssumption
  <2> QED BY <2>1, CliffStays DEF DailyInv, CliffIsReconciled
<1>5. RejectsAreOfTheSplit'
  <2>1. rejected' = rejected /\ knew' = knew /\ bars' = bars
    OBVIOUS
  <2>2. rejected' \subseteq {Ex}
    BY <2>1 DEF DailyInv, RejectsAreOfTheSplit
  <2>3. ASSUME Ex \in rejected' PROVE day' > Ex \/ (day' = Ex /\ published')
    <3>1. day > Ex \/ (day = Ex /\ published)
      BY <2>1, <2>3 DEF DailyInv, RejectsAreOfTheSplit
    <3>2. CASE NextDay
      BY <1>a, <3>1, <3>2
    <3>3. CASE ~NextDay
      BY <1>a, <3>1, <3>3
    <3> QED BY <3>2, <3>3
  <2>4. ASSUME knew', Ex \in rejected', day' - Lookback <= Ex PROVE Ex \in DOMAIN bars'
    <3>1. day - Lookback <= Ex
      BY <1>a, <2>4
    <3> QED BY <2>1, <2>4, <3>1 DEF DailyInv, RejectsAreOfTheSplit
  <2> QED BY <2>2, <2>3, <2>4 DEF RejectsAreOfTheSplit
<1>6. ActionsAreWhole' /\ SecondPassLands'
  BY <1>a DEF DailyInv, ActionsAreWhole, SecondPassLands
<1>7. RewritesAreAudited'
  BY DEF DailyInv, RewritesAreAudited
<1> QED BY <1>1, <1>2, <1>3, <1>4, <1>5, <1>6, <1>7 DEF DailyInv

\* A chain starts, or is stopped between two steps.
LEMMA StartAndKillKeep ==
  ASSUME DaysAssumption, KindsAssumption, DailyInv, Start \/ Kill
  PROVE  DailyInv'
<1> USE DEF Start, Kill, Mishap, vendor, store
<1>1. TypeOK'
  <2>1. nights' \in 0..MaxNights /\ mishaps' \in 0..MaxDisruptions
    BY DEF DaysAssumption, KindsAssumption, DailyInv, TypeOK
  <2> QED BY <2>1 DEF DailyInv, TypeOK
<1>2. StoreIsOfItsDay'
  BY DEF DailyInv, StoreIsOfItsDay
<1>3. NewerBarsAreAdjustedFirst'
  BY DEF DailyInv, TypeOK, NewerBarsAreAdjustedFirst
<1>4. CliffIsReconciled'
  BY CliffStays DEF DailyInv, TypeOK, CliffIsReconciled
<1>5. RejectsAreOfTheSplit'
  BY DEF DailyInv, RejectsAreOfTheSplit
<1>6. ActionsAreWhole' /\ SecondPassLands'
  BY DEF DailyInv, TypeOK, ActionsAreWhole, SecondPassLands
<1>7. RewritesAreAudited'
  <2>1. audits' = audits /\ bars' = bars /\ bars[1] \in Int /\ audits \in Int /\ mishaps \in Int
    BY DEF DailyInv, TypeOK, StoreIsOfItsDay
  <2>2. CASE Start
    BY <2>1, <2>2 DEF DailyInv, RewritesAreAudited
  <2>3. CASE Kill
    BY <2>1, <2>3 DEF DailyInv, RewritesAreAudited
  <2> QED BY <2>2, <2>3
<1> QED BY <1>1, <1>2, <1>3, <1>4, <1>5, <1>6, <1>7 DEF DailyInv

\* A fetch writes what the vendor serves, but for the bar it rejects.
LEMMA FetchDailyKeeps ==
  ASSUME DaysAssumption, KindsAssumption, DailyInv, FetchDaily
  PROVE  DailyInv'
<1> DEFINE got == DOMAIN Fetched \ SplitLike(Fetched)
<1>a. /\ LastDay \in Nat /\ FirstNight \in 1..LastDay /\ Ex \in 1..LastDay /\ Lookback \in Nat
      /\ day \in FirstNight..LastDay /\ MaxDisruptions \in Nat
  BY DEF DaysAssumption, KindsAssumption, DailyInv, TypeOK, Days
<1>b. /\ got \subseteq Days
      /\ \A d \in got : d <= day /\ (d < day \/ published) /\ day - Lookback <= d
      /\ \A d \in Days : day - Lookback <= d /\ (d < day \/ (d = day /\ published))
                         /\ (d # Ex \/ "split" \in actions) => d \in got
  BY WhatIsFetched, WhatIsRejected
<1>c. /\ DOMAIN bars' = DOMAIN bars \cup got
      /\ \A d \in got : bars'[d] = Served(d)
      /\ \A d \in DOMAIN bars' : d \notin got => d \in DOMAIN bars /\ bars'[d] = bars[d]
  BY BarsAfterFetch DEF FetchDaily
<1>d. /\ pc = "daily" /\ pc' = "reconcile" /\ knew' = ("split" \in actions) /\ asked' = published
      /\ rejected' = rejected \cup SplitLike(Fetched)
      /\ UNCHANGED <<day, nights, ratio, vendor, hourly, actions, fullAt, audits, pass, answer>>
  BY WhatIsFetched DEF FetchDaily
<1>e. /\ mishaps' = mishaps \/ (mishaps' = mishaps + 1 /\ mishaps < MaxDisruptions)
      /\ mishaps' = mishaps => ~MeetsRawAgain
  BY DEF FetchDaily, Mishap, DailyInv, TypeOK
<1>f. \A d \in Days : Served(d) \in {0, 1} /\ (d >= Ex => Served(d) = 0)
                      /\ (d < Ex => Served(d) = IF day < Ex \/ ~adjusts THEN 1 ELSE 0)
  BY <1>a DEF Served, Days
<1> HIDE DEF got
<1>1. TypeOK'
  <2>1. DOMAIN bars' \subseteq Days /\ \A d \in DOMAIN bars' : bars'[d] \in Int /\ bars'[d] <= 1
    BY <1>b, <1>c, <1>f DEF DailyInv, TypeOK
  <2>2. mishaps' \in 0..MaxDisruptions
    BY <1>a, <1>e DEF DailyInv, TypeOK
  <2>3. rejected' \subseteq Days
    BY <1>d, WhatIsRejected, WhatIsFetched DEF DailyInv, TypeOK
  <2>4. knew' \in BOOLEAN /\ asked' \in BOOLEAN
    BY <1>d DEF DailyInv, TypeOK
  <2> QED BY <1>d, <2>1, <2>2, <2>3, <2>4 DEF DailyInv, TypeOK, vendor
<1>2. StoreIsOfItsDay'
  <2>1. 1 \in DOMAIN bars'
    BY <1>c DEF DailyInv, StoreIsOfItsDay
  <2>2. \A d \in DOMAIN bars' : d >= Ex => bars'[d] = 0
    BY <1>b, <1>c, <1>f DEF DailyInv, StoreIsOfItsDay
  <2>3. ASSUME day < Ex PROVE \A d \in DOMAIN bars' : bars'[d] = 1
    <3>1. \A d \in got : d < Ex
      BY <1>a, <1>b, <2>3 DEF Days
    <3> QED BY <1>b, <1>c, <1>f, <2>3, <3>1 DEF DailyInv, StoreIsOfItsDay
  <2> QED BY <1>d, <2>1, <2>2, <2>3 DEF DailyInv, StoreIsOfItsDay
<1>3. NewerBarsAreAdjustedFirst'
  <2> SUFFICES ASSUME mishaps' = 0
               PROVE  /\ \A d \in DOMAIN bars' : bars'[d] >= 0
                      /\ \A d, e \in DOMAIN bars' : d < e /\ e < Ex => bars'[d] >= bars'[e]
                      /\ ~adjusts' /\ audits' = 0 => \A d \in DOMAIN bars' : d < Ex => bars'[d] = 1
    BY DEF NewerBarsAreAdjustedFirst
  <2>1. mishaps = 0 /\ ~MeetsRawAgain
    BY <1>e DEF DailyInv, TypeOK
  <2>2. /\ \A d \in DOMAIN bars : bars[d] >= 0
        /\ \A d, e \in DOMAIN bars : d < e /\ e < Ex => bars[d] >= bars[e]
        /\ ~adjusts /\ audits = 0 => \A d \in DOMAIN bars : d < Ex => bars[d] = 1
    BY <1>d, <2>1 DEF DailyInv, NewerBarsAreAdjustedFirst
  <2>3. \A d \in DOMAIN bars' : bars'[d] >= 0
    BY <1>b, <1>c, <1>f, <2>2
  <2>4. ASSUME ~adjusts, audits = 0 PROVE \A d \in DOMAIN bars' : d < Ex => bars'[d] = 1
    BY <1>b, <1>c, <1>f, <2>2, <2>4
  <2>5. ASSUME NEW d \in DOMAIN bars', NEW e \in DOMAIN bars', d < e, e < Ex
        PROVE  bars'[d] >= bars'[e]
    <3>1. d \in Days /\ e \in Days
      BY <1>b, <1>c DEF DailyInv, TypeOK
    <3>2. CASE day < Ex
      BY <1>2, <1>d, <3>2 DEF StoreIsOfItsDay
    <3>3. CASE day >= Ex /\ ~adjusts /\ audits = 0
      <4>1. d < Ex
        BY <1>a, <2>5, <3>1 DEF Days
      <4> QED BY <2>4, <2>5, <3>3, <4>1
    <3>4. CASE day >= Ex /\ adjusts
      <4>1. CASE e \in got
        <5>1. bars'[e] = 0
          BY <1>a, <1>c, <1>f, <2>5, <3>1, <3>4, <4>1
        <5> QED BY <2>3, <5>1
      <4>2. CASE e \notin got
        <5>1. d \notin got
          BY <1>a, <1>b, <2>5, <3>1, <3>4, <4>2 DEF Days
        <5> QED BY <1>c, <2>2, <2>5, <4>2, <5>1
      <4> QED BY <4>1, <4>2
    <3>5. CASE day >= Ex /\ ~adjusts /\ audits # 0
      <4>1. Ex - 1 \notin Window
        BY <2>1, <3>5 DEF MeetsRawAgain, DailyInv, TypeOK
      <4>2. day - Lookback > Ex - 1
        BY <1>a, <3>5, <4>1 DEF Window, Days, DaysAssumption
      <4>3. d \notin got /\ e \notin got
        BY <1>a, <1>b, <2>5, <3>1, <4>2 DEF Days
      <4> QED BY <1>c, <2>2, <2>5, <4>3
    <3> QED BY <1>a, <3>2, <3>3, <3>4, <3>5
  <2> QED BY <1>d, <2>3, <2>4, <2>5 DEF vendor
<1>4. CliffIsReconciled'
  BY <1>d DEF CliffIsReconciled
<1>5. RejectsAreOfTheSplit'
  <2>1. rejected' \subseteq {Ex}
    BY <1>d, WhatIsRejected DEF DailyInv, RejectsAreOfTheSplit
  <2>2. ASSUME Ex \in rejected' PROVE day' > Ex \/ (day' = Ex /\ published')
    <3>1. CASE Ex \in rejected
      BY <1>d, <3>1 DEF DailyInv, RejectsAreOfTheSplit, vendor
    <3>2. CASE Ex \in SplitLike(Fetched)
      <4>1. Ex <= day /\ (Ex < day \/ published)
        BY <3>2, WhatIsRejected, WhatIsFetched
      <4> QED BY <1>a, <1>d, <4>1 DEF vendor
    <3> QED BY <1>d, <2>2, <3>1, <3>2
  <2>3. ASSUME knew', Ex \in rejected', day' - Lookback <= Ex PROVE Ex \in DOMAIN bars'
    <3>1. "split" \in actions
      BY <1>d, <2>3
    <3>2. day > Ex \/ (day = Ex /\ published)
      BY <1>d, <2>2, <2>3 DEF vendor
    <3>3. Ex \in got
      BY <1>a, <1>b, <1>d, <2>3, <3>1, <3>2 DEF Days
    <3> QED BY <1>c, <3>3
  <2> QED BY <2>1, <2>2, <2>3 DEF RejectsAreOfTheSplit
<1>6. ActionsAreWhole'
  <2>1. mishaps' = 0 => mishaps = 0
    BY <1>e DEF DailyInv, TypeOK
  <2> QED BY <1>d, <2>1 DEF DailyInv, ActionsAreWhole
<1>7. SecondPassLands'
  <2> SUFFICES ASSUME mishaps' = 0, pass = 2
               PROVE  (day >= Ex => "split" \in actions) /\ (published => day \in DOMAIN bars')
    BY <1>d DEF SecondPassLands
  <2>1. mishaps = 0
    BY <1>e DEF DailyInv, TypeOK
  <2>2. day >= Ex => "split" \in actions
    BY <1>d, <2>1 DEF DailyInv, SecondPassLands
  <2>3. ASSUME published PROVE day \in got
    BY <1>a, <1>b, <2>2, <2>3 DEF Days
  <2> QED BY <1>c, <2>2, <2>3
<1>8. RewritesAreAudited'
  <2> SUFFICES ASSUME Ex - Lookback > 1
               PROVE  /\ audits' <= 1 - bars'[1]
                      /\ 1 - bars'[1] <= audits' + mishaps'
    BY <1>d DEF RewritesAreAudited, DailyInv, TypeOK
  <2>1. /\ audits <= 1 - bars[1] /\ 1 - bars[1] <= audits + mishaps
    BY <1>d DEF DailyInv, RewritesAreAudited, TypeOK
  <2>2. audits' = audits /\ mishaps' >= mishaps /\ audits \in Nat /\ mishaps \in Nat
        /\ mishaps' \in Nat
    BY <1>a, <1>d, <1>e DEF DailyInv, TypeOK
  <2>3. bars'[1] = bars[1] /\ bars[1] \in Int
    <3>1. CASE day < Ex
      <4>1. bars[1] = 1
        BY <3>1 DEF DailyInv, StoreIsOfItsDay
      <4>2. 1 \in DOMAIN bars' /\ \A d \in DOMAIN bars' : bars'[d] = 1
        BY <1>2, <1>d, <3>1 DEF StoreIsOfItsDay
      <4>3. bars'[1] = 1
        BY <4>2
      <4> QED BY <4>1, <4>3
    <3>2. CASE day >= Ex
      <4>1. 1 \notin got
        BY <1>a, <1>b, <3>2
      <4> QED BY <1>c, <4>1 DEF DailyInv, StoreIsOfItsDay, TypeOK
    <3> QED BY <1>a, <3>1, <3>2
  <2> QED BY <2>1, <2>2, <2>3
<1> QED BY <1>1, <1>2, <1>3, <1>4, <1>5, <1>6, <1>7, <1>8 DEF DailyInv

\* A rewrite divides every bar before the split, where the two next to it show a cliff.
LEMMA ReconcileKeeps ==
  ASSUME DaysAssumption, KindsAssumption, DailyInv, Reconcile
  PROVE  DailyInv'
<1>a. /\ LastDay \in Nat /\ FirstNight \in 1..LastDay /\ Ex \in 1..LastDay /\ 1 < Ex
      /\ day \in FirstNight..LastDay
  BY DEF DaysAssumption, DailyInv, TypeOK, Days
<1>b. /\ pc = "reconcile"
      /\ UNCHANGED <<day, nights, ratio, vendor, hourly, actions, fullAt, audits, rejected,
                     pass, knew, asked, answer, mishaps>>
  BY DEF Reconcile
<1>1. CASE "split" \in actions /\ day - Ex <= ReconcileDays /\ SplitState = "unadjusted"
  <2>1. bars' = Divided /\ pc' = "audit"
    BY <1>1 DEF Reconcile
  <2>2. /\ DOMAIN bars' = DOMAIN bars
        /\ \A d \in DOMAIN bars' : bars'[d] = IF d < Ex THEN bars[d] - 1 ELSE bars[d]
    BY <2>1 DEF Divided
  <2>3. /\ Max(BarsBefore) \in BarsBefore /\ \A d \in BarsBefore : d <= Max(BarsBefore)
        /\ Min(BarsSince) \in BarsSince
        /\ bars[Max(BarsBefore)] - bars[Min(BarsSince)] = 1
    BY <1>1, CliffNextToEx DEF DailyInv
  <2>4. /\ BarsBefore \subseteq DOMAIN bars /\ BarsSince \subseteq DOMAIN bars
        /\ \A d \in BarsBefore : d < Ex
        /\ \A d \in BarsSince : d >= Ex
    BY DEF BarsBefore, BarsSince
  <2>5. bars[Min(BarsSince)] = 0 /\ bars[Max(BarsBefore)] = 1
    BY <2>3, <2>4 DEF DailyInv, StoreIsOfItsDay, TypeOK
  <2>6. day >= Ex
    BY <1>1, <1>a DEF DailyInv, StoreIsOfItsDay
  <2>7. TypeOK'
    <3>1. DOMAIN bars' \subseteq Days /\ \A d \in DOMAIN bars' : bars'[d] \in Int /\ bars'[d] <= 1
      BY <2>2 DEF DailyInv, TypeOK
    <3> QED BY <1>b, <2>1, <3>1 DEF DailyInv, TypeOK, vendor
  <2>8. StoreIsOfItsDay'
    BY <1>a, <1>b, <2>2, <2>6 DEF DailyInv, TypeOK, Days, StoreIsOfItsDay
  <2>9. NewerBarsAreAdjustedFirst'
    <3> SUFFICES ASSUME mishaps = 0
                 PROVE  /\ \A d \in DOMAIN bars' : bars'[d] >= 0
                        /\ \A d, e \in DOMAIN bars' : d < e /\ e < Ex => bars'[d] >= bars'[e]
      BY <1>b, <2>1 DEF NewerBarsAreAdjustedFirst
    <3>1. \A d \in DOMAIN bars : d < Ex => bars[d] = 1
      <4> SUFFICES ASSUME NEW d \in DOMAIN bars, d < Ex PROVE bars[d] = 1
        OBVIOUS
      <4>1. d \in BarsBefore /\ d <= Max(BarsBefore) /\ d \in Int /\ Max(BarsBefore) \in Int
        BY <2>3, <2>4 DEF BarsBefore, DailyInv, TypeOK, Days
      <4>2. bars[d] >= bars[Max(BarsBefore)]
        BY <2>3, <2>4, <4>1 DEF DailyInv, NewerBarsAreAdjustedFirst, TypeOK
      <4> QED BY <2>5, <4>2 DEF DailyInv, TypeOK
    <3>2. \A d \in DOMAIN bars' : bars'[d] = 0
      BY <1>a, <2>2, <3>1 DEF DailyInv, TypeOK, Days, StoreIsOfItsDay
    <3> QED BY <3>2
  <2>10. CliffIsReconciled'
    <3>1. BarsBefore' = BarsBefore /\ BarsSince' = BarsSince
      BY <2>2 DEF BarsBefore, BarsSince
    <3>2. bars'[Max(BarsBefore)] = 0 /\ bars'[Min(BarsSince)] = 0
      BY <2>2, <2>3, <2>4, <2>5, <1>a DEF DailyInv, TypeOK, Days
    <3>3. SplitState' # "unadjusted"
      <4>1. CASE ratio = "small"
        BY <1>b, <4>1 DEF SplitState
      <4>2. CASE ratio # "small"
        <5> DEFINE step == bars'[Max(BarsBefore')] - bars'[Min(BarsSince')]
        <5>1. step = 0
          BY <3>1, <3>2
        <5>2. SplitState' = CASE step = 1 -> "unadjusted" [] step = 0 -> "adjusted"
                              [] OTHER -> "unresolved"
          BY <1>b, <2>3, <3>1, <4>2 DEF SplitState
        <5> HIDE DEF step
        <5> QED BY <5>1, <5>2
      <4> QED BY <4>1, <4>2
    <3> QED BY <2>1, <3>3 DEF CliffIsReconciled
  <2>11. RejectsAreOfTheSplit'
    BY <1>b, <2>2 DEF DailyInv, RejectsAreOfTheSplit, vendor
  <2>12. ActionsAreWhole' /\ SecondPassLands'
    BY <1>b, <2>1, <2>2 DEF DailyInv, ActionsAreWhole, SecondPassLands
  <2>13. RewritesAreAudited'
    <3>1. bars'[1] = bars[1] - 1 /\ bars[1] \in Int /\ audits \in Nat /\ mishaps \in Nat
      BY <1>a, <2>2 DEF DailyInv, TypeOK, StoreIsOfItsDay
    <3> QED BY <1>b, <2>1, <3>1 DEF DailyInv, RewritesAreAudited
  <2> QED BY <2>7, <2>8, <2>9, <2>10, <2>11, <2>12, <2>13 DEF DailyInv
<1>2. CASE ~("split" \in actions /\ day - Ex <= ReconcileDays /\ SplitState = "unadjusted")
  <2>1. bars' = bars /\ pc' \in {"hourly", "idle"}
    BY <1>2 DEF Reconcile, AfterPass
  <2>2. TypeOK' /\ StoreIsOfItsDay' /\ NewerBarsAreAdjustedFirst'
    BY <1>b, <2>1 DEF DailyInv, TypeOK, StoreIsOfItsDay, NewerBarsAreAdjustedFirst, vendor
  <2>3. CliffIsReconciled'
    BY <1>2, <1>b, <2>1, CliffStays DEF DailyInv, CliffIsReconciled
  <2>4. RejectsAreOfTheSplit' /\ ActionsAreWhole' /\ SecondPassLands'
    BY <1>b, <2>1 DEF DailyInv, RejectsAreOfTheSplit, ActionsAreWhole, SecondPassLands, vendor
  <2>5. RewritesAreAudited'
    BY <1>b, <2>1 DEF DailyInv, RewritesAreAudited
  <2> QED BY <2>2, <2>3, <2>4, <2>5 DEF DailyInv
<1> QED BY <1>1, <1>2

\* The rest of the chain leaves the daily bars alone.
LEMMA RestOfChainKeeps ==
  ASSUME DaysAssumption, KindsAssumption, DailyInv,
         Audit \/ FetchHourly \/ FetchActions \/ WriteActions \/ SecondPass
  PROVE  DailyInv'
<1> USE DEF Audit, FetchHourly, FetchActions, WriteActions, SecondPass, AfterPass, vendor, store
<1>a. /\ LastDay \in Nat /\ FirstNight \in 1..LastDay /\ Ex \in 1..LastDay /\ 1 < FirstNight
      /\ day \in FirstNight..LastDay /\ MaxDisruptions \in Nat
  BY DEF DaysAssumption, KindsAssumption, DailyInv, TypeOK, Days
<1>b. UNCHANGED <<day, nights, ratio, published, adjusts, hourlyRaw, paid, bars, rejected, knew, asked>>
  OBVIOUS
<1>c. pc # "reconcile" /\ pc' # "reconcile" /\ pc' # "audit"
  OBVIOUS
<1>d. /\ mishaps' = mishaps \/ (mishaps' = mishaps + 1 /\ mishaps < MaxDisruptions)
      /\ mishaps' = 0 => mishaps = 0
  BY DEF Mishap, DailyInv, TypeOK
<1>1. TypeOK'
  <2>1. mishaps' \in 0..MaxDisruptions /\ audits' \in Nat /\ fullAt' \in 0..LastDay
    BY <1>a, <1>d DEF DailyInv, TypeOK
  <2>2. actions' \subseteq {"old", "split", "dividend"} /\ answer' \subseteq {"old", "split", "dividend"}
    BY DEF DailyInv, TypeOK, History, Recent
  <2>3. DOMAIN hourly' \subseteq Days /\ \A d \in DOMAIN hourly' : hourly'[d] \in Int
    <3>1. CASE FetchHourly
      <4>1. \A d \in DOMAIN HourlyBatch : HourlyBatch[d] = AdjustedHourly(d)
        BY DEF HourlyBatch
      <4>2. DOMAIN HourlyBatch \subseteq Days
        BY DEF HourlyBatch, Window
      <4>3. \A d : AdjustedHourly(d) \in Int
        BY DEF AdjustedHourly, ServedHourly
      <4> QED BY <3>1, <4>1, <4>2, <4>3 DEF Upsert, DailyInv, TypeOK
    <3>2. CASE ~FetchHourly
      BY <3>2 DEF DailyInv, TypeOK
    <3> QED BY <3>1, <3>2
  <2>4. pc' \in {"idle", "daily", "hourly", "actions", "write", "missing"} /\ pass' \in {1, 2}
    BY DEF DailyInv, TypeOK
  <2> QED BY <1>b, <2>1, <2>2, <2>3, <2>4 DEF DailyInv, TypeOK
<1>2. StoreIsOfItsDay'
  <2>1. day < Ex => "split" \notin actions' /\ "split" \notin answer'
    BY <1>a DEF DailyInv, StoreIsOfItsDay, History, Recent
  <2>2. day < Ex => audits' = 0
    BY DEF DailyInv, StoreIsOfItsDay
  <2> QED BY <1>b, <1>c, <2>1, <2>2 DEF DailyInv, StoreIsOfItsDay
<1>3. NewerBarsAreAdjustedFirst'
  <2>1. audits' = 0 => audits = 0 /\ pc # "audit"
    BY DEF DailyInv, TypeOK
  <2> QED BY <1>b, <1>d, <2>1 DEF DailyInv, NewerBarsAreAdjustedFirst
<1>4. CliffIsReconciled'
  BY <1>b, <1>c, <1>d, CliffStays DEF DailyInv, CliffIsReconciled
<1>5. RejectsAreOfTheSplit'
  BY <1>b DEF DailyInv, RejectsAreOfTheSplit
<1>6. ActionsAreWhole'
  <2> SUFFICES ASSUME mishaps' = 0 PROVE ActionsAreWhole'
    BY DEF ActionsAreWhole
  <2>1. CASE FetchActions
    <3>1. answer' = IF TakesIncremental THEN Recent ELSE History
      BY <2>1, <1>d DEF Mishap, DailyInv, TypeOK
    <3>2. TakesIncremental => "old" \in actions
      BY <2>1, <1>d DEF TakesIncremental, DailyInv, ActionsAreWhole
    <3>3. day >= Ex => "split" \in answer'
      BY <3>1 DEF History, Recent
    <3>4. "old" \in actions' \cup answer'
      BY <2>1, <3>1, <3>2 DEF History
    <3> QED BY <1>b, <1>d, <2>1, <3>3, <3>4 DEF DailyInv, ActionsAreWhole
  <2>2. CASE ~FetchActions
    BY <1>b, <1>d, <2>2 DEF DailyInv, ActionsAreWhole
  <2> QED BY <2>1, <2>2
<1>7. SecondPassLands'
  <2> SUFFICES ASSUME mishaps' = 0, pass' = 2, pc' = "daily"
               PROVE  day >= Ex => "split" \in actions
    BY <1>b, <1>c DEF SecondPassLands
  <2>1. SecondPass /\ pc = "missing"
    OBVIOUS
  <2> QED BY <1>d, <2>1 DEF DailyInv, ActionsAreWhole
<1>8. RewritesAreAudited'
  <2>1. bars[1] \in Int /\ audits \in Nat /\ mishaps \in Nat
    BY DEF DailyInv, TypeOK, StoreIsOfItsDay
  <2> QED BY <1>b, <1>c, <1>d, <2>1 DEF DailyInv, RewritesAreAudited
<1> QED BY <1>1, <1>2, <1>3, <1>4, <1>5, <1>6, <1>7, <1>8 DEF DailyInv

-----------------------------------------------------------------------------
(* The invariant, and what it gives.                                       *)

LEMMA DailyNext == DaysAssumption /\ KindsAssumption /\ DailyInv /\ [Next]_vars => DailyInv'
<1> SUFFICES ASSUME DaysAssumption, KindsAssumption, DailyInv, [Next]_vars PROVE DailyInv'
  OBVIOUS
<1>1. CASE NextDay \/ Publish \/ VendorAdjusts \/ PayDividend
  BY <1>1, WorldKeeps
<1>2. CASE Start \/ Kill
  BY <1>2, StartAndKillKeep
<1>3. CASE FetchDaily
  BY <1>3, FetchDailyKeeps
<1>4. CASE Reconcile
  BY <1>4, ReconcileKeeps
<1>5. CASE Audit \/ FetchHourly \/ FetchActions \/ WriteActions \/ SecondPass
  BY <1>5, RestOfChainKeeps
<1>6. CASE UNCHANGED vars
  <2>1. UNCHANGED <<day, nights, ratio, published, adjusts, hourlyRaw, paid, bars, hourly, actions,
                    fullAt, audits, rejected, pc, pass, knew, asked, answer, mishaps>>
    BY <1>6 DEF vars, vendor, store, chain
  <2>2. TypeOK' /\ StoreIsOfItsDay' /\ NewerBarsAreAdjustedFirst'
    BY <2>1 DEF DailyInv, TypeOK, StoreIsOfItsDay, NewerBarsAreAdjustedFirst
  <2>3. CliffIsReconciled' /\ RejectsAreOfTheSplit'
    BY <2>1, CliffStays DEF DailyInv, CliffIsReconciled, RejectsAreOfTheSplit
  <2>4. ActionsAreWhole' /\ SecondPassLands' /\ RewritesAreAudited'
    BY <2>1 DEF DailyInv, ActionsAreWhole, SecondPassLands, RewritesAreAudited
  <2> QED BY <2>2, <2>3, <2>4 DEF DailyInv
<1> QED BY <1>1, <1>2, <1>3, <1>4, <1>5, <1>6 DEF Next, Step

LEMMA DailyInvariant == DaysAssumption /\ KindsAssumption /\ Spec => []DailyInv
<1> SUFFICES ASSUME DaysAssumption, KindsAssumption PROVE Spec => []DailyInv
  OBVIOUS
<1>1. Init => DailyInv
  BY DailyInit
<1>2. DailyInv /\ [Next]_vars => DailyInv'
  BY DailyNext
<1> QED BY <1>1, <1>2, PTL DEF Spec

\* The invariant gives what is promised of the store.
LEMMA InvIsConsistent ==
  ASSUME DaysAssumption, DailyInv
  PROVE  BarsAreConsistent
<1>1. AdjustedOnceUnlessRaw
  BY DEF DailyInv, NewerBarsAreAdjustedFirst, AdjustedOnceUnlessRaw, AdjustedOnce
<1>2. NoCliffOnceKnown
  BY DEF DailyInv, CliffIsReconciled, NoCliffOnceKnown
<1>3. RejectsHeal
  <2> SUFFICES ASSUME knew, NEW d \in OpenRejects \cap DOMAIN Fetched PROVE FALSE
    BY DEF RejectsHeal
  <2>1. d = Ex /\ Ex \in rejected /\ Ex \notin DOMAIN bars
    BY DEF OpenRejects, DailyInv, RejectsAreOfTheSplit
  <2>2. day - Lookback <= Ex
    BY <2>1, WhatIsFetched
  <2> QED BY <2>1, <2>2 DEF DailyInv, RejectsAreOfTheSplit
<1>4. RewritesAreAudited /\ RowsMeanHistory
  BY DEF DailyInv, ActionsAreWhole, RowsMeanHistory
<1> QED BY <1>1, <1>2, <1>3, <1>4 DEF BarsAreConsistent

\* The stored history of a ticker stays on one scale, whatever the order of its chains
\* and of the vendor's steps: undisturbed, no bar is divided twice, a chain that knew
\* a recent split leaves no cliff, a rejected session comes back; and every rewrite has its
\* audit row but for those a kill came between (run_bars_daily, reconcile_daily_splits).
THEOREM DailyBarsStayConsistent ==
  ASSUME DaysAssumption, KindsAssumption
  PROVE  Spec => []BarsAreConsistent
<1>1. Spec => []DailyInv
  BY DailyInvariant
<1>2. DailyInv => BarsAreConsistent
  BY InvIsConsistent
<1> QED BY <1>1, <1>2, PTL

\* An hourly bar is written on the scale of its daily bar.
LEMMA HourlyStep ==
  ASSUME DaysAssumption, DailyInv, [Next]_vars
  PROVE  HourlyFollowsDaily
<1> SUFFICES ASSUME NEW d \in DOMAIN hourly', pc = "hourly", pc' = "actions",
                    d \in DOMAIN HourlyBatch, d \in DOMAIN bars, ratio # "small", bars[d] = 0
             PROVE  hourly'[d] = 0
  BY DEF HourlyFollowsDaily
<1>1. FetchHourly
  BY DEF Next, Step, NextDay, Publish, VendorAdjusts, PayDividend, Start, Kill, FetchDaily,
         Reconcile, Audit, FetchActions, WriteActions, SecondPass, vars, chain, AfterPass
<1>2. hourly'[d] = AdjustedHourly(d)
  BY <1>1 DEF FetchHourly, Upsert, HourlyBatch
<1>3. ~Escapes(d, AdjustedHourly(d))
  BY DEF HourlyBatch
<1>4. AdjustedHourly(d) <= 0 /\ AdjustedHourly(d) \in Int
  BY <1>3 DEF Escapes, AdjustedHourly, ServedHourly
<1>5. AdjustedHourly(d) >= 0
  BY DEF AdjustedHourly, ServedHourly, Divides
<1> QED BY <1>2, <1>4, <1>5

\* A chain that ends undisturbed has the session's bar.
LEMMA LandingStep ==
  ASSUME DaysAssumption, KindsAssumption, DailyInv, [Next]_vars
  PROVE  SessionBarLands
<1> SUFFICES ASSUME pc \in {"missing", "reconcile", "audit"}, pc' = "idle", mishaps' = 0,
                    asked, day - 1 \in DOMAIN bars
             PROVE  day \in DOMAIN bars'
  BY DEF SessionBarLands
<1>1. SecondPass \/ Reconcile \/ Audit
  <2>1. mishaps \in Nat
    BY DEF DailyInv, TypeOK, KindsAssumption
  <2>2. ~Kill
    <3>1. Kill => mishaps' = mishaps + 1
      BY DEF Kill, Mishap
    <3> QED BY <2>1, <3>1
  <2>3. ~(NextDay \/ Publish \/ VendorAdjusts \/ PayDividend \/ UNCHANGED vars)
    BY DEF NextDay, Publish, VendorAdjusts, PayDividend, vars, chain
  <2>4. ~(Start \/ FetchDaily \/ FetchHourly \/ FetchActions \/ WriteActions)
    BY DEF Start, FetchDaily, FetchHourly, FetchActions, WriteActions
  <2> QED BY <2>2, <2>3, <2>4 DEF Next, Step
<1>2. CASE SecondPass
  BY <1>2 DEF SecondPass, LacksSession, store
<1>3. CASE Reconcile \/ Audit
  <2>1. pass = 2 /\ mishaps = 0 /\ DOMAIN bars' = DOMAIN bars /\ pc \in {"reconcile", "audit"}
    BY <1>3 DEF Reconcile, Audit, AfterPass, Divided, DailyInv, TypeOK
  <2> QED BY <2>1 DEF DailyInv, SecondPassLands
<1> QED BY <1>1, <1>2, <1>3

\* Whatever a chain ends on, the session's bar is on file if the vendor had it when it was
\* last asked; and an hourly bar lands on the scale of its daily bar, whichever way the
\* vendor serves it (tickers_missing_session, _split_adjustment_factor).
THEOREM DailyBarsFollowTheVendor ==
  ASSUME DaysAssumption, KindsAssumption
  PROVE  Spec => BarsFollowTheVendor
<1>1. Spec => []DailyInv
  BY DailyInvariant
<1>2. DailyInv /\ [Next]_vars => SessionBarLands /\ HourlyFollowsDaily
  BY HourlyStep, LandingStep
<1>3. DailyInv /\ [Next]_vars => [SessionBarLands /\ HourlyFollowsDaily]_vars
  BY <1>2
<1> QED BY <1>1, <1>3, PTL DEF Spec, BarsFollowTheVendor

-----------------------------------------------------------------------------
(* FetchCache: the inductive invariant.                                    *)

Calls ==
  [kind : {"bars", "actions", "facts"}, tickers : SUBSET Tickers, from : F!Days, to : F!Days]

FetchTypes ==
  /\ today \in F!Days
  /\ served \in SUBSET F!Items /\ morning \in SUBSET served
  /\ call \in Calls /\ call.to <= today
  /\ at \in {"idle", "request", "store"} /\ losses \in Nat

VendorIsOnTime == \A item \in F!Items : item[2] + MaxDelay < today => item \in served

\* A file of bars holds all its window will ever have, one of today's actions what
\* was published by this morning.
FilesAreRight ==
  \A c \in Calls :
    F!Key(c) \in DOMAIN cache =>
      /\ c.kind = "bars" => cache[F!Key(c)] = F!Asked(c) /\ c.to + RecentDays < today
      /\ c.kind = "actions" =>
           c.to <= today /\ (c.to = today => morning \cap F!Asked(c) \subseteq cache[F!Key(c)])

\* And so does an answer still to be stored.
AnswerIsRight ==
  /\ at # "idle" /\ call.kind = "actions" => call.to = today
  /\ at = "store" =>
       /\ answered.status = "ok"
       /\ call.kind = "bars" => answered.items = F!Asked(call) /\ call.to + RecentDays < today

FetchInv ==
  /\ FetchTypes /\ VendorIsOnTime
  /\ losses = 0 =>
       /\ torn = {} /\ FilesAreRight /\ AnswerIsRight
       /\ call.kind = "actions" /\ answered.status = "ok" =>
            call.to = today /\ morning \cap F!Asked(call) \subseteq answered.items

-----------------------------------------------------------------------------
(* FetchCache: lemmas.                                                     *)

\* What is old enough is published.
LEMMA OldWindowsAreWhole ==
  ASSUME F!FetchAssumption, FetchTypes, VendorIsOnTime, NEW c \in Calls, c.to + RecentDays < today
  PROVE  F!Served(c) = F!Asked(c) /\ served \cap F!Asked(c) = F!Asked(c)
<1>1. /\ MaxDelay \in Nat /\ RecentDays \in Nat /\ MaxDelay <= RecentDays
      /\ LastDay \in Nat /\ today \in Nat
  BY DEF F!FetchAssumption, FetchTypes, F!Days
<1>2. c.tickers \subseteq Tickers /\ c.from \in 1..LastDay /\ c.to \in 1..LastDay
  BY DEF Calls, F!Days
<1>3. ASSUME NEW item \in F!Asked(c)
      PROVE  item \in served
  <2>1. item \in Tickers \X (1..LastDay) /\ item[2] \in 1..LastDay /\ item[2] <= c.to
    BY <1>1, <1>2 DEF F!Asked
  <2>2. item[2] + MaxDelay < today
    BY <1>1, <1>2, <2>1
  <2> QED BY <2>1, <2>2 DEF VendorIsOnTime, F!Items, F!Days
<1> QED BY <1>3 DEF F!Served

\* Questions with one key are of one kind, and ask the same.
LEMMA KeysTell ==
  ASSUME NEW c \in Calls, NEW e \in Calls, F!Key(c) = F!Key(e)
  PROVE  c.kind = e.kind /\ (c.kind # "facts" => c.to = e.to /\ F!Asked(c) = F!Asked(e))
BY DEF F!Key, Calls, F!Asked

LEMMA FetchInit == F!FetchAssumption /\ F!Init => FetchInv
<1> SUFFICES ASSUME F!FetchAssumption, F!Init PROVE FetchInv
  OBVIOUS
<1>1. LastDay \in Nat /\ LastDay >= 1 /\ 1 \in F!Days /\ MaxDelay \in Nat /\ RecentDays \in Nat
  BY DEF F!FetchAssumption, F!Days
<1>2. FetchTypes
  BY <1>1 DEF F!Init, FetchTypes, Calls
<1>3. VendorIsOnTime
  BY <1>1 DEF F!Init, VendorIsOnTime, F!Items, F!Days
<1>4. FilesAreRight /\ AnswerIsRight
  BY DEF F!Init, FilesAreRight, AnswerIsRight
<1> QED BY <1>2, <1>3, <1>4 DEF F!Init, FetchInv, F!NoAnswer

LEMMA WorldMoves ==
  ASSUME F!FetchAssumption, FetchInv, F!Publish \/ F!NextDay
  PROVE  FetchInv'
<1>1. /\ LastDay \in Nat /\ F!Days = 1..LastDay /\ MaxDelay \in Nat /\ RecentDays \in Nat
      /\ today \in Nat /\ today \in F!Days
  BY DEF F!FetchAssumption, FetchInv, FetchTypes, F!Days
<1>2. UNCHANGED <<cache, torn, call, at, losses>> /\ served \subseteq served'
  BY DEF F!Publish, F!NextDay
<1>3. CASE F!Publish
  <2>1. UNCHANGED <<today, morning, answered>> /\ served' \in SUBSET F!Items
    BY <1>3 DEF F!Publish, FetchInv, FetchTypes
  <2>2. FetchTypes' /\ VendorIsOnTime'
    BY <1>2, <2>1 DEF FetchInv, FetchTypes, VendorIsOnTime
  <2>3. FilesAreRight' <=> FilesAreRight
    BY <1>2, <2>1 DEF FilesAreRight, F!Key, F!Asked
  <2>4. AnswerIsRight' <=> AnswerIsRight
    BY <1>2, <2>1 DEF AnswerIsRight, F!Asked
  <2> QED BY <1>2, <2>1, <2>2, <2>3, <2>4 DEF FetchInv, F!Asked
<1>4. CASE F!NextDay
  <2>1. today' = today + 1 /\ today < LastDay /\ morning' = served /\ answered' = F!NoAnswer
        /\ served' = served /\ at = "idle"
    BY <1>4 DEF F!NextDay
  <2>2. FetchTypes'
    BY <1>1, <1>2, <2>1 DEF FetchInv, FetchTypes, Calls
  <2>3. VendorIsOnTime'
    BY <1>1, <1>4, <2>1 DEF F!NextDay, VendorIsOnTime, F!Items
  <2>4. FilesAreRight => FilesAreRight'
    <3>1. ASSUME FilesAreRight, NEW c \in Calls, F!Key(c) \in DOMAIN cache
          PROVE  /\ c.kind = "bars" => cache[F!Key(c)] = F!Asked(c) /\ c.to + RecentDays < today'
                 /\ c.kind = "actions" => c.to <= today' /\ c.to # today'
      <4>1. c.to \in Nat
        BY <1>1 DEF Calls
      <4> QED BY <1>1, <2>1, <3>1, <4>1 DEF FilesAreRight
    <3>2. Calls' = Calls /\ \A c : F!Key(c)' = F!Key(c) /\ F!Asked(c)' = F!Asked(c)
      BY DEF Calls, F!Key, F!Asked
    <3> QED BY <1>2, <3>1, <3>2 DEF FilesAreRight
  <2>5. AnswerIsRight'
    BY <1>2, <2>1 DEF AnswerIsRight
  <2> QED BY <1>2, <2>1, <2>2, <2>3, <2>4, <2>5 DEF FetchInv, F!NoAnswer
<1> QED BY <1>3, <1>4

LEMMA QuestionsAreCalls ==
  ASSUME F!FetchAssumption, FetchInv, NEW q \in F!Questions
  PROVE  q \in Calls /\ (q.kind = "actions" => q.to = today)
<1>1. 1 \in F!Days /\ today \in F!Days
  BY DEF F!FetchAssumption, FetchInv, FetchTypes, F!Days
<1> QED BY <1>1 DEF F!Questions, Calls

\* A window that is not asked anew has been recent long enough.
LEMMA NotRecentIsOld ==
  ASSUME F!FetchAssumption, FetchInv, NEW q \in Calls, q.kind = "bars", ~F!Bypasses(q)
  PROVE  q.to + RecentDays < today
<1>1. q.to \in Int /\ today \in Int /\ RecentDays \in Int
  BY DEF F!FetchAssumption, FetchInv, FetchTypes, F!Days, Calls
<1> QED BY <1>1 DEF F!Bypasses, F!WindowIsRecent

LEMMA AskKeeps == ASSUME F!FetchAssumption, FetchInv, F!Ask PROVE FetchInv'
<1>1. PICK q \in F!Questions :
        /\ q.to <= today /\ call' = q
        /\ IF ~F!Bypasses(q) /\ F!Key(q) \in torn
             THEN answered' = [status |-> "error", items |-> {}] /\ at' = "idle"
           ELSE IF ~F!Bypasses(q) /\ F!Key(q) \in DOMAIN cache
             THEN answered' = [status |-> "ok", items |-> cache[F!Key(q)]] /\ at' = "idle"
           ELSE answered' = F!NoAnswer /\ at' = "request"
  BY DEF F!Ask
<1>2. UNCHANGED <<today, served, cache, torn, morning, losses>>
  BY DEF F!Ask
<1>3. q \in Calls /\ (q.kind = "actions" => q.to = today)
  BY QuestionsAreCalls
<1>4. FetchTypes' /\ VendorIsOnTime'
  BY <1>1, <1>2, <1>3 DEF FetchInv, FetchTypes, VendorIsOnTime, Calls
<1>5. FilesAreRight' <=> FilesAreRight
  BY <1>2 DEF FilesAreRight, F!Key, F!Asked, Calls
<1>6. AnswerIsRight'
  BY <1>1, <1>2, <1>3 DEF AnswerIsRight
<1>7. ASSUME losses = 0, q.kind = "actions", answered'.status = "ok"
      PROVE  morning \cap F!Asked(q) \subseteq answered'.items
  <2>1. F!Key(q) \in DOMAIN cache /\ answered'.items = cache[F!Key(q)]
    BY <1>1, <1>7 DEF F!NoAnswer, FetchInv
  <2> QED BY <1>3, <1>7, <2>1 DEF FetchInv, FilesAreRight
<1>8. F!Asked(q)' = F!Asked(q)
  BY DEF F!Asked
<1> QED BY <1>1, <1>2, <1>3, <1>4, <1>5, <1>6, <1>7, <1>8 DEF FetchInv, F!Asked

\* What a request that goes well is answered with.
LEMMA WholeResponse ==
  ASSUME F!FetchAssumption, FetchInv, F!Respond, losses' = 0
  PROVE  losses = 0 /\ F!Deliver(F!Served(call))
<1>1. losses \in Nat /\ at = "request" /\ (losses' = losses \/ losses' = losses + 1)
  BY DEF F!Respond, F!Mishap, FetchInv, FetchTypes
<1>2. losses = 0 /\ losses' # losses + 1
  BY <1>1
<1>3. \A t : ~F!Mishap("nan")
  BY <1>2 DEF F!Mishap
<1> QED BY <1>2, <1>3 DEF F!Respond

LEMMA RespondKeeps == ASSUME F!FetchAssumption, FetchInv, F!Respond PROVE FetchInv'
<1>1. UNCHANGED <<today, served, cache, torn, call, morning>> /\ at = "request"
  BY DEF F!Respond
<1>2. at' \in {"idle", "store"} /\ losses' \in Nat
  BY DEF F!Respond, F!Deliver, F!Mishap, FetchInv, FetchTypes
<1>3. FetchTypes' /\ VendorIsOnTime'
  BY <1>1, <1>2 DEF FetchInv, FetchTypes, VendorIsOnTime, Calls
<1>4. FilesAreRight' <=> FilesAreRight
  BY <1>1 DEF FilesAreRight, F!Key, F!Asked, Calls
<1>5. ASSUME losses' = 0
      PROVE  /\ AnswerIsRight'
             /\ call.kind = "actions" => call.to = today /\ morning \cap F!Asked(call) \subseteq answered'.items
  <2>1. losses = 0 /\ answered' = [status |-> "ok", items |-> F!Served(call)]
        /\ at' = IF F!Bypasses(call) THEN "idle" ELSE "store"
    BY <1>5, WholeResponse DEF F!Deliver
  <2>2. call.kind = "actions" => call.to = today /\ morning \cap F!Asked(call) \subseteq answered'.items
    BY <1>1, <2>1 DEF FetchInv, AnswerIsRight, FetchTypes, F!Served
  <2>3. at' = "store" /\ call.kind = "bars" => F!Served(call) = F!Asked(call) /\ call.to + RecentDays < today
    BY <2>1, NotRecentIsOld, OldWindowsAreWhole DEF FetchInv, FetchTypes
  <2>4. F!Asked(call') = F!Asked(call)
    BY <1>1
  <2> QED BY <1>1, <2>1, <2>2, <2>3, <2>4 DEF AnswerIsRight
<1>6. losses' = 0 => losses = 0
  BY WholeResponse
<1> QED BY <1>1, <1>3, <1>4, <1>5, <1>6 DEF FetchInv, F!Asked

\* A mishap ends what is promised.
LEMMA MishapKeeps ==
  ASSUME FetchInv, UNCHANGED <<today, served, call, morning>>, losses' = losses + 1,
         at' \in {"idle", "request"}
  PROVE  FetchInv'
BY DEF FetchInv, FetchTypes, VendorIsOnTime, Calls

LEMMA StoreKeeps == ASSUME F!FetchAssumption, FetchInv, F!Store PROVE FetchInv'
<1>1. /\ UNCHANGED <<today, served, torn, call, answered, morning, losses>> /\ at = "store" /\ at' = "idle"
      /\ cache' = [k \in DOMAIN cache \cup {F!Key(call)} |->
                     IF k = F!Key(call) THEN answered.items ELSE cache[k]]
  BY DEF F!Store
<1>2. FetchTypes' /\ VendorIsOnTime'
  BY <1>1 DEF FetchInv, FetchTypes, VendorIsOnTime, Calls
<1>3. AnswerIsRight'
  BY <1>1 DEF AnswerIsRight
<1>4. ASSUME losses = 0
      PROVE  FilesAreRight'
  <2>1. call \in Calls /\ FilesAreRight /\ AnswerIsRight
        /\ (call.kind = "actions" => call.to = today /\ morning \cap F!Asked(call) \subseteq answered.items)
        /\ call.to <= today
    BY <1>1, <1>4 DEF FetchInv, FetchTypes, AnswerIsRight
  <2>2. ASSUME NEW c \in Calls, F!Key(c) \in DOMAIN cache'
        PROVE  /\ c.kind = "bars" => cache'[F!Key(c)] = F!Asked(c) /\ c.to + RecentDays < today
               /\ c.kind = "actions" =>
                    c.to <= today /\ (c.to = today => morning \cap F!Asked(c) \subseteq cache'[F!Key(c)])
    <3>1. CASE F!Key(c) = F!Key(call)
      <4>1. c.kind = call.kind /\ (c.kind # "facts" => c.to = call.to /\ F!Asked(c) = F!Asked(call))
        BY <2>1, <3>1, KeysTell
      <4>2. cache'[F!Key(c)] = answered.items
        BY <1>1, <3>1
      <4> QED BY <1>1, <2>1, <4>1, <4>2 DEF AnswerIsRight
    <3>2. CASE F!Key(c) # F!Key(call)
      <4>1. F!Key(c) \in DOMAIN cache /\ cache'[F!Key(c)] = cache[F!Key(c)]
        BY <1>1, <2>2, <3>2
      <4> QED BY <2>1, <4>1 DEF FilesAreRight
    <3> QED BY <3>1, <3>2
  <2>3. Calls' = Calls /\ \A c : F!Key(c)' = F!Key(c) /\ F!Asked(c)' = F!Asked(c)
    BY DEF Calls, F!Key, F!Asked
  <2> QED BY <1>1, <2>2, <2>3 DEF FilesAreRight
<1> QED BY <1>1, <1>2, <1>3, <1>4 DEF FetchInv, F!Asked

LEMMA FetchNext == F!FetchAssumption /\ FetchInv /\ [F!Next]_(F!vars) => FetchInv'
<1> SUFFICES ASSUME F!FetchAssumption, FetchInv, [F!Next]_(F!vars) PROVE FetchInv'
  OBVIOUS
<1>1. CASE UNCHANGED F!vars
  <2>1. UNCHANGED <<today, served, cache, torn, call, answered, morning, at, losses>>
    BY <1>1 DEF F!vars
  <2>2. /\ FetchTypes' /\ VendorIsOnTime'
        /\ FilesAreRight' <=> FilesAreRight
        /\ AnswerIsRight' <=> AnswerIsRight
    BY <2>1 DEF FetchInv, FetchTypes, VendorIsOnTime, FilesAreRight, AnswerIsRight, F!Key, F!Asked, Calls
  <2> QED BY <2>1, <2>2 DEF FetchInv, F!Asked
<1>2. CASE F!Publish \/ F!NextDay
  BY <1>2, WorldMoves
<1>3. CASE F!FailTransiently
  <2>1. UNCHANGED <<today, served, call, morning>> /\ losses' = losses + 1 /\ at' \in {"idle", "request"}
    BY <1>3 DEF F!FailTransiently, F!Mishap
  <2> QED BY <2>1, MishapKeeps
<1>4. CASE F!FailForGood
  <2>1. UNCHANGED <<today, served, call, morning>> /\ losses' = losses + 1 /\ at' = "idle"
    BY <1>4 DEF F!FailForGood, F!Mishap
  <2> QED BY <2>1, MishapKeeps
<1>5. CASE F!KillWhileStoring
  <2>1. UNCHANGED <<today, served, call, morning>> /\ losses' = losses + 1 /\ at' = "idle"
    BY <1>5 DEF F!KillWhileStoring, F!Mishap
  <2> QED BY <2>1, MishapKeeps
<1>6. CASE F!Ask
  BY <1>6, AskKeeps
<1>7. CASE F!Respond
  BY <1>7, RespondKeeps
<1>8. CASE F!Store
  BY <1>8, StoreKeeps
<1> QED BY <1>1, <1>2, <1>3, <1>4, <1>5, <1>6, <1>7, <1>8 DEF F!Next

\* A step that answers answers with what is published.
LEMMA AnswersStep == F!FetchAssumption /\ FetchInv /\ [F!Next]_(F!vars) => F!BarsAreCurrent
<1> SUFFICES ASSUME F!FetchAssumption, FetchInv, [F!Next]_(F!vars), call'.kind = "bars",
                    answered'.status = "ok", answered # answered', losses' = 0
             PROVE  answered'.items = served \cap F!Asked(call')
  BY DEF F!BarsAreCurrent
<1>1. CASE F!Ask
  <2>1. PICK q \in F!Questions :
          /\ call' = q /\ answered'.items = cache[F!Key(q)] /\ F!Key(q) \in DOMAIN cache /\ losses' = losses
    BY <1>1 DEF F!Ask, F!NoAnswer
  <2>2. q \in Calls
    BY QuestionsAreCalls
  <2>3. cache[F!Key(q)] = F!Asked(q) /\ q.to + RecentDays < today
    BY <2>1, <2>2 DEF FetchInv, FilesAreRight
  <2>4. served \cap F!Asked(q) = F!Asked(q)
    BY <2>2, <2>3, OldWindowsAreWhole DEF FetchInv
  <2> QED BY <2>1, <2>3, <2>4
<1>2. CASE F!Respond
  <2>1. answered'.items = F!Served(call) /\ call' = call
    BY <1>2, WholeResponse DEF F!Deliver, F!Respond
  <2> QED BY <2>1 DEF F!Served
<1>3. CASE ~F!Ask /\ ~F!Respond
  BY <1>3 DEF F!Next, F!vars, F!Publish, F!NextDay, F!NoAnswer, F!FailTransiently, F!FailForGood, F!Store,
              F!KillWhileStoring
<1> QED BY <1>1, <1>2, <1>3

\* For any window the vendor may lag in and any delay within it: a window of bars is
\* answered with all the vendor published, by the disk as by the vendor, and the
\* actions of today with what it had published by this morning (jobs/fetch: the
\* bypass of _window_is_recent, and the dates in the keys).
THEOREM AnswersAreNotStale ==
  ASSUME F!FetchAssumption
  PROVE  F!Spec => [][F!BarsAreCurrent]_(F!vars) /\ []F!ActionsAreOfToday
<1>1. F!Init => FetchInv
  BY FetchInit
<1>2. FetchInv /\ [F!Next]_(F!vars) => FetchInv'
  BY FetchNext
<1>3. FetchInv => F!ActionsAreOfToday
  BY DEF FetchInv, F!ActionsAreOfToday
<1>4. FetchInv /\ [F!Next]_(F!vars) => F!BarsAreCurrent
  BY AnswersStep
<1> QED BY <1>1, <1>2, <1>3, <1>4, PTL DEF F!Spec
==============================================================================
