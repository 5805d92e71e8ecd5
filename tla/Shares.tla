------------------------------- MODULE Shares --------------------------------
(***************************************************************************)
(* run_shares for one ticker, night after night: SEC's filed share counts, *)
(* and Yahoo's dated series where SEC's stop. A night is a chain of steps: *)
(* read both sources, one upsert, one ledger write, the rejects.           *)
(*                                                                         *)
(* A fact is one filed count: when it was filed, its accession, and a      *)
(* count that is plain, scaled (tagged a thousandfold, and still inside    *)
(* the absolute band) or absurd (outside it). Whether a scaled one is an   *)
(* error is judged anew every night, by the filings next to it. Left out:  *)
(* the period a fact describes (it orders the facts of one day before the  *)
(* accession does), how plain counts differ (by less than the ratio of the *)
(* guard), and a fund's net assets (one row of the same ledger).           *)
(***************************************************************************)
EXTENDS Integers, FiniteSets, FiniteSetsExt

CONSTANTS
  LastDay,         \* bound: days are 1..LastDay
  MaxFacts,        \* bound: facts filed
  StalenessDays,   \* SHARES_STALENESS_DAYS
  RefetchDays,     \* SHARES_YAHOO_REFETCH_DAYS
  ScaleWindow,     \* SharesPlausibility.scale_window, in filings to either side
  MinFilings,      \* SharesPlausibility.min_filings_for_scale_check
  Disruptions,     \* "kill", "raise", "notfound"
  MaxDisruptions   \* bound: how many times something goes wrong

SharesAssumption ==
  /\ LastDay \in Nat /\ MaxFacts \in Nat /\ StalenessDays \in Nat /\ RefetchDays \in Nat
  /\ ScaleWindow \in Nat \ {0} /\ MinFilings \in Nat
  /\ Disruptions \subseteq {"kill", "raise", "notfound"} /\ MaxDisruptions \in Nat

VARIABLES
  today,
  facts,       \* what SEC has on file for the CIK
  depositary,  \* the listing is priced per receipt
  shares,      \* shares_outstanding: a function from filing days to rows
  ledger,      \* fetch_ledger: the day of the last Yahoo fetch, 0 if none
  best,        \* this night's fact for each filing day
  rejected,    \* the filing days whose fact the guard of this night took for an error
  missing,     \* this night SEC had no document for the CIK
  batch,       \* the rows this night will upsert
  attempted,   \* Yahoo answered this night
  pc, mishaps

vars == <<today, facts, depositary, shares, ledger, best, rejected, missing, batch, attempted, pc, mishaps>>

Mishap(kind) == kind \in Disruptions /\ mishaps < MaxDisruptions /\ mishaps' = mishaps + 1

Row(source, accn) == [source |-> source, accn |-> accn]

\* An upsert of a batch: its rows replace those of the same days.
Over(new, rows) ==
  [d \in DOMAIN new \cup DOMAIN rows |-> IF d \in DOMAIN new THEN new[d] ELSE rows[d]]

-----------------------------------------------------------------------------

Counts == {"plain", "scaled", "absurd"}

Latest(filings) == CHOOSE f \in filings : \A g \in filings : g.accn <= f.accn

\* One fact for each filing day: one outside the band is dropped before the choice,
\* and an amendment's later accession wins.
InBand(known) == {f \in known : f.count # "absurd"}
FiledOn(known, d) == {f \in InBand(known) : f.filed = d}
Chosen(known) == [d \in {f.filed : f \in InBand(known)} |-> Latest(FiledOn(known, d))]

\* Mutant: the ticker's own median decides, over its whole series.
AllOthers(days, d) == days \ {d}

\* The filings at most ScaleWindow places from the one of day d.
Between(days, d, e) == {x \in days : (d < x /\ x < e) \/ (e < x /\ x < d)}
Neighbours(days, d) == {e \in days \ {d} : Cardinality(Between(days, d, e)) < ScaleWindow}

\* scale_error_indices. The median of the neighbours is a plain count exactly where
\* most of them are; in a tie it lies halfway, where a scaled count is no outlier.
OutOfLine(chosen, d) ==
  LET near  == Neighbours(DOMAIN chosen, d)
      plain == {e \in near : chosen[e].count = "plain"}
  IN  chosen[d].count = "scaled" /\ 2 * Cardinality(plain) > Cardinality(near)

ScaleErrors(chosen) ==
  {d \in DOMAIN chosen : Cardinality(DOMAIN chosen) >= MinFilings /\ OutOfLine(chosen, d)}

\* The series is judged after the choice, so a day that is rejected has no second fact.
Best(known) ==
  LET chosen == Chosen(known)
  IN  [d \in DOMAIN chosen \ ScaleErrors(chosen) |-> Row("sec", chosen[d].accn)]

SecIsCurrent ==
  DOMAIN best # {} /\ today - Max(DOMAIN best) <= StalenessDays /\ ~depositary

YahooIsFresh == ledger # 0 /\ today - ledger <= RefetchDays

Init ==
  /\ today = 1 /\ facts = {} /\ depositary \in BOOLEAN
  /\ shares = <<>> /\ ledger = 0
  /\ best = <<>> /\ rejected = {} /\ missing = FALSE /\ batch = <<>> /\ attempted = FALSE
  /\ pc = "idle" /\ mishaps = 0

NextDay ==
  /\ pc = "idle" /\ today < LastDay /\ today' = today + 1
  /\ UNCHANGED <<facts, depositary, shares, ledger, best, rejected, missing, batch, attempted, pc, mishaps>>

File ==
  /\ Cardinality(facts) < MaxFacts
  /\ \E count \in Counts :
       facts' = facts \cup {[filed |-> today, accn |-> Cardinality(facts) + 1, count |-> count]}
  /\ UNCHANGED <<today, depositary, shares, ledger, best, rejected, missing, batch, attempted, pc, mishaps>>

\* companyfacts. A CIK without a document is a skip, not a failure.
ReadFacts ==
  /\ pc = "idle"
  /\ \/ /\ best' = Best(facts) /\ rejected' = ScaleErrors(Chosen(facts))
        /\ missing' = FALSE /\ UNCHANGED mishaps
     \/ best' = <<>> /\ rejected' = {} /\ missing' = TRUE /\ Mishap("notfound")
  /\ batch' = best' /\ attempted' = FALSE
  /\ pc' = "yahoo"
  /\ UNCHANGED <<today, facts, depositary, shares, ledger>>

\* Mutant: SEC's days are strings and Yahoo's are dates, so none is equal.
TakenDaysRaw == {}

\* existing_keys: the days this night's SEC rows already speak for.
TakenDays == DOMAIN best

Point(d) == Row("yahoo", 0)

\* The dated series, one point a day, behind the SEC rows of the same day.
ReadYahoo ==
  /\ pc = "yahoo"
  /\ \/ /\ SecIsCurrent \/ YahooIsFresh
        /\ UNCHANGED <<batch, attempted, mishaps>>
     \/ /\ ~(SecIsCurrent \/ YahooIsFresh)
        /\ \/ /\ batch' = Over([d \in (1..today) \ TakenDays |-> Point(d)], batch)
              /\ attempted' = TRUE /\ UNCHANGED mishaps
           \/ Mishap("raise") /\ UNCHANGED <<batch, attempted>>
  /\ pc' = "write"
  /\ UNCHANGED <<today, facts, depositary, shares, ledger, best, rejected, missing>>

\* Whole rows are replaced.
Write ==
  /\ pc = "write"
  /\ shares' = Over(batch, shares)
  /\ pc' = "ledger"
  /\ UNCHANGED <<today, facts, depositary, ledger, best, rejected, missing, batch, attempted, mishaps>>

\* Only a fetch that did not raise, and only after its rows are written.
RecordFetch ==
  /\ pc = "ledger"
  /\ ledger' = IF attempted THEN today ELSE ledger
  /\ pc' = "idle"
  /\ UNCHANGED <<today, facts, depositary, shares, best, rejected, missing, batch, attempted, mishaps>>

Kill ==
  /\ pc # "idle" /\ Mishap("kill") /\ pc' = "idle"
  /\ UNCHANGED <<today, facts, depositary, shares, ledger, best, rejected, missing, batch, attempted>>

Next == NextDay \/ File \/ ReadFacts \/ ReadYahoo \/ Write \/ RecordFetch \/ Kill

Spec == Init /\ [][Next]_vars

-----------------------------------------------------------------------------

\* A ticker the ledger calls fetched has every point Yahoo served that day on
\* file, through kills and failed fetches: the week in which it is not asked
\* again hides nothing.
FetchedMeansWritten == \A d \in 1..ledger : d \in DOMAIN shares

\* A count on file is only ever replaced by SEC's: an estimate by the filing of its
\* day, a filing by its amendment. Two things let an estimate replace a filing: a
\* night that cannot read SEC's document, and a night whose guard takes the filing for
\* a scale error that an earlier night, with fewer filings after it, had let in.
FiledBeatsEstimated ==
  \A d \in DOMAIN shares :
    (shares'[d] # shares[d] /\ ~missing /\ d \notin rejected)
    => shares'[d].source = "sec" /\ shares'[d].accn > shares[d].accn

\* What the guard says of a filing is final once a window of later filings lies before
\* today in a series long enough to be judged: no count filed after that moves it
\* (a local window, not the ticker's own median). Until then it may change.
LaterThan(d) == {e \in DOMAIN Chosen(facts) : d < e /\ e < today}

Settled(d) ==
  Cardinality(DOMAIN Chosen(facts)) >= MinFilings /\ Cardinality(LaterThan(d)) >= ScaleWindow

VerdictsSettle ==
  \A d \in DOMAIN Chosen(facts) :
    Settled(d) => (d \in ScaleErrors(Chosen(facts)))' = (d \in ScaleErrors(Chosen(facts)))
=============================================================================
