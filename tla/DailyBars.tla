------------------------------ MODULE DailyBars ------------------------------
(***************************************************************************)
(* The price half of the nightly ingest for one ticker: run_bars_daily     *)
(* with its split reconciliation, run_bars_hourly, run_actions and the     *)
(* second pass for a session bar the vendor had not published.             *)
(*                                                                         *)
(* Days are trading days. One split goes ex on day Ex. A price is          *)
(* abstracted to its scale: the power of the split's ratio by which it     *)
(* exceeds the price in today's shares. A raw price of a day before Ex has *)
(* scale 1, an adjusted one scale 0, one adjusted twice scale -1.          *)
(* Each step is a vendor call or a transaction, except that the rejects,   *)
(* the bars and the coverage of one fetch are three transactions and one   *)
(* step here (TickerTable has the bars and the coverage apart).            *)
(* Left out: the bars of other tickers, dividends' effect on adj_close,    *)
(* zero-volume and range checks (they do not depend on the scale), and     *)
(* the calendar's weekends, on which the price fetchers do not run.        *)
(***************************************************************************)
EXTENDS Integers, FiniteSets, FiniteSetsExt

CONSTANTS
  LastDay,       \* bound: days are 1..LastDay
  FirstNight,    \* the first night of the instance; earlier bars are on file
  Ex,            \* the ex-date
  Lookback,      \* sessions the nightly window reaches back
  LedgerDays,    \* ACTIONS_FULL_REFETCH_DAYS
  ReconcileDays, \* SPLIT_RECONCILE_DAYS
  MaxNights,     \* bound: chains started on one day (13:15, 19:00, 05:30)
  Ratios,        \* the kinds of ratio: see RatioKinds
  Disruptions,   \* what may go wrong in this instance
  MaxDisruptions \* bound: how many times something goes wrong

RatioKinds ==
  { "plain",   \* 2, 3, ...: a split-like move, and far enough from 1
    "odd",     \* 2.793: a large move that is not in SPLIT_RATIOS
    "small" }  \* 1.1: inside MIN_DETECTABLE_SPLIT_DISTANCE of 1

DisruptionKinds ==
  { "kill",    \* the unit is stopped between two steps
    "empty",   \* the vendor answers a full actions request with nothing
    "raw" }    \* the vendor still serves the raw history to a later night

Days == 1..LastDay

DaysAssumption ==
  /\ LastDay \in Nat /\ FirstNight \in Days /\ Ex \in Days /\ 1 < FirstNight /\ FirstNight < Ex
  /\ Lookback \in Nat \ {0} /\ {LedgerDays, ReconcileDays} \subseteq Nat /\ MaxNights \in Nat \ {0}
KindsAssumption ==
  Ratios \subseteq RatioKinds /\ Disruptions \subseteq DisruptionKinds /\ MaxDisruptions \in Nat

VARIABLES
  day,        \* today
  nights,     \* chains started today
  ratio,      \* the kind of the split's ratio
  published,  \* the vendor serves today's settled bar
  adjusts,    \* the vendor serves the daily history in new shares
  hourlyRaw,  \* the vendor serves the hourly history in old shares
  bars,       \* the stored daily bars: a function from days to scales
  hourly,     \* the stored hourly bars, by day
  actions,    \* corporate_actions: "old" (a split of long ago), "split", "dividend"
  paid,       \* a dividend has gone ex in the last 30 days
  fullAt,     \* fetch_ledger: the day of the last full actions fetch, 0 if none
  answer,     \* the actions fetched and not yet written
  audits,     \* vendor_split_unadjusted rows in bar_rejects
  rejected,   \* days with a hard reject in bar_rejects
  pc,         \* where the chain is
  pass,       \* 1, or 2 in the second pass
  knew,       \* corporate_actions held the split when the last pass began
  asked,      \* the last fetch of this chain found the session published
  mishaps     \* disruptions so far

vendor == <<published, adjusts, hourlyRaw, paid>>
store  == <<bars, hourly, actions, fullAt, audits, rejected>>
chain  == <<pc, pass, knew, asked, answer>>
vars   == <<day, nights, ratio, vendor, store, chain, mishaps>>

Mishap(kind) ==
  /\ kind \in Disruptions
  /\ mishaps < MaxDisruptions
  /\ mishaps' = mishaps + 1

Upsert(f, g) == [d \in DOMAIN f \cup DOMAIN g |-> IF d \in DOMAIN g THEN g[d] ELSE f[d]]

-----------------------------------------------------------------------------
(* The vendor.                                                             *)

Window == {d \in Days : day - Lookback <= d /\ d <= day}

\* The scale the daily endpoint serves day d at.
Served(d) == IF d < Ex /\ (day < Ex \/ ~adjusts) THEN 1 ELSE 0

\* One request over the window; today's bar is missing until it is published.
Fetched == [d \in {d \in Window : d < day \/ published} |-> Served(d)]

\* validate_bars: a move of the split's size between two bars of one batch that no known
\* split explains, and that looks like one: the later bar is rejected.
SplitLike(batch) ==
  {d \in DOMAIN batch :
     /\ d - 1 \in DOMAIN batch
     /\ batch[d - 1] - batch[d] = 1
     /\ ratio = "plain"
     /\ "split" \notin actions}

Clean(batch) == [d \in DOMAIN batch \ SplitLike(batch) |-> batch[d]]

-----------------------------------------------------------------------------
(* Split reconciliation.                                                   *)

BarsBefore == {d \in DOMAIN bars : d < Ex}
BarsSince  == {d \in DOMAIN bars : d >= Ex}

\* daily_split_state on the two bars next to the ex-date. A ratio near 1 is
\* never told from noise; any other step is neither hypothesis.
SplitState ==
  IF BarsBefore = {} \/ BarsSince = {} \/ ratio = "small" THEN "unresolved"
  ELSE LET step == bars[Max(BarsBefore)] - bars[Min(BarsSince)]
       IN CASE step = 1 -> "unadjusted" [] step = 0 -> "adjusted" [] OTHER -> "unresolved"

\* Mutant: the bar of the ex-date is divided too.
DividedThroughEx == [d \in DOMAIN bars |-> IF d <= Ex THEN bars[d] - 1 ELSE bars[d]]

\* back_adjust_daily: every bar strictly before the ex-date.
Divided == [d \in DOMAIN bars |-> IF d < Ex THEN bars[d] - 1 ELSE bars[d]]

-----------------------------------------------------------------------------
(* Hourly bars.                                                            *)

ServedHourly(d) == IF d < Ex /\ (day < Ex \/ hourlyRaw) THEN 1 ELSE 0

\* The days _split_adjustment_factor divides. A pending day is compared with
\* its daily bar; without one it is divided.
Pending(d) == d < Ex /\ "split" \in actions

Divides(d) ==
  /\ Pending(d)
  /\ d \in DOMAIN bars => ServedHourly(d) - bars[d] >= 1

\* A ratio near 1 cannot be decided where there is a daily bar: rejected.
Undecided(d) == Pending(d) /\ ratio = "small" /\ d \in DOMAIN bars

\* _flag_range_escape. Half the price is within the tolerance, twice is not.
Escapes(d, scale) ==
  /\ d \in DOMAIN bars
  /\ ratio # "small"
  /\ \/ scale - bars[d] >= 1
     \/ scale - bars[d] <= (IF ratio = "plain" THEN -2 ELSE -1)

AdjustedHourly(d) == ServedHourly(d) - (IF Divides(d) THEN 1 ELSE 0)

HourlyBatch ==
  LET got == {d \in Window : (d < day \/ published) /\ ~Undecided(d)
                             /\ ~Escapes(d, AdjustedHourly(d))}
  IN [d \in got |-> AdjustedHourly(d)]

-----------------------------------------------------------------------------
(* Corporate actions.                                                      *)

History == {"old"} \cup (IF day >= Ex THEN {"split"} ELSE {}) \cup (IF paid THEN {"dividend"} ELSE {})
Recent  == History \ {"old"}

\* Rows on file, or a full fetch recorded in the last LedgerDays days.
TakesIncremental == actions # {} \/ (fullAt # 0 /\ day - fullAt <= LedgerDays)

-----------------------------------------------------------------------------
(* cscan validate reads the store and writes nothing.                      *)

\* unresolved_rejects: the log is append-only, so a bar on file closes its row.
OpenRejects == rejected \ DOMAIN bars

-----------------------------------------------------------------------------
(* The chain.                                                              *)

Init ==
  /\ day = FirstNight /\ nights = 0
  /\ ratio \in Ratios
  /\ published = FALSE /\ adjusts = FALSE /\ hourlyRaw \in BOOLEAN /\ paid = FALSE
  /\ bars = [d \in 1..(FirstNight - 1) |-> 1] /\ hourly = bars
  /\ actions \in {{}, {"old"}} /\ fullAt = 0 /\ answer = {}
  /\ audits = 0 /\ rejected = {}
  /\ pc = "idle" /\ pass = 1 /\ knew = FALSE /\ asked = FALSE
  /\ mishaps = 0

NextDay ==
  /\ pc = "idle" /\ day < LastDay
  /\ day' = day + 1 /\ nights' = 0 /\ published' = FALSE
  /\ UNCHANGED <<ratio, adjusts, hourlyRaw, paid, store, chain, mishaps>>

Publish ==
  /\ ~published /\ published' = TRUE
  /\ UNCHANGED <<day, nights, ratio, adjusts, hourlyRaw, paid, store, chain, mishaps>>

\* The vendor propagates the split backward.
VendorAdjusts ==
  /\ day >= Ex /\ ~adjusts /\ adjusts' = TRUE
  /\ UNCHANGED <<day, nights, ratio, published, hourlyRaw, paid, store, chain, mishaps>>

PayDividend ==
  /\ ~paid /\ paid' = TRUE
  /\ UNCHANGED <<day, nights, ratio, published, adjusts, hourlyRaw, store, chain, mishaps>>

Start ==
  /\ pc = "idle" /\ nights < MaxNights
  /\ nights' = nights + 1
  /\ pc' = "daily" /\ pass' = 1
  /\ UNCHANGED <<day, ratio, vendor, store, knew, asked, answer, mishaps>>

Kill ==
  /\ pc # "idle" /\ Mishap("kill")
  /\ pc' = "idle" /\ answer' = {}
  /\ UNCHANGED <<day, nights, ratio, vendor, store, pass, knew, asked>>

AfterPass == IF pass = 1 THEN "hourly" ELSE "idle"

\* A fetch after a rewrite that still meets the raw history: of a later chain, or of
\* the second pass of the one that rewrote.
MeetsRawAgain == audits > 0 /\ ~adjusts /\ Ex - 1 \in Window

\* run_bars_daily: fetch, validate, log the rejects, upsert what is clean.
FetchDaily ==
  /\ pc = "daily"
  /\ IF MeetsRawAgain THEN Mishap("raw") ELSE UNCHANGED mishaps
  /\ bars' = Upsert(bars, Clean(Fetched))
  /\ rejected' = rejected \cup SplitLike(Fetched)
  /\ knew' = ("split" \in actions)
  /\ asked' = published
  /\ pc' = IF DOMAIN Fetched = {} THEN AfterPass ELSE "reconcile"
  /\ UNCHANGED <<day, nights, ratio, vendor, hourly, actions, fullAt, audits, pass, answer>>

\* reconcile_daily_splits, of the splits of the last ReconcileDays: the rewrite and its
\* audit row are two transactions.
Reconcile ==
  /\ pc = "reconcile"
  /\ IF "split" \in actions /\ day - Ex <= ReconcileDays /\ SplitState = "unadjusted"
       THEN bars' = Divided /\ pc' = "audit"
       ELSE bars' = bars /\ pc' = AfterPass
  /\ UNCHANGED <<day, nights, ratio, vendor, hourly, actions, fullAt, audits, rejected,
                 pass, knew, asked, answer, mishaps>>

Audit ==
  /\ pc = "audit"
  /\ audits' = audits + 1
  /\ pc' = AfterPass
  /\ UNCHANGED <<day, nights, ratio, vendor, bars, hourly, actions, fullAt, rejected,
                 pass, knew, asked, answer, mishaps>>

FetchHourly ==
  /\ pc = "hourly"
  /\ hourly' = Upsert(hourly, HourlyBatch)
  /\ pc' = "actions"
  /\ UNCHANGED <<day, nights, ratio, vendor, bars, actions, fullAt, audits, rejected,
                 pass, knew, asked, answer, mishaps>>

\* run_actions: a windowed request for a ticker with rows on file or a recent
\* full fetch; otherwise the full history, recorded before it is written.
FetchActions ==
  /\ pc = "actions"
  /\ IF TakesIncremental
       THEN answer' = Recent /\ UNCHANGED <<fullAt, mishaps>>
       ELSE /\ fullAt' = day
            /\ \/ answer' = History /\ UNCHANGED mishaps
               \/ answer' = {} /\ Mishap("empty")
  /\ pc' = "write"
  /\ UNCHANGED <<day, nights, ratio, vendor, bars, hourly, actions, audits, rejected,
                 pass, knew, asked>>

WriteActions ==
  /\ pc = "write"
  /\ actions' = actions \cup answer /\ answer' = {}
  /\ pc' = "missing"
  /\ UNCHANGED <<day, nights, ratio, vendor, bars, hourly, fullAt, audits, rejected,
                 pass, knew, asked, mishaps>>

\* Mutant: asks for the session before.
LacksSessionBefore == day - 1 \notin DOMAIN bars

\* tickers_missing_session: a bar on the session before, and none on this one.
LacksSession == day - 1 \in DOMAIN bars /\ day \notin DOMAIN bars

SecondPass ==
  /\ pc = "missing"
  /\ IF LacksSession THEN pc' = "daily" /\ pass' = 2 ELSE pc' = "idle" /\ pass' = 1
  /\ UNCHANGED <<day, nights, ratio, vendor, store, knew, asked, answer, mishaps>>

Step == FetchDaily \/ Reconcile \/ Audit \/ FetchHourly \/ FetchActions \/ WriteActions \/ SecondPass
Next == NextDay \/ Publish \/ VendorAdjusts \/ PayDividend \/ Start \/ Kill \/ Step

Spec == Init /\ [][Next]_vars

-----------------------------------------------------------------------------
(* What should hold.                                                       *)

TypeOK ==
  /\ day \in FirstNight..LastDay /\ nights \in 0..MaxNights /\ ratio \in Ratios
  /\ published \in BOOLEAN /\ adjusts \in BOOLEAN /\ hourlyRaw \in BOOLEAN /\ paid \in BOOLEAN
  /\ DOMAIN bars \subseteq Days /\ \A d \in DOMAIN bars : bars[d] \in Int /\ bars[d] <= 1
  /\ DOMAIN hourly \subseteq Days /\ \A d \in DOMAIN hourly : hourly[d] \in Int
  /\ actions \subseteq {"old", "split", "dividend"} /\ answer \subseteq {"old", "split", "dividend"}
  /\ fullAt \in 0..LastDay /\ audits \in Nat
  /\ rejected \subseteq Days
  /\ pc \in {"idle", "daily", "reconcile", "audit", "hourly", "actions", "write", "missing"}
  /\ pass \in {1, 2} /\ knew \in BOOLEAN /\ asked \in BOOLEAN
  /\ mishaps \in 0..MaxDisruptions

\* No stored price is divided by the split's ratio twice. It holds only while
\* no later chain meets the vendor's raw history again (ingest.py:1063 calls
\* the reconciliation idempotent).
AdjustedOnce == \A d \in DOMAIN bars : bars[d] >= 0

AdjustedOnceUnlessRaw == mishaps = 0 => AdjustedOnce

\* Every rewrite of the stored history has its audit row, but for the one in
\* hand and for the ones a kill came between. The oldest bar tells the rewrites,
\* where no fetch after the split reaches back to it.
RewritesAreAudited ==
  LET rewrites == 1 - bars[1]
      inHand   == IF pc = "audit" THEN 1 ELSE 0
  IN Ex - Lookback > 1 =>
       /\ audits + inHand <= rewrites
       /\ rewrites <= audits + inHand + mishaps

\* When an undisturbed chain ends, the session's bar is on file if the last
\* request of the chain was made after it was published, on the ex-date too,
\* where the first pass rejects it as a move no known split explains.
SessionBarLands ==
  (pc \in {"missing", "reconcile", "audit"} /\ pc' = "idle" /\ mishaps' = 0
   /\ asked /\ day - 1 \in DOMAIN bars)
  => day \in DOMAIN bars'

\* Where the split was on file when the last pass began, an undisturbed chain
\* leaves the two bars next to the ex-date on one scale, while the split is recent
\* enough to be reconciled.
NoCliffOnceKnown ==
  (pc = "idle" /\ knew /\ mishaps = 0 /\ ratio # "small" /\ day - Ex <= ReconcileDays)
  => SplitState # "unadjusted"

\* An hourly bar that is written while its daily bar is in today's shares is
\* in today's shares itself, whichever way the vendor serves it.
HourlyFollowsDaily ==
  \A d \in DOMAIN hourly' :
    (pc = "hourly" /\ pc' = "actions" /\ d \in DOMAIN HourlyBatch /\ d \in DOMAIN bars /\ ratio # "small" /\ bars[d] = 0)
    => hourly'[d] = 0

\* A ticker that counts as known by its rows has its old splits on file,
\* unless a full request came back empty or was cut off before its write.
RowsMeanHistory == (actions # {} /\ mishaps = 0) => "old" \in actions

\* A session's bar that was rejected for a split nobody knew is on file once a
\* pass that knows the split has fetched its day again.
RejectsHeal ==
  (pc = "idle" /\ knew /\ mishaps = 0) => OpenRejects \cap DOMAIN Fetched = {}

\* What holds of the store in every state, and of every step, for any window and any
\* order of the vendor's and the chain's steps (run_bars_daily, reconcile_daily_splits).
BarsAreConsistent ==
  AdjustedOnceUnlessRaw /\ NoCliffOnceKnown /\ RejectsHeal /\ RewritesAreAudited /\ RowsMeanHistory

BarsFollowTheVendor == [][SessionBarLands /\ HourlyFollowsDaily]_vars
=============================================================================
