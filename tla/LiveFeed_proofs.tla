--------------------------- MODULE LiveFeed_proofs ----------------------------
(***************************************************************************)
(* Machine-checked proofs about how a session reaches the page. LiveFeed,  *)
(* for any tickers and any number of ticks, requests and pages: one feed   *)
(* has a timer, and a page shows its own ticker, in whatever order its     *)
(* requests are answered. LiveMirror, for any number of ticks, failed      *)
(* pushes and restarts: a push that lands makes serving's copy whole. The  *)
(* two share no variable, so LiveMirror is an instance.                    *)
(***************************************************************************)
EXTENDS LiveFeed, WellFoundedInduction, TLAPS

CONSTANTS Slots, MaxFaults
VARIABLES research, serving, run, tick, mark, high, push, failing, faults

M == INSTANCE LiveMirror

-----------------------------------------------------------------------------
(* The inductive invariant.                                                *)

FeedRecords ==
  [ticker : Tickers, listening : BOOLEAN, timer : BOOLEAN, closed : BOOLEAN]

Snapshots == [version : Nat, open : BOOLEAN]

FeedTypes ==
  /\ live \in [Tickers -> Nat] /\ open \in BOOLEAN /\ visible \in BOOLEAN
  /\ page \in [number : Nat, ticker : Tickers, drawn : Nat]
  /\ feeds \in [1..page.number -> FeedRecords]
  /\ requests \subseteq [feed : 1..page.number, number : Nat, read : {NotRead} \cup Snapshots]
  /\ sent \in Nat /\ header \in Nat /\ candle \in Nat

\* A feed whose page was left neither ticks nor is listened to.
OnScreen ==
  /\ \A f \in DOMAIN feeds : feeds[f].timer \/ feeds[f].listening => f = page.number
  /\ page.number > 0 => feeds[page.number].ticker = page.ticker

\* An answer is of a row that was there, and one for the page on screen is of no
\* older row than the page was rendered with.
ReadsArePast ==
  \A r \in requests : r.read # NotRead =>
    /\ r.read.version <= live[feeds[r.feed].ticker]
    /\ r.feed = page.number => r.read.version >= page.drawn

FeedInv == FeedTypes /\ OnScreen /\ ReadsArePast /\ OwnVersions

-----------------------------------------------------------------------------
(* Lemmas: what a step leaves alone.                                       *)

\* What the page shows stays right while the rows of the database only grow.
LEMMA RowsMayGrow ==
  ASSUME FeedInv, live' \in [Tickers -> Nat],
         \A t \in Tickers : live[t] <= live'[t],
         UNCHANGED <<page, feeds, visible, requests, sent, header, candle>>
  PROVE  FeedTypes' => FeedInv'
<1>1. \A r \in requests : feeds[r.feed].ticker \in Tickers
  BY DEF FeedInv, FeedTypes, FeedRecords
<1>2. page.ticker \in Tickers /\ page.drawn \in Nat
  BY DEF FeedInv, FeedTypes
<1>3. \A t \in Tickers : live[t] \in Nat /\ live'[t] \in Nat
  BY DEF FeedInv, FeedTypes
<1>4. \A r \in requests : r.read # NotRead => r.read.version \in Nat
  BY DEF FeedInv, FeedTypes, Snapshots
<1>5. OnScreen'
  BY DEF FeedInv, OnScreen
<1>6. ReadsArePast'
  BY <1>1, <1>3, <1>4 DEF FeedInv, ReadsArePast
<1>7. OwnVersions'
  BY <1>2, <1>3 DEF FeedInv, FeedTypes, OwnVersions
<1> QED BY <1>5, <1>6, <1>7 DEF FeedInv

\* Asking adds requests without an answer to those that are out, for a feed there is.
LEMMA AskingIsHarmless ==
  ASSUME FeedInv, NEW f \in 1..page.number, NEW shown \in BOOLEAN, visible' = shown,
         \/ requests' = requests \cup {Ask(f)} /\ sent' = sent + 1
         \/ UNCHANGED <<requests, sent>>,
         UNCHANGED <<live, open, page, feeds, header, candle>>
  PROVE  FeedInv'
<1>1. Ask(f) \in [feed : 1..page.number, number : Nat, read : {NotRead} \cup Snapshots]
      /\ Ask(f).read = NotRead
  BY DEF FeedInv, FeedTypes, Ask
<1>2. FeedTypes'
  BY <1>1 DEF FeedInv, FeedTypes
<1>3. OnScreen' /\ OwnVersions'
  BY DEF FeedInv, OnScreen, OwnVersions
<1>4. ReadsArePast'
  BY <1>1 DEF FeedInv, ReadsArePast
<1> QED BY <1>2, <1>3, <1>4 DEF FeedInv

-----------------------------------------------------------------------------
(* The steps of the page.                                                  *)

\* A new page starts with its own row, and nothing has been read for it.
LEMMA VisitKeeps ==
  ASSUME FeedInv, NEW t \in Tickers, Visit(t)
  PROVE  FeedInv'
<1> DEFINE n == page.number + 1
<1>1. /\ page.number \in Nat /\ n \in Nat /\ live[t] \in Nat /\ sent \in Nat
      /\ DOMAIN feeds = 1..page.number
  BY DEF FeedInv, FeedTypes
<1>2. /\ page' = [number |-> n, ticker |-> t, drawn |-> live[t]]
      /\ feeds' = [f \in 1..n |-> IF f = n THEN Feed(t) ELSE Unsubscribed(feeds)[f]]
      /\ header' = (IF open THEN live[t] ELSE 0)
      /\ candle' = live[t]
      /\ UNCHANGED <<live, open, visible>>
  BY DEF Visit
<1>3. \/ requests' = requests \cup {[feed |-> n, number |-> sent + 1, read |-> NotRead]}
         /\ sent' = sent + 1
      \/ UNCHANGED <<requests, sent>>
  BY DEF Visit
<1>4. Feed(t) \in FeedRecords /\ Feed(t).ticker = t
  BY DEF Feed, FeedRecords
<1>5. \A f \in 1..page.number :
        /\ Unsubscribed(feeds)[f] \in FeedRecords
        /\ Unsubscribed(feeds)[f].ticker = feeds[f].ticker
        /\ ~Unsubscribed(feeds)[f].timer /\ ~Unsubscribed(feeds)[f].listening
  BY <1>1 DEF Unsubscribed, FeedInv, FeedTypes, FeedRecords
<1>6. /\ page'.number = n /\ page'.ticker = t /\ page'.drawn = live[t]
      /\ page' \in [number : Nat, ticker : Tickers, drawn : Nat]
  BY <1>1, <1>2
<1>7. \A f \in 1..n : f = n \/ f \in 1..page.number
  BY <1>1
<1>8. /\ n \in 1..n /\ 1..page.number \subseteq 1..n
      /\ \A f \in 1..page.number : f # n
  BY <1>1
<1>9. /\ feeds'[n] = Feed(t)
      /\ \A f \in 1..page.number : feeds'[f] = Unsubscribed(feeds)[f]
      /\ DOMAIN feeds' = 1..n
  BY <1>2, <1>8
<1> HIDE DEF n
<1>10. feeds' \in [1..n -> FeedRecords]
  BY <1>2, <1>4, <1>5, <1>7
<1>11. \A r \in requests' :
         /\ r \in [feed : 1..n, number : Nat, read : {NotRead} \cup Snapshots]
         /\ r.read # NotRead => r \in requests /\ r.feed \in 1..page.number
  <2>1. \A r \in requests :
          /\ r \in [feed : 1..n, number : Nat, read : {NotRead} \cup Snapshots]
          /\ r.feed \in 1..page.number
    BY <1>8 DEF FeedInv, FeedTypes
  <2>2. /\ [feed |-> n, number |-> sent + 1, read |-> NotRead]
             \in [feed : 1..n, number : Nat, read : {NotRead} \cup Snapshots]
        /\ [feed |-> n, number |-> sent + 1, read |-> NotRead].read = NotRead
    BY <1>1, <1>8
  <2> QED BY <1>3, <2>1, <2>2
<1>12. FeedTypes'
  BY <1>1, <1>2, <1>3, <1>6, <1>10, <1>11 DEF FeedInv, FeedTypes
<1>13. OnScreen'
  BY <1>4, <1>5, <1>6, <1>7, <1>9 DEF OnScreen
<1>14. ReadsArePast'
  BY <1>2, <1>5, <1>6, <1>8, <1>9, <1>11 DEF FeedInv, ReadsArePast
<1>15. OwnVersions'
  BY <1>1, <1>2, <1>6 DEF OwnVersions
<1> QED BY <1>12, <1>13, <1>14, <1>15 DEF FeedInv

\* The row is read as it is now, which is no older than the page.
LEMMA ReadKeeps ==
  ASSUME FeedInv, NEW r \in requests, Read(r)
  PROVE  FeedInv'
<1> DEFINE now == [version |-> live[feeds[r.feed].ticker], open |-> open]
           got == [r EXCEPT !.read = now]
<1>1. /\ requests' = (requests \ {r}) \cup {got}
      /\ UNCHANGED <<live, open, page, feeds, visible, sent, header, candle>>
  BY DEF Read
<1>2. r.feed \in 1..page.number /\ feeds[r.feed].ticker \in Tickers
  BY DEF FeedInv, FeedTypes, FeedRecords
<1>3. now \in Snapshots /\ now.version = live[feeds[r.feed].ticker]
  BY <1>2 DEF FeedInv, FeedTypes, Snapshots
<1>4. /\ got \in [feed : 1..page.number, number : Nat, read : {NotRead} \cup Snapshots]
      /\ got.feed = r.feed /\ got.read = now
  BY <1>3 DEF FeedInv, FeedTypes
<1>5. r.feed = page.number => now.version >= page.drawn
  <2>1. ASSUME r.feed = page.number PROVE live[page.ticker] >= page.drawn
    <3>1. page.number > 0 /\ page.drawn \in Nat /\ live[page.ticker] \in Nat /\ candle \in Nat
      BY <1>2, <2>1 DEF FeedInv, FeedTypes
    <3> QED BY <3>1 DEF FeedInv, OwnVersions
  <2>2. page.number > 0 => feeds[page.number].ticker = page.ticker
    BY DEF FeedInv, OnScreen
  <2>3. r.feed = page.number => page.number > 0
    BY <1>2 DEF FeedInv, FeedTypes
  <2> QED BY <1>3, <2>1, <2>2, <2>3
<1>6. live[feeds[r.feed].ticker] \in Nat
  BY <1>2 DEF FeedInv, FeedTypes
<1> HIDE DEF got, now
<1>7. FeedTypes'
  BY <1>1, <1>4 DEF FeedInv, FeedTypes
<1>8. OnScreen' /\ OwnVersions'
  BY <1>1 DEF FeedInv, OnScreen, OwnVersions
<1>9. ReadsArePast'
  BY <1>1, <1>3, <1>4, <1>5, <1>6 DEF FeedInv, ReadsArePast
<1> QED BY <1>7, <1>8, <1>9 DEF FeedInv

\* An answer reaches the page on screen only, and brings its header and its candle to
\* one version.
LEMMA DeliverKeeps ==
  ASSUME FeedInv, NEW r \in requests, Deliver(r)
  PROVE  FeedInv'
<1> DEFINE over == r.read.version > 0 /\ ~r.read.open
           quiet == [feeds EXCEPT ![r.feed].closed = TRUE, ![r.feed].timer = FALSE]
<1>1. /\ r.read # NotRead /\ requests' = requests \ {r}
      /\ UNCHANGED <<live, open, page, visible, sent>>
      /\ feeds' = feeds \/ feeds' = quiet
      /\ IF feeds[r.feed].listening
           THEN /\ header' = Quote(r.read)
                /\ candle' = (IF r.read.version > 0 THEN r.read.version ELSE candle)
           ELSE UNCHANGED <<header, candle>>
  BY DEF Deliver
<1>2. /\ r.feed \in 1..page.number /\ r.read \in Snapshots
      /\ r.read.version \in Nat /\ r.read.open \in BOOLEAN
      /\ page.drawn \in Nat /\ page.number \in Nat /\ live[page.ticker] \in Nat
      /\ header \in Nat /\ candle \in Nat
  BY <1>1 DEF FeedInv, FeedTypes, Snapshots
<1>3. /\ feeds' \in [1..page.number -> FeedRecords]
      /\ DOMAIN feeds = 1..page.number /\ DOMAIN feeds' = 1..page.number
      /\ \A f \in 1..page.number :
           /\ feeds'[f].ticker = feeds[f].ticker
           /\ feeds'[f].listening = feeds[f].listening
           /\ feeds'[f].timer => feeds[f].timer
  <2>1. feeds \in [1..page.number -> FeedRecords]
    BY DEF FeedInv, FeedTypes
  <2>2. CASE feeds' = feeds
    BY <2>1, <2>2
  <2>3. CASE feeds' = quiet
    <3>1. \A f \in 1..page.number :
            feeds'[f] = IF f = r.feed THEN [feeds[f] EXCEPT !.closed = TRUE, !.timer = FALSE]
                        ELSE feeds[f]
      BY <1>2, <2>1, <2>3
    <3>2. \A f \in 1..page.number : feeds[f] \in FeedRecords
      BY <2>1
    <3>3. \A f \in 1..page.number :
            /\ feeds'[f] \in FeedRecords
            /\ feeds'[f].ticker = feeds[f].ticker
            /\ feeds'[f].listening = feeds[f].listening
            /\ feeds'[f].timer => feeds[f].timer
      <4>1. ASSUME NEW g \in FeedRecords
            PROVE  LET stopped == [g EXCEPT !.closed = TRUE, !.timer = FALSE]
                   IN /\ stopped \in FeedRecords /\ ~stopped.timer
                      /\ stopped.ticker = g.ticker /\ stopped.listening = g.listening
        BY DEF FeedRecords
      <4> QED BY <3>1, <3>2, <4>1
    <3>4. feeds' = [f \in 1..page.number |-> feeds'[f]]
      BY <2>1, <2>3
    <3> HIDE DEF quiet
    <3>5. feeds' \in [1..page.number -> FeedRecords]
      BY <3>3, <3>4
    <3> QED BY <2>1, <3>3, <3>5
  <2> QED BY <1>1, <2>2, <2>3
<1> HIDE DEF over, quiet
<1>4. feeds[r.feed].listening =>
        r.read.version >= page.drawn /\ r.read.version <= live[page.ticker]
  <2>1. feeds[r.feed].listening => r.feed = page.number
    BY <1>2, <1>3 DEF FeedInv, OnScreen
  <2>2. page.number > 0 => feeds[page.number].ticker = page.ticker
    BY DEF FeedInv, OnScreen
  <2>3. page.number > 0
    BY <1>2
  <2> QED BY <1>1, <2>1, <2>2, <2>3 DEF FeedInv, ReadsArePast
<1>5. header' \in Nat /\ candle' \in Nat
  BY <1>1, <1>2 DEF Quote
<1>6. FeedTypes'
  BY <1>1, <1>3, <1>5 DEF FeedInv, FeedTypes
<1>7. OnScreen'
  BY <1>1, <1>2, <1>3 DEF FeedInv, OnScreen
<1>8. ReadsArePast'
  <2>1. \A q \in requests : q.feed \in 1..page.number
    BY DEF FeedInv, FeedTypes
  <2> QED BY <1>1, <1>3, <2>1 DEF FeedInv, ReadsArePast
<1>9. OwnVersions'
  BY <1>1, <1>2, <1>4 DEF FeedInv, OwnVersions, Quote
<1> QED BY <1>6, <1>7, <1>8, <1>9 DEF FeedInv

-----------------------------------------------------------------------------
(* The theorem.                                                            *)

LEMMA FeedInit == FeedAssumption /\ Init => FeedInv
<1> SUFFICES ASSUME FeedAssumption, Init PROVE FeedInv
  OBVIOUS
<1>1. page.number = 0 /\ 1..page.number = {} /\ page.ticker \in Tickers
  BY DEF Init, FeedAssumption
<1>2. feeds \in [1..page.number -> FeedRecords] /\ DOMAIN feeds = {}
  BY <1>1 DEF Init
<1>3. FeedTypes
  BY <1>1, <1>2 DEF Init, FeedTypes
<1>4. OnScreen /\ ReadsArePast /\ OwnVersions
  BY <1>1, <1>2 DEF Init, OnScreen, ReadsArePast, OwnVersions
<1> QED BY <1>3, <1>4 DEF FeedInv

\* Every step of the pages, of the poller and of the requests keeps the invariant.
LEMMA FeedStep == FeedInv /\ [Next]_vars => FeedInv'
<1> SUFFICES ASSUME FeedInv, [Next]_vars PROVE FeedInv'
  OBVIOUS
<1>1. ASSUME NEW t \in Tickers, PollerTick(t) PROVE FeedInv'
  <2>1. live' = [live EXCEPT ![t] = @ + 1] /\ live \in [Tickers -> Nat]
    BY <1>1 DEF PollerTick, FeedInv, FeedTypes
  <2>2. live' \in [Tickers -> Nat] /\ \A u \in Tickers : live[u] <= live'[u]
    BY <2>1
  <2>3. FeedTypes'
    BY <1>1, <2>2 DEF PollerTick, FeedInv, FeedTypes
  <2> QED BY <1>1, <2>2, <2>3, RowsMayGrow DEF PollerTick
<1>2. CASE Bell
  <2>1. PICK late \in SUBSET Tickers :
          live' = [t \in Tickers |-> IF t \in late THEN live[t] + 1 ELSE live[t]]
    BY <1>2 DEF Bell
  <2>2. live' \in [Tickers -> Nat] /\ \A u \in Tickers : live[u] <= live'[u]
    BY <2>1 DEF FeedInv, FeedTypes
  <2>3. FeedTypes'
    BY <1>2, <2>2 DEF Bell, FeedInv, FeedTypes
  <2> QED BY <1>2, <2>2, <2>3, RowsMayGrow DEF Bell
<1>3. ASSUME NEW t \in Tickers, Visit(t) PROVE FeedInv'
  BY <1>3, VisitKeeps
<1>4. CASE Hide
  BY <1>4 DEF Hide, FeedInv, FeedTypes, OnScreen, ReadsArePast, OwnVersions
<1>5. CASE Return
  <2>1. CASE page.number > 0
    <3>1. page.number \in 1..page.number
      BY <2>1 DEF FeedInv, FeedTypes
    <3>2. /\ visible' = TRUE
          /\ \/ requests' = requests \cup {Ask(page.number)} /\ sent' = sent + 1
             \/ UNCHANGED <<requests, sent>>
          /\ UNCHANGED <<live, open, page, feeds, header, candle>>
      BY <1>5 DEF Return
    <3> QED BY <3>1, <3>2, AskingIsHarmless
  <2>2. CASE ~(page.number > 0)
    BY <1>5, <2>2 DEF Return, FeedInv, FeedTypes, OnScreen, ReadsArePast, OwnVersions
  <2> QED BY <2>1, <2>2
<1>6. ASSUME NEW f \in 1..MaxPages, Timer(f) PROVE FeedInv'
  <2>1. f \in 1..page.number
    BY <1>6 DEF Timer, FeedInv, FeedTypes
  <2>2. /\ \/ requests' = requests \cup {Ask(f)} /\ sent' = sent + 1
           \/ UNCHANGED <<requests, sent>>
        /\ UNCHANGED <<live, open, page, feeds, visible, header, candle>>
    BY <1>6 DEF Timer, Refresh
  <2>3. visible \in BOOLEAN
    BY DEF FeedInv, FeedTypes
  <2> QED BY <2>1, <2>2, <2>3, AskingIsHarmless
<1>7. ASSUME NEW r \in requests, Read(r) PROVE FeedInv'
  BY <1>7, ReadKeeps
<1>8. ASSUME NEW r \in requests, Deliver(r) PROVE FeedInv'
  BY <1>8, DeliverKeeps
<1>9. ASSUME NEW r \in requests, Lose(r) PROVE FeedInv'
  BY <1>9 DEF Lose, FeedInv, FeedTypes, OnScreen, ReadsArePast, OwnVersions
<1>10. CASE UNCHANGED vars
  BY <1>10 DEF vars, FeedInv, FeedTypes, OnScreen, ReadsArePast, OwnVersions
<1> QED BY <1>1, <1>2, <1>3, <1>4, <1>5, <1>6, <1>7, <1>8, <1>9, <1>10 DEF Next

\* Of all the feeds a visit leaves behind only the last ticks, and an answer to a page
\* that was left never reaches the one on screen: header and candle are of the page's
\* own ticker, of one version, and no older than the page (subscribeLive, refresh).
THEOREM PageIsItsOwn ==
  ASSUME FeedAssumption
  PROVE  Spec => []PageShowsItsOwn
<1>1. Init => FeedInv
  BY FeedInit
<1>2. FeedInv /\ [Next]_vars => FeedInv'
  BY FeedStep
<1>3. FeedInv => PageShowsItsOwn
  BY DEF FeedInv, OnScreen, OneTimer, Registered, PageShowsItsOwn
<1> QED BY <1>1, <1>2, <1>3, PTL DEF Spec

-----------------------------------------------------------------------------
(* LiveMirror: the invariant.                                              *)

MirrorTypes ==
  /\ tick \in Nat /\ faults \in Nat /\ run \in Nat /\ push \in 0..5
  /\ research \in [events  : SUBSET [id : 1..tick, slot : Slots, run : Nat],
                   reports : SUBSET [id : 1..tick, slot : Slots, by : {"research"}],
                   quotes  : SUBSET [slot : Slots, ts : 1..tick],
                   bars    : 0..tick]
  /\ serving \in [events  : SUBSET Slots,
                  reports : SUBSET [id : 1..(tick + faults), slot : Slots, by : {"research", "pi"}],
                  quotes  : SUBSET [slot : Slots, ts : 1..tick],
                  bars    : 0..tick,
                  runs    : SUBSET Nat]

\* Research gives every report an id of its own.
ReportsAreTold == \A a, b \in research.reports : a.id = b.id => a = b

\* A watermark names nothing research has not written, and what lies behind it is on
\* serving.
Behind(m, now, from, onto) ==
  /\ m \in [event : Nat, report : Nat, quote : 0..now]
  /\ m.event <= M!Greatest({e.id : e \in from.events})
  /\ m.report <= M!Greatest({r.id : r \in from.reports})
  /\ \A e \in from.events : e.id <= m.event => e.slot \in onto.events
  /\ \A r \in from.reports : r.id <= m.report => r \in onto.reports
  /\ \A q \in from.quotes : q.ts <= m.quote => q \in onto.quotes

\* A push brings each table whole before it turns to the next.
PushedSoFar ==
  /\ push > 2 => \A e \in research.events : e.slot \in serving.events
  /\ push > 3 => research.reports \subseteq serving.reports
  /\ push > 4 => serving.bars = research.bars

MirrorInv == /\ MirrorTypes /\ ReportsAreTold /\ PushedSoFar
             /\ Behind(mark, tick, research, serving) /\ Behind(high, tick, research, serving)

-----------------------------------------------------------------------------
(* LiveMirror: the operators.                                              *)

\* Ids that have a bound have a greatest.
LEMMA GreatestId ==
  ASSUME NEW n \in Nat, NEW S \in SUBSET (0..n)
  PROVE  /\ M!Greatest(S) \in 0..n /\ \A x \in S : x <= M!Greatest(S)
         /\ S # {} => M!Greatest(S) \in S
<1>e. CASE S = {}
  BY <1>e DEF M!Greatest
<1> SUFFICES ASSUME S # {} PROVE M!Greatest(S) \in S /\ \A x \in S : x <= M!Greatest(S)
  BY <1>e
<1> DEFINE gaps == {n - x : x \in S}
<1>1. gaps \subseteq Nat /\ gaps # {}
  <2>1. \A x \in S : n - x \in Nat
    OBVIOUS
  <2> QED BY <2>1
<1>2. \E m \in gaps : \A y \in gaps : ~ (<<y, m>> \in OpToRel(<, Nat))
  BY <1>1, WFMin, NatLessThanWellFounded
<1>3. PICK x \in S : \A y \in S : ~ (<<n - y, n - x>> \in OpToRel(<, Nat))
  BY <1>2
<1>4. \A y \in S : x >= y
  <2> TAKE y \in S
  <2>1. n - y \in Nat /\ n - x \in Nat
    OBVIOUS
  <2>2. ~(n - y < n - x)
    BY <1>3, <2>1 DEF OpToRel
  <2> QED BY <2>1, <2>2
<1>5. M!Max(S) \in S /\ \A y \in S : y <= M!Max(S)
  BY <1>4 DEF M!Max
<1> QED BY <1>5 DEF M!Greatest

\* The ids of research's rows are of ticks, and those of the reports on serving of ticks
\* and of the Pi.
LEMMA IdsOfRows ==
  ASSUME MirrorTypes
  PROVE  /\ {e.id : e \in research.events} \in SUBSET (0..tick)
         /\ {r.id : r \in research.reports} \in SUBSET (0..tick)
         /\ {r.id : r \in serving.reports} \in SUBSET (0..(tick + faults))
         /\ tick \in Nat /\ tick + faults \in Nat
<1>1. tick \in Nat /\ faults \in Nat
  BY DEF MirrorTypes
<1>2. \A e \in research.events : e.id \in 0..tick
  BY <1>1 DEF MirrorTypes
<1>3. \A r \in research.reports : r.id \in 0..tick
  BY <1>1 DEF MirrorTypes
<1>4. \A r \in serving.reports : r.id \in 0..(tick + faults)
  BY <1>1 DEF MirrorTypes
<1> QED BY <1>1, <1>2, <1>3, <1>4

LEMMA IdsOfRowsThen == MirrorTypes' =>
  /\ {e.id : e \in research'.events} \in SUBSET (0..tick')
  /\ {r.id : r \in research'.reports} \in SUBSET (0..tick')
<1> SUFFICES ASSUME MirrorTypes'
             PROVE  /\ {e.id : e \in research'.events} \in SUBSET (0..tick')
                    /\ {r.id : r \in research'.reports} \in SUBSET (0..tick')
  OBVIOUS
<1>1. \A e \in research'.events : e.id \in 0..tick'
  BY DEF MirrorTypes
<1>2. \A r \in research'.reports : r.id \in 0..tick'
  BY DEF MirrorTypes
<1> QED BY <1>1, <1>2

\* A new id is above all others.
LEMMA NewIds ==
  ASSUME MirrorTypes
  PROVE  /\ M!NextId(research.events) \in 1..(tick + 1)
         /\ \A e \in research.events : e.id < M!NextId(research.events)
         /\ M!NextId(research.events) > M!Greatest({e.id : e \in research.events})
         /\ M!NextId(research.reports) \in 1..(tick + 1)
         /\ \A r \in research.reports : r.id < M!NextId(research.reports)
         /\ M!NextId(research.reports) > M!Greatest({r.id : r \in research.reports})
         /\ M!NextId(serving.reports) \in 1..(tick + faults + 1)
<1> DEFINE es == {e.id : e \in research.events}
           rs == {r.id : r \in research.reports}
           ss == {r.id : r \in serving.reports}
<1>1. /\ es \in SUBSET (0..tick) /\ rs \in SUBSET (0..tick) /\ ss \in SUBSET (0..(tick + faults))
      /\ tick \in Nat /\ tick + faults \in Nat /\ faults \in Nat
  BY IdsOfRows DEF MirrorTypes
<1>2. /\ M!Greatest(es) \in 0..tick /\ M!Greatest(rs) \in 0..tick /\ M!Greatest(ss) \in 0..(tick + faults)
      /\ \A x \in es : x <= M!Greatest(es)
      /\ \A x \in rs : x <= M!Greatest(rs)
  <2> HIDE DEF es, rs, ss
  <2> QED BY <1>1, GreatestId
<1>3. /\ M!NextId(research.events) = 1 + M!Greatest(es) /\ M!NextId(research.reports) = 1 + M!Greatest(rs)
      /\ M!NextId(serving.reports) = 1 + M!Greatest(ss)
  BY DEF M!NextId
<1>4. \A e \in research.events : e.id \in es
  OBVIOUS
<1>5. \A r \in research.reports : r.id \in rs
  OBVIOUS
<1>6. es \subseteq 0..tick /\ rs \subseteq 0..tick
  BY <1>1
<1> HIDE DEF es, rs, ss
<1>7. \A e \in research.events : e.id < 1 + M!Greatest(es)
  <2> TAKE e \in research.events
  <2>1. e.id \in es /\ e.id \in 0..tick
    BY <1>4, <1>6
  <2>2. e.id <= M!Greatest(es)
    BY <1>2, <2>1
  <2> QED BY <1>1, <1>2, <2>1, <2>2
<1>8. \A r \in research.reports : r.id < 1 + M!Greatest(rs)
  <2> TAKE r \in research.reports
  <2>1. r.id \in rs /\ r.id \in 0..tick
    BY <1>5, <1>6
  <2>2. r.id <= M!Greatest(rs)
    BY <1>2, <2>1
  <2> QED BY <1>1, <1>2, <2>1, <2>2
<1>9. /\ 1 + M!Greatest(es) \in 1..(tick + 1) /\ 1 + M!Greatest(rs) \in 1..(tick + 1)
      /\ 1 + M!Greatest(ss) \in 1..(tick + faults + 1)
      /\ 1 + M!Greatest(es) > M!Greatest(es) /\ 1 + M!Greatest(rs) > M!Greatest(rs)
  <2>1. ASSUME NEW n \in Nat, NEW k \in 0..n PROVE 1 + k \in 1..(n + 1) /\ 1 + k > k
    OBVIOUS
  <2> QED BY <1>1, <1>2, <2>1
<1> USE DEF es, rs
<1> QED BY <1>3, <1>7, <1>8, <1>9

\* More ids have no lower a greatest one.
LEMMA GreatestGrows ==
  ASSUME NEW n \in Nat, NEW T \in SUBSET (0..n), NEW S \in SUBSET T
  PROVE  M!Greatest(S) \in Nat /\ M!Greatest(T) \in Nat /\ M!Greatest(S) <= M!Greatest(T)
<1>1. S \in SUBSET (0..n) /\ S \subseteq T
  OBVIOUS
<1>2. /\ M!Greatest(S) \in 0..n /\ (S # {} => M!Greatest(S) \in S)
      /\ M!Greatest(T) \in 0..n /\ \A x \in T : x <= M!Greatest(T)
  BY <1>1, GreatestId
<1>3. CASE S = {}
  <2>1. M!Greatest(S) = 0
    BY <1>3 DEF M!Greatest
  <2> QED BY <1>2, <2>1
<1>4. CASE S # {}
  <2>1. M!Greatest(S) \in T
    BY <1>1, <1>2, <1>4
  <2> QED BY <1>2, <2>1
<1> QED BY <1>3, <1>4

\* A watermark that moves up to some of the ids stays within them all.
LEMMA GreatestAdvances ==
  ASSUME NEW n \in Nat, NEW all \in SUBSET (0..n), NEW new \in SUBSET all,
         NEW h \in Nat, h <= M!Greatest(all)
  PROVE  M!Greatest({h} \cup new) \in Nat /\ M!Greatest({h} \cup new) <= M!Greatest(all)
<1> DEFINE ns == {h} \cup new
<1>1. M!Greatest(all) \in 0..n /\ \A x \in all : x <= M!Greatest(all)
  BY GreatestId
<1>2. h \in 0..n
  BY <1>1
<1>3. ns \in SUBSET (0..n) /\ \A x \in ns : x <= M!Greatest(all)
  BY <1>1, <1>2
<1>4. ns # {}
  OBVIOUS
<1> HIDE DEF ns
<1>5. M!Greatest(ns) \in ns /\ M!Greatest(ns) \in 0..n
  BY <1>3, <1>4, GreatestId
<1>6. M!Greatest(ns) \in Nat /\ M!Greatest(ns) <= M!Greatest(all)
  BY <1>3, <1>5
<1> QED BY <1>6 DEF ns

\* What is behind a watermark stays behind it while research adds above it and serving
\* loses none of research's rows.
LEMMA BehindStays ==
  ASSUME NEW now \in Nat, NEW then \in Nat, now <= then,
         NEW m, NEW from, NEW from2, NEW onto, NEW onto2,
         Behind(m, now, from, onto),
         {e.id : e \in from2.events} \in SUBSET (0..then),
         {r.id : r \in from2.reports} \in SUBSET (0..then),
         from.events \subseteq from2.events, from.reports \subseteq from2.reports,
         \A e \in from2.events \ from.events : e.id > M!Greatest({x.id : x \in from.events}),
         \A r \in from2.reports \ from.reports : r.id > M!Greatest({x.id : x \in from.reports}),
         \A q \in from2.quotes \ from.quotes : q.ts > now,
         onto.events \subseteq onto2.events, onto.quotes \subseteq onto2.quotes,
         \A r \in from.reports : r \in onto.reports => r \in onto2.reports,
         \A q \in from2.quotes : q.ts \in Nat
  PROVE  Behind(m, then, from2, onto2)
<1> DEFINE es == {e.id : e \in from.events}
           rs == {r.id : r \in from.reports}
           es2 == {e.id : e \in from2.events}
           rs2 == {r.id : r \in from2.reports}
<1>1. es \in SUBSET es2 /\ rs \in SUBSET rs2 /\ es2 \in SUBSET (0..then) /\ rs2 \in SUBSET (0..then)
  OBVIOUS
<1>2. /\ M!Greatest(es) \in Nat /\ M!Greatest(es2) \in Nat /\ M!Greatest(es) <= M!Greatest(es2)
      /\ M!Greatest(rs) \in Nat /\ M!Greatest(rs2) \in Nat /\ M!Greatest(rs) <= M!Greatest(rs2)
  <2> HIDE DEF es, rs, es2, rs2
  <2> QED BY <1>1, GreatestGrows
<1>3. /\ m \in [event : Nat, report : Nat, quote : 0..now]
      /\ m.event \in Nat /\ m.report \in Nat /\ m.quote \in 0..now
      /\ m.event <= M!Greatest(es) /\ m.report <= M!Greatest(rs)
  BY DEF Behind
<1>4. \A e \in from2.events : e.id \in Nat
  <2> TAKE e \in from2.events
  <2>1. e.id \in es2
    OBVIOUS
  <2> QED BY <1>1, <2>1
<1>5. \A r \in from2.reports : r.id \in Nat
  <2> TAKE r \in from2.reports
  <2>1. r.id \in rs2
    OBVIOUS
  <2> QED BY <1>1, <2>1
<1>6. \A e \in from2.events \ from.events : ~(e.id <= m.event)
  <2> TAKE e \in from2.events \ from.events
  <2>1. e.id > M!Greatest(es) /\ e.id \in Nat
    BY <1>4
  <2> QED BY <1>2, <1>3, <2>1
<1>7. \A r \in from2.reports \ from.reports : ~(r.id <= m.report)
  <2> TAKE r \in from2.reports \ from.reports
  <2>1. r.id > M!Greatest(rs) /\ r.id \in Nat
    BY <1>5
  <2> QED BY <1>2, <1>3, <2>1
<1>8. \A q \in from2.quotes \ from.quotes : ~(q.ts <= m.quote)
  BY <1>3
<1>9. m.event <= M!Greatest(es2) /\ m.report <= M!Greatest(rs2)
  BY <1>2, <1>3
<1>10. m \in [event : Nat, report : Nat, quote : 0..then]
  <2>1. m.quote \in 0..then
    BY <1>3
  <2> QED BY <1>3, <2>1
<1>11. \A e \in from2.events : e.id <= m.event => e.slot \in onto2.events
  BY <1>6 DEF Behind
<1>12. \A r \in from2.reports : r.id <= m.report => r \in onto2.reports
  BY <1>7 DEF Behind
<1>13. \A q \in from2.quotes : q.ts <= m.quote => q \in onto2.quotes
  BY <1>8 DEF Behind
<1> QED BY <1>9, <1>10, <1>11, <1>12, <1>13 DEF Behind

-----------------------------------------------------------------------------
(* LiveMirror: the steps.                                                  *)

LEMMA MirrorInit == M!Init => MirrorInv
<1> SUFFICES ASSUME M!Init PROVE MirrorInv
  OBVIOUS
<1>1. /\ research = M!Nothing /\ tick = 0 /\ faults = 0 /\ run = 1 /\ push = 0
      /\ mark = M!NoMark /\ high = M!NoMark
      /\ serving = [events |-> {}, reports |-> {}, quotes |-> {}, bars |-> 0, runs |-> {}]
  BY DEF M!Init
<1>2. MirrorTypes
  BY <1>1 DEF MirrorTypes, M!Nothing
<1>3. ReportsAreTold /\ PushedSoFar
  BY <1>1 DEF ReportsAreTold, PushedSoFar, M!Nothing
<1>4. M!Greatest({e.id : e \in research.events}) = 0 /\ M!Greatest({r.id : r \in research.reports}) = 0
  <2>1. {e.id : e \in research.events} = {} /\ {r.id : r \in research.reports} = {}
    BY <1>1 DEF M!Nothing
  <2> QED BY <2>1 DEF M!Greatest
<1>5. Behind(M!NoMark, tick, research, serving)
  BY <1>1, <1>4 DEF Behind, M!NoMark, M!Nothing
<1> QED BY <1>1, <1>2, <1>3, <1>5 DEF MirrorInv

\* A tick writes above every watermark, and at most one row of a kind.
LEMMA TickKeeps ==
  ASSUME MirrorInv, NEW slots \in SUBSET Slots, \A s, t \in slots : s = t, M!Tick(slots)
  PROVE  MirrorInv'
<1> DEFINE ke == M!NextId(research.events)
           kr == M!NextId(research.reports)
           es == {[id |-> ke, slot |-> s, run |-> run] : s \in slots}
           rs == {[id |-> kr, slot |-> s, by |-> "research"] : s \in slots}
           qs == {[slot |-> s, ts |-> tick + 1] : s \in slots}
<1>1. /\ research' = [events |-> research.events \cup es, reports |-> research.reports \cup rs,
                      quotes |-> research.quotes \cup qs, bars |-> tick + 1]
      /\ tick' = tick + 1 /\ push' = 1 /\ high' = mark
      /\ UNCHANGED <<serving, run, mark, faults>>
  BY DEF M!Tick
<1>2. MirrorTypes /\ tick \in Nat /\ faults \in Nat /\ run \in Nat
  BY DEF MirrorInv, MirrorTypes
<1>3. /\ ke \in 1..(tick + 1) /\ \A e \in research.events : e.id < ke
      /\ ke > M!Greatest({e.id : e \in research.events})
      /\ kr \in 1..(tick + 1) /\ \A r \in research.reports : r.id < kr
      /\ kr > M!Greatest({r.id : r \in research.reports})
  BY <1>2, NewIds
<1> HIDE DEF ke, kr
<1>4. /\ es \subseteq [id : 1..(tick + 1), slot : Slots, run : Nat]
      /\ rs \subseteq [id : 1..(tick + 1), slot : Slots, by : {"research"}]
      /\ qs \subseteq [slot : Slots, ts : 1..(tick + 1)]
  <2>1. tick + 1 \in 1..(tick + 1)
    BY <1>2
  <2> QED BY <1>2, <1>3, <2>1
<1>5. 1..tick \subseteq 1..(tick + 1) /\ 0..tick \subseteq 0..(tick + 1)
      /\ 1..(tick + faults) \subseteq 1..(tick + 1 + faults) /\ tick + 1 \in 0..(tick + 1)
  BY <1>2
<1>6. /\ research.events \subseteq [id : 1..(tick + 1), slot : Slots, run : Nat]
      /\ research.reports \subseteq [id : 1..(tick + 1), slot : Slots, by : {"research"}]
      /\ research.quotes \subseteq [slot : Slots, ts : 1..(tick + 1)]
  BY <1>2, <1>5 DEF MirrorTypes
<1>7. MirrorTypes'
  <2>1. research' \in [events  : SUBSET [id : 1..tick', slot : Slots, run : Nat],
                       reports : SUBSET [id : 1..tick', slot : Slots, by : {"research"}],
                       quotes  : SUBSET [slot : Slots, ts : 1..tick'],
                       bars    : 0..tick']
    <3> HIDE DEF es, rs, qs
    <3> QED BY <1>1, <1>4, <1>5, <1>6
  <2>2. serving \in [events  : SUBSET Slots,
                  reports : SUBSET [id : 1..(tick + 1 + faults), slot : Slots, by : {"research", "pi"}],
                  quotes  : SUBSET [slot : Slots, ts : 1..(tick + 1)],
                  bars    : 0..(tick + 1),
                  runs    : SUBSET Nat]
    BY <1>2, <1>5 DEF MirrorTypes
  <2> QED BY <1>1, <1>2, <2>1, <2>2 DEF MirrorTypes
<1>8. ReportsAreTold'
  <2>1. \A a, b \in rs : a = b
    OBVIOUS
  <2>2. \A r \in rs : r.id = kr
    OBVIOUS
  <2>3. \A r \in research.reports : r.id < kr /\ r.id \in Nat
    BY <1>2, <1>3 DEF MirrorTypes
  <2>4. kr \in Nat
    BY <1>2, <1>3
  <2>5. research'.reports = research.reports \cup rs
    BY <1>1
  <2> HIDE DEF rs
  <2>6. ASSUME NEW a \in research.reports \cup rs, NEW b \in research.reports \cup rs, a.id = b.id
        PROVE  a = b
    <3>1. CASE a \in rs /\ b \in rs
      BY <2>1, <3>1
    <3>2. CASE a \in research.reports /\ b \in research.reports
      BY <2>6, <3>2 DEF MirrorInv, ReportsAreTold
    <3>3. ~(a \in rs /\ b \in research.reports) /\ ~(b \in rs /\ a \in research.reports)
      BY <2>2, <2>3, <2>4, <2>6
    <3> QED BY <3>1, <3>2, <3>3
  <2> QED BY <2>5, <2>6 DEF ReportsAreTold
<1>9. PushedSoFar'
  BY <1>1 DEF PushedSoFar
<1>10. Behind(mark, tick + 1, research', serving)
  <2>1. /\ research'.events = research.events \cup es
        /\ research'.reports = research.reports \cup rs
        /\ research'.quotes = research.quotes \cup qs
    BY <1>1
  <2>2. /\ {e.id : e \in research'.events} \in SUBSET (0..(tick + 1))
        /\ {r.id : r \in research'.reports} \in SUBSET (0..(tick + 1))
    BY <1>1, <1>7, IdsOfRowsThen
  <2>3. /\ \A e \in es : e.id > M!Greatest({x.id : x \in research.events})
        /\ \A r \in rs : r.id > M!Greatest({x.id : x \in research.reports})
        /\ \A q \in qs : q.ts > tick
    <3>1. (\A e \in es : e.id = ke) /\ (\A r \in rs : r.id = kr) /\ (\A q \in qs : q.ts = tick + 1)
      OBVIOUS
    <3>2. tick + 1 > tick
      BY <1>2
    <3> HIDE DEF es, rs, qs
    <3> QED BY <1>3, <3>1, <3>2
  <2>4. \A q \in research'.quotes : q.ts \in Nat
    <3>1. \A q \in research'.quotes : q.ts \in 1..tick'
      BY <1>7 DEF MirrorTypes
    <3> QED BY <1>1, <1>2, <3>1
  <2>5. Behind(mark, tick, research, serving)
    BY DEF MirrorInv
  <2>6. tick + 1 \in Nat /\ tick <= tick + 1
    BY <1>2
  <2> HIDE DEF es, rs, qs
  <2> QED BY <1>2, <2>1, <2>2, <2>3, <2>4, <2>5, <2>6, BehindStays
<1> QED BY <1>1, <1>7, <1>8, <1>9, <1>10 DEF MirrorInv

\* A fault leaves the types as they are.
LEMMA FaultsMayGrow ==
  ASSUME MirrorTypes
  PROVE  /\ faults + 1 \in Nat
         /\ serving \in [events  : SUBSET Slots,
                        reports : SUBSET [id : 1..(tick + (faults + 1)), slot : Slots, by : {"research", "pi"}],
                        quotes  : SUBSET [slot : Slots, ts : 1..tick],
                        bars    : 0..tick,
                        runs    : SUBSET Nat]
<1>1. 1..(tick + faults) \subseteq 1..(tick + (faults + 1)) /\ faults + 1 \in Nat
  BY DEF MirrorTypes
<1>2. serving.reports \subseteq [id : 1..(tick + (faults + 1)), slot : Slots, by : {"research", "pi"}]
  BY <1>1 DEF MirrorTypes
<1> QED BY <1>1, <1>2 DEF MirrorTypes

\* A restarted poller has no watermark.
LEMMA RestartKeeps == MirrorInv /\ M!Restart => MirrorInv'
<1> SUFFICES ASSUME MirrorInv, M!Restart PROVE MirrorInv'
  OBVIOUS
<1>1. /\ run' = run + 1 /\ push' = 0 /\ mark' = M!NoMark /\ faults' = faults + 1
      /\ UNCHANGED <<research, serving, tick, high>>
  BY DEF M!Restart, M!Fault
<1>2. MirrorTypes
  BY DEF MirrorInv
<1>3. MirrorTypes'
  <2>1. run + 1 \in Nat
    BY <1>2 DEF MirrorTypes
  <2> QED BY <1>1, <1>2, <2>1, FaultsMayGrow DEF MirrorTypes
<1>4. Behind(M!NoMark, tick, research, serving)
  <2> DEFINE es == {e.id : e \in research.events}
             rs == {r.id : r \in research.reports}
  <2>1. M!Greatest(es) \in Nat /\ M!Greatest(rs) \in Nat
    <3>1. es \in SUBSET (0..tick) /\ rs \in SUBSET (0..tick) /\ tick \in Nat
      BY <1>2, IdsOfRows
    <3> HIDE DEF es, rs
    <3> QED BY <3>1, GreatestGrows
  <2>2. /\ \A e \in research.events : ~(e.id <= 0)
        /\ \A r \in research.reports : ~(r.id <= 0)
        /\ \A q \in research.quotes : ~(q.ts <= 0)
    <3>1. /\ \A e \in research.events : e.id \in 1..tick
          /\ \A r \in research.reports : r.id \in 1..tick
          /\ \A q \in research.quotes : q.ts \in 1..tick
      BY <1>2 DEF MirrorTypes
    <3>2. \A n \in 1..tick : ~(n <= 0)
      OBVIOUS
    <3> QED BY <3>1, <3>2
  <2>3. tick \in Nat
    BY <1>2 DEF MirrorTypes
  <2> QED BY <2>1, <2>2, <2>3 DEF Behind, M!NoMark
<1> QED BY <1>1, <1>3, <1>4 DEF MirrorInv, ReportsAreTold, PushedSoFar

\* A report of the Pi takes nothing away.
LEMMA PiKeeps == MirrorInv /\ (\E s \in Slots : M!PiFires(s)) => MirrorInv'
<1> SUFFICES ASSUME MirrorInv, NEW s \in Slots, M!PiFires(s) PROVE MirrorInv'
  OBVIOUS
<1> DEFINE new == [id |-> M!NextId(serving.reports), slot |-> s, by |-> "pi"]
<1>1. /\ serving' = [serving EXCEPT !.reports = @ \cup {new}]
      /\ faults' = faults + 1
      /\ UNCHANGED <<research, run, tick, mark, high, push>>
  BY DEF M!PiFires, M!Fault
<1>2. MirrorTypes
  BY DEF MirrorInv
<1>3. /\ serving'.events = serving.events /\ serving'.quotes = serving.quotes
      /\ serving'.bars = serving.bars /\ serving'.runs = serving.runs
      /\ serving'.reports = serving.reports \cup {new}
  BY <1>1, <1>2 DEF MirrorTypes
<1>4. MirrorTypes'
  <2>1. /\ 1..(tick + faults) \subseteq 1..(tick + (faults + 1)) /\ faults + 1 \in Nat
        /\ tick + faults + 1 = tick + (faults + 1)
    BY <1>2 DEF MirrorTypes
  <2>2. new \in [id : 1..(tick + (faults + 1)), slot : Slots, by : {"research", "pi"}]
    BY <1>2, <2>1, NewIds
  <2>3. serving.reports \cup {new} \subseteq [id : 1..(tick + (faults + 1)), slot : Slots, by : {"research", "pi"}]
    <3> HIDE DEF new
    <3> QED BY <1>2, <2>1, <2>2 DEF MirrorTypes
  <2>4. serving' \in [events  : SUBSET Slots,
                  reports : SUBSET [id : 1..(tick + (faults + 1)), slot : Slots, by : {"research", "pi"}],
                  quotes  : SUBSET [slot : Slots, ts : 1..tick],
                  bars    : 0..tick,
                  runs    : SUBSET Nat]
    <3> HIDE DEF new
    <3> QED BY <1>1, <1>2, <2>3 DEF MirrorTypes
  <2> QED BY <1>1, <1>2, <2>1, <2>4 DEF MirrorTypes
<1> HIDE DEF new
<1>5. Behind(mark, tick, research, serving') /\ Behind(high, tick, research, serving')
  BY <1>3 DEF MirrorInv, Behind
<1>6. PushedSoFar' /\ ReportsAreTold'
  BY <1>1, <1>3 DEF MirrorInv, PushedSoFar, ReportsAreTold
<1> QED BY <1>1, <1>4, <1>5, <1>6 DEF MirrorInv

LEMMA PushRunsKeeps == MirrorInv /\ M!PushRuns => MirrorInv'
<1> SUFFICES ASSUME MirrorInv, M!PushRuns PROVE MirrorInv'
  OBVIOUS
<1>1. /\ push = 1 /\ push' = 2 /\ serving' = [serving EXCEPT !.runs = @ \cup {run}]
      /\ UNCHANGED <<research, run, tick, mark, high, faults>>
  <2>1. push \in 0..5 /\ M!Tables[push] = "runs" /\ push # 0 /\ push' = push + 1
    BY DEF M!PushRuns, M!At, MirrorInv, MirrorTypes
  <2>2. push = 1
    BY <2>1 DEF M!Tables
  <2> QED BY <2>1, <2>2 DEF M!PushRuns
<1>2. MirrorTypes
  BY DEF MirrorInv
<1>3. /\ serving'.events = serving.events /\ serving'.quotes = serving.quotes
      /\ serving'.bars = serving.bars /\ serving'.reports = serving.reports
  BY <1>1, <1>2 DEF MirrorTypes
<1>4. MirrorTypes'
  BY <1>1, <1>2 DEF MirrorTypes
<1>5. Behind(mark, tick, research, serving') /\ Behind(high, tick, research, serving')
  BY <1>3 DEF MirrorInv, Behind
<1> QED BY <1>1, <1>4, <1>5 DEF MirrorInv, ReportsAreTold, PushedSoFar

\* The events a push brings, with those behind the watermark, are all of them.
LEMMA PushEventsKeeps == MirrorInv /\ M!PushEvents => MirrorInv'
<1> SUFFICES ASSUME MirrorInv, M!PushEvents PROVE MirrorInv'
  OBVIOUS
<1> DEFINE new == M!Since(research.events, mark.event)
<1>1. push = 2 /\ UNCHANGED <<research, run, tick, mark, faults>>
  <2>1. push \in 0..5 /\ M!Tables[push] = "events" /\ push # 0
    BY DEF M!PushEvents, M!At, MirrorInv, MirrorTypes
  <2>2. push = 2
    BY <2>1 DEF M!Tables
  <2> QED BY <2>2 DEF M!PushEvents
<1>2. MirrorTypes /\ Behind(mark, tick, research, serving) /\ Behind(high, tick, research, serving)
  BY DEF MirrorInv
<1>3. CASE push' = 0 /\ UNCHANGED <<serving, high>>
  <2>1. MirrorTypes'
    BY <1>1, <1>2, <1>3 DEF MirrorTypes
  <2> QED BY <1>1, <1>2, <1>3, <2>1 DEF MirrorInv, ReportsAreTold, PushedSoFar
<1>4. CASE /\ serving' = [serving EXCEPT !.events = @ \cup {e.slot : e \in new}]
           /\ high' = [high EXCEPT !.event = M!Greatest({@} \cup {e.id : e \in new})]
           /\ push' = push + 1
  <2>1. /\ serving'.events = serving.events \cup {e.slot : e \in new}
        /\ serving'.quotes = serving.quotes /\ serving'.bars = serving.bars
        /\ serving'.reports = serving.reports /\ serving'.runs = serving.runs
    BY <1>2, <1>4 DEF MirrorTypes
  <2>2. \A e \in research.events : e.slot \in serving'.events
    <3> TAKE e \in research.events
    <3>1. e.id \in Nat /\ mark.event \in Nat
      <4>1. e.id \in 1..tick /\ tick \in Nat
        BY <1>2 DEF MirrorTypes
      <4> QED BY <1>2, <4>1 DEF Behind
    <3>2. CASE e.id <= mark.event
      BY <1>2, <2>1, <3>2 DEF Behind
    <3>3. CASE e.id > mark.event
      <4>1. e \in new
        BY <3>3 DEF M!Since
      <4> QED BY <2>1, <4>1
    <3> QED BY <3>1, <3>2, <3>3
  <2>3. MirrorTypes'
    <3>1. {e.slot : e \in new} \subseteq Slots
      BY <1>2 DEF MirrorTypes, M!Since
    <3> HIDE DEF new
    <3> QED BY <1>1, <1>2, <1>4, <3>1 DEF MirrorTypes
  <2>4. Behind(mark, tick, research, serving')
    BY <1>2, <2>1 DEF Behind
  <2>5. Behind(high', tick, research, serving')
    <3> DEFINE es == {e.id : e \in research.events}
               ns == {e.id : e \in new}
    <3>1. es \in SUBSET (0..tick) /\ ns \in SUBSET es /\ tick \in Nat
      BY <1>2, IdsOfRows DEF M!Since
    <3>2. high.event \in Nat /\ high.event <= M!Greatest(es)
      BY <1>2 DEF Behind
    <3>3. /\ high \in [event : Nat, report : Nat, quote : 0..tick]
          /\ high' = [high EXCEPT !.event = M!Greatest({high.event} \cup ns)]
      BY <1>2, <1>4 DEF Behind
    <3> HIDE DEF es, ns
    <3>4. M!Greatest({high.event} \cup ns) \in Nat /\ M!Greatest({high.event} \cup ns) <= M!Greatest(es)
      BY <3>1, <3>2, GreatestAdvances
    <3>5. /\ high' \in [event : Nat, report : Nat, quote : 0..tick]
          /\ high'.event <= M!Greatest(es) /\ high'.report = high.report /\ high'.quote = high.quote
      BY <3>3, <3>4
    <3> USE DEF es
    <3> HIDE DEF new
    <3> QED BY <1>2, <2>1, <2>2, <3>5 DEF Behind
  <2>5a. push' = 3
    BY <1>1, <1>4
  <2>6. PushedSoFar' /\ ReportsAreTold'
    BY <1>1, <2>2, <2>5a DEF MirrorInv, PushedSoFar, ReportsAreTold
  <2> QED BY <1>1, <2>3, <2>4, <2>5, <2>6 DEF MirrorInv
<1> QED BY <1>3, <1>4 DEF M!PushEvents

\* The reports a push brings replace what stood under their ids, which no other report
\* of research has.
LEMMA PushReportsKeeps == MirrorInv /\ M!PushReports => MirrorInv'
<1> SUFFICES ASSUME MirrorInv, M!PushReports PROVE MirrorInv'
  OBVIOUS
<1> DEFINE new == M!Since(research.reports, mark.report)
           ids == {r.id : r \in new}
           rs  == {r.id : r \in research.reports}
<1>1. /\ push = 3 /\ push' = 4 /\ UNCHANGED <<research, run, tick, mark, faults>>
      /\ serving' = [serving EXCEPT !.reports = {r \in @ : r.id \notin ids} \cup new]
      /\ high' = [high EXCEPT !.report = M!Greatest({@} \cup ids)]
  <2>1. push \in 0..5 /\ M!Tables[push] = "reports" /\ push # 0
    BY DEF M!PushReports, M!At, MirrorInv, MirrorTypes
  <2>2. push = 3
    BY <2>1 DEF M!Tables
  <2> QED BY <2>2 DEF M!PushReports
<1>2. /\ MirrorTypes /\ Behind(mark, tick, research, serving) /\ Behind(high, tick, research, serving)
      /\ \A e \in research.events : e.slot \in serving.events
  BY <1>1 DEF MirrorInv, PushedSoFar
<1>3. /\ serving'.reports = {r \in serving.reports : r.id \notin ids} \cup new
      /\ serving'.quotes = serving.quotes /\ serving'.bars = serving.bars
      /\ serving'.events = serving.events /\ serving'.runs = serving.runs
  BY <1>1, <1>2 DEF MirrorTypes
<1>4. new \subseteq research.reports
  BY DEF M!Since
<1>5. \A r \in research.reports : r \in serving.reports => r \in serving'.reports
  <2> SUFFICES ASSUME NEW r \in research.reports, r \in serving.reports PROVE r \in serving'.reports
    OBVIOUS
  <2>1. CASE r.id \notin ids
    BY <1>3, <2>1
  <2>2. CASE r.id \in ids
    <3>1. PICK x \in new : x.id = r.id
      BY <2>2
    <3>2. x = r
      BY <1>4, <3>1 DEF MirrorInv, ReportsAreTold
    <3> QED BY <1>3, <3>1, <3>2
  <2> QED BY <2>1, <2>2
<1>6. research.reports \subseteq serving'.reports
  <2> SUFFICES ASSUME NEW r \in research.reports PROVE r \in serving'.reports
    OBVIOUS
  <2>1. r.id \in Nat /\ mark.report \in Nat
    <3>1. r.id \in 1..tick /\ tick \in Nat
      BY <1>2 DEF MirrorTypes
    <3> QED BY <1>2, <3>1 DEF Behind
  <2>2. CASE r.id <= mark.report
    BY <1>2, <1>5, <2>2 DEF Behind
  <2>3. CASE r.id > mark.report
    <3>1. r \in new
      BY <2>3 DEF M!Since
    <3> QED BY <1>3, <3>1
  <2> QED BY <2>1, <2>2, <2>3
<1>7. MirrorTypes'
  <2>1. research.reports \subseteq [id : 1..(tick + faults), slot : Slots, by : {"research", "pi"}]
    <3>1. 1..tick \subseteq 1..(tick + faults)
      BY <1>2 DEF MirrorTypes
    <3> QED BY <1>2, <3>1 DEF MirrorTypes
  <2>2. serving'.reports \subseteq [id : 1..(tick + faults), slot : Slots, by : {"research", "pi"}]
    <3>1. serving.reports \subseteq [id : 1..(tick + faults), slot : Slots, by : {"research", "pi"}]
      BY <1>2 DEF MirrorTypes
    <3>2. serving'.reports \subseteq serving.reports \cup research.reports
      BY <1>3, <1>4
    <3> QED BY <2>1, <3>1, <3>2
  <2> HIDE DEF new, ids
  <2>3. serving' = [serving EXCEPT !.reports = serving'.reports]
    BY <1>1, <1>2 DEF MirrorTypes
  <2>4. serving' \in [events  : SUBSET Slots,
                  reports : SUBSET [id : 1..(tick + faults), slot : Slots, by : {"research", "pi"}],
                  quotes  : SUBSET [slot : Slots, ts : 1..tick],
                  bars    : 0..tick,
                  runs    : SUBSET Nat]
    BY <1>2, <2>2, <2>3 DEF MirrorTypes
  <2> QED BY <1>1, <1>2, <2>4 DEF MirrorTypes
<1>8. Behind(mark, tick, research, serving')
  BY <1>2, <1>3, <1>6 DEF Behind
<1>9. Behind(high', tick, research, serving')
  <2>1. rs \in SUBSET (0..tick) /\ ids \in SUBSET rs /\ tick \in Nat
    BY <1>2, <1>4, IdsOfRows
  <2>2. high.report \in Nat /\ high.report <= M!Greatest(rs)
    BY <1>2 DEF Behind
  <2>3. /\ high \in [event : Nat, report : Nat, quote : 0..tick]
        /\ high' = [high EXCEPT !.report = M!Greatest({high.report} \cup ids)]
    BY <1>1, <1>2 DEF Behind
  <2> HIDE DEF rs, ids, new
  <2>4. M!Greatest({high.report} \cup ids) \in Nat /\ M!Greatest({high.report} \cup ids) <= M!Greatest(rs)
    BY <2>1, <2>2, GreatestAdvances
  <2>5. /\ high' \in [event : Nat, report : Nat, quote : 0..tick]
        /\ high'.report <= M!Greatest(rs) /\ high'.event = high.event /\ high'.quote = high.quote
    BY <2>3, <2>4
  <2> USE DEF rs
  <2> QED BY <1>2, <1>3, <1>6, <2>5 DEF Behind
<1>10. PushedSoFar' /\ ReportsAreTold'
  BY <1>1, <1>2, <1>3, <1>6 DEF MirrorInv, PushedSoFar, ReportsAreTold
<1> QED BY <1>1, <1>7, <1>8, <1>9, <1>10 DEF MirrorInv

LEMMA PushBarsKeeps == MirrorInv /\ M!PushBars => MirrorInv'
<1> SUFFICES ASSUME MirrorInv, M!PushBars PROVE MirrorInv'
  OBVIOUS
<1>1. /\ push = 4 /\ push' = 5 /\ serving' = [serving EXCEPT !.bars = research.bars]
      /\ UNCHANGED <<research, run, tick, mark, high, faults>>
  <2>1. push \in 0..5 /\ M!Tables[push] = "bars" /\ push # 0
    BY DEF M!PushBars, M!At, MirrorInv, MirrorTypes
  <2>2. push = 4
    BY <2>1 DEF M!Tables
  <2> QED BY <2>2 DEF M!PushBars
<1>2. MirrorTypes
  BY DEF MirrorInv
<1>3. /\ serving'.events = serving.events /\ serving'.quotes = serving.quotes
      /\ serving'.bars = research.bars /\ serving'.reports = serving.reports
  BY <1>1, <1>2 DEF MirrorTypes
<1>4. MirrorTypes'
  BY <1>1, <1>2 DEF MirrorTypes
<1>5. Behind(mark, tick, research, serving') /\ Behind(high, tick, research, serving')
  BY <1>3 DEF MirrorInv, Behind
<1> QED BY <1>1, <1>3, <1>4, <1>5 DEF MirrorInv, ReportsAreTold, PushedSoFar

\* The last table brings the rest, and the watermark follows.
LEMMA PushQuotesKeeps ==
  MirrorInv /\ M!PushQuotes =>
    MirrorInv' /\ research.quotes \subseteq serving'.quotes
    /\ serving'.events = serving.events /\ serving'.reports = serving.reports
    /\ serving'.bars = serving.bars
<1> SUFFICES ASSUME MirrorInv, M!PushQuotes
             PROVE  /\ MirrorInv' /\ research.quotes \subseteq serving'.quotes
                    /\ serving'.events = serving.events /\ serving'.reports = serving.reports
                    /\ serving'.bars = serving.bars
  OBVIOUS
<1> DEFINE new == {q \in research.quotes : q.ts > mark.quote}
           ts  == {mark.quote} \cup {q.ts : q \in new}
<1>1. /\ push = 5 /\ push' = 0 /\ serving' = [serving EXCEPT !.quotes = @ \cup new]
      /\ mark' = [high EXCEPT !.quote = M!Greatest(ts)]
      /\ UNCHANGED <<research, run, tick, high, faults>>
  <2>1. push \in 0..5 /\ M!Tables[push] = "quotes" /\ push # 0
    BY DEF M!PushQuotes, M!At, MirrorInv, MirrorTypes
  <2>2. push = 5
    BY <2>1 DEF M!Tables
  <2> QED BY <2>2 DEF M!PushQuotes
<1>2. /\ MirrorTypes /\ Behind(mark, tick, research, serving) /\ Behind(high, tick, research, serving)
      /\ \A e \in research.events : e.slot \in serving.events
      /\ research.reports \subseteq serving.reports
  BY <1>1 DEF MirrorInv, PushedSoFar
<1>3. /\ serving'.quotes = serving.quotes \cup new
      /\ serving'.reports = serving.reports /\ serving'.bars = serving.bars
      /\ serving'.events = serving.events /\ serving'.runs = serving.runs
  BY <1>1, <1>2 DEF MirrorTypes
<1>4. tick \in Nat /\ mark.quote \in 0..tick /\ \A q \in research.quotes : q.ts \in 1..tick
  BY <1>2 DEF MirrorTypes, Behind
<1>5. research.quotes \subseteq serving'.quotes
  <2> SUFFICES ASSUME NEW q \in research.quotes PROVE q \in serving'.quotes
    OBVIOUS
  <2>1. q.ts \in Nat /\ mark.quote \in Nat
    BY <1>4
  <2>2. CASE q.ts <= mark.quote
    BY <1>2, <1>3, <2>2 DEF Behind
  <2>3. CASE q.ts > mark.quote
    BY <1>3, <2>3
  <2> QED BY <2>1, <2>2, <2>3
<1>6. MirrorTypes'
  <2>1. new \subseteq research.quotes
    OBVIOUS
  <2> HIDE DEF new
  <2> QED BY <1>1, <1>2, <2>1 DEF MirrorTypes
<1>7. M!Greatest(ts) \in 0..tick
  <2>1. \A q \in new : q.ts \in 0..tick
    BY <1>4
  <2>2. ts \in SUBSET (0..tick)
    BY <1>4, <2>1
  <2> HIDE DEF ts
  <2> QED BY <1>4, <2>2, GreatestId
<1> HIDE DEF new, ts
<1>8. /\ mark' \in [event : Nat, report : Nat, quote : 0..tick]
      /\ mark'.event = high.event /\ mark'.report = high.report
  BY <1>1, <1>2, <1>7 DEF Behind
<1>9. Behind(mark', tick, research, serving')
  BY <1>2, <1>3, <1>5, <1>8 DEF Behind
<1>10. Behind(high, tick, research, serving')
  BY <1>2, <1>3, <1>5 DEF Behind
<1>11. PushedSoFar' /\ ReportsAreTold'
  BY <1>1 DEF MirrorInv, PushedSoFar, ReportsAreTold
<1> QED BY <1>1, <1>3, <1>5, <1>6, <1>9, <1>10, <1>11 DEF MirrorInv

LEMMA PushFailsKeeps == MirrorInv /\ M!PushFails => MirrorInv'
<1> SUFFICES ASSUME MirrorInv, M!PushFails PROVE MirrorInv'
  OBVIOUS
<1>1. /\ push' = 0 /\ mark' = mark /\ faults' = faults + 1
      /\ UNCHANGED <<research, serving, run, tick, high>>
  BY DEF M!PushFails, M!Fault, M!MarkAfterFailure
<1>2. MirrorTypes
  BY DEF MirrorInv
<1>3. MirrorTypes'
  BY <1>1, <1>2, FaultsMayGrow DEF MirrorTypes
<1> QED BY <1>1, <1>3 DEF MirrorInv, ReportsAreTold, PushedSoFar

LEMMA MirrorStep == MirrorInv /\ [M!Next]_(M!vars) => MirrorInv'
<1> SUFFICES ASSUME MirrorInv, [M!Next]_(M!vars) PROVE MirrorInv'
  OBVIOUS
<1>1. ASSUME NEW slots \in SUBSET Slots, \A s, t \in slots : s = t, M!Tick(slots) PROVE MirrorInv'
  BY <1>1, TickKeeps
<1>2. CASE UNCHANGED M!vars
  BY <1>2 DEF M!vars, MirrorInv, MirrorTypes, ReportsAreTold, PushedSoFar
<1> QED BY <1>1, <1>2, RestartKeeps, PiKeeps, PushRunsKeeps, PushEventsKeeps, PushReportsKeeps,
           PushBarsKeeps, PushQuotesKeeps, PushFailsKeeps DEF M!Next

LEMMA MirrorInvariant == M!Spec => []MirrorInv
<1>1. M!Init => MirrorInv
  BY MirrorInit
<1>2. MirrorInv /\ [M!Next]_(M!vars) => MirrorInv'
  BY MirrorStep
<1> QED BY <1>1, <1>2, PTL DEF M!Spec

\* A push that lands has brought everything the session fired so far and today's
\* candles, whatever earlier pushes failed at, however often the poller was started
\* again and whatever the Pi reported meanwhile: "a missed tick is repaired by the next
\* one" (run_live_sync, _push_live).
THEOREM LandedPushesAreWhole == M!Spec => [][M!SessionArrives]_(M!vars)
<1>1. MirrorInv /\ [M!Next]_(M!vars) => [M!SessionArrives]_(M!vars)
  <2> SUFFICES ASSUME MirrorInv, M!Next, M!At("quotes"), push' = 0, faults' = faults
               PROVE  /\ {e.slot : e \in research.events} \subseteq serving'.events
                      /\ research.reports \subseteq serving'.reports
                      /\ research.quotes \subseteq serving'.quotes
                      /\ serving'.bars = research.bars
    BY DEF M!SessionArrives
  <2>1. push = 5
    <3>1. push \in 0..5 /\ M!Tables[push] = "quotes" /\ push # 0
      BY DEF M!At, MirrorInv, MirrorTypes
    <3> QED BY <3>1 DEF M!Tables
  <2>2. faults \in Nat
    BY DEF MirrorInv, MirrorTypes
  <2>3. M!PushQuotes
    <3>1. ~M!Restart /\ ~M!PushFails /\ \A s \in Slots : ~M!PiFires(s)
      BY <2>2 DEF M!Restart, M!PushFails, M!PiFires, M!Fault
    <3>2. ~M!PushRuns /\ ~M!PushEvents /\ ~M!PushReports /\ ~M!PushBars
      BY <2>1 DEF M!PushRuns, M!PushEvents, M!PushReports, M!PushBars, M!At, M!Tables
    <3>3. \A slots \in SUBSET Slots : ~M!Tick(slots)
      BY <2>1 DEF M!Tick
    <3> QED BY <3>1, <3>2, <3>3 DEF M!Next
  <2>4. /\ research.quotes \subseteq serving'.quotes /\ serving'.events = serving.events
        /\ serving'.reports = serving.reports /\ serving'.bars = serving.bars
    BY <2>3, PushQuotesKeeps
  <2>5. /\ \A e \in research.events : e.slot \in serving.events
        /\ research.reports \subseteq serving.reports /\ serving.bars = research.bars
    BY <2>1 DEF MirrorInv, PushedSoFar
  <2> QED BY <2>4, <2>5
<1> QED BY <1>1, MirrorInvariant, PTL DEF M!Spec
=============================================================================
