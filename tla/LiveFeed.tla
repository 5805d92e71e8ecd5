------------------------------ MODULE LiveFeed ------------------------------
(***************************************************************************)
(* The moving price on a ticker's page (web/lib/liveFeed.ts): the header   *)
(* and the chart subscribe to one feed per ticker, which asks /api/live on *)
(* a timer and on a return to the tab, and goes quiet when the database    *)
(* says that the session is over. The poller rewrites bars_live while the  *)
(* session runs, and its last tick may land after the bell. Requests       *)
(* overlap and are answered in any order. A snapshot is the version of the *)
(* ticker's row that was read (0: there is none) and whether the session   *)
(* was open then.                                                          *)
(***************************************************************************)
EXTENDS Integers, FiniteSets

CONSTANTS
  Tickers,      \* whose pages are visited
  MaxTicks,     \* bound on the poller's writes of a ticker's row
  MaxRequests,  \* bound on the requests
  MaxPages      \* bound on the pages visited

FeedAssumption == Tickers # {} /\ MaxTicks \in Nat /\ MaxRequests \in Nat /\ MaxPages \in Nat

VARIABLES
  live,      \* per ticker, the version of its row in bars_live
  open,      \* market_is_open()
  page,      \* the page on screen: its number, its ticker, the row it was drawn with
  feeds,     \* the feeds, by the number of the page that made them
  visible,   \* the tab is visible
  requests,  \* the requests that are out, and what was read for them
  sent,      \* how many there were
  header,    \* the version the header's live price is of; 0: no live price
  candle     \* the version the chart's last candle is of

vars == <<live, open, page, feeds, visible, requests, sent, header, candle>>

\* The header and the chart of a page mount and unmount together, so a feed is known
\* by the page that made it, and both listen to it while that page is on screen.
Feed(ticker) == [ticker |-> ticker, listening |-> TRUE, timer |-> TRUE, closed |-> FALSE]
Registered(f) == f = page.number

NotRead == [version |-> -1, open |-> FALSE]

-----------------------------------------------------------------------------
(* The database. *)

\* _write_live_bars; the loop asks the time before the tick, not before it
\* writes.
PollerTick(t) ==
  /\ open /\ live[t] < MaxTicks
  /\ live' = [live EXCEPT ![t] = @ + 1]
  /\ UNCHANGED <<open, page, feeds, visible, requests, sent, header, candle>>

Bell ==
  /\ open /\ open' = FALSE
  /\ \E late \in SUBSET Tickers :
       /\ \A t \in late : live[t] < MaxTicks
       /\ live' = [t \in Tickers |-> IF t \in late THEN live[t] + 1 ELSE live[t]]
  /\ UNCHANGED <<page, feeds, visible, requests, sent, header, candle>>

-----------------------------------------------------------------------------
(* The page. *)

\* Mutant: the listeners stay on the document.
UnsubscribedKeepingListeners(fs) ==
  [f \in DOMAIN fs |-> [fs[f] EXCEPT !.timer = FALSE]]

\* The returned unsubscribe, of both components: the last one out stops the
\* feed.
Unsubscribed(fs) ==
  [f \in DOMAIN fs |-> [fs[f] EXCEPT !.listening = FALSE, !.timer = FALSE]]

Ask(f) == [feed |-> f, number |-> sent + 1, read |-> NotRead]

\* refresh, up to its await.
Refresh(f) ==
  IF Registered(f) /\ ~feeds[f].closed /\ visible
    THEN /\ sent < MaxRequests
         /\ requests' = requests \cup {Ask(f)} /\ sent' = sent + 1
    ELSE UNCHANGED <<requests, sent>>

\* A page is rendered with the row of that moment and mounted: subscribeLive of
\* both components, and one request on the microtask.
Visit(t) ==
  /\ page.number < MaxPages /\ (visible => sent < MaxRequests)
  /\ page' = [number |-> page.number + 1, ticker |-> t, drawn |-> live[t]]
  /\ feeds' = [f \in 1..page.number + 1 |->
                 IF f = page.number + 1 THEN Feed(t) ELSE Unsubscribed(feeds)[f]]
  /\ header' = (IF open THEN live[t] ELSE 0)
  /\ candle' = live[t]
  /\ IF visible
       THEN /\ requests' = requests \cup
                 {[feed |-> page.number + 1, number |-> sent + 1, read |-> NotRead]}
            /\ sent' = sent + 1
       ELSE UNCHANGED <<requests, sent>>
  /\ UNCHANGED <<live, open, visible>>

\* The interval fires.
Timer(f) ==
  /\ f \in DOMAIN feeds /\ feeds[f].timer /\ Refresh(f)
  /\ UNCHANGED <<live, open, page, feeds, visible, header, candle>>

Hide ==
  /\ visible /\ visible' = FALSE
  /\ UNCHANGED <<live, open, page, feeds, requests, sent, header, candle>>

\* visibilitychange, heard by the feed of the page on screen.
Return ==
  /\ ~visible /\ visible' = TRUE
  /\ IF page.number > 0 /\ ~feeds[page.number].closed
       THEN sent < MaxRequests /\ requests' = requests \cup {Ask(page.number)} /\ sent' = sent + 1
       ELSE UNCHANGED <<requests, sent>>
  /\ UNCHANGED <<live, open, page, feeds, header, candle>>

\* liveRowFor: one read gives the row and whether the session is open.
Read(r) ==
  /\ r.read = NotRead
  /\ requests' = (requests \ {r}) \cup
       {[r EXCEPT !.read = [version |-> live[feeds[r.feed].ticker], open |-> open]]}
  /\ UNCHANGED <<live, open, page, feeds, visible, sent, header, candle>>

\* toLiveQuote and toLiveBar: no live price once the session is over, the candle
\* as long as there is a row.
Quote(s) == IF s.open THEN s.version ELSE 0

\* refresh, after its await.
Deliver(r) ==
  /\ r.read # NotRead
  /\ requests' = requests \ {r}
  /\ LET f == feeds[r.feed]
         over == r.read.version > 0 /\ ~r.read.open
     IN /\ feeds' = IF Registered(r.feed) /\ over
                      THEN [feeds EXCEPT ![r.feed].closed = TRUE, ![r.feed].timer = FALSE]
                      ELSE feeds
        /\ IF f.listening
             THEN /\ header' = Quote(r.read)
                  /\ candle' = (IF r.read.version > 0 THEN r.read.version ELSE candle)
             ELSE UNCHANGED <<header, candle>>
  /\ UNCHANGED <<live, open, page, visible, sent>>

\* The request fails, or is not answered with a 200.
Lose(r) ==
  /\ requests' = requests \ {r}
  /\ UNCHANGED <<live, open, page, feeds, visible, sent, header, candle>>

Init ==
  /\ live = [t \in Tickers |-> 0] /\ open = TRUE
  /\ page = [number |-> 0, ticker |-> CHOOSE t \in Tickers : TRUE, drawn |-> 0]
  /\ feeds = <<>> /\ visible = TRUE /\ requests = {} /\ sent = 0
  /\ header = 0 /\ candle = 0

Next ==
  \/ \E t \in Tickers : PollerTick(t) \/ Visit(t)
  \/ Bell \/ Hide \/ Return
  \/ \E f \in 1..MaxPages : Timer(f)
  \/ \E r \in requests : Read(r) \/ Deliver(r) \/ Lose(r)

Spec == Init /\ [][Next]_vars

-----------------------------------------------------------------------------

\* Of all the feeds only that of the page on screen has a timer, whatever was
\* still being asked when its page was left.
OneTimer == \A f \in DOMAIN feeds : feeds[f].timer => Registered(f)

\* Header and candle are of the page's own ticker and never older than the row
\* the page was rendered with, and while the session runs they are the same
\* version: answers to a page that was left do not reach the next one.
OwnVersions ==
  page.number > 0 =>
    /\ header # 0 => header >= page.drawn /\ header <= live[page.ticker]
    /\ candle >= page.drawn /\ candle <= live[page.ticker]
    /\ header # 0 => header = candle

\* Of all the feeds a visit leaves behind only the last ticks, and a page shows what
\* its own feed was told (subscribeLive, refresh).
PageShowsItsOwn == OneTimer /\ OwnVersions

\* Once a feed has gone quiet and nothing is being asked any more, there is no
\* live price on the page (LivePrice.tsx: "Null means the session is over, and
\* the price goes away").
PriceGoesAway ==
  page.number > 0 /\ feeds[page.number].closed /\ requests = {} => header = 0

\* ... and the candle is the session's last (liveFeed.ts: "A row with marketOpen
\* === false is delivered, so the candle and the header take their last
\* values").
CandleIsTheLast ==
  page.number > 0 /\ feeds[page.number].closed /\ requests = {} => candle = live[page.ticker]
=============================================================================
