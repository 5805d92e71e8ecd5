----------------------------- MODULE FetchCache ------------------------------
(***************************************************************************)
(* The fetcher contract of jobs/fetch: a call is answered from the disk    *)
(* cache, or by a request that is retried and then cached. A job may ask   *)
(* the same question again on the same day and on later ones, while the    *)
(* vendor is still publishing what it asks for.                            *)
(*                                                                         *)
(* An item is what one ticker has for one day (its bars, its corporate     *)
(* actions); the vendor publishes it some days late. An answer is a set of *)
(* items. Left out: the pause between requests and the backoff, the        *)
(* columns, and hashing a long list of tickers into the key.               *)
(***************************************************************************)
EXTENDS Integers, FiniteSets

CONSTANTS
  Tickers,        \* the tickers of one batch
  LastDay,        \* bound: days are 1..LastDay
  RecentDays,     \* RECENT_WINDOW_DAYS
  MaxDelay,       \* the vendor publishes a day's item at most so many days late
  Attempts,       \* with_retry's attempts
  Disruptions,    \* what may go wrong: "transient", "notfound", "nan", "kill"
  MaxDisruptions  \* bound: how many times

Days  == 1..LastDay
Items == Tickers \X Days

FetchAssumption ==
  /\ LastDay \in Nat \ {0} /\ RecentDays \in Nat /\ MaxDelay \in Nat /\ MaxDelay <= RecentDays
  /\ Attempts \in Nat \ {0} /\ MaxDisruptions \in Nat
  /\ Disruptions \subseteq {"transient", "notfound", "nan", "kill"}

VARIABLES
  today,
  published,  \* the items the vendor serves, for bars and for actions
  cache,      \* the files: a function from keys to answers
  torn,       \* the keys whose file a kill left half written
  call,       \* the question in hand: kind, tickers and window
  attempt,    \* how many requests the question has cost
  answer,     \* what the last question was answered with
  morning,    \* what was published when today began
  pc, mishaps

vars == <<today, published, cache, torn, call, attempt, answer, morning, pc, mishaps>>

Mishap(kind) == kind \in Disruptions /\ mishaps < MaxDisruptions /\ mishaps' = mishaps + 1

NoAnswer == [status |-> "none", items |-> {}]

\* A window ends on the day asked for, or earlier in a backfill. The actions
\* window ends today, and a document has no window.
Questions ==
  [kind : {"bars"}, tickers : (SUBSET Tickers) \ {{}}, from : Days, to : Days]
  \cup [kind : {"actions", "facts"}, tickers : (SUBSET Tickers) \ {{}}, from : {1}, to : {today}]

Asked(q) == q.tickers \X (q.from..q.to)
Served(q) == published \cap Asked(q)

-----------------------------------------------------------------------------

\* Mutant: the window that ends today is the only recent one.
WindowEndsToday(q) == q.to >= today

\* _window_is_recent: bypass_fn of the bar fetchers.
WindowIsRecent(q) == q.to >= today - RecentDays

Bypasses(q) == q.kind = "bars" /\ WindowIsRecent(q)

\* _batch_key, _actions_batch_key, _actions_key; the CIK or the bare ticker.
Key(q) ==
  IF q.kind = "facts" THEN <<q.kind, q.tickers, 0, 0>> ELSE <<q.kind, q.tickers, q.from, q.to>>

Init ==
  /\ today = 1 /\ published = {} /\ morning = {}
  /\ cache = [k \in {} |-> {}] /\ torn = {}
  /\ call \in {[kind |-> "bars", tickers |-> Tickers, from |-> 1, to |-> 1]}
  /\ attempt = 0 /\ answer = NoAnswer /\ pc = "idle" /\ mishaps = 0

Publish ==
  /\ \E item \in Items :
       item[2] <= today /\ item \notin published /\ published' = published \cup {item}
  /\ UNCHANGED <<today, cache, torn, call, attempt, answer, morning, pc, mishaps>>

\* The vendor is at most MaxDelay days late.
NextDay ==
  /\ pc = "idle" /\ today < LastDay
  /\ \A item \in Items : item[2] + MaxDelay <= today => item \in published
  /\ today' = today + 1 /\ morning' = published /\ answer' = NoAnswer
  /\ UNCHANGED <<published, cache, torn, call, attempt, pc, mishaps>>

\* A job asks. A file on disk answers, whatever it holds.
Ask ==
  /\ pc = "idle"
  /\ \E q \in Questions :
       /\ q.from <= q.to /\ q.to <= today
       /\ call' = q /\ attempt' = 0
       /\ IF ~Bypasses(q) /\ Key(q) \in torn
            THEN answer' = [status |-> "error", items |-> {}] /\ pc' = "idle"
          ELSE IF ~Bypasses(q) /\ Key(q) \in DOMAIN cache
            THEN answer' = [status |-> "ok", items |-> cache[Key(q)]] /\ pc' = "idle"
          ELSE answer' = NoAnswer /\ pc' = "request"
  /\ UNCHANGED <<today, published, cache, torn, morning, mishaps>>

Deliver(items) ==
  /\ answer' = [status |-> "ok", items |-> items]
  /\ pc' = IF Bypasses(call) THEN "idle" ELSE "store"

\* The request succeeds. A ticker that came back empty inside the batch is
\* asked again alone, so it is missing only if both requests lost it.
Respond ==
  /\ pc = "request"
  /\ \/ Deliver(Served(call)) /\ UNCHANGED mishaps
     \/ \E t \in call.tickers :
          /\ Mishap("nan")
          /\ Deliver({item \in Served(call) : item[1] # t})
  /\ attempt' = attempt + 1
  /\ UNCHANGED <<today, published, cache, torn, call, morning>>

\* with_retry: 429, 5xx and connection errors are tried again.
FailTransiently ==
  /\ pc = "request" /\ Mishap("transient")
  /\ attempt' = attempt + 1
  /\ IF attempt + 1 = Attempts
       THEN answer' = [status |-> "error", items |-> {}] /\ pc' = "idle"
       ELSE UNCHANGED <<answer, pc>>
  /\ UNCHANGED <<today, published, cache, torn, call, morning>>

\* A 404 is not.
FailForGood ==
  /\ pc = "request" /\ Mishap("notfound")
  /\ attempt' = attempt + 1
  /\ answer' = [status |-> "error", items |-> {}] /\ pc' = "idle"
  /\ UNCHANGED <<today, published, cache, torn, call, morning>>

\* to_parquet at its final path.
Store ==
  /\ pc = "store"
  /\ cache' = [k \in DOMAIN cache \cup {Key(call)} |->
                 IF k = Key(call) THEN answer.items ELSE cache[k]]
  /\ pc' = "idle"
  /\ UNCHANGED <<today, published, torn, call, attempt, answer, morning, mishaps>>

KillWhileStoring ==
  /\ pc = "store" /\ Mishap("kill")
  /\ torn' = torn \cup {Key(call)}
  /\ answer' = NoAnswer /\ pc' = "idle"
  /\ UNCHANGED <<today, published, cache, call, attempt, morning>>

Next ==
  Publish \/ NextDay \/ Ask \/ Respond \/ FailTransiently \/ FailForGood \/ Store \/ KillWhileStoring

Spec == Init /\ [][Next]_vars

-----------------------------------------------------------------------------

\* A window of bars is answered with everything the vendor had published when
\* the question was asked, whether the disk or the vendor answered: nothing is
\* cached before the vendor is done with it. Only a request that lost a ticker
\* twice can leave a hole behind.
BarsAreCurrent ==
  (call'.kind = "bars" /\ answer'.status = "ok" /\ answer # answer' /\ mishaps' = 0)
  => answer'.items = published \cap Asked(call')

\* Corporate actions are at most a day behind: today's first answer is read
\* back all day, and never an earlier day's.
ActionsAreOfToday ==
  (call.kind = "actions" /\ answer.status = "ok" /\ mishaps = 0)
  => morning \cap Asked(call) \subseteq answer.items

\* The same of the documents. Their key carries no date, so the first answer
\* is read back for good (the docstring of _actions_batch_key says a key "must
\* carry everything that determines the answer").
FactsAreOfToday ==
  (call.kind = "facts" /\ answer.status = "ok" /\ mishaps = 0)
  => morning \cap Asked(call) \subseteq answer.items
=============================================================================
