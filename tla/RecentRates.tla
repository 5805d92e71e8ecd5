----------------------------- MODULE RecentRates ------------------------------
(***************************************************************************)
(* What the site says of the model lately (lib/reliability.ts): the rate   *)
(* that was stated against the rate that came, over the last sessions, in  *)
(* a cache every page load of a server process shares, and the reliability *)
(* buckets of the forward log. A session is its resolved rows and their    *)
(* hits; the stated probability and the Wilson interval are left out.      *)
(***************************************************************************)
EXTENDS Integers, Sequences, FiniteSets, FiniteSetsExt, SequencesExt

CONSTANTS
  Sessions,   \* REALISED_RATE_SESSIONS
  Fresh,      \* RECENT_CACHE_MS
  NBuckets,   \* nBuckets of `reliability`
  Days,       \* what a session may resolve to: rows and hits
  MaxDays,    \* bound on the sessions
  MaxTime,    \* bound on the clock
  MaxQueries, \* bound on the queries
  MaxMishaps  \* bound on failures and restarts

RatesAssumption ==
  /\ Sessions \in Nat \ {0} /\ Fresh \in Nat \ {0} /\ NBuckets \in Nat \ {0}
  /\ \A d \in Days : d.n \in Nat \ {0} /\ d.hits \in 0..d.n
  /\ {MaxDays, MaxTime, MaxQueries, MaxMishaps} \subseteq Nat

VARIABLES
  log,      \* the forward log, a session after another
  now,
  cache,    \* the figures and when they came, if any
  queries,  \* the queries that are out: what they have read, if anything
  waiting,  \* loads that wait for one
  served,   \* the last answer of this process, if any: how much of `log` it was of
  asked, mishaps

vars == <<log, now, cache, queries, waiting, served, asked, mishaps>>

-----------------------------------------------------------------------------
(* summariseRecent and reliability. *)

Recent(upto) == SubSeq(log, IF upto > Sessions THEN upto - Sessions + 1 ELSE 1, upto)

Sum(days, v(_)) == MapThenSumSet(LAMBDA i : v(days[i]), DOMAIN days)

\* n / deff, with the sessions' distances from the pooled rate against those of as
\* many coins; at least the sessions, at most the rows.
Effective(days) ==
  LET n == Sum(days, LAMBDA d : d.n)
      hits == Sum(days, LAMBDA d : d.hits)
      k == Len(days)
      apart == Sum(days, LAMBDA d : (n * d.hits - hits * d.n) * (n * d.hits - hits * d.n))
  IN IF k <= 1 \/ hits \in {0, n} \/ apart = 0 THEN n
     ELSE Min({n, Max({k, ((k - 1) * n * n * hits * (n - hits)) \div (k * apart)})})

Summary(upto) ==
  LET days == Recent(upto)
  IN [upto |-> upto, n |-> Sum(days, LAMBDA d : d.n), eff |-> Effective(days), sessions |-> Len(days)]

\* The rows of each bucket, out of `rows` in the order of what was stated; the last
\* one takes the rest, and an empty one is left out.
Slices(rows) ==
  LET size == rows \div NBuckets
      slice(i) == (i * size + 1)..(IF i = NBuckets - 1 THEN rows ELSE (i + 1) * size)
  IN {slice(i) : i \in 0..(NBuckets - 1)} \ {{}}

-----------------------------------------------------------------------------
(* recentRealisedOrNone and revalidate. *)

Mishap == mishaps < MaxMishaps /\ mishaps' = mishaps + 1
Unread == {}

\* One refresh at a time.
Revalidate ==
  IF queries # <<>> THEN UNCHANGED <<queries, asked>>
  ELSE asked < MaxQueries /\ queries' = <<Unread>> /\ asked' = asked + 1

\* A load waits only if there are no figures at all.
Load ==
  /\ IF cache = {} THEN Revalidate /\ waiting' = TRUE /\ UNCHANGED served
     ELSE \E c \in cache :
            /\ IF now - c.at >= Fresh THEN Revalidate ELSE UNCHANGED <<queries, asked>>
            /\ served' = {c.value} /\ UNCHANGED waiting
  /\ UNCHANGED <<log, now, cache, mishaps>>

\* The query sees the log as it is at one moment.
Read(i) ==
  /\ queries[i] = Unread
  /\ queries' = [queries EXCEPT ![i] = {Summary(Len(log))}]
  /\ UNCHANGED <<log, now, cache, waiting, served, asked, mishaps>>

Done(i) ==
  /\ queries[i] # Unread
  /\ cache' = {[at |-> now, value |-> v] : v \in queries[i]}
  /\ queries' = RemoveAt(queries, i)
  /\ served' = IF waiting THEN queries[i] ELSE served
  /\ waiting' = FALSE
  /\ UNCHANGED <<log, now, asked, mishaps>>

\* The old figures stay; who has waited gets none.
Fail(i) ==
  /\ Mishap /\ queries' = RemoveAt(queries, i) /\ waiting' = FALSE
  /\ served' = IF waiting THEN {} ELSE served
  /\ UNCHANGED <<log, now, cache, asked>>

Restart ==
  /\ Mishap
  /\ cache' = {} /\ queries' = <<>> /\ waiting' = FALSE /\ served' = {}
  /\ UNCHANGED <<log, now, asked>>

\* The night resolves a session.
Resolve ==
  /\ Len(log) < MaxDays /\ \E d \in Days : log' = Append(log, d)
  /\ UNCHANGED <<now, cache, queries, waiting, served, asked, mishaps>>

Later ==
  /\ now < MaxTime /\ now' = now + 1
  /\ UNCHANGED <<log, cache, queries, waiting, served, asked, mishaps>>

Init ==
  /\ log = <<>> /\ now = 0 /\ cache = {} /\ queries = <<>> /\ waiting = FALSE
  /\ served = {} /\ asked = 0 /\ mishaps = 0

Next ==
  \/ Load \/ Restart \/ Resolve \/ Later
  \/ \E i \in DOMAIN queries : Read(i) \/ Done(i) \/ Fail(i)

Spec == Init /\ [][Next]_vars

-----------------------------------------------------------------------------

\* While a process lives no load is answered with less of the log than an earlier
\* one, and none with nothing once there are figures; a load that is answered with
\* old ones leaves a refresh on its way (recentRealisedOrNone, revalidate).
FiguresMoveForward ==
  /\ \A a \in served, b \in served' : a.upto <= b.upto
  /\ served # {} /\ cache' # {} => served' # {}
  /\ served' # served => \A c \in cache' : now - c.at < Fresh \/ queries' # <<>>

\* The effective sample is at least the sessions and at most the rows, however the
\* hits fall, and every row of the log is in one reliability bucket.
FiguresAreSound ==
  /\ \A s \in served : s.sessions <= Sessions /\ s.eff <= s.n /\ s.eff >= s.sessions
  /\ LET rows == Sum(log, LAMBDA d : d.n)
     IN /\ UNION Slices(rows) = 1..rows
        /\ \A a, b \in Slices(rows) : a # b => a \cap b = {}

\* A load gets figures that are "up to one refresh old". It does not hold: the first
\* load after a quiet day gets the figures of the day before.
FiguresAreRecent ==
  served' # served => \A c \in cache : now - c.at < 2 * Fresh
=============================================================================
