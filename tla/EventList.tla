------------------------------ MODULE EventList ------------------------------
(***************************************************************************)
(* The event history of a ticker's page (components/EventRows.tsx): rows   *)
(* rendered by the server and further pages asked for by offset as the     *)
(* reader scrolls, while the poller adds events and the night puts         *)
(* research's row in the place of a live one. A toggle of the filter       *)
(* replaces the rows under a list that stays. A row is an event as it was  *)
(* when it was read.                                                       *)
(***************************************************************************)
EXTENDS Integers, Sequences, FiniteSets, SequencesExt

CONSTANTS
  First,     \* rows the page renders
  PageSize,  \* rows of one request
  Old,       \* the ticker's events at the beginning
  MaxFires,  \* bound on the poller's events; fewer than a page
  MaxDeeds   \* bound on renders, requests and failures

ListAssumption ==
  /\ First \in Nat \ {0} /\ PageSize \in Nat \ {0} /\ MaxDeeds \in Nat /\ MaxFires \in 0..(PageSize - 1)

VARIABLES
  events,    \* v_ticker_events of the ticker
  fires,     \* how many the poller added
  settles,   \* how many the night replaced
  unfiltered,       \* every fire, or confluences alone
  rows, count, done, failed,
  seen,      \* what the filter had when the page was rendered
  out,       \* the request that is out, if any
  view,      \* the number of the render
  late,      \* since then an answer came to an earlier one
  deeds

vars == <<events, fires, settles, unfiltered, rows, count, done, failed, seen, out, view, late, deeds>>

Deed == deeds < MaxDeeds /\ deeds' = deeds + 1

Ids(sq) == {sq[i].id : i \in DOMAIN sq}

-----------------------------------------------------------------------------
(* The server. *)

\* Newest first, then by id.
Listed(every) ==
  SetToSortSeq({e \in events : every \/ e.confluence},
               LAMBDA a, b : a.day > b.day \/ (a.day = b.day /\ a.id < b.id))

Events(every, limit, offset) ==
  LET list == Listed(every)
      last == IF offset + limit < Len(list) THEN offset + limit ELSE Len(list)
  IN SubSeq(list, offset + 1, last)

CountEvents(every) == Cardinality({e \in events : every \/ e.confluence})

NewId == 1 + Cardinality(Old) + fires + settles
LastDay == CHOOSE d \in {e.day : e \in events} : \A e \in events : e.day <= d

\* On the day of the newest event or the next.
Fire(confluence) ==
  /\ fires < MaxFires /\ fires' = fires + 1
  /\ \E day \in {LastDay, LastDay + 1} :
       events' = events \cup {[id |-> NewId, day |-> day, confluence |-> confluence, live |-> TRUE]}
  /\ UNCHANGED <<settles, unfiltered, rows, count, done, failed, seen, out, view, late, deeds>>

\* Research's row, under its own id and label.
Settle(e, confluence) ==
  /\ e.live /\ settles' = settles + 1
  /\ events' = (events \ {e}) \cup {[e EXCEPT !.id = NewId, !.confluence = confluence, !.live = FALSE]}
  /\ UNCHANGED <<fires, unfiltered, rows, count, done, failed, seen, out, view, late, deeds>>

-----------------------------------------------------------------------------
(* The list. *)

\* The server reads rows and count side by side; the list takes the new props, and
\* a request that is out stays out.
Render(every) ==
  /\ Deed
  /\ LET initial == Events(every, First, 0)
     IN /\ rows' = initial /\ count' = Len(initial)
        /\ done' = (Len(initial) >= CountEvents(every))
        /\ seen' = {e.id : e \in {f \in events : every \/ f.confluence}}
  /\ unfiltered' = every /\ failed' = FALSE /\ view' = view + 1
  /\ late' = FALSE
  /\ UNCHANGED <<events, fires, settles, out>>

\* Kept beside the rows, which the observer would see as they were.
Offset == count

LoadMore ==
  /\ Deed /\ view > 0 /\ out = {} /\ ~done
  /\ out' = {[offset |-> Offset, all |-> unfiltered, view |-> view]}
  /\ UNCHANGED <<events, fires, settles, unfiltered, rows, count, done, failed, seen, view, late>>

Merged(page) == rows \o SelectSeq(page, LAMBDA e : e.id \notin Ids(rows))

\* A short page is the last.
Answer(ask) ==
  /\ LET page == Events(ask.all, PageSize, ask.offset)
     IN /\ rows' = Merged(page) /\ count' = Len(Merged(page))
        /\ done' = (done \/ Len(page) < PageSize)
  /\ failed' = FALSE
  /\ late' = (late \/ ask.view # view)
  /\ out' = {}
  /\ UNCHANGED <<events, fires, settles, unfiltered, seen, view, deeds>>

\* No more is asked for until the reader says so.
Fail ==
  /\ Deed /\ out # {}
  /\ failed' = TRUE /\ done' = TRUE /\ out' = {}
  /\ UNCHANGED <<events, fires, settles, unfiltered, rows, count, seen, view, late>>

Retry ==
  /\ failed /\ failed' = FALSE /\ done' = FALSE
  /\ UNCHANGED <<events, fires, settles, unfiltered, rows, count, seen, out, view, late, deeds>>

Init ==
  /\ events = Old /\ fires = 0 /\ settles = 0 /\ unfiltered = FALSE
  /\ rows = <<>> /\ count = 0 /\ done = FALSE /\ failed = FALSE /\ seen = {}
  /\ out = {} /\ view = 0 /\ late = FALSE /\ deeds = 0

Next ==
  \/ \E confluence \in BOOLEAN : Fire(confluence)
  \/ \E e \in events, confluence \in BOOLEAN : Settle(e, confluence)
  \/ \E every \in BOOLEAN : Render(every)
  \/ LoadMore \/ Fail \/ Retry
  \/ \E ask \in out : Answer(ask)

Spec == Init /\ [][Next]_vars

-----------------------------------------------------------------------------

\* No event is listed twice, whatever shifts the offsets: "a duplicate React key is
\* a silent rendering fault".
NoRowTwice == \A i, j \in DOMAIN rows : rows[i].id = rows[j].id => i = j

\* The list is newest first and of its filter, unless an answer came to another
\* render than the one that asked.
ListIsOfItsFilter ==
  ~late =>
    /\ \A i \in 2..Len(rows) : rows[i - 1].day >= rows[i].day
    /\ \A i \in DOMAIN rows : unfiltered \/ rows[i].confluence

\* A list that is done without a failure has every event that was there when the
\* page was rendered, however the new ones moved the offsets. A row the night replaces
\* moves them the other way, behind another of its day or out of the filter, and then
\* a row may be passed over.
DoneIsComplete ==
  done /\ ~failed /\ ~late /\ view > 0 /\ settles = 0 => seen \subseteq Ids(rows)

\* An answer lets the list grow or ends it: it never asks for one page for ever.
ListGrows ==
  ~late /\ out' = {} /\ ~failed' /\ (\E ask \in out : ask.view = view) => Len(rows') > Len(rows) \/ done'

\* Without that condition the list is not always of its filter: an answer for the
\* other one is merged into the new rows, and its end is taken for theirs.
ListIsAlwaysOfItsFilter == \A i \in DOMAIN rows : unfiltered \/ rows[i].confluence
=============================================================================
