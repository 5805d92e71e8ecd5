----------------------------- MODULE ScreenPage ------------------------------
(***************************************************************************)
(* The screener: what v_screen_live makes of events, fire reports and      *)
(* predictions of a day, the page the server renders from it with its      *)
(* arrows, and the calendar, which asks in the browser. Events of a        *)
(* ticker's two sides may fire on one day, live labels are replaced        *)
(* overnight, and reports and predictions were written by every version of *)
(* the code so far. Prices, bands and statistics are left out, and sorting *)
(* with its limit.                                                         *)
(***************************************************************************)
EXTENDS Integers, FiniteSets, FiniteSetsExt

CONSTANTS
  LastDay,    \* bound: the days are 1..LastDay
  MonthDays,  \* days of a month
  Release,    \* the day reports got their type and their judgements
  Tickers,
  MaxDeeds    \* bound on what fires, is scored or settled, and on what the reader asks for

ScreenAssumption ==
  /\ LastDay \in Nat \ {0} /\ MonthDays \in Nat \ {0} /\ Release \in Nat
  /\ MaxDeeds \in Nat

VARIABLES
  today,
  events,   \* serving's events
  reports,  \* serving's signal_reports, numbered by fired_at
  preds,    \* serving's predictions
  screen,     \* the page on the screen: its date, its filter and its arrows
  picker,   \* the calendar
  asked,    \* the requests of the calendar that are not aborted
  deeds

vars == <<today, events, reports, preds, screen, picker, asked, deeds>>

Deed == deeds < MaxDeeds /\ deeds' = deeds + 1

Types == {"low_touch", "low_close", "high_touch"}
Side(type) == IF type = "high_touch" THEN "short" ELSE "long"
Month(d) == (d - 1) \div MonthDays
Months == Month(1)..Month(LastDay)
Greatest(S) == IF S = {} THEN 0 ELSE Max(S)
Least(S) == IF S = {} THEN 0 ELSE Min(S)

-----------------------------------------------------------------------------
(* v_screen_live. *)

Feed(e) == e.kind = "touch" /\ (e.trade \/ e.watch)

\* A report of before the column has no type.
Reports(e) ==
  {r \in reports : r.ticker = e.ticker /\ r.day = e.day /\ r.type \in {"none", e.type}}

Reversal(e, way) == Greatest({r.at : r \in {q \in Reports(e) : way \in q.judged}})

\* One prediction of those that name the event or share its key. `p2.event_id = e.id`
\* in descending order puts a row without an event before the event's own, for NULL
\* is greatest; among equals the newest.
Prediction(e) ==
  LET scored == {p \in preds : p.scored}
      own == {p \in scored : p.event = e.id}
      key == {p \in scored : /\ p.ticker = e.ticker /\ p.day = e.day
                             /\ p.type = e.type /\ p.kind = e.kind}
      unlinked == {p \in key : p.event = 0}
      chosen == IF unlinked # {} THEN unlinked ELSE IF own # {} THEN own ELSE key
  IN Greatest({p.id : p \in chosen})

Row(e) ==
  [event |-> e, fired |-> Greatest({r.at : r \in Reports(e)}),
   bear |-> Reversal(e, "bear"), bull |-> Reversal(e, "bull"), pred |-> Prediction(e)]

Filtered(confluence) == {e \in events : Feed(e) /\ (confluence => e.confluence)}
Rows(d, confluence) == {Row(e) : e \in {f \in Filtered(confluence) : f.day = d}}

-----------------------------------------------------------------------------
(* What is asked of `events` instead of the view. *)

Domain(confluence) ==
  {e.day : e \in {f \in events : /\ f.kind = "touch" /\ (f.trade \/ f.watch)
                                 /\ confluence => f.confluence}}

\* The newest date is the feed's, whatever the filter.
LatestDate == Greatest(Domain(FALSE))
Neighbours(d, confluence) ==
  [prev |-> Greatest({f \in Domain(confluence) : f < d}),
   next |-> Least({f \in Domain(confluence) : f > d})]
MonthCounts(month, confluence) == {d \in Domain(confluence) : Month(d) = month}

-----------------------------------------------------------------------------
(* The stores. *)

NewId == 1 + Greatest({e.id : e \in events} \cup {r.at : r \in reports} \cup {p.id : p \in preds})

\* The poller writes the event and its report, in the shape of the day's release;
\* the debounce leaves a side one fire.
Fire(t, type, confluence, uni) ==
  /\ Deed
  /\ ~ \E e \in events : e.ticker = t /\ e.day = today /\ Side(e.type) = Side(type)
  /\ events' = events \cup
       {[id |-> NewId, ticker |-> t, day |-> today, type |-> type, kind |-> "touch",
         confluence |-> confluence, trade |-> uni = "trade", watch |-> uni = "watch", live |-> TRUE]}
  /\ reports' = reports \cup
       {[at |-> NewId + 1, ticker |-> t, day |-> today,
         type |-> IF today < Release THEN "none" ELSE type,
         judged |-> IF today < Release THEN {} ELSE {"bear", "bull"}]}
  /\ UNCHANGED <<today, preds, screen, picker, asked>>

\* The Pi scores the events it knows, once.
Score(e) ==
  /\ Deed /\ e.live /\ ~ \E p \in preds : p.event = e.id
  /\ preds' = preds \cup
       {[id |-> NewId, event |-> e.id, ticker |-> e.ticker, day |-> e.day, type |-> e.type,
         kind |-> e.kind, scored |-> TRUE]}
  /\ UNCHANGED <<today, events, reports, screen, picker, asked>>

\* The night settles a slot: research's row, under its own id and perhaps another
\* label of the side, takes the live one's place; the prediction is linked to it, or
\* to nothing. Research may have scored its own row as well.
Settle(e, type, linked, confluence) ==
  /\ Deed /\ e.live /\ Side(type) = Side(e.type)
  /\ LET settled == [e EXCEPT !.id = NewId, !.type = type, !.confluence = confluence, !.live = FALSE]
         moved(p) == IF p.event = e.id THEN [p EXCEPT !.event = IF linked THEN settled.id ELSE 0] ELSE p
         other == [id |-> NewId + 1, event |-> settled.id, ticker |-> e.ticker, day |-> e.day,
                   type |-> type, kind |-> e.kind, scored |-> TRUE]
     IN /\ events' = (events \ {e}) \cup {settled, [settled EXCEPT !.id = @ + 2, !.kind = "next_open"]}
        /\ preds' = {moved(p) : p \in preds} \cup
             (IF linked /\ \E p \in preds : p.event = e.id THEN {} ELSE {other})
  /\ UNCHANGED <<today, reports, screen, picker, asked>>

\* A fire the close does not bear out is swept; what it was scored at stays.
Sweep(e) ==
  /\ Deed /\ e.live
  /\ events' = events \ {e}
  /\ preds' = {IF p.event = e.id THEN [p EXCEPT !.event = 0] ELSE p : p \in preds}
  /\ UNCHANGED <<today, reports, screen, picker, asked>>

NextDay ==
  /\ today < LastDay /\ today' = today + 1
  /\ UNCHANGED <<events, reports, preds, screen, picker, asked, deeds>>

-----------------------------------------------------------------------------
(* The page, rendered on the server, and the calendar, which lives on in the     *)
(* browser while the page below it changes.                                      *)

Closed == [open |-> FALSE, month |-> 0, days |-> {}, of |-> <<>>, failed |-> FALSE, loading |-> FALSE]

\* The reader comes on the last day.
Visit(d, confluence) ==
  /\ Deed /\ today = LastDay
  /\ LET date == IF d = 0 THEN LatestDate ELSE d
         near == IF date = 0 THEN [prev |-> 0, next |-> 0] ELSE Neighbours(date, confluence)
     IN screen' = [date |-> date, confluence |-> confluence,
                 prev |-> near.prev, next |-> near.next]
  \* A click outside closes the calendar, and with it goes its request.
  /\ picker' = [picker EXCEPT !.open = FALSE]
  /\ asked' = {}
  /\ UNCHANGED <<today, events, reports, preds>>

Links == {d \in {screen.prev, screen.next} \cup (IF picker.open THEN picker.days ELSE {}) : d # 0}

Follow == \E d \in Links : Visit(d, screen.confluence)
Home == \E confluence \in BOOLEAN : Visit(0, confluence)
Toggle == screen.date # 0 /\ Visit(screen.date, ~screen.confluence)

\* The effect's cleanup aborts the request before.
Asked(month) == {[month |-> month, confluence |-> screen.confluence]}

Look(month) ==
  /\ Deed
  /\ picker' = [picker EXCEPT !.open = TRUE, !.month = month, !.loading = TRUE, !.failed = FALSE]
  /\ asked' = Asked(month)
  /\ UNCHANGED <<today, events, reports, preds, screen>>

Open == ~picker.open /\ screen.date # 0 /\ Look(Month(screen.date))
Turn == picker.open /\ \E month \in {picker.month - 1, picker.month + 1} \cap Months : Look(month)

Answer(ask) ==
  /\ picker' = [picker EXCEPT !.days = MonthCounts(ask.month, ask.confluence),
                              !.of = <<ask.month, ask.confluence>>, !.loading = FALSE]
  /\ asked' = asked \ {ask}
  /\ UNCHANGED <<today, events, reports, preds, screen, deeds>>

\* A failed load leaves the counts that were there.
Fail(ask) ==
  /\ picker' = [picker EXCEPT !.failed = TRUE, !.loading = FALSE]
  /\ asked' = asked \ {ask}
  /\ UNCHANGED <<today, events, reports, preds, screen, deeds>>

\* An aborted request ends, and with it the notice of the one that is out.
AbortEnds ==
  /\ picker.loading /\ deeds > 1
  /\ picker' = [picker EXCEPT !.loading = FALSE]
  /\ UNCHANGED <<today, events, reports, preds, screen, asked, deeds>>

Init ==
  /\ today = 1 /\ events = {} /\ reports = {} /\ preds = {}
  /\ screen = [date |-> 0, confluence |-> TRUE, prev |-> 0, next |-> 0]
  /\ picker = Closed /\ asked = {} /\ deeds = 0

Next ==
  \/ \E t \in Tickers, type \in Types \ {"low_close"}, confluence \in BOOLEAN, uni \in {"trade", "watch", "out"} :
       Fire(t, type, confluence, uni)
  \/ \E e \in events : Score(e) \/ Sweep(e)
  \/ \E e \in events, type \in Types, linked \in BOOLEAN, confluence \in BOOLEAN :
       Settle(e, type, linked, confluence)
  \/ NextDay
  \/ Follow \/ Home \/ Toggle \/ Open \/ Turn \/ AbortEnds
  \/ \E ask \in asked : Answer(ask) \/ Fail(ask)

Spec == Init /\ [][Next]_vars

-----------------------------------------------------------------------------

PredOf(r) == CHOOSE p \in preds : p.id = r.pred

\* Two rows of a ticker's day never show one judgement of a reversal, nor one
\* number, and the number is of the row's own side (v_screen_live).
RowsAreTheirOwn ==
  \A r \in Rows(today, FALSE) :
    /\ r.pred # 0 => Side(PredOf(r).type) = Side(r.event.type)
    /\ r.bear <= r.fired /\ r.bull <= r.fired
    /\ \A s \in Rows(today, FALSE) \ {r} :
         /\ r.pred # 0 => r.pred # s.pred
         /\ r.bear # 0 => r.bear # s.bear
         /\ r.bull # 0 => r.bull # s.bull

\* A day a page points at has rows under the page's filter: `events` answers as the
\* view would (FEED_DOMAIN, NEIGHBOURS_SQL).
ArrowsLeadToRows ==
  screen' # screen =>
    /\ \A d \in {screen'.prev, screen'.next} \ {0} : Rows(d, screen'.confluence) # {}
    /\ screen'.prev # 0 => screen'.prev < screen'.date
    /\ screen'.next # 0 => screen'.date < screen'.next
    /\ screen'.date = 0 => Filtered(FALSE) = {}

\* What the calendar offers once its answers are in is of the month it shows and the
\* filter of the page, unless a load failed (DatePicker).
CalendarIsOfItsMonth ==
  picker.open /\ asked = {} /\ ~picker.failed => picker.of = <<picker.month, screen.confluence>>

\* "An exact identity beats a key that merely matches": it does not hold, for an
\* unlinked prediction of the same key comes first (v_screen_live).
IdentityBeatsKey ==
  \A r \in Rows(today, FALSE) :
    (\E p \in preds : p.scored /\ p.event = r.event.id) => PredOf(r).event = r.event.id

\* "A day it calls populated must be populated under what the reader is actually
\* looking at". It does not hold while a load is out, or after one that failed: the
\* counts of the other filter stay.
OfferedDaysAreOfTheFilter ==
  picker.open => \A d \in picker.days : Month(d) = picker.month => picker.of[2] = screen.confluence
=============================================================================
