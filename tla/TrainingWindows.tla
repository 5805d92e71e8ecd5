-------------------------- MODULE TrainingWindows ---------------------------
(***************************************************************************)
(* What a weekly refit may learn from, and what is scored with it: the     *)
(* expanding window, the walk-forward folds with their purge and embargo,  *)
(* the training and the serving frame. One event fires every session; its  *)
(* label is of the Horizon sessions after it. Days are calendar days, the  *)
(* sessions are the weekdays that are no holiday. Features, losses and     *)
(* weights are left out; a fit is the days it read.                        *)
(***************************************************************************)
EXTENDS Integers, FiniteSets, FiniteSetsExt

CONSTANTS
  LastDay,       \* bound: the days are 1..LastDay
  Shifts,        \* the weekdays day 1 may be, 0 for a Monday
  Holidays,
  Horizon,       \* sessions until a label closes: 10, and the horizon of `purge`
  ForwardLog,    \* FORWARD_LOG_DAYS
  ValidateDays,  \* VALIDATE_MONTHS
  TrainEmbargo,  \* TRAIN_EMBARGO_DAYS
  FoldEmbargo,   \* DEFAULT_EMBARGO_DAYS, in sessions
  YearDays,      \* the length of a year
  MinTrainYears, \* DEFAULT_MIN_TRAIN_YEARS
  Lookback,      \* DEFAULT_LOOKBACK_DAYS
  Odd,           \* the events that are not ordinary
  OddDays,       \* bound: when they may be
  MaxOdd,        \* bound on them
  MaxSkips       \* bound on the nights nothing is scored

Kinds ==
  { "trade",     \* in the trade universe, with all features
    "etf",       \* in the trade universe as well
    "watch",     \* not in_trade
    "nosector", "nobreadth", "nobool" }  \* a feature is missing

WindowsAssumption ==
  /\ LastDay \in Nat \ {0} /\ Shifts \subseteq 0..6 /\ Holidays \subseteq Nat
  /\ Horizon \in Nat \ {0} /\ ForwardLog \in Nat /\ ValidateDays \in Nat
  /\ TrainEmbargo \in Nat \ {0} /\ FoldEmbargo \in Nat
  /\ YearDays \in Nat \ {0} /\ MinTrainYears \in Nat \ {0} /\ Lookback \in Nat
  /\ Odd \subseteq [kind : Kinds, type : {"common", "rare"}]
  /\ OddDays \subseteq Nat /\ MaxOdd \in Nat /\ MaxSkips \in Nat

VARIABLES
  shift,      \* which weekday day 1 is
  labelEnd,   \* per day, the session that closes its label
  today,
  fired,      \* per session so far, its event
  model,      \* the last fit
  predicted,  \* per session, the row of predictions, or Null
  skips       \* the nights that were skipped

vars == <<shift, labelEnd, today, fired, model, predicted, skips>>

Null == [fit |-> 0, cosmetic |-> FALSE]
Ordinary == [kind |-> "trade", type |-> "common"]
NoModel == [no |-> 0, born |-> LastDay, train |-> {}, validate |-> {}, types |-> {}, folds |-> {}]

Weekday(d) == (d - 1 + shift) % 7
IsSession(d) == Weekday(d) < 5 /\ d \notin Holidays
Sessions == {d \in 1..(LastDay + 4 * Horizon) : IsSession(d)}
Year(d) == d \div YearDays

\* Every label closes in time, and the calendar days of the purge before a year and
\* the sessions of the embargo after it make a horizon, whichever holidays fall there.
CalendarAssumption ==
  \A start \in Shifts :
    LET sessions == {s \in 1..(LastDay + 4 * Horizon) : (s - 1 + start) % 7 < 5 /\ s \notin Holidays}
    IN \A d \in 1..LastDay :
         /\ \E e \in sessions : e > d /\ Cardinality({s \in sessions : d < s /\ s <= e}) = Horizon
         /\ Year(d) >= MinTrainYears =>
              Cardinality({s \in sessions : Year(d) * YearDays - Horizon <= s /\ s < Year(d) * YearDays})
                + FoldEmbargo >= Horizon

\* The Horizon-th session after d closes the label.
LabelEnd(d) ==
  CHOOSE e \in Sessions : e > d /\ Cardinality({s \in Sessions : d < s /\ s <= e}) = Horizon
Closed(d) == labelEnd[d] <= today

-----------------------------------------------------------------------------
(* core/folds. *)

\* training_window. The embargo is of calendar days.
TrainingWindow ==
  LET validateEnd == today - ForwardLog
      validateStart == validateEnd - ValidateDays
  IN [train |-> 1..(validateStart - TrainEmbargo), validate |-> validateStart..validateEnd]

\* purge is given the horizon in sessions and takes it for calendar days.
Purge(days, boundary) == {d \in days : d < boundary - Horizon}

Embargo(days, boundary) ==
  LET early == {s \in Sessions : s >= boundary}
  IN {d \in days : Cardinality({s \in early : s <= d}) > FoldEmbargo}

\* _fold_masks over the ladder of walk_forward_folds, without the folds that
\* have no rows.
Folds(days) ==
  LET first == Year(Min(days))
      fold(y) == [train |-> Purge({d \in days : Year(d) \in first..(y - 1)}, y * YearDays),
                  validate |-> Embargo({d \in days : Year(d) = y}, y * YearDays)]
  IN {f \in {fold(y) : y \in (first + MinTrainYears)..Year(Max(days))} :
        f.train # {} /\ f.validate # {}}

-----------------------------------------------------------------------------
(* research/features. *)

InTrade(d) == fired[d].kind # "watch"
Kind(days, kind) == {d \in days : fired[d].kind = kind}

\* build_training_frame raises for a blank sector, and for a boolean that is
\* NULL after the rows without a label or breadth were dropped.
Rows(days) == {d \in days \cap DOMAIN fired : InTrade(d)}
Frame(days) == {d \in Rows(days) : fired[d].kind \notin {"etf", "nobreadth"} /\ Closed(d)}
FrameFails(days) == Kind(Rows(days), "nosector") \cup Kind(Frame(days), "nobool") # {}

\* latest_signal_date, less the lookback.
Since == Max({0} \cup {d \in DOMAIN fired : InTrade(d)}) - Lookback

Recent == LET since == Since IN {d \in DOMAIN fired : d >= since}

\* build_serving_frame drops a blank sector, a type the fit has not seen and a
\* missing breadth, and raises for a boolean that is NULL before the last two.
Serving(types) ==
  {d \in Recent : fired[d].kind \notin {"nosector", "nobreadth"} /\ fired[d].type \in types}
ServingFails == Kind(Recent, "nobool") # {}

Cosmetic(d) == ~InTrade(d) \/ fired[d].kind = "etf"

\* run_predict over any universe: the first write wins.
Predict(m) ==
  IF m = NoModel \/ ServingFails THEN predicted
  ELSE LET serving == Serving(m.types)
       IN [d \in DOMAIN fired |->
             IF d \in serving /\ predicted[d] = Null
               THEN [fit |-> m.no, cosmetic |-> Cosmetic(d)] ELSE predicted[d]]

-----------------------------------------------------------------------------

\* A session fires its event; the night scores it, or not.
Extended(e) ==
  [d \in DOMAIN fired \cup {today} |-> IF d = today THEN e ELSE fired[d]]

Fire ==
  /\ IsSession(today) /\ today \notin DOMAIN fired
  /\ \E e \in Odd \cup {Ordinary} :
       /\ e # Ordinary =>
            /\ today \in OddDays
            /\ Cardinality({d \in DOMAIN fired : fired[d] # Ordinary}) < MaxOdd
       /\ fired' = Extended(e)
  /\ predicted' = [d \in DOMAIN fired \cup {today} |-> IF d = today THEN Null ELSE predicted[d]]
  /\ UNCHANGED <<shift, labelEnd, today, model, skips>>

Tomorrow ==
  /\ today < LastDay
  /\ IsSession(today) => today \in DOMAIN fired
  /\ today' = today + 1
  /\ UNCHANGED <<shift, labelEnd, fired, model>>

\* The nightly's predict ends a session, unless it is skipped.
Night ==
  /\ Weekday(today) # 5
  /\ Tomorrow
  /\ \/ predicted' = Predict(model) /\ UNCHANGED skips
     \/ /\ IsSession(today) /\ model # NoModel /\ skips < MaxSkips
        /\ skips' = skips + 1 /\ UNCHANGED predicted

\* The refit of weekly, on Saturdays: fit_and_calibrate with the expanding
\* window, then its own scoring. Bounds that do not ascend, a frame that fails
\* and a ladder without folds keep the fit of last week.
Fitted ==
  LET w == TrainingWindow
      train == Frame(w.train)
      validate == Frame(w.validate)
  IN IF \/ w.train \subseteq {1} \/ FrameFails(w.train) \/ FrameFails(w.validate)
        \/ train = {} \/ validate = {} \/ Folds(train) = {}
       THEN model
     ELSE [no |-> model.no + 1, born |-> Min({model.born, today}), train |-> train,
           validate |-> validate, types |-> {fired[d].type : d \in train}, folds |-> Folds(train)]

Weekly ==
  /\ Weekday(today) = 5 /\ today < LastDay
  /\ model' = Fitted
  /\ predicted' = IF Fitted = model THEN predicted ELSE Predict(Fitted)
  /\ today' = today + 1
  /\ UNCHANGED <<shift, labelEnd, fired, skips>>

\* A sector, a boolean or the breadth is filled in by hand.
Repair ==
  /\ \E d \in DOMAIN fired :
       /\ fired[d].kind \in {"nosector", "nobreadth", "nobool"}
       /\ fired' = [fired EXCEPT ![d].kind = "trade"]
  /\ UNCHANGED <<shift, labelEnd, today, model, predicted, skips>>

Init ==
  /\ shift \in Shifts /\ today = 1 /\ skips = 0
  /\ labelEnd = [d \in 1..LastDay |-> LabelEnd(d)]
  /\ fired = [d \in {} |-> Ordinary] /\ predicted = [d \in {} |-> Null]
  /\ model = NoModel

Next == Fire \/ Night \/ Weekly \/ Repair
Spec == Init /\ [][Next]_vars

-----------------------------------------------------------------------------

\* In no fold does a training label reach a session that is validated, though
\* `purge` counts calendar days: the embargo makes up for it (_fold_masks).
FoldsDoNotLeak ==
  \A f \in model.folds : \A a \in f.train, b \in f.validate : labelEnd[a] < b

\* A fit learns nothing of an ordinary event before an earlier one has scored it,
\* nights that were skipped included (training_window: labels "do enter training,
\* but only after they have served as forward-log evidence").
ServedBeforeTrained ==
  \A d \in model.train \cup model.validate :
    fired[d] = Ordinary /\ d > model.born => predicted[d].fit \in 1..(model.no - 1)

\* A row that is not marked cosmetic is of the population the fit was trained on,
\* whatever universe is scored (build_rows, may_train).
CosmeticIsHonest ==
  \A d \in DOMAIN fired :
    predicted[d] # Null /\ ~predicted[d].cosmetic
      => fired[d].kind = "trade" /\ fired[d].type \in {fired[t].type : t \in model.train}

\* The window expands: what one fit learned from, the next one does as well.
TrainingExpands == model'.no > model.no => model.train \subseteq model'.train

\* No training label reaches into the sessions that calibrate (training_window:
\* "without dropping that band the model reads its own validation labels"). It
\* does not hold: the embargo counts calendar days, the horizon sessions.
WindowDoesNotLeak ==
  \A a \in model.train, b \in model.validate : labelEnd[a] < b
=============================================================================
