---------------------------- MODULE PromotionGate ----------------------------
(***************************************************************************)
(* `cscan model gate` (research/promotion, core/pinball): the heads of a   *)
(* family and horizon, one per quantile, are fitted on train, their        *)
(* predictions for validate are sorted against each other and scored by    *)
(* pinball loss and coverage, beside constants that know no feature. What  *)
(* the booster predicts is any fan. A label and a prediction is a level, a *)
(* quantile a hundredth; losses are in 200ths of a level and unnormalised  *)
(* (Weight says of how much). Frames have no row without a label.          *)
(***************************************************************************)
EXTENDS Integers, Sequences, FiniteSets, FiniteSetsExt, SequencesExt

CONSTANTS
  Taus,        \* train.TAUS, in hundredths
  Levels,      \* of the predictions
  Trains,      \* the train frames
  Validates,   \* the validate frames
  Pairs,       \* how many families and horizons there are
  Tolerance    \* COVERAGE_TOLERANCE, in hundredths

\* A row's group stands for its sector or ticker; scale 0 is a missing one.
GateAssumption ==
  /\ Taus # {} /\ Taus \subseteq 1..99 /\ Levels \subseteq Nat
  /\ Pairs \in Nat /\ Tolerance \in Nat
  /\ \A f \in Trains \cup Validates : \A i \in DOMAIN f :
       f[i].y \in Int /\ f[i].cluster \in Nat /\ f[i].scale \in 0..2
  /\ << >> \notin Trains

VARIABLES
  train, validate,
  raw,       \* what the heads of the pair at hand predict, row by row
  scores,    \* HeadEvaluation, per quantile of this pair
  scored,    \* pairs in the report
  beats,     \* some head so far beats the global constant
  covers,    \* every head so far is within tolerance
  exit       \* the exit code, once there is one

vars == <<train, validate, raw, scores, scored, beats, covers, exit>>

Unit == 200
Whole == 12   \* a weight of 1: clusters of up to four have whole shares

-----------------------------------------------------------------------------
(* core/pinball and cluster_weights. *)

\* A cluster has one vote among its events; an event without one has its own.
Share(frame, i) ==
  IF frame[i].cluster = 0 THEN Whole
  ELSE Whole \div Cardinality({j \in DOMAIN frame : frame[j].cluster = frame[i].cluster})

Weight(frame) == MapThenSumSet(LAMBDA i : Share(frame, i), DOMAIN frame)

\* pinball_loss of one prediction for each row.
Loss(frame, predicted, tau) ==
  MapThenSumSet(LAMBDA i : LET error == Unit * frame[i].y - predicted[i]
                           IN Share(frame, i) * (IF error >= 0 THEN tau * error ELSE (tau - 100) * error),
                DOMAIN frame)

\* unconditional_quantile: np.quantile, between the two neighbours in order.
Quantile(values, tau) ==
  LET sorted == SortSeq(values, <)
      place == (Len(sorted) - 1) * tau
      i == place \div 100 + 1
  IN 2 * (100 * sorted[i] + (place % 100) * (IF i = Len(sorted) THEN 0 ELSE sorted[i + 1] - sorted[i]))

Column(rows, v(_)) == [i \in DOMAIN rows |-> v(rows[i])]
Labels(rows) == Column(rows, LAMBDA r : r.y)

-----------------------------------------------------------------------------
(* The constants to beat. *)

Global(tau) == [i \in DOMAIN validate |-> Quantile(Labels(train), tau)]

\* grouped_baseline: a group that train does not have takes the global one.
Grouped(tau) ==
  [i \in DOMAIN validate |->
     LET group == SelectSeq(train, LAMBDA r : r.group = validate[i].group)
     IN IF group = <<>> THEN Quantile(Labels(train), tau) ELSE Quantile(Labels(group), tau)]

\* scaled_baseline: the quantile of what is left of a label by its scale, times
\* the row's own scale.
Scaled(tau) ==
  LET usable == SelectSeq(train, LAMBDA r : r.scale > 0)
      z == Quantile(Column(usable, LAMBDA r : (2 * r.y) \div r.scale), tau)
  IN [i \in DOMAIN validate |->
        IF usable = <<>> \/ validate[i].scale = 0 THEN Quantile(Labels(train), tau)
        ELSE (z * validate[i].scale) \div 2]

-----------------------------------------------------------------------------
(* The fan. *)

Rank(tau) == Cardinality({t \in Taus : t <= tau})

\* sort_quantiles: row by row across the quantiles.
SortQuantiles(fan) ==
  [i \in DOMAIN fan |->
     LET order == SortSeq([r \in 1..Cardinality(Taus) |-> fan[i][CHOOSE t \in Taus : Rank(t) = r]], <)
     IN [tau \in Taus |-> order[Rank(tau)]]]

\* _fit_and_predict, head by head: whatever the boosters make of the features.
Fans == [DOMAIN validate -> [Taus -> Levels]]

Predicted(fan, tau) == [i \in DOMAIN fan |-> Unit * fan[i][tau]]

\* The weight of the rows at or below their quantile.
Covered(frame, predicted) ==
  MapThenSumSet(LAMBDA i : Share(frame, i), {i \in DOMAIN frame : Unit * frame[i].y <= predicted[i]})

\* score_family.
ScoreFamily(fan) ==
  [tau \in Taus |->
     [model |-> Loss(validate, Predicted(fan, tau), tau),
      global |-> Loss(validate, Global(tau), tau),
      grouped |-> Loss(validate, Grouped(tau), tau),
      scaled |-> Loss(validate, Scaled(tau), tau),
      covered |-> Covered(validate, Predicted(fan, tau))]]

BeatsGlobal(score) == score.model < score.global
Distance(a, b) == IF a > b THEN a - b ELSE b - a
CoverageOk(score, tau) ==
  Distance(100 * score.covered, tau * Weight(validate)) <= Tolerance * Weight(validate)

-----------------------------------------------------------------------------

NoScores == [tau \in {} |-> {}]

Init ==
  /\ train \in Trains /\ validate \in Validates
  /\ raw = <<>> /\ scores = NoScores
  /\ scored = 0 /\ beats = FALSE /\ covers = TRUE /\ exit = {}

\* evaluate_family of the next pair.
EvaluateFamily ==
  /\ exit = {} /\ validate # <<>> /\ raw = <<>> /\ scored < Pairs
  /\ raw' \in Fans
  /\ scores' = ScoreFamily(SortQuantiles(raw'))
  /\ UNCHANGED <<train, validate, scored, beats, covers, exit>>

\* run_gate takes its heads into the report.
Extend ==
  /\ raw # <<>>
  /\ scored' = scored + 1
  /\ beats' = (beats \/ \E tau \in Taus : BeatsGlobal(scores[tau]))
  /\ covers' = (covers /\ \A tau \in Taus : CoverageOk(scores[tau], tau))
  /\ raw' = <<>> /\ scores' = NoScores
  /\ UNCHANGED <<train, validate, exit>>

\* model_gate: an empty validate split leaves with the code of a failed check 5,
\* and a failed coverage with the code of a pass.
Leave ==
  /\ exit = {} /\ (validate = <<>> \/ scored = Pairs)
  /\ exit' = {IF validate # <<>> /\ beats THEN 0 ELSE 1}
  /\ UNCHANGED <<train, validate, raw, scores, scored, beats, covers>>

Next == EvaluateFamily \/ Extend \/ Leave
Spec == Init /\ [][Next]_vars

-----------------------------------------------------------------------------

\* Repairing a crossing costs nothing: over its quantiles the sorted fan loses no
\* more than the raw one, on any labels and weights, and a higher quantile covers
\* no less than a lower one (sort_quantiles, DESIGN 7.4).
FanIsRepaired ==
  raw # <<>> =>
    /\ MapThenSumSet(LAMBDA tau : scores[tau].model, Taus)
         <= MapThenSumSet(LAMBDA tau : Loss(validate, Predicted(raw, tau), tau), Taus)
    /\ \A s, t \in Taus : s < t => scores[s].covered <= scores[t].covered

\* An event that is told a second time, in its own cluster, changes neither a loss
\* nor the coverage (cluster_weights, pinball_loss: "A loss ignoring them scores a
\* four-event cluster four times").
ClustersVoteOnce ==
  raw # <<>> =>
    LET fan == SortQuantiles(raw)
    IN \A i \in DOMAIN validate :
         LET alone == validate[i].cluster # 0
                      /\ \A j \in DOMAIN validate \ {i} : validate[j].cluster # validate[i].cluster
             again == Append(validate, validate[i])
         IN alone => \A tau \in Taus :
              LET said == Predicted(Append(fan, fan[i]), tau)
              IN /\ Loss(again, said, tau) = scores[tau].model
                 /\ Covered(again, said) = scores[tau].covered
                 /\ Weight(again) = Weight(validate)

\* All constants are measured on the same rows: where no group and no scale tells
\* the rows apart they are the global one, a group that is new in validate and a
\* scale that is missing there included (grouped_baseline, scaled_baseline).
BaselinesAgree ==
  raw # <<>> =>
    /\ Cardinality({train[i].group : i \in DOMAIN train}) = 1 =>
         \A tau \in Taus : scores[tau].grouped = scores[tau].global
    /\ (\E s \in {1, 2} : /\ \A i \in DOMAIN train : train[i].scale = s
                          /\ \A i \in DOMAIN validate : validate[i].scale \in {0, s}) =>
         \A tau \in Taus : scores[tau].scaled = scores[tau].global

\* unconditional_quantile: "This is the loss-minimising constant". It does not hold:
\* the quantile is interpolated, and of unweighted labels where the loss is weighted.
ConstantIsBest ==
  \A tau \in Taus, level \in Levels :
    Loss(train, [i \in DOMAIN train |-> Quantile(Labels(train), tau)], tau)
      <= Loss(train, [i \in DOMAIN train |-> Unit * level], tau)
=============================================================================
