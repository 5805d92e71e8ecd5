----------------------------- MODULE Calibration ------------------------------
(***************************************************************************)
(* From a raw score to a published probability (core/calibration): the     *)
(* held-out scores in buckets of equal mass, neighbours pooled until the   *)
(* rates rise (build_reliability), a score interpolated between the blocks *)
(* (band). One step fits the table to a sample, the next ones look scores  *)
(* up. Scores are integers, a tenth apart; edges are in Buckets-ths of     *)
(* them and anchors in quarters of that; rates are quotients. The Wilson   *)
(* interval and the JSON form are left out.                                *)
(***************************************************************************)
EXTENDS Integers, Sequences, FiniteSets, FiniteSetsExt, SequencesExt

CONSTANTS
  Buckets,  \* n_buckets
  Size,     \* rows of the sample
  Top,      \* bound: the scores are 0..Top
  Heavy     \* the weight of the one row that weighs more than 1

CalibrationAssumption ==
  /\ Buckets \in Nat \ {0} /\ Size \in Nat \ {0} /\ Top \in Nat
  /\ Heavy \in Nat \ {0}

VARIABLES
  sample,  \* rows of score, outcome and weight, by score
  raw,     \* the buckets as they were cut
  table,   \* ReliabilityTable.buckets, or empty
  fitted, published  \* per score what it is published as, a quotient

vars == <<sample, raw, table, fitted, published>>

-----------------------------------------------------------------------------
(* build_reliability. *)

\* np.quantile interpolates between the two rows around its position.
Quantile(j) ==
  LET place == j * (Size - 1)
      i == place \div Buckets
      rest == place % Buckets
      here == sample[i + 1].score
  IN Buckets * here + (IF rest = 0 THEN 0 ELSE rest * (sample[i + 2].score - here))

Edges == SetToSortSeq({Quantile(j) : j \in 0..Buckets}, <)

\* Equal edges collapse; the outer two are infinite.
Cut(edges) ==
  LET last == Len(edges) - 1
      rows(k) == {i \in DOMAIN sample :
                    /\ k = 1 \/ Buckets * sample[i].score >= edges[k]
                    /\ k = last \/ Buckets * sample[i].score < edges[k + 1]}
      sum(k, v(_)) == MapThenSumSet(LAMBDA i : v(sample[i]), rows(k))
  IN [k \in 1..last |->
        [n |-> Cardinality(rows(k)),
         w |-> sum(k, LAMBDA r : r.weight),
         q |-> sum(k, LAMBDA r : r.weight * r.weight),
         y |-> sum(k, LAMBDA r : r.weight * r.hit),
         lo |-> IF k = 1 THEN {} ELSE {edges[k]},
         hi |-> IF k = last THEN {} ELSE {edges[k + 1]}]]

Block(b) == [w |-> b.w, q |-> b.q, y |-> b.y]
Joined(a, b) == [w |-> a.w + b.w, q |-> a.q + b.q, y |-> a.y + b.y]

\* Mutant: a block is merged with the one before it, once.
MergedOnce(blocks) ==
  IF Len(blocks) < 2 THEN blocks
  ELSE LET a == blocks[Len(blocks) - 1]
           b == Last(blocks)
       IN IF a.w <= 0 \/ b.w <= 0 \/ a.y * b.w <= b.y * a.w THEN blocks
          ELSE Append(SubSeq(blocks, 1, Len(blocks) - 2), Joined(a, b))

\* The loop of _pool_adjacent_violators over what it has so far. A block without
\* weight is never merged.
RECURSIVE Merged(_)
Merged(blocks) ==
  IF Len(blocks) < 2 THEN blocks
  ELSE LET a == blocks[Len(blocks) - 1]
           b == Last(blocks)
       IN IF a.w <= 0 \/ b.w <= 0 \/ a.y * b.w <= b.y * a.w THEN blocks
          ELSE Merged(Append(SubSeq(blocks, 1, Len(blocks) - 2), Joined(a, b)))

Pooled(cut) == FoldLeft(LAMBDA blocks, b : Merged(Append(blocks, Block(b))), <<>>, cut)

Weight(cut, a, b) == MapThenSumSet(LAMBDA k : cut[k].w, a..b)

\* Each block takes buckets until it has its weight, and the empty ones after them;
\* they report its rate and its count.
FannedOut(cut, blocks) ==
  LET taken(out, b) ==
        LET first == Len(out) + 1
            last == Min({e \in (first - 1)..Len(cut) :
                           /\ Weight(cut, first, e) >= b.w
                           /\ e = Len(cut) \/ cut[e + 1].w # 0})
            n == MapThenSumSet(LAMBDA k : cut[k].n, first..last)
        IN out \o [i \in 1..(last - first + 1) |->
                     [n |-> n, w |-> b.w, q |-> b.q, y |-> b.y,
                      lo |-> cut[first + i - 1].lo, hi |-> cut[first + i - 1].hi]]
  IN FoldLeft(taken, <<>>, blocks)

-----------------------------------------------------------------------------
(* ReliabilityTable. *)

SameRate(a, b) == a.y * b.w = b.y * a.w

\* _anchors: neighbours of one rate are one anchor, at the middle of what they
\* span; the outer two lie half a median span from their edge, or 0.05.
Anchors ==
  LET heads == {k \in DOMAIN table : k = 1 \/ ~SameRate(table[k - 1], table[k])}
      end(k) == Min({j \in DOMAIN table : j >= k /\ (j = Len(table) \/ j + 1 \in heads)})
      bounded == {k \in heads : table[k].lo # {} /\ table[end(k)].hi # {}}
      edge(set) == CHOOSE e \in set : TRUE
      widths == SetToSortSeq({<<edge(table[end(k)].hi) - edge(table[k].lo), k>> : k \in bounded},
                             LAMBDA a, b : a[1] < b[1] \/ (a[1] = b[1] /\ a[2] < b[2]))
      fallback == IF widths = <<>> THEN 2 * Buckets ELSE 2 * widths[Len(widths) \div 2 + 1][1]
      place(k) ==
        CASE k \in bounded -> 2 * (edge(table[k].lo) + edge(table[end(k)].hi))
          [] k \notin bounded /\ table[end(k)].hi # {} -> 4 * edge(table[end(k)].hi) - fallback
          [] k \notin bounded /\ table[end(k)].hi = {} /\ table[k].lo # {} ->
               4 * edge(table[k].lo) + fallback
          [] OTHER -> 0
      order == SetToSortSeq(heads, <)
  IN [i \in DOMAIN order |-> [x |-> place(order[i]), y |-> table[order[i]].y, w |-> table[order[i]].w]]

\* band, as a quotient; none without buckets.
Band(score) ==
  LET anchors == Anchors
      p == 4 * Buckets * score
      flat(a) == {[num |-> a.y, den |-> a.w]}
  IN IF anchors = <<>> THEN {}
     ELSE IF p <= anchors[1].x THEN flat(anchors[1])
     ELSE IF p >= Last(anchors).x THEN flat(Last(anchors))
     ELSE LET i == Min({k \in 1..(Len(anchors) - 1) : anchors[k].x <= p /\ p <= anchors[k + 1].x})
              a == anchors[i]
              b == anchors[i + 1]
          IN {[num |-> a.y * b.w * (b.x - p) + b.y * a.w * (p - a.x), den |-> a.w * b.w * (b.x - a.x)]}

Calibrated(score) == Band(score)

-----------------------------------------------------------------------------

Init ==
  /\ \E scores \in {f \in [1..Size -> 0..Top] : \A i \in 2..Size : f[i - 1] <= f[i]},
        hits \in [1..Size -> {0, 1}], heavy \in 0..Size :
       sample = [i \in 1..Size |-> [score |-> scores[i], hit |-> hits[i],
                                   weight |-> IF i = heavy THEN Heavy ELSE 1]]
  /\ \E i, j \in DOMAIN sample : sample[i].hit # sample[j].hit  \* else it raises
  /\ raw = <<>> /\ table = <<>> /\ fitted = FALSE
  /\ published = [s \in 0..Top |-> {}]

Fit ==
  /\ ~fitted /\ fitted' = TRUE
  /\ raw' = Cut(Edges) /\ table' = FannedOut(raw', Pooled(raw'))
  /\ UNCHANGED <<sample, published>>

Publish ==
  /\ fitted /\ published' = [s \in 0..Top |-> Calibrated(s)] /\ published' # published
  /\ UNCHANGED <<sample, raw, table, fitted>>

Next == Fit \/ Publish
Spec == Init /\ [][Next]_vars

-----------------------------------------------------------------------------

\* a/b <= c/d.
Leq(a, b) == a.num * b.den <= b.num * a.den

NoGap == \A k \in DOMAIN raw : raw[k].n > 0

\* Without an empty bucket the pooled rates are the isotonic regression of the
\* bucket rates, by its own definition: the greatest, over the starts up to a
\* bucket, of the least mean from there to an end at or after it.
PoolingIsIsotonic ==
  fitted /\ NoGap =>
    /\ Len(table) = Len(raw)
    /\ \A k \in DOMAIN raw :
         LET mean(a, b) == [num |-> MapThenSumSet(LAMBDA i : raw[i].y, a..b), den |-> Weight(raw, a, b)]
             rate == [num |-> table[k].y, den |-> table[k].w]
             above(a) == \E b \in k..Len(raw) : Leq(mean(a, b), rate)
         IN /\ \A a \in 1..k : above(a)
            /\ \E a \in 1..k : \A b \in k..Len(raw) : Leq(rate, mean(a, b))

\* A higher score is never published as less, and as more where the two lie in
\* blocks of different rates (ADR 192: "two raw scores that differ produce
\* published values that differ", between the outer anchors). The effective
\* count of a block is not above its count.
RanksAreKept ==
  /\ NoGap => \A s, t \in 0..Top : s < t =>
       \A a \in published[s], b \in published[t] :
         /\ Leq(a, b)
         /\ Len(Anchors) > 1 /\ 4 * Buckets * s >= Anchors[1].x
              /\ 4 * Buckets * t <= Last(Anchors).x => ~Leq(b, a)
  /\ \A k \in DOMAIN table : table[k].w * table[k].w <= table[k].n * table[k].q

\* The same of every sample. It does not hold: between tied scores a quantile can
\* cut off an empty bucket, and pooling does not reach across it.
RanksAreAlwaysKept ==
  \A s, t \in 0..Top : s < t => \A a \in published[s], b \in published[t] : Leq(a, b)
=============================================================================
