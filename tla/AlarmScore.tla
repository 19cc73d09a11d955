----------------------------- MODULE AlarmScore -----------------------------
(***************************************************************************)
(* alarm_score of core/metric_utils/metrics/alarm.py: the score of a set   *)
(* of predicted points against the set of anomalous ones.  Scores are      *)
(* multiples of 1 / Unit, chosen so that every division below is exact.    *)
(***************************************************************************)
EXTENDS Integers, FiniteSets, FiniteSetsExt

CONSTANT N \* how many points a series has

ASSUME LengthAssumption == N \in Nat \ {0}

Points == 0 .. N - 1

\* A score has at most N detected anomalies and N false positives as divisors,
\* and an anomaly's term at most N halvings for its alarms, N for its hits.
Unit == 2 ^ (2 * N + 2) * ProductSet(1 .. N)

\* continuous_segments: the maximal runs of points in a set
Segments(S) ==
  LET starts == {i \in S : i - 1 \notin S}
      ends   == {i \in S : i + 1 \notin S}
  IN  {run[1] .. run[2] : run \in {r \in starts \X ends : r[1] <= r[2] /\ r[1] .. r[2] \subseteq S}}

FalsePositiveWeight(count) == IF count = 0 THEN 0 ELSE Unit - Unit \div count

\* What a hit is worth that comes offset points into its anomaly.
HitWeight(offset) == Unit \div 2 ^ (offset + 1)

\* The term of an anomaly, from the weights of its hits and its alarms.
Nominal(weights, alarms) == (Unit + weights) \div 2 ^ alarms

\* Only the first hit of a predicted segment counts as a detection.
FirstPredictions(preds, targets) ==
  {i \in preds : ~ \E segment \in Segments(preds) :
                     /\ i \in segment
                     /\ \E hit \in segment \cap targets : hit < i}

Detected(preds, targets) ==
  {anomaly \in Segments(targets) : anomaly \cap FirstPredictions(preds, targets) # {}}

AnomalyTerm(preds, anomaly) ==
  Nominal(MapThenSumSet(LAMBDA i : HitWeight(i - Min(anomaly)), anomaly \cap preds),
          Cardinality(Segments(anomaly \cap preds)))

\* Predicted segments that run into an anomaly, and out of one
EarlyOverflows(preds, targets) ==
  {anomaly \in Segments(targets) : {Min(anomaly) - 1, Min(anomaly)} \subseteq preds}
LateOverflows(preds, targets) ==
  {anomaly \in Segments(targets) : {Max(anomaly), Max(anomaly) + 1} \subseteq preds}

\* The sum both the metric and the sweep make of their counts.
Total(detected, terms, falseAlarms, falsePositives, early, late) ==
  detected * Unit - falseAlarms * (Unit \div 2) - FalsePositiveWeight(falsePositives)
  + (IF detected = 0 THEN 0 ELSE terms \div detected)
  - early * (3 * (Unit \div 4)) - late * (Unit \div 4)

Score(preds, targets) ==
  IF preds = {} THEN 0
  ELSE LET detected == Detected(preds, targets)
       IN  Total(Cardinality(detected),
                 MapThenSumSet(LAMBDA a : AnomalyTerm(preds, a), detected),
                 Cardinality({s \in Segments(preds) : s \cap targets = {}}),
                 Cardinality(preds \ targets),
                 Cardinality(EarlyOverflows(preds, targets)),
                 Cardinality(LateOverflows(preds, targets)))
=============================================================================
