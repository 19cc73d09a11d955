----------------------------- MODULE AlarmSweep -----------------------------
(***************************************************************************)
(* select_threshold of core/metric_utils/alarm_threshold_search.py: the    *)
(* points are activated in the order of falling scores, those with equal   *)
(* scores in one batch, and the counts that make up the alarm score are    *)
(* kept up to date point by point instead of being computed anew.          *)
(*                                                                         *)
(* The segments and the points that are not suppressed are read from the   *)
(* two indexes of SweepIndex.  An anomaly is named by its first point.     *)
(* Scores are ranks 1 .. N; Never stands for +inf, the threshold that      *)
(* predicts nothing, and 0 for -inf.                                       *)
(***************************************************************************)
EXTENDS SweepIndex

VARIABLES sweep,     \* "batch", "visit", "score", "last", "done"
          score,     \* the scores
          targets,   \* the anomalous points
          preds,     \* the points activated so far
          batch,     \* those of the current threshold
          todo,      \* those of them not visited yet
          sets,      \* the disjoint sets of activated points
          counts,    \* false positives, false alarm segments
          overflows, \* the boundaries of anomalies counted as crossed
          alarms,    \* of an anomaly: how many alarms it is thought to have
          weights,   \* of an anomaly: the weights of its hits
          alive,     \* the predictions not suppressed by a first hit
          fenwick,   \* the tree over them
          detected,  \* the anomalies with a prediction alive
          termSum,   \* the sum of their terms
          choice       \* the best threshold so far and its score

sweepInput == <<score, targets>>
sweepVars == <<sweep, sweepInput, preds, batch, todo, sets, counts, overflows,
               alarms, weights, alive, fenwick, detected, termSum, choice>>

Never == N + 1

Anomalies == {Min(anomaly) : anomaly \in Segments(targets)}
AnomalyOf(i) == Max({a \in Anomalies : a <= i})
AnomalyAt(a) == CHOOSE anomaly \in Segments(targets) : a \in anomaly

SweepStart ==
  /\ sweep = "batch"
  /\ preds = {} /\ batch = {} /\ todo = {} /\ sets = NoSets
  /\ counts = [positives |-> 0, segments |-> 0]
  /\ overflows = [early |-> {}, late |-> {}]
  /\ alarms = [i \in Points |-> 0]
  /\ weights = [i \in Points |-> 0]
  /\ alive = {} /\ fenwick = EmptyTree /\ detected = {}
  /\ termSum = 0
  /\ choice = [threshold |-> Never, score |-> 0]

\* Up to their names the scores are one of these: every rank below one that
\* occurs occurs as well.
Rankings == {f \in [Points -> 1 .. N] : \A i \in Points : \A r \in 1 .. f[i] : \E j \in Points : f[j] = r}

SweepInit ==
  /\ score \in Rankings
  /\ targets \in SUBSET Points
  /\ SweepStart

----------------------------------------------------------------------------
\* The points of the next threshold become predictions, all at once.
NextBatch ==
  /\ sweep = "batch"
  /\ preds # Points
  /\ LET rank == Max({score[i] : i \in Points \ preds})
         new  == {i \in Points \ preds : score[i] = rank}
     IN  /\ batch' = new
         /\ todo' = new
         /\ preds' = preds \cup new
         /\ sets' = WithSingletons(sets, new, targets)
         /\ counts' = [counts EXCEPT !.positives = @ + Cardinality(new \ targets)]
  /\ sweep' = "visit"
  /\ UNCHANGED <<sweepInput, overflows, alarms, weights, alive, fenwick, detected, termSum,
                 choice>>

\* A visited point is a false alarm of its own until it joins its neighbours.
Joined(i) ==
  LET alone == [sets  |-> sets,
                root  |-> i,
                false |-> counts.segments + IF sets.target[i] THEN 0 ELSE 1]
      left  == IF i - 1 \in preds THEN Union(alone, alone.root, i - 1) ELSE alone
      both  == IF i + 1 \in preds THEN Union(left, left.root, i + 1) ELSE left
      found == Find(both.sets.parent, both.root)
  IN  [both EXCEPT !.sets.parent = found.parent, !.root = found.root]

\* The boundaries next to i that predictions cross.
Crossed(i) ==
  [early |-> {a \in Anomalies \cap {i, i + 1} : {a - 1, a} \subseteq preds},
   late  |-> {e \in {Max(anomaly) : anomaly \in Segments(targets)} \cap {i - 1, i} :
                {e, e + 1} \subseteq preds}]

\* Mutant: a hit that joins two alarms does not take one away.
AlarmsOnceAdded(i) ==
  LET a == AnomalyOf(i)
  IN  alarms[a] + IF i = a \/ i - 1 \notin preds \ batch THEN 1 ELSE 0

\* The alarms of the anomaly once it has the hit i: one more if i starts one,
\* one less if the alarm to its right now continues it.  Neighbours in the
\* same batch do not count as predictions here.
AlarmsWith(i) ==
  LET a      == AnomalyOf(i)
      before == preds \ batch
      starts == IF i = a \/ i - 1 \notin before THEN 1 ELSE 0
      joins  == IF i + 1 \in AnomalyAt(a) \cap before THEN 1 ELSE 0
  IN  Max({0, alarms[a] + starts - joins})

\* The walk along the tree from one alive point to the next: those up to the
\* right end are suppressed.
RECURSIVE Suppressed(_, _, _)
Suppressed(live, from, right) ==
  LET cur == NextAlive(live.tree, from)
  IN  IF cur > right THEN live
      ELSE Suppressed(IF cur \in live.points
                      THEN [points |-> live.points \ {cur}, tree |-> FenwickAdd(live.tree, cur, -1)]
                      ELSE live,
                      cur + 1, right)

TermOf(a, w, n) == Nominal(w[a], n[a])

\* The predictions alive once i, unless a hit comes before it, has become one
\* of them, and once those behind the first hit of its segment are suppressed.
Woken(i, first) ==
  IF i <= first /\ i \notin alive
  THEN [points |-> alive \cup {i}, tree |-> FenwickAdd(fenwick, i, 1)]
  ELSE [points |-> alive, tree |-> fenwick]

Left(woken, first, right) ==
  IF first < N THEN Suppressed(woken, first + 1, right) ELSE woken

VisitPoint ==
  /\ sweep = "visit"
  /\ \E i \in {Max(todo)} : \* a stable order, reversed
     \E joined \in {Joined(i)} :
     LET first   == joined.sets.firstHit[joined.root]
         hit     == i \in targets
         a       == AnomalyOf(i)
         woken   == Woken(i, first)
         left    == Left(woken, first, joined.sets.right[joined.root])
         gained  == {b \in Anomalies \ detected : woken.points \cap AnomalyAt(b) # {}}
         lost    == {b \in detected \cup gained : left.points \cap AnomalyAt(b) = {}}
     IN  /\ todo' = todo \ {i}
         /\ sweep' = IF todo = {i} THEN "score" ELSE "visit"
         /\ overflows' = [early |-> overflows.early \cup Crossed(i).early,
                          late  |-> overflows.late \cup Crossed(i).late]
         /\ sets' = joined.sets
         /\ counts' = [counts EXCEPT !.segments = joined.false]
         /\ weights' = IF hit THEN [weights EXCEPT ![a] = @ + HitWeight(i - a)] ELSE weights
         /\ alarms' = IF hit THEN [alarms EXCEPT ![a] = AlarmsWith(i)] ELSE alarms
         /\ alive' = left.points
         /\ fenwick' = left.tree
         /\ detected' = (detected \cup gained) \ lost
         /\ termSum' =
              LET Sum(of, w, n) == MapThenSumSet(LAMBDA b : TermOf(b, w, n), of)
              IN  termSum
                  + (IF hit /\ a \in detected
                     THEN TermOf(a, weights', alarms') - TermOf(a, weights, alarms) ELSE 0)
                  + Sum(gained, weights', alarms') - Sum(lost, weights', alarms')
  /\ UNCHANGED <<sweepInput, preds, batch, choice>>

SweepScore ==
  Total(Cardinality(detected), termSum, counts.segments, counts.positives,
        Cardinality(overflows.early), Cardinality(overflows.late))

\* Mutant: a later threshold wins a tie.
KeepLatest(threshold) ==
  choice' = IF SweepScore >= choice.score
          THEN [threshold |-> threshold, score |-> SweepScore] ELSE choice

KeepBest(threshold) ==
  choice' = IF SweepScore > choice.score
          THEN [threshold |-> threshold, score |-> SweepScore] ELSE choice

ScoreBatch ==
  /\ sweep = "score"
  /\ KeepBest(score[CHOOSE i \in batch : TRUE])
  /\ sweep' = IF preds = Points THEN "last" ELSE "batch"
  /\ UNCHANGED <<sweepInput, preds, batch, todo, sets, counts, overflows,
                 alarms, weights, alive, fenwick, detected, termSum>>

\* The threshold -inf, once every point is active
ScoreAll ==
  /\ sweep = "last"
  /\ KeepBest(0)
  /\ sweep' = "done"
  /\ UNCHANGED <<sweepInput, preds, batch, todo, sets, counts, overflows,
                 alarms, weights, alive, fenwick, detected, termSum>>

SweepNext == NextBatch \/ VisitPoint \/ ScoreBatch \/ ScoreAll

SweepSpec == SweepInit /\ [][SweepNext]_sweepVars /\ WF_sweepVars(SweepNext)

----------------------------------------------------------------------------
At(threshold) == {i \in Points : score[i] >= threshold}

\* Two neighbours of one anomaly with the same score
TiedHits == \E i \in targets : i + 1 \in targets /\ score[i] = score[i + 1]

\* The incremental score of a threshold is the alarm score of the points at or
\* above it, as the sweep itself and the tests' _score_from_threshold read a
\* threshold; others read it as ThresholdIsExceeded does.  It is less only
\* if neighbouring hits are tied, never more.  Unless they are, the threshold
\* that select_threshold returns has the best alarm score of all, no higher one
\* has as good a score, and it is the one returned with it.
SweepIsExact ==
  /\ sweep = "score" =>
       IF TiedHits
       THEN SweepScore <= Score(preds, targets)
       ELSE SweepScore = Score(preds, targets)
  /\ sweep = "done" /\ ~ TiedHits =>
       /\ choice.score = Score(At(choice.threshold), targets)
       /\ \A v \in 0 .. Never :
            /\ Score(At(v), targets) <= choice.score
            /\ v > choice.threshold => Score(At(v), targets) < choice.score

\* "progressively activating predictions for indices whose score exceeds the
\* current threshold" (the docstring of the sweep, lines 385-386): the points
\* above the threshold that is returned, which callers that do not postprocess
\* alarm on, have the score that is returned with it.
ThresholdIsExceeded ==
  sweep = "done" /\ ~ TiedHits =>
    choice.score = Score({i \in Points : score[i] > choice.threshold}, targets)
=============================================================================
