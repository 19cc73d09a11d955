------------------------ MODULE EventPostprocessing ------------------------
(***************************************************************************)
(* The enabled path of core/metric_utils/evaluation_postprocessing.py: the *)
(* scores of a sequence are smoothed causally within every run of finite   *)
(* scores, a threshold with hysteresis turns them into alarms, and alarms  *)
(* close to each other are merged, short ones dropped.                     *)
(*                                                                         *)
(* Smoothed scores are multiples of 1 / Scale, which makes the exponential *)
(* average exact.  The threshold is whatever select_threshold may return.  *)
(***************************************************************************)
EXTENDS Concatenation, Integers, SequencesExt, FiniteSetsExt

CONSTANTS Length,   \* the points of a sequence
          MaxScore, \* bound: the finite scores are 1 .. MaxScore
          Configs   \* [short, span, enter, exit, gap, least]

ASSUME PostprocessingAssumption ==
  /\ {Length, MaxScore} \subseteq Nat \ {0}
  /\ \A c \in Configs : /\ {c.short, c.span, c.enter, c.exit, c.least} \subseteq Nat \ {0}
                        /\ c.gap \in Nat

VARIABLES post,       \* "smooth", "threshold", "alarm", "merge", "drop", "done"
          config,
          raw,        \* the scores
          point,      \* the point the loop is at
          candidates, \* the deque of the rolling maximum
          average,    \* the exponential average so far
          decision,   \* the decision scores
          threshold,  \* [on, off]
          active, above, below, \* the state of the hysteresis
          alarmed     \* the points predicted to be anomalous

postVars == <<post, config, raw, point, candidates, average, decision, threshold,
              active, above, below, alarmed>>

NegInf == 0 \* below every finite score

WeightPowers(b) == LET power[k \in 0 .. Length] == IF k = 0 THEN 1 ELSE b * power[k - 1] IN power

\* alpha = 2 / Parts, and of the average so far KeptParts / Parts is kept.
Parts == config.span + 1
KeptParts == config.span - 1
Scale == WeightPowers(Parts)[Length]
PosInf == Scale * (MaxScore + 1)

Places == 1 .. Length
Finite(i) == i \in Places /\ raw[i] # NegInf

PostInit ==
  /\ post = "smooth"
  /\ config \in Configs
  /\ raw \in [Places -> NegInf .. MaxScore]
  /\ point = 1
  /\ candidates = <<>> /\ average = 0
  /\ decision = [i \in Places |-> NegInf]
  /\ threshold = [on |-> PosInf, off |-> PosInf]
  /\ active = FALSE /\ above = 0 /\ below = 0
  /\ alarmed = {}

Advance(next) ==
  /\ point' = IF point = Length THEN 1 ELSE point + 1
  /\ post' = IF point = Length THEN next ELSE post

----------------------------------------------------------------------------
\* The candidates not above the new score leave the queue at its end.
Pushed(older) ==
  LET kept == Max({0} \cup {k \in DOMAIN older : raw[older[k]] > raw[point]})
  IN  Append(SubSeq(older, 1, kept), point)

\* Mutant: a candidate leaves the window one point late.
QueueLate(older) ==
  LET first == Min({k \in DOMAIN Pushed(older) : Pushed(older)[k] >= point - config.short})
  IN  SubSeq(Pushed(older), first, Len(Pushed(older)))

\* causal_rolling_max: those before the window leave in front.
Queue(older) ==
  LET first == Min({k \in DOMAIN Pushed(older) : Pushed(older)[k] > point - config.short})
  IN  SubSeq(Pushed(older), first, Len(Pushed(older)))

\* causal_ewma
Average(first) ==
  IF first THEN Scale * raw[point] ELSE (2 * (Scale * raw[point]) + KeptParts * average) \div Parts

\* compute_decision_scores at one point
Smooth ==
  /\ post = "smooth"
  /\ IF Finite(point)
     THEN LET first == ~ Finite(point - 1)
          IN  /\ candidates' = Queue(IF first THEN <<>> ELSE candidates)
              /\ average' = Average(first)
              /\ decision' = [decision EXCEPT ![point] = Max({Scale * raw[candidates'[1]], average'})]
     ELSE UNCHANGED <<candidates, average, decision>>
  /\ Advance("threshold")
  /\ UNCHANGED <<config, raw, threshold, active, above, below, alarmed>>

\* The lower threshold is the upper one less a share of the scores' spread.
SetThreshold ==
  /\ post = "threshold"
  /\ \E on \in {decision[i] : i \in Places} \cup {NegInf, PosInf}, margin \in {0, Scale \div 2, Scale} :
       threshold' = [on |-> on, off |-> IF on \in {NegInf, PosInf} THEN on ELSE on - margin]
  /\ post' = "alarm"
  /\ UNCHANGED <<config, raw, point, candidates, average, decision, active, above, below, alarmed>>

\* _build_hysteresis_predictions_for_segment at one point; a run of finite
\* scores starts inactive.
Alarm ==
  /\ post = "alarm"
  /\ LET first == ~ Finite(point - 1)
         high  == decision[point] >= threshold.on
         low   == decision[point] < threshold.off
         count == IF ~ high THEN 0 ELSE IF first THEN 1 ELSE above + 1
         lows  == IF low THEN below + 1 ELSE 0
     IN  IF ~ Finite(point) THEN UNCHANGED <<active, above, below, alarmed>>
         ELSE IF first \/ ~ active
         THEN /\ above' = count
              /\ active' = (count >= config.enter)
              /\ below' = IF active' \/ first THEN 0 ELSE below
              /\ alarmed' = IF active' THEN alarmed \cup (point - config.enter + 1 .. point)
                            ELSE alarmed
         ELSE /\ alarmed' = alarmed \cup {point}
              /\ active' = (lows < config.exit)
              /\ below' = IF active' THEN lows ELSE 0
              /\ above' = IF active' THEN above ELSE 0
  /\ Advance("merge")
  /\ UNCHANGED <<config, raw, candidates, average, decision, threshold>>

\* The maximal runs of places in a set
Runs(S) == {e[1] .. e[2] : e \in
              {e \in S \X S : /\ e[1] <= e[2] /\ e[1] .. e[2] \subseteq S
                              /\ e[1] - 1 \notin S /\ e[2] + 1 \notin S}}

FiniteRuns == Runs({i \in Places : Finite(i)})

\* _fill_small_gaps: not at the ends of a run of finite scores
SmallGaps(run) ==
  {gap \in Runs(run \ alarmed) : /\ Min(gap) # Min(run)
                                 /\ Max(gap) # Max(run)
                                 /\ Cardinality(gap) <= config.gap}

\* Mutant: gaps are filled across scores that are not finite.
MergeAcross ==
  /\ post = "merge"
  /\ alarmed' = alarmed \cup UNION SmallGaps(Places)
  /\ post' = "drop"
  /\ UNCHANGED <<config, raw, point, candidates, average, decision, threshold, active, above, below>>

Merge ==
  /\ post = "merge"
  /\ alarmed' = alarmed \cup UNION UNION {SmallGaps(run) : run \in FiniteRuns}
  /\ post' = "drop"
  /\ UNCHANGED <<config, raw, point, candidates, average, decision, threshold, active, above, below>>

\* _drop_short_events
Drop ==
  /\ post = "drop"
  /\ alarmed' = UNION {event \in UNION {Runs(run \cap alarmed) : run \in FiniteRuns} :
                         Cardinality(event) >= config.least}
  /\ post' = "done"
  /\ UNCHANGED <<config, raw, point, candidates, average, decision, threshold, active, above, below>>

PostNext == Smooth \/ SetThreshold \/ Alarm \/ Merge \/ Drop

PostSpec == PostInit /\ [][PostNext]_postVars

----------------------------------------------------------------------------
RunOf(i) == CHOOSE run \in FiniteRuns : i \in run

\* What the score of j weighs in the average of i, in a run that begins at "from"
Share(from, i, j) ==
  IF j = from THEN WeightPowers(Parts)[Length - (i - j)] * WeightPowers(KeptParts)[i - j]
  ELSE 2 * (WeightPowers(Parts)[Length - (i - j) - 1] * WeightPowers(KeptParts)[i - j])

\* The weighted sum that causal_ewma computes from point to point
WeightedAverage(i) ==
  LET from == Min(RunOf(i))
  IN  SumOver([j \in from .. i |-> Share(from, i, j) * raw[j]], from, i)

\* The greater of the highest of the last short scores and of the average, both
\* over the run of finite scores the point is in and never over a later point
CausalDecision(i) ==
  IF ~ Finite(i) THEN NegInf
  ELSE Max({WeightedAverage(i)} \cup
           {Scale * raw[j] : j \in RunOf(i) \cap (i - config.short + 1 .. i)})

\* Enough points in a row at or above the threshold, from the point s on
Entries == {s \in Places : \E run \in FiniteRuns :
              /\ s .. s + config.enter - 1 \subseteq run
              /\ \A i \in s .. s + config.enter - 1 : decision[i] >= threshold.on}

\* The alarm entered at s ends with enough points in a row below the lower one.
Holding(s, i) ==
  /\ i \in RunOf(s)
  /\ s <= i
  /\ \A k \in s + config.enter .. i - config.exit :
       \E j \in k .. k + config.exit - 1 : decision[j] >= threshold.off

Events == UNION {Runs(run \cap alarmed) : run \in FiniteRuns}

\* Decision scores are causal.  The hysteresis raises an alarm where, looking
\* back over the whole run, an entry has happened and no exit since; in the end
\* no alarm is too short, no gap between two alarms of a run too small, none
\* reaches over a gap in the scores, every alarm lasts from an entry to the end
\* of one that holds, and only short ones have been dropped.
AlarmsAreEvents ==
  /\ post = "threshold" => \A i \in Places : decision[i] = CausalDecision(i)
  /\ post = "merge" => alarmed = {i \in Places : \E s \in Entries : Holding(s, i)}
  /\ post = "done" =>
       /\ \A event \in Events : /\ Cardinality(event) >= config.least
                                /\ Min(event) \in Entries
                                /\ \E s \in Entries \cap event : Holding(s, Max(event))
       /\ \A run \in FiniteRuns : SmallGaps(run) = {}
       /\ alarmed \subseteq UNION FiniteRuns
       /\ \A s \in Entries : s \notin alarmed => config.enter < config.least
=============================================================================
