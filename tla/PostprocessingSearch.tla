------------------------ MODULE PostprocessingSearch ------------------------
(***************************************************************************)
(* search_evaluation_postprocessing of                                     *)
(* core/metric_utils/evaluation_postprocessing_search.py: a coordinate     *)
(* search over the parameters of the postprocessing.  One parameter after  *)
(* the other is set to the candidate that ranks best, all others as they   *)
(* are, for as long as a round improves anything, at most MaxRounds times. *)
(*                                                                         *)
(* How a setting ranks, that is what the evaluation of the metrics makes   *)
(* of it, is any function; equal ranks are ties.                           *)
(***************************************************************************)
EXTENDS Integers, SequencesExt

CONSTANTS Order,     \* the parameters in search order
          Settings,  \* the values a parameter may have
          Initials,  \* the settings a search may start from
          Space,     \* of a parameter: its candidates, in order
          Ranks,     \* bound: how many ranks there are
          MaxRounds

Params == ToSet(Order)

AllSettings == [Params -> Settings]

ASSUME SearchAssumption ==
  /\ Order \in Seq(Params) /\ Order # <<>>
  /\ \A p \in Params : Space[p] \in Seq(Settings)
  /\ Initials \subseteq AllSettings
  /\ {Ranks, MaxRounds} \subseteq Nat \ {0}

VARIABLES search,   \* "try", "adopt", "stopped"
          rank,     \* what the evaluation says of each setting
          initial,  \* the setting the search starts from
          current,  \* current_payload
          best,     \* best_trial, named by its setting
          param,    \* the parameter whose candidates are tried
          queue,    \* those of them not tried yet, by their places
          local,    \* local_best_payload and, since both are one setting, its trial
          improved,
          round,
          history   \* the settings evaluated, in order; also the keys of the cache

searchVars == <<search, rank, initial, current, best, param, queue, local, improved, round, history>>

\* _candidate_values, by their place among the candidates: the current value,
\* which has place 0, comes first, and no value comes twice.
Candidates(setting, p) ==
  {0} \cup {i \in DOMAIN Space[p] : /\ Space[p][i] # setting[p]
                                   /\ \A j \in 1 .. i - 1 : Space[p][j] # Space[p][i]}

With(setting, p, i) == IF i = 0 THEN setting ELSE [setting EXCEPT ![p] = Space[p][i]]

\* The settings that the candidates and the values it starts with make up
SettingsFrom(start) ==
  {s \in AllSettings : \A p \in Params : s[p] \in ToSet(Space[p]) \cup {start[p]}}

\* The baseline, which is not enabled, is evaluated but never compared.
SearchInit ==
  /\ search = "try"
  /\ initial \in Initials
  /\ rank \in [SettingsFrom(initial) -> 1 .. Ranks]
  /\ current = initial /\ best = initial /\ local = initial
  /\ param = 1 /\ round = 1
  /\ queue = Candidates(initial, Order[1])
  /\ improved = FALSE
  /\ history = <<initial>>

\* Mutant: a candidate that only draws level is taken.
IsNotWorse(candidate, incumbent) == rank[candidate] >= rank[incumbent]

IsTrialBetter(candidate, incumbent) == rank[candidate] > rank[incumbent]

----------------------------------------------------------------------------
\* One candidate: evaluated, unless the cache has it, and compared.
Try ==
  /\ search = "try"
  /\ \E i \in queue :
       LET candidate == With(current, Order[param], i)
       IN  /\ \A j \in queue : i <= j
           /\ history' = IF candidate \in ToSet(history) THEN history ELSE Append(history, candidate)
           /\ local' = IF IsTrialBetter(candidate, local) THEN candidate ELSE local
           /\ queue' = queue \ {i}
  /\ search' = IF queue' = {} THEN "adopt" ELSE "try"
  /\ UNCHANGED <<rank, initial, current, best, param, improved, round>>

NextParam(p) ==
  /\ search' = "try"
  /\ param' = p
  /\ queue' = Candidates(local, Order[p])
  /\ local' = local

Adopt ==
  /\ search = "adopt"
  /\ current' = local
  /\ best' = IF local # current THEN local ELSE best
  /\ LET better == improved \/ local # current
     IN  IF param < Len(Order)
         THEN NextParam(param + 1) /\ improved' = better /\ UNCHANGED round
         ELSE IF better /\ round < MaxRounds
         THEN NextParam(1) /\ improved' = FALSE /\ round' = round + 1
         ELSE search' = "stopped" /\ improved' = better /\ UNCHANGED <<param, queue, local, round>>
  /\ UNCHANGED <<rank, initial, history>>

SearchNext == Try \/ Adopt

----------------------------------------------------------------------------
\* The settings that differ from s in one parameter
Neighbours(s) ==
  UNION {{[s EXCEPT ![p] = v] : v \in ToSet(Space[p])} : p \in Params}

\* Between parameters the search holds a setting that ranks best of all it has
\* evaluated, and only by ranking better did that setting replace the first
\* one; once a round has improved nothing, no change of a single parameter
\* would rank better, though the rounds tried them from other settings.
SearchIsLocallyBest ==
  /\ current = best
  /\ search = "stopped" =>
       /\ \A s \in ToSet(history) : rank[s] <= rank[best]
       /\ best # initial => rank[best] > rank[initial]
       /\ ~ improved => \A s \in Neighbours(best) : rank[s] <= rank[best]
=============================================================================
