-------------------------- MODULE PairStudy_proof --------------------------
(***************************************************************************)
(* The copies of a result agree, a search publishes its best, and what is  *)
(* reported of a pair is its latest result, for any number of pairs,       *)
(* trials, seeds and failures.                                             *)
(*                                                                         *)
(* The invariant speaks of one pair at a time, of its studies only through *)
(* the summary of the last one.  Two lemmas on the sequence of studies say *)
(* what a new study and a new summary do to the last study of every pair;  *)
(* a step of one pair then leaves the invariant of the others alone, and   *)
(* for its own pair there is one lemma per action.                         *)
(***************************************************************************)
EXTENDS PairStudy, TLAPS, FiniteSetTheorems, SequenceTheorems

Stages == {"queued", "search", "selected", "eval", "returned", "failed", "stopped", "reported"}
Studies == [pair : Pairs, summary : Snapshots \cup {None}]
Cells == Snapshots \cup {None, StatusRow, BlankRow}
Reports == [status : {"SUCCEEDED", "FAILED", "STOPPED"}, result : Snapshots \cup {None},
            raised : BOOLEAN]

StudyTypeOK ==
  /\ mode \in Modes
  /\ finalEval \in BOOLEAN
  /\ outages \in BOOLEAN
  /\ stage \in [Pairs -> Stages]
  /\ trial \in [Pairs -> [Trials -> TrialStates]]
  /\ best \in [Pairs -> Scores \cup {Invalid, None}]
  /\ tally \in [Pairs -> [seeds : 0 .. FullSeeds, score : Scores \cup {None}]]
  /\ written \in [Pairs -> Nat]
  /\ studies \in Seq(Studies)
  /\ file \in [Pairs -> Snapshots \cup {None, Torn}]
  /\ workbook = Torn \/ workbook \in [Pairs -> Cells]
  /\ report \in [Pairs -> Reports \cup {None}]

HasStudy(p) == \E i \in DOMAIN studies : studies[i].pair = p
Summary(p) == studies[CurrentStudy(p)].summary

\* A trial that has not ended has seeds left.
SeedsLeft(p) == \A t \in Trials : trial[p][t].state # "ended" => trial[p][t].seeds < HpoSeeds

\* Which stages a campaign has, and what a job begins them with.
StageInv(p) ==
  /\ stage[p] = "search" => mode # "train"
  /\ stage[p] = "selected" => mode # "train" /\ finalEval
  /\ stage[p] = "eval" => mode = "train" \/ finalEval
  /\ stage[p] = "queued" =>
       written[p] = 0 /\ best[p] = None /\ \A t \in Trials : trial[p][t].last = None
  /\ stage[p] \in {"queued", "search", "selected"} => tally[p].seeds = 0
  /\ tally[p].seeds > 0 => tally[p].score \in Scores
  /\ stage[p] \in {"search", "selected", "eval", "returned"} => HasStudy(p)

\* Before the first snapshot there is nothing anywhere.
UnpublishedInv(p) ==
  written[p] = 0 => file[p] = None /\ (HasStudy(p) => Summary(p) = None)

CopiesInv(p) ==
  (AtWork(p) \/ stage[p] = "returned") /\ Published(p) =>
    /\ HasStudy(p)
    /\ file[p] \in Snapshots
    /\ file[p].pair = p
    /\ file[p].rank = written[p]
    /\ \/ Summary(p) = file[p]
       \/ Summary(p) = None /\ stage[p] = "eval" /\ tally[p].seeds = 0
    /\ workbook = Torn \/ workbook[p] = file[p]

\* The file holds the best score that was reported, whichever trial did.
BestInv(p) ==
  stage[p] = "search" =>
    /\ best[p] # None => Published(p) /\ file[p].score = best[p]
    /\ \A t \in Trials : trial[p][t].last # None => best[p] # None /\ trial[p][t].last <= best[p]

ReturnedInv(p) == stage[p] = "returned" => Published(p) /\ IsFinal(p, file[p])

\* A job that ended within a snapshot leaves that one or the one before, in
\* the file and in MLflow.
EndedInv(p) ==
  stage[p] \in {"failed", "stopped"} /\ Published(p) =>
    /\ HasStudy(p)
    /\ \/ file[p] = Torn
       \/ file[p] \in Snapshots /\ file[p].pair = p /\ file[p].rank = written[p]
    /\ \/ Summary(p) = None
       \/ /\ Summary(p) \in Snapshots
          /\ Summary(p).pair = p
          /\ Summary(p).rank \in {written[p] - 1, written[p]}

ReportInv(p) ==
  stage[p] = "reported" /\ NameIsUnshared(p) =>
    IF report[p].raised
    THEN file[p] = Torn \/ workbook = Torn \/ outages
    ELSE /\ IF report[p].result = None
            THEN ~ Published(p)
            ELSE /\ report[p].result.pair = p
                 /\ report[p].result.rank \in {written[p] - 1, written[p]}
         /\ report[p].status = "SUCCEEDED" => IsFinal(p, report[p].result)

PairInv(p) ==
  /\ SeedsLeft(p) /\ StageInv(p) /\ UnpublishedInv(p) /\ CopiesInv(p) /\ BestInv(p)
  /\ ReturnedInv(p) /\ EndedInv(p) /\ ReportInv(p)

IInv == StudyTypeOK /\ \A p \in Pairs : PairInv(p)

----------------------------------------------------------------------------
(* The last study of a pair                                                *)

\* The natural numbers are well founded: by way of the initial segments they
\* bound, which are finite sets.
LEMMA LeastElement ==
  ASSUME NEW T \in SUBSET Nat, T # {}
  PROVE  \E d \in T : \A e \in T : d <= e
<1> DEFINE Below == {0 .. d : d \in T}
           Smaller == StrictSubsetOrdering(Nat)
           Finite == FiniteSubsetsOf(Nat)
<1>1. IsWellFoundedOn(Smaller, Finite)
  BY FS_StrictSubsetOrderingWellFounded
<1>2. Below # {} /\ Below \subseteq Finite
  <2>1. \A d \in T : IsFiniteSet(0 .. d) /\ 0 .. d \in SUBSET Nat
    BY FS_Interval
  <2>2. QED
    BY <2>1 DEF FiniteSubsetsOf
<1>3. PICK x \in Below : \A y \in Below : ~ (<<y, x>> \in Smaller)
  <2> HIDE DEF Below, Smaller, Finite
  <2>1. QED
    BY <1>1, <1>2, WFMin
<1>4. PICK d \in T : x = 0 .. d
  OBVIOUS
<1>5. ASSUME NEW e \in T, e < d PROVE FALSE
  <2>1. 0 .. e \in Below /\ 0 .. e \in SUBSET Nat /\ 0 .. d \in SUBSET Nat
    BY <1>2 DEF FiniteSubsetsOf
  <2>2. 0 .. e \subseteq 0 .. d /\ d \notin 0 .. e /\ d \in 0 .. d
    BY <1>5
  <2>3. <<0 .. e, x>> \in Smaller
    BY <1>4, <2>1, <2>2 DEF StrictSubsetOrdering
  <2>4. QED
    BY <1>3, <2>1, <2>3
<1>6. QED
  BY <1>5

\* Max of a nonempty set of indices is its largest element.
LEMMA MaxIsLargest ==
  ASSUME NEW n \in Nat, NEW S \in SUBSET (1 .. n), S # {}
  PROVE  Max(S) \in S /\ \A i \in S : i <= Max(S)
<1> DEFINE T == {n - i : i \in S}
<1>1. T \subseteq Nat /\ T # {}
  <2>1. \A i \in S : i \in Int /\ i <= n
    OBVIOUS
  <2>2. \A i \in S : n - i \in Nat
    BY <2>1
  <2>3. QED
    BY <2>2
<1>2. PICK d \in T : \A e \in T : d <= e
  <2> HIDE DEF T
  <2>1. QED
    BY <1>1, LeastElement
<1>3. PICK i \in S : d = n - i
  OBVIOUS
<1>4. \A j \in S : i >= j
  <2> SUFFICES ASSUME NEW j \in S PROVE i >= j
    OBVIOUS
  <2>1. n - j \in T
    OBVIOUS
  <2>2. i \in Int /\ j \in Int /\ n - i <= n - j
    BY <1>2, <1>3, <2>1
  <2>3. QED
    BY <2>2
<1>5. QED
  BY <1>4 DEF Max

\* CurrentStudy is a study of the pair, and the last one.
LEMMA CurrentIsLast ==
  ASSUME studies \in Seq(Studies), NEW p \in Pairs, HasStudy(p)
  PROVE  /\ CurrentStudy(p) \in 1 .. Len(studies)
         /\ studies[CurrentStudy(p)].pair = p
         /\ \A i \in 1 .. Len(studies) : studies[i].pair = p => i <= CurrentStudy(p)
<1> DEFINE S == {i \in DOMAIN studies : studies[i].pair = p}
<1>1. DOMAIN studies = 1 .. Len(studies) /\ Len(studies) \in Nat
  OBVIOUS
<1>2. S \in SUBSET (1 .. Len(studies)) /\ S # {}
  BY <1>1 DEF HasStudy
<1>3. Max(S) \in S /\ \A i \in S : i <= Max(S)
  <2> HIDE DEF S
  <2>1. QED
    BY <1>1, <1>2, MaxIsLargest
<1>4. CurrentStudy(p) = Max(S)
  BY DEF CurrentStudy
<1>5. QED
  BY <1>1, <1>3, <1>4

\* A new study is the last one of its pair, without a summary.
LEMMA NewStudyEffect ==
  ASSUME studies \in Seq(Studies), NEW p \in Pairs, NewStudy(p)
  PROVE  /\ studies' \in Seq(Studies)
         /\ HasStudy(p)' /\ Summary(p)' = None
         /\ \A q \in Pairs \ {p} :
              (HasStudy(q)' <=> HasStudy(q)) /\ (HasStudy(q) => Summary(q)' = Summary(q))
<1> DEFINE n == Len(studies)
           new == [pair |-> p, summary |-> None]
           Of(q) == {i \in DOMAIN studies : studies[i].pair = q}
<1>1. /\ n \in Nat /\ DOMAIN studies = 1 .. n
      /\ studies' \in Seq(Studies)
      /\ Len(studies') = n + 1 /\ DOMAIN studies' = 1 .. n + 1
      /\ \A i \in 1 .. n : studies'[i] = studies[i]
      /\ studies'[n + 1] = new
  BY DEF NewStudy, Studies
<1>2. HasStudy(p)' /\ Summary(p)' = None
  <2>1. HasStudy(p)'
    BY <1>1 DEF HasStudy
  <2>2. Of(p)' \in SUBSET (1 .. n + 1) /\ n + 1 \in Of(p)' /\ n + 1 \in Nat
    BY <1>1
  <2> DEFINE S == Of(p)'
  <2>3. Max(S) \in S /\ \A i \in S : i <= Max(S)
    <3> HIDE DEF S
    <3>1. QED
      BY <2>2, MaxIsLargest DEF S
  <2>4. CurrentStudy(p)' = n + 1
    <3>1. CurrentStudy(p)' = Max(S)
      BY DEF CurrentStudy
    <3>2. Max(S) = n + 1
      <4>1. n \in Nat /\ n + 1 \in S /\ \A i \in S : i \in Int /\ i <= n + 1
        BY <1>1, <2>2
      <4> HIDE DEF S, n
      <4>2. QED
        BY <2>3, <4>1
    <3>3. QED
      BY <3>1, <3>2
  <2>5. QED
    BY <1>1, <2>1, <2>4 DEF Summary
<1>3. ASSUME NEW q \in Pairs \ {p}
      PROVE  (HasStudy(q)' <=> HasStudy(q)) /\ (HasStudy(q) => Summary(q)' = Summary(q))
  <2>1. Of(q)' = Of(q)
    BY <1>1
  <2>2. HasStudy(q)' <=> HasStudy(q)
    BY <2>1 DEF HasStudy
  <2>3. CurrentStudy(q)' = CurrentStudy(q)
    BY <2>1 DEF CurrentStudy
  <2>4. HasStudy(q) => CurrentStudy(q) \in 1 .. n
    BY CurrentIsLast
  <2>5. QED
    BY <1>1, <2>2, <2>3, <2>4 DEF Summary
<1>4. QED
  BY <1>1, <1>2, <1>3

\* A new summary is that of the last study of its pair.
LEMMA SummaryEffect ==
  ASSUME studies \in Seq(Studies), NEW p \in Pairs, HasStudy(p), NEW s \in Snapshots,
         studies' = [studies EXCEPT ![CurrentStudy(p)].summary = s]
  PROVE  /\ studies' \in Seq(Studies)
         /\ HasStudy(p)' /\ Summary(p)' = s
         /\ \A q \in Pairs \ {p} :
              (HasStudy(q)' <=> HasStudy(q)) /\ (HasStudy(q) => Summary(q)' = Summary(q))
<1> DEFINE n == Len(studies)
           c == CurrentStudy(p)
           Of(q) == {i \in DOMAIN studies : studies[i].pair = q}
<1>1. c \in 1 .. n /\ studies[c].pair = p /\ n \in Nat /\ DOMAIN studies = 1 .. n
  BY CurrentIsLast
<1>2. studies[c] \in Studies
  BY <1>1
<1>3. /\ DOMAIN studies' = 1 .. n /\ Len(studies') = n
      /\ studies'[c] = [studies[c] EXCEPT !.summary = s]
      /\ \A i \in 1 .. n : i # c => studies'[i] = studies[i]
  BY <1>1
<1>4. studies'[c] \in Studies /\ studies'[c].pair = p /\ studies'[c].summary = s
  BY <1>1, <1>2, <1>3 DEF Studies
<1>5. studies' \in Seq(Studies)
  BY <1>1, <1>3, <1>4
<1>6. \A i \in 1 .. n : studies'[i].pair = studies[i].pair
  BY <1>1, <1>3, <1>4
<1>7. ASSUME NEW q \in Pairs PROVE Of(q)' = Of(q)
  BY <1>1, <1>3, <1>6
<1>8. ASSUME NEW q \in Pairs
      PROVE  (HasStudy(q)' <=> HasStudy(q)) /\ CurrentStudy(q)' = CurrentStudy(q)
  BY <1>7 DEF HasStudy, CurrentStudy
<1>9. HasStudy(p)' /\ Summary(p)' = s
  BY <1>4, <1>8 DEF Summary
<1>10. ASSUME NEW q \in Pairs \ {p}, HasStudy(q) PROVE Summary(q)' = Summary(q)
  <2>1. CurrentStudy(q) \in 1 .. n /\ CurrentStudy(q) # c
    BY <1>1, <1>10, CurrentIsLast
  <2>2. QED
    BY <1>3, <1>8, <2>1 DEF Summary
<1>11. QED
  BY <1>5, <1>8, <1>9, <1>10

----------------------------------------------------------------------------
(* What a write does to the outputs of its pair, and to those of the others*)

OutputTypes ==
  /\ written \in [Pairs -> Nat]
  /\ studies \in Seq(Studies)
  /\ file \in [Pairs -> Snapshots \cup {None, Torn}]
  /\ workbook = Torn \/ workbook \in [Pairs -> Cells]

\* The outputs of q are as they were, but the workbook may be torn.
OutputsKept(q) ==
  /\ written'[q] = written[q]
  /\ file'[q] = file[q]
  /\ HasStudy(q)' <=> HasStudy(q)
  /\ HasStudy(q) => Summary(q)' = Summary(q)
  /\ workbook' = Torn \/ (workbook # Torn /\ workbook'[q] = workbook[q])

\* The snapshot is the next one of its pair.
IsNext(p, snapshot) ==
  snapshot \in Snapshots /\ snapshot.pair = p /\ snapshot.rank = written[p] + 1

\* _persist, as it ends: the copies it wrote, and nothing else
LEMMA PersistEffect ==
  ASSUME OutputTypes, NEW p \in Pairs, HasStudy(p), NEW s, IsNext(p, s), Persist(p, s)
  PROVE  /\ OutputTypes'
         /\ workbook # Torn /\ workbook'[p] = s
         /\ written'[p] = written[p] + 1 /\ file'[p] = s
         /\ HasStudy(p)' /\ Summary(p)' = s
         /\ \A q \in Pairs \ {p} : OutputsKept(q)
<1>1. /\ studies' \in Seq(Studies)
      /\ HasStudy(p)' /\ Summary(p)' = s
      /\ \A q \in Pairs \ {p} :
           (HasStudy(q)' <=> HasStudy(q)) /\ (HasStudy(q) => Summary(q)' = Summary(q))
  BY SummaryEffect DEF Persist, IsNext, OutputTypes
<1>2. /\ written' \in [Pairs -> Nat] /\ written'[p] = written[p] + 1
      /\ file' \in [Pairs -> Snapshots \cup {None, Torn}] /\ file'[p] = s
      /\ workbook # Torn /\ workbook' \in [Pairs -> Cells] /\ workbook'[p] = s
      /\ \A q \in Pairs \ {p} :
           written'[q] = written[q] /\ file'[q] = file[q] /\ workbook'[q] = workbook[q]
  BY DEF Persist, IsNext, OutputTypes, Cells
<1>3. QED
  BY <1>1, <1>2 DEF OutputTypes, OutputsKept

\* _persist, as far as it came: each copy is the old one or the new one.
LEMMA PersistUpToEffect ==
  ASSUME OutputTypes, NEW p \in Pairs, HasStudy(p), NEW s, IsNext(p, s),
         NEW step \in 1 .. 4, PersistUpTo(p, s, step)
  PROVE  /\ OutputTypes'
         /\ workbook' \in {workbook, Torn}
         /\ written'[p] = written[p] + 1 /\ file'[p] \in {s, Torn}
         /\ HasStudy(p)' /\ Summary(p)' \in {Summary(p), s}
         /\ \A q \in Pairs \ {p} : OutputsKept(q)
<1>1. /\ studies' \in Seq(Studies)
      /\ HasStudy(p)' /\ Summary(p)' \in {Summary(p), s}
      /\ \A q \in Pairs \ {p} :
           (HasStudy(q)' <=> HasStudy(q)) /\ (HasStudy(q) => Summary(q)' = Summary(q))
  <2>1. CASE step < 3
    BY <2>1 DEF PersistUpTo, OutputTypes, HasStudy, Summary, CurrentStudy
  <2>2. CASE ~ (step < 3)
    BY <2>2, SummaryEffect DEF PersistUpTo, IsNext, OutputTypes
  <2>3. QED
    BY <2>1, <2>2
<1>2. /\ written' \in [Pairs -> Nat] /\ written'[p] = written[p] + 1
      /\ file' \in [Pairs -> Snapshots \cup {None, Torn}] /\ file'[p] \in {s, Torn}
      /\ workbook' \in {workbook, Torn}
      /\ \A q \in Pairs \ {p} : written'[q] = written[q] /\ file'[q] = file[q]
  BY DEF PersistUpTo, IsNext, OutputTypes
<1>3. OutputTypes'
  BY <1>1, <1>2 DEF OutputTypes
<1>4. QED
  BY <1>1, <1>2, <1>3 DEF OutputsKept

\* MLflow answers with the last summary of the pair, if with any.
LEMMA FromMlflowIsSummary ==
  ASSUME studies \in Seq(Studies), NEW p \in Pairs, NameIsUnshared(p), FromMlflow(p) # None
  PROVE  HasStudy(p) /\ FromMlflow(p) = Summary(p)
<1> DEFINE found == {i \in DOMAIN studies : BaseName[studies[i].pair] = p}
           Of == {i \in DOMAIN studies : studies[i].pair = p}
<1>1. found # {}
  BY DEF FromMlflow
<1>2. \A i \in found : studies[i].pair = p
  <2>1. \A i \in DOMAIN studies : studies[i] \in Studies
    OBVIOUS
  <2>2. QED
    BY <2>1 DEF NameIsUnshared, Studies
<1>3. found = Of
  BY <1>1, <1>2
<1>4. HasStudy(p)
  BY <1>1, <1>2 DEF HasStudy
<1>5. FromMlflow(p) = studies[Max(found)].summary
  BY <1>1 DEF FromMlflow
<1>6. CurrentStudy(p) = Max(Of)
  BY DEF CurrentStudy
<1>7. QED
  BY <1>3, <1>4, <1>5, <1>6 DEF Summary

----------------------------------------------------------------------------
(* The steps of the job of a pair                                          *)

\* Nothing happens to the job of q, and nothing but a tear to its outputs.
Undisturbed(q) ==
  /\ UNCHANGED campaign
  /\ stage'[q] = stage[q] /\ trial'[q] = trial[q] /\ best'[q] = best[q]
  /\ tally'[q] = tally[q] /\ report'[q] = report[q]
  /\ OutputsKept(q)

\* What is said of a pair holds on while all it is about stays the same.
LEMMA UndisturbedKeeps ==
  ASSUME NEW q \in Pairs, PairInv(q), Undisturbed(q)
  PROVE  PairInv(q)'
<1> USE DEF PairInv, Undisturbed, OutputsKept, campaign
<1>1. SeedsLeft(q)'
  BY DEF SeedsLeft
<1>2. StageInv(q)' /\ UnpublishedInv(q)'
  BY DEF StageInv, UnpublishedInv
<1>3. CopiesInv(q)'
  BY DEF CopiesInv, AtWork, Published
<1>4. BestInv(q)'
  BY DEF BestInv, Published
<1>5. ReturnedInv(q)'
  BY DEF ReturnedInv, Published, IsFinal
<1>6. EndedInv(q)'
  BY DEF EndedInv, Published
<1>7. ReportInv(q)'
  BY DEF ReportInv, Published, IsFinal
<1>8. QED
  BY <1>1, <1>2, <1>3, <1>4, <1>5, <1>6, <1>7

\* What a step of the job of p has to show.
Advances(p) == StudyTypeOK' /\ PairInv(p)' /\ \A q \in Pairs \ {p} : Undisturbed(q)

\* A search opens a new study, and forgets the best result.
LEMMA StartSearchInv ==
  ASSUME IInv, NEW p \in Pairs, StartSearch(p)
  PROVE  Advances(p)
<1> USE DEF StartSearch, IInv, process, campaign
<1>1. /\ studies' \in Seq(Studies)
      /\ HasStudy(p)' /\ Summary(p)' = None
      /\ \A q \in Pairs \ {p} :
           (HasStudy(q)' <=> HasStudy(q)) /\ (HasStudy(q) => Summary(q)' = Summary(q))
  BY NewStudyEffect DEF StudyTypeOK
<1>2. stage'[p] = "search" /\ \A q \in Pairs \ {p} : stage'[q] = stage[q]
  BY DEF StudyTypeOK
<1>3. StudyTypeOK'
  BY <1>1 DEF StudyTypeOK, Stages
<1>4. PairInv(p)'
  BY <1>1, <1>2 DEF PairInv, SeedsLeft, StageInv, UnpublishedInv, CopiesInv, BestInv,
                    ReturnedInv, EndedInv, ReportInv, Published, AtWork
<1>5. \A q \in Pairs \ {p} : Undisturbed(q)
  BY <1>1, <1>2 DEF Undisturbed, OutputsKept
<1>6. QED
  BY <1>3, <1>4, <1>5 DEF Advances

\* A final evaluation opens a study of its own.
LEMMA StartEvalInv ==
  ASSUME IInv, NEW p \in Pairs, StartEval(p)
  PROVE  Advances(p)
<1> USE DEF StartEval, IInv, process, campaign
<1>1. /\ studies' \in Seq(Studies)
      /\ HasStudy(p)' /\ Summary(p)' = None
      /\ \A q \in Pairs \ {p} :
           (HasStudy(q)' <=> HasStudy(q)) /\ (HasStudy(q) => Summary(q)' = Summary(q))
  BY NewStudyEffect DEF StudyTypeOK
<1>2. stage'[p] = "eval" /\ \A q \in Pairs \ {p} : stage'[q] = stage[q]
  BY DEF StudyTypeOK
<1>3. StudyTypeOK'
  BY <1>1 DEF StudyTypeOK, Stages
<1>4. PairInv(p)'
  BY <1>1, <1>2 DEF PairInv, SeedsLeft, StageInv, UnpublishedInv, CopiesInv, BestInv,
                    ReturnedInv, EndedInv, ReportInv, Published, AtWork
<1>5. \A q \in Pairs \ {p} : Undisturbed(q)
  BY <1>1, <1>2 DEF Undisturbed, OutputsKept
<1>6. QED
  BY <1>3, <1>4, <1>5 DEF Advances

\* A step that only moves one trial of p keeps what is published.
LEMMA TrialMovesInv ==
  ASSUME IInv, NEW p \in Pairs, NEW t \in Trials, NEW new \in TrialStates,
         stage[p] = "search",
         trial' = [trial EXCEPT ![p][t] = new],
         new.state # "ended" => new.seeds < HpoSeeds,
         new.last = trial[p][t].last,
         UNCHANGED <<campaign, stage, best, tally, outputs, report>>
  PROVE  Advances(p)
<1> USE DEF IInv, outputs, campaign
<1>1. /\ trial' \in [Pairs -> [Trials -> TrialStates]]
      /\ trial'[p][t] = new
      /\ \A u \in Trials \ {t} : trial'[p][u] = trial[p][u]
      /\ \A q \in Pairs \ {p} : trial'[q] = trial[q]
  BY DEF StudyTypeOK
<1>2. \A q \in Pairs : (HasStudy(q)' <=> HasStudy(q)) /\ Summary(q)' = Summary(q)
  BY DEF HasStudy, Summary, CurrentStudy
<1>3. StudyTypeOK'
  BY <1>1 DEF StudyTypeOK
<1>4. PairInv(p)'
  <2>1. SeedsLeft(p)'
    BY <1>1 DEF PairInv, SeedsLeft
  <2>2. BestInv(p)'
    BY <1>1 DEF PairInv, BestInv, Published
  <2>3. QED
    BY <1>2, <2>1, <2>2 DEF PairInv, StageInv, UnpublishedInv, CopiesInv,
                            ReturnedInv, EndedInv, ReportInv, Published, AtWork
<1>5. \A q \in Pairs \ {p} : Undisturbed(q)
  BY <1>1, <1>2 DEF Undisturbed, OutputsKept
<1>6. QED
  BY <1>3, <1>4, <1>5 DEF Advances

\* A trial starts, and has reported nothing.
LEMMA StartTrialInv ==
  ASSUME IInv, NEW p \in Pairs, NEW t \in Trials, StartTrial(p, t)
  PROVE  Advances(p)
<1> DEFINE new == [trial[p][t] EXCEPT !.state = "running"]
<1>1. trial[p][t] \in TrialStates
  BY DEF IInv, StudyTypeOK
<1>2. /\ new \in TrialStates /\ new.last = trial[p][t].last
      /\ new.state # "ended" => new.seeds < HpoSeeds
  BY <1>1 DEF StartTrial, TrialStates, IInv, PairInv, SeedsLeft
<1>3. trial' = [trial EXCEPT ![p][t] = new]
  BY DEF StartTrial, IInv, StudyTypeOK
<1>4. QED
  BY <1>2, <1>3, TrialMovesInv DEF StartTrial

\* A trial that raises keeps what it has reported.
LEMMA TrialFailsInv ==
  ASSUME IInv, NEW p \in Pairs, NEW t \in Trials, TrialFails(p, t)
  PROVE  Advances(p)
<1>1. trial[p][t] \in TrialStates /\ HpoSeeds \in Nat \ {0} /\ MaxFailures \in Nat
  BY StudyAssumption DEF IInv, StudyTypeOK
<1>2. CASE trial[p][t].failures < MaxFailures
  <2> DEFINE old == trial[p][t]
             new == [state |-> old.state, seeds |-> 0, last |-> old.last,
                     failures |-> old.failures + 1]
  <2>1. /\ new \in TrialStates /\ new.last = trial[p][t].last
        /\ new.state # "ended" => new.seeds < HpoSeeds
    BY <1>1, <1>2 DEF TrialStates
  <2>2. trial' = [trial EXCEPT ![p][t] = new]
    BY <1>1, <1>2 DEF TrialFails, IInv, StudyTypeOK, TrialStates
  <2>3. QED
    BY <2>1, <2>2, TrialMovesInv DEF TrialFails
<1>3. CASE trial[p][t].failures = MaxFailures
  <2> DEFINE new == [trial[p][t] EXCEPT !.state = "ended"]
  <2>1. /\ new \in TrialStates /\ new.last = trial[p][t].last
        /\ new.state # "ended" => new.seeds < HpoSeeds
    BY <1>1 DEF TrialStates
  <2>2. trial' = [trial EXCEPT ![p][t] = new]
    BY <1>1, <1>3 DEF TrialFails, IInv, StudyTypeOK, TrialStates
  <2>3. QED
    BY <2>1, <2>2, TrialMovesInv DEF TrialFails
<1>4. QED
  BY <1>2, <1>3 DEF TrialFails

\* What a running trial reports, and what becomes of it.
LEMMA ResultTypes ==
  ASSUME IInv, NEW p \in Pairs, NEW t \in Running(p), NEW r \in Results(p, t)
  PROVE  /\ r \in [score : Scores \cup {Invalid}, seeds : 0 .. HpoSeeds]
         /\ \A a \in AfterResult(p, t, r) :
              /\ a \in TrialStates /\ a.last = r.score
              /\ a.state # "ended" => a.seeds < HpoSeeds
<1>1. /\ t \in Trials /\ trial[p][t] \in TrialStates
      /\ trial[p][t].state = "running" /\ trial[p][t].seeds < HpoSeeds
      /\ HpoSeeds \in Nat \ {0}
  BY StudyAssumption DEF IInv, StudyTypeOK, Running, PairInv, SeedsLeft
<1>2. r \in [score : Scores \cup {Invalid}, seeds : 0 .. HpoSeeds]
  <2>1. trial[p][t].seeds + 1 \in 0 .. HpoSeeds /\ HpoSeeds \in 0 .. HpoSeeds /\ 0 \in 0 .. HpoSeeds
    BY <1>1 DEF TrialStates
  <2>2. QED
    BY <2>1 DEF Results
<1>3. ASSUME NEW a \in AfterResult(p, t, r)
      PROVE  /\ a \in TrialStates /\ a.last = r.score
             /\ a.state # "ended" => a.seeds < HpoSeeds
  <2> DEFINE old == trial[p][t]
  <2>1. PICK s \in {"running", "ended"} :
          /\ a = [old EXCEPT !.seeds = r.seeds, !.last = r.score, !.state = s]
          /\ s = "running" => r.seeds \in 1 .. HpoSeeds - 1
    BY DEF AfterResult
  <2>2. a = [state |-> s, seeds |-> r.seeds, last |-> r.score, failures |-> old.failures]
    BY <1>1, <2>1 DEF TrialStates
  <2>3. a \in TrialStates /\ a.last = r.score
    BY <1>1, <1>2, <2>1, <2>2 DEF TrialStates
  <2>4. a.state = s /\ a.seeds = r.seeds
    BY <2>2
  <2>5. s # "ended" => r.seeds < HpoSeeds
    BY <1>1, <2>1
  <2>6. QED
    BY <2>3, <2>4, <2>5
<1>4. QED
  BY <1>2, <1>3

\* A result is published if it is better than the best so far.
LEMMA TrialResultInv ==
  ASSUME IInv, NEW p \in Pairs, NEW t \in Trials, TrialResult(p, t)
  PROVE  Advances(p)
<1> USE DEF TrialResult, IInv, campaign
<1>1. PICK r \in Results(p, t) :
        /\ \E after \in AfterResult(p, t, r) : trial' = [trial EXCEPT ![p][t] = after]
        /\ \/ /\ Improves(p, r.score)
              /\ best' = [best EXCEPT ![p] = r.score]
              /\ Persist(p, Snapshot(p, r, "incremental_best_trial"))
           \/ /\ ~ Improves(p, r.score)
              /\ UNCHANGED <<best, outputs>>
  OBVIOUS
<1>2. PICK after \in AfterResult(p, t, r) : trial' = [trial EXCEPT ![p][t] = after]
  BY <1>1
<1>3. /\ r \in [score : Scores \cup {Invalid}, seeds : 0 .. HpoSeeds]
      /\ after \in TrialStates /\ after.last = r.score
      /\ after.state # "ended" => after.seeds < HpoSeeds
  BY ResultTypes
<1>4. /\ trial' \in [Pairs -> [Trials -> TrialStates]]
      /\ trial'[p][t] = after
      /\ \A u \in Trials \ {t} : trial'[p][u] = trial[p][u]
      /\ \A q \in Pairs \ {p} : trial'[q] = trial[q]
  BY <1>2, <1>3 DEF StudyTypeOK
<1>5. SeedsLeft(p)'
  BY <1>3, <1>4 DEF PairInv, SeedsLeft
<1>6. /\ r.score \in Nat /\ best[p] \in Nat \cup {None} /\ r.score # None /\ HasStudy(p)
      /\ \A u \in Trials : trial[p][u].last \in Nat \cup {None}
  <2>1. Scores \cup {Invalid} \subseteq Nat /\ None \notin Nat
    BY StudyAssumption, MarkAssumption DEF Invalid
  <2>2. best[p] \in Scores \cup {Invalid, None} /\ stage[p] = "search" /\ StageInv(p)
    BY DEF StudyTypeOK, PairInv
  <2>3. \A u \in Trials : trial[p][u] \in TrialStates
    BY DEF StudyTypeOK
  <2>4. \A u \in Trials : trial[p][u].last \in Scores \cup {Invalid, None}
    BY <2>3 DEF TrialStates
  <2> HIDE DEF TrialResult, IInv
  <2>5. QED
    BY <1>3, <2>1, <2>2, <2>4 DEF StageInv
<1>7. CASE Improves(p, r.score)
  <2> DEFINE s == Snapshot(p, r, "incremental_best_trial")
  <2>1. IsNext(p, s) /\ s.score = r.score
    BY <1>3, StudyAssumption DEF IsNext, Snapshot, Snapshots, StudyTypeOK
  <2>2. Persist(p, s) /\ best' = [best EXCEPT ![p] = r.score]
    BY <1>1, <1>7
  <2> HIDE DEF s
  <2>3. /\ OutputTypes'
        /\ workbook # Torn /\ workbook'[p] = s
        /\ written'[p] = written[p] + 1 /\ file'[p] = s
        /\ HasStudy(p)' /\ Summary(p)' = s
        /\ \A q \in Pairs \ {p} : OutputsKept(q)
    BY <1>6, <2>1, <2>2, PersistEffect DEF StudyTypeOK, OutputTypes
  <2>4. StudyTypeOK'
    BY <1>3, <1>4, <2>2, <2>3 DEF StudyTypeOK, OutputTypes
  <2>5. best'[p] = r.score /\ written[p] \in Nat
    BY <2>2 DEF StudyTypeOK
  <2>6. BestInv(p)'
    BY <1>3, <1>4, <1>6, <1>7, <2>1, <2>3, <2>5 DEF BestInv, PairInv, Published, Improves
  <2>7. PairInv(p)'
    BY <1>5, <2>1, <2>3, <2>5, <2>6
    DEF PairInv, StageInv, UnpublishedInv, CopiesInv, ReturnedInv, EndedInv, ReportInv,
        Published, IsNext, AtWork
  <2>8. \A q \in Pairs \ {p} : Undisturbed(q)
    BY <1>4, <2>2, <2>3 DEF Undisturbed, StudyTypeOK
  <2>9. QED
    BY <2>4, <2>7, <2>8 DEF Advances
<1>8. CASE ~ Improves(p, r.score)
  <2>1. UNCHANGED <<best, outputs>>
    BY <1>1, <1>8
  <2>2. \A q \in Pairs : (HasStudy(q)' <=> HasStudy(q)) /\ Summary(q)' = Summary(q)
    BY <2>1 DEF outputs, HasStudy, Summary, CurrentStudy
  <2>3. StudyTypeOK'
    BY <1>4, <2>1 DEF outputs, StudyTypeOK
  <2>4. BestInv(p)'
    BY <1>3, <1>4, <1>6, <1>8, <2>1 DEF outputs, BestInv, PairInv, Published, Improves
  <2>5. PairInv(p)'
    BY <1>5, <2>1, <2>2, <2>4
    DEF outputs, PairInv, StageInv, UnpublishedInv, CopiesInv, ReturnedInv, EndedInv, ReportInv,
        Published, AtWork
  <2>6. \A q \in Pairs \ {p} : Undisturbed(q)
    BY <1>4, <2>1, <2>2 DEF outputs, Undisturbed, OutputsKept
  <2>7. QED
    BY <2>3, <2>5, <2>6 DEF Advances
<1>9. QED
  BY <1>7, <1>8

\* The best of the last results is a result.
LEMMA BestResultTypes ==
  ASSUME IInv, NEW p \in Pairs, NEW r \in BestResults(p)
  PROVE  r \in [score : Scores \cup {Invalid}, seeds : 0 .. HpoSeeds]
<1>1. PICK t \in Trials :
        trial[p][t].last # None /\ r = [score |-> trial[p][t].last, seeds |-> trial[p][t].seeds]
  BY DEF BestResults
<1>2. QED
  BY <1>1 DEF IInv, StudyTypeOK, TrialStates

\* A search ends with the result it has published.
LEMMA FinishSearchInv ==
  ASSUME IInv, NEW p \in Pairs, FinishSearch(p)
  PROVE  Advances(p)
<1> USE DEF FinishSearch, IInv, campaign, process
<1>1. PICK r \in BestResults(p) : Persist(p, Snapshot(p, r, "hpo_best_trial"))
  OBVIOUS
<1> DEFINE s == Snapshot(p, r, "hpo_best_trial")
<1>2. IsNext(p, s) /\ s.source = "hpo_best_trial"
  BY BestResultTypes, StudyAssumption DEF IsNext, Snapshot, Snapshots, StudyTypeOK
<1>3. Persist(p, s)
  BY <1>1
<1> HIDE DEF s
<1>4. stage[p] = "search" /\ HasStudy(p) /\ mode # "train"
  BY DEF SearchOver, PairInv, StageInv
<1>5. /\ OutputTypes'
      /\ workbook # Torn /\ workbook'[p] = s
      /\ written'[p] = written[p] + 1 /\ file'[p] = s
      /\ HasStudy(p)' /\ Summary(p)' = s
      /\ \A q \in Pairs \ {p} : OutputsKept(q)
  BY <1>2, <1>3, <1>4, PersistEffect DEF StudyTypeOK, OutputTypes
<1>6. /\ stage'[p] = (IF finalEval THEN "selected" ELSE "returned")
      /\ \A q \in Pairs \ {p} : stage'[q] = stage[q]
      /\ written[p] \in Nat
  BY DEF StudyTypeOK
<1>7. StudyTypeOK'
  BY <1>5 DEF StudyTypeOK, OutputTypes, Stages
<1>8. PairInv(p)'
  <2>1. StageInv(p)'
    BY <1>4, <1>5, <1>6 DEF PairInv, StageInv
  <2>2. ReturnedInv(p)'
    BY <1>2, <1>4, <1>5, <1>6 DEF ReturnedInv, IsFinal, Published, IsNext
  <2>3. QED
    BY <1>2, <1>5, <1>6, <2>1, <2>2
    DEF PairInv, SeedsLeft, UnpublishedInv, CopiesInv, BestInv, EndedInv, ReportInv,
        Published, IsNext, AtWork
<1>9. \A q \in Pairs \ {p} : Undisturbed(q)
  BY <1>5, <1>6 DEF Undisturbed
<1>10. QED
  BY <1>7, <1>8, <1>9 DEF Advances

\* A final evaluation publishes each result as it comes.
LEMMA EvalSnapshotInv ==
  ASSUME IInv, NEW p \in Pairs, EvalSnapshot(p)
  PROVE  Advances(p)
<1> USE DEF IInv, campaign
<1>1. PICK score \in Scores :
        /\ tally' = [tally EXCEPT ![p] = EvalResult(p, score)]
        /\ Persist(p, Snapshot(p, EvalResult(p, score), "incremental_final_eval"))
  BY DEF EvalSnapshot
<1> DEFINE r == EvalResult(p, score)
           s == Snapshot(p, r, "incremental_final_eval")
<1>2. /\ stage[p] = "eval" /\ tally[p].seeds < FullSeeds
      /\ UNCHANGED <<campaign, stage, trial, best, report>>
  BY DEF EvalSnapshot
<1>3. r \in [seeds : 0 .. FullSeeds, score : Scores] /\ r.seeds > 0
  <2>1. tally[p].seeds \in 0 .. FullSeeds /\ FullSeeds \in Nat
    BY StudyAssumption DEF StudyTypeOK
  <2>2. tally[p].seeds + 1 \in 0 .. FullSeeds /\ tally[p].seeds + 1 > 0
    BY <1>2, <2>1
  <2>3. QED
    BY <2>2 DEF EvalResult
<1>4. IsNext(p, s)
  BY <1>3, StudyAssumption DEF IsNext, Snapshot, Snapshots, StudyTypeOK
<1>5. Persist(p, s) /\ tally' = [tally EXCEPT ![p] = r]
  BY <1>1
<1> HIDE DEF s, r
<1>6. HasStudy(p)
  BY <1>2 DEF PairInv, StageInv
<1>7. /\ OutputTypes'
      /\ workbook # Torn /\ workbook'[p] = s
      /\ written'[p] = written[p] + 1 /\ file'[p] = s
      /\ HasStudy(p)' /\ Summary(p)' = s
      /\ \A q \in Pairs \ {p} : OutputsKept(q)
  BY <1>4, <1>5, <1>6, PersistEffect DEF StudyTypeOK, OutputTypes
<1>8. /\ tally' \in [Pairs -> [seeds : 0 .. FullSeeds, score : Scores \cup {None}]]
      /\ tally'[p] = r /\ \A q \in Pairs \ {p} : tally'[q] = tally[q]
      /\ written[p] \in Nat
  BY <1>3, <1>5 DEF StudyTypeOK
<1>9. StudyTypeOK'
  BY <1>2, <1>7, <1>8 DEF StudyTypeOK, OutputTypes
<1>10. PairInv(p)'
  BY <1>2, <1>3, <1>4, <1>7, <1>8
  DEF PairInv, SeedsLeft, StageInv, UnpublishedInv, CopiesInv, BestInv, ReturnedInv, EndedInv,
      ReportInv, Published, IsNext, AtWork
<1>11. \A q \in Pairs \ {p} : Undisturbed(q)
  BY <1>2, <1>7, <1>8 DEF Undisturbed
<1>12. QED
  BY <1>9, <1>10, <1>11 DEF Advances

\* A final evaluation ends with its last result.
LEMMA FinishEvalInv ==
  ASSUME IInv, NEW p \in Pairs, FinishEval(p)
  PROVE  Advances(p)
<1> USE DEF IInv, campaign
<1> DEFINE s == Snapshot(p, tally[p], "final_eval")
<1>1. /\ stage[p] = "eval" /\ tally[p].seeds = FullSeeds
      /\ Persist(p, s)
      /\ stage' = [stage EXCEPT ![p] = "returned"]
      /\ UNCHANGED <<campaign, process, report>>
  BY DEF FinishEval
<1>2. FullSeeds \in Nat \ {0} /\ tally[p].score \in Scores
      /\ HasStudy(p) /\ (mode = "train" \/ finalEval)
  BY <1>1, StudyAssumption DEF PairInv, StageInv
<1>3. IsNext(p, s) /\ s.source = "final_eval" /\ s.seeds = FullSeeds
  BY <1>1, <1>2 DEF IsNext, Snapshot, Snapshots, StudyTypeOK
<1> HIDE DEF s
<1>4. /\ OutputTypes'
      /\ workbook # Torn /\ workbook'[p] = s
      /\ written'[p] = written[p] + 1 /\ file'[p] = s
      /\ HasStudy(p)' /\ Summary(p)' = s
      /\ \A q \in Pairs \ {p} : OutputsKept(q)
  BY <1>1, <1>2, <1>3, PersistEffect DEF StudyTypeOK, OutputTypes
<1>5. /\ stage'[p] = "returned" /\ \A q \in Pairs \ {p} : stage'[q] = stage[q]
      /\ written[p] \in Nat
  BY <1>1 DEF StudyTypeOK
<1>6. StudyTypeOK'
  BY <1>1, <1>4 DEF process, StudyTypeOK, OutputTypes, Stages
<1>7. PairInv(p)'
  <2>1. ReturnedInv(p)'
    BY <1>1, <1>2, <1>3, <1>4, <1>5 DEF ReturnedInv, IsFinal, Published, IsNext
  <2>2. QED
    BY <1>1, <1>2, <1>3, <1>4, <1>5, <2>1
    DEF process, PairInv, SeedsLeft, StageInv, UnpublishedInv, CopiesInv, BestInv, EndedInv,
        ReportInv, Published, IsNext, AtWork
<1>8. \A q \in Pairs \ {p} : Undisturbed(q)
  BY <1>1, <1>4, <1>5 DEF process, Undisturbed
<1>9. QED
  BY <1>6, <1>7, <1>8 DEF Advances

----------------------------------------------------------------------------
(* The end of a job                                                        *)

\* Whatever the job was writing is the next snapshot of its pair.
LEMMA NextSnapshotTypes ==
  ASSUME IInv, NEW p \in Pairs, NEW s \in NextSnapshots(p)
  PROVE  IsNext(p, s) /\ AtWork(p) /\ HasStudy(p)
<1> USE DEF IInv
<1>1. PICK r, source :
        /\ s = Snapshot(p, r, source)
        /\ \/ source = "incremental_best_trial" /\ stage[p] = "search"
              /\ \E t \in Running(p) : r \in Results(p, t)
           \/ source = "hpo_best_trial" /\ SearchOver(p) /\ r \in BestResults(p)
           \/ source = "incremental_final_eval" /\ stage[p] = "eval"
              /\ \E score \in Scores : r = EvalResult(p, score)
           \/ source = "final_eval" /\ stage[p] = "eval" /\ r = tally[p]
              /\ tally[p].seeds = FullSeeds
  BY DEF NextSnapshots
<1>2. AtWork(p) /\ HasStudy(p)
  BY <1>1 DEF AtWork, SearchOver, PairInv, StageInv
<1>3. r.score \in Scores \cup {Invalid} /\ r.seeds \in Nat
  <2>1. tally[p].seeds \in Nat /\ FullSeeds \in Nat \ {0} /\ HpoSeeds \in Nat
    BY StudyAssumption DEF StudyTypeOK
  <2>2. CASE \E t \in Running(p) : r \in Results(p, t)
    BY <2>1, <2>2, ResultTypes
  <2>3. CASE r \in BestResults(p)
    BY <2>1, <2>3, BestResultTypes
  <2>4. CASE \E score \in Scores : r = EvalResult(p, score)
    BY <2>1, <2>4 DEF EvalResult
  <2>5. CASE r = tally[p] /\ tally[p].seeds = FullSeeds
    BY <2>1, <2>5 DEF PairInv, StageInv
  <2>6. QED
    BY <1>1, <2>2, <2>3, <2>4, <2>5
<1>4. written[p] \in Nat
  BY DEF StudyTypeOK
<1>5. QED
  BY <1>1, <1>2, <1>3, <1>4 DEF IsNext, Snapshot, Snapshots

\* A job that ends keeps the rest of the invariant.
LEMMA EndJobInv ==
  ASSUME IInv, NEW p \in Pairs, NEW how \in {"failed", "stopped"}, EndJob(p, how),
         OutputTypes', \A q \in Pairs \ {p} : OutputsKept(q),
         UnpublishedInv(p)', EndedInv(p)'
  PROVE  Advances(p)
<1> USE DEF IInv, campaign, EndJob
<1>1. /\ stage'[p] = how /\ tally'[p] = NoTally
      /\ trial'[p] = [t \in Trials |-> Pending]
      /\ \A q \in Pairs \ {p} :
           /\ stage'[q] = stage[q] /\ trial'[q] = trial[q]
           /\ best'[q] = best[q] /\ tally'[q] = tally[q]
  BY DEF StudyTypeOK
<1>2. StudyTypeOK'
  <2>1. Pending \in TrialStates /\ NoTally \in [seeds : 0 .. FullSeeds, score : Scores \cup {None}]
    BY StudyAssumption DEF Pending, NoTally, TrialStates
  <2>2. /\ trial' \in [Pairs -> [Trials -> TrialStates]]
        /\ tally' \in [Pairs -> [seeds : 0 .. FullSeeds, score : Scores \cup {None}]]
        /\ best' \in [Pairs -> Scores \cup {Invalid, None}]
        /\ stage' \in [Pairs -> Stages]
    BY <2>1 DEF StudyTypeOK, Stages
  <2>3. QED
    BY <2>2 DEF StudyTypeOK, OutputTypes
<1>3. SeedsLeft(p)'
  BY <1>1, StudyAssumption DEF SeedsLeft, Pending
<1>4. PairInv(p)'
  BY <1>1, <1>3
  DEF PairInv, StageInv, CopiesInv, BestInv, ReturnedInv, ReportInv, AtWork, NoTally
<1>5. \A q \in Pairs \ {p} : Undisturbed(q)
  BY <1>1 DEF Undisturbed
<1>6. QED
  BY <1>2, <1>4, <1>5 DEF Advances

\* A job that ends between two snapshots leaves its copies as they are.
LEMMA EndsBetweenInv ==
  ASSUME IInv, NEW p \in Pairs, NEW how \in {"failed", "stopped"}, EndJob(p, how),
         AtWork(p), UNCHANGED outputs
  PROVE  Advances(p)
<1>1. \A q \in Pairs : (HasStudy(q)' <=> HasStudy(q)) /\ Summary(q)' = Summary(q)
  BY DEF outputs, HasStudy, Summary, CurrentStudy
<1>2. OutputTypes' /\ \A q \in Pairs \ {p} : OutputsKept(q)
  BY <1>1 DEF outputs, OutputTypes, OutputsKept, IInv, StudyTypeOK
<1>3. UnpublishedInv(p)'
  BY <1>1 DEF outputs, UnpublishedInv, IInv, PairInv
<1>4. EndedInv(p)'
  <2>1. CopiesInv(p)
    BY DEF IInv, PairInv
  <2>2. QED
    BY <1>1, <2>1 DEF outputs, EndedInv, CopiesInv, Published
<1>5. QED
  BY <1>2, <1>3, <1>4, EndJobInv

\* A job that ends within a snapshot leaves it or the one before.
LEMMA EndsWithinInv ==
  ASSUME IInv, NEW p \in Pairs, NEW how \in {"failed", "stopped"}, EndJob(p, how),
         NEW s \in NextSnapshots(p), NEW step \in 1 .. 4, PersistUpTo(p, s, step)
  PROVE  Advances(p)
<1>1. IsNext(p, s) /\ AtWork(p) /\ HasStudy(p)
  BY NextSnapshotTypes
<1>2. /\ OutputTypes'
      /\ written'[p] = written[p] + 1 /\ file'[p] \in {s, Torn}
      /\ HasStudy(p)' /\ Summary(p)' \in {Summary(p), s}
      /\ \A q \in Pairs \ {p} : OutputsKept(q)
  BY <1>1, PersistUpToEffect DEF IInv, StudyTypeOK, OutputTypes
<1>3. written[p] \in Nat
  BY DEF IInv, StudyTypeOK
<1>4. UnpublishedInv(p)'
  BY <1>2, <1>3 DEF UnpublishedInv
<1>5. \/ Summary(p) = None
      \/ Summary(p) \in Snapshots /\ Summary(p).pair = p /\ Summary(p).rank = written[p]
  BY <1>1, <1>3 DEF IInv, PairInv, UnpublishedInv, CopiesInv, Published
<1>6. EndedInv(p)'
  BY <1>1, <1>2, <1>3, <1>5 DEF EndedInv, IsNext
<1>7. QED
  BY <1>2, <1>4, <1>6, EndJobInv

\* The controller is interrupted: it judges no pair any more.
LEMMA InterruptInv ==
  ASSUME IInv, NEW p \in Pairs, Interrupt(p)
  PROVE  Advances(p)
BY EndsBetweenInv, EndsWithinInv DEF Interrupt

\* A workbook torn by somebody else is none of the pair's doing.
LEMMA WorkbookUnreadableInv ==
  ASSUME IInv, NEW p \in Pairs, WorkbookUnreadable(p)
  PROVE  Advances(p)
BY EndsWithinInv DEF WorkbookUnreadable

\* A pair that has no result is reported with none.
LEMMA NoResultInv ==
  ASSUME IInv, NEW p \in Pairs, NoResult(p)
  PROVE  Advances(p)
BY EndsBetweenInv DEF NoResult, SearchOver, AtWork

----------------------------------------------------------------------------
(* The callback of a job that has ended                                    *)

\* What is loaded is a snapshot of some pair, or nothing.
LEMMA LoadsTypes ==
  ASSUME IInv, NEW p \in Pairs, NEW result \in Loads(p) \ {Torn}
  PROVE  result \in Snapshots \cup {None}
<1> DEFINE found == {i \in DOMAIN studies : BaseName[studies[i].pair] = p}
<1>1. FromMlflow(p) \in Snapshots \cup {None}
  <2>1. CASE found = {}
    BY <2>1 DEF FromMlflow
  <2>2. CASE found # {}
    <3>1. found \in SUBSET (1 .. Len(studies)) /\ Len(studies) \in Nat
      BY DEF IInv, StudyTypeOK
    <3>2. Max(found) \in found
      <4> HIDE DEF found
      <4>1. QED
        BY <2>2, <3>1, MaxIsLargest
    <3>3. studies[Max(found)] \in Studies
      BY <3>2 DEF IInv, StudyTypeOK
    <3>4. FromMlflow(p) = studies[Max(found)].summary
      BY <2>2 DEF FromMlflow
    <3>5. QED
      BY <3>3, <3>4 DEF Studies
  <2>3. QED
    BY <2>1, <2>2
<1>2. file[p] \in Snapshots \cup {None, Torn}
  BY DEF IInv, StudyTypeOK
<1>3. QED
  BY <1>1, <1>2 DEF Loads

\* Unless another pair has its name, what is loaded is the last result of the
\* pair or the one before, and its final one when the job returned.
LEMMA LoadsLatest ==
  ASSUME IInv, NEW p \in Pairs, NameIsUnshared(p), NEW result \in Loads(p) \ {Torn},
         stage[p] \in {"returned", "failed", "stopped"}
  PROVE  /\ IF result = None
            THEN ~ Published(p)
            ELSE result.pair = p /\ result.rank \in {written[p] - 1, written[p]}
         /\ stage[p] = "returned" => IsFinal(p, result)
<1>1. \/ result = file[p]
      \/ HasStudy(p) /\ result = Summary(p) /\ result # None
  BY FromMlflowIsSummary DEF Loads, IInv, StudyTypeOK
<1>2. /\ written[p] \in Nat /\ None \notin Snapshots /\ Torn \notin Snapshots
      /\ PairInv(p) /\ result # Torn
  BY MarkAssumption DEF IInv, StudyTypeOK
<1>3. CASE written[p] = 0
  BY <1>1, <1>2, <1>3 DEF PairInv, UnpublishedInv, ReturnedInv, Published
<1>4. CASE written[p] # 0 /\ stage[p] = "returned"
  <2>1. Published(p)
    BY <1>2, <1>4 DEF Published
  <2>2. /\ file[p] \in Snapshots /\ file[p].pair = p /\ file[p].rank = written[p]
        /\ Summary(p) = file[p] /\ IsFinal(p, file[p])
    BY <1>2, <1>4, <2>1 DEF PairInv, CopiesInv, ReturnedInv
  <2>3. QED
    BY <1>1, <1>2, <2>2
<1>5. CASE written[p] # 0 /\ stage[p] # "returned"
  <2>1. Published(p)
    BY <1>2, <1>5 DEF Published
  <2>2. /\ file[p] = Torn \/ (file[p] \in Snapshots /\ file[p].pair = p /\ file[p].rank = written[p])
        /\ \/ Summary(p) = None
           \/ /\ Summary(p) \in Snapshots /\ Summary(p).pair = p
              /\ Summary(p).rank \in {written[p] - 1, written[p]}
    BY <1>2, <1>5, <2>1 DEF PairInv, EndedInv
  <2>3. QED
    BY <1>1, <1>2, <1>5, <2>2
<1>6. QED
  BY <1>3, <1>4, <1>5

\* A report that is right when it is made keeps the invariant.
LEMMA ReportedInv ==
  ASSUME IInv, NEW p \in Pairs, NEW result \in Snapshots \cup {None}, NEW raised \in BOOLEAN,
         Reported(p, result, raised), stage[p] \in {"returned", "failed", "stopped"},
         workbook' = Torn \/ workbook' \in [Pairs -> Cells],
         workbook = Torn => workbook' = Torn,
         workbook # Torn => \A q \in Pairs \ {p} : workbook'[q] = workbook[q],
         NameIsUnshared(p) =>
           IF raised
           THEN file[p] = Torn \/ workbook = Torn \/ outages
           ELSE /\ IF result = None
                   THEN ~ Published(p)
                   ELSE result.pair = p /\ result.rank \in {written[p] - 1, written[p]}
                /\ stage[p] = "returned" => IsFinal(p, result)
  PROVE  Advances(p)
<1> USE DEF Reported, IInv, process, campaign
<1> DEFINE new == [status |-> Status(p), result |-> result, raised |-> raised]
<1>1. /\ new \in Reports
      /\ new.status = "SUCCEEDED" => stage[p] = "returned"
      /\ new.result = result /\ new.raised = raised
  <2>1. Status(p) \in {"SUCCEEDED", "FAILED", "STOPPED"}
        /\ (Status(p) = "SUCCEEDED" => stage[p] = "returned")
    BY DEF Status
  <2>2. QED
    BY <2>1 DEF Reports
<1>2. report' = [report EXCEPT ![p] = new]
  OBVIOUS
<1> HIDE DEF new
<1>3. /\ report' \in [Pairs -> Reports \cup {None}] /\ report'[p] = new
      /\ stage' \in [Pairs -> Stages] /\ stage'[p] = "reported"
      /\ \A q \in Pairs \ {p} : report'[q] = report[q] /\ stage'[q] = stage[q]
  BY <1>1, <1>2 DEF StudyTypeOK, Stages
<1>4. \A q \in Pairs : (HasStudy(q)' <=> HasStudy(q)) /\ Summary(q)' = Summary(q)
  BY DEF HasStudy, Summary, CurrentStudy
<1>5. StudyTypeOK'
  BY <1>3 DEF StudyTypeOK
<1>6. PairInv(p)'
  <2>1. ReportInv(p)'
    BY <1>1, <1>3 DEF ReportInv, IsFinal, Published
  <2>2. QED
    BY <1>3, <1>4, <2>1
    DEF PairInv, SeedsLeft, StageInv, UnpublishedInv, CopiesInv, BestInv, ReturnedInv, EndedInv, AtWork
<1>7. \A q \in Pairs \ {p} : Undisturbed(q)
  BY <1>3, <1>4 DEF Undisturbed, OutputsKept
<1>8. QED
  BY <1>5, <1>6, <1>7 DEF Advances

\* The controller reports a pair with the last result it can read.
LEMMA JobTerminalInv ==
  ASSUME IInv, NEW p \in Pairs, JobTerminal(p)
  PROVE  Advances(p)
<1>1. PICK result \in Loads(p) \ {Torn} :
        /\ Reported(p, result, FALSE)
        /\ \E row \in Rows(p, result) : workbook' = [workbook EXCEPT ![p] = row]
  BY DEF JobTerminal
<1>2. PICK row \in Rows(p, result) : workbook' = [workbook EXCEPT ![p] = row]
  BY <1>1
<1>3. /\ workbook # Torn /\ workbook \in [Pairs -> Cells]
      /\ stage[p] \in {"returned", "failed", "stopped"}
      /\ result \in Snapshots \cup {None}
  BY LoadsTypes DEF JobTerminal, IInv, StudyTypeOK
<1>4. row \in Cells
  BY <1>3 DEF Rows, Cells
<1>5. /\ workbook' \in [Pairs -> Cells]
      /\ \A q \in Pairs \ {p} : workbook'[q] = workbook[q]
  BY <1>2, <1>3, <1>4
<1>6. QED
  BY <1>1, <1>3, <1>5, LoadsLatest, ReportedInv

\* The controller raises when it can read none, and reports nothing.
LEMMA JobTerminalRaisesInv ==
  ASSUME IInv, NEW p \in Pairs, JobTerminalRaises(p)
  PROVE  Advances(p)
<1>1. /\ stage[p] \in {"returned", "failed", "stopped"} /\ workbook' = workbook
      /\ workbook = Torn \/ workbook \in [Pairs -> Cells]
  BY DEF JobTerminalRaises, IInv, StudyTypeOK
<1>2. CASE (outages \/ Torn \in Loads(p)) /\ Reported(p, None, TRUE)
  <2>1. NameIsUnshared(p) => file[p] = Torn \/ outages
    <3> SUFFICES ASSUME NameIsUnshared(p), ~ outages, Torn \in Loads(p) PROVE file[p] = Torn
      BY <1>2
    <3>1. CASE FromMlflow(p) = None
      BY <3>1 DEF Loads, IInv, StudyTypeOK
    <3>2. CASE FromMlflow(p) # None
      <4>1. Torn = Summary(p) /\ HasStudy(p)
        BY <3>2, FromMlflowIsSummary DEF Loads, IInv, StudyTypeOK
      <4>2. Torn \in Snapshots \cup {None}
        <5>1. CurrentStudy(p) \in DOMAIN studies
          BY <4>1, CurrentIsLast DEF IInv, StudyTypeOK
        <5>2. studies[CurrentStudy(p)] \in Studies
          BY <5>1 DEF IInv, StudyTypeOK
        <5>3. QED
          BY <4>1, <5>2 DEF Summary, Studies
      <4>3. Torn = None
        BY <4>2, MarkAssumption
      <4>4. QED
        BY <3>2, <4>1, <4>3, FromMlflowIsSummary DEF IInv, StudyTypeOK
    <3>3. QED
      BY <3>1, <3>2
  <2>2. QED
    BY <1>1, <1>2, <2>1, ReportedInv
<1>3. ASSUME workbook = Torn, NEW result \in Loads(p) \ {Torn},
             Reported(p, result, result # None \/ stage[p] = "failed")
      PROVE  Advances(p)
  <2> DEFINE raised == result # None \/ stage[p] = "failed"
  <2>1. result \in Snapshots \cup {None} /\ raised \in BOOLEAN
    BY LoadsTypes
  <2>2. NameIsUnshared(p) /\ ~ raised =>
          /\ IF result = None
             THEN ~ Published(p)
             ELSE result.pair = p /\ result.rank \in {written[p] - 1, written[p]}
          /\ stage[p] = "returned" => IsFinal(p, result)
    BY <1>1, LoadsLatest
  <2>3. Reported(p, result, raised)
    BY <1>3
  <2> HIDE DEF raised
  <2>4. QED
    BY <1>1, <1>3, <2>1, <2>2, <2>3, ReportedInv
<1>4. QED
  BY <1>2, <1>3 DEF JobTerminalRaises

----------------------------------------------------------------------------
(* The theorems                                                            *)

\* A campaign begins with no result anywhere.
LEMMA InitIInv == Init => IInv
<1> SUFFICES ASSUME Init PROVE IInv
  OBVIOUS
<1>1. StudyTypeOK
  <2>1. Pending \in TrialStates /\ NoTally \in [seeds : 0 .. FullSeeds, score : Scores \cup {None}]
    BY StudyAssumption DEF Pending, NoTally, TrialStates
  <2>2. studies \in Seq(Studies)
    BY DEF Init
  <2>3. QED
    BY <2>1, <2>2, StudyAssumption DEF Init, StudyTypeOK, Stages, Cells
<1>2. ASSUME NEW p \in Pairs PROVE PairInv(p)
  <2>1. /\ stage[p] = "queued" /\ written[p] = 0 /\ best[p] = None /\ file[p] = None
        /\ tally[p] = NoTally /\ \A t \in Trials : trial[p][t] = Pending
        /\ ~ HasStudy(p)
    BY DEF Init, HasStudy
  <2>2. SeedsLeft(p) /\ StageInv(p)
    BY <2>1, StudyAssumption DEF SeedsLeft, StageInv, Pending, NoTally
  <2>3. QED
    BY <2>1, <2>2 DEF PairInv, UnpublishedInv, CopiesInv, BestInv, ReturnedInv, EndedInv, ReportInv,
                      Published
<1>3. QED
  BY <1>1, <1>2 DEF IInv

\* Every step of a job and of its callback keeps the invariant, whatever the
\* other pairs and other models do.
LEMMA StepIInv == IInv /\ [Next]_vars => IInv'
<1> SUFFICES ASSUME IInv, [Next]_vars PROVE IInv'
  OBVIOUS
<1>1. ASSUME NEW p \in Pairs, Advances(p) PROVE IInv'
  BY <1>1, UndisturbedKeeps DEF Advances, IInv
<1>2. ASSUME NEW p \in Pairs, Works(p) \/ Interrupt(p) PROVE Advances(p)
  BY <1>2, StartSearchInv, FinishSearchInv, NoResultInv, StartTrialInv, TrialResultInv,
     TrialFailsInv, StartEvalInv, EvalSnapshotInv, FinishEvalInv, WorkbookUnreadableInv,
     JobTerminalInv, JobTerminalRaisesInv, InterruptInv DEF Works
<1>3. CASE OthersTearWorkbook
  <2>1. \A q \in Pairs : (HasStudy(q)' <=> HasStudy(q)) /\ Summary(q)' = Summary(q)
    BY <1>3 DEF OthersTearWorkbook, HasStudy, Summary, CurrentStudy
  <2>2. \A q \in Pairs : Undisturbed(q)
    BY <1>3, <2>1 DEF OthersTearWorkbook, Undisturbed, OutputsKept, process, campaign
  <2>3. StudyTypeOK'
    BY <1>3 DEF OthersTearWorkbook, IInv, StudyTypeOK, process, campaign
  <2>4. QED
    BY <2>2, <2>3, UndisturbedKeeps DEF IInv
<1>4. CASE UNCHANGED vars
  <2>1. \A q \in Pairs : (HasStudy(q)' <=> HasStudy(q)) /\ Summary(q)' = Summary(q)
    BY <1>4 DEF vars, outputs, HasStudy, Summary, CurrentStudy
  <2>2. \A q \in Pairs : Undisturbed(q)
    BY <1>4, <2>1 DEF vars, Undisturbed, OutputsKept, process, campaign, outputs
  <2>3. StudyTypeOK'
    BY <1>4 DEF vars, IInv, StudyTypeOK, process, campaign, outputs
  <2>4. QED
    BY <2>2, <2>3, UndisturbedKeeps DEF IInv
<1>5. QED
  BY <1>1, <1>2, <1>3, <1>4 DEF Next

\* The invariant holds throughout, for every choice of the constants.
THEOREM InvariantHolds == Spec => []IInv
BY InitIInv, StepIInv, PTL DEF Spec

\* Every variable keeps its type: a trial reports no more seeds than it has,
\* and a snapshot is one of its pair, wherever it lies.
THEOREM TypeCorrect == Spec => []TypeOK
<1>1. IInv => TypeOK
  <2> SUFFICES ASSUME IInv PROVE TypeOK
    OBVIOUS
  <2>1. \A i \in DOMAIN studies : studies[i] \in Studies
    BY DEF IInv, StudyTypeOK
  <2>2. QED
    BY <2>1 DEF IInv, StudyTypeOK, TypeOK, Stages, Cells, Studies, Reports
<1>2. QED
  BY <1>1, InvariantHolds, PTL

\* For any number of pairs, trials, seeds and failures, jobs stopped anywhere
\* and a workbook torn by others: while a job works, and when it has returned,
\* its last result is in the file, in MLflow and in the workbook alike.
THEOREM CopiesHoldOneResult == Spec => []CopiesAgree
<1>1. IInv => CopiesAgree
  BY DEF IInv, PairInv, CopiesInv, CopiesAgree, Summary
<1>2. QED
  BY <1>1, InvariantHolds, PTL

\* For the same: the best result of any trial so far is the one that is
\* published, however trials fail, are retried or are stopped early.
THEOREM BestIsPublished == Spec => []SearchPublishesBest
<1>1. IInv => SearchPublishesBest
  <2> SUFFICES ASSUME IInv, NEW p \in Pairs, NEW t \in Trials, stage[p] = "search",
                      trial[p][t].last # None
               PROVE  file[p] \in Snapshots /\ file[p].score >= trial[p][t].last
    BY DEF SearchPublishesBest
  <2>1. /\ best[p] # None /\ trial[p][t].last <= best[p]
        /\ file[p] \in Snapshots /\ file[p].score = best[p]
    BY DEF IInv, PairInv, BestInv, CopiesInv, AtWork
  <2>2. best[p] \in Nat /\ trial[p][t].last \in Nat
    <3>1. Scores \cup {Invalid} \subseteq Nat
      BY StudyAssumption DEF Invalid
    <3>2. best[p] \in Scores \cup {Invalid, None} /\ trial[p][t] \in TrialStates
      BY DEF IInv, StudyTypeOK
    <3>3. QED
      BY <2>1, <3>1, <3>2 DEF TrialStates
  <2>3. QED
    BY <2>1, <2>2
<1>2. QED
  BY <1>1, InvariantHolds, PTL

\* For the same, a controller that reads while MLflow fails among them: a pair
\* whose name no other pair bears is reported with its last result or the one
\* before, as SUCCEEDED only with its final one, and with none only if it
\* never wrote any.
THEOREM ReportIsLatest == Spec => []ReportedIsLatest
<1>1. IInv => ReportedIsLatest
  BY DEF IInv, PairInv, ReportInv, ReportedIsLatest
<1>2. QED
  BY <1>1, InvariantHolds, PTL
=============================================================================
