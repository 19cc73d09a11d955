---------------------------- MODULE RowAlignment ----------------------------
(***************************************************************************)
(* How BenchmarkModel puts the scores of a prediction beside the labels:   *)
(* the scores of all sequences come in one piece, the rows of a sequence   *)
(* that no window ends at are padded (or its labels cut), and every        *)
(* sequence gets a separator.  Row r of sequence s is <<s, r>>, which is   *)
(* also the name of its label and of its score.                            *)
(***************************************************************************)
EXTENDS Concatenation, SequencesExt, FiniteSetsExt

CONSTANTS MaxSequences, \* bound: how many sequences are predicted
          MaxLength,    \* bound: the rows of a sequence
          MaxHorizon    \* bound: the prediction horizon

ASSUME AlignmentAssumption == {MaxSequences, MaxLength, MaxHorizon} \subseteq Nat \ {0}

VARIABLES rowsAt,    \* "scored", "padded", "separated"
          lengths,   \* the rows of each sequence
          offset,    \* the rows without a score: [start, end]
          full,      \* use_full_seq_prediction
          rowScores, \* the scores in one piece
          rowLabels  \* the labels in one piece

alignVars == <<rowsAt, lengths, offset, full, rowScores, rowLabels>>

Rows(s, from, to) == [k \in 1 .. to - from + 1 |-> <<s, from + k - 1>>]

\* The rows of all sequences, and those of them that have a score
AllRows == Concat([s \in DOMAIN lengths |-> Rows(s, 1, lengths[s])])

RowsWithScore ==
  Concat([s \in DOMAIN lengths |-> Rows(s, offset.start + 1, lengths[s] - offset.end)])

NoScore == <<0, 0>> \* -inf
NoLabel == <<0, 1>> \* the label of a separator, 0

\* seq_len, once the rows without a score are taken off
ScoredLength(s) == lengths[s] - offset.start - offset.end

AlignInit ==
  /\ rowsAt = "scored"
  /\ lengths \in UNION {[1 .. n -> 1 .. MaxLength] : n \in 1 .. MaxSequences}
  /\ \E window \in 1 .. MaxLength, horizon \in 0 .. MaxHorizon, labelOffset \in 0 .. 1 :
       offset = [start |-> window + horizon - 1 + labelOffset, end |-> Max({0, horizon - 1})]
  /\ full \in BOOLEAN
  /\ \A s \in DOMAIN lengths : ScoredLength(s) >= 0
  /\ rowScores = RowsWithScore
  /\ rowLabels = AllRows

----------------------------------------------------------------------------
Count == Len(lengths)

\* The place, from 0, at which the sequence after the s-th begins in the scores
Boundary(s) == SumOver([k \in 1 .. Count |-> ScoredLength(k)], 1, s)

\* bucketize(pos, boundaries[:-1], right=False): how many boundaries are less
Bucket(pos) == Cardinality({s \in 1 .. Count - 1 : Boundary(s) < pos})

\* Mutant: no room is made for what was appended to earlier sequences.
OutPosPrefixed(pos) == pos + offset.start * (Bucket(pos) + 1)

OutPos(pos) == pos + offset.start * (Bucket(pos) + 1) + offset.end * Bucket(pos)

PadEachSubsequence ==
  IF offset.start = 0 /\ offset.end = 0 THEN rowScores
  ELSE [place \in 1 .. Len(rowScores) + Count * (offset.start + offset.end) |->
          LET from == {i \in DOMAIN rowScores : OutPos(i - 1) + 1 = place}
          IN  IF from = {} THEN NoScore ELSE rowScores[Max(from)]]

\* With full sequences the scores are padded, otherwise the labels are cut.
Pad ==
  /\ rowsAt = "scored"
  /\ IF full
     THEN rowScores' = PadEachSubsequence /\ UNCHANGED rowLabels
     ELSE /\ rowLabels' = RowsWithScore
          /\ UNCHANGED rowScores
  /\ rowsAt' = "padded"
  /\ UNCHANGED <<lengths, offset, full>>

\* insert_before_subsequences: one slice before the len[s] slices of each s
InsertBefore(x, len, value) ==
  LET end(s) == SumOver(len, 1, s)
  IN  Concat([s \in DOMAIN len |-> <<value>> \o SubSeq(x, end(s - 1) + 1, end(s))])

Separate ==
  /\ rowsAt = "padded"
  /\ LET len == [s \in DOMAIN lengths |-> IF full THEN lengths[s] ELSE ScoredLength(s)]
     IN  /\ rowScores' = InsertBefore(rowScores, len, NoScore)
         /\ rowLabels' = InsertBefore(rowLabels, len, NoLabel)
  /\ rowsAt' = "separated"
  /\ UNCHANGED <<lengths, offset, full>>

AlignNext == Pad \/ Separate

AlignSpec == AlignInit /\ [][AlignNext]_alignVars

----------------------------------------------------------------------------
Scored == {row \in ToSet(rowScores) : row # NoScore}
PlaceOf(row) == CHOOSE k \in DOMAIN rowScores : rowScores[k] = row

\* The first score of a sequence that is not the first
Follows(row) == row[1] > 1 /\ row[2] = offset.start + 1

\* As pad_each_subsequence promises, the scores keep to their own rows.
ScoresBesideLabels ==
  rowsAt = "separated" => \A row \in Scored : rowLabels[PlaceOf(row)] = row

\* No score is lost, scores and labels stay as long as each other, and every
\* score stands beside the label of its row, except that the first score of a
\* later sequence ends up among the padding, before its own row.
OnlyFirstScoresStray ==
  rowsAt = "separated" =>
    /\ Len(rowScores) = Len(rowLabels)
    /\ Scored = UNION {ToSet(Rows(s, offset.start + 1, lengths[s] - offset.end)) : s \in DOMAIN lengths}
    /\ \A row \in Scored :
         \/ rowLabels[PlaceOf(row)] = row
         \/ /\ full
            /\ Follows(row)
            /\ \E k \in DOMAIN rowLabels : rowLabels[k] = row /\ PlaceOf(row) < k
=============================================================================
