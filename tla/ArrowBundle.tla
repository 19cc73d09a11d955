----------------------------- MODULE ArrowBundle -----------------------------
(***************************************************************************)
(* The sequences of one mode on their way through a prepared bundle: the   *)
(* synthetic ones are cut to the wanted length, the exporter               *)
(* (core/data_prep/pipeline.py) writes them as flat record batches of      *)
(* bounded size, and ArrowSequenceDataset (benchmark_utils/                *)
(* arrow_runtime.py) finds every sequence again in the mapped files from   *)
(* its length and the number of features alone.                            *)
(*                                                                         *)
(* Sequence s is its number in the source.  Value <<s, t, c>> is column c  *)
(* of its step t, label <<s, t>> that of the step.                         *)
(***************************************************************************)
EXTENDS Concatenation, SequencesExt, FiniteSetsExt

CONSTANTS MaxSource,  \* bound: the sequences of the source
          MaxSteps,   \* bound: the steps of a sequence
          Widths,     \* the numbers of features before and after the scaler
          BatchSize   \* ARROW_EXPORT_TARGET_BATCH_BYTES, in values of four bytes

ASSUME ArrowAssumption ==
  /\ {MaxSource, MaxSteps} \subseteq Nat /\ Widths \subseteq Nat \ {0} /\ BatchSize \in Nat

VARIABLES
  exportAt,    \* "source", "mode", "export", "written", "open", "refused", "raised"
  steps,       \* the steps of each sequence of the source
  wanted,      \* the steps asked for: gen_to_org_factor times the real ones, or All
  inWidth, outWidth,
  rows,        \* the sequences of the mode
  batches,     \* the row batches not written yet
  seqLen, numFeatures,      \* the manifest of the mode
  featureFile, labelFile,   \* their record batches
  place        \* of each sequence resolved: its batch and the steps before it there

sourceVars == <<steps, wanted, inWidth, outWidth>>
manifestVars == <<seqLen, numFeatures, featureFile, labelFile>>
bundleVars == <<exportAt, sourceVars, rows, batches, manifestVars, place>>

All == -1

SumUp(s) == SumOver(s, 1, Len(s))

StepsOf(mode) == SumUp([k \in DOMAIN mode |-> steps[mode[k]]])

Numbers(n) == [k \in 1 .. n |-> k]

ArrowInit ==
  /\ exportAt = "source"
  /\ steps \in UNION {[1 .. n -> 0 .. MaxSteps] : n \in 0 .. MaxSource}
  /\ wanted \in {All} \cup 1 .. MaxSource * MaxSteps
  /\ inWidth \in Widths /\ outWidth \in Widths
  /\ rows = Numbers(Len(steps))
  /\ batches = <<>>
  /\ seqLen = <<>> /\ numFeatures = 0
  /\ featureFile = <<>> /\ labelFile = <<>>
  /\ place = <<>>

----------------------------------------------------------------------------
\* searchsorted(cumsum(lengths), total, side="left") + 1
CutOff(total) ==
  Cardinality({k \in DOMAIN rows : StepsOf(SubSeq(rows, 1, k)) < total}) + 1

Trim ==
  /\ exportAt = "source"
  /\ rows' = IF wanted = All THEN rows
             ELSE SubSeq(rows, 1, Min({CutOff(Min({wanted, StepsOf(rows)})), Len(rows)}))
  /\ exportAt' = "mode"
  /\ UNCHANGED <<sourceVars, batches, manifestVars, place>>

\* What a row takes: its features and a label of eight bytes per step
RowSize(s) == steps[s] * (inWidth + 2)

\* A batch is closed before the row that would make it larger than the target,
\* unless it would be empty.
AddRow(acc, s) ==
  IF acc.last # <<>> /\ acc.size + RowSize(s) > BatchSize
  THEN [done |-> Append(acc.done, acc.last), last |-> <<s>>, size |-> RowSize(s)]
  ELSE [done |-> acc.done, last |-> Append(acc.last, s), size |-> acc.size + RowSize(s)]

\* _iter_arrow_row_batches
RowBatches(mode) ==
  LET walk[k \in 0 .. Len(mode)] ==
        IF k = 0 THEN [done |-> <<>>, last |-> <<>>, size |-> 0] ELSE AddRow(walk[k - 1], mode[k])
  IN  IF mode = <<>> THEN <<>> ELSE Append(walk[Len(mode)].done, walk[Len(mode)].last)

\* make_dataset_split along the batch axis: the mode is one side of a cut.
Split ==
  /\ exportAt = "mode"
  /\ \E cut \in 0 .. Len(rows) :
       rows' \in {SubSeq(rows, 1, cut), SubSeq(rows, cut + 1, Len(rows))}
  /\ batches' = RowBatches(rows')
  /\ exportAt' = "export"
  /\ UNCHANGED <<sourceVars, manifestVars, place>>

Values(s, width) ==
  [k \in 1 .. steps[s] * width |-> <<s, (k - 1) \div width + 1, ((k - 1) % width) + 1>>]

Labels(s) == [t \in 1 .. steps[s] |-> <<s, t>>]

\* The width of a batch without any step is that of its rows before the scaler.
WidthOf(batch) == IF StepsOf(batch) = 0 THEN inWidth ELSE outWidth

WriteBatch(batch) ==
  /\ seqLen' = seqLen \o [k \in DOMAIN batch |-> steps[batch[k]]]
  /\ numFeatures' = WidthOf(batch)
  /\ featureFile' = Append(featureFile, Concat([k \in DOMAIN batch |-> Values(batch[k], outWidth)]))
  /\ labelFile' = Append(labelFile, Concat([k \in DOMAIN batch |-> Labels(batch[k])]))

Export ==
  /\ exportAt = "export"
  /\ \/ /\ batches = <<>>
        /\ exportAt' = "written"
        /\ UNCHANGED <<batches, manifestVars>>
     \/ /\ batches # <<>>
        /\ featureFile # <<>> /\ numFeatures # WidthOf(Head(batches))
        /\ exportAt' = "raised"
        /\ UNCHANGED <<batches, manifestVars>>
     \/ /\ batches # <<>>
        /\ featureFile = <<>> \/ numFeatures = WidthOf(Head(batches))
        /\ WriteBatch(Head(batches))
        /\ batches' = Tail(batches)
        /\ UNCHANGED exportAt
  /\ UNCHANGED <<sourceVars, rows, place>>

----------------------------------------------------------------------------
SumOfLengths(from, to) == SumOver(seqLen, from, to)

\* Of _resolve_sequence_batches: the n sequences after the cursor fit into
\* batch b, features and labels.
Fits(cursor, n, b) ==
  /\ SumOfLengths(cursor + 1, cursor + n) * numFeatures <= Len(featureFile[b])
  /\ SumOfLengths(cursor + 1, cursor + n) <= Len(labelFile[b])

\* As many sequences as fit are taken to be in the batch.
Taken(cursor, b) == Max({n \in 0 .. Len(seqLen) - cursor : Fits(cursor, n, b)})

\* How many sequences have their place after each batch
Cursor ==
  LET cursor[b \in 0 .. Len(featureFile)] ==
        IF b = 0 THEN 0 ELSE cursor[b - 1] + Taken(cursor[b - 1], b)
  IN  cursor

\* Every batch is used up by the sequences taken to be in it.
BatchIsFull(b) ==
  LET total == SumOfLengths(Cursor[b - 1] + 1, Cursor[b])
  IN  total * numFeatures = Len(featureFile[b]) /\ total = Len(labelFile[b])

\* Mutant: the places go on counting from one batch to the next.
BeforeInAll(k, b) == SumOfLengths(1, k - 1)

\* The steps before the k-th sequence in its batch b
Before(k, b) == SumOfLengths(Cursor[b - 1] + 1, k - 1)

Resolved ==
  [k \in DOMAIN seqLen |->
     LET b == CHOOSE i \in DOMAIN featureFile : Cursor[i - 1] < k /\ k <= Cursor[i]
     IN  [batch |-> b, before |-> Before(k, b)]]

\* _load_primitive_arrow_column refuses a file without record batches.
Loads == featureFile # <<>> /\ labelFile # <<>>

Open ==
  /\ exportAt = "written"
  /\ IF Loads /\ (\A b \in DOMAIN featureFile : BatchIsFull(b))
        /\ Cursor[Len(featureFile)] = Len(seqLen)
     THEN exportAt' = "open" /\ place' = Resolved
     ELSE exportAt' = "refused" /\ UNCHANGED place
  /\ UNCHANGED <<sourceVars, rows, batches, manifestVars>>

\* A pickled dataset takes along where the sequences are, but opens the files
\* again at its first use.
Pickle ==
  /\ exportAt = "open"
  /\ exportAt' = "written"
  /\ UNCHANGED <<sourceVars, rows, batches, manifestVars, place>>

\* array[first:first + count], cut off at the end of the array
Cut(array, first, count) == SubSeq(array, first + 1, Min({first + count, Len(array)}))

\* __getitem__
FeaturesOf(k) ==
  Cut(featureFile[place[k].batch], place[k].before * numFeatures, seqLen[k] * numFeatures)

LabelsOf(k) == Cut(labelFile[place[k].batch], place[k].before, seqLen[k])

ArrowNext == Trim \/ Split \/ Export \/ Open \/ Pickle

ArrowSpec == ArrowInit /\ [][ArrowNext]_bundleVars

----------------------------------------------------------------------------
\* The synthetic sequences are cut to as few as have the wanted steps, or as
\* all have.  A mode that opens reads back every one of its sequences,
\* wherever the batches divide them; one that does not open has none; and an
\* export raises only if it mixes sequences without a step with a scaler that
\* changes the number of features.
BundleHoldsSource ==
  /\ exportAt = "mode" =>
       /\ StepsOf(rows) = SumUp(steps) \/ (wanted # All /\ StepsOf(rows) >= wanted)
       /\ wanted > 0 /\ rows # <<>> => StepsOf(Front(rows)) < wanted
  /\ exportAt = "open" =>
       \A k \in DOMAIN rows :
         /\ FeaturesOf(k) = Values(rows[k], outWidth)
         /\ LabelsOf(k) = Labels(rows[k])
  /\ exportAt = "refused" => rows = <<>>
  /\ exportAt = "raised" => inWidth # outWidth /\ \E s \in ToSet(rows) : steps[s] = 0
=============================================================================
