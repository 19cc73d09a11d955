-------------------------- MODULE PredictionStream --------------------------
(***************************************************************************)
(* The streaming policies of core/benchmark_utils/prediction_stream.py:    *)
(* windows arrive in batches, the policy keeps as few rows as it can and   *)
(* calls the detector on pieces of the series.  What the detector would    *)
(* have said of the whole series is what it has to return.                 *)
(*                                                                         *)
(* A row is named by its place in the series, 0, 1, ...; a score is what   *)
(* the detector saw when it gave it.  The detectors are external: a window *)
(* policy's scores every window by itself, a causal one the window that    *)
(* ends at a row (filled up with the first row it got), PaAno pools the    *)
(* patches over a row, CATCH flattens the scores of all windows and keeps  *)
(* the last ones.                                                          *)
(***************************************************************************)
EXTENDS Integers, SequencesExt, FiniteSetsExt

CONSTANTS Policies, \* [kind, window, stride, chunk]: the policies and their sizes
          MaxRows,  \* bound: the rows of a series
          MaxBatch  \* bound: the rows of a batch

\* The code checks that the sizes are positive, not that patches leave no gap.
ASSUME PoliciesAssumption ==
  \A p \in Policies : /\ p.kind \in {"atomic", "causal", "patch", "catch"}
                      /\ {p.window, p.stride, p.chunk} \subseteq Nat \ {0}
                      /\ p.stride <= p.window

VARIABLES stream,  \* "open", "update", "finish", "closed", "raised"
          policy,
          given,   \* how many rows have arrived
          pending, \* the batches of windows not scored yet (atomic)
          pendingCount,  \* how many windows those are
          drawn,   \* the windows taken from them for the next chunk
          buffer,  \* the rows kept, from row buffer.start on (the others)
          emitted, \* how many rows (catch: retained windows) are scored
          scores   \* the scores emitted so far

pendingVars == <<pending, pendingCount, drawn>>
streamVars == <<stream, policy, given, pendingVars, buffer, emitted, scores>>

NoBuffer == [start |-> 0, rows |-> <<>>]

StreamInit ==
  /\ stream = "open"
  /\ policy \in Policies
  /\ given = 0 /\ emitted = 0
  /\ pending = <<>> /\ pendingCount = 0 /\ drawn = <<>>
  /\ scores = <<>>
  /\ buffer = NoBuffer

----------------------------------------------------------------------------
(* The rows a policy buffers                                               *)
End(b) == b.start + Len(b.rows)

Holds(b, from, to) == b.rows # <<>> /\ b.start <= from /\ from <= to /\ to <= End(b)

Slice(b, from, to) == SubSeq(b.rows, from - b.start + 1, to - b.start)

DropBefore(b, from) ==
  IF b.rows = <<>> \/ from <= b.start THEN b
  ELSE [start |-> from, rows |-> SubSeq(b.rows, from - b.start + 1, Len(b.rows))]

----------------------------------------------------------------------------
(* The detectors                                                           *)
Windows(rows, w) == [k \in 1 .. Len(rows) - w + 1 |-> SubSeq(rows, k, k + w - 1)]

Causal(rows, w) ==
  [i \in 1 .. Len(rows) |-> [k \in 1 .. w |-> rows[Max({1, i - w + k})]]]

\* A series shorter than a patch is filled up with its first row.
Pooled(rows, p, stride) ==
  LET filled == [k \in 1 .. p - Len(rows) |-> rows[1]] \o rows
      starts == {s \in 0 .. Len(filled) - p : s % stride = 0}
  IN  [i \in 1 .. Len(rows) |->
         {SubSeq(filled, s + 1, s + p) : s \in {s \in starts : s < i /\ i <= s + p}}]

\* The scores of windows of w rows, one for each row, one window after another
Flat(windows, w) ==
  [m \in 1 .. Len(windows) * w |-> <<windows[(m - 1) \div w + 1], ((m - 1) % w) + 1>>]

\* _align_scores: the last length scores, -inf in front if there are fewer
Aligned(flat, length) ==
  [i \in 1 .. length |->
     LET k == Len(flat) - length + i IN IF k >= 1 THEN flat[k] ELSE "-inf"]

Detector(rows) ==
  CASE policy.kind = "atomic" -> rows
    [] policy.kind = "causal" -> Causal(rows, policy.window)
    [] policy.kind = "patch"  -> IF rows = <<>> THEN <<>> ELSE Pooled(rows, policy.window, policy.stride)
    [] policy.kind = "catch"  -> Aligned(Flat(Windows(rows, policy.window), policy.window), Len(rows))

----------------------------------------------------------------------------
(* CATCH keeps the rows from which the tail of the flat scores is made.    *)
WindowCount(rows) == rows - policy.window + 1
TailStart(rows) == WindowCount(rows) * policy.window - rows
FirstWindow(rows) == TailStart(rows) \div policy.window

Arrived(n) == [k \in 1 .. n |-> given + k - 1]

\* PredictionStreamState.add, as far as the loop that emits scores
Add(n) ==
  /\ stream = "open"
  /\ given + n <= MaxRows
  /\ given' = given + n
  /\ IF policy.kind = "atomic"
     THEN /\ pending' = Append(pending, Arrived(n))
          /\ pendingCount' = pendingCount + n
          /\ UNCHANGED <<drawn, buffer>>
     ELSE /\ LET b == [start |-> buffer.start, rows |-> buffer.rows \o Arrived(n)]
             IN  buffer' = IF policy.kind = "catch" /\ given + n >= policy.window
                           THEN DropBefore(b, FirstWindow(given + n)) ELSE b
          /\ UNCHANGED pendingVars
  /\ stream' = "update"
  /\ UNCHANGED <<policy, emitted, scores>>

Finalize ==
  /\ stream = "open"
  /\ stream' = "finish"
  /\ UNCHANGED <<policy, given, pendingVars, buffer, emitted, scores>>

----------------------------------------------------------------------------
(* One turn of the loops that emit scores: up to which row, from which     *)
(* rows the detector is to score them, and which rows are kept.            *)
Final == stream = "finish"

CausalTurn ==
  LET to == IF Final THEN given ELSE emitted + policy.chunk
  IN  [to |-> to, ready |-> emitted < to /\ to <= given,
       from |-> Max({0, emitted - policy.window + 1}), until |-> to,
       keep |-> Max({0, to - policy.window + 1})]

AlignedPatchStart(row) ==
  (Max({0, row - policy.window + 1}) \div policy.stride) * policy.stride

PatchRegionEnd(to) ==
  Min({End(buffer), ((to - 1) \div policy.stride) * policy.stride + policy.window})

\* Mutant: scores are given as soon as their row has arrived.
PatchTurnEager ==
  LET to == IF Final THEN given ELSE emitted + policy.chunk
  IN  [to |-> to, ready |-> emitted < to /\ to <= given,
       from |-> AlignedPatchStart(emitted),
       until |-> IF Final THEN given ELSE PatchRegionEnd(to),
       keep |-> AlignedPatchStart(to)]

\* Rows are scored once no later patch can cover them.
PatchTurn ==
  LET stable == IF Final THEN given ELSE Max({emitted, given - (policy.window - 1)})
      to     == IF Final THEN stable ELSE emitted + policy.chunk
  IN  [to |-> to, ready |-> emitted < to /\ to <= stable,
       from |-> AlignedPatchStart(emitted),
       until |-> IF Final THEN given ELSE PatchRegionEnd(to),
       keep |-> AlignedPatchStart(to)]

Turn == IF policy.kind = "causal" THEN CausalTurn ELSE PatchTurn

EmitRows ==
  /\ stream \in {"update", "finish"}
  /\ policy.kind \in {"causal", "patch"}
  /\ Turn.ready
  /\ IF Holds(buffer, Turn.from, Turn.until)
     THEN LET seen == Detector(Slice(buffer, Turn.from, Turn.until))
          IN  /\ scores' = scores \o SubSeq(seen, emitted - Turn.from + 1, Turn.to - Turn.from)
              /\ emitted' = Turn.to
              /\ buffer' = DropBefore(buffer, Turn.keep)
              /\ UNCHANGED stream
     ELSE stream' = "raised" /\ UNCHANGED <<scores, emitted, buffer>>
  /\ UNCHANGED <<policy, given, pendingVars>>

ChunkSize == IF Final THEN pendingCount ELSE policy.chunk
WindowsReady == pendingCount > 0 /\ pendingCount >= ChunkSize

\* _take_from_tensor_list, one batch: what is too much of it stays in front
TakeBatch ==
  /\ stream \in {"update", "finish"}
  /\ policy.kind = "atomic"
  /\ WindowsReady
  /\ Len(drawn) < ChunkSize
  /\ IF pending = <<>>
     THEN stream' = "raised" /\ UNCHANGED pendingVars
     ELSE LET batch == Head(pending)
              left  == ChunkSize - Len(drawn)
          IN  /\ drawn' = drawn \o (IF Len(batch) <= left THEN batch ELSE SubSeq(batch, 1, left))
              /\ pending' = IF Len(batch) <= left THEN Tail(pending)
                            ELSE <<SubSeq(batch, left + 1, Len(batch))>> \o Tail(pending)
              /\ UNCHANGED <<stream, pendingCount>>
  /\ UNCHANGED <<policy, given, buffer, emitted, scores>>

EmitWindows ==
  /\ stream \in {"update", "finish"}
  /\ policy.kind = "atomic"
  /\ WindowsReady
  /\ Len(drawn) = ChunkSize
  /\ scores' = scores \o Detector(drawn)
  /\ pendingCount' = pendingCount - Len(drawn)
  /\ drawn' = <<>>
  /\ UNCHANGED <<stream, policy, given, pending, buffer, emitted>>

\* _score_retained_windows: CATCH scores nothing before the end.
LongEnough == given >= policy.window
Retained == WindowCount(given) - FirstWindow(given)
WindowsLeft == policy.kind = "catch" /\ Final /\ LongEnough /\ emitted < Retained

EmitTail ==
  /\ WindowsLeft
  /\ LET kept  == DropBefore(buffer, FirstWindow(given))
         count == Min({policy.chunk, Retained - emitted})
         from  == kept.start + emitted
         until == from + count + policy.window - 1
     IN  IF buffer.start <= FirstWindow(given) /\ Holds(kept, from, until)
         THEN /\ scores' = scores \o Flat(Windows(Slice(kept, from, until), policy.window), policy.window)
              /\ emitted' = emitted + count
              /\ buffer' = kept
              /\ UNCHANGED stream
         ELSE stream' = "raised" /\ UNCHANGED <<scores, emitted, buffer>>
  /\ UNCHANGED <<policy, given, pendingVars>>

Idle == CASE policy.kind = "atomic" -> ~ WindowsReady
          [] policy.kind = "catch"  -> ~ WindowsLeft
          [] OTHER                  -> ~ Turn.ready

UpdateReturns ==
  /\ stream = "update"
  /\ Idle
  /\ stream' = "open"
  /\ UNCHANGED <<policy, given, pendingVars, buffer, emitted, scores>>

\* finish returns: CATCH cuts its tail out; then the stream is closed.
FinishReturns ==
  /\ stream = "finish"
  /\ Idle
  /\ scores' = IF policy.kind # "catch" THEN scores
               ELSE IF ~ LongEnough THEN [i \in 1 .. given |-> "-inf"]
               ELSE LET skip == TailStart(given) % policy.window
                    IN  SubSeq(scores, skip + 1, skip + given)
  /\ stream' = "closed"
  /\ pending' = <<>> /\ pendingCount' = 0 /\ buffer' = NoBuffer /\ emitted' = 0
  /\ UNCHANGED <<policy, given, drawn>>

StreamNext ==
  \/ \E n \in 1 .. MaxBatch : Add(n)
  \/ Finalize \/ EmitRows \/ TakeBatch \/ EmitWindows \/ EmitTail \/ UpdateReturns \/ FinishReturns

StreamSpec == StreamInit /\ [][StreamNext]_streamVars

----------------------------------------------------------------------------
Series == [k \in 1 .. given |-> k - 1]

\* However the series is cut into batches and chunks, no slice is taken
\* outside the buffer and the scores are those of one call of the detector on
\* the whole series; those given early are not changed by rows that come later.
StreamEqualsWhole ==
  /\ stream # "raised"
  /\ stream = "closed" => scores = Detector(Series)

=============================================================================
