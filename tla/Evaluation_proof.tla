--------------------------- MODULE Evaluation_proof ---------------------------
(***************************************************************************)
(* Theorems about the evaluation of a prediction.  The scores of a session *)
(* are those of the whole series, for every policy, chunk size and length  *)
(* of the updates.  The alarms are the events the postprocessing promises, *)
(* for every length of a sequence, every score and every configuration.    *)
(* Beside the labels, the scores keep their rows, for any sequences,       *)
(* windows, horizons and label offsets.                                    *)
(***************************************************************************)
EXTENDS PredictionStream, EventPostprocessing, RowAlignment, Concatenation_proof

----------------------------------------------------------------------------
(* The first n rows of the series, as one call of the detector sees them   *)
First(n) == [k \in 1 .. n |-> k - 1]

Going == {"open", "update", "finish"}

PolicyKinds == {"atomic", "causal", "patch", "catch"}

\* The rows from "from" on, up to but without "to", in their order
InOrder(rows, from, to) ==
  /\ rows \in Seq(Int) /\ Len(rows) = to - from
  /\ \A k \in 1 .. Len(rows) : rows[k] = from + k - 1

\* Where the k-th batch begins if the first one begins at "from": each of them
\* behind the one before it
Begin(batches, from, k) ==
  IF k = 1 THEN from ELSE batches[k - 1][Len(batches[k - 1])] + 1

\* Batches one behind another, from "from" up to but without "to"
Lined(batches, from, to) ==
  /\ batches \in Seq(Seq(Int))
  /\ \A k \in 1 .. Len(batches) :
       /\ batches[k] # <<>>
       /\ InOrder(batches[k], Begin(batches, from, k), Begin(batches, from, k) + Len(batches[k]))
  /\ Begin(batches, from, Len(batches) + 1) = to

\* What is scored, what is taken for the next chunk and what waits are the
\* rows given, in this order.
AtomicInv ==
  /\ pendingCount \in Nat /\ pendingCount = given - Len(scores)
  /\ InOrder(scores, 0, Len(scores))
  /\ InOrder(drawn, Len(scores), Len(scores) + Len(drawn))
  /\ Lined(pending, Len(scores) + Len(drawn), given)
  /\ stream = "open" => drawn = <<>>
  /\ drawn # <<>> => WindowsReady /\ Len(drawn) <= ChunkSize

Buffered == InOrder(buffer.rows, buffer.start, given) /\ buffer.start \in Nat

\* What has been scored is what the detector says of the rows given so far.
CausalInv ==
  /\ Buffered
  /\ Listed(scores) /\ Len(scores) = emitted /\ emitted <= given
  /\ \A i \in 1 .. emitted : scores[i] = Causal(First(given), policy.window)[i]
  /\ buffer.start <= Max({0, emitted - policy.window + 1})

\* No later patch covers a row that is scored before the end.
PatchInv ==
  /\ Buffered
  /\ Listed(scores) /\ Len(scores) = emitted /\ emitted <= given
  /\ \A i \in 1 .. emitted : scores[i] = Pooled(First(given), policy.window, policy.stride)[i]
  /\ buffer.start <= AlignedPatchStart(emitted)
  /\ stream # "finish" \/ emitted < given => emitted = 0 \/ emitted + policy.window - 1 <= given

\* The x-th score of a series, flattened
FlatCell(x, w) == <<[j \in 1 .. w |-> ((x - 1) \div w) + j - 1], ((x - 1) % w) + 1>>

\* The rows from which the tail is made are still there; the scores are those
\* of the first retained windows.
CatchInv ==
  /\ Buffered
  /\ given < policy.window => buffer.start = 0
  /\ LongEnough => buffer.start <= FirstWindow(given)
  /\ stream # "finish" => emitted = 0
  /\ emitted = 0 \/ (LongEnough /\ emitted <= Retained)
  /\ Listed(scores) /\ Len(scores) = emitted * policy.window
  /\ \A m \in 1 .. emitted * policy.window :
       scores[m] = FlatCell(FirstWindow(given) * policy.window + m, policy.window)

StreamInv ==
  /\ policy \in Policies
  /\ stream \in Going \cup {"closed"}
  /\ given \in Nat /\ emitted \in Nat
  /\ stream = "closed" => scores = Detector(First(given))
  /\ stream \in Going =>
       /\ policy.kind = "atomic" => AtomicInv
       /\ policy.kind = "causal" => CausalInv
       /\ policy.kind = "patch" => PatchInv
       /\ policy.kind = "catch" => CatchInv

\* What a detector of each kind says of a series
LEMMA DetectorIs ==
  ASSUME NEW rows
  PROVE  /\ policy.kind = "atomic" => Detector(rows) = rows
         /\ policy.kind = "causal" => Detector(rows) = Causal(rows, policy.window)
         /\ policy.kind = "patch" =>
              Detector(rows) = IF rows = <<>> THEN <<>> ELSE Pooled(rows, policy.window, policy.stride)
         /\ policy.kind = "catch" =>
              Detector(rows) = Aligned(Flat(Windows(rows, policy.window), policy.window), Len(rows))
  BY Zenon DEF Detector

\* Rows in their order are a sequence.
LEMMA RowsAreListed ==
  ASSUME NEW rows, NEW from \in Int, NEW to \in Int, InOrder(rows, from, to)
  PROVE  Listed(rows)
<1>1. rows = [k \in 1 .. Len(rows) |-> rows[k]] /\ Len(rows) \in Nat
  BY DEF InOrder
<1> QED
  BY <1>1, ListedFunction

\* The rows of the whole series are in their order,
LEMMA FirstRows ==
  ASSUME NEW n \in Nat
  PROVE  InOrder(First(n), 0, n) /\ Len(First(n)) = n
  BY DEF InOrder, First

\* and nothing else is.
LEMMA RowsUnique ==
  ASSUME NEW n \in Nat, NEW rows, InOrder(rows, 0, n)
  PROVE  rows = First(n)
  BY DEF InOrder, First

\* Rows that follow on rows
LEMMA RowsJoined ==
  ASSUME NEW x \in Int, NEW y \in Int, NEW z \in Int, NEW a, NEW b, InOrder(a, x, y), InOrder(b, y, z)
  PROVE  InOrder(a \o b, x, z)
  BY DEF InOrder

\* Some of the rows, those before and behind them cut off
LEMMA RowsCut ==
  ASSUME NEW x \in Int, NEW y \in Int, NEW rows, InOrder(rows, x, y),
         NEW u \in Int, NEW v \in Int, x <= u, u <= v, v <= y
  PROVE  InOrder(SubSeq(rows, u - x + 1, v - x), u, v)
  BY DEF InOrder

\* The rows of an update follow on those given before it.
LEMMA RowsArrived ==
  ASSUME NEW n \in Nat, given \in Nat
  PROVE  InOrder(Arrived(n), given, given + n)
  BY DEF InOrder, Arrived

\* drop_before keeps the rows from "first" on, in their order.
LEMMA RowsDropped ==
  ASSUME NEW b, NEW e \in Int, b.start \in Nat, InOrder(b.rows, b.start, e), NEW f \in Nat, f <= e
  PROVE  /\ InOrder(DropBefore(b, f).rows, DropBefore(b, f).start, e)
         /\ DropBefore(b, f).start \in Nat
         /\ b.start < e => DropBefore(b, f).start = IF f <= b.start THEN b.start ELSE f
<1>1. CASE b.rows = <<>> \/ f <= b.start
  BY <1>1 DEF DropBefore, InOrder
<1>2. CASE ~ (b.rows = <<>> \/ f <= b.start)
  <2>1. InOrder(SubSeq(b.rows, f - b.start + 1, e - b.start), f, e)
    BY <1>2, RowsCut
  <2>2. Len(b.rows) = e - b.start
    BY DEF InOrder
  <2> QED
    BY <1>2, <2>1, <2>2 DEF DropBefore
<1> QED
  BY <1>1, <1>2

\* A slice of the buffer that it holds is the rows asked for.
LEMMA SliceRows ==
  ASSUME NEW b, NEW e \in Int, b.start \in Nat, InOrder(b.rows, b.start, e),
         NEW u \in Int, NEW v \in Int, b.start <= u, u <= v, v <= e, b.start < e
  PROVE  Holds(b, u, v) /\ InOrder(Slice(b, u, v), u, v)
<1>1. Len(b.rows) = e - b.start /\ b.rows # <<>>
  BY DEF InOrder
<1>2. InOrder(SubSeq(b.rows, u - b.start + 1, v - b.start), u, v)
  BY RowsCut
<1> QED
  BY <1>1, <1>2 DEF Holds, Slice, End

----------------------------------------------------------------------------
\* A causal detector scores every row.
LEMMA CausalLists ==
  ASSUME NEW rows, NEW w, Len(rows) \in Nat
  PROVE  Listed(Causal(rows, w)) /\ Len(Causal(rows, w)) = Len(rows)
<1>1. Causal(rows, w) = [i \in 1 .. Len(rows) |-> Causal(rows, w)[i]]
  BY DEF Causal
<1> QED
  BY <1>1, ListedFunction

\* A causal score depends on the rows of its window alone: a series cut off
\* before that window gives the same one.
LEMMA CausalLocal ==
  ASSUME NEW w \in Nat \ {0}, NEW n \in Nat, NEW from \in Nat, NEW until \in Nat, until <= n,
         NEW rows, InOrder(rows, from, until),
         NEW i \in Nat, from < i, i <= until, from = 0 \/ i - from >= w
  PROVE  Causal(rows, w)[i - from] = Causal(First(n), w)[i]
<1> DEFINE here  == [k \in 1 .. w |-> rows[Max({1, (i - from) - w + k})]]
           whole == [k \in 1 .. w |-> First(n)[Max({1, i - w + k})]]
<1>1. Causal(rows, w)[i - from] = here
  BY DEF Causal, InOrder
<1>2. Causal(First(n), w)[i] = whole
  BY FirstRows DEF Causal
<1>3. ASSUME NEW k \in 1 .. w
      PROVE  rows[Max({1, (i - from) - w + k})] = First(n)[Max({1, i - w + k})]
  <2> DEFINE a == Max({1, (i - from) - w + k})
             b == Max({1, i - w + k})
  <2>1. a = IF 1 >= (i - from) - w + k THEN 1 ELSE (i - from) - w + k
    BY MaxOfTwo
  <2>2. b = IF 1 >= i - w + k THEN 1 ELSE i - w + k
    BY MaxOfTwo
  <2> HIDE DEF a, b
  <2>3. a \in 1 .. until - from /\ b \in 1 .. n /\ from + a - 1 = b - 1
    BY <2>1, <2>2
  <2>4. rows[a] = from + a - 1
    BY <2>3 DEF InOrder
  <2>5. First(n)[b] = b - 1
    BY <2>3 DEF First
  <2>6. rows[a] = First(n)[b]
    BY <2>3, <2>4, <2>5
  <2> QED
    BY <2>6 DEF a, b
<1>4. here = whole
  BY <1>3
<1> QED
  BY <1>1, <1>2, <1>4

\* A patch detector scores every row.
LEMMA PooledLists ==
  ASSUME NEW rows, NEW p, NEW d, Len(rows) \in Nat
  PROVE  Listed(Pooled(rows, p, d)) /\ Len(Pooled(rows, p, d)) = Len(rows)
<1>1. Pooled(rows, p, d) = [i \in 1 .. Len(rows) |-> Pooled(rows, p, d)[i]]
  BY DEF Pooled
<1> QED
  BY <1>1, ListedFunction

\* The patches over row i of a series of n rows
Patches(i, n, p, d) == {[k \in 1 .. p |-> s + k - 1] : s \in {s \in 0 .. n - p : s % d = 0 /\ s < i /\ i <= s + p}}

\* The same, of the rows from "from" on, up to but without "until"
PatchesFrom(i, from, until, p, d) ==
  {[k \in 1 .. p |-> from + s + k - 1] : s \in {s \in 0 .. (until - from) - p :
      s % d = 0 /\ s < i - from /\ i - from <= s + p}}

\* The patches that cover a row, found in a part of the series
LEMMA PooledIs ==
  ASSUME NEW p \in Nat \ {0}, NEW d \in Nat \ {0}, NEW from \in Nat, NEW until \in Nat,
         NEW rows, InOrder(rows, from, until), p <= until - from,
         NEW i \in Nat, from < i, i <= until
  PROVE  Pooled(rows, p, d)[i - from] = PatchesFrom(i, from, until, p, d)
<1> DEFINE filled == [k \in 1 .. p - Len(rows) |-> rows[1]] \o rows
           starts == {s \in 0 .. Len(filled) - p : s % d = 0}
           these  == {s \in starts : s < i - from /\ i - from <= s + p}
           those  == {s \in 0 .. (until - from) - p : s % d = 0 /\ s < i - from /\ i - from <= s + p}
<1>1. rows \in Seq(Int) /\ Len(rows) = until - from /\ i - from \in 1 .. Len(rows)
  BY DEF InOrder
<1>2. filled = rows
  <2>1. [k \in 1 .. p - Len(rows) |-> rows[1]] = <<>>
    BY <1>1
  <2>2. <<>> \o rows = rows
    BY <1>1, ConcatEmptySeq
  <2> QED
    BY <2>1, <2>2
<1>3. Pooled(rows, p, d)[i - from] = {SubSeq(filled, s + 1, s + p) : s \in these}
  BY <1>1 DEF Pooled
<1> HIDE DEF filled
<1>4. these = those
  BY <1>1, <1>2
<1>5. ASSUME NEW s \in those
      PROVE  SubSeq(filled, s + 1, s + p) = [k \in 1 .. p |-> from + s + k - 1]
  <2>1. s \in Nat /\ s + p <= until - from
    OBVIOUS
  <2>2. SubSeq(rows, s + 1, s + p) = [k \in 1 .. p |-> rows[s + k]]
    BY <1>1, <2>1
  <2>3. \A k \in 1 .. p : rows[s + k] = from + s + k - 1
    BY <1>1, <2>1 DEF InOrder
  <2> QED
    BY <1>2, <2>2, <2>3
<1> HIDE DEF these, those
<1> DEFINE Found(s) == SubSeq(filled, s + 1, s + p)
           Meant(s) == [k \in 1 .. p |-> from + s + k - 1]
<1>6. \A s \in those : Found(s) = Meant(s)
  BY <1>5
<1>7. Pooled(rows, p, d)[i - from] = {Found(s) : s \in those}
  BY <1>3, <1>4
<1> HIDE DEF Found, Meant
<1>8. Pooled(rows, p, d)[i - from] = {Meant(s) : s \in those}
  BY <1>6, <1>7
<1> QED
  BY <1>8 DEF Meant, those, PatchesFrom

\* A multiple of d and another number: which of the two is one
LEMMA Multiples ==
  ASSUME NEW d \in Nat \ {0}, NEW a \in Int, a % d = 0, NEW s \in Int
  PROVE  (s % d = 0) <=> ((a + s) % d = 0)
<1> DEFINE q == a \div d
           k == s \div d
           j == (a + s) \div d
<1>1. q \in Int /\ k \in Int /\ j \in Int /\ a = d * q
  BY DivMod
<1>2. s = d * k + (s % d) /\ s % d \in 0 .. d - 1
  BY DivMod
<1>3. a + s = d * j + ((a + s) % d) /\ (a + s) % d \in 0 .. d - 1
  BY DivMod
<1> HIDE DEF q, k, j
<1>4. ASSUME s % d = 0 PROVE (a + s) % d = 0
  <2>1. PICK m \in Int : m = q + k
    BY <1>1
  <2>2. a + s = d * m + 0 /\ a + s \in Int
    BY <1>1, <1>2, <1>4, <2>1
  <2>3. 0 \in 0 .. d - 1
    OBVIOUS
  <2> QED
    BY <2>2, <2>3, DivUnique
<1>5. ASSUME (a + s) % d = 0 PROVE s % d = 0
  <2>1. PICK m \in Int : m = j - q
    BY <1>1
  <2>2. s = d * m + 0
    BY <1>1, <1>3, <1>5, <2>1
  <2>3. 0 \in 0 .. d - 1
    OBVIOUS
  <2> QED
    BY <2>2, <2>3, DivUnique
<1> QED
  BY <1>4, <1>5

\* The patches over row i begin and end among these rows.
Within(i, n, p, d, from, until) ==
  \A s \in 0 .. n - p : s % d = 0 /\ s < i /\ i <= s + p => from <= s /\ s + p <= until

\* A part of the series that begins at a multiple of the stride and holds all
\* patches of a row gives the same score as the whole series.
LEMMA PooledLocal ==
  ASSUME NEW p \in Nat \ {0}, NEW d \in Nat \ {0}, NEW n \in Nat, NEW from \in Nat, NEW until \in Nat,
         until <= n, NEW rows, InOrder(rows, from, until), p <= until - from, from % d = 0,
         NEW i \in Nat, from < i, i <= until,
         Within(i, n, p, d, from, until)
  PROVE  Pooled(rows, p, d)[i - from] = Patches(i, n, p, d)
<1> DEFINE those == {s \in 0 .. (until - from) - p : s % d = 0 /\ s < i - from /\ i - from <= s + p}
           all   == {s \in 0 .. n - p : s % d = 0 /\ s < i /\ i <= s + p}
           run(s) == [k \in 1 .. p |-> s + k - 1]
<1>1. Pooled(rows, p, d)[i - from] = {[k \in 1 .. p |-> from + s + k - 1] : s \in those}
  <2>1. Pooled(rows, p, d)[i - from] = PatchesFrom(i, from, until, p, d)
    BY PooledIs
  <2> QED
    BY <2>1 DEF PatchesFrom
<1>2. ASSUME NEW s \in those PROVE from + s \in all
  <2>1. s \in Int /\ s % d = 0 /\ 0 <= s /\ s + p <= until - from /\ s < i - from /\ i - from <= s + p
    OBVIOUS
  <2>2. from \in Int
    OBVIOUS
  <2>3. (from + s) % d = 0
    BY <2>1, <2>2, Multiples
  <2> QED
    BY <2>1, <2>3
<1>3. ASSUME NEW s \in all PROVE s - from \in those
  <2>1. s \in Int /\ s % d = 0 /\ s = from + (s - from) /\ from <= s /\ s + p <= until /\ s < i /\ i <= s + p
    BY DEF Within
  <2>2. PICK r \in Int : r = s - from
    BY <2>1
  <2>3. from \in Int /\ from + r = s
    BY <2>1, <2>2
  <2>4. r % d = 0
    BY <2>1, <2>3, Multiples
  <2> QED
    BY <2>1, <2>2, <2>4
<1>4. ASSUME NEW s \in those PROVE from + s \in Int /\ [k \in 1 .. p |-> from + s + k - 1] = run(from + s)
  OBVIOUS
<1>5. ASSUME NEW s \in all PROVE s - from \in those /\ from + (s - from) = s
  <2>1. s - from \in those
    BY <1>3
  <2>2. from + (s - from) = s
    OBVIOUS
  <2> QED
    BY <2>1, <2>2
<1> HIDE DEF those, all, run
<1> DEFINE shifted(s) == [k \in 1 .. p |-> from + s + k - 1]
<1>6. {shifted(s) : s \in those} = {run(s) : s \in all}
  <2>1. \A s \in those : from + s \in all /\ shifted(s) = run(from + s)
    BY <1>2, <1>4
  <2>2. \A s \in all : \E r \in those : s = from + r
    BY <1>5
  <2> HIDE DEF shifted
  <2> QED
    BY <2>1, <2>2
<1> QED
  BY <1>1, <1>6 DEF Patches, all, run

----------------------------------------------------------------------------
\* What the assumption says of the policy at work
LEMMA PolicyFacts ==
  ASSUME policy \in Policies
  PROVE  /\ policy.kind \in PolicyKinds
         /\ policy.window \in Nat \ {0} /\ policy.stride \in Nat \ {0} /\ policy.chunk \in Nat \ {0}
         /\ policy.stride <= policy.window
  BY PoliciesAssumption DEF PolicyKinds

\* A part of what the detector has seen is put behind the scores.
Continues(new, old, seen, e, from, to) ==
  /\ Listed(new) /\ Len(new) = to
  /\ \A i \in 1 .. e : new[i] = old[i]
  /\ \A i \in e + 1 .. to : new[i] = seen[i - from]

\* Appending a slice of what was seen continues the scores.
LEMMA Continued ==
  ASSUME NEW old, NEW seen, Listed(old), Listed(seen), NEW e \in Nat, NEW from \in Nat, NEW to \in Nat,
         Len(old) = e, from <= e, e <= to, to <= from + Len(seen), Len(seen) \in Nat,
         NEW new, new = old \o SubSeq(seen, e - from + 1, to - from)
  PROVE  Continues(new, old, seen, e, from, to)
<1> DEFINE part == SubSeq(seen, e - from + 1, to - from)
<1>1. Listed(part) /\ Len(part) = to - e
  <2>1. PICK i \in Int, j \in Int : i = e - from + 1 /\ j = to - from
    OBVIOUS
  <2>2. 1 <= i /\ i <= j + 1 /\ j <= Len(seen) /\ j - i + 1 = to - e
    BY <2>1
  <2>3. Listed(SubSeq(seen, i, j)) /\ Len(SubSeq(seen, i, j)) = j - i + 1
    BY <2>2, CutList
  <2> QED
    BY <2>1, <2>2, <2>3
<1>2. \A k \in 1 .. to - e : part[k] = seen[(e - from) + k]
  <2>1. \A k \in 1 .. (to - from) - (e - from + 1) + 1 : part[k] = seen[(e - from + 1) + k - 1]
    BY CutList
  <2>2. ASSUME NEW k \in 1 .. to - e PROVE part[k] = seen[(e - from) + k]
    <3>1. k \in 1 .. (to - from) - (e - from + 1) + 1 /\ (e - from + 1) + k - 1 = (e - from) + k
      OBVIOUS
    <3> HIDE DEF part
    <3> QED
      BY <2>1, <3>1
  <2> QED
    BY <2>2
<1> HIDE DEF part
<1>3. /\ Listed(old \o part) /\ Len(old \o part) = e + (to - e)
      /\ \A i \in 1 .. e : (old \o part)[i] = old[i]
      /\ \A i \in Int : e < i /\ i <= e + (to - e) => (old \o part)[i] = part[i - e]
  BY <1>1, JoinedLists
<1>4. ASSUME NEW i \in e + 1 .. to PROVE (old \o part)[i] = seen[i - from]
  <2>1. (old \o part)[i] = part[i - e]
    <3>1. i \in Int /\ e < i /\ i <= e + (to - e)
      OBVIOUS
    <3> QED
      BY <1>3, <3>1
  <2>2. part[i - e] = seen[i - from]
    <3>1. PICK k \in 1 .. to - e : k = i - e
      OBVIOUS
    <3>2. (e - from) + k = i - from
      BY <3>1
    <3> QED
      BY <1>2, <3>1, <3>2
  <2> QED
    BY <2>1, <2>2
<1> QED
  BY <1>3, <1>4 DEF part, Continues

\* The rows that arrive join those that are kept.
LEMMA Buffering ==
  ASSUME Buffered, given \in Nat, NEW n \in Nat
  PROVE  InOrder(buffer.rows \o Arrived(n), buffer.start, given + n)
  BY RowsArrived, RowsJoined DEF Buffered

\* Rows that arrive change no causal score.
LEMMA AddCausal ==
  ASSUME StreamInv, stream = "open", policy.kind = "causal", NEW n \in Nat \ {0}, Add(n)
  PROVE  CausalInv'
<1>1. /\ given \in Nat /\ emitted \in Nat /\ CausalInv /\ policy \in Policies
  BY DEF StreamInv, Going
<1>2. given' = given + n /\ policy' = policy /\ emitted' = emitted /\ scores' = scores
  BY DEF Add
<1>3. buffer' = [start |-> buffer.start, rows |-> buffer.rows \o Arrived(n)]
  BY DEF Add
<1>4. policy.window \in Nat \ {0}
  BY <1>1, PolicyFacts
<1>5. Buffered'
  <2>1. InOrder(buffer.rows \o Arrived(n), buffer.start, given + n) /\ buffer.start \in Nat
    BY <1>1, Buffering DEF CausalInv, Buffered
  <2> QED
    BY <1>2, <1>3, <2>1 DEF Buffered
<1>6. ASSUME NEW i \in 1 .. emitted
      PROVE  scores[i] = Causal(First(given + n), policy.window)[i]
  <2>1. scores[i] = Causal(First(given), policy.window)[i]
    BY <1>1 DEF CausalInv
  <2>2. InOrder(First(given), 0, given) /\ given + n \in Nat /\ i \in Nat /\ 0 < i /\ i <= given /\ i - 0 = i
    BY <1>1, FirstRows DEF CausalInv
  <2>3. Causal(First(given), policy.window)[i - 0] = Causal(First(given + n), policy.window)[i]
    BY <1>1, <1>4, <2>2, CausalLocal
  <2> QED
    BY <2>1, <2>2, <2>3
<1> QED
  BY <1>1, <1>2, <1>3, <1>5, <1>6 DEF CausalInv

\* Rows are emitted: the part of what the detector sees is put behind the
\* scores, and the buffer gives up what is not needed any more.
EmitsTo(from, until, to, keep) ==
  LET seen == Detector(Slice(buffer, from, until))
  IN  /\ scores' = scores \o SubSeq(seen, emitted - from + 1, to - from)
      /\ emitted' = to
      /\ buffer' = DropBefore(buffer, keep)
      /\ stream' = stream /\ policy' = policy /\ given' = given

\* The region a causal detector is shown at a turn is buffered and begins at
\* the first row of the first window it needs.
LEMMA EmitsCausal ==
  ASSUME StreamInv, stream \in {"update", "finish"}, policy.kind = "causal", EmitRows
  PROVE  \E to \in Nat, from \in Nat, keep \in Nat :
           /\ emitted < to /\ to <= given
           /\ from = Max({0, emitted - policy.window + 1})
           /\ keep = Max({0, to - policy.window + 1})
           /\ buffer.start <= from /\ from <= emitted /\ keep <= to
           /\ InOrder(Slice(buffer, from, to), from, to)
           /\ EmitsTo(from, to, to, keep)
<1>1. /\ given \in Nat /\ emitted \in Nat /\ CausalInv /\ policy \in Policies
  BY DEF StreamInv, Going
<1>2. policy.window \in Nat \ {0} /\ policy.chunk \in Nat \ {0}
  BY <1>1, PolicyFacts
<1>3. PICK to \in Nat : to = IF Final THEN given ELSE emitted + policy.chunk
  BY <1>1, <1>2
<1>4. PICK from \in Nat : /\ from = Max({0, emitted - policy.window + 1})
                          /\ from = IF 0 >= emitted - policy.window + 1 THEN 0 ELSE emitted - policy.window + 1
  BY <1>1, <1>2, MaxOfTwo
<1>5. PICK keep \in Nat : /\ keep = Max({0, to - policy.window + 1})
                          /\ keep = IF 0 >= to - policy.window + 1 THEN 0 ELSE to - policy.window + 1
  BY <1>1, <1>2, <1>3, MaxOfTwo
<1>6. /\ Turn.to = to /\ Turn.from = from /\ Turn.until = to /\ Turn.keep = keep
      /\ Turn.ready <=> (emitted < to /\ to <= given)
  BY <1>3, <1>4, <1>5 DEF Turn, CausalTurn
<1>7. emitted < to /\ to <= given
  BY <1>6 DEF EmitRows
<1>8. buffer.start <= from /\ from <= emitted /\ keep <= to
  <2>1. buffer.start <= from
    BY <1>1, <1>4 DEF CausalInv
  <2>2. from <= emitted /\ keep <= to
    <3>1. PICK w \in Nat \ {0} : w = policy.window
      BY <1>2
    <3>2. from = IF 0 >= emitted - w + 1 THEN 0 ELSE emitted - w + 1
      BY <1>4, <3>1
    <3>3. keep = IF 0 >= to - w + 1 THEN 0 ELSE to - w + 1
      BY <1>5, <3>1
    <3> QED
      BY <1>1, <3>2, <3>3
  <2> QED
    BY <2>1, <2>2
<1>9. Holds(buffer, from, to) /\ InOrder(Slice(buffer, from, to), from, to)
  <2>1. buffer.start \in Nat /\ InOrder(buffer.rows, buffer.start, given)
    BY <1>1 DEF CausalInv, Buffered
  <2>2. buffer.start < given /\ from <= to
    BY <1>1, <1>7, <1>8, <2>1
  <2> QED
    BY <1>1, <1>7, <1>8, <2>1, <2>2, SliceRows
<1>10. EmitsTo(from, to, to, keep)
  BY <1>6, <1>9 DEF EmitRows, EmitsTo
<1> QED
  BY <1>3, <1>4, <1>5, <1>7, <1>8, <1>9, <1>10

\* The scores of a turn are those the detector would give of all rows.
LEMMA EmitCausal ==
  ASSUME StreamInv, stream \in {"update", "finish"}, policy.kind = "causal", EmitRows
  PROVE  CausalInv' /\ stream' = stream /\ policy' = policy /\ given' = given /\ emitted' \in Nat
<1>1. /\ given \in Nat /\ emitted \in Nat /\ CausalInv /\ policy \in Policies
  BY DEF StreamInv, Going
<1>2. PICK w \in Nat \ {0} : w = policy.window
  BY <1>1, PolicyFacts
<1>3. PICK to \in Nat, from \in Nat, keep \in Nat :
           /\ emitted < to /\ to <= given
           /\ from = Max({0, emitted - policy.window + 1})
           /\ keep = Max({0, to - policy.window + 1})
           /\ buffer.start <= from /\ from <= emitted /\ keep <= to
           /\ InOrder(Slice(buffer, from, to), from, to)
           /\ EmitsTo(from, to, to, keep)
  BY EmitsCausal
<1>4. PICK old \in Nat : old = emitted
  BY <1>1
<1>5. PICK seen : seen = Causal(Slice(buffer, from, to), w)
  OBVIOUS
<1>6. scores' = scores \o SubSeq(seen, old - from + 1, to - from)
  BY <1>2, <1>3, <1>4, <1>5, DetectorIs DEF EmitsTo
<1>7. emitted' = to /\ buffer' = DropBefore(buffer, keep) /\ stream' = stream /\ policy' = policy /\ given' = given
  BY <1>3 DEF EmitsTo
<1>8. Len(Slice(buffer, from, to)) = to - from /\ to - from \in Nat
  BY <1>1, <1>3 DEF InOrder
<1>9. Listed(seen) /\ Len(seen) = to - from
  BY <1>5, <1>8, CausalLists
<1>10. Listed(scores) /\ Len(scores) = old /\ \A i \in 1 .. old : scores[i] = Causal(First(given), w)[i]
  BY <1>1, <1>2, <1>4 DEF CausalInv
<1>11. /\ Listed(scores') /\ Len(scores') = to
       /\ \A i \in 1 .. old : scores'[i] = scores[i]
       /\ \A i \in old + 1 .. to : scores'[i] = seen[i - from]
  <2>1. from <= old /\ old <= to /\ to <= from + Len(seen) /\ Len(seen) \in Nat
    BY <1>3, <1>4, <1>8, <1>9
  <2>2. Listed(scores) /\ Len(scores) = old /\ Listed(seen)
    BY <1>9, <1>10
  <2>3. PICK new : new = scores'
    OBVIOUS
  <2>4. Continues(new, scores, seen, old, from, to)
    BY <1>6, <2>1, <2>2, <2>3, Continued
  <2> QED
    BY <2>3, <2>4 DEF Continues
<1>12. ASSUME NEW i \in old + 1 .. to PROVE seen[i - from] = Causal(First(given), w)[i]
  <2>1. from = IF 0 >= emitted - w + 1 THEN 0 ELSE emitted - w + 1
    BY <1>1, <1>2, <1>3, MaxOfTwo
  <2>2. i \in Nat /\ from < i /\ i <= to /\ (from = 0 \/ i - from >= w)
    BY <1>3, <1>4, <2>1
  <2>3. PICK region : region = Slice(buffer, from, to)
    OBVIOUS
  <2>4. InOrder(region, from, to) /\ to <= given /\ given \in Nat
    BY <1>1, <1>3, <2>3
  <2>5. Causal(region, w)[i - from] = Causal(First(given), w)[i]
    BY <2>2, <2>4, CausalLocal
  <2> QED
    BY <1>5, <2>3, <2>5
<1>13. \A i \in 1 .. to : scores'[i] = Causal(First(given), w)[i]
  BY <1>10, <1>11, <1>12
<1>14. Buffered' /\ buffer'.start <= keep
  <2>1. buffer.start \in Nat /\ InOrder(buffer.rows, buffer.start, given)
    BY <1>1 DEF CausalInv, Buffered
  <2>2. keep <= given /\ buffer.start < given
    BY <1>1, <1>3, <2>1
  <2>3. /\ InOrder(DropBefore(buffer, keep).rows, DropBefore(buffer, keep).start, given)
        /\ DropBefore(buffer, keep).start \in Nat
        /\ DropBefore(buffer, keep).start = IF keep <= buffer.start THEN buffer.start ELSE keep
    BY <1>1, <2>1, <2>2, RowsDropped
  <2>4. buffer.start <= keep
    <3>1. from = IF 0 >= emitted - w + 1 THEN 0 ELSE emitted - w + 1
      BY <1>1, <1>2, <1>3, MaxOfTwo
    <3>2. keep = IF 0 >= to - w + 1 THEN 0 ELSE to - w + 1
      BY <1>1, <1>2, <1>3, MaxOfTwo
    <3>3. PICK b \in Nat : b = buffer.start
      BY <2>1
    <3>4. b <= from /\ emitted < to /\ emitted \in Nat
      BY <1>1, <1>3, <3>3
    <3>5. b <= keep
      BY <1>2, <3>1, <3>2, <3>4
    <3> QED
      BY <3>3, <3>5
  <2> QED
    BY <1>7, <2>3, <2>4 DEF Buffered
<1>15. CausalInv'
  BY <1>1, <1>2, <1>3, <1>7, <1>11, <1>13, <1>14 DEF CausalInv
<1> QED
  BY <1>7, <1>15

\* Rows that arrive change no score of a row which no later patch covers.
LEMMA AddPatch ==
  ASSUME StreamInv, stream = "open", policy.kind = "patch", NEW n \in Nat \ {0}, Add(n)
  PROVE  PatchInv'
<1>1. /\ given \in Nat /\ emitted \in Nat /\ PatchInv /\ policy \in Policies
  BY DEF StreamInv, Going
<1>2. given' = given + n /\ policy' = policy /\ emitted' = emitted /\ scores' = scores
  BY DEF Add
<1>3. buffer' = [start |-> buffer.start, rows |-> buffer.rows \o Arrived(n)]
  BY DEF Add
<1>4. PICK p \in Nat \ {0}, d \in Nat \ {0} : p = policy.window /\ d = policy.stride
  BY <1>1, PolicyFacts
<1>5. Buffered'
  <2>1. InOrder(buffer.rows \o Arrived(n), buffer.start, given + n) /\ buffer.start \in Nat
    BY <1>1, Buffering DEF PatchInv, Buffered
  <2> QED
    BY <1>2, <1>3, <2>1 DEF Buffered
<1>6. emitted = 0 \/ emitted + p - 1 <= given
  BY <1>1, <1>4 DEF PatchInv
<1>7. ASSUME NEW i \in 1 .. emitted
      PROVE  scores[i] = Pooled(First(given + n), p, d)[i]
  <2>1. scores[i] = Pooled(First(given), p, d)[i]
    BY <1>1, <1>4 DEF PatchInv
  <2>2. /\ i \in Nat /\ 0 < i /\ i <= given /\ i - 0 = i /\ i + p - 1 <= given /\ p <= given - 0
        /\ i <= given + n /\ p <= (given + n) - 0 /\ given <= given + n /\ given + n \in Nat /\ 0 \in Nat
    BY <1>1, <1>4, <1>6 DEF PatchInv
  <2>3. 0 % d = 0
    <3>1. 0 = d * 0 + 0 /\ 0 \in 0 .. d - 1
      OBVIOUS
    <3> QED
      BY <3>1, DivUnique
  <2>4. Within(i, given + n, p, d, 0, given) /\ Within(i, given + n, p, d, 0, given + n)
    BY <1>1, <1>4, <2>2 DEF Within
  <2>6. Pooled(First(given), p, d)[i - 0] = Patches(i, given + n, p, d)
    BY <1>1, <2>2, <2>3, <2>4, FirstRows, PooledLocal
  <2>7. Pooled(First(given + n), p, d)[i - 0] = Patches(i, given + n, p, d)
    BY <1>1, <2>2, <2>3, <2>4, FirstRows, PooledLocal
  <2> QED
    BY <2>1, <2>2, <2>6, <2>7
<1>8. AlignedPatchStart(emitted)' = AlignedPatchStart(emitted)
  BY <1>2 DEF AlignedPatchStart
<1>9. Listed(scores') /\ Len(scores') = emitted' /\ emitted' <= given'
  <2>1. Listed(scores) /\ Len(scores) = emitted /\ emitted <= given
    BY <1>1 DEF PatchInv
  <2>. QED
    BY <1>1, <1>2, <2>1
<1>10. \A i \in 1 .. emitted' : scores'[i] = Pooled(First(given'), policy'.window, policy'.stride)[i]
  BY <1>2, <1>4, <1>7
<1>11. buffer'.start <= AlignedPatchStart(emitted)'
  BY <1>1, <1>3, <1>8 DEF PatchInv
<1>12. stream' # "finish" \/ emitted' < given' => emitted' = 0 \/ emitted' + policy'.window - 1 <= given'
  BY <1>1, <1>2, <1>4, <1>6
<1> QED
  BY <1>5, <1>9, <1>10, <1>11, <1>12 DEF PatchInv

\* x rounded down to a multiple of d
LEMMA RoundedDown ==
  ASSUME NEW d \in Nat \ {0}, NEW x \in Nat, NEW a, a = (x \div d) * d
  PROVE  /\ a \in Nat /\ a % d = 0 /\ a <= x /\ x < a + d
         /\ \A s \in Int : s % d = 0 /\ s <= x => s <= a
<1>1. PICK q \in Int, r \in 0 .. d - 1 : x = d * q + r /\ q = x \div d
  <2>1. x \div d \in Int /\ x % d \in 0 .. d - 1 /\ x = d * (x \div d) + (x % d)
    BY DivMod
  <2> QED
    BY <2>1
<1>2. a = d * q + 0 /\ a \in Int
  BY <1>1
<1>3. 0 \in 0 .. d - 1
  OBVIOUS
<1>4. a % d = 0
  BY <1>2, <1>3, DivUnique
<1>5. q >= 0
  <2>1. SUFFICES ASSUME q <= -1 PROVE FALSE
    BY <1>1
  <2>2. d * q <= d * (-1)
    BY <2>1
  <2> QED
    BY <1>1, <2>2
<1>6. a >= 0 /\ a <= x /\ x < a + d
  BY <1>1, <1>2, <1>5
<1>7. ASSUME NEW s \in Int, s % d = 0, s <= x PROVE s <= a
  <2>1. PICK m \in Int : s = d * m
    <3>1. s \div d \in Int /\ s = d * (s \div d) + (s % d)
      BY DivMod
    <3>2. PICK m \in Int : m = s \div d
      BY <3>1
    <3>3. s = d * m + 0
      BY <1>7, <3>1, <3>2
    <3>4. s = d * m
      BY <3>3
    <3> QED
      BY <3>4
  <2>2. SUFFICES ASSUME m >= q + 1 PROVE FALSE
    <3>1. m <= q => d * m <= d * q
      BY <1>1, <2>1
    <3> QED
      BY <1>1, <1>2, <2>1, <3>1
  <2>3. d * m >= d * (q + 1)
    BY <1>1, <2>1, <2>2
  <2>4. d * (q + 1) = d * q + d
    BY <1>1
  <2> QED
    BY <1>1, <1>7, <2>1, <2>3, <2>4
<1> QED
  BY <1>2, <1>4, <1>6, <1>7

\* _aligned_patch_start is the last multiple of the stride from which no patch
\* before "row" is missing.
LEMMA AlignedStart ==
  ASSUME NEW p \in Nat \ {0}, p = policy.window, NEW d \in Nat \ {0}, d = policy.stride, NEW row \in Nat
  PROVE  /\ AlignedPatchStart(row) \in Nat /\ AlignedPatchStart(row) % d = 0
         /\ AlignedPatchStart(row) <= IF 0 >= row - p + 1 THEN 0 ELSE row - p + 1
         /\ \A s \in Int : s % d = 0 /\ (s <= IF 0 >= row - p + 1 THEN 0 ELSE row - p + 1)
              => s <= AlignedPatchStart(row)
<1>1. PICK x \in Nat : x = Max({0, row - p + 1}) /\ x = IF 0 >= row - p + 1 THEN 0 ELSE row - p + 1
  BY MaxOfTwo
<1>2. PICK a : a = (x \div d) * d
  OBVIOUS
<1>3. AlignedPatchStart(row) = a
  BY <1>1, <1>2 DEF AlignedPatchStart
<1>4. /\ a \in Nat /\ a % d = 0 /\ a <= x
      /\ \A s \in Int : s % d = 0 /\ s <= x => s <= a
  BY <1>2, RoundedDown
<1> QED
  BY <1>1, <1>3, <1>4

\* The rows PaAno is called on: all patches over the rows to be emitted begin
\* and end among them.
Region(p, d, from, until, to) ==
  /\ from % d = 0 /\ to <= until /\ until <= given
  /\ p <= given =>
       /\ p <= until - from
       /\ \A i \in emitted + 1 .. to, s \in 0 .. given - p :
            s % d = 0 /\ s < i /\ i <= s + p => from <= s /\ s + p <= until
  /\ p > given => from = 0 /\ until = given /\ emitted = 0

\* At the end the region reaches to the last row,
LEMMA RegionAtEnd ==
  ASSUME NEW p \in Nat \ {0}, NEW d \in Nat \ {0}, given \in Nat, emitted \in Nat, emitted < given,
         emitted = 0 \/ emitted + p - 1 <= given, NEW from \in Nat, from % d = 0,
         from <= IF 0 >= emitted - p + 1 THEN 0 ELSE emitted - p + 1
  PROVE  Region(p, d, from, given, given)
<1>1. p > given => from = 0 /\ emitted = 0
  OBVIOUS
<1>2. p <= given => p <= given - from
  OBVIOUS
<1>3. ASSUME NEW i \in emitted + 1 .. given, NEW s \in 0 .. given - p, s < i, i <= s + p
      PROVE  from <= s /\ s + p <= given
  BY <1>3
<1> QED
  BY <1>1, <1>2, <1>3 DEF Region

\* before it to the end of the last patch of the last row to be scored.
LEMMA RegionBefore ==
  ASSUME NEW p \in Nat \ {0}, NEW d \in Nat \ {0}, d <= p, given \in Nat, emitted \in Nat,
         NEW to \in Nat, emitted < to, to + p - 1 <= given, NEW from \in Nat, from % d = 0,
         from <= IF 0 >= emitted - p + 1 THEN 0 ELSE emitted - p + 1,
         NEW until, until = (((to - 1) \div d) * d) + p
  PROVE  until \in Nat /\ Region(p, d, from, until, to)
<1>1. PICK x \in Nat : x = to - 1
  OBVIOUS
<1>2. PICK a : a = (x \div d) * d
  OBVIOUS
<1>3. /\ a \in Nat /\ a % d = 0 /\ a <= x /\ x < a + d
      /\ \A s \in Int : s % d = 0 /\ s <= x => s <= a
  BY <1>2, RoundedDown
<1>4. until = a + p
  BY <1>1, <1>2
<1>5. to <= until /\ until <= given /\ p <= given
  BY <1>1, <1>3, <1>4
<1>6. p <= until - from
  <2>1. from <= x /\ from \in Int
    BY <1>1
  <2>2. from <= a
    BY <1>3, <2>1
  <2> QED
    BY <1>3, <1>4, <2>2
<1>7. ASSUME NEW i \in emitted + 1 .. to, NEW s \in 0 .. given - p, s % d = 0, s < i, i <= s + p
      PROVE  from <= s /\ s + p <= until
  <2>1. s <= x /\ s \in Int /\ from <= s
    BY <1>1, <1>7
  <2>2. s <= a
    BY <1>3, <1>7, <2>1
  <2> QED
    BY <1>3, <1>4, <2>1, <2>2
<1> QED
  BY <1>3, <1>4, <1>5, <1>6, <1>7 DEF Region

\* The region a patch detector is shown at a turn is buffered and holds every
\* patch of the rows to be scored.
LEMMA EmitsPatch ==
  ASSUME StreamInv, stream \in {"update", "finish"}, policy.kind = "patch", EmitRows
  PROVE  \E to \in Nat, from \in Nat, until \in Nat, keep \in Nat :
           /\ emitted < to /\ to <= given
           /\ stream = "finish" => to = given
           /\ stream = "update" => to + policy.window - 1 <= given
           /\ from <= emitted
           /\ keep = AlignedPatchStart(to) /\ buffer.start <= keep /\ keep <= to
           /\ Region(policy.window, policy.stride, from, until, to)
           /\ InOrder(Slice(buffer, from, until), from, until)
           /\ EmitsTo(from, until, to, keep)
<1>1. /\ given \in Nat /\ emitted \in Nat /\ PatchInv /\ policy \in Policies
  BY DEF StreamInv, Going
<1>2. PICK p \in Nat \ {0}, d \in Nat \ {0}, c \in Nat \ {0} :
        p = policy.window /\ d = policy.stride /\ c = policy.chunk /\ d <= p
  BY <1>1, PolicyFacts
<1>3. emitted <= given /\ (emitted < given => emitted = 0 \/ emitted + p - 1 <= given)
  BY <1>1, <1>2 DEF PatchInv
<1>4. buffer.start \in Nat /\ InOrder(buffer.rows, buffer.start, given) /\ buffer.start <= AlignedPatchStart(emitted)
  BY <1>1 DEF PatchInv, Buffered
<1>5. End(buffer) = given
  BY <1>1, <1>4 DEF End, InOrder
<1>6. PICK stable \in Nat : /\ stable = IF Final THEN given ELSE Max({emitted, given - (policy.window - 1)})
                            /\ ~ Final => stable = IF emitted >= given - (p - 1) THEN emitted ELSE given - (p - 1)
  <2>1. Max({emitted, given - (policy.window - 1)}) = IF emitted >= given - (p - 1) THEN emitted ELSE given - (p - 1)
    BY <1>1, <1>2, MaxOfTwo
  <2> QED
    BY <1>1, <1>2, <2>1
<1>7. PICK to \in Nat : to = IF Final THEN stable ELSE emitted + policy.chunk
  BY <1>1, <1>2, <1>6
<1>8. PICK from \in Nat : /\ from = AlignedPatchStart(emitted) /\ from % d = 0
                          /\ from <= IF 0 >= emitted - p + 1 THEN 0 ELSE emitted - p + 1
  BY <1>1, <1>2, AlignedStart
<1>9. PICK keep \in Nat : /\ keep = AlignedPatchStart(to) /\ keep % d = 0
                          /\ keep <= IF 0 >= to - p + 1 THEN 0 ELSE to - p + 1
                          /\ \A s \in Int : s % d = 0 /\ (s <= IF 0 >= to - p + 1 THEN 0 ELSE to - p + 1)
                               => s <= keep
  <2>1. /\ AlignedPatchStart(to) \in Nat /\ AlignedPatchStart(to) % d = 0
        /\ AlignedPatchStart(to) <= IF 0 >= to - p + 1 THEN 0 ELSE to - p + 1
        /\ \A s \in Int : s % d = 0 /\ (s <= IF 0 >= to - p + 1 THEN 0 ELSE to - p + 1)
             => s <= AlignedPatchStart(to)
    BY <1>2, <1>7, AlignedStart
  <2> QED
    BY <2>1
<1>10. PICK until : until = IF Final THEN given ELSE PatchRegionEnd(to)
  OBVIOUS
<1>11. /\ Turn.to = to /\ Turn.from = from /\ Turn.until = until /\ Turn.keep = keep
       /\ Turn.ready <=> (emitted < to /\ to <= stable)
  BY <1>6, <1>7, <1>8, <1>9, <1>10 DEF Turn, PatchTurn
<1>12. emitted < to /\ to <= stable
  BY <1>11 DEF EmitRows
<1>13. /\ to <= given
       /\ Final => to = given
       /\ ~ Final => to + p - 1 <= given
  BY <1>1, <1>2, <1>3, <1>6, <1>7, <1>12
<1>14. from <= emitted /\ keep <= to
  BY <1>1, <1>8, <1>9
<1>15. buffer.start <= keep
  <2>1. from \in Int /\ (from <= IF 0 >= to - p + 1 THEN 0 ELSE to - p + 1)
    BY <1>1, <1>8, <1>12
  <2>2. from <= keep
    BY <1>8, <1>9, <2>1
  <2>3. buffer.start <= from
    BY <1>4, <1>8
  <2> QED
    BY <1>4, <2>2, <2>3
<1>16. until \in Nat /\ Region(p, d, from, until, to)
  <2>1. CASE Final
    <3>1. until = given /\ to = given /\ emitted < given /\ (emitted = 0 \/ emitted + p - 1 <= given)
      BY <1>3, <1>10, <1>12, <1>13, <2>1
    <3>2. Region(p, d, from, given, given)
      BY <1>1, <1>8, <3>1, RegionAtEnd
    <3> QED
      BY <1>1, <3>1, <3>2
  <2>2. CASE ~ Final
    <3>1. PICK e : e = (((to - 1) \div d) * d) + p
      OBVIOUS
    <3>2. to + p - 1 <= given
      BY <1>13, <2>2
    <3>3. e \in Nat /\ Region(p, d, from, e, to)
      BY <1>1, <1>2, <1>8, <1>12, <3>1, <3>2, RegionBefore
    <3>4. e <= given
      BY <3>3 DEF Region
    <3>5. PatchRegionEnd(to) = Min({given, e})
      BY <1>2, <1>5, <3>1 DEF PatchRegionEnd
    <3>6. Min({given, e}) = e
      BY <1>1, <3>3, <3>4, MinOfTwo
    <3> QED
      BY <1>10, <2>2, <3>3, <3>5, <3>6
  <2> QED
    BY <2>1, <2>2
<1>17. Holds(buffer, from, until) /\ InOrder(Slice(buffer, from, until), from, until)
  <2>1. buffer.start <= from /\ from <= until /\ until <= given /\ buffer.start < given
    <3>1. buffer.start <= from
      BY <1>4, <1>8
    <3>2. to <= until /\ until <= given
      BY <1>16 DEF Region
    <3> QED
      BY <1>1, <1>4, <1>12, <1>14, <1>16, <3>1, <3>2
  <2> QED
    BY <1>1, <1>4, <1>16, <2>1, SliceRows
<1>18. EmitsTo(from, until, to, keep)
  BY <1>11, <1>17 DEF EmitRows, EmitsTo
<1>19. Final <=> stream = "finish"
  BY DEF Final
<1>20. /\ stream = "finish" => to = given
       /\ stream = "update" => to + policy.window - 1 <= given
  BY <1>2, <1>13, <1>19
<1>21. Region(policy.window, policy.stride, from, until, to)
  BY <1>2, <1>16
<1> QED
  BY <1>7, <1>8, <1>9, <1>12, <1>13, <1>14, <1>15, <1>16, <1>17, <1>18, <1>20, <1>21

\* The scores of a turn are those the detector would give of all rows.
LEMMA EmitPatch ==
  ASSUME StreamInv, stream \in {"update", "finish"}, policy.kind = "patch", EmitRows
  PROVE  PatchInv' /\ stream' = stream /\ policy' = policy /\ given' = given /\ emitted' \in Nat
<1>1. /\ given \in Nat /\ emitted \in Nat /\ PatchInv /\ policy \in Policies
  BY DEF StreamInv, Going
<1>2. PICK p \in Nat \ {0}, d \in Nat \ {0} : p = policy.window /\ d = policy.stride
  BY <1>1, PolicyFacts
<1>3. PICK to \in Nat, from \in Nat, until \in Nat, keep \in Nat :
           /\ emitted < to /\ to <= given
           /\ stream = "finish" => to = given
           /\ stream = "update" => to + policy.window - 1 <= given
           /\ from <= emitted
           /\ keep = AlignedPatchStart(to) /\ buffer.start <= keep /\ keep <= to
           /\ Region(policy.window, policy.stride, from, until, to)
           /\ InOrder(Slice(buffer, from, until), from, until)
           /\ EmitsTo(from, until, to, keep)
  BY EmitsPatch
<1>4. PICK old \in Nat : old = emitted
  BY <1>1
<1>5. PICK region, seen : region = Slice(buffer, from, until) /\ seen = Pooled(region, p, d)
  OBVIOUS
<1>6. Region(p, d, from, until, to) /\ to <= until /\ until <= given
  BY <1>2, <1>3 DEF Region
<1>7. InOrder(region, from, until) /\ Len(region) = until - from /\ until - from \in Nat /\ region # <<>>
  <2>1. InOrder(region, from, until)
    BY <1>3, <1>5
  <2>2. until - from > 0
    BY <1>1, <1>3, <1>6
  <2>3. Len(region) = until - from
    BY <2>1 DEF InOrder
  <2> QED
    BY <2>1, <2>2, <2>3
<1>8. Detector(Slice(buffer, from, until)) = seen
  BY <1>2, <1>5, <1>7, DetectorIs
<1>9. scores' = scores \o SubSeq(seen, old - from + 1, to - from)
  BY <1>3, <1>4, <1>8 DEF EmitsTo
<1>10. emitted' = to /\ buffer' = DropBefore(buffer, keep) /\ stream' = stream /\ policy' = policy /\ given' = given
  BY <1>3 DEF EmitsTo
<1>11. Listed(seen) /\ Len(seen) = until - from
  BY <1>5, <1>7, PooledLists
<1>12. Listed(scores) /\ Len(scores) = old /\ \A i \in 1 .. old : scores[i] = Pooled(First(given), p, d)[i]
  BY <1>1, <1>2, <1>4 DEF PatchInv
<1>13. /\ Listed(scores') /\ Len(scores') = to
       /\ \A i \in 1 .. old : scores'[i] = scores[i]
       /\ \A i \in old + 1 .. to : scores'[i] = seen[i - from]
  <2>1. from <= old /\ old <= to /\ to <= from + Len(seen) /\ Len(seen) \in Nat
    BY <1>3, <1>4, <1>6, <1>7, <1>11
  <2>2. Listed(scores) /\ Len(scores) = old /\ Listed(seen)
    BY <1>11, <1>12
  <2>3. PICK new : new = scores'
    OBVIOUS
  <2>4. Continues(new, scores, seen, old, from, to)
    BY <1>9, <2>1, <2>2, <2>3, Continued
  <2> QED
    BY <2>3, <2>4 DEF Continues
<1>14. ASSUME NEW i \in old + 1 .. to PROVE seen[i - from] = Pooled(First(given), p, d)[i]
  <2>1. i \in Nat /\ from < i /\ i <= until /\ i <= given /\ i \in emitted + 1 .. to
    BY <1>1, <1>3, <1>4, <1>6
  <2>2. CASE p <= given
    <3>1. /\ p <= until - from /\ from % d = 0 /\ until <= given
          /\ Within(i, given, p, d, from, until)
      BY <1>6, <2>1, <2>2 DEF Region, Within
    <3>2. Pooled(region, p, d)[i - from] = Patches(i, given, p, d)
      <4>1. from \in Nat /\ until \in Nat /\ given \in Nat /\ InOrder(region, from, until)
        BY <1>1, <1>7
      <4> QED
        BY <2>1, <3>1, <4>1, PooledLocal
    <3>3. Within(i, given, p, d, 0, given)
      BY <1>1 DEF Within
    <3>4. 0 % d = 0
      <4>1. 0 = d * 0 + 0 /\ 0 \in 0 .. d - 1
        OBVIOUS
      <4> QED
        BY <4>1, DivUnique
    <3>5. /\ InOrder(First(given), 0, given) /\ 0 \in Nat /\ given <= given /\ p <= given - 0
          /\ 0 < i /\ i - 0 = i
      BY <1>1, <2>1, <2>2, FirstRows
    <3>6. Pooled(First(given), p, d)[i - 0] = Patches(i, given, p, d)
      BY <1>1, <2>1, <3>3, <3>4, <3>5, PooledLocal
    <3> QED
      BY <1>5, <3>2, <3>5, <3>6
  <2>3. CASE p > given
    <3>1. from = 0 /\ until = given
      BY <1>6, <2>3 DEF Region
    <3>2. region = First(given)
      BY <1>1, <1>7, <3>1, RowsUnique
    <3> QED
      BY <1>5, <2>1, <3>1, <3>2
  <2> QED
    BY <1>1, <2>2, <2>3
<1>15. \A i \in 1 .. to : scores'[i] = Pooled(First(given), p, d)[i]
  BY <1>12, <1>13, <1>14
<1>16. Buffered' /\ buffer'.start <= keep
  <2>1. buffer.start \in Nat /\ InOrder(buffer.rows, buffer.start, given)
    BY <1>1 DEF PatchInv, Buffered
  <2>2. keep <= given /\ buffer.start < given
    <3>1. from \in Nat /\ buffer.start <= keep /\ keep <= to /\ to <= given
      BY <1>3
    <3>2. buffer.start <= AlignedPatchStart(emitted) /\ AlignedPatchStart(emitted) \in Nat /\ AlignedPatchStart(emitted) <= emitted
      <4>1. buffer.start <= AlignedPatchStart(emitted)
        BY <1>1 DEF PatchInv
      <4>2. PICK a \in Nat : a = AlignedPatchStart(emitted) /\ a <= IF 0 >= emitted - p + 1 THEN 0 ELSE emitted - p + 1
        BY <1>1, <1>2, AlignedStart
      <4>3. a <= emitted
        BY <1>1, <4>2
      <4> QED
        BY <4>1, <4>2, <4>3
    <3> QED
      BY <1>1, <1>3, <2>1, <3>1, <3>2
  <2>3. /\ InOrder(DropBefore(buffer, keep).rows, DropBefore(buffer, keep).start, given)
        /\ DropBefore(buffer, keep).start \in Nat
        /\ DropBefore(buffer, keep).start = IF keep <= buffer.start THEN buffer.start ELSE keep
    BY <1>1, <2>1, <2>2, RowsDropped
  <2> QED
    BY <1>3, <1>10, <2>3 DEF Buffered
<1>17. keep = AlignedPatchStart(emitted)'
  BY <1>3, <1>10 DEF AlignedPatchStart
<1>18. stream' # "finish" \/ to < given => to = 0 \/ to + p - 1 <= given
  BY <1>2, <1>3, <1>10
<1>19. PatchInv'
  BY <1>1, <1>2, <1>3, <1>10, <1>13, <1>15, <1>16, <1>17, <1>18 DEF PatchInv
<1> QED
  BY <1>10, <1>19

\* The k-th window of rows that begin behind the first from
WindowAt(rows, w, from, k) == Windows(rows, w)[k] = [j \in 1 .. w |-> from + k + j - 2]

\* The windows of rows in their order
LEMMA WindowsOf ==
  ASSUME NEW w \in Nat \ {0}, NEW from \in Nat, NEW until \in Nat, NEW rows, InOrder(rows, from, until),
         from + w <= until
  PROVE  /\ Len(Windows(rows, w)) = until - from - w + 1
         /\ \A k \in 1 .. until - from - w + 1 : WindowAt(rows, w, from, k)
<1>1. rows \in Seq(Int) /\ Len(rows) = until - from /\ \A k \in 1 .. Len(rows) : rows[k] = from + k - 1
  BY DEF InOrder
<1>2. PICK n \in Nat : n = until - from - w + 1
  OBVIOUS
<1>3. Windows(rows, w) = [k \in 1 .. n |-> SubSeq(rows, k, k + w - 1)]
  BY <1>1, <1>2 DEF Windows
<1>4. Len(Windows(rows, w)) = n
  BY <1>3
<1>5. ASSUME NEW k \in 1 .. n
      PROVE  SubSeq(rows, k, k + w - 1) = [j \in 1 .. w |-> from + k + j - 2]
  <2>1. k \in Nat /\ 1 <= k /\ k + w - 1 <= Len(rows)
    BY <1>1, <1>2
  <2>2. SubSeq(rows, k, k + w - 1) = [j \in 1 .. w |-> rows[k + j - 1]]
    BY <1>1, <2>1
  <2>3. \A j \in 1 .. w : rows[k + j - 1] = from + k + j - 2
    BY <1>1, <2>1
  <2> QED
    BY <2>2, <2>3
<1>6. ASSUME NEW k \in 1 .. n PROVE WindowAt(rows, w, from, k)
  <2>1. Windows(rows, w)[k] = SubSeq(rows, k, k + w - 1)
    BY <1>3
  <2> QED
    BY <1>5, <2>1 DEF WindowAt
<1> QED
  BY <1>2, <1>4, <1>6

\* The flat scores number the windows times their rows.
LEMMA FlatLists ==
  ASSUME NEW windows, NEW w \in Nat, NEW n \in Nat, Len(windows) = n
  PROVE  n * w \in Nat /\ Listed(Flat(windows, w)) /\ Len(Flat(windows, w)) = n * w
<1>1. n * w \in Nat
  OBVIOUS
<1>2. Flat(windows, w) = [m \in 1 .. n * w |-> Flat(windows, w)[m]]
  BY DEF Flat
<1> QED
  BY <1>1, <1>2, ListedFunction

\* Where a flat score is, seen from the whole series
LEMMA FlatIs ==
  ASSUME NEW w \in Nat \ {0}, NEW from \in Nat, NEW until \in Nat, NEW rows, InOrder(rows, from, until),
         from + w <= until, NEW m \in Nat, 1 <= m, m <= (until - from - w + 1) * w
  PROVE  Flat(Windows(rows, w), w)[m] = FlatCell(from * w + m, w)
<1>1. PICK n \in Nat : n = until - from - w + 1
  OBVIOUS
<1>2. PICK q \in Int, r \in 0 .. w - 1 : m - 1 = w * q + r /\ q = (m - 1) \div w /\ r = (m - 1) % w
  <2>1. PICK k \in Int : k = m - 1
    OBVIOUS
  <2>2. k \div w \in Int /\ k % w \in 0 .. w - 1 /\ k = w * (k \div w) + (k % w)
    BY DivMod
  <2> QED
    BY <2>1, <2>2
<1>3. q \in 0 .. n - 1
  <2>1. SUFFICES ASSUME q < 0 \/ q >= n PROVE FALSE
    BY <1>1, <1>2
  <2>2. CASE q < 0
    <3>1. w * q <= w * (-1)
      BY <2>2, <1>2
    <3> QED
      BY <1>2, <3>1
  <2>3. CASE q >= n
    <3>1. w * q >= w * n
      BY <1>1, <1>2, <2>3
    <3>2. m <= w * n
      BY <1>1
    <3> QED
      BY <1>1, <1>2, <3>1, <3>2
  <2> QED
    BY <2>1, <2>2, <2>3
<1>4. Len(Windows(rows, w)) = n /\ m \in 1 .. n * w
  <2>1. Len(Windows(rows, w)) = until - from - w + 1
    BY WindowsOf
  <2> QED
    BY <1>1, <2>1
<1>5. Flat(Windows(rows, w), w)[m] = <<Windows(rows, w)[q + 1], r + 1>>
  BY <1>2, <1>4 DEF Flat
<1>6. Windows(rows, w)[q + 1] = [j \in 1 .. w |-> from + (q + 1) + j - 2]
  <2>1. PICK k \in 1 .. until - from - w + 1 : k = q + 1
    BY <1>1, <1>3
  <2>2. \A i \in 1 .. until - from - w + 1 : WindowAt(rows, w, from, i)
    BY WindowsOf
  <2>3. Windows(rows, w)[k] = [j \in 1 .. w |-> from + k + j - 2]
    BY <2>2 DEF WindowAt
  <2> QED
    BY <2>1, <2>3
<1>7. ((from * w + m) - 1) \div w = from + q /\ ((from * w + m) - 1) % w = r
  <2>1. PICK x : x = (from * w + m) - 1
    OBVIOUS
  <2>2. PICK k \in Int : k = from + q
    OBVIOUS
  <2>3. x \in Int
    BY <2>1
  <2>4. x = w * k + r
    <3>1. w * k = from * w + w * q
      BY <1>2, <2>2
    <3> QED
      BY <1>2, <2>1, <2>2, <3>1
  <2>5. x \div w = k /\ x % w = r
    BY <2>3, <2>4, DivUnique
  <2> QED
    BY <2>1, <2>2, <2>5
<1>8. [j \in 1 .. w |-> from + (q + 1) + j - 2] = [j \in 1 .. w |-> (from + q) + j - 1]
  BY <1>3
<1> QED
  BY <1>5, <1>6, <1>7, <1>8 DEF FlatCell

\* Where the tail of a series of n rows begins, in windows of w rows
LEMMA TailFacts ==
  ASSUME NEW w \in Nat \ {0}, NEW n \in Nat, w <= n,
         NEW t, t = (n - w + 1) * w - n, NEW f, f = t \div w, NEW skip, skip = t % w
  PROVE  /\ t \in Nat /\ f \in Nat /\ f <= n - w /\ skip \in 0 .. w - 1
         /\ t = w * f + skip
<1>1. PICK a \in Nat : a = n - w
  OBVIOUS
<1>2. t = a * w + w - a - w /\ t \in Int
  BY <1>1
<1>3. a * w >= a
  BY <1>1
<1>4. t \in Nat /\ t = a * w - a
  BY <1>1, <1>2, <1>3
<1>5. f \in Int /\ skip \in 0 .. w - 1 /\ t = w * f + skip
  BY <1>4, DivMod
<1>6. f >= 0
  <2>1. SUFFICES ASSUME f <= -1 PROVE FALSE
    BY <1>5
  <2>2. w * f <= w * (-1)
    BY <1>5, <2>1
  <2> QED
    BY <1>4, <1>5, <2>2
<1>7. f <= a
  <2>1. SUFFICES ASSUME f >= a + 1 PROVE FALSE
    BY <1>1, <1>5
  <2>2. w * f >= w * (a + 1)
    BY <1>1, <1>5, <2>1
  <2>3. w * (a + 1) = a * w + w
    BY <1>1
  <2> QED
    BY <1>1, <1>4, <1>5, <2>2, <2>3
<1> QED
  BY <1>1, <1>4, <1>5, <1>6, <1>7

\* A longer series has a later tail.
LEMMA TailMovesOn ==
  ASSUME NEW w \in Nat \ {0}, NEW n \in Nat, w <= n, NEW m \in Nat, n <= m,
         NEW f, f = ((n - w + 1) * w - n) \div w, NEW g, g = ((m - w + 1) * w - m) \div w
  PROVE  f <= g
<1>1. PICK t : t = (n - w + 1) * w - n
  OBVIOUS
<1>2. PICK u : u = (m - w + 1) * w - m
  OBVIOUS
<1>3. PICK r : r = t % w
  OBVIOUS
<1>4. PICK v : v = u % w
  OBVIOUS
<1>5. t \in Nat /\ f \in Nat /\ r \in 0 .. w - 1 /\ t = w * f + r
  BY <1>1, <1>3, TailFacts
<1>6. u \in Nat /\ g \in Nat /\ v \in 0 .. w - 1 /\ u = w * g + v
  BY <1>2, <1>4, TailFacts
<1>7. t <= u
  <2>1. PICK k \in Nat : m = n + k
    OBVIOUS
  <2>2. u = t + k * w - k
    BY <1>1, <1>2, <2>1
  <2>3. k * w >= k
    BY <2>1
  <2> QED
    BY <1>5, <1>6, <2>1, <2>2, <2>3
<1>8. SUFFICES ASSUME f >= g + 1 PROVE FALSE
  BY <1>5, <1>6
<1>9. w * f >= w * (g + 1)
  BY <1>5, <1>6, <1>8
<1>10. w * (g + 1) = w * g + w
  BY <1>6
<1> QED
  BY <1>5, <1>6, <1>7, <1>9, <1>10

----------------------------------------------------------------------------
\* A batch comes behind the others.
LEMMA LinedAppended ==
  ASSUME NEW x \in Int, NEW y \in Int, NEW z \in Int, NEW b, Lined(b, x, y),
         NEW r, InOrder(r, y, z), r # <<>>
  PROVE  Lined(Append(b, r), x, z)
<1>1. b \in Seq(Seq(Int)) /\ Len(b) \in Nat /\ r \in Seq(Int) /\ Len(r) = z - y
  BY DEF Lined, InOrder
<1>2. PICK n \in Nat : n = Len(b)
  BY <1>1
<1>3. PICK c : c = Append(b, r)
  OBVIOUS
<1>4. c \in Seq(Seq(Int)) /\ Len(c) = n + 1 /\ c[n + 1] = r /\ \A k \in 1 .. n : c[k] = b[k]
  BY <1>1, <1>2, <1>3
<1>5. \A k \in 1 .. n + 1 : Begin(c, x, k) = Begin(b, x, k)
  <2>1. ASSUME NEW k \in 2 .. n + 1 PROVE Begin(c, x, k) = Begin(b, x, k)
    <3>1. PICK j \in 1 .. n : j = k - 1
      OBVIOUS
    <3>2. c[j] = b[j]
      BY <1>4
    <3> QED
      BY <3>1, <3>2 DEF Begin
  <2>2. Begin(c, x, 1) = Begin(b, x, 1)
    BY DEF Begin
  <2> QED
    BY <2>1, <2>2
<1>6. Begin(b, x, n + 1) = y
  BY <1>2 DEF Lined
<1>7. ASSUME NEW k \in 1 .. n + 1
      PROVE  c[k] # <<>> /\ InOrder(c[k], Begin(c, x, k), Begin(c, x, k) + Len(c[k]))
  <2>1. CASE k = n + 1
    <3>1. Begin(c, x, k) = y /\ c[k] = r /\ y + Len(r) = z
      BY <1>1, <1>4, <1>5, <1>6, <2>1
    <3> QED
      BY <3>1
  <2>2. CASE k \in 1 .. n
    <3>1. b[k] # <<>> /\ InOrder(b[k], Begin(b, x, k), Begin(b, x, k) + Len(b[k]))
      BY <1>2, <2>2 DEF Lined
    <3> QED
      BY <1>4, <1>5, <2>2, <3>1
  <2> QED
    BY <2>1, <2>2
<1>8. Begin(c, x, (n + 1) + 1) = z
  <2>1. r[Len(r)] = z - 1 /\ Len(r) > 0
    BY <1>1 DEF InOrder
  <2>2. Begin(c, x, (n + 1) + 1) = r[Len(r)] + 1
    BY <1>4 DEF Begin
  <2> QED
    BY <1>1, <2>1, <2>2
<1> QED
  BY <1>3, <1>4, <1>7, <1>8 DEF Lined

\* No batches hold no rows.
LEMMA LinedEmpty ==
  ASSUME NEW x \in Int, NEW y \in Int, Lined(<<>>, x, y)
  PROVE  x = y
  BY DEF Lined, Begin

\* The first of the batches
LEMMA LinedHead ==
  ASSUME NEW x \in Int, NEW y \in Int, NEW b, Lined(b, x, y), b # <<>>
  PROVE  InOrder(Head(b), x, x + Len(Head(b))) /\ Head(b) # <<>> /\ Len(Head(b)) \in Nat \ {0}
<1>1. b \in Seq(Seq(Int)) /\ 1 \in 1 .. Len(b) /\ Head(b) = b[1]
  BY DEF Lined
<1>2. b[1] # <<>> /\ InOrder(b[1], Begin(b, x, 1), Begin(b, x, 1) + Len(b[1])) /\ Begin(b, x, 1) = x
  BY <1>1 DEF Lined, Begin
<1>3. b[1] \in Seq(Int)
  BY <1>1
<1> QED
  BY <1>1, <1>2, <1>3

\* The first batch is replaced by its end, or by nothing.
LEMMA LinedTail ==
  ASSUME NEW x \in Int, NEW y \in Int, NEW b, Lined(b, x, y), b # <<>>
  PROVE  Lined(Tail(b), x + Len(Head(b)), y)
<1>1. b \in Seq(Seq(Int)) /\ Len(b) \in Nat \ {0} /\ Head(b) = b[1]
  BY DEF Lined
<1>2. PICK n \in Nat : Len(b) = n + 1
  <2>1. PICK m \in Nat \ {0} : m = Len(b)
    BY <1>1
  <2>2. m - 1 \in Nat /\ m = (m - 1) + 1
    OBVIOUS
  <2> QED
    BY <2>1, <2>2
<1>3. PICK c, h : c = Tail(b) /\ h = Head(b)
  OBVIOUS
<1>4. c \in Seq(Seq(Int)) /\ Len(c) = n /\ \A k \in 1 .. n : c[k] = b[k + 1]
  BY <1>1, <1>2, <1>3
<1>5. InOrder(h, x, x + Len(h)) /\ h # <<>> /\ Len(h) \in Nat \ {0} /\ h[Len(h)] = x + Len(h) - 1 /\ h = b[1]
  <2>1. InOrder(h, x, x + Len(h)) /\ h # <<>> /\ Len(h) \in Nat \ {0}
    BY <1>3, LinedHead
  <2>2. PICK l \in Nat \ {0} : l = Len(h)
    BY <2>1
  <2>3. \A k \in 1 .. Len(h) : h[k] = x + k - 1
    BY <2>1 DEF InOrder
  <2>4. h[l] = x + l - 1
    BY <2>2, <2>3
  <2> QED
    BY <1>1, <1>3, <2>1, <2>2, <2>4
<1>6. PICK v \in Int : v = x + Len(h)
  BY <1>5
<1>7. \A k \in 1 .. n + 1 : Begin(c, v, k) = Begin(b, x, k + 1)
  <2>1. Begin(c, v, 1) = v /\ Begin(b, x, 2) = v
    BY <1>5, <1>6 DEF Begin
  <2>2. ASSUME NEW k \in 2 .. n + 1 PROVE Begin(c, v, k) = Begin(b, x, k + 1)
    <3>1. c[k - 1] = b[k]
      BY <1>4
    <3>2. Begin(c, v, k) = c[k - 1][Len(c[k - 1])] + 1
      BY DEF Begin
    <3>3. Begin(b, x, k + 1) = b[k][Len(b[k])] + 1
      BY DEF Begin
    <3> QED
      BY <3>1, <3>2, <3>3
  <2> QED
    BY <2>1, <2>2
<1>8. ASSUME NEW k \in 1 .. n
      PROVE  c[k] # <<>> /\ InOrder(c[k], Begin(c, v, k), Begin(c, v, k) + Len(c[k]))
  <2>1. b[k + 1] # <<>> /\ InOrder(b[k + 1], Begin(b, x, k + 1), Begin(b, x, k + 1) + Len(b[k + 1]))
    BY <1>2 DEF Lined
  <2> QED
    BY <1>4, <1>7, <2>1
<1>9. Begin(c, v, n + 1) = y
  <2>1. Begin(b, x, Len(b) + 1) = y
    BY DEF Lined
  <2>2. Begin(c, v, n + 1) = Begin(b, x, (n + 1) + 1)
    BY <1>7
  <2> QED
    BY <1>2, <2>1, <2>2
<1> QED
  BY <1>3, <1>4, <1>6, <1>8, <1>9 DEF Lined

\* A batch before the others
LEMMA LinedBefore ==
  ASSUME NEW x \in Int, NEW y \in Int, NEW z \in Int, NEW b, Lined(b, y, z),
         NEW r, InOrder(r, x, y), r # <<>>
  PROVE  Lined(<<r>> \o b, x, z)
<1>1. b \in Seq(Seq(Int)) /\ Len(b) \in Nat /\ r \in Seq(Int) /\ Len(r) = y - x
  BY DEF Lined, InOrder
<1>2. PICK n \in Nat : n = Len(b)
  BY <1>1
<1>3. PICK c : c = <<r>> \o b
  OBVIOUS
<1>4. c \in Seq(Seq(Int)) /\ Len(c) = n + 1 /\ c[1] = r /\ \A k \in 1 .. n : c[k + 1] = b[k]
  BY <1>1, <1>2, <1>3
<1>5. r[Len(r)] = y - 1 /\ Len(r) > 0
  BY <1>1 DEF InOrder
<1>6. \A k \in 1 .. n + 1 : Begin(c, x, k + 1) = Begin(b, y, k)
  <2>1. Begin(c, x, 1 + 1) = y /\ Begin(b, y, 1) = y
    BY <1>1, <1>4, <1>5 DEF Begin
  <2>2. ASSUME NEW k \in 2 .. n + 1 PROVE Begin(c, x, k + 1) = Begin(b, y, k)
    <3>1. PICK j \in 1 .. n : k = j + 1
      <4>1. k - 1 \in 1 .. n /\ k = (k - 1) + 1
        OBVIOUS
      <4> QED
        BY <4>1
    <3>2. c[k] = b[j]
      BY <1>4, <3>1
    <3>3. Begin(c, x, k + 1) = c[k][Len(c[k])] + 1
      BY DEF Begin
    <3>4. Begin(b, y, k) = b[j][Len(b[j])] + 1
      BY <3>1 DEF Begin
    <3> QED
      BY <3>2, <3>3, <3>4
  <2> QED
    BY <2>1, <2>2
<1>7. ASSUME NEW k \in 1 .. n + 1
      PROVE  c[k] # <<>> /\ InOrder(c[k], Begin(c, x, k), Begin(c, x, k) + Len(c[k]))
  <2>1. CASE k = 1
    <3>1. Begin(c, x, k) = x /\ c[k] = r /\ x + Len(r) = y
      BY <1>1, <1>4, <2>1 DEF Begin
    <3> QED
      BY <3>1
  <2>2. CASE k # 1
    <3>1. PICK j \in 1 .. n : k = j + 1
      <4>1. k - 1 \in 1 .. n /\ k = (k - 1) + 1
        BY <2>2
      <4> QED
        BY <4>1
    <3>2. b[j] # <<>> /\ InOrder(b[j], Begin(b, y, j), Begin(b, y, j) + Len(b[j]))
      BY <1>2 DEF Lined
    <3>3. c[k] = b[j] /\ Begin(c, x, k) = Begin(b, y, j)
      BY <1>4, <1>6, <3>1
    <3> QED
      BY <3>2, <3>3
  <2> QED
    BY <2>1, <2>2
<1>8. Begin(c, x, (n + 1) + 1) = z
  <2>1. Begin(b, y, n + 1) = z
    BY <1>2 DEF Lined
  <2> QED
    BY <1>6, <2>1
<1> QED
  BY <1>3, <1>4, <1>7, <1>8 DEF Lined

----------------------------------------------------------------------------
\* The windows that arrive join those that wait.
LEMMA AddAtomic ==
  ASSUME StreamInv, stream = "open", policy.kind = "atomic", NEW n \in Nat \ {0}, Add(n)
  PROVE  AtomicInv'
<1>1. given \in Nat /\ AtomicInv
  BY DEF StreamInv, Going
<1>2. /\ given' = given + n /\ pending' = Append(pending, Arrived(n)) /\ pendingCount' = pendingCount + n
      /\ drawn' = drawn /\ scores' = scores /\ drawn = <<>>
  BY <1>1 DEF Add, AtomicInv
<1>3. /\ pendingCount = given - Len(scores)
      /\ InOrder(scores, 0, Len(scores)) /\ InOrder(drawn, Len(scores), Len(scores) + Len(drawn))
      /\ Lined(pending, Len(scores) + Len(drawn), given)
  BY <1>1 DEF AtomicInv
<1>4. Len(scores) \in Nat /\ Len(drawn) = 0
  BY <1>2, <1>3 DEF InOrder
<1>5. InOrder(Arrived(n), given, given + n) /\ Arrived(n) # <<>>
  <2>1. InOrder(Arrived(n), given, given + n)
    BY <1>1, RowsArrived
  <2> QED
    BY <1>1, <2>1 DEF InOrder
<1>6. PICK x \in Int : x = Len(scores) + Len(drawn)
  BY <1>4
<1>7. Lined(Append(pending, Arrived(n)), x, given + n)
  <2>1. PICK y \in Int, z \in Int : y = given /\ z = given + n
    BY <1>1
  <2>2. Lined(pending, x, y) /\ InOrder(Arrived(n), y, z) /\ Arrived(n) # <<>>
    BY <1>3, <1>5, <1>6, <2>1
  <2>3. Lined(Append(pending, Arrived(n)), x, z)
    BY <2>2, LinedAppended
  <2> QED
    BY <2>1, <2>3
<1>8. pendingCount' = given' - Len(scores) /\ pendingCount' \in Nat
  <2>1. pendingCount \in Nat
    BY <1>1 DEF AtomicInv
  <2> QED
    BY <1>1, <1>2, <1>3, <1>4, <2>1
<1> QED
  BY <1>2, <1>3, <1>6, <1>7, <1>8 DEF AtomicInv

\* A batch, or as much of it as is wanted, is taken from those that wait.
LEMMA TakeAtomic ==
  ASSUME StreamInv, TakeBatch
  PROVE  /\ AtomicInv' /\ stream' = stream /\ policy' = policy /\ given' = given /\ emitted' = emitted
<1>1. given \in Nat /\ AtomicInv /\ policy \in Policies
  BY DEF StreamInv, Going, TakeBatch
<1>2. /\ stream \in {"update", "finish"} /\ WindowsReady /\ Len(drawn) < ChunkSize
      /\ policy' = policy /\ given' = given /\ emitted' = emitted /\ scores' = scores
  BY DEF TakeBatch
<1>3. /\ pendingCount = given - Len(scores)
      /\ InOrder(scores, 0, Len(scores)) /\ InOrder(drawn, Len(scores), Len(scores) + Len(drawn))
      /\ Lined(pending, Len(scores) + Len(drawn), given)
  BY <1>1 DEF AtomicInv
<1>4. Len(scores) \in Nat /\ Len(drawn) \in Nat
  BY <1>3 DEF InOrder
<1>5. PICK size \in Int : size = ChunkSize
  <2>1. pendingCount \in Int
    BY <1>1, <1>3, <1>4
  <2>2. policy.chunk \in Int
    BY <1>1, PolicyFacts
  <2>3. ChunkSize \in Int
    BY <2>1, <2>2 DEF ChunkSize
  <2> QED
    BY <2>3
<1>6. size <= pendingCount /\ Len(drawn) < size
  BY <1>2, <1>5 DEF WindowsReady
<1>7. PICK x \in Nat : x = Len(scores) + Len(drawn)
  BY <1>4
<1>8. pending # <<>>
  <2>1. SUFFICES ASSUME pending = <<>> PROVE FALSE
    OBVIOUS
  <2>2. Lined(<<>>, x, given)
    BY <1>3, <1>7, <2>1
  <2>3. x = given
    BY <1>1, <2>2, LinedEmpty
  <2> QED
    BY <1>1, <1>3, <1>4, <1>6, <1>7, <2>3
<1>9. PICK batch : batch = Head(pending)
  OBVIOUS
<1>10. PICK n \in Nat \ {0}, left \in Nat \ {0} : n = Len(batch) /\ left = size - Len(drawn)
  <2>1. Len(batch) \in Nat \ {0}
    BY <1>1, <1>3, <1>7, <1>8, <1>9, LinedHead
  <2>2. size - Len(drawn) \in Nat \ {0}
    BY <1>4, <1>6
  <2> QED
    BY <2>1, <2>2
<1>11. InOrder(batch, x, x + n) /\ Lined(Tail(pending), x + n, given)
  <2>1. Lined(pending, x, given) /\ given \in Int
    BY <1>1, <1>3, <1>7
  <2>2. InOrder(Head(pending), x, x + Len(Head(pending))) /\ Lined(Tail(pending), x + Len(Head(pending)), given)
    BY <1>8, <2>1, LinedHead, LinedTail
  <2> QED
    BY <1>9, <1>10, <2>2
<1>12. /\ drawn' = drawn \o (IF n <= left THEN batch ELSE SubSeq(batch, 1, left))
       /\ pending' = IF n <= left THEN Tail(pending) ELSE <<SubSeq(batch, left + 1, n)>> \o Tail(pending)
       /\ stream' = stream /\ pendingCount' = pendingCount
  BY <1>5, <1>8, <1>9, <1>10 DEF TakeBatch
<1>13. PICK k \in Nat \ {0} : k = IF n <= left THEN n ELSE left
  OBVIOUS
<1>14. InOrder(drawn', Len(scores), x + k) /\ Lined(pending', x + k, given)
  <2>1. CASE n <= left
    <3>1. InOrder(drawn \o batch, Len(scores), x + n)
      BY <1>3, <1>4, <1>7, <1>11, RowsJoined
    <3> QED
      BY <1>11, <1>12, <1>13, <2>1, <3>1
  <2>2. CASE ~ (n <= left)
    <3>1. PICK y \in Int, z \in Int : y = x + left /\ z = x + n /\ x < y /\ y < z
      BY <2>2
    <3>2. InOrder(SubSeq(batch, x - x + 1, y - x), x, y) /\ InOrder(SubSeq(batch, y - x + 1, z - x), y, z)
      BY <1>11, <3>1, RowsCut
    <3>3. x - x + 1 = 1 /\ y - x = left /\ y - x + 1 = left + 1 /\ z - x = n
      BY <3>1
    <3>4. InOrder(SubSeq(batch, 1, left), x, y) /\ InOrder(SubSeq(batch, left + 1, n), y, z)
      BY <3>2, <3>3
    <3>5. PICK part, rest : part = SubSeq(batch, 1, left) /\ rest = SubSeq(batch, left + 1, n)
      OBVIOUS
    <3>6. InOrder(drawn \o part, Len(scores), y)
      BY <1>3, <1>4, <1>7, <3>4, <3>5, RowsJoined
    <3>7. rest # <<>>
      <4>1. Len(rest) = z - y
        BY <3>4, <3>5 DEF InOrder
      <4> QED
        BY <3>1, <4>1
    <3>8. Lined(<<rest>> \o Tail(pending), y, given)
      <4>1. Lined(Tail(pending), z, given) /\ InOrder(rest, y, z) /\ given \in Int
        BY <1>1, <1>11, <3>1, <3>4, <3>5
      <4> QED
        BY <3>7, <4>1, LinedBefore
    <3> QED
      BY <1>12, <1>13, <2>2, <3>1, <3>5, <3>6, <3>8
  <2> QED
    BY <2>1, <2>2
<1>15. Len(drawn') = Len(drawn) + k /\ Len(drawn') <= size
  <2>1. Len(drawn') = (x + k) - Len(scores)
    BY <1>14 DEF InOrder
  <2>2. PICK e \in Nat, f \in Nat : e = Len(scores) /\ f = Len(drawn)
    BY <1>4
  <2>3. x + k - e = f + k
    BY <1>7, <2>2
  <2>4. k <= left /\ left = size - f
    BY <1>10, <1>13, <2>2
  <2> QED
    BY <2>1, <2>2, <2>3, <2>4
<1>16. x + k = Len(scores) + Len(drawn')
  BY <1>4, <1>7, <1>15
<1>17. ChunkSize' = size /\ WindowsReady'
  <2>1. ChunkSize' = ChunkSize
    BY <1>2, <1>12 DEF ChunkSize, Final
  <2> QED
    BY <1>2, <1>5, <1>12, <2>1 DEF WindowsReady
<1>18. AtomicInv'
  BY <1>1, <1>2, <1>3, <1>12, <1>14, <1>15, <1>16, <1>17 DEF AtomicInv
<1> QED
  BY <1>2, <1>12, <1>18

\* The chunk that was taken is scored.
LEMMA EmitAtomic ==
  ASSUME StreamInv, EmitWindows
  PROVE  /\ AtomicInv' /\ stream' = stream /\ policy' = policy /\ given' = given /\ emitted' = emitted
<1>1. given \in Nat /\ AtomicInv
  BY DEF StreamInv, Going, EmitWindows
<1>2. /\ scores' = scores \o drawn /\ pendingCount' = pendingCount - Len(drawn) /\ drawn' = <<>>
      /\ stream' = stream /\ policy' = policy /\ given' = given /\ emitted' = emitted /\ pending' = pending
  BY DetectorIs DEF EmitWindows
<1>3. /\ pendingCount = given - Len(scores)
      /\ InOrder(scores, 0, Len(scores)) /\ InOrder(drawn, Len(scores), Len(scores) + Len(drawn))
      /\ Lined(pending, Len(scores) + Len(drawn), given)
  BY <1>1 DEF AtomicInv
<1>4. Len(scores) \in Nat /\ Len(drawn) \in Nat
  BY <1>3 DEF InOrder
<1>5. PICK x \in Nat : x = Len(scores) + Len(drawn)
  BY <1>4
<1>6. InOrder(scores', 0, x)
  BY <1>2, <1>3, <1>4, <1>5, RowsJoined
<1>7. Len(scores') = x
  BY <1>6 DEF InOrder
<1>8. InOrder(drawn', x, x) /\ Len(drawn') = 0
  BY <1>2 DEF InOrder
<1>9. pendingCount' = given - x /\ pendingCount' \in Nat
  <2>1. pendingCount' = given - x
    BY <1>1, <1>2, <1>3, <1>4, <1>5
  <2>2. pendingCount \in Nat
    BY <1>1 DEF AtomicInv
  <2>3. Len(drawn) <= pendingCount
    BY DEF EmitWindows, WindowsReady
  <2> QED
    BY <1>2, <1>4, <2>1, <2>2, <2>3
<1>10. x + Len(drawn') = x
  BY <1>8
<1>11. AtomicInv'
  BY <1>2, <1>3, <1>5, <1>6, <1>7, <1>8, <1>9, <1>10 DEF AtomicInv
<1> QED
  BY <1>2, <1>11

----------------------------------------------------------------------------
\* What CATCH has to keep moves on when rows arrive.
LEMMA AddCatch ==
  ASSUME StreamInv, stream = "open", policy.kind = "catch", NEW n \in Nat \ {0}, Add(n)
  PROVE  CatchInv'
<1>1. given \in Nat /\ emitted \in Nat /\ CatchInv /\ policy \in Policies
  BY DEF StreamInv, Going
<1>2. PICK w \in Nat \ {0} : w = policy.window
  BY <1>1, PolicyFacts
<1>3. PICK m \in Nat : m = given + n /\ given < m
  BY <1>1
<1>4. PICK b : b = [start |-> buffer.start, rows |-> buffer.rows \o Arrived(n)]
  OBVIOUS
<1>5. PICK f : f = FirstWindow(m)
  OBVIOUS
<1>6. /\ given' = m /\ policy' = policy /\ emitted' = emitted /\ scores' = scores /\ stream' = "update"
      /\ buffer' = IF m >= w THEN DropBefore(b, f) ELSE b
  BY <1>2, <1>3, <1>4, <1>5 DEF Add
<1>7. emitted = 0
  BY <1>1 DEF CatchInv
<1>8. InOrder(b.rows, b.start, m) /\ b.start \in Nat /\ b.start = buffer.start
  <2>1. InOrder(buffer.rows \o Arrived(n), buffer.start, given + n) /\ buffer.start \in Nat
    BY <1>1, Buffering DEF CatchInv, Buffered
  <2> QED
    BY <1>3, <1>4, <2>1
<1>9. f = ((m - w + 1) * w - m) \div w
  BY <1>2, <1>5 DEF FirstWindow, TailStart, WindowCount
<1>10. w <= m => f \in Nat /\ f <= m - w
  <2>1. PICK t : t = (m - w + 1) * w - m
    OBVIOUS
  <2>2. PICK skip : skip = t % w
    OBVIOUS
  <2>3. f = t \div w
    BY <1>9, <2>1
  <2> QED
    BY <2>1, <2>2, <2>3, TailFacts
<1>11. w <= m => buffer.start <= f
  <2>1. SUFFICES ASSUME w <= m PROVE buffer.start <= f
    OBVIOUS
  <2>2. CASE given < w
    <3>1. buffer.start = 0
      BY <1>1, <1>2, <2>2 DEF CatchInv
    <3>2. f \in Nat
      BY <1>10, <2>1
    <3> QED
      BY <3>1, <3>2
  <2>3. CASE w <= given
    <3>1. PICK e : e = ((given - w + 1) * w - given) \div w
      OBVIOUS
    <3>2. buffer.start <= e
      <4>1. LongEnough
        BY <1>2, <2>3 DEF LongEnough
      <4>2. FirstWindow(given) = e
        BY <1>2, <3>1 DEF FirstWindow, TailStart, WindowCount
      <4> QED
        BY <1>1, <4>1, <4>2 DEF CatchInv
    <3>3. e <= f
      BY <1>1, <1>3, <1>9, <2>3, <3>1, TailMovesOn
    <3>4. e \in Int
      <4>1. PICK t \in Int : t = (given - w + 1) * w - given
        BY <1>1
      <4> QED
        BY <3>1, <4>1, DivMod
    <3> QED
      BY <1>8, <1>10, <2>1, <3>2, <3>3, <3>4
  <2> QED
    BY <1>1, <2>2, <2>3
<1>12. Buffered' /\ (m < w => buffer'.start = 0) /\ (w <= m => buffer'.start <= f)
  <2>1. CASE m < w
    <3>1. buffer' = b /\ buffer.start = 0
      BY <1>1, <1>2, <1>3, <1>6, <2>1 DEF CatchInv
    <3> QED
      BY <1>6, <1>8, <2>1, <3>1 DEF Buffered
  <2>2. CASE w <= m
    <3>1. f \in Nat /\ f <= m /\ b.start <= f /\ b.start < m
      BY <1>8, <1>10, <1>11, <2>2
    <3>2. /\ InOrder(DropBefore(b, f).rows, DropBefore(b, f).start, m)
          /\ DropBefore(b, f).start \in Nat
          /\ DropBefore(b, f).start = IF f <= b.start THEN b.start ELSE f
      <4>1. b.start \in Nat /\ InOrder(b.rows, b.start, m) /\ b.start < m
        BY <1>8, <3>1
      <4>2. PICK g \in Nat : g = f /\ g <= m
        BY <3>1
      <4>3. /\ InOrder(DropBefore(b, g).rows, DropBefore(b, g).start, m)
            /\ DropBefore(b, g).start \in Nat
            /\ DropBefore(b, g).start = IF g <= b.start THEN b.start ELSE g
        BY <4>1, <4>2, RowsDropped
      <4> QED
        BY <4>2, <4>3
    <3>3. buffer' = DropBefore(b, f)
      BY <1>6, <2>2
    <3> QED
      BY <1>6, <2>2, <3>1, <3>2, <3>3 DEF Buffered
  <2> QED
    BY <2>1, <2>2
<1>13. /\ given' < policy'.window => buffer'.start = 0
       /\ LongEnough' => buffer'.start <= FirstWindow(given)'
  <2>1. FirstWindow(given)' = f
    BY <1>5, <1>6 DEF FirstWindow, TailStart, WindowCount
  <2>2. LongEnough' <=> w <= m
    BY <1>2, <1>6 DEF LongEnough
  <2> QED
    BY <1>2, <1>6, <1>12, <2>1, <2>2
<1>14. /\ Listed(scores') /\ Len(scores') = emitted' * policy'.window
       /\ emitted' * policy'.window = 0
  BY <1>1, <1>2, <1>6, <1>7 DEF CatchInv
<1> QED
  BY <1>6, <1>7, <1>12, <1>13, <1>14 DEF CatchInv

\* A chunk of the retained windows is scored.
LEMMA EmitCatch ==
  ASSUME StreamInv, EmitTail
  PROVE  /\ CatchInv' /\ stream' = stream /\ policy' = policy /\ given' = given /\ emitted' \in Nat
<1>1. /\ given \in Nat /\ emitted \in Nat /\ CatchInv /\ policy \in Policies
      /\ stream = "finish" /\ LongEnough /\ emitted < Retained
  BY DEF StreamInv, Going, EmitTail, WindowsLeft, Final
<1>2. PICK w \in Nat \ {0}, c \in Nat \ {0} : w = policy.window /\ c = policy.chunk
  BY <1>1, PolicyFacts
<1>3. w <= given
  BY <1>1, <1>2 DEF LongEnough
<1>4. PICK f \in Nat : f = FirstWindow(given) /\ f <= given - w
  <2>1. PICK t : t = (given - w + 1) * w - given
    OBVIOUS
  <2>2. PICK f, skip : f = t \div w /\ skip = t % w
    OBVIOUS
  <2>3. f = FirstWindow(given)
    BY <1>2, <2>1, <2>2 DEF FirstWindow, TailStart, WindowCount
  <2>4. f \in Nat /\ f <= given - w
    BY <1>1, <1>3, <2>1, <2>2, TailFacts
  <2> QED
    BY <2>3, <2>4
<1>5. PICK old \in Nat, r \in Nat : old = emitted /\ r = Retained /\ r = given - w + 1 - f /\ old < r
  <2>1. Retained = given - w + 1 - f
    <3>1. WindowCount(given) = given - w + 1
      BY <1>2 DEF WindowCount
    <3> QED
      BY <1>1, <1>4, <3>1 DEF Retained
  <2>2. given - w + 1 - f \in Nat
    BY <1>1, <1>4
  <2> QED
    BY <1>1, <2>1, <2>2
<1>6. PICK n \in Nat \ {0} : n = Min({policy.chunk, Retained - emitted}) /\ old + n <= r
  <2>1. Min({c, r - old}) = IF c <= r - old THEN c ELSE r - old
    BY <1>5, MinOfTwo
  <2> QED
    BY <1>2, <1>5, <2>1
<1>7. PICK kept : kept = DropBefore(buffer, f)
  OBVIOUS
<1>8. InOrder(kept.rows, kept.start, given) /\ kept.start = f /\ buffer.start <= f
  <2>1. buffer.start \in Nat /\ InOrder(buffer.rows, buffer.start, given) /\ buffer.start <= f
    BY <1>1, <1>4 DEF CatchInv, Buffered
  <2>2. f <= given /\ buffer.start < given
    BY <1>1, <1>4, <2>1
  <2>3. /\ InOrder(DropBefore(buffer, f).rows, DropBefore(buffer, f).start, given)
        /\ DropBefore(buffer, f).start = IF f <= buffer.start THEN buffer.start ELSE f
    BY <1>1, <2>1, <2>2, RowsDropped
  <2> QED
    BY <1>7, <2>1, <2>3
<1>9. PICK from \in Nat, until \in Nat : /\ from = f + old /\ until = from + n + w - 1
                                       /\ f <= from /\ from + w <= until /\ until <= given /\ f < given
  <2>1. f + old \in Nat /\ f + old + n + w - 1 \in Nat
    OBVIOUS
  <2> QED
    BY <1>1, <1>4, <1>5, <1>6, <2>1
<1>10. Holds(kept, from, until) /\ InOrder(Slice(kept, from, until), from, until)
  <2>1. kept.start \in Nat /\ InOrder(kept.rows, kept.start, given) /\ kept.start <= from /\ from <= until /\ kept.start < given
    BY <1>8, <1>9
  <2> QED
    BY <1>1, <1>9, <2>1, SliceRows
<1>11. PICK region, seen : region = Slice(kept, from, until) /\ seen = Flat(Windows(region, w), w)
  OBVIOUS
<1>12. /\ scores' = scores \o seen /\ emitted' = old + n /\ buffer' = kept
       /\ stream' = stream /\ policy' = policy /\ given' = given
  <2>1. from = kept.start + emitted
    BY <1>5, <1>8, <1>9
  <2>2. until = kept.start + emitted + Min({policy.chunk, Retained - emitted}) + policy.window - 1
    BY <1>2, <1>6, <1>9, <2>1
  <2>3. kept = DropBefore(buffer, FirstWindow(given)) /\ buffer.start <= FirstWindow(given)
    BY <1>4, <1>7, <1>8
  <2> QED
    BY <1>2, <1>5, <1>6, <1>10, <1>11, <2>1, <2>2, <2>3 DEF EmitTail
<1>13. Listed(seen) /\ Len(seen) = n * w /\ n * w \in Nat
  <2>1. Len(Windows(region, w)) = until - from - w + 1
    BY <1>9, <1>10, <1>11, WindowsOf
  <2>2. until - from - w + 1 = n
    BY <1>9
  <2>3. Len(Windows(region, w)) = n
    BY <2>1, <2>2
  <2> QED
    BY <1>11, <2>3, FlatLists
<1>14. ASSUME NEW m \in 1 .. n * w PROVE seen[m] = FlatCell(from * w + m, w)
  <2>1. until - from - w + 1 = n
    BY <1>9
  <2>2. m \in Nat /\ 1 <= m /\ m <= (until - from - w + 1) * w
    BY <1>13, <2>1
  <2>3. InOrder(region, from, until) /\ from + w <= until
    BY <1>9, <1>10, <1>11
  <2> QED
    BY <1>11, <2>2, <2>3, FlatIs
<1>15. PICK len \in Nat : len = old * w
  OBVIOUS
<1>16. Listed(scores) /\ Len(scores) = len /\ \A m \in 1 .. len : scores[m] = FlatCell(f * w + m, w)
  BY <1>1, <1>2, <1>4, <1>5, <1>15 DEF CatchInv
<1>17. (old + n) * w = len + n * w
  BY <1>15
<1>18. from * w = f * w + len /\ f * w \in Int
  BY <1>9, <1>15
<1>19. /\ Listed(scores \o seen) /\ Len(scores \o seen) = len + n * w
       /\ \A m \in 1 .. len : (scores \o seen)[m] = scores[m]
       /\ \A m \in 1 .. n * w : (scores \o seen)[len + m] = seen[m]
  <2>1. Listed(scores) /\ Listed(seen)
    BY <1>13, <1>16
  <2>2. Listed(scores \o seen) /\ Len(scores \o seen) = Len(scores) + Len(seen)
    BY <2>1, JoinedLists
  <2>3. \A i \in 1 .. Len(scores) : (scores \o seen)[i] = scores[i]
    BY <2>1, JoinedLists
  <2>4. \A i \in 1 .. Len(seen) : (scores \o seen)[Len(scores) + i] = seen[i]
    BY <2>1, JoinedLists
  <2>5. Len(scores) = len /\ Len(seen) = n * w
    BY <1>13, <1>16
  <2> QED
    BY <2>2, <2>3, <2>4, <2>5
<1>20. ASSUME NEW m \in 1 .. len + n * w PROVE (scores \o seen)[m] = FlatCell(f * w + m, w)
  <2>1. CASE m <= len
    BY <1>16, <1>19, <2>1
  <2>2. CASE m > len
    <3>1. PICK k \in 1 .. n * w : m = len + k
      <4>1. m - len \in 1 .. n * w /\ m = len + (m - len)
        BY <1>13, <2>2
      <4> QED
        BY <4>1
    <3>2. (scores \o seen)[m] = FlatCell(from * w + k, w)
      BY <1>14, <1>19, <3>1
    <3>3. from * w + k = f * w + m
      BY <1>13, <1>18, <3>1
    <3> QED
      BY <3>2, <3>3
  <2>3. m \in Int
    BY <1>13
  <2>4. m <= len \/ m > len
    BY <2>3
  <2> QED
    BY <2>1, <2>2, <2>4, Zenon
<1>21. FirstWindow(given)' = f /\ LongEnough' /\ Retained' = r /\ policy'.window = w
  BY <1>1, <1>2, <1>4, <1>5, <1>12 DEF FirstWindow, TailStart, WindowCount, LongEnough, Retained
<1>22. Buffered' /\ buffer'.start = f
  BY <1>8, <1>12 DEF Buffered
<1>23. given' >= policy'.window
  BY <1>2, <1>3, <1>12
<1>24. emitted' <= Retained' /\ emitted' \in Nat
  BY <1>6, <1>12, <1>21
<1>25. /\ Listed(scores') /\ Len(scores') = emitted' * policy'.window
       /\ \A m \in 1 .. emitted' * policy'.window :
            scores'[m] = FlatCell(FirstWindow(given)' * policy'.window + m, policy'.window)
  BY <1>12, <1>17, <1>19, <1>20, <1>21
<1>26. CatchInv'
  <2>1. ~ (given' < policy'.window)
    BY <1>1, <1>2, <1>3, <1>12
  <2> QED
    BY <1>1, <1>12, <1>21, <1>22, <1>24, <1>25, <2>1 DEF CatchInv
<1> QED
  BY <1>12, <1>24, <1>26

----------------------------------------------------------------------------
\* What _process_available leaves undone when it returns
LEMMA IdleIs ==
  ASSUME Idle
  PROVE  /\ policy.kind = "atomic" => ~ WindowsReady
         /\ policy.kind = "catch" => ~ WindowsLeft
         /\ policy.kind \in {"causal", "patch"} => ~ Turn.ready
  BY Zenon DEF Idle

\* A detector is the same as long as its policy is.
LEMMA DetectorSame ==
  ASSUME NEW rows, policy' = policy
  PROVE  Detector(rows)' = Detector(rows)
  BY Zenon DEF Detector

\* When an atomic stream ends, every window has been scored.
LEMMA CloseAtomic ==
  ASSUME StreamInv, stream = "finish", policy.kind = "atomic", Idle
  PROVE  scores = Detector(First(given))
<1>1. given \in Nat /\ AtomicInv
  BY DEF StreamInv, Going
<1>2. ~ WindowsReady
  BY IdleIs
<1>3. pendingCount \in Nat /\ pendingCount = given - Len(scores) /\ InOrder(scores, 0, Len(scores))
  BY <1>1 DEF AtomicInv
<1>4. pendingCount = 0
  BY <1>2, <1>3 DEF WindowsReady, ChunkSize, Final
<1>5. Len(scores) \in Nat
  BY <1>3 DEF InOrder
<1>6. Len(scores) = given
  BY <1>1, <1>3, <1>4, <1>5
<1>7. scores = First(given)
  BY <1>1, <1>3, <1>6, RowsUnique
<1> QED
  BY <1>7, DetectorIs

\* When a causal stream ends, every row has been scored.
LEMMA CloseCausal ==
  ASSUME StreamInv, stream = "finish", policy.kind = "causal", Idle
  PROVE  scores = Detector(First(given))
<1>1. given \in Nat /\ emitted \in Nat /\ CausalInv
  BY DEF StreamInv, Going
<1>2. Turn.ready <=> (emitted < given /\ given <= given)
  BY DEF Turn, CausalTurn, Final
<1>3. ~ Turn.ready
  BY IdleIs
<1>4. PICK w : w = policy.window
  OBVIOUS
<1>5. /\ Listed(scores) /\ Len(scores) = emitted /\ emitted <= given
      /\ \A i \in 1 .. emitted : scores[i] = Causal(First(given), w)[i]
  BY <1>1, <1>4 DEF CausalInv
<1>6. emitted = given
  BY <1>1, <1>2, <1>3, <1>5
<1>7. PICK whole : whole = Causal(First(given), w)
  OBVIOUS
<1>8. Listed(whole) /\ Len(whole) = given
  BY <1>1, <1>7, FirstRows, CausalLists
<1>9. scores = whole
  <2>1. Len(scores) = Len(whole) /\ \A i \in 1 .. Len(scores) : scores[i] = whole[i]
    BY <1>5, <1>6, <1>7, <1>8
  <2> QED
    BY <1>5, <1>8, <2>1, SameList
<1> QED
  BY <1>4, <1>7, <1>9, DetectorIs

\* When a stream of patches ends, every row has been scored.
LEMMA ClosePatch ==
  ASSUME StreamInv, stream = "finish", policy.kind = "patch", Idle
  PROVE  scores = Detector(First(given))
<1>1. given \in Nat /\ emitted \in Nat /\ PatchInv
  BY DEF StreamInv, Going
<1>2. Turn.ready <=> (emitted < given /\ given <= given)
  BY DEF Turn, PatchTurn, Final
<1>3. ~ Turn.ready
  BY IdleIs
<1>4. PICK p, d : p = policy.window /\ d = policy.stride
  OBVIOUS
<1>5. /\ Listed(scores) /\ Len(scores) = emitted /\ emitted <= given
      /\ \A i \in 1 .. emitted : scores[i] = Pooled(First(given), p, d)[i]
  BY <1>1, <1>4 DEF PatchInv
<1>6. emitted = given
  BY <1>1, <1>2, <1>3, <1>5
<1>7. PICK whole : whole = Pooled(First(given), p, d)
  OBVIOUS
<1>8. Listed(whole) /\ Len(whole) = given /\ First(given) \in Seq(Int) /\ Len(First(given)) = given
  <2>1. First(given) \in Seq(Int) /\ Len(First(given)) = given
    BY <1>1, FirstRows DEF InOrder
  <2> QED
    BY <1>1, <1>7, <2>1, PooledLists
<1>9. scores = whole
  <2>1. Len(scores) = Len(whole) /\ \A i \in 1 .. Len(scores) : scores[i] = whole[i]
    BY <1>5, <1>6, <1>7, <1>8
  <2> QED
    BY <1>5, <1>8, <2>1, SameList
<1>10. Detector(First(given)) = IF First(given) = <<>> THEN <<>> ELSE whole
  BY <1>4, <1>7, DetectorIs
<1>11. CASE First(given) = <<>>
  <2>1. Len(scores) = 0
    BY <1>5, <1>6, <1>8, <1>11
  <2>2. scores = <<>>
    BY <1>5, <2>1 DEF Listed
  <2> QED
    BY <1>10, <1>11, <2>2
<1>12. CASE First(given) # <<>>
  BY <1>9, <1>10, <1>12
<1> QED
  BY <1>11, <1>12

\* A series shorter than a window has no windows.
LEMMA NoWindows ==
  ASSUME NEW w \in Nat \ {0}, NEW n \in Nat, n < w
  PROVE  Len(Flat(Windows(First(n), w), w)) = 0
<1>1. Len(First(n)) = n
  BY FirstRows
<1>2. Windows(First(n), w) = <<>>
  BY <1>1 DEF Windows
<1>3. Len(Windows(First(n), w)) = 0
  BY <1>2
<1>4. Len(Flat(Windows(First(n), w), w)) = 0 * w
  BY <1>3, FlatLists
<1> QED
  BY <1>4

\* Aligned scores are as many as the rows.
LEMMA AlignedLists ==
  ASSUME NEW flat, NEW n \in Nat
  PROVE  Listed(Aligned(flat, n)) /\ Len(Aligned(flat, n)) = n
<1>1. Aligned(flat, n) = [i \in 1 .. n |-> Aligned(flat, n)[i]]
  BY DEF Aligned
<1> QED
  BY <1>1, ListedFunction

\* _align_flat_tail gives the scores of the whole series, although no more
\* than its last windows were scored.
LEMMA CloseCatch ==
  ASSUME StreamInv, stream = "finish", policy.kind = "catch", FinishReturns
  PROVE  scores' = Detector(First(given))
<1>1. given \in Nat /\ emitted \in Nat /\ CatchInv /\ policy \in Policies
  BY DEF StreamInv, Going
<1>2. PICK w \in Nat \ {0} : w = policy.window
  BY <1>1, PolicyFacts
<1>3. ~ WindowsLeft
  BY IdleIs DEF FinishReturns
<1>4. PICK flat : flat = Flat(Windows(First(given), w), w)
  OBVIOUS
<1>5. PICK whole : whole = Aligned(flat, given)
  OBVIOUS
<1>6. Detector(First(given)) = whole /\ Listed(whole) /\ Len(whole) = given
  <2>1. Len(First(given)) = given
    BY <1>1, FirstRows
  <2>2. Detector(First(given)) = whole
    BY <1>2, <1>4, <1>5, <2>1, DetectorIs
  <2> QED
    BY <1>1, <1>5, <2>2, AlignedLists
<1>7. CASE given < w
  <2>1. scores' = [i \in 1 .. given |-> "-inf"]
    BY <1>1, <1>2, <1>7 DEF FinishReturns, LongEnough
  <2>2. Len(flat) = 0
    BY <1>1, <1>4, <1>7, NoWindows
  <2>3. \A i \in 1 .. given : ~ (Len(flat) - given + i >= 1)
    BY <1>1, <2>2
  <2>4. whole = [i \in 1 .. given |-> "-inf"]
    BY <1>5, <2>3 DEF Aligned
  <2> QED
    BY <1>6, <2>1, <2>4
<1>8. CASE w <= given
  <2>1. PICK t : t = (given - w + 1) * w - given
    OBVIOUS
  <2>2. PICK f, skip : f = t \div w /\ skip = t % w
    OBVIOUS
  <2>3. /\ t \in Nat /\ f \in Nat /\ f <= given - w /\ skip \in 0 .. w - 1
        /\ t = w * f + skip /\ (given - w + 1 - f) * w = given + skip
    <3>1. PICK n \in Nat : n = given /\ w <= n
      BY <1>1, <1>8
    <3>2. t = (n - w + 1) * w - n
      BY <2>1, <3>1
    <3>3. f = t \div w /\ skip = t % w
      BY <2>2
    <3>4. t \in Nat /\ f \in Nat /\ f <= n - w /\ skip \in 0 .. w - 1 /\ t = w * f + skip
      BY <3>1, <3>2, <3>3, TailFacts
    <3>5. (n - w + 1 - f) * w = n + skip
      <4>1. w * f = (n - w + 1) * w - n - skip
        BY <3>2, <3>4
      <4>2. (n - w + 1 - f) * w = (n - w + 1) * w - w * f
        BY <3>4
      <4> QED
        BY <3>4, <4>1, <4>2
    <3> QED
      BY <3>1, <3>4, <3>5
  <2>4. TailStart(given) = t /\ FirstWindow(given) = f /\ WindowCount(given) = given - w + 1
    BY <1>2, <2>1, <2>2 DEF FirstWindow, TailStart, WindowCount
  <2>5. LongEnough /\ Retained = given - w + 1 - f /\ Retained \in Nat \ {0}
    BY <1>1, <1>2, <1>8, <2>3, <2>4 DEF LongEnough, Retained
  <2>6. emitted = Retained
    <3>1. ~ (emitted < Retained)
      BY <1>3, <2>5 DEF WindowsLeft, Final
    <3>2. emitted = 0 \/ emitted <= Retained
      BY <1>1 DEF CatchInv
    <3> QED
      BY <1>1, <2>5, <3>1, <3>2
  <2>7. emitted * w = given + skip
    BY <2>3, <2>5, <2>6
  <2>8. scores' = SubSeq(scores, skip + 1, skip + given)
    BY <1>2, <2>2, <2>4, <2>5 DEF FinishReturns
  <2>9. /\ Listed(scores) /\ Len(scores) = given + skip
        /\ \A m \in 1 .. given + skip : scores[m] = FlatCell(f * w + m, w)
    BY <1>1, <1>2, <2>4, <2>7 DEF CatchInv
  <2>10. PICK cut : cut = SubSeq(scores, skip + 1, skip + given)
    OBVIOUS
  <2>11. Listed(cut) /\ Len(cut) = given /\ \A i \in 1 .. given : cut[i] = scores[skip + i]
    <3>1. PICK a \in Int, b \in Int : a = skip + 1 /\ b = skip + given
      BY <1>1, <2>3
    <3>2. 1 <= a /\ a <= b + 1 /\ b <= Len(scores) /\ b - a + 1 = given
      BY <1>1, <2>3, <2>9, <3>1
    <3>3. /\ Listed(SubSeq(scores, a, b)) /\ Len(SubSeq(scores, a, b)) = b - a + 1
          /\ \A k \in 1 .. b - a + 1 : SubSeq(scores, a, b)[k] = scores[a + k - 1]
      BY <2>9, <3>2, CutList
    <3>4. \A k \in 1 .. given : a + k - 1 = skip + k
      BY <2>3, <3>1
    <3> QED
      BY <2>10, <3>1, <3>2, <3>3, <3>4
  <2>12. Len(flat) = t + given
    <3>1. Len(Windows(First(given), w)) = given - 0 - w + 1
      <4>1. InOrder(First(given), 0, given) /\ 0 + w <= given /\ 0 \in Nat
        BY <1>1, <1>8, FirstRows
      <4> QED
        BY <1>1, <4>1, WindowsOf
    <3>2. PICK n \in Nat : n = given - w + 1 /\ Len(Windows(First(given), w)) = n
      BY <1>1, <1>8, <3>1
    <3>3. Len(flat) = n * w
      BY <1>4, <3>2, FlatLists
    <3> QED
      BY <1>1, <2>1, <3>2, <3>3
  <2>13. ASSUME NEW i \in 1 .. given PROVE cut[i] = whole[i]
    <3>1. PICK x \in Nat : x = t + i /\ 1 <= x /\ x <= t + given
      BY <1>1, <2>3
    <3>2. whole[i] = flat[x]
      <4>1. Len(flat) - given + i = x
        BY <1>1, <2>3, <2>12, <3>1
      <4> QED
        BY <1>5, <3>1, <4>1 DEF Aligned
    <3>3. flat[x] = FlatCell(x, w)
      <4>1. InOrder(First(given), 0, given) /\ 0 + w <= given /\ 0 \in Nat
        BY <1>1, <1>8, FirstRows
      <4>2. x <= (given - 0 - w + 1) * w
        BY <1>1, <2>1, <3>1
      <4>3. Flat(Windows(First(given), w), w)[x] = FlatCell(0 * w + x, w)
        BY <1>1, <3>1, <4>1, <4>2, FlatIs
      <4>4. 0 * w + x = x
        OBVIOUS
      <4> QED
        BY <1>4, <4>3, <4>4
    <3>4. cut[i] = FlatCell(f * w + (skip + i), w)
      <4>1. skip + i \in 1 .. given + skip
        BY <1>1, <2>3
      <4> QED
        BY <2>9, <2>11, <4>1
    <3>5. f * w + (skip + i) = x
      BY <2>3, <3>1
    <3> QED
      BY <3>2, <3>3, <3>4, <3>5
  <2>14. cut = whole
    <3>1. Len(cut) = Len(whole) /\ \A i \in 1 .. Len(cut) : cut[i] = whole[i]
      BY <1>6, <2>11, <2>13
    <3> QED
      BY <1>6, <2>11, <3>1, SameList
  <2> QED
    BY <1>6, <2>8, <2>10, <2>14
<1> QED
  BY <1>1, <1>7, <1>8

----------------------------------------------------------------------------
\* The invariant holds at first.
LEMMA StreamInitInv == StreamInit => StreamInv
<1> SUFFICES ASSUME StreamInit PROVE StreamInv
  OBVIOUS
<1>1. /\ stream = "open" /\ policy \in Policies /\ given = 0 /\ emitted = 0
      /\ pending = <<>> /\ pendingCount = 0 /\ drawn = <<>> /\ scores = <<>>
      /\ buffer.start = 0 /\ buffer.rows = <<>>
  BY DEF StreamInit, NoBuffer
<1>2. PICK w \in Nat \ {0}, d \in Nat \ {0} : w = policy.window /\ d = policy.stride
  BY <1>1, PolicyFacts
<1>3. InOrder(<<>>, 0, 0) /\ Len(<<>>) = 0
  BY DEF InOrder
<1>4. Lined(<<>>, 0, 0)
  BY DEF Lined, Begin
<1>5. Listed(<<>>)
  BY DEF Listed
<1>6. Buffered
  BY <1>1, <1>3 DEF Buffered
<1>7. AtomicInv
  <2>1. Len(scores) = 0 /\ Len(drawn) = 0 /\ 0 + 0 = 0 /\ 0 - 0 = 0 /\ 0 \in Nat
    BY <1>1, <1>3
  <2>2. InOrder(scores, 0, Len(scores)) /\ InOrder(drawn, Len(scores), Len(scores) + Len(drawn))
    BY <1>1, <1>3, <2>1
  <2>3. Lined(pending, Len(scores) + Len(drawn), given)
    BY <1>1, <1>4, <2>1
  <2> QED
    BY <1>1, <2>1, <2>2, <2>3 DEF AtomicInv
<1>8. CausalInv
  <2>1. Max({0, 0 - w + 1}) = IF 0 >= 0 - w + 1 THEN 0 ELSE 0 - w + 1
    BY MaxOfTwo
  <2>2. buffer.start <= Max({0, emitted - policy.window + 1})
    BY <1>1, <1>2, <2>1
  <2> QED
    BY <1>1, <1>3, <1>5, <1>6, <2>2 DEF CausalInv
<1>9. PatchInv
  <2>1. AlignedPatchStart(0) \in Nat
    BY <1>2, AlignedStart
  <2>2. buffer.start <= AlignedPatchStart(emitted)
    BY <1>1, <2>1
  <2> QED
    BY <1>1, <1>3, <1>5, <1>6, <2>2 DEF PatchInv
<1>10. CatchInv
  <2>1. ~ LongEnough
    BY <1>1, <1>2 DEF LongEnough
  <2>2. emitted * policy.window = 0
    BY <1>1, <1>2
  <2> QED
    BY <1>1, <1>3, <1>5, <1>6, <2>1, <2>2 DEF CatchInv
<1> QED
  BY <1>1, <1>7, <1>8, <1>9, <1>10 DEF StreamInv, Going

\* Nothing is scored and nothing arrives; the stream goes on to the next call.
Rests ==
  /\ policy' = policy /\ given' = given /\ emitted' = emitted /\ scores' = scores
  /\ pending' = pending /\ pendingCount' = pendingCount /\ drawn' = drawn /\ buffer' = buffer

\* What no handler of a policy touches keeps the invariant.
LEMMA RestsInv ==
  ASSUME StreamInv, Rests, stream \in Going, stream' \in Going,
         stream = "finish" => stream' = "finish",
         policy.kind = "atomic" => stream' = stream \/ drawn = <<>>
  PROVE  StreamInv'
<1>1. Buffered' <=> Buffered
  BY DEF Buffered, Rests
<1>2. policy.kind = "atomic" => AtomicInv'
  <2> SUFFICES ASSUME policy.kind = "atomic" PROVE AtomicInv'
    OBVIOUS
  <2>1. AtomicInv
    BY DEF StreamInv
  <2>2. stream' = stream => (WindowsReady' <=> WindowsReady) /\ ChunkSize' = ChunkSize
    BY DEF WindowsReady, ChunkSize, Final, Rests
  <2>3. drawn' # <<>> => WindowsReady' /\ Len(drawn') <= ChunkSize'
    BY <2>1, <2>2 DEF AtomicInv, Rests
  <2>4. stream' = "open" => drawn' = <<>>
    BY <2>1 DEF AtomicInv, Rests
  <2> QED
    BY <2>1, <2>3, <2>4 DEF AtomicInv, Rests
<1>3. policy.kind = "causal" => CausalInv'
  <2> SUFFICES ASSUME policy.kind = "causal" PROVE CausalInv'
    OBVIOUS
  <2>1. CausalInv
    BY DEF StreamInv
  <2> QED
    BY <1>1, <2>1 DEF CausalInv, Rests
<1>4. policy.kind = "patch" => PatchInv'
  <2> SUFFICES ASSUME policy.kind = "patch" PROVE PatchInv'
    OBVIOUS
  <2>1. PatchInv
    BY DEF StreamInv
  <2>2. AlignedPatchStart(emitted)' = AlignedPatchStart(emitted)
    BY DEF AlignedPatchStart, Rests
  <2>3. stream' # "finish" \/ emitted' < given' => emitted' = 0 \/ emitted' + policy'.window - 1 <= given'
    BY <2>1 DEF PatchInv, Rests
  <2> QED
    BY <1>1, <2>1, <2>2, <2>3 DEF PatchInv, Rests
<1>5. policy.kind = "catch" => CatchInv'
  <2> SUFFICES ASSUME policy.kind = "catch" PROVE CatchInv'
    OBVIOUS
  <2>1. CatchInv
    BY DEF StreamInv
  <2>2. FirstWindow(given)' = FirstWindow(given) /\ (LongEnough' <=> LongEnough) /\ Retained' = Retained
    BY DEF FirstWindow, TailStart, WindowCount, LongEnough, Retained, Rests
  <2> QED
    BY <1>1, <2>1, <2>2 DEF CatchInv, Rests
<1> QED
  BY <1>2, <1>3, <1>4, <1>5 DEF StreamInv, Going, Rests

\* update, with the rows buffered or queued
LEMMA AddInv ==
  ASSUME StreamInv, NEW n \in 1 .. MaxBatch, Add(n)
  PROVE  StreamInv'
<1>1. n \in Nat \ {0}
  OBVIOUS
<1>2. stream = "open" /\ stream' = "update" /\ policy' = policy /\ given' = given + n /\ emitted' = emitted
  BY DEF Add
<1>3. policy \in Policies /\ given \in Nat /\ emitted \in Nat
  BY DEF StreamInv
<1>4. policy.kind = "atomic" => AtomicInv'
  BY <1>1, <1>2, AddAtomic
<1>5. policy.kind = "causal" => CausalInv'
  BY <1>1, <1>2, AddCausal
<1>6. policy.kind = "patch" => PatchInv'
  BY <1>1, <1>2, AddPatch
<1>7. policy.kind = "catch" => CatchInv'
  BY <1>1, <1>2, AddCatch
<1> QED
  BY <1>1, <1>2, <1>3, <1>4, <1>5, <1>6, <1>7 DEF StreamInv, Going

\* _process_available, one turn or one batch of any policy
LEMMA EmitInv ==
  ASSUME StreamInv, EmitRows \/ TakeBatch \/ EmitWindows \/ EmitTail
  PROVE  StreamInv'
<1>1. policy \in Policies /\ given \in Nat /\ emitted \in Nat
  BY DEF StreamInv
<1>2. stream \in {"update", "finish"}
  BY DEF EmitRows, TakeBatch, EmitWindows, EmitTail, WindowsLeft, Final
<1>3. CASE EmitRows /\ policy.kind = "causal"
  <2>1. CausalInv' /\ stream' = stream /\ policy' = policy /\ given' = given /\ emitted' \in Nat
    BY <1>2, <1>3, EmitCausal
  <2> QED
    BY <1>1, <1>2, <1>3, <2>1 DEF StreamInv, Going
<1>4. CASE EmitRows /\ policy.kind = "patch"
  <2>1. PatchInv' /\ stream' = stream /\ policy' = policy /\ given' = given /\ emitted' \in Nat
    BY <1>2, <1>4, EmitPatch
  <2> QED
    BY <1>1, <1>2, <1>4, <2>1 DEF StreamInv, Going
<1>5. CASE TakeBatch
  <2>1. AtomicInv' /\ stream' = stream /\ policy' = policy /\ given' = given /\ emitted' = emitted
    BY <1>5, TakeAtomic
  <2>2. policy.kind = "atomic"
    BY <1>5 DEF TakeBatch
  <2> QED
    BY <1>1, <1>2, <2>1, <2>2 DEF StreamInv, Going
<1>6. CASE EmitWindows
  <2>1. AtomicInv' /\ stream' = stream /\ policy' = policy /\ given' = given /\ emitted' = emitted
    BY <1>6, EmitAtomic
  <2>2. policy.kind = "atomic"
    BY <1>6 DEF EmitWindows
  <2> QED
    BY <1>1, <1>2, <2>1, <2>2 DEF StreamInv, Going
<1>7. CASE EmitTail
  <2>1. CatchInv' /\ stream' = stream /\ policy' = policy /\ given' = given /\ emitted' \in Nat
    BY <1>7, EmitCatch
  <2>2. policy.kind = "catch"
    BY <1>7 DEF EmitTail, WindowsLeft
  <2> QED
    BY <1>1, <1>2, <2>1, <2>2 DEF StreamInv, Going
<1>8. EmitRows => policy.kind \in {"causal", "patch"}
  BY DEF EmitRows
<1> QED
  BY <1>3, <1>4, <1>5, <1>6, <1>7, <1>8

\* finish, with what is left aligned
LEMMA CloseInv ==
  ASSUME StreamInv, FinishReturns
  PROVE  StreamInv'
<1>1. policy \in Policies /\ given \in Nat
  BY DEF StreamInv
<1>2. stream = "finish" /\ Idle /\ stream' = "closed" /\ policy' = policy /\ given' = given /\ emitted' = 0
  BY DEF FinishReturns
<1>3. policy.kind \in PolicyKinds
  BY <1>1, PolicyFacts
<1>4. policy.kind # "catch" => scores' = scores
  BY DEF FinishReturns
<1>5. scores' = Detector(First(given))
  BY <1>2, <1>3, <1>4, CloseAtomic, CloseCausal, ClosePatch, CloseCatch DEF PolicyKinds
<1>6. scores' = Detector(First(given))'
  <2>1. PICK rows : rows = First(given)
    OBVIOUS
  <2>2. First(given)' = rows
    BY <1>2, <2>1 DEF First
  <2>3. Detector(rows)' = Detector(rows)
    BY <1>2, DetectorSame
  <2> QED
    BY <1>5, <2>1, <2>2, <2>3
<1> QED
  BY <1>1, <1>2, <1>6 DEF StreamInv, Going

\* Every step of the session keeps the invariant.
LEMMA StreamStepInv == StreamInv /\ [StreamNext]_streamVars => StreamInv'
<1> SUFFICES ASSUME StreamInv, [StreamNext]_streamVars PROVE StreamInv'
  OBVIOUS
<1>1. CASE \E n \in 1 .. MaxBatch : Add(n)
  BY <1>1, AddInv
<1>2. CASE EmitRows \/ TakeBatch \/ EmitWindows \/ EmitTail
  BY <1>2, EmitInv
<1>3. CASE Finalize
  <2>1. Rests /\ stream = "open" /\ stream' = "finish"
    BY <1>3 DEF Finalize, Rests, pendingVars
  <2>2. policy.kind = "atomic" => drawn = <<>>
    BY <2>1 DEF StreamInv, Going, AtomicInv
  <2> QED
    BY <2>1, <2>2, RestsInv DEF Going
<1>4. CASE UpdateReturns
  <2>1. Rests /\ stream = "update" /\ stream' = "open" /\ Idle
    BY <1>4 DEF UpdateReturns, Rests, pendingVars
  <2>2. policy.kind = "atomic" => drawn = <<>>
    BY <2>1, IdleIs DEF StreamInv, Going, AtomicInv
  <2> QED
    BY <2>1, <2>2, RestsInv DEF Going
<1>5. CASE FinishReturns
  BY <1>5, CloseInv
<1>6. CASE UNCHANGED streamVars
  <2>1. Rests /\ stream' = stream
    BY <1>6 DEF streamVars, pendingVars, Rests
  <2>2. CASE stream \in Going
    BY <2>1, <2>2, RestsInv
  <2>3. CASE stream = "closed"
    <3>1. PICK rows : rows = First(given)
      OBVIOUS
    <3>2. First(given)' = rows /\ Detector(rows)' = Detector(rows)
      BY <2>1, <3>1, DetectorSame DEF First, Rests
    <3>3. scores = Detector(First(given))
      BY <2>3 DEF StreamInv
    <3>4. scores' = Detector(First(given))'
      BY <2>1, <3>1, <3>2, <3>3 DEF Rests
    <3> QED
      BY <2>1, <2>3, <3>4 DEF StreamInv, Going, Rests
  <2> QED
    BY <2>2, <2>3 DEF StreamInv
<1> QED
  BY <1>1, <1>2, <1>3, <1>4, <1>5, <1>6 DEF StreamNext

\* PredictionSession: when a session has finished, the scores it gave over all
\* its updates are those the detector gives of the whole series in one call --
\* for every policy of atomic windows, causal windows, patches of any stride up
\* to their length and flat tails, any chunk size, any lengths of the updates,
\* and any interleaving of them with the scoring.
THEOREM StreamIsWhole == StreamSpec => []StreamEqualsWhole
<1>1. StreamInv => StreamEqualsWhole
  BY DEF StreamInv, StreamEqualsWhole, Going, Series, First
<1> QED
  BY <1>1, StreamInitInv, StreamStepInv, PTL DEF StreamSpec
----------------------------------------------------------------------------
(* Runs                                                                    *)

\* A set holds everything from x to y.
Filled(S, x, y) == \A j \in x .. y : j \in S

\* From and to which place a set holds everything, and no further
IsRun(S, a, b) ==
  /\ a \in S /\ b \in S /\ a <= b
  /\ \A i \in a .. b : i \in S
  /\ a - 1 \notin S /\ b + 1 \notin S

\* The runs of a set of places are the intervals that go no further.
LEMMA RunIs ==
  ASSUME NEW S \in SUBSET Int, NEW run
  PROVE  run \in Runs(S) <=> (\E a, b \in S : IsRun(S, a, b) /\ run = a .. b)
<1>1. ASSUME run \in Runs(S) PROVE \E a, b \in S : IsRun(S, a, b) /\ run = a .. b
  <2>1. PICK e \in S \X S : /\ e[1] <= e[2] /\ e[1] .. e[2] \subseteq S
                            /\ e[1] - 1 \notin S /\ e[2] + 1 \notin S
                            /\ run = e[1] .. e[2]
    BY <1>1 DEF Runs
  <2>. QED
    BY <2>1 DEF IsRun
<1>2. ASSUME NEW a \in S, NEW b \in S, IsRun(S, a, b), run = a .. b PROVE run \in Runs(S)
  <2>1. <<a, b>> \in S \X S /\ <<a, b>>[1] = a /\ <<a, b>>[2] = b
    OBVIOUS
  <2>2. a <= b /\ a .. b \subseteq S /\ a - 1 \notin S /\ b + 1 \notin S
    BY <1>2 DEF IsRun
  <2>. QED
    BY <1>2, <2>1, <2>2 DEF Runs
<1>. QED
  BY <1>1, <1>2

\* The ends of an interval, and how long it is
LEMMA IntervalIs ==
  ASSUME NEW a \in Int, NEW b \in Int, a <= b
  PROVE  Min(a .. b) = a /\ Max(a .. b) = b /\ Cardinality(a .. b) = b - a + 1
<1>1. a \in a .. b /\ b \in a .. b /\ \A y \in a .. b : a <= y /\ b >= y
  OBVIOUS
<1>2. Min(a .. b) = a
  <2>1. \A x \in a .. b : (\A y \in a .. b : x <= y) => x = a
    BY <1>1
  <2>. QED
    BY <1>1, <2>1 DEF Min
<1>3. Max(a .. b) = b
  <2>1. \A x \in a .. b : (\A y \in a .. b : x >= y) => x = b
    BY <1>1
  <2>. QED
    BY <1>1, <2>1 DEF Max
<1>4. Cardinality(a .. b) = b - a + 1
  BY FS_Interval
<1>. QED
  BY <1>2, <1>3, <1>4

\* Every place of a set is in one of its runs.
LEMMA RunAround ==
  ASSUME NEW n \in Nat, NEW S \in SUBSET (1 .. n), NEW i \in S
  PROVE  \E a, b \in S : IsRun(S, a, b) /\ a <= i /\ i <= b
<1> DEFINE Back == {x \in S : x <= i /\ \A j \in x .. i : j \in S}
           Ahead == {x \in S : i <= x /\ \A j \in i .. x : j \in S}
<1>1. i \in Back /\ i \in Ahead
  <2>1. i \in Int
    OBVIOUS
  <2>2. \A j \in i .. i : j = i
    BY <2>1
  <2>. QED
    BY <2>1, <2>2
<1>2. Back \in SUBSET Nat /\ Ahead \in SUBSET (0 .. n)
  <2>1. S \in SUBSET Nat /\ S \in SUBSET (0 .. n)
    OBVIOUS
  <2>. QED
    BY <2>1
<1>3. PICK a \in Back : \A k \in Back : a <= k
  BY <1>1, <1>2, LeastNatural
<1>4. PICK b \in Ahead : \A k \in Ahead : b >= k
  BY <1>1, <1>2, GreatestNatural
<1>5. /\ a \in S /\ b \in S /\ a \in Int /\ b \in Int /\ i \in Int /\ a <= i /\ i <= b
      /\ (\A j \in a .. i : j \in S) /\ (\A j \in i .. b : j \in S)
  BY <1>3, <1>4
<1>6. a - 1 \notin S
  <2>1. SUFFICES ASSUME a - 1 \in S PROVE FALSE
    OBVIOUS
  <2>2. \A j \in a - 1 .. i : j = a - 1 \/ j \in a .. i
    BY <1>5
  <2>3. a - 1 \in Back
    BY <1>5, <2>1, <2>2
  <2>. QED
    BY <1>3, <1>5, <2>3
<1>7. b + 1 \notin S
  <2>1. SUFFICES ASSUME b + 1 \in S PROVE FALSE
    OBVIOUS
  <2>2. \A j \in i .. b + 1 : j = b + 1 \/ j \in i .. b
    BY <1>5
  <2>3. b + 1 \in Ahead
    BY <1>5, <2>1, <2>2
  <2>. QED
    BY <1>4, <1>5, <2>3
<1>8. \A j \in a .. b : j \in S
  <2>1. \A j \in a .. b : j \in a .. i \/ j \in i .. b
    BY <1>5
  <2>. QED
    BY <1>5, <2>1
<1>. QED
  BY <1>5, <1>6, <1>7, <1>8 DEF IsRun

\* A run reaches as far as the places around one of it are in the set.
LEMMA RunReaches ==
  ASSUME NEW S \in SUBSET Int, NEW a \in Int, NEW b \in Int, IsRun(S, a, b),
         NEW i \in Int, a <= i, i <= b, NEW x \in Int, NEW y \in Int, x <= i, i <= y,
         Filled(S, x, y)
  PROVE  a <= x /\ y <= b
<1>1. a - 1 \notin S /\ b + 1 \notin S
  BY DEF IsRun
<1>2. ~ (x <= a - 1)
  <2>1. SUFFICES ASSUME x <= a - 1 PROVE FALSE
    OBVIOUS
  <2>2. a - 1 \in x .. y
    BY <2>1
  <2>. QED
    BY <1>1, <2>2 DEF Filled
<1>3. ~ (b + 1 <= y)
  <2>1. SUFFICES ASSUME b + 1 <= y PROVE FALSE
    OBVIOUS
  <2>2. b + 1 \in x .. y
    BY <2>1
  <2>. QED
    BY <1>1, <2>2 DEF Filled
<1>. QED
  BY <1>2, <1>3

----------------------------------------------------------------------------
(* The hysteresis                                                          *)

High(i) == decision[i] >= threshold.on
Low(i) == decision[i] < threshold.off

\* Enough points in a row at or above the threshold
Entered(s) == \A j \in s .. s + config.enter - 1 : Finite(j) /\ High(j)

\* No point before i ends an alarm entered at s.
Alive(s, i) ==
  \A k \in s + config.enter .. i - config.exit : \E j \in k .. k + config.exit - 1 : ~ Low(j)

Lasts(s, i) == s <= i /\ (\A j \in s .. i : Finite(j)) /\ Alive(s, i)

\* What is to be raised once the points up to p have been seen
RaisedBy(p) ==
  {i \in 1 .. p : \E s \in Places : Entered(s) /\ s + config.enter - 1 <= p /\ Lasts(s, i)}

\* An alarm entered before p lasts at p, if p is finite.
WatchedAt(p) ==
  \E s \in Places : /\ Entered(s) /\ s + config.enter <= p
                    /\ \A j \in s .. p - 1 : Finite(j)
                    /\ Alive(s, p)

\* The n points before p are high, and no more.
Highs(p, n) ==
  /\ n \in 0 .. config.enter - 1
  /\ \A j \in p - n .. p - 1 : Finite(j) /\ High(j)
  /\ ~ (Finite(p - 1 - n) /\ High(p - 1 - n))

\* The n points before p are low, and no more.
Lows(p, n) ==
  /\ n \in 0 .. config.exit - 1
  /\ \A j \in p - n .. p - 1 : Low(j)
  /\ ~ Low(p - 1 - n)

\* What the state of the hysteresis says before the point p
AlarmAt(p, act, high, low, raised) ==
  /\ raised = RaisedBy(p - 1)
  /\ (Finite(p - 1) /\ act) <=> WatchedAt(p)
  /\ ~ WatchedAt(p) => Highs(p, IF Finite(p - 1) THEN high ELSE 0)
  /\ WatchedAt(p) => Lows(p, low)

PostTypes ==
  /\ post \in {"smooth", "threshold", "alarm", "merge", "drop", "done"}
  /\ config \in Configs
  /\ raw \in [Places -> NegInf .. MaxScore]
  /\ point \in Places
  /\ decision \in [Places -> Int]
  /\ threshold.on \in Int /\ threshold.off \in Int /\ threshold.off <= threshold.on
  /\ alarmed \in SUBSET Places

\* What the assumption says of the configuration at work
LEMMA ConfigFacts ==
  ASSUME PostTypes
  PROVE  /\ config.short \in Nat \ {0} /\ config.enter \in Nat \ {0} /\ config.exit \in Nat \ {0}
         /\ config.least \in Nat \ {0} /\ config.gap \in Nat /\ config.span \in Nat \ {0}
         /\ Length \in Nat \ {0} /\ Places = 1 .. Length
  BY PostprocessingAssumption DEF PostTypes, Places

\* A point that is high is not low.
LEMMA HighIsNotLow ==
  ASSUME PostTypes, NEW i, Finite(i), High(i)
  PROVE  ~ Low(i)
<1>1. i \in Places /\ decision[i] \in Int
  BY DEF Finite, PostTypes
<1>. QED
  BY <1>1 DEF High, Low, PostTypes

\* An alarm that lasts has lasted.
LEMMA AliveBefore ==
  ASSUME PostTypes, NEW s \in Int, NEW i \in Int, NEW j \in Int, j <= i, Alive(s, i)
  PROVE  Alive(s, j)
<1>1. config.enter \in Int /\ config.exit \in Int
  BY ConfigFacts
<1>2. \A k \in s + config.enter .. j - config.exit : k \in s + config.enter .. i - config.exit
  BY <1>1
<1>. QED
  BY <1>2 DEF Alive

\* Points with no finite score end every run.
LEMMA AlarmSkips ==
  ASSUME PostTypes, NEW p \in Places, ~ Finite(p), NEW act, NEW high, NEW low, NEW raised,
         AlarmAt(p, act, high, low, raised), NEW q \in Int, q = p + 1
  PROVE  AlarmAt(q, act, high, low, raised)
<1>1. /\ config.enter \in Nat \ {0} /\ config.exit \in Nat \ {0} /\ p \in Nat \ {0} /\ q - 1 = p
      /\ \A s \in Places : s \in Nat \ {0}
  BY ConfigFacts
<1>2. ASSUME NEW s \in Places, Entered(s), s + config.enter - 1 <= p
      PROVE  s + config.enter - 1 <= p - 1
  <2>1. s + config.enter - 1 \in s .. s + config.enter - 1
    BY <1>1
  <2>2. Finite(s + config.enter - 1)
    BY <1>2, <2>1 DEF Entered
  <2>3. s + config.enter - 1 # p
    BY <2>2
  <2>. QED
    BY <1>1, <1>2, <2>3
<1>3. ~ WatchedAt(q)
  <2>1. ASSUME NEW s \in Places, s + config.enter <= q, \A j \in s .. q - 1 : Finite(j)
        PROVE  FALSE
    <3>1. p \in s .. q - 1
      BY <1>1, <2>1
    <3>. QED
      BY <2>1, <3>1
  <2>. QED
    BY <2>1 DEF WatchedAt
<1>4. RaisedBy(p) = RaisedBy(p - 1)
  <2>1. ASSUME NEW i \in RaisedBy(p) PROVE i \in RaisedBy(p - 1)
    <3>1. PICK s \in Places : Entered(s) /\ s + config.enter - 1 <= p /\ Lasts(s, i)
      BY DEF RaisedBy
    <3>2. i \in 1 .. p
      BY DEF RaisedBy
    <3>3. Finite(i)
      <4>1. i \in s .. i
        BY <1>1, <3>1, <3>2 DEF Lasts
      <4>. QED
        BY <3>1, <4>1 DEF Lasts
    <3>4. i \in 1 .. p - 1
      BY <1>1, <3>2, <3>3
    <3>5. s + config.enter - 1 <= p - 1
      BY <1>2, <3>1
    <3>. QED
      BY <3>1, <3>4, <3>5 DEF RaisedBy
  <2>2. ASSUME NEW i \in RaisedBy(p - 1) PROVE i \in RaisedBy(p)
    <3>1. PICK s \in Places : Entered(s) /\ s + config.enter - 1 <= p - 1 /\ Lasts(s, i)
      BY DEF RaisedBy
    <3>2. i \in 1 .. p /\ s + config.enter - 1 <= p
      BY <1>1, <3>1 DEF RaisedBy
    <3>. QED
      BY <3>1, <3>2 DEF RaisedBy
  <2>. QED
    BY <2>1, <2>2
<1>5. Highs(q, 0)
  <2>1. 0 \in 0 .. config.enter - 1 /\ q - 1 - 0 = p
    BY <1>1
  <2>2. \A j \in q - 0 .. q - 1 : FALSE
    OBVIOUS
  <2>. QED
    BY <2>1, <2>2 DEF Highs
<1>6. raised = RaisedBy(q - 1)
  BY <1>1, <1>4 DEF AlarmAt
<1>7. ~ Finite(q - 1)
  BY <1>1
<1>. QED
  BY <1>3, <1>5, <1>6, <1>7 DEF AlarmAt

\* Highs are counted on to the new point.
LEMMA HighsCounted ==
  ASSUME PostTypes, NEW p \in Places, Finite(p), NEW n, Highs(p, n),
         NEW c, c = IF High(p) THEN n + 1 ELSE 0
  PROVE  /\ c \in 0 .. config.enter
         /\ \A j \in p + 1 - c .. p : Finite(j) /\ High(j)
         /\ ~ (Finite(p - c) /\ High(p - c))
<1>1. config.enter \in Nat \ {0} /\ p \in Nat \ {0} /\ n \in 0 .. config.enter - 1
  BY ConfigFacts DEF Highs
<1>2. CASE High(p)
  <2>1. c = n + 1 /\ p + 1 - c = p - n /\ p - c = p - 1 - n
    BY <1>1, <1>2
  <2>2. \A j \in p - n .. p : j \in p - n .. p - 1 \/ j = p
    BY <1>1
  <2>3. \A j \in p - n .. p : Finite(j) /\ High(j)
    BY <1>2, <2>2 DEF Highs
  <2>4. ~ (Finite(p - 1 - n) /\ High(p - 1 - n))
    BY DEF Highs
  <2>5. c \in 0 .. config.enter
    BY <1>1, <2>1
  <2>. QED
    BY <2>1, <2>3, <2>4, <2>5
<1>3. CASE ~ High(p)
  <2>1. c = 0 /\ p - c = p /\ (\A j \in p + 1 - c .. p : FALSE)
    BY <1>1, <1>3
  <2>. QED
    BY <1>1, <1>3, <2>1
<1>. QED
  BY <1>2, <1>3

\* An alarm is entered with the point that makes the highs enough.
LEMMA EntersAt ==
  ASSUME PostTypes, NEW p \in Places, NEW c \in 0 .. config.enter,
         \A j \in p + 1 - c .. p : Finite(j) /\ High(j),
         ~ (Finite(p - c) /\ High(p - c)),
         NEW s \in Places, Entered(s), s + config.enter - 1 = p
  PROVE  c = config.enter
<1>1. config.enter \in Nat \ {0} /\ p \in Nat \ {0} /\ s \in Nat \ {0}
  BY ConfigFacts
<1>2. SUFFICES ASSUME c < config.enter PROVE FALSE
  BY <1>1
<1>3. p - c \in s .. s + config.enter - 1
  BY <1>1, <1>2
<1>. QED
  BY <1>3 DEF Entered

\* What is raised with the point p, if nothing was entered with it
LEMMA RaisedOn ==
  ASSUME PostTypes, NEW p \in Places, Finite(p),
         \A s \in Places : Entered(s) => s + config.enter - 1 # p
  PROVE  RaisedBy(p) = IF WatchedAt(p) THEN RaisedBy(p - 1) \cup {p} ELSE RaisedBy(p - 1)
<1>1. /\ config.enter \in Nat \ {0} /\ config.exit \in Nat \ {0} /\ p \in Nat \ {0}
      /\ \A s \in Places : s \in Nat \ {0}
  BY ConfigFacts
<1>2. ASSUME NEW i \in RaisedBy(p) PROVE i \in RaisedBy(p - 1) \/ (i = p /\ WatchedAt(p))
  <2>1. PICK s \in Places : Entered(s) /\ s + config.enter - 1 <= p /\ Lasts(s, i)
    BY DEF RaisedBy
  <2>2. i \in 1 .. p /\ s + config.enter - 1 <= p - 1 /\ s + config.enter <= p
    BY <1>1, <2>1 DEF RaisedBy
  <2>3. CASE i = p
    <3>1. \A j \in s .. p - 1 : j \in s .. i
      BY <1>1, <2>3
    <3>2. WatchedAt(p)
      BY <2>1, <2>2, <2>3, <3>1 DEF WatchedAt, Lasts
    <3>. QED
      BY <2>3, <3>2
  <2>4. CASE i # p
    <3>1. i \in 1 .. p - 1
      BY <1>1, <2>2, <2>4
    <3>. QED
      BY <2>1, <2>2, <3>1 DEF RaisedBy
  <2>. QED
    BY <2>3, <2>4
<1>3. ASSUME NEW i \in RaisedBy(p - 1) PROVE i \in RaisedBy(p)
  <2>1. PICK s \in Places : Entered(s) /\ s + config.enter - 1 <= p - 1 /\ Lasts(s, i)
    BY DEF RaisedBy
  <2>2. i \in 1 .. p /\ s + config.enter - 1 <= p
    BY <1>1, <2>1 DEF RaisedBy
  <2>. QED
    BY <2>1, <2>2 DEF RaisedBy
<1>4. ASSUME WatchedAt(p) PROVE p \in RaisedBy(p)
  <2>1. PICK s \in Places : /\ Entered(s) /\ s + config.enter <= p
                            /\ \A j \in s .. p - 1 : Finite(j)
                            /\ Alive(s, p)
    BY <1>4 DEF WatchedAt
  <2>2. s <= p /\ s + config.enter - 1 <= p /\ p \in 1 .. p
    BY <1>1, <2>1
  <2>3. \A j \in s .. p : j \in s .. p - 1 \/ j = p
    BY <1>1
  <2>4. Lasts(s, p)
    BY <2>1, <2>2, <2>3 DEF Lasts
  <2>. QED
    BY <2>1, <2>2, <2>4 DEF RaisedBy
<1>. QED
  BY <1>2, <1>3, <1>4

\* While nothing is watched, the highs are counted until they are enough.
LEMMA AlarmWaits ==
  ASSUME PostTypes, NEW p \in Places, Finite(p), ~ WatchedAt(p), NEW n, Highs(p, n),
         NEW c, c = IF High(p) THEN n + 1 ELSE 0,
         NEW raised, raised = RaisedBy(p - 1),
         NEW q \in Int, q = p + 1
  PROVE  AlarmAt(q, c >= config.enter, c, 0,
                 IF c >= config.enter THEN raised \cup (p - config.enter + 1 .. p) ELSE raised)
<1>1. /\ config.enter \in Nat \ {0} /\ config.exit \in Nat \ {0} /\ p \in Nat \ {0} /\ q - 1 = p
      /\ \A s \in Places : s \in Nat \ {0}
  BY ConfigFacts
<1>2. /\ c \in 0 .. config.enter
      /\ \A j \in p + 1 - c .. p : Finite(j) /\ High(j)
      /\ ~ (Finite(p - c) /\ High(p - c))
  BY HighsCounted
<1>3. CASE c >= config.enter
  <2>1. PICK s \in Int : s = p - config.enter + 1
    BY <1>1
  <2>2. c = config.enter /\ p + 1 - c = s /\ s + config.enter - 1 = p /\ s <= p
    BY <1>1, <1>2, <1>3, <2>1
  <2>3. \A j \in s .. p : Finite(j) /\ High(j)
    BY <1>2, <2>2
  <2>4. s \in Places
    <3>1. s \in s .. p
      BY <1>1, <2>1, <2>2
    <3>. QED
      BY <2>3, <3>1 DEF Finite
  <2>5. Entered(s)
    BY <2>2, <2>3 DEF Entered
  <2>6. ASSUME NEW i \in Int, i <= q PROVE Alive(s, i)
    <3>1. \A k \in s + config.enter .. i - config.exit : FALSE
      BY <1>1, <2>2, <2>6
    <3>. QED
      BY <3>1 DEF Alive
  <2>7. WatchedAt(q)
    <3>1. s + config.enter <= q
      BY <1>1, <2>2
    <3>2. \A j \in s .. q - 1 : Finite(j)
      BY <1>1, <2>3
    <3>. QED
      BY <2>4, <2>5, <2>6, <3>1, <3>2 DEF WatchedAt
  <2>8. Lows(q, 0)
    <3>1. 0 \in 0 .. config.exit - 1 /\ q - 1 - 0 = p
      BY <1>1
    <3>2. \A j \in q - 0 .. q - 1 : FALSE
      OBVIOUS
    <3>3. High(p)
      <4>1. p \in s .. p
        BY <1>1, <2>1, <2>2
      <4>. QED
        BY <2>3, <4>1
    <3>4. ~ Low(p)
      BY <3>3, HighIsNotLow
    <3>. QED
      BY <3>1, <3>2, <3>4 DEF Lows
  <2>9. RaisedBy(p) = raised \cup (s .. p)
    <3>1. ASSUME NEW i \in RaisedBy(p) PROVE i \in raised \cup (s .. p)
      <4>1. PICK t \in Places : Entered(t) /\ t + config.enter - 1 <= p /\ Lasts(t, i)
        BY DEF RaisedBy
      <4>2. i \in 1 .. p
        BY DEF RaisedBy
      <4>3. CASE t + config.enter - 1 = p
        <5>1. t = s
          BY <1>1, <2>2, <4>3
        <5>2. i \in s .. p
          BY <1>1, <4>1, <4>2, <5>1 DEF Lasts
        <5>. QED
          BY <5>2
      <4>4. CASE t + config.enter - 1 <= p - 1
        <5>1. CASE i = p
          <6>1. t + config.enter <= p
            BY <1>1, <4>4
          <6>2. \A j \in t .. p - 1 : j \in t .. i
            BY <1>1, <5>1
          <6>3. WatchedAt(p)
            BY <4>1, <5>1, <6>1, <6>2 DEF WatchedAt, Lasts
          <6>. QED
            BY <6>3
        <5>2. CASE i # p
          <6>1. i \in 1 .. p - 1
            BY <1>1, <4>2, <5>2
          <6>2. i \in RaisedBy(p - 1)
            BY <4>1, <4>4, <6>1 DEF RaisedBy
          <6>. QED
            BY <6>2
        <5>. QED
          BY <5>1, <5>2
      <4>5. t + config.enter - 1 = p \/ t + config.enter - 1 <= p - 1
        BY <1>1, <4>1
      <4>. QED
        BY <4>3, <4>4, <4>5
    <3>2. ASSUME NEW i \in raised PROVE i \in RaisedBy(p)
      <4>1. PICK t \in Places : Entered(t) /\ t + config.enter - 1 <= p - 1 /\ Lasts(t, i)
        BY DEF RaisedBy
      <4>2. i \in 1 .. p /\ t + config.enter - 1 <= p
        BY <1>1, <4>1 DEF RaisedBy
      <4>. QED
        BY <4>1, <4>2 DEF RaisedBy
    <3>3. ASSUME NEW i \in s .. p PROVE i \in RaisedBy(p)
      <4>1. i \in 1 .. p /\ s <= i /\ i <= q
        BY <1>1, <2>4
      <4>2. \A j \in s .. i : j \in s .. p
        BY <1>1, <2>4, <4>1
      <4>3. Lasts(s, i)
        BY <2>3, <2>6, <4>1, <4>2 DEF Lasts
      <4>4. s + config.enter - 1 <= p
        BY <1>1, <2>2
      <4>. QED
        BY <2>4, <2>5, <4>1, <4>3, <4>4 DEF RaisedBy
    <3>. QED
      BY <3>1, <3>2, <3>3
  <2>10. Finite(q - 1)
    BY <1>1
  <2>11. AlarmAt(q, TRUE, c, 0, raised \cup (p - config.enter + 1 .. p))
    <3>1. raised \cup (p - config.enter + 1 .. p) = RaisedBy(q - 1)
      BY <1>1, <2>1, <2>9
    <3>. QED
      BY <2>7, <2>8, <2>10, <3>1 DEF AlarmAt
  <2>12. (c >= config.enter) = TRUE
    BY <1>3
  <2>. QED
    BY <1>3, <2>11, <2>12
<1>4. CASE ~ (c >= config.enter)
  <2>1. c \in 0 .. config.enter - 1 /\ c # config.enter
    BY <1>1, <1>2, <1>4
  <2>2. \A s \in Places : Entered(s) => s + config.enter - 1 # p
    BY <1>2, <2>1, EntersAt
  <2>3. RaisedBy(p) = raised
    BY <2>2, RaisedOn
  <2>4. ~ WatchedAt(q)
    <3>1. ASSUME NEW s \in Places, Entered(s), s + config.enter <= q,
                 \A j \in s .. q - 1 : Finite(j), Alive(s, q)
          PROVE  FALSE
      <4>1. s + config.enter - 1 # p
        BY <2>2, <3>1
      <4>2. s + config.enter <= p /\ s \in Int /\ p \in Int /\ p <= q
        BY <1>1, <3>1, <4>1
      <4>3. \A j \in s .. p - 1 : j \in s .. q - 1
        BY <1>1
      <4>4. Alive(s, p)
        BY <3>1, <4>2, AliveBefore
      <4>5. WatchedAt(p)
        BY <3>1, <4>2, <4>3, <4>4 DEF WatchedAt
      <4>. QED
        BY <4>5
    <3>. QED
      BY <3>1 DEF WatchedAt
  <2>5. Highs(q, c)
    <3>1. q - c = p + 1 - c /\ q - 1 - c = p - c /\ q - 1 = p
      BY <1>1, <2>1
    <3>2. \A j \in q - c .. q - 1 : Finite(j) /\ High(j)
      BY <1>2, <3>1
    <3>3. ~ (Finite(q - 1 - c) /\ High(q - 1 - c))
      BY <1>2, <3>1
    <3>. QED
      BY <2>1, <3>2, <3>3 DEF Highs
  <2>6. Finite(q - 1)
    BY <1>1
  <2>7. AlarmAt(q, FALSE, c, 0, raised)
    <3>1. raised = RaisedBy(q - 1)
      BY <1>1, <2>3
    <3>. QED
      BY <2>4, <2>5, <2>6, <3>1 DEF AlarmAt
  <2>8. (c >= config.enter) = FALSE
    BY <1>4
  <2>. QED
    BY <1>4, <2>7, <2>8
<1>. QED
  BY <1>3, <1>4

\* While an alarm is watched, the lows are counted until they are enough.
LEMMA AlarmWatches ==
  ASSUME PostTypes, NEW p \in Places, Finite(p), WatchedAt(p), NEW n, Lows(p, n),
         NEW c, c = IF Low(p) THEN n + 1 ELSE 0,
         NEW raised, raised = RaisedBy(p - 1),
         NEW q \in Int, q = p + 1, NEW high, NEW low
  PROVE  /\ c < config.exit => AlarmAt(q, TRUE, high, c, raised \cup {p})
         /\ ~ (c < config.exit) => AlarmAt(q, FALSE, 0, low, raised \cup {p})
<1>1. /\ config.enter \in Nat \ {0} /\ config.exit \in Nat \ {0} /\ p \in Nat \ {0} /\ q - 1 = p
      /\ n \in 0 .. config.exit - 1
      /\ \A s \in Places : s \in Nat \ {0}
  <2>1. n \in 0 .. config.exit - 1
    BY DEF Lows
  <2>. QED
    BY <2>1, ConfigFacts
<1>2. PICK s \in Places : /\ Entered(s) /\ s + config.enter <= p
                          /\ \A j \in s .. p - 1 : Finite(j)
                          /\ Alive(s, p)
  BY DEF WatchedAt
<1>3. RaisedBy(p) = raised \cup {p}
  <2>1. ASSUME NEW i \in RaisedBy(p) PROVE i \in raised \cup {p}
    <3>1. PICK t \in Places : Entered(t) /\ t + config.enter - 1 <= p /\ Lasts(t, i)
      BY DEF RaisedBy
    <3>2. i \in 1 .. p /\ t <= i
      BY <3>1 DEF RaisedBy, Lasts
    <3>3. CASE i # p /\ t + config.enter - 1 = p
      <4>1. s <= t /\ i \in 1 .. p - 1 /\ s <= i /\ i <= p /\ s \in Int /\ i \in Int
        BY <1>1, <1>2, <3>2, <3>3
      <4>2. \A j \in s .. i : j \in s .. p - 1
        BY <4>1
      <4>3. Alive(s, i)
        BY <1>1, <1>2, <4>1, AliveBefore
      <4>4. Lasts(s, i)
        BY <1>2, <4>1, <4>2, <4>3 DEF Lasts
      <4>5. s + config.enter - 1 <= p - 1
        BY <1>1, <1>2
      <4>6. i \in RaisedBy(p - 1)
        BY <1>2, <4>1, <4>4, <4>5 DEF RaisedBy
      <4>. QED
        BY <4>6
    <3>4. CASE i # p /\ t + config.enter - 1 # p
      <4>1. i \in 1 .. p - 1 /\ t + config.enter - 1 <= p - 1
        BY <1>1, <3>1, <3>2, <3>4
      <4>2. i \in RaisedBy(p - 1)
        BY <3>1, <4>1 DEF RaisedBy
      <4>. QED
        BY <4>2
    <3>. QED
      BY <3>3, <3>4
  <2>2. ASSUME NEW i \in raised PROVE i \in RaisedBy(p)
    <3>1. PICK t \in Places : Entered(t) /\ t + config.enter - 1 <= p - 1 /\ Lasts(t, i)
      BY DEF RaisedBy
    <3>2. i \in 1 .. p /\ t + config.enter - 1 <= p
      BY <1>1, <3>1 DEF RaisedBy
    <3>. QED
      BY <3>1, <3>2 DEF RaisedBy
  <2>3. p \in RaisedBy(p)
    <3>1. s <= p /\ s + config.enter - 1 <= p /\ p \in 1 .. p
      BY <1>1, <1>2
    <3>2. \A j \in s .. p : j \in s .. p - 1 \/ j = p
      BY <1>1
    <3>3. Lasts(s, p)
      BY <1>2, <3>1, <3>2 DEF Lasts
    <3>. QED
      BY <1>2, <3>1, <3>3 DEF RaisedBy
  <2>. QED
    BY <2>1, <2>2, <2>3
<1>4. /\ c \in 0 .. config.exit
      /\ \A j \in q - c .. p : Low(j)
      /\ ~ Low(p - c)
  <2>1. CASE Low(p)
    <3>1. c = n + 1 /\ q - c = p - n /\ p - c = p - 1 - n
      BY <1>1, <2>1
    <3>2. \A j \in p - n .. p : j \in p - n .. p - 1 \/ j = p
      BY <1>1
    <3>3. \A j \in p - n .. p : Low(j)
      BY <2>1, <3>2 DEF Lows
    <3>4. ~ Low(p - 1 - n)
      BY DEF Lows
    <3>5. c \in 0 .. config.exit
      BY <1>1, <3>1
    <3>. QED
      BY <3>1, <3>3, <3>4, <3>5
  <2>2. CASE ~ Low(p)
    <3>1. c = 0 /\ p - c = p /\ (\A j \in q - c .. p : FALSE)
      BY <1>1, <2>2
    <3>. QED
      BY <1>1, <2>2, <3>1
  <2>. QED
    BY <2>1, <2>2
<1>5. Finite(q - 1) /\ raised \cup {p} = RaisedBy(q - 1)
  BY <1>1, <1>3
<1>6. ASSUME c < config.exit PROVE AlarmAt(q, TRUE, high, c, raised \cup {p})
  <2>1. c \in 0 .. config.exit - 1
    BY <1>1, <1>4, <1>6
  <2>2. Lows(q, c)
    <3>1. q - 1 - c = p - c
      BY <1>1
    <3>2. \A j \in q - c .. q - 1 : Low(j)
      BY <1>1, <1>4
    <3>3. ~ Low(q - 1 - c)
      BY <1>4, <3>1
    <3>. QED
      BY <2>1, <3>2, <3>3 DEF Lows
  <2>3. Alive(s, q)
    <3>1. ASSUME NEW k \in s + config.enter .. q - config.exit
          PROVE  \E j \in k .. k + config.exit - 1 : ~ Low(j)
      <4>1. CASE k \in s + config.enter .. p - config.exit
        BY <1>2, <4>1 DEF Alive
      <4>2. CASE k = q - config.exit
        <5>1. p - c \in k .. k + config.exit - 1
          BY <1>1, <2>1, <4>2
        <5>. QED
          BY <1>4, <5>1
      <4>3. k \in s + config.enter .. p - config.exit \/ k = q - config.exit
        BY <1>1
      <4>. QED
        BY <4>1, <4>2, <4>3
    <3>. QED
      BY <3>1 DEF Alive
  <2>4. WatchedAt(q)
    <3>1. s + config.enter <= q
      BY <1>1, <1>2
    <3>2. \A j \in s .. q - 1 : j \in s .. p - 1 \/ j = p
      BY <1>1
    <3>3. \A j \in s .. q - 1 : Finite(j)
      BY <1>2, <3>2
    <3>. QED
      BY <1>2, <2>3, <3>1, <3>3 DEF WatchedAt
  <2>. QED
    BY <1>5, <2>2, <2>4 DEF AlarmAt
<1>7. ASSUME ~ (c < config.exit) PROVE AlarmAt(q, FALSE, 0, low, raised \cup {p})
  <2>1. c = config.exit
    BY <1>1, <1>4, <1>7
  <2>2. ~ WatchedAt(q)
    <3>1. ASSUME NEW t \in Places, Entered(t), t + config.enter <= q, Alive(t, q)
          PROVE  FALSE
      <4>1. t + config.enter - 1 \in t .. t + config.enter - 1
        BY <1>1
      <4>2. Finite(t + config.enter - 1) /\ High(t + config.enter - 1)
        BY <3>1, <4>1 DEF Entered
      <4>3. ~ Low(t + config.enter - 1)
        BY <4>2, HighIsNotLow
      <4>4. t + config.enter - 1 \notin q - c .. p
        BY <1>4, <4>3
      <4>5. q - config.exit \in t + config.enter .. q - config.exit
        BY <1>1, <2>1, <3>1, <4>4
      <4>6. PICK j \in q - config.exit .. q - config.exit + config.exit - 1 : ~ Low(j)
        BY <3>1, <4>5 DEF Alive
      <4>7. j \in q - c .. p
        BY <1>1, <2>1, <4>6
      <4>. QED
        BY <1>4, <4>6, <4>7
    <3>. QED
      BY <3>1 DEF WatchedAt
  <2>3. Highs(q, 0)
    <3>1. 0 \in 0 .. config.enter - 1 /\ q - 1 - 0 = p
      BY <1>1
    <3>2. \A j \in q - 0 .. q - 1 : FALSE
      OBVIOUS
    <3>3. p \in q - c .. p
      BY <1>1, <2>1
    <3>4. ~ High(p)
      BY <1>4, <3>3, HighIsNotLow
    <3>. QED
      BY <3>1, <3>2, <3>4 DEF Highs
  <2>. QED
    BY <1>5, <2>2, <2>3 DEF AlarmAt
<1>. QED
  BY <1>6, <1>7

\* The state of the hysteresis before the point the loop is at; once the loop
\* is over, what is alarmed is what was entered and lasts.
AlarmInv ==
  /\ post \in {"smooth", "threshold"} => alarmed = {}
  /\ post = "threshold" => point = 1
  /\ post = "alarm" => AlarmAt(point, active, above, below, alarmed)
  /\ post = "merge" => alarmed = RaisedBy(Length)

\* Nothing of this depends on more than the configuration and the scores.
LEMMA AlarmSame ==
  ASSUME config' = config, raw' = raw, decision' = decision, threshold' = threshold,
         NEW p, NEW act, NEW high, NEW low, NEW raised
  PROVE  /\ AlarmAt(p, act, high, low, raised)' <=> AlarmAt(p, act, high, low, raised)
         /\ RaisedBy(p)' = RaisedBy(p)
<1>1. \A i : (Finite(i)' <=> Finite(i)) /\ (High(i)' <=> High(i)) /\ (Low(i)' <=> Low(i))
  BY Zenon DEF Finite, High, Low
<1>2. \A s, i : (Entered(s)' <=> Entered(s)) /\ (Alive(s, i)' <=> Alive(s, i))
  BY Zenon, <1>1 DEF Entered, Alive
<1>3. \A s, i : Lasts(s, i)' <=> Lasts(s, i)
  BY Zenon, <1>1, <1>2 DEF Lasts
<1>4. \A i : RaisedBy(i)' = RaisedBy(i)
  BY Zenon, <1>2, <1>3 DEF RaisedBy
<1>5. WatchedAt(p)' <=> WatchedAt(p)
  BY Zenon, <1>1, <1>2 DEF WatchedAt
<1>6. \A n : (Highs(p, n)' <=> Highs(p, n)) /\ (Lows(p, n)' <=> Lows(p, n))
  BY Zenon, <1>1 DEF Highs, Lows
<1>7. AlarmAt(p, act, high, low, raised)' <=> AlarmAt(p, act, high, low, raised)
  BY Zenon, <1>1, <1>4, <1>5, <1>6 DEF AlarmAt
<1>. QED
  BY <1>4, <1>7

\* _build_hysteresis_predictions_for_segment, one point
LEMMA AlarmStep ==
  ASSUME PostTypes, Alarm, AlarmAt(point, active, above, below, alarmed),
         NEW q \in Int, q = point + 1
  PROVE  AlarmAt(q, active', above', below', alarmed')
<1>1. point \in Places /\ point \in Int
  BY DEF PostTypes, Places
<1>2. CASE ~ Finite(point)
  <2>1. UNCHANGED <<active, above, below, alarmed>>
    BY <1>2 DEF Alarm
  <2>. QED
    BY <1>1, <1>2, <2>1, AlarmSkips
<1>3. CASE Finite(point) /\ ~ WatchedAt(point)
  <2>1. ~ Finite(point - 1) \/ ~ active
    BY <1>3 DEF AlarmAt
  <2> DEFINE n == IF Finite(point - 1) THEN above ELSE 0
             c == IF High(point) THEN n + 1 ELSE 0
  <2>2. Highs(point, n) /\ alarmed = RaisedBy(point - 1)
    BY <1>3 DEF AlarmAt
  <2>3. /\ above' = c /\ active' = (c >= config.enter)
        /\ active' => alarmed' = alarmed \cup (point - config.enter + 1 .. point) /\ below' = 0
        /\ ~ active' => alarmed' = alarmed
    BY <1>3, <2>1 DEF Alarm, High
  <2> HIDE DEF n
  <2>4. AlarmAt(q, c >= config.enter, c, 0,
                IF c >= config.enter THEN alarmed \cup (point - config.enter + 1 .. point) ELSE alarmed)
    BY <1>1, <1>3, <2>2, AlarmWaits
  <2> HIDE DEF c
  <2>5. CASE c >= config.enter
    <3>1. /\ active' = TRUE /\ above' = c /\ below' = 0
          /\ alarmed' = alarmed \cup (point - config.enter + 1 .. point)
      BY <2>3, <2>5
    <3>2. (c >= config.enter) = TRUE
      BY <2>5
    <3>. QED
      BY <2>4, <2>5, <3>1, <3>2
  <2>6. CASE ~ (c >= config.enter)
    <3>1. (c >= config.enter) = FALSE
      BY <2>6
    <3>2. ~ active'
      BY <2>3, <2>6
    <3>3. active' = FALSE /\ above' = c /\ alarmed' = alarmed
      <4>1. active' = (c >= config.enter)
        BY <2>3
      <4>2. active' = FALSE
        BY <3>1, <4>1
      <4>. QED
        BY <2>3, <3>2, <4>2
    <3>4. AlarmAt(q, FALSE, c, 0, alarmed)
      BY <2>4, <2>6, <3>1
    <3>5. ~ WatchedAt(q)
      <4>1. Finite(q - 1)
        BY <1>1, <1>3
      <4>. QED
        BY <3>4, <4>1 DEF AlarmAt
    <3>. QED
      BY <3>3, <3>4, <3>5 DEF AlarmAt
  <2>. QED
    BY <2>5, <2>6
<1>4. CASE Finite(point) /\ WatchedAt(point)
  <2>1. Finite(point - 1) /\ active
    BY <1>4 DEF AlarmAt
  <2>2. Lows(point, below) /\ alarmed = RaisedBy(point - 1)
    BY <1>4 DEF AlarmAt
  <2> DEFINE c == IF Low(point) THEN below + 1 ELSE 0
  <2>3. /\ alarmed' = alarmed \cup {point}
        /\ active' = (c < config.exit)
        /\ below' = IF active' THEN c ELSE 0
        /\ above' = IF active' THEN above ELSE 0
    BY <1>4, <2>1 DEF Alarm, Low
  <2>4. /\ c < config.exit => AlarmAt(q, TRUE, above, c, alarmed \cup {point})
        /\ ~ (c < config.exit) => AlarmAt(q, FALSE, 0, 0, alarmed \cup {point})
    BY <1>1, <1>4, <2>2, AlarmWatches
  <2> HIDE DEF c
  <2>5. CASE c < config.exit
    <3>1. active' = TRUE /\ below' = c /\ above' = above
      BY <2>3, <2>5
    <3>. QED
      BY <2>3, <2>4, <2>5, <3>1
  <2>6. CASE ~ (c < config.exit)
    <3>1. active' = FALSE /\ below' = 0 /\ above' = 0
      <4>1. active' = (c < config.exit) /\ (c < config.exit) = FALSE
        BY <2>3, <2>6
      <4>2. active' = FALSE
        BY <4>1
      <4>. QED
        BY <2>3, <4>2
    <3>. QED
      BY <2>3, <2>4, <2>6, <3>1
  <2>. QED
    BY <2>5, <2>6
<1>. QED
  BY <1>2, <1>3, <1>4

----------------------------------------------------------------------------
(* The events                                                              *)

FinitePlaces == {i \in Places : Finite(i)}

\* The runs of finite scores
LEMMA FiniteRunIs ==
  ASSUME PostTypes, NEW run
  PROVE  /\ FinitePlaces \in SUBSET (1 .. Length) /\ FinitePlaces \in SUBSET Int /\ Length \in Nat
         /\ run \in FiniteRuns <=> (\E a, b \in FinitePlaces : IsRun(FinitePlaces, a, b) /\ run = a .. b)
<1>1. FinitePlaces \in SUBSET (1 .. Length) /\ Length \in Nat
  BY ConfigFacts DEF FinitePlaces
<1>2. FinitePlaces \in SUBSET Int
  BY <1>1
<1>3. FiniteRuns = Runs(FinitePlaces)
  BY DEF FiniteRuns, FinitePlaces
<1>. QED
  BY <1>1, <1>2, <1>3, RunIs

\* A finite place is in one run of them, and in no other.
LEMMA RunOfIs ==
  ASSUME PostTypes, NEW i, Finite(i)
  PROVE  \E a, b \in FinitePlaces : /\ IsRun(FinitePlaces, a, b) /\ a <= i /\ i <= b
                                    /\ a .. b \in FiniteRuns /\ RunOf(i) = a .. b
<1>1. /\ FinitePlaces \in SUBSET (1 .. Length) /\ FinitePlaces \in SUBSET Int /\ Length \in Nat
      /\ i \in FinitePlaces
  BY FiniteRunIs DEF FinitePlaces, Finite
<1>2. PICK a \in FinitePlaces, b \in FinitePlaces : IsRun(FinitePlaces, a, b) /\ a <= i /\ i <= b
  BY <1>1, RunAround
<1>3. a .. b \in FiniteRuns /\ i \in a .. b
  BY <1>1, <1>2, FiniteRunIs
<1>4. ASSUME NEW run \in FiniteRuns, i \in run PROVE run = a .. b
  <2>1. PICK c \in FinitePlaces, d \in FinitePlaces : IsRun(FinitePlaces, c, d) /\ run = c .. d
    BY FiniteRunIs
  <2>2. /\ a \in Int /\ b \in Int /\ c \in Int /\ d \in Int /\ i \in Int /\ c <= i /\ i <= d
        /\ Filled(FinitePlaces, a, b) /\ Filled(FinitePlaces, c, d)
    BY <1>1, <1>2, <1>4, <2>1 DEF IsRun, Filled
  <2>3. c <= a /\ b <= d
    BY <1>1, <1>2, <2>1, <2>2, RunReaches
  <2>4. a <= c /\ d <= b
    BY <1>1, <1>2, <2>1, <2>2, RunReaches
  <2>. QED
    BY <2>1, <2>2, <2>3, <2>4
<1>5. RunOf(i) = a .. b
  BY <1>3, <1>4 DEF RunOf
<1>. QED
  BY <1>2, <1>3, <1>5

\* The entries and what they hold are those the loop finds.
LEMMA EntriesAre ==
  ASSUME PostTypes
  PROVE  /\ \A s : s \in Entries <=> s \in Places /\ Entered(s)
         /\ \A s \in Places, i \in Places : Entered(s) => (Holding(s, i) <=> Lasts(s, i))
<1>1. /\ config.enter \in Nat \ {0} /\ \A s \in Places : s \in Nat \ {0}
      /\ FinitePlaces \in SUBSET Int
  BY ConfigFacts, FiniteRunIs
<1>2. ASSUME NEW s \in Entries PROVE s \in Places /\ Entered(s)
  <2>1. PICK run \in FiniteRuns : s .. s + config.enter - 1 \subseteq run
    BY DEF Entries
  <2>2. PICK c \in FinitePlaces, d \in FinitePlaces : IsRun(FinitePlaces, c, d) /\ run = c .. d
    BY FiniteRunIs
  <2>3. \A j \in s .. s + config.enter - 1 : Finite(j)
    BY <2>1, <2>2 DEF IsRun, FinitePlaces
  <2>. QED
    BY <2>3 DEF Entered, Entries, High
<1>3. ASSUME NEW s \in Places, Entered(s) PROVE s \in Entries
  <2>1. s \in s .. s + config.enter - 1
    BY <1>1
  <2>2. Filled(FinitePlaces, s, s + config.enter - 1)
    BY <1>3 DEF Entered, FinitePlaces, Finite, Filled
  <2>3. PICK a \in FinitePlaces, b \in FinitePlaces :
          IsRun(FinitePlaces, a, b) /\ a <= s /\ s <= b /\ a .. b \in FiniteRuns
    BY <1>3, <2>1, RunOfIs DEF Entered
  <2>4. a \in Int /\ b \in Int /\ s \in Int /\ s + config.enter - 1 \in Int /\ s <= s + config.enter - 1
    BY <1>1
  <2>5. a <= s /\ s + config.enter - 1 <= b
    BY <1>1, <2>2, <2>3, <2>4, RunReaches
  <2>6. s .. s + config.enter - 1 \subseteq a .. b
    BY <2>4, <2>5
  <2>. QED
    BY <1>3, <2>3, <2>6 DEF Entries, Entered, High
<1>4. ASSUME NEW s \in Places, NEW i \in Places, Entered(s)
      PROVE  Holding(s, i) <=> Lasts(s, i)
  <2>1. s \in s .. s + config.enter - 1 /\ s \in Int /\ i \in Int
    BY <1>1
  <2>2. Finite(s)
    BY <1>4, <2>1 DEF Entered
  <2>3. PICK a \in FinitePlaces, b \in FinitePlaces :
          IsRun(FinitePlaces, a, b) /\ a <= s /\ s <= b /\ RunOf(s) = a .. b
    BY <2>2, RunOfIs
  <2>4. a \in Int /\ b \in Int
    BY <1>1
  <2>5. ASSUME s <= i PROVE i \in a .. b <=> (\A j \in s .. i : Finite(j))
    <3>1. ASSUME i \in a .. b PROVE \A j \in s .. i : Finite(j)
      <4>1. \A j \in s .. i : j \in a .. b
        BY <2>1, <2>3, <2>4, <3>1
      <4>. QED
        BY <2>3, <4>1 DEF IsRun, FinitePlaces
    <3>2. ASSUME \A j \in s .. i : Finite(j) PROVE i \in a .. b
      <4>1. Filled(FinitePlaces, s, i)
        BY <3>2 DEF FinitePlaces, Finite, Filled
      <4>2. a <= s /\ i <= b
        BY <1>1, <2>1, <2>3, <2>4, <2>5, <4>1, RunReaches
      <4>. QED
        BY <2>1, <2>4, <2>5, <4>2
    <3>. QED
      BY <3>1, <3>2
  <2>6. Alive(s, i) <=> (\A k \in s + config.enter .. i - config.exit :
                            \E j \in k .. k + config.exit - 1 : decision[j] >= threshold.off)
    <3>1. ASSUME NEW k \in s + config.enter .. i - config.exit, NEW j \in k .. k + config.exit - 1
          PROVE  ~ Low(j) <=> decision[j] >= threshold.off
      <4>1. config.exit \in Nat \ {0} /\ Places = 1 .. Length /\ Length \in Nat
        BY ConfigFacts
      <4>2. j \in Places
        <5>1. s \in 1 .. Length /\ i \in 1 .. Length /\ config.enter \in Nat \ {0}
          BY <1>1, <4>1
        <5>2. j >= s + config.enter /\ j <= i - 1
          BY <4>1, <5>1
        <5>. QED
          BY <4>1, <5>1, <5>2
      <4>. QED
        BY <4>2 DEF Low, PostTypes
    <3>. QED
      BY <3>1 DEF Alive
  <2>. QED
    BY <2>3, <2>5, <2>6 DEF Holding, Lasts
<1>. QED
  BY <1>2, <1>3, <1>4

\* A gap in what is raised, inside a run of finite scores
GapAt(al, a, b, c, d) ==
  /\ a < c /\ c <= d /\ d < b
  /\ \A j \in c .. d : j \notin al
  /\ c - 1 \in al /\ d + 1 \in al

\* A small gap, from c to d
IsGap(al, a, b, gap) ==
  \E c, d \in a .. b : GapAt(al, a, b, c, d) /\ d - c + 1 <= config.gap /\ gap = c .. d

\* The small gaps in a set of points, as _fill_small_gaps finds them
GapsOf(al, run) ==
  {gap \in Runs(run \ al) : Min(gap) # Min(run) /\ Max(gap) # Max(run) /\ Cardinality(gap) <= config.gap}

\* The small gaps of a run are those between two of its raised points.
LEMMA GapsAre ==
  ASSUME PostTypes, NEW al, NEW a \in FinitePlaces, NEW b \in FinitePlaces,
         IsRun(FinitePlaces, a, b), NEW gap
  PROVE  gap \in GapsOf(al, a .. b) <=> IsGap(al, a, b, gap)
<1>1. FinitePlaces \in SUBSET Int /\ a \in Int /\ b \in Int /\ a <= b /\ config.gap \in Nat
  BY FiniteRunIs, ConfigFacts DEF IsRun
<1> DEFINE S == (a .. b) \ al
<1>2. S \in SUBSET Int
  OBVIOUS
<1>3. Min(a .. b) = a /\ Max(a .. b) = b
  BY <1>1, IntervalIs
<1>4. ASSUME NEW c \in a .. b, NEW d \in a .. b, c <= d
      PROVE  Min(c .. d) = c /\ Max(c .. d) = d /\ Cardinality(c .. d) = d - c + 1
  <2>1. c \in Int /\ d \in Int
    OBVIOUS
  <2>. QED
    BY <1>4, <2>1, IntervalIs
<1>5. ASSUME gap \in GapsOf(al, a .. b) PROVE IsGap(al, a, b, gap)
  <2>1. /\ gap \in Runs(S) /\ Min(gap) # a /\ Max(gap) # b /\ Cardinality(gap) <= config.gap
    BY <1>3, <1>5 DEF GapsOf
  <2>2. PICK c \in S, d \in S : IsRun(S, c, d) /\ gap = c .. d
    BY <1>2, <2>1, RunIs
  <2>3. c \in a .. b /\ d \in a .. b /\ c <= d
    BY <2>2 DEF IsRun
  <2>4. c # a /\ d # b /\ d - c + 1 <= config.gap
    BY <1>4, <2>1, <2>2, <2>3
  <2>5. a < c /\ d < b /\ c - 1 \in a .. b /\ d + 1 \in a .. b
    BY <1>1, <2>3, <2>4
  <2>6. c - 1 \in al /\ d + 1 \in al
    BY <2>2, <2>5 DEF IsRun
  <2>7. \A j \in c .. d : j \notin al
    BY <2>2 DEF IsRun
  <2>8. GapAt(al, a, b, c, d)
    BY <2>3, <2>5, <2>6, <2>7 DEF GapAt
  <2>. QED
    BY <2>2, <2>3, <2>4, <2>8 DEF IsGap
<1>6. ASSUME NEW c \in a .. b, NEW d \in a .. b, GapAt(al, a, b, c, d), d - c + 1 <= config.gap,
             gap = c .. d
      PROVE  gap \in GapsOf(al, a .. b)
  <2>1. /\ a < c /\ c <= d /\ d < b /\ c - 1 \in al /\ d + 1 \in al
        /\ \A j \in c .. d : j \notin al
    BY <1>6 DEF GapAt
  <2>2. \A j \in c .. d : j \in S
    BY <1>1, <2>1
  <2>3. c \in S /\ d \in S /\ c - 1 \notin S /\ d + 1 \notin S
    BY <2>1
  <2>4. IsRun(S, c, d)
    BY <2>1, <2>2, <2>3 DEF IsRun
  <2> HIDE DEF S
  <2>5. gap \in Runs(S)
    BY <1>2, <1>6, <2>3, <2>4, RunIs
  <2>6. Min(gap) = c /\ Max(gap) = d /\ Cardinality(gap) = d - c + 1 /\ c # a /\ d # b
    BY <1>1, <1>4, <1>6, <2>1
  <2>. QED
    BY <1>3, <1>6, <2>5, <2>6 DEF GapsOf, S
<1>. QED
  BY <1>5, <1>6 DEF IsGap

\* Events do not reach over a gap in the scores.
LEMMA EventsAre ==
  ASSUME PostTypes, NEW al \in SUBSET FinitePlaces, NEW event
  PROVE  event \in UNION {Runs(run \cap al) : run \in FiniteRuns} <=> event \in Runs(al)
<1>1. /\ FinitePlaces \in SUBSET (1 .. Length) /\ FinitePlaces \in SUBSET Int /\ Length \in Nat
      /\ al \in SUBSET Int
  BY FiniteRunIs
<1>2. ASSUME NEW run \in FiniteRuns, event \in Runs(run \cap al) PROVE event \in Runs(al)
  <2>1. PICK a \in FinitePlaces, b \in FinitePlaces : IsRun(FinitePlaces, a, b) /\ run = a .. b
    BY FiniteRunIs
  <2>2. run \cap al \in SUBSET Int
    BY <1>1
  <2>3. PICK c \in run \cap al, d \in run \cap al : IsRun(run \cap al, c, d) /\ event = c .. d
    BY <1>2, <2>2, RunIs
  <2>4. /\ a \in Int /\ b \in Int /\ c \in Int /\ d \in Int /\ c <= d /\ a <= c /\ d <= b
        /\ a - 1 \notin al /\ b + 1 \notin al
    BY <1>1, <2>1, <2>3 DEF IsRun
  <2>5. c - 1 \notin al
    <3>1. SUFFICES ASSUME c - 1 \in al PROVE FALSE
      OBVIOUS
    <3>2. c - 1 \in a .. b
      BY <2>4, <3>1
    <3>. QED
      BY <2>1, <2>3, <3>1, <3>2 DEF IsRun
  <2>6. d + 1 \notin al
    <3>1. SUFFICES ASSUME d + 1 \in al PROVE FALSE
      OBVIOUS
    <3>2. d + 1 \in a .. b
      BY <2>4, <3>1
    <3>. QED
      BY <2>1, <2>3, <3>1, <3>2 DEF IsRun
  <2>7. IsRun(al, c, d)
    BY <2>3, <2>5, <2>6 DEF IsRun
  <2>. QED
    BY <1>1, <2>3, <2>7, RunIs
<1>3. ASSUME event \in Runs(al) PROVE \E run \in FiniteRuns : event \in Runs(run \cap al)
  <2>1. PICK c \in al, d \in al : IsRun(al, c, d) /\ event = c .. d
    BY <1>1, <1>3, RunIs
  <2>2. c \in FinitePlaces /\ Finite(c) /\ c \in Int /\ d \in Int /\ c <= d
    BY <1>1, <2>1 DEF FinitePlaces, IsRun
  <2>3. PICK a \in FinitePlaces, b \in FinitePlaces :
          IsRun(FinitePlaces, a, b) /\ a <= c /\ c <= b /\ a .. b \in FiniteRuns
    BY <2>2, RunOfIs
  <2>4. Filled(FinitePlaces, c, d) /\ a \in Int /\ b \in Int /\ c <= c
    BY <1>1, <2>1, <2>2 DEF IsRun, Filled
  <2>5. d <= b
    BY <1>1, <2>2, <2>3, <2>4, RunReaches
  <2>6. \A j \in c .. d : j \in (a .. b) \cap al
    BY <2>1, <2>2, <2>3, <2>4, <2>5 DEF IsRun
  <2>7. IsRun((a .. b) \cap al, c, d) /\ c \in (a .. b) \cap al /\ d \in (a .. b) \cap al
    <3>1. c \in (a .. b) \cap al /\ d \in (a .. b) \cap al
      BY <2>2, <2>6
    <3>. QED
      BY <2>1, <2>6, <3>1 DEF IsRun
  <2>8. (a .. b) \cap al \in SUBSET Int
    OBVIOUS
  <2>9. event \in Runs((a .. b) \cap al)
    BY <2>1, <2>7, <2>8, RunIs
  <2>. QED
    BY <2>3, <2>9
<1>. QED
  BY <1>2, <1>3

\* Each point raised is raised from an entry on, and an entry raises its points.
Backed(al) ==
  /\ al \in SUBSET FinitePlaces
  /\ \A i \in al : \E s \in al : /\ s \in Places /\ Entered(s) /\ Lasts(s, i) /\ s <= i
                                 /\ Filled(al, s, i)
  /\ \A s \in Places : Entered(s) => Filled(al, s, s + config.enter - 1)

\* What the hysteresis raises is backed.
LEMMA RaisedIsBacked ==
  ASSUME PostTypes
  PROVE  Backed(RaisedBy(Length))
<1>1. /\ config.enter \in Nat \ {0} /\ config.exit \in Nat \ {0} /\ Length \in Nat
      /\ Places = 1 .. Length /\ \A s \in Places : s \in Nat \ {0}
  BY ConfigFacts
<1>2. RaisedBy(Length) \in SUBSET FinitePlaces
  <2>1. ASSUME NEW i \in RaisedBy(Length) PROVE i \in FinitePlaces
    <3>1. PICK s \in Places : Lasts(s, i)
      BY DEF RaisedBy
    <3>2. i \in Places /\ i \in s .. i
      BY <1>1, <3>1 DEF RaisedBy, Lasts
    <3>. QED
      BY <3>1, <3>2 DEF Lasts, FinitePlaces
  <2>. QED
    BY <2>1
<1>3. ASSUME NEW i \in RaisedBy(Length)
      PROVE  \E s \in RaisedBy(Length) : /\ s \in Places /\ Entered(s) /\ Lasts(s, i) /\ s <= i
                                         /\ Filled(RaisedBy(Length), s, i)
  <2>1. PICK s \in Places : Entered(s) /\ s + config.enter - 1 <= Length /\ Lasts(s, i)
    BY DEF RaisedBy
  <2>2. i \in 1 .. Length /\ s <= i /\ s \in Int
    BY <1>1, <2>1 DEF RaisedBy, Lasts
  <2>3. ASSUME NEW j \in s .. i PROVE j \in RaisedBy(Length)
    <3>1. j \in 1 .. Length /\ s <= j /\ j <= i /\ \A k \in s .. j : k \in s .. i
      BY <1>1, <2>2
    <3>2. Alive(s, j)
      BY <2>1, <2>2, <3>1, AliveBefore DEF Lasts
    <3>3. Lasts(s, j)
      BY <2>1, <3>1, <3>2 DEF Lasts
    <3>. QED
      BY <2>1, <3>1, <3>3 DEF RaisedBy
  <2>4. s \in RaisedBy(Length)
    BY <2>2, <2>3
  <2>. QED
    BY <2>1, <2>2, <2>3, <2>4 DEF Filled
<1>4. ASSUME NEW s \in Places, Entered(s), NEW i \in s .. s + config.enter - 1
      PROVE  i \in RaisedBy(Length)
  <2>1. s + config.enter - 1 \in s .. s + config.enter - 1
    BY <1>1
  <2>2. Finite(i) /\ Finite(s + config.enter - 1)
    BY <1>4, <2>1 DEF Entered
  <2>3. i \in 1 .. Length /\ s + config.enter - 1 <= Length /\ s <= i
    BY <1>1, <2>2 DEF Finite
  <2>4. \A k \in s + config.enter .. i - config.exit : FALSE
    BY <1>1
  <2>5. \A k \in s .. i : k \in s .. s + config.enter - 1
    BY <1>1
  <2>6. Lasts(s, i)
    BY <1>4, <2>3, <2>4, <2>5 DEF Lasts, Alive, Entered
  <2>. QED
    BY <1>4, <2>3, <2>6 DEF RaisedBy
<1>. QED
  BY <1>2, <1>3, <1>4 DEF Backed, Filled

\* Gaps that were small are filled, and what was filled is no end of an event.
Mended(al, by) ==
  /\ Backed(by)
  /\ al \in SUBSET FinitePlaces /\ by \in SUBSET al
  /\ \A i \in al : i - 1 \notin al \/ i + 1 \notin al => i \in by
  /\ \A run \in FiniteRuns : GapsOf(al, run) = {}

\* aggregate_prediction_events, _fill_small_gaps in every run
LEMMA MergeStep ==
  ASSUME PostTypes, Merge, Backed(alarmed)
  PROVE  Mended(alarmed', alarmed)
<1>1. FinitePlaces \in SUBSET (1 .. Length) /\ FinitePlaces \in SUBSET Int /\ Length \in Nat
  BY FiniteRunIs
<1>2. alarmed \in SUBSET FinitePlaces
  BY DEF Backed
<1>3. alarmed' = alarmed \cup UNION UNION {GapsOf(alarmed, run) : run \in FiniteRuns}
  BY DEF Merge, SmallGaps, GapsOf
<1>4. ASSUME NEW i \in alarmed', i \notin alarmed
      PROVE  \E a, b \in FinitePlaces, c, d \in Int :
               /\ IsRun(FinitePlaces, a, b) /\ GapAt(alarmed, a, b, c, d)
               /\ i \in c .. d /\ c .. d \subseteq alarmed'
  <2>1. PICK run \in FiniteRuns : \E gap \in GapsOf(alarmed, run) : i \in gap
    BY <1>3, <1>4
  <2>2. PICK gap \in GapsOf(alarmed, run) : i \in gap
    BY <2>1
  <2>3. PICK a \in FinitePlaces, b \in FinitePlaces : IsRun(FinitePlaces, a, b) /\ run = a .. b
    BY FiniteRunIs
  <2>4. PICK c \in a .. b, d \in a .. b : GapAt(alarmed, a, b, c, d) /\ gap = c .. d
    <3>1. gap \in GapsOf(alarmed, a .. b)
      BY <2>3
    <3>2. IsGap(alarmed, a, b, gap)
      BY <2>3, <3>1, GapsAre
    <3>. QED
      BY <3>2 DEF IsGap
  <2>5. gap \subseteq alarmed'
    BY <1>3, <2>2
  <2>. QED
    BY <2>2, <2>3, <2>4, <2>5
<1>5. alarmed' \in SUBSET FinitePlaces
  <2>1. ASSUME NEW i \in alarmed', i \notin alarmed PROVE i \in FinitePlaces
    <3>1. PICK a \in FinitePlaces, b \in FinitePlaces, c \in Int, d \in Int :
            IsRun(FinitePlaces, a, b) /\ GapAt(alarmed, a, b, c, d) /\ i \in c .. d
      BY <1>4, <2>1
    <3>2. i \in a .. b
      BY <1>1, <3>1 DEF GapAt
    <3>. QED
      BY <3>1, <3>2 DEF IsRun
  <2>. QED
    BY <1>2, <2>1
<1>6. ASSUME NEW i \in alarmed', i \notin alarmed PROVE i - 1 \in alarmed' /\ i + 1 \in alarmed'
  <2>1. PICK a \in FinitePlaces, b \in FinitePlaces, c \in Int, d \in Int :
          GapAt(alarmed, a, b, c, d) /\ i \in c .. d /\ c .. d \subseteq alarmed'
    BY <1>4, <1>6
  <2>2. i - 1 = c - 1 \/ i - 1 \in c .. d
    BY <2>1
  <2>3. i + 1 = d + 1 \/ i + 1 \in c .. d
    BY <2>1
  <2>4. c - 1 \in alarmed' /\ d + 1 \in alarmed'
    BY <1>3, <2>1 DEF GapAt
  <2>. QED
    BY <2>1, <2>2, <2>3, <2>4
<1>7. ASSUME NEW run \in FiniteRuns, NEW gap \in GapsOf(alarmed', run) PROVE FALSE
  <2>1. PICK a \in FinitePlaces, b \in FinitePlaces : IsRun(FinitePlaces, a, b) /\ run = a .. b
    BY FiniteRunIs
  <2>2. PICK c \in a .. b, d \in a .. b :
          GapAt(alarmed', a, b, c, d) /\ d - c + 1 <= config.gap /\ gap = c .. d
    <3>1. gap \in GapsOf(alarmed', a .. b)
      BY <2>1
    <3>2. IsGap(alarmed', a, b, gap)
      BY <2>1, <3>1, GapsAre
    <3>. QED
      BY <3>2 DEF IsGap
  <2>3. /\ c - 1 \in alarmed' /\ d + 1 \in alarmed' /\ c \notin alarmed' /\ d \notin alarmed'
        /\ c - 1 + 1 = c /\ d + 1 - 1 = d
    BY <2>2 DEF GapAt
  <2>4. c - 1 \in alarmed /\ d + 1 \in alarmed
    BY <1>6, <2>3
  <2>5. GapAt(alarmed, a, b, c, d)
    BY <1>3, <2>2, <2>4 DEF GapAt
  <2>6. gap \in GapsOf(alarmed, run)
    BY <2>1, <2>2, <2>5, GapsAre DEF IsGap
  <2>7. gap \subseteq alarmed'
    BY <1>3, <2>6
  <2>. QED
    BY <2>2, <2>3, <2>7 DEF GapAt
<1>. QED
  BY <1>3, <1>5, <1>6, <1>7 DEF Mended

\* What AlarmsAreEvents says of the alarms in the end
Settled(al) ==
  /\ \A event \in UNION {Runs(run \cap al) : run \in FiniteRuns} :
       /\ Cardinality(event) >= config.least
       /\ Min(event) \in Entries
       /\ \E s \in Entries \cap event : Holding(s, Max(event))
  /\ \A run \in FiniteRuns : GapsOf(al, run) = {}
  /\ al \subseteq UNION FiniteRuns
  /\ \A s \in Entries : s \notin al => config.enter < config.least

\* The run of a set a place is in, when it is long enough
InLongRun(S, x) == \E c, d \in S : IsRun(S, c, d) /\ d - c + 1 >= config.least /\ x \in c .. d

\* _drop_short_events keeps the points of the long runs.
LEMMA DropKeeps ==
  ASSUME PostTypes, Drop, alarmed \in SUBSET FinitePlaces, NEW x
  PROVE  x \in alarmed' <=> InLongRun(alarmed, x)
<1>1. alarmed \in SUBSET Int /\ config.least \in Nat
  BY FiniteRunIs, ConfigFacts
<1>2. alarmed' = UNION {event \in UNION {Runs(run \cap alarmed) : run \in FiniteRuns} :
                          Cardinality(event) >= config.least}
  BY DEF Drop
<1>3. \A event : event \in UNION {Runs(run \cap alarmed) : run \in FiniteRuns} <=> event \in Runs(alarmed)
  BY EventsAre
<1>4. x \in alarmed' <=> \E event \in Runs(alarmed) : Cardinality(event) >= config.least /\ x \in event
  BY <1>2, <1>3
<1>5. ASSUME NEW c \in alarmed, NEW d \in alarmed, IsRun(alarmed, c, d)
      PROVE  c .. d \in Runs(alarmed) /\ Cardinality(c .. d) = d - c + 1
  <2>1. c \in Int /\ d \in Int /\ c <= d
    BY <1>1, <1>5 DEF IsRun
  <2>. QED
    BY <1>1, <1>5, <2>1, RunIs, IntervalIs
<1>6. ASSUME NEW event \in Runs(alarmed), Cardinality(event) >= config.least, x \in event
      PROVE  InLongRun(alarmed, x)
  <2>1. PICK c \in alarmed, d \in alarmed : IsRun(alarmed, c, d) /\ event = c .. d
    BY <1>1, RunIs
  <2>2. d - c + 1 >= config.least
    BY <1>5, <1>6, <2>1
  <2>. QED
    BY <1>6, <2>1, <2>2 DEF InLongRun
<1>7. ASSUME InLongRun(alarmed, x)
      PROVE  \E event \in Runs(alarmed) : Cardinality(event) >= config.least /\ x \in event
  <2>1. PICK c \in alarmed, d \in alarmed :
          IsRun(alarmed, c, d) /\ d - c + 1 >= config.least /\ x \in c .. d
    BY <1>7 DEF InLongRun
  <2>2. c .. d \in Runs(alarmed) /\ Cardinality(c .. d) >= config.least
    BY <1>5, <2>1
  <2>. QED
    BY <2>1, <2>2
<1>. QED
  BY <1>4, <1>6, <1>7

\* Runs that remain were runs before.
LEMMA KeptRuns ==
  ASSUME PostTypes, Drop, alarmed \in SUBSET FinitePlaces,
         NEW c \in alarmed', NEW d \in alarmed', IsRun(alarmed', c, d)
  PROVE  c \in alarmed /\ d \in alarmed /\ IsRun(alarmed, c, d) /\ d - c + 1 >= config.least
<1>1. alarmed \in SUBSET Int /\ config.least \in Nat
  BY FiniteRunIs, ConfigFacts
<1>2. \A x : x \in alarmed' <=> InLongRun(alarmed, x)
  BY DropKeeps
<1>3. alarmed' \in SUBSET alarmed
  <2>1. ASSUME NEW x, InLongRun(alarmed, x) PROVE x \in alarmed
    BY <2>1 DEF InLongRun, IsRun
  <2>. QED
    BY <1>2, <2>1
<1>4. PICK S : S = alarmed'
  OBVIOUS
<1>5. S \in SUBSET Int /\ S \in SUBSET alarmed /\ IsRun(S, c, d) /\ c \in S /\ d \in S
  BY <1>1, <1>3, <1>4
<1>6. PICK u \in alarmed, v \in alarmed :
        IsRun(alarmed, u, v) /\ v - u + 1 >= config.least /\ c \in u .. v
  BY <1>2 DEF InLongRun
<1>7. c \in Int /\ d \in Int /\ u \in Int /\ v \in Int /\ c <= d /\ u <= c /\ c <= v /\ c <= c
  BY <1>1, <1>5, <1>6 DEF IsRun
<1>8. Filled(S, u, v)
  <2>1. ASSUME NEW j \in u .. v PROVE j \in alarmed'
    BY <1>2, <1>6, <2>1 DEF InLongRun
  <2>. QED
    BY <1>4, <2>1 DEF Filled
<1>9. c <= u /\ v <= d
  BY <1>5, <1>7, <1>8, RunReaches
<1>10. Filled(alarmed, c, d)
  BY <1>5 DEF Filled, IsRun
<1>11. d <= v
  BY <1>1, <1>6, <1>7, <1>10, RunReaches
<1>12. u = c /\ v = d
  BY <1>7, <1>9, <1>11
<1>. QED
  BY <1>6, <1>12

\* The ends of an event are points the hysteresis has raised.
LEMMA EndsHold ==
  ASSUME PostTypes, NEW al, NEW by, Mended(al, by), NEW c \in al, NEW d \in al, IsRun(al, c, d)
  PROVE  c \in Entries /\ \E s \in Entries \cap (c .. d) : Holding(s, d)
<1>1. FinitePlaces \in SUBSET (1 .. Length) /\ FinitePlaces \in SUBSET Int /\ Places = 1 .. Length
  BY FiniteRunIs DEF Places
<1>2. /\ Backed(by) /\ al \in SUBSET FinitePlaces /\ by \in SUBSET al
      /\ al \in SUBSET Int /\ al \in SUBSET Places
  BY <1>1 DEF Mended
<1>3. c \in Int /\ d \in Int /\ c <= d /\ c - 1 \notin al /\ d + 1 \notin al /\ Filled(al, c, d)
  BY <1>2 DEF IsRun, Filled
<1>4. c \in by /\ d \in by
  BY <1>3 DEF Mended
<1>5. ASSUME NEW i \in {c, d}
      PROVE  \E s \in Entries : c <= s /\ s <= i /\ Holding(s, i)
  <2>1. i \in by /\ i \in Int /\ c <= i /\ i <= d /\ i \in Places
    BY <1>2, <1>3, <1>4
  <2>2. PICK s \in by : /\ s \in Places /\ Entered(s) /\ Lasts(s, i) /\ s <= i
                        /\ Filled(by, s, i)
    BY <1>2, <2>1 DEF Backed
  <2>3. Filled(al, s, i) /\ s \in Int /\ i <= i
    BY <1>2, <2>1, <2>2 DEF Filled
  <2>4. c <= s
    BY <1>2, <1>3, <2>1, <2>2, <2>3, RunReaches
  <2>5. s \in Entries /\ Holding(s, i)
    BY <2>1, <2>2, EntriesAre
  <2>. QED
    BY <2>2, <2>4, <2>5
<1>6. PICK s \in Entries : c <= s /\ s <= c
  BY <1>5
<1>7. PICK t \in Entries : c <= t /\ t <= d /\ Holding(t, d)
  BY <1>5
<1>8. s \in Places /\ t \in Places /\ Places \in SUBSET Int
  BY <1>1 DEF Entries
<1>9. s = c /\ t \in c .. d
  BY <1>3, <1>6, <1>7, <1>8
<1>. QED
  BY <1>6, <1>7, <1>9

\* _drop_short_events
LEMMA DropStep ==
  ASSUME PostTypes, Drop, NEW by, Mended(alarmed, by)
  PROVE  Settled(alarmed')
<1>1. /\ FinitePlaces \in SUBSET (1 .. Length) /\ FinitePlaces \in SUBSET Int /\ Length \in Nat
      /\ config.least \in Nat /\ config.enter \in Nat \ {0} /\ config.gap \in Nat
  BY FiniteRunIs, ConfigFacts
<1>2. /\ alarmed \in SUBSET FinitePlaces /\ alarmed \in SUBSET Int /\ alarmed \in SUBSET (1 .. Length)
      /\ Backed(by) /\ by \in SUBSET alarmed
  BY <1>1 DEF Mended
<1>3. \A x : x \in alarmed' <=> InLongRun(alarmed, x)
  BY <1>2, DropKeeps
<1>4. alarmed' \in SUBSET alarmed
  <2>1. ASSUME NEW x, InLongRun(alarmed, x) PROVE x \in alarmed
    BY <2>1 DEF InLongRun, IsRun
  <2>. QED
    BY <1>3, <2>1
<1>5. PICK K : K = alarmed'
  OBVIOUS
<1>6. K \in SUBSET alarmed /\ K \in SUBSET FinitePlaces /\ K \in SUBSET Int
  BY <1>2, <1>4, <1>5
<1>7. ASSUME NEW event \in UNION {Runs(run \cap K) : run \in FiniteRuns}
      PROVE  /\ Cardinality(event) >= config.least
             /\ Min(event) \in Entries
             /\ \E s \in Entries \cap event : Holding(s, Max(event))
  <2>1. event \in Runs(K)
    BY <1>6, EventsAre
  <2>2. PICK c \in K, d \in K : IsRun(K, c, d) /\ event = c .. d
    BY <1>6, <2>1, RunIs
  <2>3. c \in alarmed /\ d \in alarmed /\ IsRun(alarmed, c, d) /\ d - c + 1 >= config.least
    BY <1>2, <1>5, <2>2, KeptRuns
  <2>4. c \in Int /\ d \in Int /\ c <= d
    BY <1>2, <2>3 DEF IsRun
  <2>5. Min(event) = c /\ Max(event) = d /\ Cardinality(event) = d - c + 1
    BY <2>2, <2>4, IntervalIs
  <2>6. c \in Entries /\ \E s \in Entries \cap (c .. d) : Holding(s, d)
    BY <2>3, EndsHold
  <2>. QED
    BY <2>2, <2>3, <2>5, <2>6
<1>8. ASSUME NEW run \in FiniteRuns, NEW gap \in GapsOf(K, run) PROVE FALSE
  <2>1. PICK a \in FinitePlaces, b \in FinitePlaces : IsRun(FinitePlaces, a, b) /\ run = a .. b
    BY FiniteRunIs
  <2>2. gap \in GapsOf(K, a .. b)
    BY <1>8, <2>1
  <2>3. IsGap(K, a, b, gap)
    BY <2>1, <2>2, GapsAre
  <2>4. PICK c \in a .. b, d \in a .. b : GapAt(K, a, b, c, d) /\ d - c + 1 <= config.gap
    BY <2>3 DEF IsGap
  <2>5. /\ a \in Int /\ b \in Int /\ c \in Int /\ d \in Int /\ a < c /\ c <= d /\ d < b
        /\ c - 1 \in K /\ d + 1 \in K /\ c \notin K
    BY <1>1, <2>4 DEF GapAt
  <2>6. c \notin alarmed
    <3>1. SUFFICES ASSUME c \in alarmed PROVE FALSE
      OBVIOUS
    <3>2. PICK u \in alarmed, v \in alarmed :
            IsRun(alarmed, u, v) /\ v - u + 1 >= config.least /\ c - 1 \in u .. v
      BY <1>3, <1>5, <2>5 DEF InLongRun
    <3>3. u \in Int /\ v \in Int /\ v + 1 \notin alarmed
      BY <1>2, <3>2 DEF IsRun
    <3>4. c # v + 1
      BY <3>1, <3>3
    <3>5. c \in u .. v
      BY <2>5, <3>2, <3>3, <3>4
    <3>. QED
      BY <1>3, <1>5, <2>5, <3>2, <3>5 DEF InLongRun
  <2>7. PICK j \in {y \in alarmed : c < y} : \A k \in {y \in alarmed : c < y} : j <= k
    <3>1. {y \in alarmed : c < y} \in SUBSET Nat
      <4>1. \A j \in alarmed : j \in Nat
        BY <1>1, <1>2
      <4>. QED
        BY <4>1
    <3>2. d + 1 \in {y \in alarmed : c < y}
      BY <1>6, <2>5
    <3>. QED
      BY <3>1, <3>2, LeastNatural
  <2>8. j \in Int /\ j \in alarmed /\ c < j /\ j <= d + 1
    BY <1>2, <1>6, <2>5, <2>7
  <2>9. PICK e \in Int : e = j - 1
    BY <2>8
  <2>10. e \in a .. b /\ c <= e /\ e < b /\ e + 1 = j /\ e - c + 1 <= config.gap
    BY <1>1, <2>4, <2>5, <2>8, <2>9
  <2>11. \A k \in c .. e : k \notin alarmed
    <3>1. ASSUME NEW k \in c .. e, k \in alarmed PROVE FALSE
      <4>1. k = c \/ c < k
        BY <2>5
      <4>2. k < j
        BY <2>8, <2>9
      <4>3. c < k
        BY <2>6, <3>1, <4>1
      <4>. QED
        BY <2>7, <2>8, <3>1, <4>2, <4>3
    <3>. QED
      BY <3>1
  <2>12. GapAt(alarmed, a, b, c, e)
    BY <1>6, <2>5, <2>8, <2>10, <2>11 DEF GapAt
  <2>13. IsGap(alarmed, a, b, c .. e)
    BY <2>10, <2>12 DEF IsGap
  <2>14. c .. e \in GapsOf(alarmed, a .. b)
    BY <2>1, <2>13, GapsAre
  <2>. QED
    BY <1>8, <2>1, <2>14 DEF Mended
<1>9. K \subseteq UNION FiniteRuns
  <2>1. ASSUME NEW x \in K PROVE \E run \in FiniteRuns : x \in run
    <3>1. Finite(x) /\ x \in Int
      BY <1>6 DEF FinitePlaces
    <3>2. PICK a \in FinitePlaces, b \in FinitePlaces : a <= x /\ x <= b /\ a .. b \in FiniteRuns
      BY <3>1, RunOfIs
    <3>3. x \in a .. b
      BY <1>1, <3>1, <3>2
    <3>. QED
      BY <3>2, <3>3
  <2>. QED
    BY <2>1
<1>10. ASSUME NEW s \in Entries, s \notin K PROVE config.enter < config.least
  <2>1. s \in Places /\ Entered(s) /\ s \in Int
    BY EntriesAre DEF Entries, Places
  <2>2. Filled(by, s, s + config.enter - 1)
    BY <1>2, <2>1 DEF Backed
  <2>3. PICK y \in Int : y = s + config.enter - 1
    BY <1>1, <2>1
  <2>4. Filled(alarmed, s, y) /\ s <= y
    BY <1>1, <1>2, <2>1, <2>2, <2>3 DEF Filled
  <2>5. s \in alarmed
    <3>1. s \in s .. y
      BY <2>1, <2>3, <2>4
    <3>. QED
      BY <2>4, <3>1 DEF Filled
  <2>6. PICK a \in alarmed, b \in alarmed : IsRun(alarmed, a, b) /\ a <= s /\ s <= b
    BY <1>1, <1>2, <2>5, RunAround
  <2>7. a \in Int /\ b \in Int /\ s <= s
    BY <1>2, <2>1
  <2>8. y <= b
    BY <1>2, <2>1, <2>3, <2>4, <2>6, <2>7, RunReaches
  <2>9. s \in a .. b
    BY <2>1, <2>6, <2>7
  <2>10. ~ (b - a + 1 >= config.least)
    BY <1>3, <1>5, <1>10, <2>6, <2>9 DEF InLongRun
  <2>. QED
    BY <1>1, <2>1, <2>3, <2>6, <2>7, <2>8, <2>10
<1>11. Settled(K)
  BY <1>7, <1>8, <1>9, <1>10 DEF Settled
<1>. QED
  BY <1>5, <1>11

----------------------------------------------------------------------------
(* Powers and sums                                                         *)

\* A function that is multiplied by b from place to place
Multiplies(f, b, n) == f = [k \in 0 .. n |-> IF k = 0 THEN 1 ELSE b * f[k - 1]]

\* There is one on every interval.
LEMMA MultiplesExist ==
  ASSUME NEW b \in Nat, NEW n \in Nat
  PROVE  \E f : Multiplies(f, b, n)
<1> DEFINE S == {k \in Nat : ~ \E f : Multiplies(f, b, k)}
<1>1. SUFFICES ASSUME n \in S PROVE FALSE
  OBVIOUS
<1>2. S \in SUBSET Nat
  OBVIOUS
<1>3. PICK m \in S : \A k \in S : m <= k
  BY <1>1, <1>2, LeastNatural
<1>4. CASE m = 0
  <2> DEFINE f == [k \in 0 .. m |-> 1]
  <2>1. [k \in 0 .. m |-> IF k = 0 THEN 1 ELSE b * f[k - 1]] = f
    BY <1>4
  <2>2. Multiplies(f, b, m)
    BY <2>1 DEF Multiplies
  <2> HIDE DEF f
  <2>. QED
    BY <2>2
<1>5. CASE m # 0
  <2>1. m - 1 \in Nat /\ ~ (m <= m - 1)
    BY <1>5
  <2>2. m - 1 \notin S
    BY <1>3, <2>1
  <2>3. PICK f : Multiplies(f, b, m - 1)
    BY <2>1, <2>2
  <2> DEFINE g == [k \in 0 .. m |-> IF k = 0 THEN 1 ELSE b * f[k - 1]]
  <2>4. ASSUME NEW k \in 0 .. m - 1 PROVE f[k] = IF k = 0 THEN 1 ELSE b * f[k - 1]
    BY <2>3 DEF Multiplies
  <2>5. ASSUME NEW k \in 0 .. m PROVE g[k] = IF k = 0 THEN 1 ELSE b * g[k - 1]
    <3>1. CASE k = 0
      BY <3>1
    <3>2. CASE k # 0
      <4>1. k - 1 \in 0 .. m - 1 /\ k - 1 \in 0 .. m
        BY <3>2
      <4>2. g[k - 1] = f[k - 1]
        BY <2>4, <4>1
      <4>3. g[k] = b * f[k - 1]
        BY <3>2
      <4>. QED
        BY <3>2, <4>2, <4>3
    <3>. QED
      BY <3>1, <3>2
  <2>6. g = [k \in 0 .. m |-> g[k]]
    OBVIOUS
  <2> HIDE DEF g
  <2>7. Multiplies(g, b, m)
    BY <2>5, <2>6 DEF Multiplies
  <2>. QED
    BY <2>7
<1>. QED
  BY <1>4, <1>5

\* The powers are numbers, each b times the one before.
LEMMA PowersGrow ==
  ASSUME Length \in Nat, NEW b \in Nat
  PROVE  /\ WeightPowers(b)[0] = 1
         /\ \A k \in 1 .. Length : WeightPowers(b)[k] = b * WeightPowers(b)[k - 1]
         /\ \A k \in 0 .. Length : WeightPowers(b)[k] \in Nat
<1>1. PICK f : f = WeightPowers(b) /\ Multiplies(f, b, Length)
  <2>1. WeightPowers(b) = CHOOSE f : Multiplies(f, b, Length)
    BY DEF WeightPowers, Multiplies
  <2>. QED
    BY <2>1, MultiplesExist
<1>2. ASSUME NEW k \in 0 .. Length PROVE f[k] = IF k = 0 THEN 1 ELSE b * f[k - 1]
  <2>1. f = [j \in 0 .. Length |-> IF j = 0 THEN 1 ELSE b * f[j - 1]]
    BY <1>1 DEF Multiplies
  <2>. QED
    BY <2>1
<1>3. ASSUME NEW n \in 0 .. Length PROVE f[n] \in Nat
  <2> DEFINE S == {k \in 0 .. Length : f[k] \notin Nat}
  <2>1. SUFFICES ASSUME n \in S PROVE FALSE
    OBVIOUS
  <2>2. S \in SUBSET Nat
    OBVIOUS
  <2>3. PICK m \in S : \A k \in S : m <= k
    BY <2>1, <2>2, LeastNatural
  <2>4. m # 0
    <3>1. f[0] = 1
      BY <1>2
    <3>. QED
      BY <2>3, <3>1
  <2>5. m \in 0 .. Length /\ m - 1 \in 0 .. Length /\ ~ (m <= m - 1)
    BY <2>4
  <2>6. m - 1 \notin S
    BY <2>3, <2>5
  <2>7. f[m - 1] \in Nat
    BY <2>5, <2>6
  <2>8. f[m] = b * f[m - 1]
    BY <1>2, <2>4, <2>5
  <2>9. f[m] \in Nat
    BY <2>7, <2>8
  <2>. QED
    BY <2>9
<1>4. /\ f[0] = 1
      /\ \A k \in 1 .. Length : f[k] = b * f[k - 1]
      /\ \A k \in 0 .. Length : f[k] \in Nat
  BY <1>2, <1>3
<1>. QED
  BY <1>1, <1>4

\* What the average of one point more is made of
LEMMA PartsFacts ==
  ASSUME PostTypes
  PROVE  Parts \in Nat \ {0} /\ KeptParts \in Nat
BY ConfigFacts DEF Parts, KeptParts

----------------------------------------------------------------------------
(* The decision scores                                                     *)

\* What the scores and their scale are
LEMMA ScoreFacts ==
  ASSUME PostTypes
  PROVE  /\ Scale \in Nat /\ PosInf \in Int /\ NegInf \in Int
         /\ \A i \in Places : raw[i] \in Nat
         /\ \A i, j \in Places : raw[i] >= raw[j] => Scale * raw[i] >= Scale * raw[j]
<1>1. Length \in Nat /\ MaxScore \in Nat
  BY PostprocessingAssumption
<1>2. Scale \in Nat
  BY <1>1, PartsFacts, PowersGrow DEF Scale
<1>3. \A i \in Places : raw[i] \in Nat
  BY <1>1 DEF PostTypes, NegInf
<1>4. ASSUME NEW x \in Nat, NEW y \in Nat, NEW s \in Nat, x >= y PROVE s * x >= s * y
  <2>1. PICK e \in Nat : x = y + e
    <3>1. x - y \in Nat /\ x = y + (x - y)
      BY <1>4
    <3>. QED
      BY <3>1
  <2>2. s * x = s * y + s * e /\ s * e \in Nat /\ s * y \in Nat
    BY <2>1
  <2>. QED
    BY <2>2
<1>5. \A i, j \in Places : raw[i] >= raw[j] => Scale * raw[i] >= Scale * raw[j]
  BY <1>2, <1>3, <1>4
<1>6. PosInf \in Int /\ NegInf \in Int
  <2>1. MaxScore + 1 \in Nat
    BY <1>1
  <2>. QED
    BY <1>2, <2>1 DEF PosInf, NegInf
<1>. QED
  BY <1>2, <1>3, <1>5, <1>6

\* What a point weighs is divided into Parts with every point that follows, of
\* which KeptParts are kept.
LEMMA ShareKept ==
  ASSUME PostTypes, NEW a \in Places, NEW p \in Places, NEW q \in Places, a <= p, q = p + 1,
         NEW j \in a .. p
  PROVE  /\ Share(a, q, j) \in Nat /\ Share(a, p, j) \in Nat
         /\ Parts * Share(a, q, j) = KeptParts * Share(a, p, j)
<1>1. /\ Length \in Nat /\ a \in 1 .. Length /\ p \in 1 .. Length /\ q \in 1 .. Length /\ j \in Int
      /\ a <= j /\ j <= p
  BY ConfigFacts
<1>2. PICK w \in Nat, c \in Nat : w = Parts /\ c = KeptParts
  BY PartsFacts
<1>3. PICK n \in 0 .. Length, k \in 0 .. Length : n = p - j /\ k = q - j
  <2>1. p - j \in 0 .. Length /\ q - j \in 0 .. Length
    BY <1>1
  <2>. QED
    BY <2>1
<1>4. k = n + 1 /\ k \in 1 .. Length /\ k - 1 = n
  BY <1>1, <1>3
<1>5. PICK y \in Nat, z \in Nat : y = WeightPowers(c)[n] /\ z = WeightPowers(c)[k]
  BY <1>1, PowersGrow
<1>6. z = c * y
  BY <1>1, <1>4, <1>5, PowersGrow
<1>7. CASE j = a
  <2>1. PICK m \in 1 .. Length : m = Length - n /\ m - 1 = Length - k
    BY <1>1, <1>3, <1>4
  <2>2. m - 1 \in 0 .. Length /\ m \in 0 .. Length
    BY <1>1, <2>1
  <2>3. PICK x \in Nat, v \in Nat : x = WeightPowers(w)[m] /\ v = WeightPowers(w)[m - 1]
    BY <1>1, <2>2, PowersGrow
  <2>4. x = w * v
    BY <1>1, <2>1, <2>3, PowersGrow
  <2>5. Share(a, p, j) = x * y /\ Share(a, q, j) = v * z
    BY <1>2, <1>3, <1>5, <1>7, <2>1, <2>3 DEF Share
  <2>6. x * y \in Nat /\ v * z \in Nat
    OBVIOUS
  <2>7. w * (v * (c * y)) = c * ((w * v) * y)
    OBVIOUS
  <2>. QED
    BY <1>2, <1>6, <2>4, <2>5, <2>6, <2>7
<1>8. CASE j # a
  <2>0. j > a
    BY <1>1, <1>8
  <2>1. PICK m \in 1 .. Length : m = Length - n - 1 /\ m - 1 = Length - k - 1
    BY <1>1, <1>3, <1>4, <2>0
  <2>2. m - 1 \in 0 .. Length /\ m \in 0 .. Length
    BY <1>1, <2>1
  <2>3. PICK x \in Nat, v \in Nat : x = WeightPowers(w)[m] /\ v = WeightPowers(w)[m - 1]
    BY <1>1, <2>2, PowersGrow
  <2>4. x = w * v
    BY <1>1, <2>1, <2>3, PowersGrow
  <2>5. Share(a, p, j) = 2 * (x * y) /\ Share(a, q, j) = 2 * (v * z)
    BY <1>2, <1>3, <1>5, <1>8, <2>1, <2>3 DEF Share
  <2>6. 2 * (x * y) \in Nat /\ 2 * (v * z) \in Nat
    OBVIOUS
  <2>7. w * (2 * (v * (c * y))) = c * (2 * ((w * v) * y))
    OBVIOUS
  <2>. QED
    BY <1>2, <1>6, <2>4, <2>5, <2>6, <2>7
<1>. QED
  BY <1>7, <1>8

\* Where the run of a place begins
LEMMA RunBegins ==
  ASSUME PostTypes, NEW p \in Places, Finite(p)
  PROVE  \E a \in Places : /\ Min(RunOf(p)) = a /\ a <= p
                           /\ ~ Finite(p - 1) => a = p
                           /\ Finite(p - 1) => Min(RunOf(p - 1)) = a /\ a <= p - 1
<1>1. FinitePlaces \in SUBSET Int /\ FinitePlaces \in SUBSET Places /\ p \in Int
  BY FiniteRunIs DEF FinitePlaces, Places
<1>2. PICK a \in FinitePlaces, b \in FinitePlaces :
        IsRun(FinitePlaces, a, b) /\ a <= p /\ p <= b /\ RunOf(p) = a .. b
  BY RunOfIs
<1>3. a \in Int /\ b \in Int /\ a <= b
  BY <1>1, <1>2 DEF IsRun
<1>4. Min(RunOf(p)) = a
  BY <1>2, <1>3, IntervalIs
<1>5. ASSUME ~ Finite(p - 1) PROVE a = p
  <2>1. p - 1 \notin a .. b
    BY <1>2, <1>5 DEF IsRun, FinitePlaces
  <2>. QED
    BY <1>1, <1>2, <1>3, <2>1
<1>6. ASSUME Finite(p - 1) PROVE Min(RunOf(p - 1)) = a /\ a <= p - 1
  <2>1. PICK c \in FinitePlaces, d \in FinitePlaces :
          IsRun(FinitePlaces, c, d) /\ c <= p - 1 /\ p - 1 <= d /\ RunOf(p - 1) = c .. d
    BY <1>6, RunOfIs
  <2>2. c \in Int /\ d \in Int /\ c <= d
    BY <1>1, <2>1 DEF IsRun
  <2>3. Min(RunOf(p - 1)) = c
    BY <2>1, <2>2, IntervalIs
  <2>4. p \in FinitePlaces /\ p - 1 \in FinitePlaces
    BY <1>6 DEF FinitePlaces, Finite
  <2>5. a <= p - 1 /\ p <= d
    <3>1. p # a
      BY <1>2, <2>4 DEF IsRun
    <3>2. p - 1 # d
      <4>1. SUFFICES ASSUME p - 1 = d PROVE FALSE
        OBVIOUS
      <4>2. d + 1 = p
        BY <1>1, <4>1
      <4>. QED
        BY <2>1, <2>4, <4>2 DEF IsRun
    <3>. QED
      BY <1>1, <1>2, <1>3, <2>1, <2>2, <3>1, <3>2
  <2>6. Filled(FinitePlaces, a, b) /\ Filled(FinitePlaces, c, d)
    BY <1>2, <2>1 DEF IsRun, Filled
  <2>7. c <= a
    BY <1>1, <1>2, <1>3, <2>1, <2>2, <2>5, <2>6, RunReaches
  <2>8. a <= c
    BY <1>1, <1>2, <1>3, <2>1, <2>2, <2>5, <2>6, RunReaches
  <2>9. a = c
    BY <1>3, <2>2, <2>7, <2>8
  <2>. QED
    BY <2>3, <2>5, <2>9
<1>. QED
  BY <1>1, <1>2, <1>4, <1>5, <1>6

\* The weighted sum at the first point of a run
LEMMA AverageFirst ==
  ASSUME PostTypes, NEW p \in Places, Finite(p), ~ Finite(p - 1)
  PROVE  WeightedAverage(p) = Scale * raw[p] /\ WeightedAverage(p) \in Int
<1>1. Scale \in Nat /\ Scale * raw[p] \in Int /\ p \in Int /\ Length \in Nat
  <2>1. Scale \in Nat /\ raw[p] \in Nat
    BY ScoreFacts
  <2>2. Scale * raw[p] \in Int
    BY <2>1
  <2>. QED
    BY <2>1, <2>2, ConfigFacts
<1>2. Min(RunOf(p)) = p
  BY RunBegins
<1>3. PICK d : d = [j \in p .. p |-> Share(p, p, j) * raw[j]]
  OBVIOUS
<1>4. WeightedAverage(p) = SumOver(d, p, p)
  BY <1>2, <1>3 DEF WeightedAverage
<1>5. PICK s : Sums(s, d, p, p) /\ SumOver(d, p, p) = s[p]
  BY <1>1, SumOverIs
<1>6. s[p - 1] = 0 /\ s[p] = s[p - 1] + d[p] /\ p \in p .. p
  BY <1>1, <1>5, SumsAt
<1>7. d[p] = Share(p, p, p) * raw[p]
  BY <1>3, <1>6
<1>8. Share(p, p, p) = Scale
  <2>1. Length - (p - p) = Length /\ p - p = 0
    BY <1>1
  <2>2. WeightPowers(KeptParts)[0] = 1
    BY <1>1, PartsFacts, PowersGrow
  <2>3. Share(p, p, p) = Scale * 1
    BY <2>1, <2>2 DEF Share, Scale
  <2>. QED
    BY <1>1, <2>3
<1>. QED
  BY <1>1, <1>4, <1>5, <1>6, <1>7, <1>8

\* A multiple of a number, divided by it
LEMMA Divides ==
  ASSUME NEW w \in Nat \ {0}, NEW x \in Int
  PROVE  (w * x) \div w = x
OBVIOUS

\* The weighted sum at the next point of a run
LEMMA AverageOn ==
  ASSUME PostTypes, NEW p \in Places, Finite(p), NEW q \in Places, Finite(q), q = p + 1
  PROVE  /\ WeightedAverage(p) \in Int /\ WeightedAverage(q) \in Int
         /\ WeightedAverage(q) = (2 * (Scale * raw[q]) + KeptParts * WeightedAverage(p)) \div Parts
<1>1. /\ Places = 1 .. Length /\ Length \in Nat /\ p \in Int /\ q \in Int /\ q - 1 = p
      /\ Scale \in Nat /\ \A i \in Places : raw[i] \in Nat
  BY ConfigFacts, ScoreFacts
<1>2. PICK w \in Nat \ {0}, c \in Nat : w = Parts /\ c = KeptParts
  BY PartsFacts
<1>3. PICK a \in Places : Min(RunOf(q)) = a /\ Min(RunOf(p)) = a /\ a <= p
  BY <1>1, RunBegins
<1>4. a \in Int /\ a <= q /\ a <= p
  BY <1>1, <1>3
<1>5. PICK d : d = [j \in a .. q |-> Share(a, q, j) * raw[j]]
  OBVIOUS
<1>6. PICK e : e = [j \in a .. p |-> Share(a, p, j) * raw[j]]
  OBVIOUS
<1>7. WeightedAverage(q) = SumOver(d, a, q) /\ WeightedAverage(p) = SumOver(e, a, p)
  BY <1>3, <1>5, <1>6 DEF WeightedAverage
<1>8. PICK f : f = [j \in a .. p |-> w * d[j]]
  OBVIOUS
<1>9. ASSUME NEW k \in a .. p
      PROVE  d[k] \in Int /\ e[k] \in Int /\ f[k] = w * d[k] /\ f[k] = c * e[k]
  <2>1. k \in a .. q /\ k \in Places
    BY <1>1, <1>3
  <2>2. PICK x \in Nat, y \in Nat, z \in Nat :
          x = Share(a, q, k) /\ y = Share(a, p, k) /\ z = raw[k]
    BY <1>1, <1>3, <2>1, ShareKept
  <2>3. w * x = c * y
    BY <1>2, <1>3, <2>2, ShareKept
  <2>4. d[k] = x * z /\ e[k] = y * z /\ f[k] = w * (x * z)
    BY <1>5, <1>6, <1>8, <2>1, <2>2
  <2>5. w * (x * z) = (w * x) * z /\ c * (y * z) = (c * y) * z /\ x * z \in Int /\ y * z \in Int
    OBVIOUS
  <2>. QED
    BY <2>3, <2>4, <2>5
<1>10. d[q] \in Int /\ w * d[q] = 2 * (Scale * raw[q])
  <2>1. q \in a .. q /\ q # a /\ q - q = 0 /\ Length - (q - q) - 1 = Length - 1 /\ Length \in 1 .. Length
        /\ Length - 1 \in 0 .. Length
    BY <1>1, <1>3, <1>4
  <2>2. PICK x \in Nat, y \in Nat : x = WeightPowers(w)[Length - 1] /\ y = raw[q]
    BY <1>1, <2>1, PowersGrow
  <2>3. WeightPowers(c)[0] = 1
    BY <1>1, PowersGrow
  <2>4. Share(a, q, q) = 2 * (x * 1)
    BY <1>2, <2>1, <2>2, <2>3 DEF Share
  <2>5. Scale = w * x
    BY <1>1, <1>2, <2>1, <2>2, PowersGrow DEF Scale
  <2>6. d[q] = (2 * x) * y
    BY <1>5, <2>1, <2>2, <2>4
  <2>7. (2 * x) * y \in Int /\ w * ((2 * x) * y) = 2 * ((w * x) * y)
    OBVIOUS
  <2>. QED
    BY <2>2, <2>5, <2>6, <2>7
<1>11. Scaled(w, d, f, a, p) /\ Scaled(c, e, f, a, p)
  BY <1>9 DEF Scaled
<1>12. /\ SumOver(d, a, q) \in Int /\ SumOver(f, a, p) \in Int
       /\ w * (SumOver(d, a, q) - d[q]) = SumOver(f, a, p)
  <2>1. PICK b \in Int, u \in Int, v \in Int, t \in Int : b = w /\ u = a /\ v = p /\ t = q
    BY <1>1, <1>4
  <2>2. u <= t /\ v < t /\ t <= v + 1 /\ d[t] \in Int /\ Scaled(b, d, f, u, v)
    BY <1>1, <1>4, <1>10, <1>11, <2>1
  <2>3. SumOver(d, u, t) \in Int /\ SumOver(f, u, v) \in Int
    BY <2>2, SumNext
  <2>4. b * (SumOver(d, u, t) - d[t]) = SumOver(f, u, v)
    BY <2>2, SumNext
  <2>. QED
    BY <2>1, <2>3, <2>4
<1>13. SumOver(e, a, p) \in Int /\ SumOver(f, a, p) = c * SumOver(e, a, p)
  <2>0. a \in Int /\ p \in Int /\ a - 1 <= p
    BY <1>1, <1>4
  <2>1. PICK s : Sums(s, e, a, p) /\ SumOver(e, a, p) = s[p]
    BY <2>0, SumOverIs, Zenon
  <2>2. PICK t : Sums(t, f, a, p) /\ SumOver(f, a, p) = t[p]
    BY <2>0, SumOverIs, Zenon
  <2>3. p \in a - 1 .. p /\ p <= p /\ c \in Int
    BY <1>1, <1>4
  <2>4. s[p] \in Int /\ t[p] = c * s[p]
    BY <1>1, <1>4, <1>11, <2>1, <2>2, <2>3, SumsScale
  <2>. QED
    BY <2>1, <2>2, <2>4
<1>14. PICK x \in Int, y \in Int, z \in Int, t \in Int :
         x = SumOver(d, a, q) /\ y = SumOver(e, a, p) /\ z = d[q] /\ t = 2 * (Scale * raw[q])
  <2>1. 2 * (Scale * raw[q]) \in Int
    BY <1>2, <1>10
  <2>. QED
    BY <1>10, <1>12, <1>13, <2>1
<1>15. w * (x - z) = c * y /\ w * z = t
  BY <1>10, <1>12, <1>13, <1>14
<1>16. w * x = t + c * y
  <2>1. w * (x - z) = w * x - w * z /\ w * x \in Int /\ w * z \in Int
    OBVIOUS
  <2>2. c * y \in Int
    OBVIOUS
  <2>. QED
    BY <1>15, <2>1, <2>2
<1>17. x = (t + c * y) \div w
  BY <1>16, Divides
<1>. QED
  BY <1>2, <1>7, <1>14, <1>17

\* The queue once the point p is in it: its places are of the window of w points
\* and of the run of p, later ones lower, and none of the window is missed that
\* no later place tops.
Window(c, p, w) ==
  /\ c \in Seq(Places) /\ Len(c) \in Nat \ {0} /\ c[Len(c)] = p
  /\ \A k \in 1 .. Len(c) : c[k] > p - w /\ c[k] <= p /\ Filled(FinitePlaces, c[k], p)
  /\ \A k, l \in 1 .. Len(c) : k < l => c[k] < c[l] /\ raw[c[k]] > raw[c[l]]
  /\ \A j \in Places : j <= p /\ j > p - w /\ Filled(FinitePlaces, j, p) =>
       \E k \in 1 .. Len(c) : c[k] >= j /\ raw[c[k]] >= raw[j]

\* The last candidate above the new score, or none
LEMMA KeptIs ==
  ASSUME PostTypes, NEW older \in Seq(Places)
  PROVE  \E kept \in 0 .. Len(older) :
           /\ Pushed(older) = Append(SubSeq(older, 1, kept), point)
           /\ kept # 0 => raw[older[kept]] > raw[point]
           /\ \A k \in 1 .. Len(older) : raw[older[k]] > raw[point] => k <= kept
<1> DEFINE H == {0} \cup {k \in DOMAIN older : raw[older[k]] > raw[point]}
<1>1. Len(older) \in Nat /\ DOMAIN older = 1 .. Len(older)
  OBVIOUS
<1>2. H \in SUBSET (0 .. Len(older)) /\ 0 \in H
  BY <1>1
<1>3. PICK m \in H : \A k \in H : m >= k
  BY <1>1, <1>2, GreatestNatural
<1>4. Max(H) = m
  <2>1. H \in SUBSET Int
    BY <1>1, <1>2
  <2> HIDE DEF H
  <2>. QED
    BY <1>3, <2>1, MaxIs
<1>5. Pushed(older) = Append(SubSeq(older, 1, m), point)
  BY <1>4 DEF Pushed
<1>6. m # 0 => raw[older[m]] > raw[point]
  OBVIOUS
<1>7. ASSUME NEW k \in 1 .. Len(older), raw[older[k]] > raw[point] PROVE k <= m
  <2>1. k \in H
    BY <1>1, <1>7
  <2>2. m \in Int /\ k \in Int
    BY <1>1, <1>2
  <2>. QED
    BY <1>3, <2>1, <2>2
<1>. QED
  BY <1>2, <1>5, <1>6, <1>7

\* The new point enters the queue.
LEMMA PushedWindow ==
  ASSUME PostTypes, Finite(point), NEW older \in Seq(Places), NEW w \in Int, w = config.short + 1,
         ~ Finite(point - 1) => older = <<>>,
         Finite(point - 1) => Window(older, point - 1, config.short)
  PROVE  Window(Pushed(older), point, w)
<1>1. PICK kept \in 0 .. Len(older) :
        /\ Pushed(older) = Append(SubSeq(older, 1, kept), point)
        /\ kept # 0 => raw[older[kept]] > raw[point]
        /\ \A k \in 1 .. Len(older) : raw[older[k]] > raw[point] => k <= kept
  BY KeptIs
<1>2. /\ Len(older) \in Nat /\ kept \in Nat /\ kept <= Len(older) /\ point \in Places /\ point \in Int
      /\ point \in FinitePlaces /\ Places \in SUBSET Int /\ config.short \in Nat \ {0}
      /\ \A i \in Places : raw[i] \in Nat
      /\ \A k \in 1 .. Len(older) : older[k] \in Places /\ older[k] \in Int
  <2>1. config.short \in Nat \ {0} /\ Places = 1 .. Length /\ Length \in Nat
    BY ConfigFacts
  <2>2. point \in Places /\ point \in FinitePlaces
    BY DEF PostTypes, FinitePlaces
  <2>3. Places \in SUBSET Int
    BY <2>1
  <2>4. \A k \in 1 .. Len(older) : older[k] \in Places
    OBVIOUS
  <2>5. \A i \in Places : raw[i] \in Nat
    BY ScoreFacts
  <2>6. Len(older) \in Nat /\ kept \in Nat /\ kept <= Len(older)
    OBVIOUS
  <2>. QED
    BY <2>1, <2>2, <2>3, <2>4, <2>5, <2>6
<1>3. PICK P : P = Append(SubSeq(older, 1, kept), point)
  OBVIOUS
<1>4. P \in Seq(Places) /\ Len(P) = kept + 1
  BY <1>2, <1>3
<1>5. P[kept + 1] = point /\ \A k \in 1 .. kept : P[k] = older[k]
  BY <1>2, <1>3
<1>6. ASSUME NEW k \in 1 .. kept
      PROVE  /\ Finite(point - 1) /\ Window(older, point - 1, config.short) /\ k \in 1 .. Len(older)
             /\ older[k] > point - w /\ older[k] <= point - 1 /\ Filled(FinitePlaces, older[k], point)
             /\ raw[older[k]] > raw[point]
  <2>1. k \in 1 .. Len(older) /\ kept \in 1 .. Len(older) /\ kept # 0
    BY <1>2
  <2>2. Finite(point - 1)
    BY <2>1
  <2>3. Window(older, point - 1, config.short)
    BY <2>2
  <2>4. older[k] > point - 1 - config.short /\ older[k] <= point - 1 /\ Filled(FinitePlaces, older[k], point - 1)
    BY <2>1, <2>3 DEF Window
  <2>5. Filled(FinitePlaces, older[k], point)
    <3>1. \A j \in older[k] .. point : j \in older[k] .. point - 1 \/ j = point
      BY <1>2, <2>1
    <3>. QED
      BY <1>2, <2>4, <3>1 DEF Filled
  <2>6. raw[older[kept]] > raw[point]
    BY <1>1, <2>1
  <2>7. raw[older[k]] > raw[point]
    <3>1. CASE k = kept
      BY <2>6, <3>1
    <3>2. CASE k # kept
      <4>1. k < kept
        BY <1>2, <3>2
      <4>2. raw[older[k]] > raw[older[kept]]
        BY <2>1, <2>3, <4>1 DEF Window
      <4>3. raw[older[k]] \in Nat /\ raw[older[kept]] \in Nat /\ raw[point] \in Nat
        BY <1>2, <2>1
      <4>. QED
        BY <2>6, <4>2, <4>3
    <3>. QED
      BY <3>1, <3>2
  <2>8. older[k] > point - w
    <3>1. PICK o \in Int, p \in Int, c \in Int : o = older[k] /\ p = point /\ c = config.short
      BY <1>2, <2>1
    <3>2. o > p - 1 - c /\ w = c + 1
      BY <2>4, <3>1
    <3>3. o > p - w
      BY <3>2
    <3>. QED
      BY <3>1, <3>3
  <2>. QED
    BY <2>1, <2>2, <2>3, <2>4, <2>5, <2>7, <2>8
<1>7. \A k \in 1 .. kept + 1 : k \in 1 .. kept \/ k = kept + 1
  BY <1>2
<1>8. ASSUME NEW k \in 1 .. kept + 1
      PROVE  P[k] > point - w /\ P[k] <= point /\ Filled(FinitePlaces, P[k], point)
  <2>1. CASE k \in 1 .. kept
    <3>1. P[k] = older[k] /\ k \in 1 .. Len(older)
      BY <1>5, <1>6, <2>1
    <3>2. older[k] > point - w /\ older[k] <= point - 1 /\ Filled(FinitePlaces, older[k], point)
      BY <1>6, <2>1
    <3>3. older[k] <= point
      BY <1>2, <3>1, <3>2
    <3>. QED
      BY <3>1, <3>2, <3>3
  <2>2. CASE k = kept + 1
    <3>1. P[k] = point
      BY <1>5, <2>2
    <3>2. \A j \in point .. point : j = point
      BY <1>2
    <3>. QED
      BY <1>2, <3>1, <3>2 DEF Filled
  <2>. QED
    BY <1>7, <2>1, <2>2
<1>9. ASSUME NEW k \in 1 .. kept + 1, NEW l \in 1 .. kept + 1, k < l
      PROVE  P[k] < P[l] /\ raw[P[k]] > raw[P[l]]
  <2>1. k \in 1 .. kept /\ P[k] = older[k]
    BY <1>2, <1>5, <1>9
  <2>2. CASE l = kept + 1
    <3>1. P[l] = point /\ older[k] <= point - 1 /\ raw[older[k]] > raw[point] /\ older[k] \in Int
      BY <1>2, <1>5, <1>6, <2>1, <2>2
    <3>. QED
      BY <1>2, <2>1, <3>1
  <2>3. CASE l \in 1 .. kept
    <3>1. P[l] = older[l] /\ l \in 1 .. Len(older) /\ k \in 1 .. Len(older)
      BY <1>5, <1>6, <2>1, <2>3
    <3>2. Window(older, point - 1, config.short)
      BY <1>6, <2>1
    <3>3. older[k] < older[l] /\ raw[older[k]] > raw[older[l]]
      BY <1>9, <3>1, <3>2 DEF Window
    <3>. QED
      BY <2>1, <3>1, <3>3
  <2>. QED
    BY <1>7, <2>2, <2>3
<1>10. ASSUME NEW j \in Places, j <= point, j > point - w, Filled(FinitePlaces, j, point)
       PROVE  \E k \in 1 .. kept + 1 : P[k] >= j /\ raw[P[k]] >= raw[j]
  <2>1. kept + 1 \in 1 .. kept + 1 /\ P[kept + 1] = point
    BY <1>2, <1>5
  <2>2. CASE raw[point] >= raw[j]
    BY <1>2, <1>10, <2>1, <2>2
  <2>3. CASE ~ (raw[point] >= raw[j])
    <3>1. raw[j] > raw[point] /\ j # point /\ j <= point - 1 /\ j > point - 1 - config.short
      <4>1. j \in Int /\ point \in Int /\ config.short \in Int /\ raw[j] \in Nat /\ raw[point] \in Nat
        BY <1>2
      <4>2. raw[j] > raw[point]
        BY <2>3, <4>1
      <4>3. j # point
        BY <4>1, <4>2
      <4>4. j <= point - 1 /\ j > point - 1 - config.short
        BY <1>10, <4>1, <4>3
      <4>. QED
        BY <4>2, <4>3, <4>4
    <3>2. point - 1 \in j .. point /\ \A i \in j .. point - 1 : i \in j .. point
      BY <1>2, <3>1
    <3>3. Finite(point - 1) /\ Filled(FinitePlaces, j, point - 1)
      BY <1>10, <3>2 DEF Filled, FinitePlaces
    <3>4. Window(older, point - 1, config.short)
      BY <3>3
    <3>5. PICK k \in 1 .. Len(older) : older[k] >= j /\ raw[older[k]] >= raw[j]
      BY <3>1, <3>3, <3>4 DEF Window
    <3>6. raw[older[k]] > raw[point]
      <4>1. raw[older[k]] \in Nat /\ raw[j] \in Nat /\ raw[point] \in Nat
        BY <1>2
      <4>. QED
        BY <3>1, <3>5, <4>1
    <3>7. k <= kept
      BY <1>1, <3>6
    <3>8. k \in 1 .. kept /\ k \in 1 .. kept + 1
      BY <1>2, <3>7
    <3>. QED
      BY <1>5, <3>5, <3>8
  <2>. QED
    BY <2>2, <2>3
<1>11. Window(P, point, w)
  <2>1. Len(P) \in Nat \ {0} /\ P[Len(P)] = point
    BY <1>2, <1>4, <1>5
  <2>. QED
    BY <1>4, <1>8, <1>9, <1>10, <2>1 DEF Window
<1>. QED
  BY <1>1, <1>3, <1>11

\* The points before the window leave the queue.
LEMMA QueueWindow ==
  ASSUME PostTypes, Finite(point), NEW older \in Seq(Places), NEW w \in Int, w = config.short + 1,
         Window(Pushed(older), point, w)
  PROVE  Window(Queue(older), point, config.short)
<1>1. PICK P : P = Pushed(older)
  OBVIOUS
<1>2. PICK n \in Nat \ {0} : n = Len(P)
  BY <1>1 DEF Window
<1>3. /\ P \in Seq(Places) /\ Len(P) = n /\ P[n] = point /\ DOMAIN P = 1 .. n
      /\ (\A k \in 1 .. n : P[k] <= point /\ Filled(FinitePlaces, P[k], point))
      /\ (\A k, l \in 1 .. n : k < l => P[k] < P[l] /\ raw[P[k]] > raw[P[l]])
  BY <1>1, <1>2 DEF Window
<1>4. \A j \in Places : j <= point /\ j > point - w /\ Filled(FinitePlaces, j, point) =>
        \E k \in 1 .. n : P[k] >= j /\ raw[P[k]] >= raw[j]
  BY <1>1, <1>2 DEF Window
<1>5. /\ config.short \in Nat \ {0} /\ point \in Int /\ Places \in SUBSET Int
      /\ \A k \in 1 .. n : P[k] \in Places /\ P[k] \in Int
  <2>1. config.short \in Nat \ {0} /\ Places = 1 .. Length /\ Length \in Nat
    BY ConfigFacts
  <2>2. point \in Places
    BY DEF PostTypes
  <2>3. \A k \in 1 .. n : P[k] \in Places
    BY <1>2, <1>3
  <2>4. Places \in SUBSET Int
    BY <2>1
  <2>. QED
    BY <2>1, <2>2, <2>3, <2>4
<1> DEFINE F == {k \in DOMAIN P : P[k] > point - config.short}
<1>6. F \in SUBSET Nat /\ n \in F
  BY <1>2, <1>3, <1>5
<1>7. PICK f \in F : \A k \in F : f <= k
  BY <1>6, LeastNatural
<1>8. f \in 1 .. n /\ P[f] > point - config.short
  BY <1>3
<1>9. ASSUME NEW k \in 1 .. n, P[k] > point - config.short PROVE f <= k
  BY <1>3, <1>7, <1>9
<1>10. Queue(older) = SubSeq(P, f, n)
  <2>1. Min(F) = f
    <3>1. F \in SUBSET Int
      BY <1>6
    <3> HIDE DEF F
    <3>2. \A x \in F : (\A y \in F : x <= y) => x = f
      <4>1. ASSUME NEW x \in F, \A y \in F : x <= y PROVE x = f
        <5>1. x <= f /\ f <= x /\ x \in Int /\ f \in Int
          BY <1>7, <3>1, <4>1
        <5>. QED
          BY <5>1
      <4>. QED
        BY <4>1
    <3>. QED
      BY <1>7, <3>2 DEF Min
  <2>. QED
    BY <1>1, <1>3, <2>1 DEF Queue
<1> HIDE DEF F
<1>11. PICK Q : Q = SubSeq(P, f, n)
  OBVIOUS
<1>12. PICK m \in Nat \ {0} : m = n - f + 1
  <2>1. n - f + 1 \in Nat \ {0}
    BY <1>8
  <2>. QED
    BY <2>1
<1>13. Q \in Seq(Places) /\ Len(Q) = m
  BY <1>3, <1>8, <1>11, <1>12
<1>14. ASSUME NEW k \in 1 .. m PROVE f + k - 1 \in 1 .. n /\ Q[k] = P[f + k - 1]
  <2>1. f + k - 1 \in 1 .. n
    BY <1>8, <1>12
  <2>2. k \in 1 .. n - f + 1
    BY <1>12
  <2>. QED
    BY <1>3, <1>8, <1>11, <2>1, <2>2
<1>15. Q[m] = point
  <2>1. m \in 1 .. m /\ f + m - 1 = n
    BY <1>8, <1>12
  <2>. QED
    BY <1>3, <1>14, <2>1
<1>16. ASSUME NEW k \in 1 .. m
       PROVE  Q[k] > point - config.short /\ Q[k] <= point /\ Filled(FinitePlaces, Q[k], point)
  <2>1. PICK i \in 1 .. n : i = f + k - 1 /\ Q[k] = P[i]
    BY <1>14
  <2>2. i = f \/ f < i
    BY <1>8, <2>1
  <2>3. P[i] > point - config.short
    <3>1. CASE i = f
      BY <1>8, <3>1
    <3>2. CASE f < i
      <4>1. P[f] < P[i]
        BY <1>3, <1>8, <3>2
      <4>. QED
        BY <1>5, <1>8, <4>1
    <3>. QED
      BY <2>2, <3>1, <3>2
  <2>. QED
    BY <1>3, <2>1, <2>3
<1>17. ASSUME NEW k \in 1 .. m, NEW l \in 1 .. m, k < l
       PROVE  Q[k] < Q[l] /\ raw[Q[k]] > raw[Q[l]]
  <2>1. PICK i \in 1 .. n, j \in 1 .. n : i = f + k - 1 /\ Q[k] = P[i] /\ j = f + l - 1 /\ Q[l] = P[j]
    BY <1>14
  <2>2. i < j
    BY <1>8, <1>17, <2>1
  <2>. QED
    BY <1>3, <2>1, <2>2
<1>18. ASSUME NEW j \in Places, j <= point, j > point - config.short, Filled(FinitePlaces, j, point)
       PROVE  \E k \in 1 .. m : Q[k] >= j /\ raw[Q[k]] >= raw[j]
  <2>1. j > point - w
    BY <1>5, <1>18
  <2>2. PICK i \in 1 .. n : P[i] >= j /\ raw[P[i]] >= raw[j]
    BY <1>4, <1>18, <2>1
  <2>3. P[i] > point - config.short
    BY <1>5, <1>18, <2>2
  <2>4. f <= i
    BY <1>9, <2>3
  <2>5. PICK k \in 1 .. m : f + k - 1 = i
    <3>1. i - f + 1 \in 1 .. m /\ f + (i - f + 1) - 1 = i
      BY <1>8, <1>12, <2>4
    <3>. QED
      BY <3>1
  <2>6. Q[k] = P[i]
    BY <1>14, <2>5
  <2>. QED
    BY <2>2, <2>6
<1>19. Window(Q, point, config.short)
  BY <1>13, <1>15, <1>16, <1>17, <1>18 DEF Window
<1>. QED
  BY <1>10, <1>11, <1>19

\* The score decided on at a point is the causal one.
LEMMA DecisionIs ==
  ASSUME PostTypes, Finite(point), NEW c, Window(c, point, config.short),
         WeightedAverage(point) \in Int
  PROVE  /\ Max({Scale * raw[c[1]], WeightedAverage(point)}) = CausalDecision(point)
         /\ CausalDecision(point) \in Int
<1>1. /\ FinitePlaces \in SUBSET Int /\ FinitePlaces \in SUBSET Places /\ Places \in SUBSET Int
      /\ point \in Int /\ point \in Places /\ config.short \in Nat \ {0}
  <2>1. Places = 1 .. Length /\ Length \in Nat /\ config.short \in Nat \ {0}
    BY ConfigFacts
  <2>2. point \in Places
    BY DEF PostTypes
  <2>. QED
    BY <2>1, <2>2 DEF FinitePlaces
<1>2. PICK n \in Nat \ {0} : n = Len(c)
  BY DEF Window
<1>3. /\ \A k \in 1 .. n : /\ c[k] \in Places /\ c[k] > point - config.short /\ c[k] <= point
                           /\ Filled(FinitePlaces, c[k], point)
      /\ \A k, l \in 1 .. n : k < l => raw[c[k]] > raw[c[l]]
  <2>1. \A k \in 1 .. n : c[k] \in Places
    BY <1>2 DEF Window
  <2>. QED
    BY <1>2, <2>1 DEF Window
<1>4. \A j \in Places : j <= point /\ j > point - config.short /\ Filled(FinitePlaces, j, point) =>
        \E k \in 1 .. n : raw[c[k]] >= raw[j]
  BY <1>2 DEF Window
<1>5. PICK a \in FinitePlaces, b \in FinitePlaces :
        IsRun(FinitePlaces, a, b) /\ a <= point /\ point <= b /\ RunOf(point) = a .. b
  BY RunOfIs
<1>6. a \in Int /\ b \in Int /\ point <= point
  BY <1>1
<1>7. 1 \in 1 .. n
  BY <1>2
<1>8. PICK top \in Places : top = c[1]
  BY <1>3, <1>7
<1>9. top \in Int /\ top > point - config.short /\ top <= point /\ Filled(FinitePlaces, top, point)
  BY <1>1, <1>3, <1>7, <1>8
<1>10. top \in RunOf(point) \cap (point - config.short + 1 .. point)
  <2>1. a <= top
    BY <1>1, <1>5, <1>6, <1>9, RunReaches
  <2>. QED
    BY <1>1, <1>5, <1>6, <1>9, <2>1
<1>11. ASSUME NEW j \in RunOf(point) \cap (point - config.short + 1 .. point)
       PROVE  j \in Places /\ raw[top] >= raw[j]
  <2>1. j \in a .. b /\ j \in Int /\ j <= point /\ j > point - config.short
    BY <1>1, <1>5, <1>6
  <2>2. j \in Places
    BY <1>1, <1>5, <2>1 DEF IsRun
  <2>3. Filled(FinitePlaces, j, point)
    <3>1. \A i \in j .. point : i \in a .. b
      BY <1>1, <1>5, <1>6, <2>1
    <3>. QED
      BY <1>5, <3>1 DEF Filled, IsRun
  <2>4. PICK k \in 1 .. n : raw[c[k]] >= raw[j]
    BY <1>4, <2>1, <2>2, <2>3
  <2>5. raw[c[k]] \in Nat /\ raw[top] \in Nat /\ raw[j] \in Nat
    BY <1>3, <2>2, ScoreFacts
  <2>6. raw[top] >= raw[c[k]]
    <3>1. CASE k = 1
      BY <1>8, <2>5, <3>1
    <3>2. CASE k # 1
      <4>1. 1 < k
        BY <3>2
      <4>2. raw[top] > raw[c[k]]
        BY <1>3, <1>7, <1>8, <4>1
      <4>. QED
        BY <2>5, <4>2
    <3>. QED
      BY <3>1, <3>2
  <2>. QED
    BY <2>2, <2>4, <2>5, <2>6
<1>12. PICK x \in Int : x = Scale * raw[top]
  <2>1. Scale \in Nat /\ raw[top] \in Nat
    BY ScoreFacts
  <2>2. Scale * raw[top] \in Int
    BY <2>1
  <2>. QED
    BY <2>2
<1>13. PICK y \in Int : y = WeightedAverage(point)
  OBVIOUS
<1> DEFINE W == {Scale * raw[j] : j \in RunOf(point) \cap (point - config.short + 1 .. point)}
<1>14. x \in W /\ W \in SUBSET Int /\ \A z \in W : x >= z
  <2>1. x \in W
    BY <1>10, <1>12
  <2>2. ASSUME NEW j \in RunOf(point) \cap (point - config.short + 1 .. point)
        PROVE  Scale * raw[j] \in Int /\ x >= Scale * raw[j]
    <3>1. j \in Places /\ raw[top] >= raw[j]
      BY <1>11
    <3>2. Scale \in Nat /\ raw[j] \in Nat /\ Scale * raw[top] >= Scale * raw[j]
      BY <3>1, ScoreFacts
    <3>3. Scale * raw[j] \in Int
      BY <3>2
    <3>. QED
      BY <1>12, <3>2, <3>3
  <2>. QED
    BY <2>1, <2>2
<1>15. CausalDecision(point) = Max({y} \cup W)
  BY <1>13 DEF CausalDecision
<1>16. Scale * raw[c[1]] = x
  BY <1>8, <1>12
<1> HIDE DEF W
<1>17. PICK m \in Int : (m = x \/ m = y) /\ m >= x /\ m >= y
  <2>1. CASE x >= y
    BY <2>1
  <2>2. CASE ~ (x >= y)
    <3>1. y >= x
      BY <2>2
    <3>. QED
      BY <3>1
  <2>. QED
    BY <2>1, <2>2
<1>18. Max({x, y}) = m
  <2>1. {x, y} \in SUBSET Int /\ m \in {x, y} /\ \A z \in {x, y} : m >= z
    BY <1>17
  <2>. QED
    BY <2>1, MaxIs
<1>19. Max({y} \cup W) = m
  <2>1. {y} \cup W \in SUBSET Int /\ m \in {y} \cup W
    BY <1>14, <1>17
  <2>2. ASSUME NEW z \in {y} \cup W PROVE m >= z
    <3>1. CASE z = y
      BY <1>17, <3>1
    <3>2. CASE z \in W
      <4>1. x >= z /\ z \in Int
        BY <1>14, <3>2
      <4>. QED
        BY <1>17, <4>1
    <3>. QED
      BY <3>1, <3>2
  <2>. QED
    BY <2>1, <2>2, MaxIs
<1>. QED
  BY <1>13, <1>15, <1>16, <1>18, <1>19

\* What compute_decision_scores has left before the point p
DecisionsAt(p, decided, queue, mean) ==
  /\ \A i \in Places : decided[i] = IF i < p THEN CausalDecision(i) ELSE NegInf
  /\ Finite(p - 1) => Window(queue, p - 1, config.short) /\ mean = WeightedAverage(p - 1)

\* compute_decision_scores at one point
LEMMA SmoothStep ==
  ASSUME PostTypes, Smooth, DecisionsAt(point, decision, candidates, average),
         NEW q \in Int, q = point + 1
  PROVE  DecisionsAt(q, decision', candidates', average') /\ decision' \in [Places -> Int]
<1>1. /\ point \in Places /\ point \in Int /\ Places \in SUBSET Int /\ q - 1 = point
      /\ \A i \in Places : i < q <=> i < point \/ i = point
  <2>1. Places = 1 .. Length /\ Length \in Nat
    BY ConfigFacts
  <2>2. point \in Places
    BY DEF PostTypes
  <2>3. Places \in SUBSET Int /\ point \in Int /\ q - 1 = point
    BY <2>1, <2>2
  <2>4. \A i \in Int : i < q <=> i < point \/ i = point
    BY <2>3
  <2>. QED
    BY <2>2, <2>3, <2>4
<1>2. \A i \in Places : decision[i] = IF i < point THEN CausalDecision(i) ELSE NegInf
  BY DEF DecisionsAt
<1>3. CASE ~ Finite(point)
  <2>1. decision' = decision
    BY <1>3 DEF Smooth
  <2>2. CausalDecision(point) = NegInf
    BY <1>3 DEF CausalDecision
  <2>3. ASSUME NEW i \in Places PROVE decision'[i] = IF i < q THEN CausalDecision(i) ELSE NegInf
    <3>1. CASE i = point
      <4>1. ~ (i < point) /\ i < q
        BY <1>1, <3>1
      <4>. QED
        BY <1>2, <2>1, <2>2, <3>1, <4>1
    <3>2. CASE i # point
      BY <1>1, <1>2, <2>1, <3>2
    <3>. QED
      BY <3>1, <3>2
  <2>4. ~ Finite(q - 1)
    BY <1>1, <1>3
  <2>5. decision' \in [Places -> Int]
    BY <2>1 DEF PostTypes
  <2>. QED
    BY <2>3, <2>4, <2>5 DEF DecisionsAt
<1>4. CASE Finite(point)
  <2>1. PICK older : older = IF ~ Finite(point - 1) THEN <<>> ELSE candidates
    OBVIOUS
  <2>2. /\ candidates' = Queue(older)
        /\ average' = Average(~ Finite(point - 1))
        /\ decision' = [decision EXCEPT ![point] = Max({Scale * raw[candidates'[1]], average'})]
    BY <1>4, <2>1 DEF Smooth
  <2>3. older \in Seq(Places)
    <3>1. CASE Finite(point - 1)
      <4>1. Window(candidates, point - 1, config.short)
        BY <3>1 DEF DecisionsAt
      <4>. QED
        BY <2>1, <3>1, <4>1 DEF Window
    <3>2. CASE ~ Finite(point - 1)
      BY <2>1, <3>2
    <3>. QED
      BY <3>1, <3>2
  <2>4. /\ ~ Finite(point - 1) => older = <<>>
        /\ Finite(point - 1) => Window(older, point - 1, config.short)
    BY <2>1 DEF DecisionsAt
  <2>5. PICK w \in Int : w = config.short + 1
    <3>1. config.short + 1 \in Int
      BY ConfigFacts
    <3>. QED
      BY <3>1
  <2>6. Window(Pushed(older), point, w)
    BY <1>4, <2>3, <2>4, <2>5, PushedWindow
  <2>7. Window(candidates', point, config.short)
    <3>1. Window(Queue(older), point, config.short)
      BY <1>4, <2>3, <2>5, <2>6, QueueWindow
    <3>. QED
      BY <2>2, <3>1
  <2>8. average' = WeightedAverage(point) /\ WeightedAverage(point) \in Int
    <3>1. CASE ~ Finite(point - 1)
      <4>1. average' = Scale * raw[point]
        BY <2>2, <3>1 DEF Average
      <4>. QED
        BY <1>1, <1>4, <3>1, <4>1, AverageFirst
    <3>2. CASE Finite(point - 1)
      <4>1. PICK p \in Places : p = point - 1 /\ point = p + 1
        <5>1. point - 1 \in Places /\ point = (point - 1) + 1
          BY <1>1, <3>2 DEF Finite
        <5>. QED
          BY <5>1
      <4>2. average = WeightedAverage(p)
        BY <3>2, <4>1 DEF DecisionsAt
      <4>3. average' = (2 * (Scale * raw[point]) + KeptParts * average) \div Parts
        BY <2>2, <3>2 DEF Average
      <4>4. Finite(p)
        BY <3>2, <4>1
      <4>5. /\ WeightedAverage(point) \in Int
            /\ WeightedAverage(point) =
                 (2 * (Scale * raw[point]) + KeptParts * WeightedAverage(p)) \div Parts
        BY <1>1, <1>4, <4>1, <4>4, AverageOn
      <4>. QED
        BY <4>2, <4>3, <4>5
    <3>. QED
      BY <3>1, <3>2
  <2>9. /\ Max({Scale * raw[candidates'[1]], average'}) = CausalDecision(point)
        /\ CausalDecision(point) \in Int
    <3>1. PICK c : c = candidates'
      OBVIOUS
    <3>2. Window(c, point, config.short)
      BY <2>7, <3>1
    <3>3. Max({Scale * raw[c[1]], WeightedAverage(point)}) = CausalDecision(point) /\ CausalDecision(point) \in Int
      BY <1>4, <2>8, <3>2, DecisionIs
    <3>. QED
      BY <2>8, <3>1, <3>3
  <2>10. PICK v \in Int : v = CausalDecision(point) /\ decision' = [decision EXCEPT ![point] = v]
    BY <2>2, <2>9
  <2>11. decision \in [Places -> Int]
    BY DEF PostTypes
  <2>12. decision' \in [Places -> Int]
    BY <1>1, <2>10, <2>11
  <2>13. ASSUME NEW i \in Places PROVE decision'[i] = IF i < q THEN CausalDecision(i) ELSE NegInf
    <3>1. CASE i = point
      <4>1. i < q
        BY <1>1, <3>1
      <4>2. decision'[i] = v
        BY <2>10, <2>11, <3>1
      <4>. QED
        BY <2>10, <3>1, <4>1, <4>2
    <3>2. CASE i # point
      <4>1. decision'[i] = decision[i]
        BY <2>10, <2>11, <3>2
      <4>. QED
        BY <1>1, <1>2, <3>2, <4>1
    <3>. QED
      BY <3>1, <3>2
  <2>14. Window(candidates', q - 1, config.short) /\ average' = WeightedAverage(q - 1)
    BY <1>1, <2>7, <2>8
  <2>. QED
    BY <2>12, <2>13, <2>14 DEF DecisionsAt
<1>. QED
  BY <1>3, <1>4

----------------------------------------------------------------------------
(* The whole pass                                                          *)

\* What holds at every stage of the pass: the scores decided on so far, what the
\* hysteresis has seen, and what the stages after it leave.
PostInv ==
  /\ PostTypes
  /\ post = "smooth" => DecisionsAt(point, decision, candidates, average)
  /\ post = "threshold" => \A i \in Places : decision[i] = CausalDecision(i)
  /\ AlarmInv
  /\ post = "drop" => Mended(alarmed, RaisedBy(Length))
  /\ post = "done" => Settled(alarmed)

\* Decisions depend on the configuration and the scores alone.
LEMMA DecisionSame ==
  ASSUME config' = config, raw' = raw, NEW p, NEW decided, NEW queue, NEW mean
  PROVE  /\ DecisionsAt(p, decided, queue, mean)' <=> DecisionsAt(p, decided, queue, mean)
         /\ CausalDecision(p)' = CausalDecision(p)
<1>1. \A i : Finite(i)' <=> Finite(i)
  BY Zenon DEF Finite
<1>2. FinitePlaces' = FinitePlaces /\ FiniteRuns' = FiniteRuns
  BY Zenon DEF FinitePlaces, FiniteRuns, Finite
<1>3. \A i : RunOf(i)' = RunOf(i)
  BY Zenon, <1>2 DEF RunOf
<1>4. Parts' = Parts /\ KeptParts' = KeptParts /\ Scale' = Scale
  BY Zenon DEF Parts, KeptParts, Scale, WeightPowers
<1>5. \A from, i, j : Share(from, i, j)' = Share(from, i, j)
  <2>1. WeightPowers(Parts)' = WeightPowers(Parts) /\ WeightPowers(KeptParts)' = WeightPowers(KeptParts)
    BY Zenon DEF Parts, KeptParts, WeightPowers
  <2>. QED
    BY Zenon, <2>1 DEF Share
<1>6. \A i : WeightedAverage(i)' = WeightedAverage(i)
  BY Zenon, <1>3, <1>5 DEF WeightedAverage
<1>7. \A i : CausalDecision(i)' = CausalDecision(i)
  BY Zenon, <1>1, <1>3, <1>4, <1>6 DEF CausalDecision
<1>8. \A c, i, w : Window(c, i, w)' <=> Window(c, i, w)
  BY <1>2 DEF Window
<1>9. DecisionsAt(p, decided, queue, mean)' <=> DecisionsAt(p, decided, queue, mean)
  BY Zenon, <1>1, <1>6, <1>7, <1>8 DEF DecisionsAt
<1>. QED
  BY <1>7, <1>9

\* Nor does what the later stages leave depend on more.
LEMMA EventsSame ==
  ASSUME config' = config, raw' = raw, decision' = decision, threshold' = threshold, NEW al, NEW by
  PROVE  (Mended(al, by)' <=> Mended(al, by)) /\ (Settled(al)' <=> Settled(al))
<1>1. \A i : Finite(i)' <=> Finite(i)
  BY Zenon DEF Finite
<1>2. FinitePlaces' = FinitePlaces /\ FiniteRuns' = FiniteRuns
  BY Zenon DEF FinitePlaces, FiniteRuns, Finite
<1>3. \A i : RunOf(i)' = RunOf(i)
  BY Zenon, <1>2 DEF RunOf
<1>4. \A s, i : (Holding(s, i)' <=> Holding(s, i)) /\ (Lasts(s, i)' <=> Lasts(s, i))
  BY Zenon, <1>1, <1>3 DEF Holding, Lasts, Alive, Low
<1>5. Entries' = Entries /\ \A s : Entered(s)' <=> Entered(s)
  BY Zenon, <1>1, <1>2 DEF Entries, Entered, High
<1>6. \A run : GapsOf(al, run)' = GapsOf(al, run)
  BY Zenon DEF GapsOf
<1>7. Backed(by)' <=> Backed(by)
  BY Zenon, <1>2, <1>4, <1>5 DEF Backed
<1>8. Mended(al, by)' <=> Mended(al, by)
  BY Zenon, <1>2, <1>6, <1>7 DEF Mended
<1>9. Settled(al)' <=> Settled(al)
  BY Zenon, <1>2, <1>4, <1>5, <1>6 DEF Settled
<1>. QED
  BY <1>8, <1>9

\* Nothing is raised before the first point, whatever the thresholds.
LEMMA AlarmStarts ==
  ASSUME PostTypes, config' = config, NEW act, NEW high, NEW low
  PROVE  AlarmAt(1, act, high, low, {})'
<1>1. /\ config'.enter \in Nat \ {0} /\ Places = 1 .. Length /\ Length \in Nat
      /\ \A s \in Places : s \in Nat \ {0}
  BY ConfigFacts
<1>2. ~ Finite(0)'
  BY <1>1 DEF Finite
<1>3. ~ WatchedAt(1)'
  <2>1. \A s \in Places : ~ (s + config'.enter <= 1)
    BY <1>1
  <2>. QED
    BY <2>1 DEF WatchedAt
<1>4. RaisedBy(0)' = {}
  BY DEF RaisedBy
<1>5. Highs(1, 0)'
  <2>1. 0 \in 0 .. config'.enter - 1 /\ \A j \in 1 - 0 .. 1 - 1 : FALSE
    BY <1>1
  <2>2. 1 - 1 - 0 = 0
    OBVIOUS
  <2>. QED
    BY <1>2, <2>1, <2>2 DEF Highs
<1>6. 1 - 1 = 0
  OBVIOUS
<1>. QED
  BY <1>2, <1>3, <1>4, <1>5, <1>6 DEF AlarmAt

\* The pass begins that way.
LEMMA PostInitial ==
  ASSUME PostInit
  PROVE  PostInv
<1>1. Length \in Nat \ {0} /\ MaxScore \in Nat
  BY PostprocessingAssumption
<1>2. Scale \in Nat /\ PosInf \in Int /\ NegInf \in Int
  <2>1. Scale \in Nat
    <3>1. Parts \in Nat
      BY PostprocessingAssumption DEF PostInit, Parts
    <3>. QED
      BY <1>1, <3>1, PowersGrow DEF Scale
  <2>2. MaxScore + 1 \in Nat
    BY <1>1
  <2>. QED
    BY <2>1, <2>2 DEF PosInf, NegInf
<1>3. PostTypes
  <2>1. point \in Places
    BY <1>1 DEF PostInit, Places
  <2>2. decision \in [Places -> Int]
    BY <1>2 DEF PostInit
  <2>3. threshold.on = PosInf /\ threshold.off = PosInf
    BY DEF PostInit
  <2>4. PosInf <= PosInf
    BY <1>2
  <2>. QED
    BY <1>2, <2>1, <2>2, <2>3, <2>4 DEF PostInit, PostTypes
<1>4. DecisionsAt(point, decision, candidates, average)
  <2>1. \A i \in Places : decision[i] = NegInf /\ ~ (i < 1)
    BY <1>1 DEF PostInit, Places
  <2>2. ~ Finite(1 - 1)
    BY <1>1 DEF Finite, Places
  <2>3. point = 1
    BY DEF PostInit
  <2>. QED
    BY <2>1, <2>2, <2>3 DEF DecisionsAt
<1>5. post = "smooth" /\ alarmed = {}
  BY DEF PostInit
<1>. QED
  BY <1>3, <1>4, <1>5 DEF PostInv, AlarmInv

\* Where the loop goes on
LEMMA Advances ==
  ASSUME PostTypes, NEW next, Advance(next)
  PROVE  /\ point' \in Places
         /\ \/ point = Length /\ point' = 1 /\ post' = next
            \/ point # Length /\ point' = point + 1 /\ post' = post
<1>1. Length \in Nat \ {0} /\ Places = 1 .. Length /\ point \in Places
  BY ConfigFacts DEF PostTypes
<1>2. CASE point = Length
  <2>1. point' = 1 /\ post' = next
    BY <1>2 DEF Advance
  <2>. QED
    BY <1>1, <1>2, <2>1
<1>3. CASE point # Length
  <2>1. point' = point + 1 /\ post' = post
    BY <1>3 DEF Advance
  <2>. QED
    BY <1>1, <1>3, <2>1
<1>. QED
  BY <1>2, <1>3

\* compute_decision_scores
LEMMA SmoothLeaves ==
  ASSUME PostInv, Smooth
  PROVE  PostInv'
<1>1. PostTypes /\ post = "smooth" /\ alarmed = {} /\ DecisionsAt(point, decision, candidates, average)
  BY DEF PostInv, AlarmInv, Smooth
<1>2. /\ Advance("threshold")
      /\ config' = config /\ raw' = raw /\ threshold' = threshold /\ active' = active /\ alarmed' = alarmed
  BY DEF Smooth
<1>3. Places = 1 .. Length /\ Length \in Nat \ {0} /\ point \in Places /\ point \in Int
  BY <1>1, ConfigFacts DEF PostTypes
<1>4. PICK q \in Int : q = point + 1
  BY <1>3
<1>5. DecisionsAt(q, decision', candidates', average') /\ decision' \in [Places -> Int]
  BY <1>1, <1>4, SmoothStep
<1>6. /\ point' \in Places
      /\ \/ point = Length /\ point' = 1 /\ post' = "threshold"
         \/ point # Length /\ point' = q /\ post' = "smooth"
  BY <1>1, <1>2, <1>4, Advances
<1>7. PostTypes'
  BY <1>1, <1>2, <1>5, <1>6 DEF PostTypes
<1>8. CASE post' = "smooth"
  <2>1. point' = q
    BY <1>6, <1>8
  <2>2. DecisionsAt(point, decision, candidates, average)'
    <3>1. PICK decided, queue, mean : decided = decision' /\ queue = candidates' /\ mean = average'
      OBVIOUS
    <3>2. DecisionsAt(q, decided, queue, mean)
      BY <1>5, <3>1
    <3>3. DecisionsAt(q, decided, queue, mean)'
      BY <1>2, <3>2, DecisionSame
    <3>. QED
      BY <2>1, <3>1, <3>3
  <2>. QED
    BY <1>1, <1>2, <1>7, <1>8, <2>2 DEF PostInv, AlarmInv
<1>9. CASE post' = "threshold"
  <2>1. point = Length /\ point' = 1
    BY <1>6, <1>9
  <2>2. ASSUME NEW i \in Places PROVE decision'[i] = CausalDecision(i)'
    <3>1. i < q
      BY <1>3, <1>4, <2>1
    <3>2. decision'[i] = CausalDecision(i)
      BY <1>5, <3>1 DEF DecisionsAt
    <3>. QED
      BY <1>2, <3>2, DecisionSame
  <2>. QED
    BY <1>1, <1>2, <1>7, <1>9, <2>1, <2>2 DEF PostInv, AlarmInv
<1>. QED
  BY <1>6, <1>8, <1>9

\* select_threshold
LEMMA ThresholdLeaves ==
  ASSUME PostInv, SetThreshold
  PROVE  PostInv'
<1>1. PostTypes /\ post = "threshold" /\ point = 1 /\ alarmed = {}
  BY DEF PostInv, AlarmInv, SetThreshold
<1>2. /\ post' = "alarm" /\ config' = config /\ raw' = raw /\ point' = point /\ decision' = decision
      /\ active' = active /\ above' = above /\ below' = below /\ alarmed' = alarmed
  BY DEF SetThreshold
<1>3. PICK on \in {decision[i] : i \in Places} \cup {NegInf, PosInf}, margin \in {0, Scale \div 2, Scale} :
        threshold' = [on |-> on, off |-> IF on \in {NegInf, PosInf} THEN on ELSE on - margin]
  BY DEF SetThreshold
<1>4. on \in Int /\ margin \in Nat
  <2>1. Scale \in Nat /\ PosInf \in Int /\ NegInf \in Int
    BY <1>1, ScoreFacts
  <2>2. Scale \div 2 \in Nat
    BY <2>1
  <2>3. \A i \in Places : decision[i] \in Int
    BY <1>1 DEF PostTypes
  <2>. QED
    BY <2>1, <2>2, <2>3
<1>5. PICK off \in Int : off = (IF on \in {NegInf, PosInf} THEN on ELSE on - margin) /\ off <= on
  BY <1>4
<1>6. threshold'.on = on /\ threshold'.off = off
  BY <1>3, <1>5
<1>7. PostTypes'
  BY <1>1, <1>2, <1>4, <1>5, <1>6 DEF PostTypes
<1>8. AlarmAt(point, active, above, below, alarmed)'
  <2>1. \A act, high, low : AlarmAt(1, act, high, low, {})'
    BY <1>1, <1>2, AlarmStarts
  <2>. QED
    BY <1>1, <1>2, <2>1
<1>. QED
  BY <1>2, <1>7, <1>8 DEF PostInv, AlarmInv

\* _build_hysteresis_predictions_for_segment
LEMMA AlarmLeaves ==
  ASSUME PostInv, Alarm
  PROVE  PostInv'
<1>1. PostTypes /\ post = "alarm" /\ AlarmAt(point, active, above, below, alarmed)
  BY DEF PostInv, AlarmInv, Alarm
<1>2. /\ Advance("merge")
      /\ config' = config /\ raw' = raw /\ decision' = decision /\ threshold' = threshold
  BY DEF Alarm
<1>3. Places = 1 .. Length /\ Length \in Nat \ {0} /\ point \in Places /\ point \in Int
  BY <1>1, ConfigFacts DEF PostTypes
<1>4. PICK q \in Int : q = point + 1
  BY <1>3
<1>5. AlarmAt(q, active', above', below', alarmed')
  BY <1>1, <1>4, AlarmStep
<1>6. /\ point' \in Places
      /\ \/ point = Length /\ point' = 1 /\ post' = "merge"
         \/ point # Length /\ point' = q /\ post' = "alarm"
  BY <1>1, <1>2, <1>4, Advances
<1>7. alarmed' = RaisedBy(point)
  <2>1. q - 1 = point
    BY <1>3, <1>4
  <2>. QED
    BY <1>5, <2>1 DEF AlarmAt
<1>8. alarmed' \in SUBSET Places
  BY <1>3, <1>7 DEF RaisedBy
<1>9. PostTypes'
  BY <1>1, <1>2, <1>6, <1>8 DEF PostTypes
<1>10. CASE post' = "alarm"
  <2>1. point' = q
    BY <1>6, <1>10
  <2>2. AlarmAt(point, active, above, below, alarmed)'
    <3>1. PICK act, high, low, raised :
            act = active' /\ high = above' /\ low = below' /\ raised = alarmed'
      OBVIOUS
    <3>2. AlarmAt(q, act, high, low, raised)
      BY <1>5, <3>1
    <3>3. AlarmAt(q, act, high, low, raised)'
      BY <1>2, <3>2, AlarmSame
    <3>. QED
      BY <2>1, <3>1, <3>3
  <2>. QED
    BY <1>9, <1>10, <2>2 DEF PostInv, AlarmInv
<1>11. CASE post' = "merge"
  <2>1. point = Length
    BY <1>6, <1>11
  <2>2. alarmed' = RaisedBy(Length)
    BY <1>7, <2>1
  <2>3. alarmed' = RaisedBy(Length)'
    BY <1>2, <2>2, AlarmSame
  <2>. QED
    BY <1>9, <1>11, <2>3 DEF PostInv, AlarmInv
<1>. QED
  BY <1>6, <1>10, <1>11

\* aggregate_prediction_events, the gaps
LEMMA MergeLeaves ==
  ASSUME PostInv, Merge
  PROVE  PostInv'
<1>1. PostTypes /\ post = "merge" /\ alarmed = RaisedBy(Length)
  BY DEF PostInv, AlarmInv, Merge
<1>2. /\ post' = "drop" /\ config' = config /\ raw' = raw /\ point' = point /\ decision' = decision
      /\ threshold' = threshold /\ active' = active
  BY DEF Merge
<1>3. Backed(alarmed)
  BY <1>1, RaisedIsBacked
<1>4. Mended(alarmed', alarmed)
  BY <1>1, <1>3, MergeStep
<1>5. PICK al, by : al = alarmed' /\ by = RaisedBy(Length)
  OBVIOUS
<1>6. Mended(al, by)
  BY <1>1, <1>4, <1>5
<1>7. Mended(al, by)'
  BY <1>2, <1>6, EventsSame
<1>8. by = RaisedBy(Length)'
  BY <1>2, <1>5, AlarmSame
<1>9. Mended(alarmed, RaisedBy(Length))'
  BY <1>5, <1>7, <1>8
<1>10. alarmed' \in SUBSET Places
  BY <1>4 DEF Mended, FinitePlaces
<1>11. PostTypes'
  BY <1>1, <1>2, <1>10 DEF PostTypes
<1>. QED
  BY <1>2, <1>9, <1>11 DEF PostInv, AlarmInv

\* aggregate_prediction_events, the short events
LEMMA DropLeaves ==
  ASSUME PostInv, Drop
  PROVE  PostInv'
<1>1. PostTypes /\ post = "drop" /\ Mended(alarmed, RaisedBy(Length))
  BY DEF PostInv, Drop
<1>2. /\ post' = "done" /\ config' = config /\ raw' = raw /\ point' = point /\ decision' = decision
      /\ threshold' = threshold /\ active' = active
  BY DEF Drop
<1>3. Settled(alarmed')
  BY <1>1, DropStep
<1>4. PICK al : al = alarmed'
  OBVIOUS
<1>5. Settled(al)'
  BY <1>2, <1>3, <1>4, EventsSame
<1>6. alarmed \in SUBSET FinitePlaces
  BY <1>1 DEF Mended
<1>7. alarmed' \in SUBSET Places
  <2>1. ASSUME NEW x, x \in alarmed' PROVE x \in alarmed
    <3>1. InLongRun(alarmed, x)
      BY <1>1, <1>6, <2>1, DropKeeps
    <3>. QED
      BY <3>1 DEF InLongRun, IsRun
  <2>. QED
    BY <1>6, <2>1 DEF FinitePlaces
<1>8. PostTypes'
  BY <1>1, <1>2, <1>7 DEF PostTypes
<1>. QED
  BY <1>2, <1>4, <1>5, <1>8 DEF PostInv, AlarmInv

\* Steps that change nothing keep it.
LEMMA PostStutters ==
  ASSUME PostInv, UNCHANGED postVars
  PROVE  PostInv'
<1>1. /\ post' = post /\ config' = config /\ raw' = raw /\ point' = point /\ candidates' = candidates
      /\ average' = average /\ decision' = decision /\ threshold' = threshold /\ active' = active
      /\ above' = above /\ below' = below /\ alarmed' = alarmed
  BY DEF postVars
<1>2. PostTypes'
  BY <1>1 DEF PostInv, PostTypes
<1>3. PICK d, c, m, al, by : /\ d = decision /\ c = candidates /\ m = average
                             /\ al = alarmed /\ by = RaisedBy(Length)
  OBVIOUS
<1>4. PICK p, act, high, low : p = point /\ act = active /\ high = above /\ low = below
  OBVIOUS
<1>5. /\ post = "smooth" => DecisionsAt(p, d, c, m)'
      /\ \A i : CausalDecision(i)' = CausalDecision(i)
  BY <1>1, <1>3, <1>4, DecisionSame DEF PostInv
<1>6. /\ post = "alarm" => AlarmAt(p, act, high, low, al)'
      /\ by = RaisedBy(Length)'
  BY <1>1, <1>3, <1>4, AlarmSame DEF PostInv, AlarmInv
<1>7. /\ post = "drop" => Mended(al, by)'
      /\ post = "done" => Settled(al)'
  BY <1>1, <1>3, EventsSame DEF PostInv
<1>8. post' = "smooth" => DecisionsAt(point, decision, candidates, average)'
  BY <1>1, <1>3, <1>4, <1>5
<1>9. post' = "threshold" => \A i \in Places : decision'[i] = CausalDecision(i)'
  BY <1>1, <1>5 DEF PostInv
<1>10. AlarmInv'
  <2>1. post' = "alarm" => AlarmAt(point, active, above, below, alarmed)'
    BY <1>1, <1>3, <1>4, <1>6
  <2>2. post' = "merge" => alarmed' = RaisedBy(Length)'
    BY <1>1, <1>3, <1>6 DEF PostInv, AlarmInv
  <2>. QED
    BY <1>1, <2>1, <2>2 DEF PostInv, AlarmInv
<1>11. post' = "drop" => Mended(alarmed, RaisedBy(Length))'
  BY <1>1, <1>3, <1>6, <1>7
<1>12. post' = "done" => Settled(alarmed)'
  BY <1>1, <1>3, <1>7
<1>. QED
  BY <1>2, <1>8, <1>9, <1>10, <1>11, <1>12 DEF PostInv

\* It says of the alarms what they are meant to be.
LEMMA PostIsEvents ==
  ASSUME PostInv
  PROVE  AlarmsAreEvents
<1>1. PostTypes
  BY DEF PostInv
<1>2. post = "threshold" => \A i \in Places : decision[i] = CausalDecision(i)
  BY DEF PostInv
<1>3. RaisedBy(Length) = {i \in Places : \E s \in Entries : Holding(s, i)}
  <2>1. /\ config.enter \in Nat \ {0} /\ Places = 1 .. Length /\ Length \in Nat
        /\ \A s \in Places : s \in Nat \ {0}
    BY <1>1, ConfigFacts
  <2>2. ASSUME NEW i \in Places
        PROVE  i \in RaisedBy(Length) <=> \E s \in Entries : Holding(s, i)
    <3>1. ASSUME i \in RaisedBy(Length) PROVE \E s \in Entries : Holding(s, i)
      <4>1. PICK s \in Places : Entered(s) /\ Lasts(s, i)
        BY <3>1 DEF RaisedBy
      <4>. QED
        BY <1>1, <4>1, EntriesAre
    <3>2. ASSUME NEW s \in Entries, Holding(s, i) PROVE i \in RaisedBy(Length)
      <4>1. s \in Places /\ Entered(s) /\ Lasts(s, i)
        BY <1>1, <3>2, EntriesAre
      <4>2. s + config.enter - 1 \in s .. s + config.enter - 1
        BY <2>1, <4>1
      <4>3. Finite(s + config.enter - 1)
        BY <4>1, <4>2 DEF Entered
      <4>4. s + config.enter - 1 <= Length
        BY <2>1, <4>3 DEF Finite
      <4>. QED
        BY <2>1, <4>1, <4>4 DEF RaisedBy
    <3>. QED
      BY <3>1, <3>2
  <2>3. RaisedBy(Length) \in SUBSET Places
    BY <2>1 DEF RaisedBy
  <2>. QED
    BY <2>2, <2>3
<1>4. post = "merge" => alarmed = {i \in Places : \E s \in Entries : Holding(s, i)}
  BY <1>3 DEF PostInv, AlarmInv
<1>5. ASSUME post = "done"
      PROVE  /\ \A event \in Events : /\ Cardinality(event) >= config.least
                                      /\ Min(event) \in Entries
                                      /\ \E s \in Entries \cap event : Holding(s, Max(event))
             /\ \A run \in FiniteRuns : SmallGaps(run) = {}
             /\ alarmed \subseteq UNION FiniteRuns
             /\ \A s \in Entries : s \notin alarmed => config.enter < config.least
  <2>1. Settled(alarmed)
    BY <1>5 DEF PostInv
  <2>2. \A run : SmallGaps(run) = GapsOf(alarmed, run)
    BY DEF SmallGaps, GapsOf
  <2>. QED
    BY <2>1, <2>2 DEF Settled, Events
<1>. QED
  BY <1>2, <1>4, <1>5 DEF AlarmsAreEvents

\* Decision scores look at no later point and over no gap; what the hysteresis
\* raises is what was entered and not yet left; in the end every event is long
\* enough, begins with an entry and ends where one still holds, and lies in a
\* run of finite scores with no small gap left.
THEOREM EventsAreAlarms == PostSpec => []AlarmsAreEvents
<1>1. PostInit => PostInv
  BY PostInitial
<1>2. PostInv /\ [PostNext]_postVars => PostInv'
  BY SmoothLeaves, ThresholdLeaves, AlarmLeaves, MergeLeaves, DropLeaves, PostStutters DEF PostNext
<1>3. PostInv => AlarmsAreEvents
  BY PostIsEvents
<1>. QED
  BY <1>1, <1>2, <1>3, PTL DEF PostSpec
----------------------------------------------------------------------------
(* The rows of the sequences and their scores                               *)

ScoredLengths == [k \in 1 .. Count |-> ScoredLength(k)]

\* The rows of a sequence that have a score
ScoreRows(s) == offset.start + 1 .. lengths[s] - offset.end

AlignTypes ==
  /\ Count \in Nat /\ Count >= 1 /\ lengths = [s \in 1 .. Count |-> lengths[s]]
  /\ offset.start \in Nat /\ offset.end \in Nat
  /\ full \in BOOLEAN
  /\ \A s \in 1 .. Count : lengths[s] \in Nat /\ ScoredLength(s) \in Nat

\* The score of row r of sequence s, at place j, is beside its label, or is a
\* first score that has landed before it.
IsBeside(s, r, j, labels) ==
  \/ labels[j] = <<s, r>>
  \/ full /\ s > 1 /\ r = offset.start + 1 /\ \E k \in 1 .. Len(labels) : labels[k] = <<s, r>> /\ j < k

\* What a place of the scores holds
HoldsScore(j, held, labels) ==
  \/ held[j] = NoScore
  \/ \E s \in 1 .. Count : \E r \in ScoreRows(s) : held[j] = <<s, r>> /\ IsBeside(s, r, j, labels)

\* All scores are there, beside their labels or before them.
Matched(held, labels) ==
  /\ held \in Seq(Int \X Int) /\ labels \in Seq(Int \X Int) /\ Len(held) = Len(labels)
  /\ \A s \in 1 .. Count : \A r \in ScoreRows(s) : \E j \in 1 .. Len(held) : held[j] = <<s, r>>
  /\ \A j \in 1 .. Len(held) : HoldsScore(j, held, labels)

Segments == [s \in 1 .. Count |-> IF full THEN lengths[s] ELSE ScoredLength(s)]

AlignInv ==
  /\ AlignTypes /\ rowsAt \in {"scored", "padded", "separated"}
  /\ rowsAt = "scored" => rowScores = RowsWithScore /\ rowLabels = AllRows
  /\ rowsAt \in {"padded", "separated"} => Matched(rowScores, rowLabels)
  /\ rowsAt = "padded" => Len(rowScores) = SumOver(Segments, 1, Count)

\* The lengths of the sequences, and of their scored parts, are numbers.
LEMMA LengthsAre ==
  ASSUME AlignTypes
  PROVE  /\ Counts(lengths, Count) /\ Counts(ScoredLengths, Count)
         /\ \A k \in 1 .. Count : /\ ScoredLengths[k] = ScoredLength(k)
                                  /\ lengths[k] = ScoredLengths[k] + offset.start + offset.end
<1>1. ASSUME NEW k \in 1 .. Count
      PROVE  /\ lengths[k] \in Nat /\ ScoredLengths[k] \in Nat
             /\ ScoredLengths[k] = ScoredLength(k)
             /\ lengths[k] = ScoredLengths[k] + offset.start + offset.end
  BY DEF AlignTypes, ScoredLengths, ScoredLength
<1>. QED
  BY <1>1 DEF Counts

\* Where a sequence begins with and without the rows that have no score
LEMMA EndsApart ==
  ASSUME AlignTypes, NEW a \in 0 .. Count
  PROVE  SumOver(lengths, 1, a) = SumOver(ScoredLengths, 1, a) + offset.start * a + offset.end * a
<1> DEFINE B(k) == SumOver(ScoredLengths, 1, k)
           P(k) == SumOver(lengths, 1, k)
           S == {k \in 0 .. Count : P(k) # B(k) + offset.start * k + offset.end * k}
<1>1. SUFFICES ASSUME a \in S PROVE FALSE
  OBVIOUS
<1>2. S \in SUBSET Nat
  BY DEF AlignTypes
<1>3. PICK m \in S : \A k \in S : m <= k
  BY <1>1, <1>2, LeastNatural
<1>4. PICK o \in Nat, e \in Nat : o = offset.start /\ e = offset.end
  BY DEF AlignTypes
<1>5. Count \in Nat /\ Counts(lengths, Count) /\ Counts(ScoredLengths, Count)
  BY LengthsAre DEF AlignTypes
<1>6. m # 0
  <2>1. SUFFICES ASSUME m = 0 PROVE FALSE
    OBVIOUS
  <2>2. P(0) = 0 /\ B(0) = 0
    BY <1>5, SumUpTo
  <2>3. 0 = 0 + o * 0 + e * 0
    BY <1>4
  <2>. QED
    BY <1>3, <1>4, <2>1, <2>2, <2>3
<1>7. m \in 1 .. Count /\ m - 1 \in 0 .. Count /\ ~ (m <= m - 1)
  BY <1>3, <1>5, <1>6
<1>8. P(m - 1) = B(m - 1) + o * (m - 1) + e * (m - 1)
  BY <1>3, <1>4, <1>7
<1>9. P(m) = P(m - 1) + lengths[m] /\ B(m) = B(m - 1) + ScoredLengths[m]
  BY <1>5, <1>7, SumUpTo
<1>10. P(m - 1) \in Nat /\ B(m - 1) \in Nat
  BY <1>5, <1>7, SumUpTo
<1>11. lengths[m] = ScoredLengths[m] + o + e /\ ScoredLengths[m] \in Nat
  BY <1>4, <1>5, <1>7, LengthsAre DEF Counts
<1>12. ASSUME NEW p \in Int, NEW b \in Int, NEW s \in Int, NEW k \in Int, p = b + o * (k - 1) + e * (k - 1)
       PROVE  p + (s + o + e) = (b + s) + o * k + e * k
  BY <1>12
<1>13. m \in Int
  BY <1>7
<1>14. P(m) = B(m) + o * m + e * m
  BY <1>8, <1>9, <1>10, <1>11, <1>12, <1>13
<1>. QED
  BY <1>3, <1>4, <1>14

\* The n rows of sequence s from a row on
ListsRows(q, s, from, n) ==
  q \in Seq(Int \X Int) /\ Len(q) = n /\ \A i \in 1 .. n : q[i] = <<s, from + i - 1>>

\* Rows lists the rows from one on.
LEMMA RowsAre ==
  ASSUME NEW s \in Int, NEW from \in Int, NEW to \in Int, NEW n \in Nat, n <= to - from + 1, to - from + 1 <= n
  PROVE  ListsRows(Rows(s, from, to), s, from, n)
<1>1. n = to - from + 1
  OBVIOUS
<1>2. ASSUME NEW i \in 1 .. n PROVE <<s, from + i - 1>> \in Int \X Int
  OBVIOUS
<1>3. Rows(s, from, to) = [i \in 1 .. n |-> <<s, from + i - 1>>]
  BY <1>1 DEF Rows
<1>4. Rows(s, from, to) \in [1 .. n -> Int \X Int]
  BY <1>2, <1>3
<1>5. Rows(s, from, to) \in Seq(Int \X Int) /\ Len(Rows(s, from, to)) = n
  BY <1>4
<1>. QED
  BY <1>3, <1>5 DEF ListsRows

\* The rows that have a score, one sequence behind another
LEMMA ScoresAre ==
  ASSUME AlignTypes
  PROVE  /\ RowsWithScore \in Seq(Int \X Int)
         /\ Len(RowsWithScore) = SumOver(ScoredLengths, 1, Count)
         /\ \A k \in 1 .. Count : \A i \in 1 .. ScoredLengths[k] :
              /\ SumOver(ScoredLengths, 1, k - 1) + i \in 1 .. Len(RowsWithScore)
              /\ RowsWithScore[SumOver(ScoredLengths, 1, k - 1) + i] = <<k, offset.start + i>>
<1>1. PICK p : p = [s \in 1 .. Count |-> Rows(s, offset.start + 1, lengths[s] - offset.end)]
  OBVIOUS
<1>2. DOMAIN lengths = 1 .. Count
  BY DEF AlignTypes
<1>3. RowsWithScore = Concat(p)
  BY <1>1, <1>2 DEF RowsWithScore
<1>4. ASSUME NEW k \in 1 .. Count
      PROVE  /\ p[k] \in Seq(Int \X Int) /\ Len(p[k]) = ScoredLengths[k]
             /\ \A i \in 1 .. ScoredLengths[k] : p[k][i] = <<k, offset.start + i>>
  <2>1. PICK from \in Int, to \in Int : from = offset.start + 1 /\ to = lengths[k] - offset.end
    BY DEF AlignTypes
  <2>2. PICK n \in Nat : n = ScoredLengths[k] /\ n <= to - from + 1 /\ to - from + 1 <= n
    <3>1. ScoredLengths[k] \in Nat /\ lengths[k] = ScoredLengths[k] + offset.start + offset.end
      BY LengthsAre DEF Counts
    <3>2. offset.start \in Nat /\ offset.end \in Nat
      BY DEF AlignTypes
    <3>3. PICK n \in Nat : n = ScoredLengths[k]
      BY <3>1
    <3>4. n <= to - from + 1 /\ to - from + 1 <= n
      BY <2>1, <3>1, <3>2, <3>3
    <3>. QED
      BY <3>3, <3>4
  <2>3. p[k] = Rows(k, from, to) /\ k \in Int
    BY <1>1, <2>1 DEF AlignTypes
  <2>4. ListsRows(p[k], k, from, n)
    BY <2>2, <2>3, RowsAre
  <2>5. ASSUME NEW i \in 1 .. n PROVE p[k][i] = <<k, offset.start + i>>
    <3>1. p[k][i] = <<k, from + i - 1>>
      BY <2>4 DEF ListsRows
    <3>2. from + i - 1 = offset.start + i
      BY <2>1 DEF AlignTypes
    <3>. QED
      BY <3>1, <3>2
  <2>. QED
    BY <2>2, <2>4, <2>5 DEF ListsRows
<1>5. p \in Seq(Seq(Int \X Int)) /\ Len(p) = Count /\ Lengths(p) = ScoredLengths
  <2>1. Count \in Nat /\ p = [k \in 1 .. Count |-> p[k]] /\ ScoredLengths = [k \in 1 .. Count |-> ScoredLengths[k]]
    BY <1>1 DEF AlignTypes, ScoredLengths
  <2>2. AreLong(p, ScoredLengths, Int \X Int, Count)
    BY <1>4 DEF AreLong
  <2>. QED
    BY <2>1, <2>2, PiecesAre
<1>6. HoldsPieces(Concat(p), p, Int \X Int, Count)
  BY <1>5, ConcatIs
<1>7. ASSUME NEW k \in 1 .. Count, NEW i \in 1 .. ScoredLengths[k]
      PROVE  /\ SumOver(ScoredLengths, 1, k - 1) + i \in 1 .. Len(Concat(p))
             /\ Concat(p)[SumOver(ScoredLengths, 1, k - 1) + i] = p[k][i]
  <2>1. i \in 1 .. Len(p[k])
    BY <1>4
  <2>. QED
    BY <1>5, <1>6, <2>1 DEF HoldsPieces
<1>8. Concat(p) \in Seq(Int \X Int) /\ Len(Concat(p)) = SumOver(ScoredLengths, 1, Count)
  BY <1>5, <1>6 DEF HoldsPieces
<1>. QED
  BY <1>3, <1>4, <1>7, <1>8

\* All rows, one sequence behind another
LEMMA LabelsAre ==
  ASSUME AlignTypes
  PROVE  /\ AllRows \in Seq(Int \X Int) /\ Len(AllRows) = SumOver(lengths, 1, Count)
         /\ \A k \in 1 .. Count : \A i \in 1 .. lengths[k] :
              /\ SumOver(lengths, 1, k - 1) + i \in 1 .. Len(AllRows)
              /\ AllRows[SumOver(lengths, 1, k - 1) + i] = <<k, i>>
<1>1. PICK p : p = [s \in 1 .. Count |-> Rows(s, 1, lengths[s])]
  OBVIOUS
<1>2. DOMAIN lengths = 1 .. Count
  BY DEF AlignTypes
<1>3. AllRows = Concat(p)
  BY <1>1, <1>2 DEF AllRows
<1>4. ASSUME NEW k \in 1 .. Count
      PROVE  /\ p[k] \in Seq(Int \X Int) /\ Len(p[k]) = lengths[k]
             /\ \A i \in 1 .. lengths[k] : p[k][i] = <<k, i>>
  <2>1. PICK to \in Nat : to = lengths[k]
    BY DEF AlignTypes
  <2>2. k \in Int /\ to <= to - 1 + 1 /\ to - 1 + 1 <= to
    BY <2>1 DEF AlignTypes
  <2>3. p[k] = Rows(k, 1, to)
    BY <1>1, <2>1
  <2>4. ListsRows(p[k], k, 1, to)
    BY <2>2, <2>3, RowsAre
  <2>5. ASSUME NEW i \in 1 .. to PROVE p[k][i] = <<k, i>>
    <3>1. p[k][i] = <<k, 1 + i - 1>>
      BY <2>4 DEF ListsRows
    <3>2. 1 + i - 1 = i
      OBVIOUS
    <3>. QED
      BY <3>1, <3>2
  <2>. QED
    BY <2>1, <2>4, <2>5 DEF ListsRows
<1>5. p \in Seq(Seq(Int \X Int)) /\ Len(p) = Count /\ Lengths(p) = lengths
  <2>1. Count \in Nat /\ p = [k \in 1 .. Count |-> p[k]] /\ lengths = [k \in 1 .. Count |-> lengths[k]]
    BY <1>1 DEF AlignTypes
  <2>2. AreLong(p, lengths, Int \X Int, Count)
    BY <1>4 DEF AreLong
  <2>. QED
    BY <2>1, <2>2, PiecesAre
<1>6. HoldsPieces(Concat(p), p, Int \X Int, Count)
  BY <1>5, ConcatIs
<1>7. ASSUME NEW k \in 1 .. Count, NEW i \in 1 .. lengths[k]
      PROVE  /\ SumOver(lengths, 1, k - 1) + i \in 1 .. Len(Concat(p))
             /\ Concat(p)[SumOver(lengths, 1, k - 1) + i] = p[k][i]
  <2>1. i \in 1 .. Len(p[k])
    BY <1>4
  <2>. QED
    BY <1>5, <1>6, <2>1 DEF HoldsPieces
<1>8. Concat(p) \in Seq(Int \X Int) /\ Len(Concat(p)) = SumOver(lengths, 1, Count)
  BY <1>5, <1>6 DEF HoldsPieces
<1>. QED
  BY <1>3, <1>4, <1>7, <1>8

----------------------------------------------------------------------------
(* Where pad_each_subsequence puts a score                                 *)

\* The boundaries before a place
BoundariesBefore(pos) == {s \in 1 .. Count - 1 : SumOver(ScoredLengths, 1, s) < pos}

\* The bucket of a score is the number of boundaries before it.
LEMMA BucketCounts ==
  ASSUME AlignTypes, NEW pos
  PROVE  /\ Bucket(pos) = Cardinality(BoundariesBefore(pos)) /\ IsFiniteSet(BoundariesBefore(pos))
         /\ Bucket(pos) \in Nat /\ Bucket(pos) <= Count - 1
<1>1. Bucket(pos) = Cardinality(BoundariesBefore(pos))
  BY DEF Bucket, Boundary, BoundariesBefore, ScoredLengths
<1>2. PICK m \in Int : m = Count - 1 /\ m >= 0
  BY DEF AlignTypes
<1>3. IsFiniteSet(1 .. m) /\ Cardinality(1 .. m) = m
  <2>1. IsFiniteSet(1 .. m) /\ Cardinality(1 .. m) = IF 1 > m THEN 0 ELSE m - 1 + 1
    BY FS_Interval
  <2>. QED
    BY <1>2, <2>1
<1>4. BoundariesBefore(pos) \subseteq 1 .. m
  BY <1>2 DEF BoundariesBefore
<1>5. IsFiniteSet(BoundariesBefore(pos)) /\ Cardinality(BoundariesBefore(pos)) <= m
  BY <1>3, <1>4, FS_Subset
<1>6. Cardinality(BoundariesBefore(pos)) \in Nat
  BY <1>5, FS_CardinalityType
<1>. QED
  BY <1>1, <1>2, <1>5, <1>6

\* A later place has no fewer boundaries before it.
LEMMA BucketsGrow ==
  ASSUME AlignTypes, NEW pos \in Nat, NEW pas \in Nat, pos <= pas
  PROVE  Bucket(pos) <= Bucket(pas)
<1>1. ASSUME NEW s \in BoundariesBefore(pos) PROVE s \in BoundariesBefore(pas)
  <2>1. s \in 1 .. Count - 1 /\ SumOver(ScoredLengths, 1, s) < pos
    BY DEF BoundariesBefore
  <2>2. SumOver(ScoredLengths, 1, s) \in Nat
    <3>1. Count \in Nat /\ s \in 0 .. Count
      BY <2>1 DEF AlignTypes
    <3>. QED
      BY <3>1, LengthsAre, SumUpTo
  <2>3. SumOver(ScoredLengths, 1, s) < pas
    BY <2>1, <2>2
  <2>. QED
    BY <2>1, <2>3 DEF BoundariesBefore
<1>2. BoundariesBefore(pos) \subseteq BoundariesBefore(pas)
  BY <1>1
<1>3. Cardinality(BoundariesBefore(pos)) <= Cardinality(BoundariesBefore(pas))
  BY <1>2, BucketCounts, FS_Subset
<1>. QED
  BY <1>3, BucketCounts

\* The scores of a sequence lie behind the boundaries of those before it, the
\* first of them behind all but the last.
LEMMA BucketIs ==
  ASSUME AlignTypes, NEW k \in 1 .. Count, NEW i \in 1 .. ScoredLengths[k],
         NEW pos \in Nat, pos = SumOver(ScoredLengths, 1, k - 1) + i - 1
  PROVE  IF i = 1 /\ k > 1 THEN Bucket(pos) <= k - 2 ELSE Bucket(pos) = k - 1
<1> DEFINE B(j) == SumOver(ScoredLengths, 1, j)
<1>1. Count \in Nat /\ Counts(ScoredLengths, Count) /\ ScoredLengths[k] \in Nat /\ k \in Int /\ i \in Int
  BY LengthsAre DEF AlignTypes, Counts
<1>2. \A j \in 0 .. Count : B(j) \in Nat
  BY <1>1, SumUpTo
<1>3. B(k) = B(k - 1) + ScoredLengths[k] /\ k - 1 \in 0 .. Count /\ k \in 0 .. Count
  BY <1>1, SumUpTo
<1>4. ASSUME NEW s \in 1 .. Count - 1, s >= k PROVE ~ (B(s) < pos)
  <2>1. B(k) <= B(s)
    BY <1>1, <1>4, SumsGrow
  <2>2. B(s) \in Nat /\ B(k) \in Nat /\ B(k - 1) \in Nat
    BY <1>2, <1>3, <1>4, <1>1
  <2>3. pos < B(k)
    BY <1>1, <1>3, <2>2
  <2>. QED
    BY <2>1, <2>2, <2>3
<1>5. CASE ~ (i = 1 /\ k > 1)
  <2>1. ASSUME NEW s \in 1 .. Count - 1, s < k PROVE B(s) < pos
    <3>1. k > 1 /\ i > 1
      BY <1>1, <1>5, <2>1
    <3>2. s \in 0 .. Count /\ k - 1 \in s .. Count
      BY <1>1, <2>1
    <3>3. B(s) <= B(k - 1)
      BY <1>1, <3>2, SumsGrow
    <3>4. B(s) \in Nat /\ B(k - 1) \in Nat
      BY <1>2, <1>3, <3>2
    <3>. QED
      BY <1>1, <3>1, <3>3, <3>4
  <2>2. BoundariesBefore(pos) = 1 .. k - 1
    <3>1. ASSUME NEW s \in BoundariesBefore(pos) PROVE s \in 1 .. k - 1
      BY <1>1, <1>4 DEF BoundariesBefore
    <3>2. ASSUME NEW s \in 1 .. k - 1 PROVE s \in BoundariesBefore(pos)
      <4>1. s \in 1 .. Count - 1 /\ s < k
        BY <1>1
      <4>. QED
        BY <2>1, <4>1 DEF BoundariesBefore
    <3>. QED
      BY <3>1, <3>2
  <2>3. Cardinality(1 .. k - 1) = k - 1
    <3>1. PICK m \in Int : m = k - 1
      BY <1>1
    <3>2. Cardinality(1 .. m) = IF 1 > m THEN 0 ELSE m - 1 + 1
      BY FS_Interval
    <3>3. m >= 0
      BY <3>1
    <3>. QED
      BY <3>1, <3>2, <3>3
  <2>. QED
    BY <1>5, <2>2, <2>3, BucketCounts
<1>6. CASE i = 1 /\ k > 1
  <2>1. ASSUME NEW s \in BoundariesBefore(pos) PROVE s \in 1 .. k - 2
    <3>1. s \in 1 .. Count - 1 /\ B(s) < pos
      BY DEF BoundariesBefore
    <3>2. s < k
      BY <1>1, <1>4, <3>1
    <3>3. pos = B(k - 1)
      BY <1>2, <1>3, <1>6
    <3>4. s # k - 1
      <4>1. B(k - 1) \in Nat
        BY <1>2, <1>3
      <4>. QED
        BY <3>1, <3>3, <4>1
    <3>. QED
      BY <1>1, <3>1, <3>2, <3>4
  <2>2. PICK m \in Int : m = k - 2 /\ m >= 0
    BY <1>1, <1>6
  <2>3. IsFiniteSet(1 .. m) /\ Cardinality(1 .. m) = m
    <3>1. IsFiniteSet(1 .. m)
      BY FS_Interval
    <3>2. Cardinality(1 .. m) = IF 1 > m THEN 0 ELSE m - 1 + 1
      BY FS_Interval
    <3>. QED
      BY <2>2, <3>1, <3>2
  <2>4. BoundariesBefore(pos) \subseteq 1 .. m
    BY <2>1, <2>2
  <2>5. Cardinality(BoundariesBefore(pos)) <= m
    BY <2>3, <2>4, FS_Subset
  <2>. QED
    BY <1>6, <2>2, <2>5, BucketCounts
<1>. QED
  BY <1>5, <1>6

\* Later scores are put at later places.
LEMMA OutPosGrows ==
  ASSUME AlignTypes, NEW pos \in Nat, NEW pas \in Nat, pos < pas
  PROVE  OutPos(pos) < OutPos(pas) /\ OutPos(pos) \in Nat
<1>1. PICK o \in Nat, e \in Nat : o = offset.start /\ e = offset.end
  BY DEF AlignTypes
<1>2. PICK b \in Nat, c \in Nat : b = Bucket(pos) /\ c = Bucket(pas)
  BY BucketCounts
<1>3. b <= c
  BY <1>2, BucketsGrow
<1>4. o * (b + 1) <= o * (c + 1) /\ o * (b + 1) \in Int /\ o * (c + 1) \in Int
  BY <1>3, ProductGrows
<1>5. e * b <= e * c /\ e * b \in Int /\ e * c \in Int
  BY <1>3, ProductGrows
<1>6. o * (b + 1) >= 0 /\ e * b >= 0
  OBVIOUS
<1>7. OutPos(pos) = pos + o * (b + 1) + e * b /\ OutPos(pas) = pas + o * (c + 1) + e * c
  BY <1>1, <1>2 DEF OutPos
<1>. QED
  BY <1>4, <1>5, <1>6, <1>7

\* A list and its values, put at places that rise with them
PutAt(y, x, S, n) ==
  /\ y \in Seq(S) /\ Len(y) = n
  /\ \A i \in 1 .. Len(x) : OutPos(i - 1) + 1 \in 1 .. n /\ y[OutPos(i - 1) + 1] = x[i]
  /\ \A j \in 1 .. n : y[j] = NoScore \/ \E i \in 1 .. Len(x) : j = OutPos(i - 1) + 1 /\ y[j] = x[i]

\* Every score has a place of its own, all others hold none.
LEMMA PadIs ==
  ASSUME AlignTypes, rowScores \in Seq(Int \X Int), ~ (offset.start = 0 /\ offset.end = 0),
         NEW n \in Nat, n = Len(rowScores) + offset.start * Count + offset.end * Count
  PROVE  PutAt(PadEachSubsequence, rowScores, Int \X Int, n)
<1> DEFINE x == rowScores
           At(at) == {i \in DOMAIN x : OutPos(i - 1) + 1 = at}
           Value(at) == IF At(at) = {} THEN NoScore ELSE x[Max(At(at))]
<1>1. PICK o \in Nat, e \in Nat, c \in Nat : o = offset.start /\ e = offset.end /\ c = Count
  BY DEF AlignTypes
<1>2. DOMAIN x = 1 .. Len(x) /\ Len(x) \in Nat
  BY LenProperties
<1>3. PadEachSubsequence = [at \in 1 .. n |-> Value(at)]
  <2>1. Len(x) + c * (o + e) = n
    BY <1>1, <1>2
  <2>2. Len(rowScores) + Count * (offset.start + offset.end) = n
    BY <1>1, <2>1
  <2>. QED
    BY <2>2 DEF PadEachSubsequence
<1>4. ASSUME NEW i \in 1 .. Len(x) PROVE OutPos(i - 1) + 1 \in 1 .. n
  <2>1. PICK pos \in Nat : pos = i - 1 /\ pos + 1 <= Len(x)
    BY <1>2
  <2>2. PICK b \in Nat : b = Bucket(pos) /\ b <= c - 1
    BY <1>1, BucketCounts
  <2>3. OutPos(pos) = pos + o * (b + 1) + e * b
    BY <1>1, <2>2 DEF OutPos
  <2>4. o * (b + 1) <= o * c /\ o * (b + 1) \in Int /\ o * c \in Int
    <3>1. PICK m \in Int : m = b + 1 /\ m <= c
      BY <2>2
    <3>2. o * m <= o * c /\ o * m \in Int /\ o * c \in Int
      BY <3>1, ProductGrows
    <3>. QED
      BY <3>1, <3>2
  <2>5. e * b <= e * c /\ e * b \in Int /\ e * c \in Int
    <3>1. b <= c
      BY <2>2
    <3>. QED
      BY <3>1, ProductGrows
  <2>6. o * (b + 1) >= 0 /\ e * b >= 0
    OBVIOUS
  <2>7. n = Len(x) + o * c + e * c
    BY <1>1
  <2>8. PICK u \in Int, v \in Int, w \in Int, z \in Int : u = o * (b + 1) /\ v = o * c /\ w = e * b /\ z = e * c
    BY <2>4, <2>5
  <2>9. pos + u + w + 1 \in 1 .. Len(x) + v + z
    <3>1. u <= v /\ w <= z /\ 0 <= u /\ 0 <= w
      BY <2>4, <2>5, <2>6, <2>8
    <3>2. PICK m \in Nat : m = Len(x)
      BY <1>2
    <3>3. pos + u + w + 1 \in 1 .. m + v + z
      BY <2>1, <3>1, <3>2
    <3>. QED
      BY <3>2, <3>3
  <2>. QED
    BY <2>1, <2>3, <2>7, <2>8, <2>9
<1>5. ASSUME NEW i \in 1 .. Len(x) PROVE Max(At(OutPos(i - 1) + 1)) = i /\ i \in At(OutPos(i - 1) + 1)
  <2>1. i \in At(OutPos(i - 1) + 1)
    BY <1>2
  <2>2. ASSUME NEW k \in At(OutPos(i - 1) + 1) PROVE k = i
    <3>1. PICK a \in Nat, b \in Nat : a = i - 1 /\ b = k - 1
      <4>1. k \in 1 .. Len(x)
        BY <1>2, <2>2
      <4>2. i - 1 \in Nat /\ k - 1 \in Nat
        BY <1>2, <4>1
      <4>. QED
        BY <4>2
    <3>2. OutPos(b) + 1 = OutPos(a) + 1 /\ OutPos(a) \in Nat /\ OutPos(b) \in Nat
      <4>1. a < a + 1 /\ b < b + 1 /\ a + 1 \in Nat /\ b + 1 \in Nat
        OBVIOUS
      <4>. QED
        BY <2>2, <3>1, <4>1, OutPosGrows
    <3>3. ~ (a < b)
      <4>1. SUFFICES ASSUME a < b PROVE FALSE
        OBVIOUS
      <4>2. OutPos(a) < OutPos(b)
        BY <4>1, OutPosGrows
      <4>. QED
        BY <3>2, <4>2
    <3>4. ~ (b < a)
      <4>1. SUFFICES ASSUME b < a PROVE FALSE
        OBVIOUS
      <4>2. OutPos(b) < OutPos(a)
        BY <4>1, OutPosGrows
      <4>. QED
        BY <3>2, <4>2
    <3>. QED
      BY <1>2, <3>1, <3>3, <3>4
  <2>3. At(OutPos(i - 1) + 1) = {i}
    BY <2>1, <2>2
  <2>4. {i} \in SUBSET Int /\ i \in {i} /\ \A y \in {i} : i >= y
    BY <1>2
  <2>5. Max({i}) = i
    BY <2>4, MaxIs
  <2>. QED
    BY <2>1, <2>3, <2>5
<1>6. ASSUME NEW j \in 1 .. n
      PROVE  /\ PadEachSubsequence[j] \in Int \X Int
             /\ PadEachSubsequence[j] = NoScore \/ \E i \in 1 .. Len(x) : j = OutPos(i - 1) + 1 /\ PadEachSubsequence[j] = x[i]
  <2>1. PadEachSubsequence[j] = Value(j)
    BY <1>3
  <2>2. CASE At(j) = {}
    <3>1. NoScore \in Int \X Int
      BY DEF NoScore
    <3>. QED
      BY <2>1, <2>2, <3>1
  <2>3. CASE At(j) # {}
    <3>1. PICK i \in At(j) : TRUE
      BY <2>3
    <3>2. i \in 1 .. Len(x) /\ OutPos(i - 1) + 1 = j
      BY <1>2, <3>1
    <3>3. Value(j) = x[i]
      BY <1>5, <2>3, <3>2
    <3>4. x[i] \in Int \X Int
      BY <3>2, ElementOfSeq
    <3>. QED
      BY <2>1, <3>2, <3>3, <3>4
  <2>. QED
    BY <2>2, <2>3
<1>7. ASSUME NEW i \in 1 .. Len(x) PROVE PadEachSubsequence[OutPos(i - 1) + 1] = x[i]
  BY <1>3, <1>4, <1>5
<1>8. PadEachSubsequence \in [1 .. n -> Int \X Int]
  BY <1>3, <1>6
<1>9. PadEachSubsequence \in Seq(Int \X Int) /\ Len(PadEachSubsequence) = n
  BY <1>8, FunctionIsList
<1>. QED
  BY <1>4, <1>6, <1>7, <1>9 DEF PutAt

\* The first score of a later sequence lands before the place of its row, every
\* other one at it.
LEMMA LandsAt ==
  ASSUME AlignTypes, NEW k \in 1 .. Count, NEW i \in 1 .. ScoredLengths[k],
         NEW pos \in Nat, pos = SumOver(ScoredLengths, 1, k - 1) + i - 1,
         NEW own \in Int, own = SumOver(lengths, 1, k - 1) + offset.start + i,
         ~ (offset.start = 0 /\ offset.end = 0)
  PROVE  IF i = 1 /\ k > 1 THEN OutPos(pos) + 1 < own ELSE OutPos(pos) + 1 = own
<1>1. PICK o \in Nat, e \in Nat, b \in Nat, m \in Nat : o = offset.start /\ e = offset.end /\ b = Bucket(pos) /\ m = k - 1
  <2>1. offset.start \in Nat /\ offset.end \in Nat
    BY DEF AlignTypes
  <2>2. Bucket(pos) \in Nat
    BY BucketCounts
  <2>3. k - 1 \in Nat
    BY DEF AlignTypes
  <2>. QED
    BY <2>1, <2>2, <2>3
<1>2. o + e > 0
  BY <1>1
<1>3. PICK x \in Nat : x = SumOver(ScoredLengths, 1, m)
  <2>1. m \in 0 .. Count /\ Count \in Nat
    BY <1>1 DEF AlignTypes
  <2>. QED
    BY <2>1, LengthsAre, SumUpTo
<1>4. SumOver(lengths, 1, m) = x + o * m + e * m
  <2>1. m \in 0 .. Count
    BY <1>1 DEF AlignTypes
  <2>. QED
    BY <1>1, <1>3, <2>1, EndsApart
<1>5. own = x + o * m + e * m + o + i /\ pos = x + i - 1 /\ i \in Int /\ i >= 1
  BY <1>1, <1>3, <1>4
<1>6. OutPos(pos) = pos + o * (b + 1) + e * b
  BY <1>1 DEF OutPos
<1>7. CASE ~ (i = 1 /\ k > 1)
  <2>1. b = m
    BY <1>1, <1>7, BucketIs
  <2>2. o * (m + 1) = o * m + o
    OBVIOUS
  <2>3. PICK u \in Int, v \in Int : u = o * m /\ v = e * m
    OBVIOUS
  <2>4. OutPos(pos) + 1 = own
    BY <1>5, <1>6, <2>1, <2>2, <2>3
  <2>. QED
    BY <1>7, <2>4
<1>8. CASE i = 1 /\ k > 1
  <2>1. b + 1 <= m
    BY <1>1, <1>8, BucketIs
  <2>2. PICK c \in Int : c = b + 1
    OBVIOUS
  <2>3. o * c <= o * m /\ e * c <= e * m
    BY <2>1, <2>2, ProductGrows
  <2>4. PICK u \in Int, v \in Int, w \in Int, z \in Int : u = o * m /\ v = e * m /\ w = o * c /\ z = e * b
    OBVIOUS
  <2>5. e * c = z + e
    BY <2>2, <2>4
  <2>6. OutPos(pos) = pos + w + z
    BY <1>6, <2>2, <2>4
  <2>7. w <= u /\ z + e <= v
    BY <2>3, <2>4, <2>5
  <2>8. own = x + u + v + o + i /\ pos = x + i - 1
    BY <1>5, <2>4
  <2>9. OutPos(pos) + 1 < own
    BY <1>2, <1>5, <2>6, <2>7, <2>8
  <2>. QED
    BY <1>8, <2>9
<1>. QED
  BY <1>7, <1>8

\* Place j of the scores belongs to the i-th score of sequence s.
IsScore(j, s, i) ==
  /\ j \in 1 .. Len(RowsWithScore) /\ j = SumOver(ScoredLengths, 1, s - 1) + i
  /\ RowsWithScore[j] = <<s, offset.start + i>> /\ offset.start + i \in ScoreRows(s)

\* Every row that has a score has a place, every place such a row.
LEMMA ScorePlaces ==
  ASSUME AlignTypes
  PROVE  /\ RowsWithScore \in Seq(Int \X Int) /\ Len(RowsWithScore) \in Nat
         /\ Len(RowsWithScore) = SumOver(ScoredLengths, 1, Count)
         /\ \A s \in 1 .. Count : \A r \in ScoreRows(s) : \E j \in 1 .. Len(RowsWithScore) : RowsWithScore[j] = <<s, r>>
         /\ \A j \in 1 .. Len(RowsWithScore) : \E s \in 1 .. Count : \E i \in 1 .. ScoredLengths[s] : IsScore(j, s, i)
<1> DEFINE x == RowsWithScore
           B(j) == SumOver(ScoredLengths, 1, j)
<1>1. x \in Seq(Int \X Int) /\ Len(x) = B(Count) /\ Len(x) \in Nat
  BY ScoresAre, LenProperties
<1>2. ASSUME NEW s \in 1 .. Count
      PROVE  /\ offset.start \in Nat /\ offset.end \in Nat /\ lengths[s] \in Nat
             /\ lengths[s] = ScoredLengths[s] + offset.start + offset.end /\ ScoredLengths[s] \in Nat
  BY LengthsAre DEF AlignTypes, Counts
<1>3. ASSUME NEW s \in 1 .. Count, NEW r \in ScoreRows(s) PROVE \E j \in 1 .. Len(x) : x[j] = <<s, r>>
  <2>1. PICK i \in 1 .. ScoredLengths[s] : r = offset.start + i
    <3>1. r - offset.start \in 1 .. ScoredLengths[s] /\ r = offset.start + (r - offset.start)
      BY <1>2 DEF ScoreRows
    <3>. QED
      BY <3>1
  <2>2. B(s - 1) + i \in 1 .. Len(x) /\ x[B(s - 1) + i] = <<s, offset.start + i>>
    BY ScoresAre
  <2>. QED
    BY <2>1, <2>2
<1>4. ASSUME NEW j \in 1 .. Len(x) PROVE \E s \in 1 .. Count : \E i \in 1 .. ScoredLengths[s] : IsScore(j, s, i)
  <2>1. Count \in Nat /\ Counts(ScoredLengths, Count) /\ j \in Nat /\ 1 <= j /\ j <= B(Count)
    BY <1>1, LengthsAre DEF AlignTypes
  <2>2. \E s \in 1 .. Count : \E i \in 1 .. ScoredLengths[s] : j = B(s - 1) + i
    BY <2>1, PartOf
  <2>3. PICK s \in 1 .. Count : \E i \in 1 .. ScoredLengths[s] : j = B(s - 1) + i
    BY <2>2
  <2>4. PICK i \in 1 .. ScoredLengths[s] : j = B(s - 1) + i
    BY <2>3
  <2>5. x[j] = <<s, offset.start + i>>
    BY <2>4, ScoresAre
  <2>6. offset.start + i \in ScoreRows(s)
    <3>1. PICK o \in Nat, e \in Nat, l \in Nat, c \in Nat :
            /\ o = offset.start /\ e = offset.end /\ l = lengths[s] /\ c = ScoredLengths[s]
            /\ l = c + o + e
      BY <1>2
    <3>2. i \in 1 .. c
      BY <3>1
    <3>3. o + i \in o + 1 .. o + c
      BY <3>2
    <3>4. l = c + o + e
      BY <3>1
    <3>5. o + c = l - e
      BY <3>4
    <3>. QED
      BY <3>1, <3>3, <3>5 DEF ScoreRows
  <2>7. IsScore(j, s, i)
    BY <2>4, <2>5, <2>6 DEF IsScore
  <2>. QED
    BY <2>7
<1>. QED
  BY <1>1, <1>3, <1>4

\* Scores without padding are beside the labels of their rows.
LEMMA CutAligned ==
  ASSUME AlignTypes
  PROVE  Matched(RowsWithScore, RowsWithScore)
<1>1. ASSUME NEW j \in 1 .. Len(RowsWithScore) PROVE HoldsScore(j, RowsWithScore, RowsWithScore)
  <2>1. PICK s \in 1 .. Count : \E i \in 1 .. ScoredLengths[s] : IsScore(j, s, i)
    BY ScorePlaces
  <2>2. PICK i \in 1 .. ScoredLengths[s] : IsScore(j, s, i)
    BY <2>1
  <2>3. IsBeside(s, offset.start + i, j, RowsWithScore)
    BY <2>2 DEF IsBeside, IsScore
  <2>. QED
    BY <2>2, <2>3 DEF HoldsScore, IsScore
<1>. QED
  BY <1>1, ScorePlaces DEF Matched

\* Without an offset every row has a score.
LEMMA WholeAligned ==
  ASSUME AlignTypes, offset.start = 0, offset.end = 0
  PROVE  AllRows = RowsWithScore /\ lengths = ScoredLengths
<1>1. DOMAIN lengths = 1 .. Count
  BY DEF AlignTypes
<1>2. ASSUME NEW s \in 1 .. Count
      PROVE  lengths[s] \in Nat /\ ScoredLengths[s] = lengths[s] /\ Rows(s, 1, lengths[s]) = Rows(s, offset.start + 1, lengths[s] - offset.end)
  <2>1. lengths[s] \in Nat /\ lengths[s] = ScoredLengths[s] + offset.start + offset.end /\ ScoredLengths[s] \in Nat
    BY LengthsAre DEF AlignTypes, Counts
  <2>2. offset.start + 1 = 1 /\ lengths[s] - offset.end = lengths[s]
    BY <2>1
  <2>. QED
    BY <2>1, <2>2
<1>3. [s \in DOMAIN lengths |-> Rows(s, 1, lengths[s])]
        = [s \in DOMAIN lengths |-> Rows(s, offset.start + 1, lengths[s] - offset.end)]
  BY <1>1, <1>2
<1>4. AllRows = RowsWithScore
  BY <1>3 DEF AllRows, RowsWithScore
<1>5. lengths = ScoredLengths
  <2>1. lengths = [s \in 1 .. Count |-> lengths[s]] /\ ScoredLengths = [s \in 1 .. Count |-> ScoredLengths[s]]
    BY DEF AlignTypes, ScoredLengths
  <2>. QED
    BY <1>2, <2>1
<1>. QED
  BY <1>4, <1>5

\* The padded scores stand beside the labels of all rows, or before them.
LEMMA PadAligned ==
  ASSUME AlignTypes, full, rowScores = RowsWithScore
  PROVE  Matched(PadEachSubsequence, AllRows) /\ Len(PadEachSubsequence) = SumOver(lengths, 1, Count)
<1> DEFINE x == RowsWithScore
           y == PadEachSubsequence
<1>1. CASE offset.start = 0 /\ offset.end = 0
  <2>1. y = x /\ AllRows = x /\ lengths = ScoredLengths
    BY <1>1, WholeAligned DEF PadEachSubsequence
  <2>. QED
    BY <2>1, CutAligned, ScorePlaces
<1>2. CASE ~ (offset.start = 0 /\ offset.end = 0)
  <2>1. PICK n \in Nat : n = SumOver(lengths, 1, Count)
    <3>1. Count \in Nat /\ Count \in 0 .. Count
      BY DEF AlignTypes
    <3>. QED
      BY <3>1, LengthsAre, SumUpTo
  <2>2. n = Len(rowScores) + offset.start * Count + offset.end * Count
    <3>1. Count \in 0 .. Count
      BY DEF AlignTypes
    <3>. QED
      BY <2>1, <3>1, EndsApart, ScorePlaces
  <2>3. rowScores \in Seq(Int \X Int)
    BY ScorePlaces
  <2>4. PutAt(y, rowScores, Int \X Int, n)
    BY <1>2, <2>2, <2>3, PadIs
  <2>5. PutAt(y, x, Int \X Int, n)
    BY <2>4
  <2>6. AllRows \in Seq(Int \X Int) /\ Len(AllRows) = n
    BY <2>1, LabelsAre
  <2>7. ASSUME NEW s \in 1 .. Count, NEW r \in ScoreRows(s) PROVE \E j \in 1 .. n : y[j] = <<s, r>>
    <3>1. PICK i \in 1 .. Len(x) : x[i] = <<s, r>>
      BY ScorePlaces
    <3>2. OutPos(i - 1) + 1 \in 1 .. n /\ y[OutPos(i - 1) + 1] = x[i]
      BY <2>5 DEF PutAt
    <3>. QED
      BY <3>1, <3>2
  <2>8. ASSUME NEW j \in 1 .. n PROVE HoldsScore(j, y, AllRows)
    <3>1. SUFFICES ASSUME y[j] # NoScore PROVE HoldsScore(j, y, AllRows)
      BY DEF HoldsScore
    <3>2. PICK a \in 1 .. Len(x) : j = OutPos(a - 1) + 1 /\ y[j] = x[a]
      BY <2>5, <3>1 DEF PutAt
    <3>3. PICK s \in 1 .. Count : \E i \in 1 .. ScoredLengths[s] : IsScore(a, s, i)
      BY ScorePlaces
    <3>4. PICK i \in 1 .. ScoredLengths[s] : IsScore(a, s, i)
      BY <3>3
    <3>5. y[j] = <<s, offset.start + i>> /\ offset.start + i \in ScoreRows(s)
      BY <3>2, <3>4 DEF IsScore
    <3>6. PICK b \in Int : b = SumOver(lengths, 1, s - 1)
      <4>1. Count \in Nat /\ s - 1 \in 0 .. Count
        BY DEF AlignTypes
      <4>. QED
        BY <4>1, LengthsAre, SumUpTo
    <3>7. PICK pos \in Nat, own \in Int : pos = a - 1 /\ own = b + offset.start + i
      <4>1. a - 1 \in Nat
        BY ScorePlaces
      <4>2. b + offset.start + i \in Int
        BY <3>6 DEF AlignTypes
      <4>. QED
        BY <4>1, <4>2
    <3>8. pos = SumOver(ScoredLengths, 1, s - 1) + i - 1 /\ own = SumOver(lengths, 1, s - 1) + offset.start + i
      <4>1. PICK c \in Int : c = SumOver(ScoredLengths, 1, s - 1)
        <5>1. Count \in Nat
          BY DEF AlignTypes
        <5>2. s - 1 \in 0 .. Count
          BY <5>1
        <5>. QED
          BY <5>1, <5>2, LengthsAre, SumUpTo
      <4>2. a = c + i
        BY <3>4, <4>1 DEF IsScore
      <4>3. pos = c + i - 1
        BY <3>7, <4>2
      <4>4. own = SumOver(lengths, 1, s - 1) + offset.start + i
        BY <3>6, <3>7
      <4>. QED
        BY <4>1, <4>3, <4>4
    <3>9. IF i = 1 /\ s > 1 THEN OutPos(pos) + 1 < own ELSE OutPos(pos) + 1 = own
      BY <1>2, <3>8, LandsAt
    <3>10. own \in 1 .. Len(AllRows) /\ AllRows[own] = <<s, offset.start + i>>
      <4>1. PICK r \in Int : r = offset.start + i
        BY DEF AlignTypes
      <4>2. r \in 1 .. lengths[s]
        <5>1. PICK o \in Nat, e \in Nat, l \in Nat : o = offset.start /\ e = offset.end /\ l = lengths[s]
          BY DEF AlignTypes
        <5>2. r \in o + 1 .. l - e
          BY <3>5, <4>1, <5>1 DEF ScoreRows
        <5>3. r \in 1 .. l
          BY <5>2
        <5>. QED
          BY <5>1, <5>3
      <4>3. own = b + r
        <5>1. PICK o \in Int : o = offset.start
          BY DEF AlignTypes
        <5>2. own = b + o + i /\ r = o + i
          BY <3>7, <4>1, <5>1
        <5>. QED
          BY <5>2
      <4>. QED
        BY <3>6, <4>1, <4>2, <4>3, LabelsAre
    <3>11. IsBeside(s, offset.start + i, j, AllRows)
      <4>1. CASE i = 1 /\ s > 1
        BY <3>2, <3>7, <3>9, <3>10, <4>1 DEF IsBeside
      <4>2. CASE ~ (i = 1 /\ s > 1)
        BY <3>2, <3>7, <3>9, <3>10, <4>2 DEF IsBeside
      <4>. QED
        BY <4>1, <4>2
    <3>. QED
      BY <3>5, <3>11 DEF HoldsScore
  <2>9. y \in Seq(Int \X Int) /\ Len(y) = n
    BY <2>5 DEF PutAt
  <2>. QED
    BY <2>1, <2>6, <2>7, <2>8, <2>9 DEF Matched
<1>. QED
  BY <1>1, <1>2

----------------------------------------------------------------------------
(* The separators                                                          *)

\* A list with a separator before each of its n parts of the given lengths
SeparatedAt(y, x, S, len, n, value) ==
  /\ y \in Seq(S) /\ Len(y) = Len(x) + n
  /\ \A k \in 1 .. n : \A i \in 1 .. len[k] :
       /\ SumOver(len, 1, k - 1) + i \in 1 .. Len(x)
       /\ SumOver(len, 1, k - 1) + i + k \in 1 .. Len(y)
       /\ y[SumOver(len, 1, k - 1) + i + k] = x[SumOver(len, 1, k - 1) + i]
  /\ \A j \in 1 .. Len(y) :
       \/ y[j] = value
       \/ \E k \in 1 .. n : \E i \in 1 .. len[k] :
            j = SumOver(len, 1, k - 1) + i + k /\ y[j] = x[SumOver(len, 1, k - 1) + i]

\* Every length is by one greater.
OneMore(d, e, n) == \A k \in 1 .. n : e[k] = 1 + d[k]

\* Each place adds one to the sum of the greater lengths.
LEMMA SumOfOneMore ==
  ASSUME NEW d, NEW e, NEW n \in Nat, Counts(d, n), Counts(e, n), OneMore(d, e, n), NEW a \in 0 .. n
  PROVE  SumOver(e, 1, a) = SumOver(d, 1, a) + a
<1> DEFINE S == {k \in 0 .. n : SumOver(e, 1, k) # SumOver(d, 1, k) + k}
<1>1. SUFFICES ASSUME a \in S PROVE FALSE
  OBVIOUS
<1>2. S \in SUBSET Nat
  OBVIOUS
<1>3. PICK m \in S : \A k \in S : m <= k
  BY <1>1, <1>2, LeastNatural
<1>4. m # 0
  <2>1. SumOver(d, 1, 0) = 0 /\ SumOver(e, 1, 0) = 0
    BY SumUpTo
  <2>. QED
    BY <1>3, <2>1
<1>5. m \in 1 .. n /\ m - 1 \in 0 .. n /\ ~ (m <= m - 1) /\ m \in Int
  BY <1>3, <1>4
<1>6. SumOver(e, 1, m - 1) = SumOver(d, 1, m - 1) + (m - 1)
  BY <1>3, <1>5
<1>7. SumOver(d, 1, m) = SumOver(d, 1, m - 1) + d[m] /\ SumOver(d, 1, m - 1) \in Nat
  BY <1>5, SumUpTo
<1>8. SumOver(e, 1, m) = SumOver(e, 1, m - 1) + e[m]
  BY <1>5, SumUpTo
<1>9. d[m] \in Nat /\ e[m] = 1 + d[m]
  BY <1>5 DEF Counts, OneMore
<1>10. ASSUME NEW x \in Int, NEW y \in Int PROVE x + (m - 1) + (1 + y) = (x + y) + m
  BY <1>5
<1>11. SumOver(e, 1, m) = SumOver(d, 1, m) + m
  BY <1>6, <1>7, <1>8, <1>9, <1>10
<1>. QED
  BY <1>3, <1>11

\* A separator and the n places of a list from a place on
IsPart(q, x, S, value, from, n) ==
  /\ q \in Seq(S) /\ Len(q) = 1 + n /\ q[1] = value
  /\ \A i \in 1 .. n : q[1 + i] = x[from + i]

\* What is put down for one part of a list: the separator, then its places.
LEMMA PartSeparated ==
  ASSUME NEW S, NEW x \in Seq(S), NEW value \in S, NEW from \in Nat, NEW n \in Nat, from + n <= Len(x)
  PROVE  IsPart(<<value>> \o SubSeq(x, from + 1, from + n), x, S, value, from, n)
<1> DEFINE s == SubSeq(x, from + 1, from + n)
           q == <<value>> \o s
<1>1. Len(x) \in Nat
  BY LenProperties
<1>2. PICK a \in Nat, b \in Nat : a = from + 1 /\ b = from + n
  OBVIOUS
<1>3. s = [i \in 1 .. n |-> x[from + i]]
  <2>1. b - a + 1 = n
    BY <1>2
  <2>2. SubSeq(x, a, b) = [i \in 1 .. n |-> x[a + i - 1]]
    BY <1>1, <1>2, <2>1
  <2>3. ASSUME NEW i \in 1 .. n PROVE a + i - 1 = from + i
    BY <1>2
  <2>. QED
    BY <1>2, <2>2, <2>3
<1>4. s \in Seq(S) /\ Len(s) = n
  <2>1. ASSUME NEW i \in 1 .. n PROVE x[from + i] \in S
    <3>1. from + i \in 1 .. Len(x)
      BY <1>1
    <3>. QED
      BY <3>1, ElementOfSeq
  <2>2. s \in [1 .. n -> S]
    BY <1>3, <2>1
  <2>. QED
    BY <2>2, FunctionIsList
<1>5. q \in Seq(S) /\ Len(q) = 1 + n /\ q[1] = value /\ \A i \in 1 .. n : q[1 + i] = s[i]
  <2> HIDE DEF s
  <2>. QED
    BY <1>4
<1>. QED
  BY <1>3, <1>5 DEF IsPart

\* insert_before_subsequences puts a separator before each part.
LEMMA InsertIs ==
  ASSUME NEW S, NEW x \in Seq(S), NEW value \in S, NEW n \in Nat, NEW len, len = [k \in 1 .. n |-> len[k]],
         Counts(len, n), Len(x) = SumOver(len, 1, n)
  PROVE  SeparatedAt(InsertBefore(x, len, value), x, S, len, n, value)
<1> DEFINE B(k) == SumOver(len, 1, k)
           y == InsertBefore(x, len, value)
<1>1. PICK p : p = [k \in 1 .. n |-> <<value>> \o SubSeq(x, B(k - 1) + 1, B(k))]
  OBVIOUS
<1>2. DOMAIN len = 1 .. n
  OBVIOUS
<1>3. y = Concat(p)
  BY <1>1, <1>2 DEF InsertBefore
<1>4. ASSUME NEW k \in 1 .. n
      PROVE  /\ B(k - 1) \in Nat /\ B(k) = B(k - 1) + len[k] /\ len[k] \in Nat /\ B(k) <= Len(x)
  <2>1. k - 1 \in 0 .. n /\ k \in 0 .. n /\ n \in k .. n
    OBVIOUS
  <2>2. B(k) <= B(n)
    BY <2>1, SumsGrow
  <2>. QED
    BY <2>1, <2>2, SumUpTo DEF Counts
<1>5. ASSUME NEW k \in 1 .. n
      PROVE  /\ p[k] \in Seq(S) /\ Len(p[k]) = 1 + len[k] /\ p[k][1] = value
             /\ \A i \in 1 .. len[k] : p[k][1 + i] = x[B(k - 1) + i]
  <2>1. PICK from \in Nat, m \in Nat : from = B(k - 1) /\ m = len[k]
    BY <1>4
  <2>2. from + m <= Len(x) /\ B(k) = from + m
    BY <1>4, <2>1
  <2>3. p[k] = <<value>> \o SubSeq(x, from + 1, from + m)
    BY <1>1, <2>1, <2>2
  <2>4. IsPart(p[k], x, S, value, from, m)
    BY <2>2, <2>3, PartSeparated
  <2>. QED
    BY <2>1, <2>4 DEF IsPart
<1>6. PICK e : e = [k \in 1 .. n |-> 1 + len[k]]
  OBVIOUS
<1>7. OneMore(len, e, n) /\ e = [k \in 1 .. n |-> e[k]]
  BY <1>6 DEF OneMore
<1>8. AreLong(p, e, S, n)
  BY <1>5, <1>6 DEF AreLong
<1>9. p = [k \in 1 .. n |-> p[k]]
  BY <1>1
<1>10. p \in Seq(Seq(S)) /\ Len(p) = n /\ Lengths(p) = e /\ Counts(e, n)
  BY <1>7, <1>8, <1>9, PiecesAre
<1>11. HoldsPieces(y, p, S, n)
  BY <1>3, <1>10, ConcatIs
<1>12. ASSUME NEW k \in 0 .. n PROVE SumOver(e, 1, k) = B(k) + k /\ B(k) \in Nat
  BY <1>7, <1>10, SumOfOneMore, SumUpTo
<1>13. y \in Seq(S) /\ Len(y) = Len(x) + n
  <2>1. n \in 0 .. n
    OBVIOUS
  <2>. QED
    BY <1>10, <1>11, <1>12, <2>1 DEF HoldsPieces
<1>14. ASSUME NEW k \in 1 .. n, NEW i \in 1 .. 1 + len[k]
       PROVE  /\ B(k - 1) + (k - 1) + i \in 1 .. Len(y)
              /\ y[B(k - 1) + (k - 1) + i] = p[k][i]
  <2>1. k - 1 \in 0 .. n /\ i \in 1 .. Len(p[k])
    BY <1>5
  <2>2. SumOver(e, 1, k - 1) + i \in 1 .. Len(y) /\ y[SumOver(e, 1, k - 1) + i] = p[k][i]
    BY <1>10, <1>11, <2>1 DEF HoldsPieces
  <2>. QED
    BY <1>12, <2>1, <2>2
<1>15. ASSUME NEW k \in 1 .. n, NEW i \in 1 .. len[k]
       PROVE  /\ B(k - 1) + i \in 1 .. Len(x) /\ B(k - 1) + i + k \in 1 .. Len(y)
              /\ y[B(k - 1) + i + k] = x[B(k - 1) + i]
  <2>1. PICK b \in Nat, m \in Nat : b = B(k - 1) /\ m = len[k]
    BY <1>4
  <2>2. 1 + i \in 1 .. 1 + len[k] /\ b + (k - 1) + (1 + i) = b + i + k
    <3>1. i \in 1 .. m /\ i \in Int /\ k \in Int
      BY <2>1
    <3>2. 1 + i \in 1 .. 1 + m
      BY <3>1
    <3>. QED
      BY <2>1, <3>1, <3>2
  <2>3. B(k - 1) + i + k \in 1 .. Len(y) /\ y[B(k - 1) + i + k] = p[k][1 + i]
    BY <1>14, <2>1, <2>2
  <2>4. B(k - 1) + i \in 1 .. Len(x)
    <3>1. B(k) = b + m /\ B(k) <= Len(x) /\ Len(x) \in Nat
      BY <1>4, <2>1, LenProperties
    <3>. QED
      BY <2>1, <3>1
  <2>. QED
    BY <1>5, <2>3, <2>4
<1>16. ASSUME NEW j \in 1 .. Len(y)
       PROVE  y[j] = value \/ \E k \in 1 .. n : \E i \in 1 .. len[k] : j = B(k - 1) + i + k /\ y[j] = x[B(k - 1) + i]
  <2>1. j \in Nat /\ 1 <= j /\ j <= SumOver(e, 1, n)
    <3>1. Len(y) = SumOver(e, 1, n) /\ Len(y) \in Nat
      BY <1>10, <1>11, LenProperties DEF HoldsPieces
    <3>. QED
      BY <3>1
  <2>2. \E k \in 1 .. n : \E i \in 1 .. e[k] : j = SumOver(e, 1, k - 1) + i
    BY <1>10, <2>1, PartOf
  <2>3. PICK k \in 1 .. n : \E i \in 1 .. e[k] : j = SumOver(e, 1, k - 1) + i
    BY <2>2
  <2>4. PICK i \in 1 .. e[k] : j = SumOver(e, 1, k - 1) + i
    BY <2>3
  <2>5. PICK b \in Nat, m \in Nat : b = B(k - 1) /\ m = len[k]
    BY <1>4
  <2>6. e[k] = 1 + m /\ i \in 1 .. 1 + m /\ j = b + (k - 1) + i
    <3>1. k - 1 \in 0 .. n
      OBVIOUS
    <3>. QED
      BY <1>6, <1>12, <2>4, <2>5, <3>1
  <2>7. y[j] = p[k][i]
    BY <1>14, <2>5, <2>6
  <2>8. CASE i = 1
    BY <1>5, <2>7, <2>8
  <2>9. CASE i # 1
    <3>1. PICK a \in 1 .. m : i = 1 + a
      <4>1. i - 1 \in 1 .. m /\ i = 1 + (i - 1)
        BY <2>6, <2>9
      <4>. QED
        BY <4>1
    <3>2. p[k][i] = x[B(k - 1) + a]
      BY <1>5, <2>5, <3>1
    <3>3. j = b + a + k
      BY <2>6, <3>1
    <3>. QED
      BY <2>5, <2>7, <3>1, <3>2, <3>3
  <2>. QED
    BY <2>8, <2>9
<1>. QED
  BY <1>13, <1>15, <1>16 DEF SeparatedAt

\* A later place in the list is a later one among the separators.
LEMMA SeparatedInOrder ==
  ASSUME NEW len, NEW n \in Nat, Counts(len, n), NEW k \in 1 .. n, NEW i \in 1 .. len[k],
         NEW l \in 1 .. n, NEW j \in 1 .. len[l],
         SumOver(len, 1, k - 1) + i < SumOver(len, 1, l - 1) + j
  PROVE  SumOver(len, 1, k - 1) + i + k < SumOver(len, 1, l - 1) + j + l
<1>1. k <= l
  <2>1. SUFFICES ASSUME l < k PROVE FALSE
    OBVIOUS
  <2>2. l \in 0 .. n /\ k - 1 \in l .. n
    BY <2>1
  <2>3. SumOver(len, 1, l) <= SumOver(len, 1, k - 1)
    BY <2>2, SumsGrow
  <2>4. SumOver(len, 1, l) = SumOver(len, 1, l - 1) + len[l] /\ len[l] \in Nat
    BY SumUpTo DEF Counts
  <2>5. l - 1 \in 0 .. n /\ k - 1 \in 0 .. n
    OBVIOUS
  <2>6. SumOver(len, 1, l - 1) \in Nat /\ SumOver(len, 1, k - 1) \in Nat
    BY <2>5, SumUpTo
  <2>7. PICK u \in Nat, v \in Nat, m \in Nat : u = SumOver(len, 1, l - 1) /\ v = SumOver(len, 1, k - 1) /\ m = len[l]
    BY <2>4, <2>6
  <2>8. u + m <= v /\ v + i < u + j /\ j \in 1 .. m /\ i \in Int /\ i >= 1
    BY <2>3, <2>4, <2>7
  <2>. QED
    BY <2>7, <2>8
<1>2. k - 1 \in 0 .. n /\ l - 1 \in 0 .. n /\ len[k] \in Nat /\ len[l] \in Nat
  BY DEF Counts
<1>3. PICK u \in Nat, v \in Nat : u = SumOver(len, 1, l - 1) /\ v = SumOver(len, 1, k - 1)
  BY <1>2, SumUpTo
<1>4. i \in Int /\ j \in Int /\ k \in Int /\ l \in Int
  BY <1>2
<1>. QED
  BY <1>1, <1>3, <1>4

\* Separators in both lists leave them aligned.
LEMMA InsertAligned ==
  ASSUME AlignTypes, NEW x, NEW z, Matched(x, z),
         NEW len, len = [k \in 1 .. Count |-> len[k]], Counts(len, Count), Len(x) = SumOver(len, 1, Count)
  PROVE  Matched(InsertBefore(x, len, NoScore), InsertBefore(z, len, NoLabel))
<1> DEFINE B(k) == SumOver(len, 1, k)
           y == InsertBefore(x, len, NoScore)
           w == InsertBefore(z, len, NoLabel)
           R == Int \X Int
<1>1. x \in Seq(R) /\ z \in Seq(R) /\ Len(z) = Len(x) /\ NoScore \in R /\ NoLabel \in R /\ Count \in Nat
  BY DEF Matched, NoScore, NoLabel, AlignTypes
<1>2. SeparatedAt(y, x, R, len, Count, NoScore)
  BY <1>1, InsertIs
<1>3. SeparatedAt(w, z, R, len, Count, NoLabel)
  BY <1>1, InsertIs
<1>4. y \in Seq(R) /\ w \in Seq(R) /\ Len(y) = Len(w)
  BY <1>1, <1>2, <1>3 DEF SeparatedAt
<1>5. ASSUME NEW a \in 1 .. Len(x) PROVE \E k \in 1 .. Count : \E i \in 1 .. len[k] : a = B(k - 1) + i
  <2>1. a \in Nat /\ 1 <= a /\ a <= B(Count)
    BY <1>1, LenProperties
  <2>. QED
    BY <1>1, <2>1, PartOf
<1>6. ASSUME NEW s \in 1 .. Count, NEW r \in ScoreRows(s) PROVE \E j \in 1 .. Len(y) : y[j] = <<s, r>>
  <2>1. PICK a \in 1 .. Len(x) : x[a] = <<s, r>>
    BY DEF Matched
  <2>2. PICK k \in 1 .. Count : \E i \in 1 .. len[k] : a = B(k - 1) + i
    BY <1>5
  <2>3. PICK i \in 1 .. len[k] : a = B(k - 1) + i
    BY <2>2
  <2>4. B(k - 1) + i + k \in 1 .. Len(y) /\ y[B(k - 1) + i + k] = x[B(k - 1) + i]
    BY <1>2 DEF SeparatedAt
  <2>. QED
    BY <2>1, <2>3, <2>4
<1>7. ASSUME NEW j \in 1 .. Len(y) PROVE HoldsScore(j, y, w)
  <2>1. SUFFICES ASSUME y[j] # NoScore PROVE HoldsScore(j, y, w)
    BY DEF HoldsScore
  <2>2. PICK k \in 1 .. Count : \E i \in 1 .. len[k] : j = B(k - 1) + i + k /\ y[j] = x[B(k - 1) + i]
    BY <1>2, <2>1 DEF SeparatedAt
  <2>3. PICK i \in 1 .. len[k] : j = B(k - 1) + i + k /\ y[j] = x[B(k - 1) + i]
    BY <2>2
  <2>4. B(k - 1) + i \in 1 .. Len(x) /\ w[j] = z[B(k - 1) + i]
    BY <1>2, <1>3, <2>3 DEF SeparatedAt
  <2>5. PICK a \in 1 .. Len(x) : a = B(k - 1) + i
    BY <2>4
  <2>6. HoldsScore(a, x, z) /\ x[a] # NoScore
    BY <2>1, <2>3, <2>5 DEF Matched
  <2>7. PICK s \in 1 .. Count : \E r \in ScoreRows(s) : x[a] = <<s, r>> /\ IsBeside(s, r, a, z)
    BY <2>6 DEF HoldsScore
  <2>8. PICK r \in ScoreRows(s) : x[a] = <<s, r>> /\ IsBeside(s, r, a, z)
    BY <2>7
  <2>9. IsBeside(s, r, j, w)
    <3>1. CASE z[a] = <<s, r>>
      BY <2>4, <2>5, <3>1 DEF IsBeside
    <3>2. CASE full /\ s > 1 /\ r = offset.start + 1 /\ \E c \in 1 .. Len(z) : z[c] = <<s, r>> /\ a < c
      <4>1. PICK c \in 1 .. Len(x) : z[c] = <<s, r>> /\ a < c
        BY <1>1, <3>2
      <4>2. PICK l \in 1 .. Count : \E m \in 1 .. len[l] : c = B(l - 1) + m
        BY <1>5
      <4>3. PICK m \in 1 .. len[l] : c = B(l - 1) + m
        BY <4>2
      <4>4. B(l - 1) + m + l \in 1 .. Len(w) /\ w[B(l - 1) + m + l] = z[c]
        BY <1>3, <4>3 DEF SeparatedAt
      <4>5. B(k - 1) + i + k < B(l - 1) + m + l
        BY <1>1, <2>5, <4>1, <4>3, SeparatedInOrder
      <4>. QED
        BY <2>3, <3>2, <4>1, <4>4, <4>5 DEF IsBeside
    <3>. QED
      BY <2>8, <3>1, <3>2 DEF IsBeside
  <2>. QED
    BY <2>3, <2>5, <2>8, <2>9 DEF HoldsScore
<1>. QED
  BY <1>4, <1>6, <1>7 DEF Matched

----------------------------------------------------------------------------
(* The steps                                                               *)

\* Before anything is padded, the invariant holds.
LEMMA AlignInitial == AlignInit => AlignInv
<1>1. SUFFICES ASSUME AlignInit PROVE AlignInv
  OBVIOUS
<1>2. PICK n \in 1 .. MaxSequences : lengths \in [1 .. n -> 1 .. MaxLength]
  BY <1>1 DEF AlignInit
<1>3. n \in Nat /\ n >= 1 /\ DOMAIN lengths = 1 .. n
  BY <1>2
<1>4. lengths \in Seq(1 .. MaxLength) /\ Len(lengths) = n
  BY <1>2, <1>3, FunctionIsList
<1>5. /\ Count = n /\ lengths = [s \in 1 .. Count |-> lengths[s]]
      /\ \A s \in 1 .. Count : lengths[s] \in Nat
  BY <1>2, <1>4 DEF Count
<1>6. offset.start \in Nat /\ offset.end \in Nat
  <2>1. PICK window \in 1 .. MaxLength, horizon \in 0 .. MaxHorizon, labelOffset \in 0 .. 1 :
           offset = [start |-> window + horizon - 1 + labelOffset, end |-> Max({0, horizon - 1})]
    BY <1>1 DEF AlignInit
  <2>2. horizon - 1 \in Int /\ 0 \in Int
    OBVIOUS
  <2>3. Max({0, horizon - 1}) = IF 0 >= horizon - 1 THEN 0 ELSE horizon - 1
    BY <2>2, MaxOfTwo
  <2>4. window + horizon - 1 + labelOffset \in Nat
    OBVIOUS
  <2>. QED
    BY <2>1, <2>2, <2>3, <2>4
<1>7. \A s \in 1 .. Count : ScoredLength(s) \in Nat
  <2>1. ASSUME NEW s \in 1 .. Count PROVE ScoredLength(s) \in Nat
    <3>1. ScoredLength(s) >= 0
      BY <1>1, <1>3, <1>5 DEF AlignInit
    <3>2. ScoredLength(s) \in Int
      BY <1>5, <1>6 DEF ScoredLength
    <3>. QED
      BY <3>1, <3>2
  <2>. QED
    BY <2>1
<1>8. AlignTypes
  BY <1>1, <1>3, <1>5, <1>6, <1>7 DEF AlignInit, AlignTypes
<1>. QED
  BY <1>1, <1>8 DEF AlignInit, AlignInv

\* A step leaves the lengths, and the lists aligned.
LEMMA AlignedNext ==
  ASSUME UNCHANGED <<lengths, offset, full>>, AlignTypes,
         NEW x, NEW z, rowScores' = x, rowLabels' = z, Matched(x, z)
  PROVE  AlignTypes' /\ Matched(rowScores, rowLabels)'
<1>1. AlignTypes'
  BY DEF AlignTypes, Count, ScoredLength
<1>2. Count' = Count /\ NoScore' = NoScore /\ \A s : ScoreRows(s)' = ScoreRows(s)
  BY DEF Count, NoScore, ScoreRows
<1>3. Matched(rowScores, rowLabels)'
  BY <1>2 DEF Matched, HoldsScore, IsBeside
<1>. QED
  BY <1>1, <1>3

\* The lengths that the separators are put between are numbers.
LEMMA SegmentsAre ==
  ASSUME AlignTypes
  PROVE  /\ Counts(Segments, Count) /\ Segments = [k \in 1 .. Count |-> Segments[k]]
         /\ Segments = IF full THEN lengths ELSE ScoredLengths
<1>1. lengths = [k \in 1 .. Count |-> lengths[k]] /\ ScoredLengths = [k \in 1 .. Count |-> ScoredLength(k)]
  BY DEF AlignTypes, ScoredLengths
<1>2. Segments = IF full THEN lengths ELSE ScoredLengths
  BY <1>1 DEF Segments
<1>. QED
  BY <1>1, <1>2, LengthsAre DEF ScoredLengths

\* Padding the scores, or cutting the labels, leaves the scores with their rows.
LEMMA PadLeaves == AlignInv /\ Pad => AlignInv'
<1>1. SUFFICES ASSUME AlignInv, Pad PROVE AlignInv'
  OBVIOUS
<1>2. AlignTypes /\ rowScores = RowsWithScore /\ rowLabels = AllRows
  BY <1>1 DEF AlignInv, Pad
<1>3. UNCHANGED <<lengths, offset, full>> /\ rowsAt' = "padded" /\ full \in BOOLEAN
  BY <1>1, <1>2 DEF Pad, AlignTypes
<1>4. Segments' = Segments /\ Count' = Count
  BY <1>3 DEF Segments, Count, ScoredLength
<1>5. PICK x, z : rowScores' = x /\ rowLabels' = z
  OBVIOUS
<1>6. Matched(x, z) /\ Len(x) = SumOver(Segments, 1, Count)
  <2>1. CASE full
    <3>1. x = PadEachSubsequence /\ z = AllRows
      BY <1>1, <1>2, <1>5, <2>1 DEF Pad
    <3>. QED
      BY <1>2, <2>1, <3>1, PadAligned, SegmentsAre
  <2>2. CASE ~ full
    <3>1. x = RowsWithScore /\ z = RowsWithScore
      BY <1>1, <1>2, <1>5, <2>2 DEF Pad
    <3>. QED
      BY <1>2, <2>2, <3>1, CutAligned, ScorePlaces, SegmentsAre
  <2>. QED
    BY <2>1, <2>2
<1>7. AlignTypes' /\ Matched(rowScores, rowLabels)'
  BY <1>2, <1>3, <1>5, <1>6, AlignedNext
<1>8. Len(rowScores') = SumOver(Segments', 1, Count')
  BY <1>4, <1>5, <1>6
<1>. QED
  BY <1>3, <1>7, <1>8 DEF AlignInv

\* So do the separators.
LEMMA SeparateLeaves == AlignInv /\ Separate => AlignInv'
<1>1. SUFFICES ASSUME AlignInv, Separate PROVE AlignInv'
  OBVIOUS
<1>2. AlignTypes /\ Matched(rowScores, rowLabels) /\ Len(rowScores) = SumOver(Segments, 1, Count)
  BY <1>1 DEF AlignInv, Separate
<1>3. UNCHANGED <<lengths, offset, full>> /\ rowsAt' = "separated" /\ DOMAIN lengths = 1 .. Count
  BY <1>1, <1>2 DEF Separate, AlignTypes
<1>4. PICK x, z : x = InsertBefore(rowScores, Segments, NoScore) /\ z = InsertBefore(rowLabels, Segments, NoLabel)
  OBVIOUS
<1>5. rowScores' = x /\ rowLabels' = z
  BY <1>1, <1>3, <1>4 DEF Separate, Segments
<1>6. Matched(x, z)
  BY <1>2, <1>4, SegmentsAre, InsertAligned
<1>7. AlignTypes' /\ Matched(rowScores, rowLabels)'
  BY <1>2, <1>3, <1>5, <1>6, AlignedNext
<1>. QED
  BY <1>3, <1>7 DEF AlignInv

\* Every step keeps the scores aligned.
LEMMA AlignStepInv == AlignInv /\ [AlignNext]_alignVars => AlignInv'
<1>1. SUFFICES ASSUME AlignInv, [AlignNext]_alignVars PROVE AlignInv'
  OBVIOUS
<1>2. CASE AlignNext
  BY <1>1, <1>2, PadLeaves, SeparateLeaves DEF AlignNext
<1>3. CASE UNCHANGED alignVars
  <2>1. UNCHANGED <<lengths, offset, full>> /\ rowsAt' = rowsAt /\ AlignTypes
    BY <1>1, <1>3 DEF alignVars, AlignInv
  <2>2. rowScores' = rowScores /\ rowLabels' = rowLabels
    BY <1>3 DEF alignVars
  <2>3. AlignTypes'
    BY <2>1 DEF AlignTypes, Count, ScoredLength
  <2>4. rowsAt \in {"padded", "separated"} => Matched(rowScores, rowLabels)'
    BY <1>1, <2>1, <2>2, AlignedNext DEF AlignInv
  <2>5. Segments' = Segments /\ Count' = Count /\ RowsWithScore' = RowsWithScore /\ AllRows' = AllRows
    BY <2>1 DEF Segments, Count, ScoredLength, RowsWithScore, AllRows
  <2>. QED
    BY <1>1, <2>1, <2>2, <2>3, <2>4, <2>5 DEF AlignInv
<1>. QED
  BY <1>1, <1>2, <1>3

\* Matched lists are what the property says.
LEMMA AlignIsRight == AlignInv => OnlyFirstScoresStray
<1>1. SUFFICES ASSUME AlignInv, rowsAt = "separated" PROVE OnlyFirstScoresStray
  BY DEF OnlyFirstScoresStray
<1>2. AlignTypes /\ Matched(rowScores, rowLabels) /\ DOMAIN lengths = 1 .. Count
  BY <1>1 DEF AlignInv, AlignTypes
<1>3. Len(rowScores) = Len(rowLabels) /\ DOMAIN rowScores = 1 .. Len(rowScores) /\ DOMAIN rowLabels = 1 .. Len(rowLabels)
  BY <1>2, LenProperties DEF Matched
<1>4. ASSUME NEW row
      PROVE  row \in Scored <=> row # NoScore /\ \E j \in 1 .. Len(rowScores) : rowScores[j] = row
  BY <1>3 DEF Scored, ToSet
<1>5. ASSUME NEW s \in 1 .. Count, NEW row
      PROVE  row \in ToSet(Rows(s, offset.start + 1, lengths[s] - offset.end)) <=> \E r \in ScoreRows(s) : row = <<s, r>>
  <2>1. PICK o \in Nat, e \in Int, n \in Nat : o = offset.start /\ e = lengths[s] - offset.end /\ n = e - o
    BY <1>2 DEF AlignTypes, ScoredLength
  <2>2. Rows(s, o + 1, e) = [k \in 1 .. n |-> <<s, o + 1 + k - 1>>]
    <3>1. e - (o + 1) + 1 = n
      BY <2>1
    <3>. QED
      BY <3>1 DEF Rows
  <2>3. ToSet(Rows(s, o + 1, e)) = {<<s, o + 1 + k - 1>> : k \in 1 .. n}
    BY <2>2 DEF ToSet
  <2>4. ASSUME NEW r \in o + 1 .. e PROVE \E k \in 1 .. n : <<s, r>> = <<s, o + 1 + k - 1>>
    <3>1. r - o \in 1 .. n /\ o + 1 + (r - o) - 1 = r
      BY <2>1
    <3>. QED
      BY <3>1
  <2>5. ASSUME NEW k \in 1 .. n PROVE o + 1 + k - 1 \in o + 1 .. e
    BY <2>1
  <2>6. ScoreRows(s) = o + 1 .. e /\ Rows(s, offset.start + 1, lengths[s] - offset.end) = Rows(s, o + 1, e)
    BY <2>1 DEF ScoreRows
  <2>7. ASSUME row \in ToSet(Rows(s, o + 1, e)) PROVE \E r \in o + 1 .. e : row = <<s, r>>
    <3>1. PICK k \in 1 .. n : row = <<s, o + 1 + k - 1>>
      BY <2>3, <2>7
    <3>. QED
      BY <2>5, <3>1
  <2>8. ASSUME NEW r \in o + 1 .. e, row = <<s, r>> PROVE row \in ToSet(Rows(s, o + 1, e))
    <3>1. PICK k \in 1 .. n : <<s, r>> = <<s, o + 1 + k - 1>>
      BY <2>4
    <3>. QED
      BY <2>3, <2>8, <3>1
  <2>. QED
    BY <2>6, <2>7, <2>8
<1>6. ASSUME NEW s \in 1 .. Count, NEW r PROVE <<s, r>> # NoScore
  <2>1. s # 0
    BY <1>2 DEF AlignTypes
  <2>. QED
    BY <2>1 DEF NoScore
<1>7. Scored = UNION {ToSet(Rows(s, offset.start + 1, lengths[s] - offset.end)) : s \in DOMAIN lengths}
  <2>1. ASSUME NEW row \in Scored
        PROVE  \E s \in 1 .. Count : row \in ToSet(Rows(s, offset.start + 1, lengths[s] - offset.end))
    <3>1. PICK j \in 1 .. Len(rowScores) : rowScores[j] = row /\ row # NoScore
      BY <1>4, <2>1
    <3>2. HoldsScore(j, rowScores, rowLabels)
      BY <1>2 DEF Matched
    <3>3. PICK s \in 1 .. Count : \E r \in ScoreRows(s) : rowScores[j] = <<s, r>>
      BY <3>1, <3>2 DEF HoldsScore
    <3>. QED
      BY <1>5, <3>1, <3>3
  <2>2. ASSUME NEW s \in 1 .. Count, NEW row \in ToSet(Rows(s, offset.start + 1, lengths[s] - offset.end))
        PROVE  row \in Scored
    <3>1. PICK r \in ScoreRows(s) : row = <<s, r>>
      BY <1>5
    <3>2. \E j \in 1 .. Len(rowScores) : rowScores[j] = row
      BY <1>2, <3>1 DEF Matched
    <3>. QED
      BY <1>4, <1>6, <3>1, <3>2
  <2>. QED
    BY <1>2, <2>1, <2>2
<1>8. ASSUME NEW row \in Scored
      PROVE  \/ rowLabels[PlaceOf(row)] = row
             \/ /\ full
                /\ Follows(row)
                /\ \E k \in DOMAIN rowLabels : rowLabels[k] = row /\ PlaceOf(row) < k
  <2>1. row # NoScore /\ \E j \in DOMAIN rowScores : rowScores[j] = row
    BY <1>3, <1>4
  <2>2. PICK j : j = PlaceOf(row)
    OBVIOUS
  <2>3. j \in 1 .. Len(rowScores) /\ rowScores[j] = row
    BY <1>3, <2>1, <2>2 DEF PlaceOf
  <2>4. HoldsScore(j, rowScores, rowLabels)
    BY <1>2, <2>3 DEF Matched
  <2>5. PICK s \in 1 .. Count : \E r \in ScoreRows(s) : rowScores[j] = <<s, r>> /\ IsBeside(s, r, j, rowLabels)
    BY <2>1, <2>3, <2>4 DEF HoldsScore
  <2>6. PICK r \in ScoreRows(s) : rowScores[j] = <<s, r>> /\ IsBeside(s, r, j, rowLabels)
    BY <2>5
  <2>7. row = <<s, r>> /\ row[1] = s /\ row[2] = r
    BY <2>3, <2>6
  <2>. QED
    BY <1>3, <2>2, <2>6, <2>7 DEF IsBeside, Follows
<1>. QED
  BY <1>3, <1>7, <1>8 DEF OnlyFirstScoresStray

\* For any sequences, window, horizon and label offset, with full predictions or
\* without, no score is lost on the way to the labels, all stand beside the label of
\* their row, and only the first one of a later sequence lands before it
\* (on_predict_epoch_end with pad_each_subsequence and insert_before_subsequences).
THEOREM ScoresKeepTheirRows == AlignSpec => []OnlyFirstScoresStray
<1>1. AlignInit => AlignInv
  BY AlignInitial
<1>2. AlignInv /\ [AlignNext]_alignVars => AlignInv'
  BY AlignStepInv
<1>3. AlignInv => OnlyFirstScoresStray
  BY AlignIsRight
<1>. QED
  BY <1>1, <1>2, <1>3, PTL DEF AlignSpec

==============================================================================
