------------------------- MODULE Concatenation_proof -------------------------
(***************************************************************************)
(* Facts about numbers, lists, sums and concatenations.  They take the     *)
(* least place that breaks a law where a proof by induction would go on    *)
(* from place to place.                                                    *)
(***************************************************************************)
EXTENDS Concatenation, SequencesExt, FiniteSetsExt, FiniteSetTheorems, SequenceTheorems,
        WellFoundedInduction, TLAPS

----------------------------------------------------------------------------
(* Numbers                                                                 *)

\* Quotient and remainder, for a divisor that is not a number
LEMMA DivMod ==
  ASSUME NEW a \in Int, NEW d \in Nat \ {0}
  PROVE  /\ a \div d \in Int /\ a % d \in 0 .. d - 1
         /\ a = d * (a \div d) + (a % d)
         /\ d * (a \div d) \in Int
  OBVIOUS

\* ... and they are the only ones
LEMMA DivUnique ==
  ASSUME NEW a \in Int, NEW d \in Nat \ {0}, NEW q \in Int, NEW r \in 0 .. d - 1, a = d * q + r
  PROVE  a \div d = q /\ a % d = r
  OBVIOUS

\* The greater of two numbers
LEMMA MaxOfTwo ==
  ASSUME NEW a \in Int, NEW b \in Int
  PROVE  Max({a, b}) = IF a >= b THEN a ELSE b
  BY DEF Max

\* The lesser of two numbers
LEMMA MinOfTwo ==
  ASSUME NEW a \in Int, NEW b \in Int
  PROVE  Min({a, b}) = IF a <= b THEN a ELSE b
  BY DEF Min

\* A set of natural numbers has a least one.
LEMMA LeastNatural ==
  ASSUME NEW S \in SUBSET Nat, S # {}
  PROVE  \E m \in S : \A k \in S : m <= k
<1>1. \E x \in S : \A y \in S : ~ (<<y, x>> \in OpToRel(<, Nat))
  BY NatLessThanWellFounded, WFMin
<1>2. PICK x \in S : \A y \in S : ~ (<<y, x>> \in OpToRel(<, Nat))
  BY <1>1
<1>3. \A y \in S : ~ (y < x)
  BY <1>2 DEF OpToRel
<1>. QED
  BY <1>3

\* A set of natural numbers below a bound has a greatest one.
LEMMA GreatestNatural ==
  ASSUME NEW n \in Nat, NEW S \in SUBSET (0 .. n), S # {}
  PROVE  \E m \in S : \A k \in S : m >= k
<1> DEFINE T == {k \in 0 .. n : n - k \in S}
<1>1. T \in SUBSET Nat
  OBVIOUS
<1>2. PICK s \in S : TRUE
  OBVIOUS
<1>3. n - s \in 0 .. n /\ n - (n - s) = s
  OBVIOUS
<1>4. n - s \in T
  BY <1>2, <1>3
<1>5. PICK t \in T : \A k \in T : t <= k
  BY <1>1, <1>4, LeastNatural
<1>6. n - t \in S /\ t \in 0 .. n
  BY <1>5
<1>7. ASSUME NEW k \in S PROVE n - t >= k
  <2>1. k \in 0 .. n /\ n - k \in 0 .. n /\ n - (n - k) = k
    OBVIOUS
  <2>2. n - k \in T
    BY <2>1
  <2>3. t <= n - k
    BY <1>5, <2>2
  <2>. QED
    BY <1>6, <2>1, <2>3
<1>. QED
  BY <1>6, <1>7

\* The greatest of a set of numbers
LEMMA MaxIs ==
  ASSUME NEW V \in SUBSET Int, NEW v \in V, \A y \in V : v >= y
  PROVE  Max(V) = v
<1>1. \A x \in V : (\A y \in V : x >= y) => x = v
  <2>1. ASSUME NEW x \in V, \A y \in V : x >= y PROVE x = v
    <3>1. x >= v /\ v >= x /\ x \in Int /\ v \in Int
      BY <2>1
    <3>. QED
      BY <3>1
  <2>. QED
    BY <2>1
<1>. QED
  BY <1>1 DEF Max

\* Products grow with their factors.
LEMMA ProductGrows ==
  ASSUME NEW o \in Nat, NEW a \in Int, NEW b \in Int, a <= b
  PROVE  o * a <= o * b /\ o * a \in Int /\ o * b \in Int
<1>1. PICK m \in Nat : b = a + m
  <2>1. b - a \in Nat /\ b = a + (b - a)
    OBVIOUS
  <2>. QED
    BY <2>1
<1>2. o * b = o * a + o * m /\ o * m >= 0
  BY <1>1
<1>. QED
  BY <1>2

----------------------------------------------------------------------------
(* Lists                                                                   *)

\* A sequence of something
Listed(s) == s \in Seq({s[i] : i \in 1 .. Len(s)})

\* A function over 1 .. n is a sequence.
LEMMA ListedFunction ==
  ASSUME NEW n \in Nat, NEW f, f = [i \in 1 .. n |-> f[i]]
  PROVE  Listed(f) /\ Len(f) = n
<1>1. f \in [1 .. n -> {f[i] : i \in 1 .. n}]
  OBVIOUS
<1>2. f \in Seq({f[i] : i \in 1 .. n})
  BY <1>1
<1>3. Len(f) = n
  BY <1>1
<1> QED
  BY <1>2, <1>3 DEF Listed

\* A sequence is a function.
LEMMA SequenceIsFunction ==
  ASSUME NEW S, NEW s \in Seq(S)
  PROVE  s = [i \in 1 .. Len(s) |-> s[i]] /\ Len(s) \in Nat
  OBVIOUS

\* The elements of two sequences one behind the other
LEMMA JoinedLists ==
  ASSUME NEW s, NEW t, Listed(s), Listed(t)
  PROVE  /\ Listed(s \o t) /\ Len(s) \in Nat /\ Len(t) \in Nat
         /\ Len(s \o t) = Len(s) + Len(t)
         /\ \A i \in 1 .. Len(s) : (s \o t)[i] = s[i]
         /\ \A i \in 1 .. Len(t) : (s \o t)[Len(s) + i] = t[i]
         /\ \A i \in Int : Len(s) < i /\ i <= Len(s) + Len(t) => (s \o t)[i] = t[i - Len(s)]
<1> DEFINE U == {s[i] : i \in 1 .. Len(s)} \cup {t[i] : i \in 1 .. Len(t)}
<1>1. s \in Seq(U) /\ t \in Seq(U)
  BY DEF Listed
<1> HIDE DEF U
<1>2. s \o t \in Seq(U) /\ Len(s) \in Nat /\ Len(t) \in Nat /\ Len(s \o t) = Len(s) + Len(t)
  BY <1>1
<1>3. s \o t = [i \in 1 .. Len(s \o t) |-> (s \o t)[i]]
  BY <1>2, SequenceIsFunction
<1>4. Listed(s \o t)
  <2>1. Len(s \o t) \in Nat
    BY <1>2
  <2> QED
    BY <1>3, <2>1, ListedFunction
<1> QED
  BY <1>1, <1>2, <1>4

\* The elements of a part of a sequence
LEMMA CutList ==
  ASSUME NEW s, Listed(s), NEW i \in Int, NEW j \in Int, 1 <= i, i <= j + 1, j <= Len(s)
  PROVE  /\ Listed(SubSeq(s, i, j)) /\ Len(SubSeq(s, i, j)) = j - i + 1
         /\ \A k \in 1 .. j - i + 1 : SubSeq(s, i, j)[k] = s[i + k - 1]
<1> DEFINE U == {s[k] : k \in 1 .. Len(s)}
<1>1. s \in Seq(U)
  BY DEF Listed
<1> HIDE DEF U
<1>2. SubSeq(s, i, j) = [k \in 1 .. j - i + 1 |-> s[i + k - 1]]
  BY <1>1
<1>3. SubSeq(s, i, j) = [k \in 1 .. j - i + 1 |-> SubSeq(s, i, j)[k]]
  BY <1>2
<1>4. Listed(SubSeq(s, i, j)) /\ Len(SubSeq(s, i, j)) = j - i + 1
  BY <1>3, ListedFunction
<1> QED
  BY <1>2, <1>4

\* Sequences with the same elements are the same.
LEMMA SameList ==
  ASSUME NEW s, NEW t, Listed(s), Listed(t), Len(s) = Len(t),
         \A i \in 1 .. Len(s) : s[i] = t[i]
  PROVE  s = t
<1>1. s = [i \in 1 .. Len(s) |-> s[i]] /\ t = [i \in 1 .. Len(s) |-> t[i]]
  BY SequenceIsFunction DEF Listed
<1> QED
  BY <1>1

----------------------------------------------------------------------------
(* Sums                                                                    *)

\* The sums of d from place to place
Sums(s, d, from, to) == s = [k \in from - 1 .. to |-> IF k < from THEN 0 ELSE s[k - 1] + d[k]]

\* What such a function is at a place
LEMMA SumsAt ==
  ASSUME NEW s, NEW d, NEW from \in Int, NEW to \in Int, Sums(s, d, from, to)
  PROVE  /\ from - 1 <= to => s[from - 1] = 0
         /\ \A k \in from .. to : s[k] = s[k - 1] + d[k]
<1>1. ASSUME NEW k \in from - 1 .. to PROVE s[k] = IF k < from THEN 0 ELSE s[k - 1] + d[k]
  BY DEF Sums
<1>2. from - 1 <= to => s[from - 1] = 0
  BY <1>1
<1>3. ASSUME NEW k \in from .. to PROVE s[k] = s[k - 1] + d[k]
  <2>1. k \in from - 1 .. to /\ ~ (k < from)
    OBVIOUS
  <2>. QED
    BY <1>1, <2>1
<1>. QED
  BY <1>2, <1>3

\* There are such sums over every interval.
LEMMA SumsExist ==
  ASSUME NEW d, NEW from \in Int, NEW n \in Nat
  PROVE  \E s : Sums(s, d, from, from - 1 + n)
<1> DEFINE S == {k \in Nat : ~ \E s : Sums(s, d, from, from - 1 + k)}
<1>1. SUFFICES ASSUME n \in S PROVE FALSE
  OBVIOUS
<1>2. S \in SUBSET Nat
  OBVIOUS
<1>3. PICK m \in S : \A k \in S : m <= k
  BY <1>1, <1>2, LeastNatural
<1>4. CASE m = 0
  <2>1. PICK s : s = [k \in from - 1 .. from - 1 + m |-> 0]
    OBVIOUS
  <2>2. [k \in from - 1 .. from - 1 + m |-> IF k < from THEN 0 ELSE s[k - 1] + d[k]] = s
    BY <1>4, <2>1
  <2>3. Sums(s, d, from, from - 1 + m)
    BY <2>2 DEF Sums
  <2>. QED
    BY <2>3
<1>5. CASE m # 0
  <2>1. m - 1 \in Nat /\ ~ (m <= m - 1)
    BY <1>5
  <2>2. m - 1 \notin S
    BY <1>3, <2>1
  <2>3. PICK s : Sums(s, d, from, from - 1 + (m - 1))
    BY <2>1, <2>2
  <2>4. PICK t : t = [k \in from - 1 .. from - 1 + m |-> IF k < from THEN 0 ELSE s[k - 1] + d[k]]
    OBVIOUS
  <2>5. ASSUME NEW k \in from - 1 .. from - 1 + (m - 1) PROVE s[k] = IF k < from THEN 0 ELSE s[k - 1] + d[k]
    BY <2>3 DEF Sums
  <2>6. ASSUME NEW k \in from - 1 .. from - 1 + (m - 1) PROVE t[k] = s[k]
    <3>1. k \in from - 1 .. from - 1 + m
      OBVIOUS
    <3>. QED
      BY <2>4, <2>5, <3>1
  <2>7. ASSUME NEW k \in from - 1 .. from - 1 + m PROVE t[k] = IF k < from THEN 0 ELSE t[k - 1] + d[k]
    <3>1. CASE k < from
      BY <2>4, <3>1
    <3>2. CASE ~ (k < from)
      <4>1. k - 1 \in from - 1 .. from - 1 + (m - 1)
        BY <3>2
      <4>. QED
        BY <2>4, <2>6, <3>2, <4>1
    <3>. QED
      BY <3>1, <3>2
  <2>8. t = [k \in from - 1 .. from - 1 + m |-> t[k]]
    BY <2>4
  <2>9. Sums(t, d, from, from - 1 + m)
    BY <2>7, <2>8 DEF Sums
  <2>. QED
    BY <2>9
<1>. QED
  BY <1>4, <1>5

\* The terms of the one are c times those of the other.
Scaled(c, d, e, from, to) == \A k \in from .. to : d[k] \in Int /\ e[k] = c * d[k]

\* Sums of terms that are c times the others are c times the other sums.
LEMMA SumsScale ==
  ASSUME NEW c \in Int, NEW d, NEW e, NEW from \in Int, NEW s, NEW t, NEW x \in Int, NEW y \in Int,
         Sums(s, d, from, x), Sums(t, e, from, y),
         NEW to \in Int, to <= x, to <= y,
         Scaled(c, d, e, from, to),
         NEW i \in from - 1 .. to
  PROVE  s[i] \in Int /\ t[i] = c * s[i]
<1> DEFINE S == {k \in Nat : from - 1 + k <= to /\ ~ (s[from - 1 + k] \in Int /\ t[from - 1 + k] = c * s[from - 1 + k])}
<1>1. PICK n \in Nat : i = from - 1 + n
  <2>1. i - (from - 1) \in Nat /\ i = from - 1 + (i - (from - 1))
    OBVIOUS
  <2>. QED
    BY <2>1
<1>2. SUFFICES ASSUME n \in S PROVE FALSE
  BY <1>1
<1>3. S \in SUBSET Nat
  OBVIOUS
<1>4. PICK m \in S : \A k \in S : m <= k
  BY <1>2, <1>3, LeastNatural
<1>5. m \in Nat /\ from - 1 + m <= to /\ ~ (s[from - 1 + m] \in Int /\ t[from - 1 + m] = c * s[from - 1 + m])
  BY <1>4
<1>6. m # 0
  <2>1. SUFFICES ASSUME m = 0 PROVE FALSE
    OBVIOUS
  <2>2. s[from - 1] = 0 /\ t[from - 1] = 0 /\ c * 0 = 0
    BY <1>5, <2>1, SumsAt
  <2>. QED
    BY <1>5, <2>1, <2>2
<1>7. PICK j \in Int : j = from - 1 + m
  BY <1>5
<1>8. /\ m - 1 \in Nat /\ ~ (m <= m - 1) /\ from - 1 + (m - 1) = j - 1
      /\ j - 1 <= to /\ j \in from .. to /\ j \in from .. x /\ j \in from .. y
  BY <1>5, <1>6, <1>7
<1>9. m - 1 \notin S
  BY <1>4, <1>8
<1>10. s[j - 1] \in Int /\ t[j - 1] = c * s[j - 1]
  BY <1>8, <1>9
<1>11. s[j] = s[j - 1] + d[j] /\ t[j] = t[j - 1] + e[j]
  BY <1>8, SumsAt
<1>12. d[j] \in Int /\ e[j] = c * d[j]
  BY <1>8 DEF Scaled
<1>13. s[j] \in Int /\ t[j] = c * s[j]
  <2>1. PICK u \in Int, v \in Int : u = s[j - 1] /\ v = d[j]
    BY <1>10, <1>12
  <2>2. c * u + c * v = c * (u + v)
    OBVIOUS
  <2>. QED
    BY <1>10, <1>11, <1>12, <2>1, <2>2
<1>. QED
  BY <1>5, <1>7, <1>13

\* SumOver is such a sum.
LEMMA SumOverIs ==
  ASSUME NEW d, NEW from \in Int, NEW to \in Int, from - 1 <= to
  PROVE  \E s : Sums(s, d, from, to) /\ SumOver(d, from, to) = s[to]
<1>1. PICK n \in Nat : to = from - 1 + n
  <2>1. to - (from - 1) \in Nat /\ to = from - 1 + (to - (from - 1))
    OBVIOUS
  <2>. QED
    BY <2>1
<1>2. \E s : Sums(s, d, from, to)
  BY <1>1, SumsExist
<1>3. PICK s : s = CHOOSE sum : Sums(sum, d, from, to)
  OBVIOUS
<1>4. Sums(s, d, from, to)
  BY <1>2, <1>3
<1>5. SumOver(d, from, to) = s[to]
  BY <1>3 DEF SumOver, Sums
<1>. QED
  BY <1>4, <1>5

\* The sum of one place more
LEMMA SumNext ==
  ASSUME NEW c \in Int, NEW d, NEW e, NEW from \in Int, NEW to \in Int, from <= to,
         NEW before \in Int, before < to, to <= before + 1,
         Scaled(c, d, e, from, before), d[to] \in Int
  PROVE  /\ SumOver(d, from, to) \in Int /\ SumOver(e, from, before) \in Int
         /\ c * (SumOver(d, from, to) - d[to]) = SumOver(e, from, before)
<1>1. PICK s : Sums(s, d, from, to) /\ SumOver(d, from, to) = s[to]
  BY SumOverIs
<1>2. PICK t : Sums(t, e, from, before) /\ SumOver(e, from, before) = t[before]
  BY SumOverIs
<1>3. before = to - 1
  OBVIOUS
<1>4. before \in from - 1 .. before /\ before <= to /\ before <= before /\ to \in from .. to
  OBVIOUS
<1>5. s[before] \in Int /\ t[before] = c * s[before]
  BY <1>1, <1>2, <1>4, SumsScale
<1>6. s[to] = s[before] + d[to] /\ d[to] \in Int
  BY <1>1, <1>3, <1>4, SumsAt
<1>7. s[to] \in Int /\ s[to] - d[to] = s[before]
  BY <1>5, <1>6
<1>. QED
  BY <1>1, <1>2, <1>5, <1>7

\* d holds numbers at the places 1 to n.
Counts(d, n) == \A k \in 1 .. n : d[k] \in Nat

\* A sum over no place is 0.
LEMMA SumOfNone ==
  ASSUME NEW d, NEW from \in Int
  PROVE  SumOver(d, from, from - 1) = 0
<1>1. PICK s : Sums(s, d, from, from - 1) /\ SumOver(d, from, from - 1) = s[from - 1]
  BY SumOverIs
<1>. QED
  BY <1>1, SumsAt

\* A sum over one place more
LEMMA SumOfMore ==
  ASSUME NEW d, NEW n \in Int, Counts(d, n), NEW from \in 1 .. n, NEW to \in from .. n
  PROVE  SumOver(d, from, to) = SumOver(d, from, to - 1) + d[to] /\ SumOver(d, from, to - 1) \in Int
<1>1. PICK before \in Int : before = to - 1
  OBVIOUS
<1>2. from <= to /\ before < to /\ to <= before + 1 /\ d[to] \in Int
  BY <1>1 DEF Counts
<1>3. PICK one \in Int : one = 1
  OBVIOUS
<1>4. Scaled(one, d, d, from, before)
  <2>1. ASSUME NEW k \in from .. before PROVE d[k] \in Int /\ d[k] = one * d[k]
    <3>1. k \in 1 .. n
      BY <1>1
    <3>2. d[k] \in Int
      BY <3>1 DEF Counts
    <3>. QED
      BY <1>3, <3>2
  <2>. QED
    BY <2>1 DEF Scaled
<1>5. /\ SumOver(d, from, to) \in Int /\ SumOver(d, from, before) \in Int
      /\ one * (SumOver(d, from, to) - d[to]) = SumOver(d, from, before)
  <2>1. PICK f \in Int, t \in Int : f = from /\ t = to
    OBVIOUS
  <2>2. f <= t /\ before < t /\ t <= before + 1 /\ Scaled(one, d, d, f, before) /\ d[t] \in Int
    BY <1>2, <1>4, <2>1
  <2>3. SumOver(d, f, t) \in Int
    BY <2>2, SumNext
  <2>4. SumOver(d, f, before) \in Int
    BY <2>2, SumNext
  <2>5. one * (SumOver(d, f, t) - d[t]) = SumOver(d, f, before)
    BY <2>2, SumNext
  <2>. QED
    BY <2>1, <2>3, <2>4, <2>5
<1>6. ASSUME NEW x \in Int, NEW y \in Int, NEW z \in Int, one * (x - y) = z PROVE x = z + y
  BY <1>3, <1>6
<1>. QED
  BY <1>1, <1>2, <1>5, <1>6

\* The sums up to a place are numbers that grow from place to place.
LEMMA SumUpTo ==
  ASSUME NEW d, NEW n \in Nat, Counts(d, n)
  PROVE  /\ SumOver(d, 1, 0) = 0
         /\ \A k \in 0 .. n : SumOver(d, 1, k) \in Nat
         /\ \A k \in 1 .. n : SumOver(d, 1, k) = SumOver(d, 1, k - 1) + d[k]
<1>1. SumOver(d, 1, 0) = 0
  <2>1. SumOver(d, 1, 1 - 1) = 0
    BY SumOfNone
  <2>. QED
    BY <2>1
<1>2. ASSUME NEW k \in 1 .. n PROVE SumOver(d, 1, k) = SumOver(d, 1, k - 1) + d[k]
  BY SumOfMore
<1>3. ASSUME NEW a \in 0 .. n PROVE SumOver(d, 1, a) \in Nat
  <2> DEFINE S == {k \in 0 .. n : SumOver(d, 1, k) \notin Nat}
  <2>1. SUFFICES ASSUME a \in S PROVE FALSE
    OBVIOUS
  <2>2. S \in SUBSET Nat
    OBVIOUS
  <2>3. PICK m \in S : \A k \in S : m <= k
    BY <2>1, <2>2, LeastNatural
  <2>4. m \in 1 .. n
    BY <1>1, <2>3
  <2>5. m - 1 \in 0 .. n /\ ~ (m <= m - 1)
    BY <2>4
  <2>6. SumOver(d, 1, m - 1) \in Nat
    BY <2>3, <2>5
  <2>7. d[m] \in Nat
    BY <2>4 DEF Counts
  <2>8. SumOver(d, 1, m) = SumOver(d, 1, m - 1) + d[m]
    BY <1>2, <2>4
  <2>. QED
    BY <2>3, <2>6, <2>7, <2>8
<1>. QED
  BY <1>1, <1>2, <1>3

\* They never fall.
LEMMA SumsGrow ==
  ASSUME NEW d, NEW n \in Nat, Counts(d, n), NEW a \in 0 .. n, NEW b \in a .. n
  PROVE  SumOver(d, 1, a) <= SumOver(d, 1, b)
<1> DEFINE S == {k \in a .. n : ~ (SumOver(d, 1, a) <= SumOver(d, 1, k))}
<1>1. SUFFICES ASSUME b \in S PROVE FALSE
  OBVIOUS
<1>2. S \in SUBSET Nat
  OBVIOUS
<1>3. PICK m \in S : \A k \in S : m <= k
  BY <1>1, <1>2, LeastNatural
<1>4. SumOver(d, 1, a) \in Nat
  BY SumUpTo
<1>5. m # a
  BY <1>3, <1>4
<1>6. m \in 1 .. n /\ m - 1 \in a .. n /\ m - 1 \in 0 .. n /\ m \in 0 .. n /\ ~ (m <= m - 1)
  BY <1>3, <1>5
<1>7. SumOver(d, 1, a) <= SumOver(d, 1, m - 1)
  BY <1>3, <1>6
<1>8. SumOver(d, 1, m) = SumOver(d, 1, m - 1) + d[m] /\ SumOver(d, 1, m - 1) \in Nat
  BY <1>6, SumUpTo
<1>9. d[m] \in Nat
  BY <1>6 DEF Counts
<1>10. ASSUME NEW x \in Nat, NEW y \in Nat, NEW z \in Nat, x <= y PROVE x <= y + z
  BY <1>10
<1>11. SumOver(d, 1, a) <= SumOver(d, 1, m)
  BY <1>4, <1>7, <1>8, <1>9, <1>10
<1>. QED
  BY <1>3, <1>11

\* A sum between two places
LEMMA SumBetween ==
  ASSUME NEW d, NEW n \in Nat, Counts(d, n), NEW a \in 0 .. n, NEW b \in a .. n
  PROVE  SumOver(d, a + 1, b) = SumOver(d, 1, b) - SumOver(d, 1, a)
<1> DEFINE S == {k \in a .. n : SumOver(d, a + 1, k) # SumOver(d, 1, k) - SumOver(d, 1, a)}
<1>1. SUFFICES ASSUME b \in S PROVE FALSE
  OBVIOUS
<1>2. S \in SUBSET Nat
  OBVIOUS
<1>3. PICK m \in S : \A k \in S : m <= k
  BY <1>1, <1>2, LeastNatural
<1>4. SumOver(d, 1, a) \in Nat
  BY SumUpTo
<1>5. SumOver(d, a + 1, a) = 0
  <2>1. SumOver(d, a + 1, (a + 1) - 1) = 0
    BY SumOfNone
  <2>. QED
    BY <2>1
<1>6. m # a
  BY <1>3, <1>4, <1>5
<1>7. /\ m \in 1 .. n /\ m - 1 \in a .. n /\ m - 1 \in 0 .. n /\ ~ (m <= m - 1)
      /\ a + 1 \in 1 .. n /\ m \in a + 1 .. n
  BY <1>3, <1>6
<1>8. SumOver(d, a + 1, m - 1) = SumOver(d, 1, m - 1) - SumOver(d, 1, a)
  BY <1>3, <1>7
<1>9. SumOver(d, 1, m) = SumOver(d, 1, m - 1) + d[m] /\ SumOver(d, 1, m - 1) \in Nat
  BY <1>7, SumUpTo
<1>10. SumOver(d, a + 1, m) = SumOver(d, a + 1, m - 1) + d[m]
  BY <1>7, SumOfMore
<1>11. d[m] \in Nat
  BY <1>7 DEF Counts
<1>12. ASSUME NEW x \in Nat, NEW y \in Nat, NEW z \in Nat PROVE (y - x) + z = (y + z) - x
  OBVIOUS
<1>13. SumOver(d, a + 1, m) = SumOver(d, 1, m) - SumOver(d, 1, a)
  BY <1>4, <1>8, <1>9, <1>10, <1>11, <1>12
<1>. QED
  BY <1>3, <1>13

\* Every place below the whole sum is in one of the parts.
LEMMA PartOf ==
  ASSUME NEW d, NEW n \in Nat, Counts(d, n), NEW j \in Nat, 1 <= j, j <= SumOver(d, 1, n)
  PROVE  \E k \in 1 .. n : \E i \in 1 .. d[k] : j = SumOver(d, 1, k - 1) + i
<1> DEFINE S == {k \in 0 .. n : j <= SumOver(d, 1, k)}
<1>1. S \in SUBSET Nat /\ n \in S
  OBVIOUS
<1>2. PICK k \in S : \A m \in S : k <= m
  BY <1>1, LeastNatural
<1>3. k \in 1 .. n
  BY <1>2, SumUpTo
<1>4. k - 1 \in 0 .. n /\ ~ (k <= k - 1) /\ k \in 0 .. n
  BY <1>3
<1>5. /\ SumOver(d, 1, k - 1) \in Nat /\ SumOver(d, 1, k) = SumOver(d, 1, k - 1) + d[k]
      /\ SumOver(d, 1, k) \in Nat /\ d[k] \in Nat
  BY <1>3, <1>4, SumUpTo DEF Counts
<1>6. ~ (j <= SumOver(d, 1, k - 1)) /\ j <= SumOver(d, 1, k)
  BY <1>2, <1>4
<1>7. PICK x \in Nat, y \in Nat : x = SumOver(d, 1, k - 1) /\ y = d[k]
  BY <1>5
<1>8. j - x \in 1 .. y /\ j = x + (j - x)
  BY <1>5, <1>6, <1>7
<1>. QED
  BY <1>3, <1>7, <1>8

----------------------------------------------------------------------------
\* A function on the places 1 to n is a sequence.
LEMMA FunctionIsList ==
  ASSUME NEW S, NEW n \in Nat, NEW f \in [1 .. n -> S]
  PROVE  f \in Seq(S) /\ Len(f) = n
  OBVIOUS

\* What the first k of n pieces come to
Chained(c, p, n) == c = [k \in 0 .. n |-> IF k = 0 THEN <<>> ELSE c[k - 1] \o p[k]]

\* There is such a function for every number of pieces.
LEMMA ChainExists ==
  ASSUME NEW p, NEW n \in Nat
  PROVE  \E c : Chained(c, p, n)
<1> DEFINE S == {k \in Nat : ~ \E c : Chained(c, p, k)}
<1>1. SUFFICES ASSUME n \in S PROVE FALSE
  OBVIOUS
<1>2. S \in SUBSET Nat
  OBVIOUS
<1>3. PICK m \in S : \A k \in S : m <= k
  BY <1>1, <1>2, LeastNatural
<1>4. CASE m = 0
  <2>1. PICK c : c = [k \in 0 .. m |-> <<>>]
    OBVIOUS
  <2>2. [k \in 0 .. m |-> IF k = 0 THEN <<>> ELSE c[k - 1] \o p[k]] = c
    BY <1>4, <2>1
  <2>3. Chained(c, p, m)
    BY <2>2 DEF Chained
  <2>. QED
    BY <2>3
<1>5. CASE m # 0
  <2>1. m - 1 \in Nat /\ ~ (m <= m - 1)
    BY <1>5
  <2>2. m - 1 \notin S
    BY <1>3, <2>1
  <2>3. PICK c : Chained(c, p, m - 1)
    BY <2>1, <2>2
  <2>4. PICK e : e = [k \in 0 .. m |-> IF k = 0 THEN <<>> ELSE c[k - 1] \o p[k]]
    OBVIOUS
  <2>5. ASSUME NEW k \in 0 .. m - 1 PROVE c[k] = IF k = 0 THEN <<>> ELSE c[k - 1] \o p[k]
    BY <2>3 DEF Chained
  <2>6. ASSUME NEW k \in 0 .. m - 1 PROVE e[k] = c[k]
    <3>1. k \in 0 .. m
      OBVIOUS
    <3>. QED
      BY <2>4, <2>5, <3>1
  <2>7. ASSUME NEW k \in 0 .. m PROVE e[k] = IF k = 0 THEN <<>> ELSE e[k - 1] \o p[k]
    <3>1. CASE k = 0
      BY <2>4, <3>1
    <3>2. CASE k # 0
      <4>1. k - 1 \in 0 .. m - 1
        BY <3>2
      <4>. QED
        BY <2>4, <2>6, <3>2, <4>1
    <3>. QED
      BY <3>1, <3>2
  <2>8. e = [k \in 0 .. m |-> e[k]]
    BY <2>4
  <2>9. Chained(e, p, m)
    BY <2>7, <2>8 DEF Chained
  <2>. QED
    BY <2>9
<1>. QED
  BY <1>4, <1>5

\* The lengths of the pieces
Lengths(p) == [k \in 1 .. Len(p) |-> Len(p[k])]

\* Where the first k pieces are found in c
HoldsPieces(c, p, S, k) ==
  /\ c \in Seq(S) /\ Len(c) = SumOver(Lengths(p), 1, k)
  /\ \A a \in 1 .. k : \A i \in 1 .. Len(p[a]) :
       /\ SumOver(Lengths(p), 1, a - 1) + i \in 1 .. Len(c)
       /\ c[SumOver(Lengths(p), 1, a - 1) + i] = p[a][i]

\* The lengths of pieces are numbers.
LEMMA LengthsCount ==
  ASSUME NEW S, NEW p \in Seq(Seq(S))
  PROVE  /\ Len(p) \in Nat /\ Counts(Lengths(p), Len(p))
         /\ \A k \in 1 .. Len(p) : p[k] \in Seq(S) /\ Lengths(p)[k] = Len(p[k])
  BY DEF Counts, Lengths

\* One piece more
LEMMA PieceAppended ==
  ASSUME NEW S, NEW p \in Seq(Seq(S)), NEW k \in 1 .. Len(p), NEW c, HoldsPieces(c, p, S, k - 1)
  PROVE  HoldsPieces(c \o p[k], p, S, k)
<1>1. PICK n \in Nat : n = Len(p)
  OBVIOUS
<1>2. PICK x \in Nat : x = SumOver(Lengths(p), 1, k - 1)
  <2>1. k - 1 \in 0 .. Len(p)
    OBVIOUS
  <2>. QED
    BY <2>1, LengthsCount, SumUpTo
<1>3. p[k] \in Seq(S) /\ Len(p[k]) \in Nat
  BY LengthsCount
<1>4. SumOver(Lengths(p), 1, k) = x + Len(p[k])
  BY <1>2, LengthsCount, SumUpTo
<1>5. c \in Seq(S) /\ Len(c) = x
  BY <1>2 DEF HoldsPieces
<1>6. PICK q \in Seq(S) : q = p[k]
  BY <1>3
<1>7. /\ c \o q \in Seq(S) /\ Len(c \o q) = x + Len(q) /\ Len(q) \in Nat
      /\ \A j \in 1 .. x + Len(q) : (c \o q)[j] = IF j <= x THEN c[j] ELSE q[j - x]
  <2>1. c \o q \in Seq(S) /\ Len(c \o q) = x + Len(q) /\ Len(q) \in Nat
    <3>1. c \o q \in Seq(S) /\ Len(c \o q) = Len(c) + Len(q)
      BY <1>5, ConcatProperties
    <3>2. Len(q) \in Nat
      BY LenProperties
    <3>. QED
      BY <1>5, <3>1, <3>2
  <2>2. ASSUME NEW j \in 1 .. x + Len(q) PROVE (c \o q)[j] = IF j <= x THEN c[j] ELSE q[j - x]
    BY <1>5, <2>1, ConcatProperties
  <2>. QED
    BY <2>1, <2>2
<1>8. ASSUME NEW a \in 1 .. k, NEW i \in 1 .. Len(p[a])
      PROVE  /\ SumOver(Lengths(p), 1, a - 1) + i \in 1 .. x + Len(q)
             /\ (c \o q)[SumOver(Lengths(p), 1, a - 1) + i] = p[a][i]
  <2>1. CASE a = k
    <3>1. SumOver(Lengths(p), 1, a - 1) = x /\ p[a] = q /\ i \in 1 .. Len(q)
      BY <1>2, <1>6, <2>1
    <3>2. x + i \in 1 .. x + Len(q) /\ ~ (x + i <= x) /\ (x + i) - x = i
      BY <1>7, <3>1
    <3>. QED
      BY <1>7, <3>1, <3>2
  <2>2. CASE a # k
    <3>1. a \in 1 .. k - 1
      BY <2>2
    <3>2. /\ SumOver(Lengths(p), 1, a - 1) + i \in 1 .. x
          /\ c[SumOver(Lengths(p), 1, a - 1) + i] = p[a][i]
      BY <1>5, <3>1 DEF HoldsPieces
    <3>3. PICK j \in 1 .. x : j = SumOver(Lengths(p), 1, a - 1) + i
      BY <3>2
    <3>4. j \in 1 .. x + Len(q) /\ j <= x
      BY <1>7, <3>3
    <3>. QED
      BY <1>7, <3>2, <3>3, <3>4
  <2>. QED
    BY <2>1, <2>2
<1>9. HoldsPieces(c \o q, p, S, k)
  BY <1>4, <1>6, <1>7, <1>8 DEF HoldsPieces
<1>. QED
  BY <1>6, <1>9

\* Concat holds every piece behind those before it, and nothing else.
LEMMA ConcatIs ==
  ASSUME NEW S, NEW p \in Seq(Seq(S))
  PROVE  HoldsPieces(Concat(p), p, S, Len(p))
<1>1. PICK n \in Nat : n = Len(p)
  OBVIOUS
<1>2. \E c : Chained(c, p, n)
  BY ChainExists
<1>3. PICK c : c = CHOOSE whole : Chained(whole, p, n)
  OBVIOUS
<1>4. Chained(c, p, n)
  BY <1>2, <1>3
<1>5. Concat(p) = c[n]
  BY <1>1, <1>3 DEF Concat, Chained
<1>6. ASSUME NEW k \in 0 .. n PROVE c[k] = IF k = 0 THEN <<>> ELSE c[k - 1] \o p[k]
  BY <1>4 DEF Chained
<1>7. HoldsPieces(c[0], p, S, 0)
  <2>1. c[0] = <<>>
    BY <1>6
  <2>2. SumOver(Lengths(p), 1, 0) = 0
    BY LengthsCount, SumUpTo
  <2>. QED
    BY <2>1, <2>2 DEF HoldsPieces
<1>8. HoldsPieces(c[n], p, S, n)
  <2> DEFINE T == {k \in 0 .. n : ~ HoldsPieces(c[k], p, S, k)}
  <2>1. SUFFICES ASSUME n \in T PROVE FALSE
    OBVIOUS
  <2>2. T \in SUBSET Nat
    OBVIOUS
  <2>3. PICK m \in T : \A k \in T : m <= k
    BY <2>1, <2>2, LeastNatural
  <2>4. m \in 1 .. n /\ m # 0
    BY <1>7, <2>3
  <2>5. m - 1 \in 0 .. n /\ ~ (m <= m - 1) /\ m \in 0 .. n /\ m \in 1 .. Len(p)
    BY <1>1, <2>4
  <2>6. HoldsPieces(c[m - 1], p, S, m - 1)
    BY <2>3, <2>5
  <2>7. c[m] = c[m - 1] \o p[m]
    BY <1>6, <2>4, <2>5
  <2>8. HoldsPieces(c[m - 1] \o p[m], p, S, m)
    BY <2>5, <2>6, PieceAppended
  <2>. QED
    BY <2>3, <2>7, <2>8
<1>. QED
  BY <1>1, <1>5, <1>8

\* Pieces given by a function of their number
AreLong(p, d, S, n) == \A k \in 1 .. n : p[k] \in Seq(S) /\ Len(p[k]) = d[k]

\* A function over 1 .. n to lists of known lengths is a list of pieces of these lengths.
LEMMA PiecesAre ==
  ASSUME NEW S, NEW n \in Nat, NEW p, p = [k \in 1 .. n |-> p[k]], NEW d, d = [k \in 1 .. n |-> d[k]],
         AreLong(p, d, S, n)
  PROVE  p \in Seq(Seq(S)) /\ Len(p) = n /\ Lengths(p) = d /\ Counts(d, n)
<1>1. p \in [1 .. n -> Seq(S)]
  BY DEF AreLong
<1>2. p \in Seq(Seq(S)) /\ Len(p) = n
  BY <1>1
<1>3. ASSUME NEW k \in 1 .. n PROVE d[k] \in Nat
  BY LenProperties DEF AreLong
<1>4. Lengths(p) = [k \in 1 .. n |-> d[k]]
  BY <1>2 DEF Lengths, AreLong
<1>. QED
  BY <1>2, <1>3, <1>4 DEF Counts

----------------------------------------------------------------------------
(* Parts of sums, and concatenations piece by piece                        *)

\* The places of e are those of d behind the first a of them.
OnwardsFrom(d, e, a, m) == \A k \in 1 .. m : e[k] = d[a + k]

\* A sum over a part is the difference of two sums over the whole.
LEMMA SumOfPart ==
  ASSUME NEW d, NEW n \in Nat, Counts(d, n), NEW a \in 0 .. n, NEW m \in Nat, a + m <= n,
         NEW e, OnwardsFrom(d, e, a, m), NEW j \in 0 .. m
  PROVE  SumOver(e, 1, j) = SumOver(d, 1, a + j) - SumOver(d, 1, a)
<1> DEFINE S == {k \in 0 .. m : SumOver(e, 1, k) # SumOver(d, 1, a + k) - SumOver(d, 1, a)}
<1>1. SUFFICES ASSUME j \in S PROVE FALSE
  OBVIOUS
<1>2. S \in SUBSET Nat
  OBVIOUS
<1>3. PICK l \in S : \A k \in S : l <= k
  BY <1>1, <1>2, LeastNatural
<1>4. Counts(e, m)
  <2>1. ASSUME NEW k \in 1 .. m PROVE e[k] \in Nat
    <3>1. a + k \in 1 .. n
      OBVIOUS
    <3>. QED
      BY <3>1 DEF Counts, OnwardsFrom
  <2>. QED
    BY <2>1 DEF Counts
<1>5. SumOver(d, 1, a) \in Nat
  BY SumUpTo
<1>6. l # 0
  <2>1. SumOver(e, 1, 0) = 0
    BY <1>4, SumUpTo
  <2>2. a + 0 = a
    OBVIOUS
  <2>. QED
    BY <1>3, <1>5, <2>1, <2>2
<1>7. l \in 1 .. m /\ l - 1 \in 0 .. m /\ ~ (l <= l - 1)
  BY <1>3, <1>6
<1>8. SumOver(e, 1, l - 1) = SumOver(d, 1, a + (l - 1)) - SumOver(d, 1, a)
  BY <1>3, <1>7
<1>9. SumOver(e, 1, l) = SumOver(e, 1, l - 1) + e[l] /\ e[l] \in Nat
  BY <1>4, <1>7, SumUpTo DEF Counts
<1>10. PICK z \in 1 .. n : z = a + l /\ z - 1 = a + (l - 1)
  BY <1>7
<1>11. SumOver(d, 1, z) = SumOver(d, 1, z - 1) + d[z] /\ SumOver(d, 1, z - 1) \in Nat
  <2>1. z - 1 \in 0 .. n
    BY <1>10
  <2>. QED
    BY <1>10, <2>1, SumUpTo
<1>12. e[l] = d[z]
  BY <1>7, <1>10 DEF OnwardsFrom
<1>13. ASSUME NEW x \in Int, NEW y \in Int, NEW q \in Int PROVE (x - y) + q = (x + q) - y
  OBVIOUS
<1>14. SumOver(e, 1, l) = SumOver(d, 1, z) - SumOver(d, 1, a)
  BY <1>5, <1>8, <1>9, <1>10, <1>11, <1>12, <1>13
<1>. QED
  BY <1>3, <1>10, <1>14

\* Sums over the same numbers are the same.
LEMMA SumSame ==
  ASSUME NEW d, NEW n \in Nat, Counts(d, n), NEW m \in 0 .. n, NEW e, OnwardsFrom(d, e, 0, m),
         NEW j \in 0 .. m
  PROVE  SumOver(e, 1, j) = SumOver(d, 1, j)
<1>1. PICK a \in 0 .. n : a = 0
  OBVIOUS
<1>2. a + m <= n /\ m \in Nat /\ a + j = j /\ j \in 0 .. n
  BY <1>1
<1>3. SumOver(e, 1, j) = SumOver(d, 1, a + j) - SumOver(d, 1, a)
  BY <1>1, <1>2, SumOfPart
<1>4. SumOver(d, 1, a) = 0 /\ SumOver(d, 1, j) \in Nat
  BY <1>1, <1>2, SumUpTo
<1>. QED
  BY <1>2, <1>3, <1>4

\* Every number is w times the other.
Widened(d, e, w, n) == \A k \in 1 .. n : e[k] = d[k] * w

\* A sum grows with its numbers.
LEMMA SumWidened ==
  ASSUME NEW d, NEW n \in Nat, Counts(d, n), NEW w \in Nat, NEW e, Widened(d, e, w, n), NEW j \in 0 .. n
  PROVE  SumOver(e, 1, j) = SumOver(d, 1, j) * w /\ Counts(e, n)
<1> DEFINE S == {k \in 0 .. n : SumOver(e, 1, k) # SumOver(d, 1, k) * w}
<1>1. Counts(e, n)
  <2>1. ASSUME NEW k \in 1 .. n PROVE e[k] \in Nat
    <3>1. e[k] = d[k] * w /\ d[k] \in Nat
      BY DEF Counts, Widened
    <3>. QED
      BY <3>1
  <2>. QED
    BY <2>1 DEF Counts
<1>2. SUFFICES ASSUME j \in S PROVE FALSE
  BY <1>1
<1>3. S \in SUBSET Nat
  OBVIOUS
<1>4. PICK l \in S : \A k \in S : l <= k
  BY <1>2, <1>3, LeastNatural
<1>5. l # 0
  <2>1. SumOver(e, 1, 0) = 0 /\ SumOver(d, 1, 0) = 0 /\ 0 = 0 * w
    BY <1>1, SumUpTo
  <2>. QED
    BY <1>4, <2>1
<1>6. l \in 1 .. n /\ l - 1 \in 0 .. n /\ ~ (l <= l - 1)
  BY <1>4, <1>5
<1>7. SumOver(e, 1, l - 1) = SumOver(d, 1, l - 1) * w
  BY <1>4, <1>6
<1>8. SumOver(e, 1, l) = SumOver(e, 1, l - 1) + e[l]
  BY <1>1, <1>6, SumUpTo
<1>9. SumOver(d, 1, l) = SumOver(d, 1, l - 1) + d[l] /\ SumOver(d, 1, l - 1) \in Nat /\ d[l] \in Nat
  BY <1>6, SumUpTo DEF Counts
<1>10. e[l] = d[l] * w
  BY <1>6 DEF Widened
<1>11. ASSUME NEW x \in Nat, NEW y \in Nat PROVE x * w + y * w = (x + y) * w
  OBVIOUS
<1>. QED
  BY <1>4, <1>7, <1>8, <1>9, <1>10, <1>11

\* The pieces say all there is.
LEMMA PiecesUnique ==
  ASSUME NEW S, NEW p \in Seq(Seq(S)), NEW n, n = Len(p), NEW c, NEW e,
         HoldsPieces(c, p, S, n), HoldsPieces(e, p, S, n)
  PROVE  c = e
<1>1. n \in Nat /\ Counts(Lengths(p), n) /\ \A k \in 1 .. n : Lengths(p)[k] = Len(p[k])
  BY LengthsCount
<1>2. c \in Seq(S) /\ e \in Seq(S) /\ Len(c) = Len(e) /\ Len(c) = SumOver(Lengths(p), 1, n) /\ Len(c) \in Nat
  BY DEF HoldsPieces
<1>3. ASSUME NEW j \in 1 .. Len(c) PROVE c[j] = e[j]
  <2>1. PICK x \in Nat : x = j /\ 1 <= x /\ x <= SumOver(Lengths(p), 1, n)
    BY <1>2
  <2>2. PICK k \in 1 .. n : \E i \in 1 .. Lengths(p)[k] : x = SumOver(Lengths(p), 1, k - 1) + i
    BY <1>1, <2>1, PartOf
  <2>3. PICK i \in 1 .. Len(p[k]) : x = SumOver(Lengths(p), 1, k - 1) + i
    BY <1>1, <2>2
  <2>4. c[x] = p[k][i] /\ e[x] = p[k][i]
    BY <2>3 DEF HoldsPieces
  <2>. QED
    BY <2>1, <2>4
<1>4. c = [j \in 1 .. Len(c) |-> c[j]] /\ e = [j \in 1 .. Len(c) |-> e[j]]
  BY <1>2, SequenceIsFunction
<1>. QED
  BY <1>3, <1>4

\* A piece more at the end
LEMMA ConcatAppended ==
  ASSUME NEW S, NEW p \in Seq(Seq(S)), NEW q \in Seq(S)
  PROVE  Concat(Append(p, q)) = Concat(p) \o q
<1>1. PICK n \in Nat : n = Len(p)
  OBVIOUS
<1>2. PICK r \in Seq(Seq(S)) : r = Append(p, q)
  BY AppendProperties
<1>3. Len(r) = n + 1 /\ r[n + 1] = q /\ \A k \in 1 .. n : r[k] = p[k]
  BY <1>1, <1>2, AppendProperties
<1>4. Counts(Lengths(p), n) /\ Counts(Lengths(r), n + 1)
  BY <1>1, <1>3, LengthsCount
<1>5. ASSUME NEW k \in 0 .. n PROVE SumOver(Lengths(p), 1, k) = SumOver(Lengths(r), 1, k)
  <2>1. ASSUME NEW l \in 1 .. n PROVE Lengths(p)[l] = Lengths(r)[0 + l]
    BY <1>1, <1>3 DEF Lengths
  <2>2. OnwardsFrom(Lengths(r), Lengths(p), 0, n)
    BY <2>1 DEF OnwardsFrom
  <2>3. n \in 0 .. n + 1 /\ n + 1 \in Nat
    OBVIOUS
  <2>. QED
    BY <1>4, <2>2, <2>3, SumSame
<1>6. HoldsPieces(Concat(p), p, S, n)
  BY <1>1, ConcatIs
<1>7. HoldsPieces(Concat(p), r, S, n)
  <2>1. Concat(p) \in Seq(S) /\ Len(Concat(p)) = SumOver(Lengths(r), 1, n)
    <3>1. n \in 0 .. n
      OBVIOUS
    <3>. QED
      BY <1>5, <1>6, <3>1 DEF HoldsPieces
  <2>2. ASSUME NEW a \in 1 .. n, NEW i \in 1 .. Len(r[a])
        PROVE  /\ SumOver(Lengths(r), 1, a - 1) + i \in 1 .. Len(Concat(p))
               /\ Concat(p)[SumOver(Lengths(r), 1, a - 1) + i] = r[a][i]
    <3>1. a - 1 \in 0 .. n /\ r[a] = p[a] /\ i \in 1 .. Len(p[a])
      BY <1>3, <2>2
    <3>2. SumOver(Lengths(p), 1, a - 1) = SumOver(Lengths(r), 1, a - 1)
      BY <1>5, <3>1
    <3>3. /\ SumOver(Lengths(p), 1, a - 1) + i \in 1 .. Len(Concat(p))
          /\ Concat(p)[SumOver(Lengths(p), 1, a - 1) + i] = p[a][i]
      BY <1>6, <3>1 DEF HoldsPieces
    <3>. QED
      BY <3>1, <3>2, <3>3
  <2>. QED
    BY <2>1, <2>2 DEF HoldsPieces
<1>8. HoldsPieces(Concat(p) \o q, r, S, n + 1)
  <2>1. PICK k \in 1 .. Len(r) : k = n + 1 /\ k - 1 = n
    BY <1>3
  <2>2. HoldsPieces(Concat(p), r, S, k - 1)
    BY <1>7, <2>1
  <2>3. HoldsPieces(Concat(p) \o r[k], r, S, k)
    BY <2>2, PieceAppended
  <2>. QED
    BY <1>3, <2>1, <2>3
<1>9. HoldsPieces(Concat(r), r, S, n + 1)
  BY <1>3, ConcatIs
<1>10. Concat(r) = Concat(p) \o q
  BY <1>3, <1>8, <1>9, PiecesUnique
<1>. QED
  BY <1>2, <1>10

\* No piece
LEMMA ConcatOfNone == Concat(<<>>) = <<>>
<1>1. <<>> \in Seq(Seq({})) /\ Len(<<>>) = 0
  OBVIOUS
<1>2. HoldsPieces(Concat(<<>>), <<>>, {}, 0)
  BY <1>1, ConcatIs
<1>3. Concat(<<>>) \in Seq({})
  BY <1>2 DEF HoldsPieces
<1>. QED
  BY <1>3

\* What lies where a piece lies is the piece.
LEMMA PieceThere ==
  ASSUME NEW S, NEW p \in Seq(Seq(S)), NEW k \in 1 .. Len(p), NEW first \in Nat,
         first = SumOver(Lengths(p), 1, k - 1)
  PROVE  /\ first + Len(p[k]) <= Len(Concat(p))
         /\ SubSeq(Concat(p), first + 1, first + Len(p[k])) = p[k]
<1>1. PICK n \in Nat : n = Len(p)
  OBVIOUS
<1>2. PICK q \in Seq(S), m \in Nat : q = p[k] /\ m = Len(q)
  OBVIOUS
<1>3. PICK c : c = Concat(p)
  OBVIOUS
<1>4. HoldsPieces(c, p, S, n)
  BY <1>1, <1>3, ConcatIs
<1>5. c \in Seq(S) /\ Len(c) \in Nat
  BY <1>4 DEF HoldsPieces
<1>6. ASSUME NEW i \in 1 .. m PROVE first + i \in 1 .. Len(c) /\ c[first + i] = q[i]
  BY <1>1, <1>2, <1>4 DEF HoldsPieces
<1>7. first + m <= Len(c)
  <2>1. CASE m = 0
    <3>1. Counts(Lengths(p), n) /\ n \in Nat /\ k - 1 \in 0 .. n /\ n \in k - 1 .. n
      BY <1>1, LengthsCount
    <3>2. SumOver(Lengths(p), 1, k - 1) <= SumOver(Lengths(p), 1, n)
      BY <3>1, SumsGrow
    <3>. QED
      BY <1>4, <2>1, <3>2 DEF HoldsPieces
  <2>2. CASE m # 0
    <3>1. m \in 1 .. m
      BY <2>2
    <3>. QED
      BY <1>5, <1>6, <3>1
  <2>. QED
    BY <2>1, <2>2
<1>8. SubSeq(c, first + 1, first + m) = q
  <2>1. PICK f \in Int, t \in Int : f = first + 1 /\ t = first + m
    OBVIOUS
  <2>2. 1 <= f /\ t <= Len(c) /\ t - f + 1 = m
    BY <1>2, <1>5, <1>7, <2>1
  <2>3. SubSeq(c, f, t) = [i \in 1 .. m |-> c[f + i - 1]]
    BY <1>5, <2>2
  <2>4. ASSUME NEW i \in 1 .. m PROVE c[f + i - 1] = q[i]
    <3>1. f + i - 1 = first + i
      BY <2>1
    <3>. QED
      BY <1>6, <3>1
  <2>5. q = [i \in 1 .. m |-> q[i]]
    BY <1>2
  <2>. QED
    BY <2>1, <2>3, <2>4, <2>5
<1>. QED
  BY <1>2, <1>3, <1>7, <1>8

\* One place more of the second of two lists
LEMMA JoinedAppended ==
  ASSUME NEW S, NEW a \in Seq(S), NEW b \in Seq(S), NEW x \in S
  PROVE  a \o Append(b, x) = (a \o b) \o <<x>> /\ Append(b, x) \in Seq(S) /\ Append(b, x) # <<>>
<1>1. PICK one \in Seq(S) : one = <<x>>
  <2>1. <<x>> \in Seq(S)
    OBVIOUS
  <2>. QED
    BY <2>1
<1>2. (a \o b) \o one = a \o (b \o one)
  BY ConcatAssociative
<1>3. Append(b, x) = b \o one /\ Append(b, x) \in Seq(S) /\ Append(b, x) # <<>>
  BY <1>1, AppendIsConcat, AppendProperties
<1>. QED
  BY <1>1, <1>2, <1>3
==============================================================================
