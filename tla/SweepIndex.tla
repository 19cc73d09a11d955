----------------------------- MODULE SweepIndex -----------------------------
(***************************************************************************)
(* The two indexes of core/metric_utils/alarm_threshold_search.py that     *)
(* make a threshold cost logarithmic time: disjoint sets of neighbouring   *)
(* points, and a Fenwick tree over the points that are alive.  Points      *)
(* count from 0, the nodes of the tree from 1.                             *)
(*                                                                         *)
(* Of a set the root knows the right end, whether a target is in it and    *)
(* the first target.  The array of left ends is kept by the code but never *)
(* read, and is left out.                                                  *)
(***************************************************************************)
EXTENDS AlarmScore

----------------------------------------------------------------------------
NoSets ==
  [parent   |-> [i \in Points |-> -1],
   size     |-> [i \in Points |-> 0],
   right    |-> [i \in Points |-> 0],
   target   |-> [i \in Points |-> FALSE],
   firstHit |-> [i \in Points |-> N]]

\* Each new point becomes a set of its own; N stands for no hit.
WithSingletons(sets, new, targets) ==
  LET On(array, Value(_)) == [i \in Points |-> IF i \in new THEN Value(i) ELSE array[i]]
  IN  [parent   |-> On(sets.parent, LAMBDA i : i),
       size     |-> On(sets.size, LAMBDA i : 1),
       right    |-> On(sets.right, LAMBDA i : i),
       target   |-> On(sets.target, LAMBDA i : i \in targets),
       firstHit |-> On(sets.firstHit, LAMBDA i : IF i \in targets THEN i ELSE N)]

\* dsu_find: every point on the way to the root is moved up to its grandparent.
RECURSIVE Find(_, _)
Find(parent, i) ==
  IF parent[i] = i
  THEN [root |-> i, parent |-> parent]
  ELSE Find([parent EXCEPT ![i] = parent[parent[i]]], parent[i])

\* Mutant: the root keeps its own right end.
AttachedInPlace(sets, a, b) ==
  [sets EXCEPT !.parent[b] = a,
               !.size[a] = @ + sets.size[b],
               !.target[a] = @ \/ sets.target[b],
               !.firstHit[a] = Min({@, sets.firstHit[b]})]

\* The root b becomes a child of the root a, which learns what b knew.
Attached(sets, a, b) ==
  [sets EXCEPT !.parent[b] = a,
               !.size[a] = @ + sets.size[b],
               !.right[a] = Max({@, sets.right[b]}),
               !.target[a] = @ \/ sets.target[b],
               !.firstHit[a] = Min({@, sets.firstHit[b]})]

\* dsu_union: of two sets the smaller one is attached to the larger, and the
\* false alarms, the sets without a target, are recounted.  state holds the
\* sets, their false alarms and the root of the last union.
Union(state, i, j) ==
  LET left   == Find(state.sets.parent, i)
      right  == Find(left.parent, j)
      found  == [state.sets EXCEPT !.parent = right.parent]
      swap   == found.size[left.root] < found.size[right.root]
      a      == IF swap THEN right.root ELSE left.root
      b      == IF swap THEN left.root ELSE right.root
      joined == Attached(found, a, b)
      False(sets, root) == IF sets.target[root] THEN 0 ELSE 1
  IN  IF left.root = right.root
      THEN [state EXCEPT !.sets = found, !.root = left.root]
      ELSE [sets  |-> joined,
            root  |-> a,
            false |-> state.false + False(joined, a) - (False(found, a) + False(found, b))]

----------------------------------------------------------------------------
TreeNodes == 1 .. N

EmptyTree == [i \in TreeNodes |-> 0]

Powers == {2 ^ k : k \in 0 .. N}

\* i & -i
LowBit == [i \in TreeNodes |-> Max({p \in Powers : i % p = 0})]

\* fenwick_add, from the node i upwards
RECURSIVE AddFrom(_, _, _)
AddFrom(bit, i, delta) ==
  IF i > N THEN bit ELSE AddFrom([bit EXCEPT ![i] = @ + delta], i + LowBit[i], delta)

FenwickAdd(bit, point, delta) == AddFrom(bit, point + 1, delta)

\* fenwick_sum_prefix: how many points before r there are
RECURSIVE SumPrefix(_, _)
SumPrefix(bit, r) == IF r = 0 THEN 0 ELSE bit[r] + SumPrefix(bit, r - LowBit[r])

\* fenwick_find_by_order: from the largest power of two downwards, a stride is
\* taken as long as fewer than k points are passed.
RECURSIVE Descend(_, _, _, _)
Descend(bit, at, stride, k) ==
  IF stride = 0
  THEN at
  ELSE IF at + stride <= N /\ bit[at + stride] < k
       THEN Descend(bit, at + stride, stride \div 2, k - bit[at + stride])
       ELSE Descend(bit, at, stride \div 2, k)

FindByOrder(bit, k) == Descend(bit, 0, Max({p \in Powers : p <= N}), k)

\* Mutant: the point at l itself is passed over.
NextAliveBehind(bit, l) ==
  IF l >= N \/ SumPrefix(bit, l + 1) = SumPrefix(bit, N)
  THEN N
  ELSE FindByOrder(bit, SumPrefix(bit, l + 1) + 1)

\* fenwick_next_one_at_or_after: N if there is none
NextAlive(bit, l) ==
  IF l >= N \/ SumPrefix(bit, l) = SumPrefix(bit, N)
  THEN N
  ELSE FindByOrder(bit, SumPrefix(bit, l) + 1)
=============================================================================
