---------------------------------- MODULE Summary ----------------------------------
(***************************************************************************)
(* The statistics of metricq-summary: Summary::calculate() in              *)
(* tools/metricq-summary/src/summary.cpp.  Averages are given as sums over *)
(* all rows, not divided by their number.                                  *)
(***************************************************************************)
EXTENDS Integers, Sequences, SequencesExt, FiniteSets, Functions

\* The rows inside the window: the first and the last are dropped even if nothing is
\* to be cut off.
Kept(tvs, startDelta, stopDelta) ==
  LET start == tvs[1].time
      stop == tvs[Len(tvs)].time
      kept[i \in 0..Len(tvs)] ==
        IF i = 0 THEN <<>>
        ELSE IF tvs[i].time <= start + startDelta \/ tvs[i].time >= stop - stopDelta
             THEN kept[i - 1]
             ELSE Append(kept[i - 1], tvs[i])
  IN  kept[Len(tvs)]

ValuesOf(tvs) == [i \in 1..Len(tvs) |-> tvs[i].value]

\* Mutant of Sorted: the quartiles are taken before sorting.
Unsorted(vs) == vs

\* A permutation of the values in ascending order.
Sorts(p, vs) == \A i, j \in 1..Len(vs) : i < j => vs[p[i]] <= vs[p[j]]
Sorted(vs) ==
  LET p == CHOOSE q \in Bijection(1..Len(vs), 1..Len(vs)) : Sorts(q, vs)
  IN  [i \in 1..Len(vs) |-> vs[p[i]]]

SumOverNths(terms) ==
  LET acc[i \in 0..Len(terms)] == IF i = 0 THEN 0 ELSE acc[i - 1] + terms[i]
  IN  acc[Len(terms)]

Abs(v) == IF v < 0 THEN -v ELSE v

\* Elements n/2+1, or n/2 and n/2+1, of an array that begins with 0.  Reading past
\* its end is undefined: the median is then anything, for which {} stands.
MedianPositions(n) == IF n % 2 = 1 THEN {n \div 2 + 2} ELSE {n \div 2 + 1, n \div 2 + 2}

\* Not for an empty window: there the assertion fails.
Calculate(tvs, startDelta, stopDelta) ==
  LET kept == Kept(tvs, startDelta, stopDelta)
      vs == Sorted(ValuesOf(kept))
      n == Len(kept)
      sum == SumOverNths(vs)
  IN  [n        |-> n,
       duration |-> kept[n].time - kept[1].time,
       average  |-> sum,
       stddev   |-> SumOverNths([i \in 1..n |-> (n * vs[i] - sum) * (n * vs[i] - sum)]),
       absdev   |-> SumOverNths([i \in 1..n |-> Abs(n * vs[i] - sum)]),
       quart25  |-> vs[n \div 4 + 1],
       quart50  |-> IF MedianPositions(n) \subseteq 1..n
                    THEN {vs[i] : i \in MedianPositions(n)} ELSE {},
       quart75  |-> vs[(3 * n) \div 4 + 1],
       minimum  |-> vs[1],
       maximum  |-> vs[n],
       range    |-> vs[n] - vs[1]]

-----------------------------------------------------------------------------
\* q is the k-th smallest of the values, counted from 0, ties in any order.
IsNth(q, k, vs) ==
  /\ Cardinality({i \in 1..Len(vs) : vs[i] < q}) <= k
  /\ Cardinality({i \in 1..Len(vs) : vs[i] <= q}) > k
=============================================================================
