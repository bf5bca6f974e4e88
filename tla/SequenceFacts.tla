------------------------------- MODULE SequenceFacts -------------------------------
(***************************************************************************)
(* Facts about sequences and initial segments of the numbers that the      *)
(* proofs about messages need.  The first is induction, stated with a set  *)
(* instead of a predicate.                                                 *)
(***************************************************************************)
EXTENDS Integers, Sequences, SequencesExt, FiniteSetTheorems, WellFoundedInduction,
        SequenceTheorems, TLAPS

\* Induction up to n: otherwise, of the intervals that end outside S one is smallest.
LEMMA IntervalInduction ==
  ASSUME NEW n \in Nat, NEW S, 0 \in S, \A k \in 0..(n - 1) : k \in S => k + 1 \in S
  PROVE  0..n \subseteq S
<1>1. SUFFICES ASSUME NEW b \in 0..n, b \notin S PROVE FALSE  OBVIOUS
<1> DEFINE Bad == {1..k : k \in (0..n) \ S}
<1>2. Bad \subseteq SUBSET (1..n) /\ Bad # {}  BY <1>1
<1>3. IsWellFoundedOn(StrictSubsetOrdering(1..n), SUBSET (1..n))
  <2>1. IsFiniteSet(1..n)  BY FS_Interval
  <2>2. FiniteSubsetsOf(1..n) = SUBSET (1..n)  BY <2>1, FS_FiniteSubsetsOfFinite
  <2>3. QED  BY <2>2, FS_StrictSubsetOrderingWellFounded
<1>4. PICK x \in Bad : \A y \in Bad : <<y, x>> \notin StrictSubsetOrdering(1..n)
  <2> HIDE DEF Bad
  <2>1. QED  BY <1>2, <1>3, WFMin
<1>5. PICK k \in (0..n) \ S : x = 1..k  BY <1>4
<1>6. k # 0 /\ k - 1 \in (0..n) \ S
  <2>1. k # 0  BY <1>5
  <2>2. k - 1 \in 0..(n - 1) /\ (k - 1) + 1 = k  BY <2>1
  <2>3. QED  BY <2>1, <2>2
<1>7. 1..(k - 1) \in Bad  BY <1>6
<1>8. /\ 1..(k - 1) \in SUBSET (1..n) /\ 1..k \in SUBSET (1..n)
      /\ 1..(k - 1) \subseteq 1..k /\ k \in 1..k /\ k \notin 1..(k - 1)
  BY <1>6
<1>9. <<1..(k - 1), 1..k>> \in StrictSubsetOrdering(1..n)  BY <1>8 DEF StrictSubsetOrdering
<1>10. QED  BY <1>4, <1>5, <1>7, <1>9

LEMMA SameEnd ==
  ASSUME NEW n \in Nat, NEW k \in Nat, 1..n = 1..k
  PROVE  n = k
<1>1. n = 0 \/ n \in 1..k  OBVIOUS
<1>2. k = 0 \/ k \in 1..n  OBVIOUS
<1>3. QED  BY <1>1, <1>2

\* A function on 1..n is a sequence of length n.
LEMMA SeqOfLength ==
  ASSUME NEW S, NEW n \in Nat, NEW f \in [1..n -> S]
  PROVE  f \in Seq(S) /\ Len(f) = n
<1>1. f \in Seq(S)  BY SeqDef
<1>2. Len(f) \in Nat /\ 1..Len(f) = 1..n  BY <1>1, LenProperties
<1>3. QED  BY <1>1, <1>2, SameEnd

\* What is appended leaves a prefix.
LEMMA PrefixOfConcat ==
  ASSUME NEW S, NEW s \in Seq(S), NEW t \in Seq(S)
  PROVE  IsPrefix(s, s \o t)
<1>1. Len(s) \in Nat /\ Len(t) \in Nat /\ Len(s \o t) = Len(s) + Len(t)
  BY ConcatProperties, LenProperties
<1>2. SubSeq(s \o t, 1, Len(s)) = SubSeq(s, 1, Len(s))
  <2>1. CASE Len(s) = 0
    <3>1. SubSeq(s \o t, 1, Len(s)) = <<>> /\ SubSeq(s, 1, Len(s)) = <<>>
      BY <2>1, SubSeqEmpty
    <3>2. QED  BY <3>1
  <2>2. CASE Len(s) # 0
    <3>1. 1 \in 1..Len(s) /\ Len(s) \in 1..Len(s)  BY <1>1, <2>2
    <3>2. QED  BY <3>1, SubSeqOfConcat1
  <2>3. QED  BY <2>1, <2>2
<1>3. QED  BY <1>1, <1>2 DEF IsPrefix

\* A pair, as two sequences of one element.
LEMMA PairIsConcat ==
  ASSUME NEW S, NEW a \in S, NEW b \in S
  PROVE  <<a, b>> = <<a>> \o <<b>>
<1> DEFINE one == <<a>>
           two == <<b>>
<1>1. /\ one \in Seq(S) /\ Len(one) = 1 /\ one[1] = a
      /\ two \in Seq(S) /\ Len(two) = 1 /\ two[1] = b
  OBVIOUS
<1> HIDE DEF one, two
<1>2. /\ one \o two \in Seq(S) /\ Len(one \o two) = 2
      /\ (one \o two)[1] = a /\ (one \o two)[2] = b
  BY <1>1, ConcatProperties
<1> DEFINE pair == <<a, b>>
<1>3. pair \in Seq(S) /\ Len(pair) = 2 /\ pair[1] = a /\ pair[2] = b  OBVIOUS
<1> HIDE DEF pair
<1>4. \A k \in 1..2 : pair[k] = (one \o two)[k]  BY <1>2, <1>3
<1>5. pair = one \o two  BY <1>2, <1>3, <1>4, SeqEqual
<1>6. QED  BY <1>5 DEF pair, one, two

-----------------------------------------------------------------------------
(***************************************************************************)
(* Counting the elements of a sequence that are in a set                   *)
(***************************************************************************)
Places(s, A) == {i \in 1..Len(s) : s[i] \in A}
Count(s, A) == Cardinality(Places(s, A))

LEMMA CountIsNat ==
  ASSUME NEW S, NEW s \in Seq(S), NEW A
  PROVE  IsFiniteSet(Places(s, A)) /\ Count(s, A) \in Nat
<1>1. IsFiniteSet(1..Len(s))  BY LenProperties, FS_Interval
<1>2. Places(s, A) \in SUBSET (1..Len(s))  BY DEF Places
<1>3. IsFiniteSet(Places(s, A))  BY <1>1, <1>2, FS_Subset
<1>4. QED  BY <1>3, FS_CardinalityType DEF Count

LEMMA CountEmpty ==
  ASSUME NEW S, NEW s \in Seq(S), NEW A, \A e \in S : e \notin A
  PROVE  Count(s, A) = 0
<1>1. Places(s, A) = {}  BY ElementOfSeq DEF Places
<1>2. QED  BY <1>1, FS_EmptySet DEF Count

\* The second part of a sequence, moved behind the first.
LEMMA CountConcat ==
  ASSUME NEW S, NEW s \in Seq(S), NEW t \in Seq(S), NEW A
  PROVE  s \o t \in Seq(S) /\ Count(s \o t, A) = Count(s, A) + Count(t, A)
<1> DEFINE n == Len(s)
           k == Len(t)
           P == Places(s, A)
           Q == Places(t, A)
           Moved == {i \in (n + 1)..(n + k) : i - n \in Q}
           move == [i \in Q |-> i + n]
<1>1. n \in Nat /\ k \in Nat  BY LenProperties
<1>2. /\ s \o t \in Seq(S) /\ Len(s \o t) = n + k
      /\ \A i \in 1..(n + k) : (s \o t)[i] = IF i <= n THEN s[i] ELSE t[i - n]
  BY ConcatProperties
<1>3. IsFiniteSet(P) /\ IsFiniteSet(Q) /\ Cardinality(P) \in Nat /\ Cardinality(Q) \in Nat
  BY CountIsNat DEF Count
<1>4. Q \subseteq 1..k /\ P \subseteq 1..n  BY DEF Places
<1>5. Places(s \o t, A) = P \cup Moved
  <2>1. ASSUME NEW i \in 1..n
        PROVE  i \in 1..(n + k) /\ (s \o t)[i] = s[i] /\ i \notin Moved
    BY <1>1, <1>2
  <2>2. ASSUME NEW i \in (n + 1)..(n + k)
        PROVE  /\ i \in 1..(n + k) /\ (s \o t)[i] = t[i - n] /\ i - n \in 1..k
               /\ i \notin 1..n
    BY <1>1, <1>2
  <2>3. \A i \in 1..(n + k) : i \in 1..n \/ i \in (n + 1)..(n + k)  BY <1>1
  <2>4. QED  BY <1>2, <2>1, <2>2, <2>3 DEF Places
<1>6. P \cap Moved = {}  BY <1>1, <1>4
<1>7. move \in Bijection(Q, Moved)
  <2>1. \A i \in Q : i \in 1..k  BY <1>4
  <2>2. \A i \in Q : i + n \in Moved
    <3>1. \A i \in 1..k : i + n \in (n + 1)..(n + k) /\ (i + n) - n = i  BY <1>1
    <3>2. QED  BY <2>1, <3>1
  <2>3. move \in [Q -> Moved]  BY <2>2
  <2>4. \A i, j \in Q : move[i] = move[j] => i = j
    <3>1. \A i, j \in 1..k : i + n = j + n => i = j  BY <1>1
    <3>2. QED  BY <2>1, <3>1
  <2>5. \A j \in Moved : \E i \in Q : move[i] = j
    <3>1. \A j \in (n + 1)..(n + k) : (j - n) + n = j  BY <1>1
    <3>2. \A j \in Moved : j - n \in Q /\ move[j - n] = j  BY <3>1
    <3>3. QED  BY <3>2
  <2> HIDE DEF Moved, move, Q
  <2>6. QED  BY <2>3, <2>4, <2>5 DEF Bijection, Injection, IsInjective, Surjection
<1>8. IsFiniteSet(Moved) /\ Cardinality(Moved) = Cardinality(Q)
  <2> HIDE DEF Moved, move, Q
  <2>1. ExistsBijection(Q, Moved)  BY <1>7 DEF ExistsBijection
  <2>2. QED  BY <1>3, <2>1, FS_Bijection
<1>9. Cardinality(P \cup Moved) = Cardinality(P) + Cardinality(Q)
  <2> HIDE DEF Moved, move, Q, P
  <2>1. Cardinality(P \cup Moved) = Cardinality(P) + Cardinality(Moved) - Cardinality(P \cap Moved)
    BY <1>3, <1>8, FS_Union
  <2>2. Cardinality(P \cap Moved) = 0  BY <1>6, FS_EmptySet
  <2>3. QED  BY <1>3, <1>8, <2>1, <2>2
<1>10. QED  BY <1>2, <1>5, <1>9 DEF Count

LEMMA CountOne ==
  ASSUME NEW S, NEW e \in S, NEW A
  PROVE  <<e>> \in Seq(S) /\ Count(<<e>>, A) = IF e \in A THEN 1 ELSE 0
<1>1. <<e>> \in Seq(S) /\ Len(<<e>>) = 1 /\ <<e>>[1] = e  OBVIOUS
<1>2. CASE e \in A
  <2>1. Places(<<e>>, A) = {1}  BY <1>1, <1>2 DEF Places
  <2>2. QED  BY <1>1, <1>2, <2>1, FS_Singleton DEF Count
<1>3. CASE e \notin A
  <2>1. Places(<<e>>, A) = {}  BY <1>1, <1>3 DEF Places
  <2>2. QED  BY <1>1, <1>3, <2>1, FS_EmptySet DEF Count
<1>4. QED  BY <1>2, <1>3

LEMMA CountAppend ==
  ASSUME NEW S, NEW s \in Seq(S), NEW e \in S, NEW A
  PROVE  Count(Append(s, e), A) = Count(s, A) + (IF e \in A THEN 1 ELSE 0)
<1> DEFINE one == <<e>>
<1>1. Append(s, e) = s \o one  BY AppendIsConcat
<1>2. one \in Seq(S) /\ Count(one, A) = IF e \in A THEN 1 ELSE 0  BY CountOne
<1> HIDE DEF one
<1>3. Count(s \o one, A) = Count(s, A) + Count(one, A)  BY <1>2, CountConcat
<1>4. QED  BY <1>1, <1>2, <1>3

LEMMA CountTail ==
  ASSUME NEW S, NEW s \in Seq(S), s # <<>>, NEW A
  PROVE  Count(s, A) = Count(Tail(s), A) + (IF Head(s) \in A THEN 1 ELSE 0)
<1> DEFINE one == <<Head(s)>>
           rest == Tail(s)
<1>1. Head(s) \in S /\ rest \in Seq(S)  BY HeadTailProperties
<1>2. s = one \o rest  OBVIOUS
<1>3. Count(rest, A) \in Nat  BY <1>1, CountIsNat
<1>4. one \in Seq(S) /\ Count(one, A) = IF Head(s) \in A THEN 1 ELSE 0
  BY <1>1, CountOne
<1>5. Count(s, A) = Count(one, A) + Count(rest, A)
  <2> HIDE DEF one, rest
  <2>1. Count(one \o rest, A) = Count(one, A) + Count(rest, A)
    BY <1>1, <1>4, CountConcat
  <2>2. QED  BY <1>2, <2>1
<1> HIDE DEF one, rest
<1>6. Count(s, A) = Count(rest, A) + (IF Head(s) \in A THEN 1 ELSE 0)
  BY <1>3, <1>4, <1>5
<1>7. QED  BY <1>6 DEF rest

LEMMA CountRemoveAt ==
  ASSUME NEW S, NEW s \in Seq(S), NEW k \in 1..Len(s), NEW A
  PROVE  Count(RemoveAt(s, k), A) <= Count(s, A)
<1> DEFINE l == SubSeq(s, 1, k - 1)
           r == SubSeq(s, k + 1, Len(s))
           one == <<s[k]>>
           first == l \o one
<1>1. Len(s) \in Nat /\ \A i \in 1..Len(s) : s[i] \in S  BY LenProperties, ElementOfSeq
<1>2. l \in Seq(S) /\ r \in Seq(S) /\ one \in Seq(S)
  <2>1. \A i \in 1..(k - 1) : s[i] \in S  BY <1>1
  <2>2. \A i \in (k + 1)..Len(s) : s[i] \in S  BY <1>1
  <2>3. k - 1 \in Int /\ k + 1 \in Int /\ Len(s) \in Int  BY <1>1
  <2>4. l \in Seq(S)  BY <2>1, <2>3, SubSeqProperties
  <2>5. r \in Seq(S)  BY <2>2, <2>3, SubSeqProperties
  <2>6. QED  BY <1>1, <2>4, <2>5
<1>3. s = first \o r
  <2>1. SubSeq(s, 1, k) = l \o one
    <3>1. 1 \in 1..Len(s) /\ k \in 1..Len(s)  BY <1>1
    <3>2. QED  BY <3>1, SubSeqRecursiveSecond
  <2>2. SubSeq(s, 1, k) \o r = SubSeq(s, 1, Len(s))
    BY <1>1, ConcatAdjacentSubSeq
  <2>3. SubSeq(s, 1, Len(s)) = s  BY SubSeqFull
  <2>4. QED  BY <2>1, <2>2, <2>3
<1>4. RemoveAt(s, k) = l \o r  BY DEF RemoveAt
<1> HIDE DEF l, r, one, first
<1>5. /\ Count(l, A) \in Nat /\ Count(r, A) \in Nat /\ Count(one, A) \in Nat
  BY <1>2, CountIsNat
<1>6. Count(l \o r, A) = Count(l, A) + Count(r, A)  BY <1>2, CountConcat
<1>7. first \in Seq(S) /\ Count(first, A) = Count(l, A) + Count(one, A)
  BY <1>2, CountConcat DEF first
<1>8. Count(s, A) = (Count(l, A) + Count(one, A)) + Count(r, A)
  <2>1. Count(first \o r, A) = Count(first, A) + Count(r, A)
    BY <1>2, <1>7, CountConcat
  <2>2. QED  BY <1>3, <1>7, <2>1
<1>9. QED  BY <1>4, <1>5, <1>6, <1>8

-----------------------------------------------------------------------------
(***************************************************************************)
(* Recursion and sorting                                                   *)
(***************************************************************************)
\* The intermediate results of a fold along 1..n, and that there are some.
Steps(n, X) == [1..n -> [X -> X]]
IsFold(f, n, X, first, step) ==
  f \in [0..n -> X] /\ f[0] = first /\ \A i \in 1..n : f[i] = step[i][f[i - 1]]

LEMMA PrefixRecursion ==
  ASSUME NEW n \in Nat, NEW X, NEW first \in X, NEW step \in Steps(n, X)
  PROVE  \E f : IsFold(f, n, X, first, step)
<1> DEFINE Reaches(f, k) == f[0] = first /\ \A i \in 1..k : f[i] = step[i][f[i - 1]]
           S == {k \in 0..n : \E f \in [0..k -> X] : Reaches(f, k)}
<1>1. 0 \in S
  <2> DEFINE f == [i \in 0..0 |-> first]
  <2>1. f \in [0..0 -> X] /\ f[0] = first /\ \A i \in 1..0 : FALSE  OBVIOUS
  <2> HIDE DEF f
  <2>2. Reaches(f, 0)  BY <2>1
  <2>3. 0 \in 0..n  OBVIOUS
  <2>4. QED  BY <2>1, <2>2, <2>3
<1>2. ASSUME NEW k \in 0..(n - 1), k \in S PROVE k + 1 \in S
  <2>1. PICK f \in [0..k -> X] : Reaches(f, k)  BY <1>2
  <2> DEFINE g == [i \in 0..(k + 1) |-> IF i \in 0..k THEN f[i] ELSE step[k + 1][f[k]]]
  <2>2. step[k + 1][f[k]] \in X  BY DEF Steps
  <2>3. g \in [0..(k + 1) -> X]  BY <2>2
  <2>4. \A i \in 0..k : g[i] = f[i]  OBVIOUS
  <2>5. g[k + 1] = step[k + 1][f[k]]  OBVIOUS
  <2> HIDE DEF g
  <2>6. Reaches(g, k + 1)
    <3>1. g[0] = first  BY <2>1, <2>4
    <3>2. ASSUME NEW i \in 1..k PROVE g[i] = step[i][g[i - 1]]
      <4>1. g[i] = f[i] /\ g[i - 1] = f[i - 1]  BY <2>4
      <4>2. QED  BY <2>1, <4>1
    <3>3. g[k + 1] = step[k + 1][g[(k + 1) - 1]]  BY <2>4, <2>5
    <3>4. \A i \in 1..(k + 1) : i \in 1..k \/ i = k + 1  OBVIOUS
    <3>5. QED  BY <3>1, <3>2, <3>3, <3>4
  <2>7. k + 1 \in 0..n  OBVIOUS
  <2>8. QED  BY <2>3, <2>6, <2>7
<1> HIDE DEF S
<1>3. 0..n \subseteq S  BY <1>1, <1>2, IntervalInduction
<1>4. n \in S  BY <1>3
<1>5. QED  BY <1>4 DEF S, IsFold

\* Some value is the largest.
LEMMA LargestValue ==
  ASSUME NEW n \in Nat \ {0}, NEW f \in [1..n -> Int]
  PROVE  \E m \in 1..n : \A i \in 1..n : f[i] <= f[m]
<1> DEFINE S == {k \in 0..n : k = 0 \/ \E m \in 1..k : \A i \in 1..k : f[i] <= f[m]}
<1>1. 0 \in S  OBVIOUS
<1>2. ASSUME NEW k \in 0..(n - 1), k \in S PROVE k + 1 \in S
  <2>1. CASE k = 0
    <3>1. k + 1 = 1 /\ \A i \in 1..1 : i = 1  BY <2>1
    <3>2. \A i \in 1..1 : f[i] <= f[1]  BY <3>1
    <3>3. QED  BY <3>1, <3>2
  <2>2. CASE k # 0
    <3>1. PICK m \in 1..k : \A i \in 1..k : f[i] <= f[m]  BY <1>2, <2>2
    <3>2. /\ k + 1 \in 1..n /\ m \in 1..n /\ \A i \in 1..(k + 1) : i \in 1..k \/ i = k + 1
          /\ k + 1 \in 1..(k + 1) /\ m \in 1..(k + 1)
      OBVIOUS
    <3>3. CASE f[k + 1] <= f[m]
      <4>1. \A i \in 1..(k + 1) : f[i] <= f[m]  BY <3>1, <3>2, <3>3
      <4>2. QED  BY <3>2, <4>1
    <3>4. CASE f[m] <= f[k + 1]
      <4>1. \A i \in 1..k : f[i] \in Int  OBVIOUS
      <4>2. f[k + 1] \in Int /\ f[m] \in Int  BY <3>2
      <4>3. \A i \in 1..(k + 1) : f[i] <= f[k + 1]  BY <3>1, <3>2, <3>4, <4>1, <4>2
      <4>4. QED  BY <3>2, <4>3
    <3>5. f[k + 1] \in Int /\ f[m] \in Int  BY <3>2
    <3>6. QED  BY <3>3, <3>4, <3>5
  <2>3. QED  BY <2>1, <2>2
<1> HIDE DEF S
<1>3. 0..n \subseteq S  BY <1>1, <1>2, IntervalInduction
<1>4. n \in S  BY <1>3
<1>5. QED  BY <1>4 DEF S

\* Integers can be sorted.
LEMMA SortingExists ==
  ASSUME NEW n \in Nat, NEW f \in [1..n -> Int]
  PROVE  \E p \in Bijection(1..n, 1..n) :
           \A i, j \in 1..n : i < j => f[p[i]] <= f[p[j]]
<1> DEFINE Perm(k, p) ==
             /\ p \in [1..k -> 1..k]
             /\ \A i, j \in 1..k : p[i] = p[j] => i = j
             /\ \A i \in 1..k : \E j \in 1..k : p[j] = i
           Ascends(k, g, p) == \A i, j \in 1..k : i < j => g[p[i]] <= g[p[j]]
           S == {k \in 0..n : \A g \in [1..k -> Int] : \E p : Perm(k, p) /\ Ascends(k, g, p)}
<1>1. 0 \in S
  <2> DEFINE p == [i \in 1..0 |-> 1]
  <2>1. \A i \in 1..0 : FALSE  OBVIOUS
  <2>2. p \in [1..0 -> 1..0]  BY <2>1
  <2>3. Perm(0, p) /\ \A g : Ascends(0, g, p)  BY <2>1, <2>2
  <2>4. QED  BY <2>3
<1>2. ASSUME NEW k \in 0..(n - 1), k \in S PROVE k + 1 \in S
  <2>1. SUFFICES ASSUME NEW g \in [1..(k + 1) -> Int]
                 PROVE  \E p : Perm(k + 1, p) /\ Ascends(k + 1, g, p)
    <3>1. k + 1 \in 0..n  OBVIOUS
    <3>2. QED  BY <3>1
  <2>2. PICK m \in 1..(k + 1) : \A i \in 1..(k + 1) : g[i] <= g[m]
    <3>1. k + 1 \in Nat \ {0}  OBVIOUS
    <3>2. QED  BY <3>1, LargestValue
  <2> DEFINE h == [i \in 1..k |-> IF i = m THEN g[k + 1] ELSE g[i]]
  <2>3. h \in [1..k -> Int]  OBVIOUS
  <2>4. PICK p : Perm(k, p) /\ Ascends(k, h, p)  BY <1>2, <2>3
  <2> DEFINE q == [i \in 1..(k + 1) |->
                     IF i = k + 1 THEN m ELSE IF p[i] = m THEN k + 1 ELSE p[i]]
  <2>5. \A i \in 1..k : q[i] = IF p[i] = m THEN k + 1 ELSE p[i]  OBVIOUS
  <2>6. q[k + 1] = m /\ \A i \in 1..(k + 1) : i \in 1..k \/ i = k + 1  OBVIOUS
  <2>7. \A i \in 1..k : p[i] \in 1..k  BY <2>4
  <2>8. \A i \in 1..k : h[i] = IF i = m THEN g[k + 1] ELSE g[i]  OBVIOUS
  <2>9. q \in [1..(k + 1) -> 1..(k + 1)]  BY <2>7
  <2> HIDE DEF h, q
  <2>10. \A i \in 1..k : q[i] # m /\ g[q[i]] = h[p[i]]
    <3>1. SUFFICES ASSUME NEW i \in 1..k PROVE q[i] # m /\ g[q[i]] = h[p[i]]  OBVIOUS
    <3>2. /\ q[i] = (IF p[i] = m THEN k + 1 ELSE p[i]) /\ p[i] \in 1..k
          /\ h[p[i]] = (IF p[i] = m THEN g[k + 1] ELSE g[p[i]])
      BY <2>5, <2>7, <2>8
    <3>3. QED  BY <3>2
  <2>11. Perm(k + 1, q)
    <3>1. ASSUME NEW i \in 1..(k + 1), NEW j \in 1..(k + 1), q[i] = q[j] PROVE i = j
      <4>1. CASE i \in 1..k /\ j \in 1..k
        <5>1. /\ q[i] = (IF p[i] = m THEN k + 1 ELSE p[i]) /\ p[i] \in 1..k
              /\ q[j] = (IF p[j] = m THEN k + 1 ELSE p[j]) /\ p[j] \in 1..k
          BY <2>5, <2>7, <4>1
        <5>2. p[i] = p[j]
          <6>1. k \in Int /\ \A l \in 1..k : l # k + 1  OBVIOUS
          <6>2. CASE p[i] = m /\ p[j] = m  BY <6>2
          <6>3. CASE p[i] = m /\ p[j] # m  BY <3>1, <5>1, <6>1, <6>3
          <6>4. CASE p[i] # m /\ p[j] = m  BY <3>1, <5>1, <6>1, <6>4
          <6>5. CASE p[i] # m /\ p[j] # m  BY <3>1, <5>1, <6>5
          <6>6. QED  BY <6>2, <6>3, <6>4, <6>5
        <5>3. QED  BY <2>4, <4>1, <5>2
      <4>2. CASE i \in 1..k /\ j = k + 1  BY <2>6, <2>10, <3>1, <4>2
      <4>3. CASE i = k + 1 /\ j \in 1..k  BY <2>6, <2>10, <3>1, <4>3
      <4>4. QED  BY <2>6, <4>1, <4>2, <4>3
    <3>2. ASSUME NEW i \in 1..(k + 1) PROVE \E j \in 1..(k + 1) : q[j] = i
      <4>0. k + 1 \in 1..(k + 1) /\ \A j \in 1..k : j \in 1..(k + 1)  OBVIOUS
      <4>1. CASE i = m  BY <2>6, <4>0, <4>1
      <4>2. CASE i # m /\ i = k + 1
        <5>1. m \in 1..k  BY <2>6, <4>2
        <5>2. PICK j \in 1..k : p[j] = m  BY <2>4, <5>1
        <5>3. QED  BY <2>5, <4>0, <4>2, <5>2
      <4>3. CASE i # m /\ i \in 1..k
        <5>1. PICK j \in 1..k : p[j] = i  BY <2>4, <4>3
        <5>2. QED  BY <2>5, <4>0, <4>3, <5>1
      <4>4. QED  BY <2>6, <4>1, <4>2, <4>3
    <3>3. QED  BY <2>9, <3>1, <3>2
  <2>12. Ascends(k + 1, g, q)
    <3>1. SUFFICES ASSUME NEW i \in 1..(k + 1), NEW j \in 1..(k + 1), i < j
                   PROVE  g[q[i]] <= g[q[j]]
      OBVIOUS
    <3>2. i \in 1..k  BY <3>1
    <3>3. CASE j \in 1..k  BY <2>4, <2>10, <3>1, <3>2, <3>3
    <3>4. CASE j = k + 1  BY <2>2, <2>6, <2>9, <3>4
    <3>5. QED  BY <2>6, <3>3, <3>4
  <2>13. QED  BY <2>11, <2>12
<1> HIDE DEF S
<1>3. 0..n \subseteq S  BY <1>1, <1>2, IntervalInduction
<1>4. PICK p : Perm(n, p) /\ Ascends(n, f, p)
  <2>1. n \in S  BY <1>3
  <2>2. QED  BY <2>1 DEF S
<1>5. p \in Bijection(1..n, 1..n)
  BY <1>4 DEF Bijection, Injection, Surjection, IsInjective
<1>6. QED  BY <1>4, <1>5
=============================================================================
