--------------------------- MODULE AnalysisProofs ---------------------------
(***************************************************************************)
(* Theorems about Analysis, for arrays of every length.  Of std::sort only *)
(* its contract is used.                                                   *)
(***************************************************************************)
EXTENDS Analysis, FiniteSetTheorems, SequenceTheorems, WellFoundedInduction, TLAPS

\* Every nonempty set of naturals has a least element.
LEMMA NatLeast ==
  ASSUME NEW T, T \subseteq Nat, T # {}
  PROVE  \E x \in T : \A y \in T : x <= y
<1>1. PICK x \in T : \A y \in T : ~(<<y, x>> \in OpToRel(<, Nat))
  BY NatLessThanWellFounded, WFMin
<1>2. ASSUME NEW y \in T PROVE x <= y
  <2>1. ~(<<y, x>> \in OpToRel(<, Nat))
    BY <1>1
  <2>2. ~(y < x)
    BY <2>1 DEF OpToRel
  <2> QED
    BY <2>2
<1> QED
  BY <1>2

-----------------------------------------------------------------------------
(***************************************************************************)
(* The sum.                                                                *)
(***************************************************************************)
\* f holds the partial sums of the first n entries of s.
PartialSums(f, s, n) == f = [j \in 0 .. n |-> IF j = 0 THEN 0 ELSE f[j - 1] + s[j]]

LEMMA PartialSumsExist ==
  ASSUME NEW s \in Seq(Nat)
  PROVE  \E f : PartialSums(f, s, Len(s))
<1> DEFINE T == {n \in 0 .. Len(s) : ~ \E f : PartialSums(f, s, n)}
<1>1. Len(s) \in Nat
  OBVIOUS
<1>2. SUFFICES ASSUME T # {} PROVE FALSE
  BY <1>1
<1>3. PICK n \in T : \A m \in T : n <= m
  <2>1. T \subseteq Nat
    OBVIOUS
  <2> HIDE DEF T
  <2> QED
    BY <1>2, <2>1, NatLeast
<1>4. CASE n = 0
  <2>1. PartialSums([j \in 0 .. 0 |-> 0], s, 0)
    BY DEF PartialSums
  <2> QED
    BY <1>3, <1>4, <2>1
<1>5. CASE n # 0
  <2>1. n - 1 \in 0 .. Len(s) /\ n - 1 \notin T
    BY <1>1, <1>3, <1>5
  <2>2. PICK f : PartialSums(f, s, n - 1)
    BY <2>1
  <2> DEFINE g == [j \in 0 .. n |-> IF j = n THEN f[n - 1] + s[n] ELSE f[j]]
  <2>3. ASSUME NEW j \in 0 .. n
        PROVE  g[j] = IF j = 0 THEN 0 ELSE g[j - 1] + s[j]
    <3>1. CASE j = n
      BY <1>3, <1>5, <3>1
    <3>2. CASE j # n
      <4>1. f[j] = IF j = 0 THEN 0 ELSE f[j - 1] + s[j]
        BY <1>3, <2>2, <3>2 DEF PartialSums
      <4> QED
        BY <1>3, <3>2, <4>1
    <3> QED
      BY <3>1, <3>2
  <2>4. PartialSums(g, s, n)
    BY <2>3 DEF PartialSums
  <2> QED
    BY <1>3, <2>4
<1> QED
  BY <1>4, <1>5

LEMMA SumPartial ==
  ASSUME NEW s \in Seq(Nat)
  PROVE  \E f : PartialSums(f, s, Len(s)) /\ Sum(s) = f[Len(s)]
<1> DEFINE f == CHOOSE f : f = [j \in 0 .. Len(s) |-> IF j = 0 THEN 0 ELSE f[j - 1] + s[j]]
<1>1. PartialSums(f, s, Len(s))
  BY PartialSumsExist DEF PartialSums
<1>2. Sum(s) = f[Len(s)]
  BY DEF Sum
<1> QED
  BY <1>1, <1>2

\* The sum of n entries between lo and hi lies between n * lo and n * hi.
LEMMA SumBounds ==
  ASSUME NEW s \in Seq(Nat), NEW lo \in Nat, NEW hi \in Nat,
         \A j \in 1 .. Len(s) : lo <= s[j] /\ s[j] <= hi
  PROVE  Sum(s) \in Nat /\ Len(s) * lo <= Sum(s) /\ Sum(s) <= Len(s) * hi
<1>1. PICK f : PartialSums(f, s, Len(s)) /\ Sum(s) = f[Len(s)]
  BY SumPartial
<1> DEFINE Good(n) == f[n] \in Nat /\ n * lo <= f[n] /\ f[n] <= n * hi
           T == {n \in 0 .. Len(s) : ~Good(n)}
<1>2. Len(s) \in Nat
  OBVIOUS
<1>3. \A n \in 0 .. Len(s) : f[n] = IF n = 0 THEN 0 ELSE f[n - 1] + s[n]
  BY <1>1 DEF PartialSums
<1>4. T = {}
  <2> SUFFICES ASSUME T # {} PROVE FALSE
    OBVIOUS
  <2>1. PICK n \in T : \A m \in T : n <= m
    <3>1. T \subseteq Nat
      OBVIOUS
    <3> HIDE DEF T
    <3> QED
      BY <3>1, NatLeast
  <2>2. CASE n = 0
    <3>1. f[0] = 0
      BY <1>2, <1>3
    <3>2. Good(0)
      BY <3>1
    <3> QED
      BY <2>1, <2>2, <3>2
  <2>3. CASE n # 0
    <3>1. n - 1 \in 0 .. Len(s) /\ n \in 1 .. Len(s)
      BY <1>2, <2>1, <2>3
    <3>2. Good(n - 1)
      <4>1. n - 1 \notin T
        BY <1>2, <2>1
      <4> QED
        BY <3>1, <4>1
    <3>3. f[n] = f[n - 1] + s[n] /\ s[n] \in Nat /\ lo <= s[n] /\ s[n] <= hi
      BY <1>3, <2>1, <2>3, <3>1
    <3>4. n * lo = (n - 1) * lo + lo /\ n * hi = (n - 1) * hi + hi
      BY <3>1
    <3>5. n * lo \in Nat /\ n * hi \in Nat /\ (n - 1) * lo \in Nat /\ (n - 1) * hi \in Nat
      BY <3>1
    <3>6. Good(n)
      <4> DEFINE a == f[n - 1]
                 b == (n - 1) * lo
                 c == (n - 1) * hi
      <4>1. a \in Nat /\ b <= a /\ a <= c
        BY <3>2
      <4>2. f[n] = a + s[n] /\ n * lo = b + lo /\ n * hi = c + hi /\ b \in Nat /\ c \in Nat
        BY <3>3, <3>4, <3>5
      <4> HIDE DEF a, b, c
      <4> QED
        BY <3>3, <4>1, <4>2
    <3> QED
      BY <2>1, <3>6
  <2> QED
    BY <2>2, <2>3
<1>5. Good(Len(s))
  BY <1>2, <1>4
<1> QED
  BY <1>1, <1>5

\* What is between n * lo and n * hi is on average between lo and hi.
LEMMA DivBetween ==
  ASSUME NEW n \in Nat \ {0}, NEW S \in Nat, NEW lo \in Nat, NEW hi \in Nat,
         n * lo <= S, S <= n * hi
  PROVE  S \div n \in Nat /\ lo <= S \div n /\ S \div n <= hi
<1> DEFINE q == S \div n
<1>1. q \in Nat /\ n * q <= S /\ S < n * q + n
  <2>1. S = n * (S \div n) + (S % n) /\ S % n \in 0 .. (n - 1)
    OBVIOUS
  <2>2. S \div n \in Nat
    OBVIOUS
  <2> QED
    BY <2>1, <2>2
<1> HIDE DEF q
<1>2. lo <= q
  <2> SUFFICES ASSUME q + 1 <= lo PROVE FALSE
    BY <1>1
  <2>1. n * (q + 1) <= n * lo
    BY <1>1
  <2> QED
    BY <1>1, <2>1
<1>3. q <= hi
  <2> SUFFICES ASSUME hi + 1 <= q PROVE FALSE
    BY <1>1
  <2>1. n * (hi + 1) <= n * q
    BY <1>1
  <2> QED
    BY <1>1, <2>1
<1> QED
  BY <1>1, <1>2, <1>3 DEF q

-----------------------------------------------------------------------------
(***************************************************************************)
(* What the contract of std::sort says.                                    *)
(***************************************************************************)
At(s, x) == {j \in 1 .. Len(s) : s[j] = x}

LEMMA BijectionFacts ==
  ASSUME NEW S, NEW T, NEW f \in Bijection(S, T)
  PROVE  /\ f \in [S -> T]
         /\ \A a, b \in S : f[a] = f[b] => a = b
         /\ \A t \in T : \E a \in S : f[a] = t
BY DEF Bijection, Injection, Surjection, IsInjective

LEMMA IsBijection ==
  ASSUME NEW S, NEW T, NEW f \in [S -> T],
         \A a, b \in S : f[a] = f[b] => a = b,
         \A t \in T : \E a \in S : f[a] = t
  PROVE  ExistsBijection(S, T)
BY DEF ExistsBijection, Bijection, Injection, Surjection, IsInjective

\* Entry j of the sorted array comes from place p[j].
Rearranges(p, s, d) ==
    /\ p \in [1 .. Len(d) -> 1 .. Len(s)]
    /\ \A j, l \in 1 .. Len(d) : p[j] = p[l] => j = l
    /\ \A i \in 1 .. Len(s) : \E j \in 1 .. Len(d) : p[j] = i
    /\ \A j \in 1 .. Len(d) : s[p[j]] = d[j]

LEMMA SortRearranges ==
  ASSUME NEW s \in Seq(Uint32), NEW d, Sorts(s, d)
  PROVE  \E p : Rearranges(p, s, d)
<1> DEFINE B == [x \in Uint32 |-> CHOOSE f : f \in Bijection(At(d, x), At(s, x))]
           p == [j \in 1 .. Len(d) |-> B[d[j]][j]]
<1>1. d \in Seq(Uint32) /\ Len(d) \in Nat /\ Len(s) \in Nat
  BY DEF Sorts
<1>2. ASSUME NEW x \in Uint32 PROVE B[x] \in Bijection(At(d, x), At(s, x))
  <2>1. IsFiniteSet(At(d, x)) /\ IsFiniteSet(At(s, x))
    <3>1. IsFiniteSet(1 .. Len(d)) /\ IsFiniteSet(1 .. Len(s))
      BY <1>1, FS_Interval
    <3>2. At(d, x) \in SUBSET (1 .. Len(d)) /\ At(s, x) \in SUBSET (1 .. Len(s))
      BY DEF At
    <3> QED
      BY <3>1, <3>2, FS_Subset
  <2>2. Cardinality(At(d, x)) = Cardinality(At(s, x))
    BY <1>2 DEF Sorts, Count, At
  <2>3. ExistsBijection(At(d, x), At(s, x))
    BY <2>1, <2>2, FS_SameCardinalityBij
  <2>4. \E f : f \in Bijection(At(d, x), At(s, x))
    BY <2>3 DEF ExistsBijection
  <2> QED
    BY <2>4
<1> HIDE DEF B
<1>3. ASSUME NEW j \in 1 .. Len(d)
      PROVE  d[j] \in Uint32 /\ p[j] = B[d[j]][j] /\ p[j] \in At(s, d[j])
  <2>1. d[j] \in Uint32 /\ j \in At(d, d[j])
    BY <1>1 DEF At
  <2>2. B[d[j]] \in [At(d, d[j]) -> At(s, d[j])]
    BY <1>2, <2>1, BijectionFacts
  <2> QED
    BY <2>1, <2>2
<1>4. \A j \in 1 .. Len(d) : p[j] \in 1 .. Len(s) /\ s[p[j]] = d[j]
  BY <1>3 DEF At
<1>5. ASSUME NEW j \in 1 .. Len(d), NEW l \in 1 .. Len(d), p[j] = p[l] PROVE j = l
  <2>1. d[j] = d[l]
    BY <1>4, <1>5
  <2>2. j \in At(d, d[j]) /\ l \in At(d, d[j]) /\ B[d[j]][j] = B[d[j]][l] /\ d[j] \in Uint32
    BY <1>3, <1>5, <2>1 DEF At
  <2> QED
    BY <1>2, <2>2, BijectionFacts
<1>6. ASSUME NEW i \in 1 .. Len(s) PROVE \E j \in 1 .. Len(d) : p[j] = i
  <2>1. s[i] \in Uint32 /\ i \in At(s, s[i])
    BY DEF At
  <2>2. PICK j \in At(d, s[i]) : B[s[i]][j] = i
    BY <1>2, <2>1, BijectionFacts
  <2>3. j \in 1 .. Len(d) /\ d[j] = s[i]
    BY DEF At
  <2> QED
    BY <1>3, <2>2, <2>3
<1>7. p \in [1 .. Len(d) -> 1 .. Len(s)]
  BY <1>4
<1> HIDE DEF p
<1>8. Rearranges(p, s, d)
  BY <1>4, <1>5, <1>6, <1>7 DEF Rearranges
<1> QED
  BY <1>8

\* As many entries are longer than x in the sorted array as in the given one.
LEMMA SortLonger ==
  ASSUME NEW s \in Seq(Uint32), NEW d, Sorts(s, d), NEW x \in Int
  PROVE  Cardinality({j \in 1 .. Len(s) : s[j] > x}) = Cardinality({j \in 1 .. Len(d) : d[j] > x})
<1> DEFINE S == {j \in 1 .. Len(s) : s[j] > x}
           D == {j \in 1 .. Len(d) : d[j] > x}
<1>1. PICK p : Rearranges(p, s, d)
  BY SortRearranges
<1> DEFINE q == [j \in D |-> p[j]]
<1>2. q \in [D -> S]
  BY <1>1 DEF Rearranges
<1>3. \A a, b \in D : q[a] = q[b] => a = b
  BY <1>1 DEF Rearranges
<1>4. \A t \in S : \E a \in D : q[a] = t
  BY <1>1 DEF Rearranges
<1>5. IsFiniteSet(D)
  <2>1. Len(d) \in Nat
    BY DEF Sorts
  <2>2. IsFiniteSet(1 .. Len(d))
    BY <2>1, FS_Interval
  <2> QED
    BY <2>2, FS_Subset
<1> HIDE DEF S, D, q
<1>6. ExistsBijection(D, S)
  BY <1>2, <1>3, <1>4, IsBijection
<1>7. Cardinality(S) = Cardinality(D)
  BY <1>5, <1>6, FS_Bijection
<1> QED
  BY <1>7 DEF S, D

\* At most the entries after place k are longer than the one there.
LEMMA LongerThanEntry ==
  ASSUME NEW s \in Seq(Uint32), NEW d, Sorts(s, d), NEW k \in 1 .. Len(d)
  PROVE  /\ Cardinality({j \in 1 .. Len(s) : s[j] > d[k]}) \in Nat
         /\ Cardinality({j \in 1 .. Len(s) : s[j] > d[k]}) <= Len(s) - k
<1> DEFINE D == {j \in 1 .. Len(d) : d[j] > d[k]}
<1>1. /\ d \in Seq(Uint32) /\ Len(d) = Len(s) /\ Len(s) \in Nat
      /\ \A j, l \in 1 .. Len(d) : j <= l => d[j] <= d[l]
      /\ \A j \in 1 .. Len(d) : d[j] \in Int
  <2>1. /\ d \in Seq(Uint32) /\ Len(d) = Len(s) /\ Len(s) \in Nat
        /\ \A j, l \in 1 .. Len(d) : j <= l => d[j] <= d[l]
    BY DEF Sorts
  <2>2. \A j \in 1 .. Len(d) : d[j] \in Uint32
    BY <2>1
  <2>3. Uint32 \subseteq Int
    BY DEF Uint32
  <2> QED
    BY <2>1, <2>2, <2>3
<1>2. D \subseteq (k + 1) .. Len(d)
  <2> SUFFICES ASSUME NEW j \in 1 .. Len(d), d[j] > d[k] PROVE j \in (k + 1) .. Len(d)
    OBVIOUS
  <2>1. ~(j <= k)
    BY <1>1
  <2> QED
    BY <1>1, <2>1
<1> HIDE DEF D
<1>3. IsFiniteSet((k + 1) .. Len(d)) /\ Cardinality((k + 1) .. Len(d)) = Len(d) - k
  <2> DEFINE a == k + 1
  <2>1. a \in Int /\ Len(d) \in Int /\ a <= Len(d) + 1 /\ Len(d) - a + 1 = Len(d) - k
    BY <1>1
  <2> HIDE DEF a
  <2>2. IsFiniteSet(a .. Len(d)) /\ Cardinality(a .. Len(d)) = IF a > Len(d) THEN 0 ELSE Len(d) - a + 1
    BY <2>1, FS_Interval
  <2>3. Cardinality(a .. Len(d)) = Len(d) - a + 1
    BY <2>1, <2>2
  <2> QED
    BY <2>1, <2>2, <2>3 DEF a
<1>4. IsFiniteSet(D) /\ Cardinality(D) <= Len(d) - k
  BY <1>2, <1>3, FS_Subset
<1>5. Cardinality(D) \in Nat
  BY <1>4, FS_CardinalityType
<1>6. Cardinality({j \in 1 .. Len(s) : s[j] > d[k]}) = Cardinality(D)
  <2>1. d[k] \in Int
    BY <1>1
  <2> QED
    BY <2>1, SortLonger DEF D
<1> QED
  BY <1>1, <1>4, <1>5, <1>6

\* The first and the last entry are the shortest and the longest.
LEMMA SortExtremes ==
  ASSUME NEW s \in Seq(Uint32), NEW d, Sorts(s, d), NEW i \in 1 .. Len(s)
  PROVE  d[1] <= s[i] /\ s[i] <= d[Len(d)]
<1>1. PICK p : Rearranges(p, s, d)
  BY SortRearranges
<1>2. PICK j \in 1 .. Len(d) : p[j] = i
  BY <1>1 DEF Rearranges
<1>3. s[i] = d[j]
  BY <1>1, <1>2 DEF Rearranges
<1>4. Len(d) \in Nat /\ \A k, l \in 1 .. Len(d) : k <= l => d[k] <= d[l]
  BY DEF Sorts
<1> QED
  BY <1>2, <1>3, <1>4

-----------------------------------------------------------------------------
(***************************************************************************)
(* The inductive invariant: what is in the array, and what was computed.   *)
(***************************************************************************)
\* The array after its part was sorted in place.
Rearranged ==
    SubSeq(measured, 1, first) \o Sort(Samples)
    \o SubSeq(measured, first + num + 1, Len(measured))

AnalysisInv ==
    /\ measured \in Measured
    /\ pc \in {"call", "analyze", "flush", "report"}
    /\ pc # "report" => data = measured
    /\ pc # "call" => first \in Skips(measured) /\ num = Len(measured) - 2 * first
    /\ pc = "report" /\ thread_num = 1 =>
          data = Rearranged /\ \E run_time : result = Result(Samples, run_time)
    /\ pc = "report" /\ thread_num # 1 => data = measured

LEMMA AnalysisInit == Init => AnalysisInv
BY DEF Init, AnalysisInv

LEMMA EvaluateStep ==
  ASSUME AnalysisInv, pc \in {"analyze", "flush"}, NEW run_time, Evaluate(run_time),
         pc' = "report", UNCHANGED <<measured, thread_num, first, num>>
  PROVE  AnalysisInv'
<1>1. /\ data = measured /\ measured \in Measured
      /\ first \in Skips(measured) /\ num = Len(measured) - 2 * first
  BY DEF AnalysisInv
<1>2. Part = Samples /\ Samples' = Samples
  BY <1>1 DEF Part, Samples
<1>3. CASE thread_num = 1
  <2>1. data' = Rearranged /\ result' = Result(Samples, run_time)
    BY <1>1, <1>2, <1>3 DEF Evaluate, SortPart, Rearranged
  <2>2. Rearranged' = Rearranged
    BY <1>2 DEF Rearranged
  <2>3. \E r : result' = Result(Samples', r)
    BY <1>2, <2>1
  <2> QED
    BY <1>1, <1>3, <2>1, <2>2, <2>3 DEF AnalysisInv, Skips
<1>4. CASE thread_num # 1
  BY <1>1, <1>4 DEF AnalysisInv, Skips, Evaluate
<1> QED
  BY <1>3, <1>4

LEMMA AnalysisStep == AnalysisInv /\ [Next]_vars => AnalysisInv'
<1> SUFFICES ASSUME AnalysisInv, [Next]_vars PROVE AnalysisInv'
  OBVIOUS
<1>1. CASE AnalyzeCall
  <2>1. /\ data = measured /\ data' = data /\ measured' = measured /\ measured \in Measured
        /\ pc' \in {"analyze", "flush"}
    BY <1>1 DEF AnalyzeCall, AnalysisInv
  <2>2. first' \in Skips(measured) /\ num' = Len(measured) - 2 * first'
    <3>1. Len(measured) \in Nat
      BY <2>1, AnalysisAssumption
    <3>2. CASE first' = 0 /\ num' = Len(data)
      BY <2>1, <3>1, <3>2 DEF Skips
    <3>3. CASE Len(data) > 5 * SKIP /\ first' = SKIP /\ num' = Len(data) - 2 * SKIP
      BY <2>1, <3>3 DEF Skips
    <3> QED
      BY <1>1, <3>2, <3>3 DEF AnalyzeCall
  <2> QED
    BY <2>1, <2>2 DEF AnalysisInv, Skips
<1>2. CASE Analyze
  BY <1>2, EvaluateStep DEF Analyze
<1>3. CASE AnalyzeForCachelineFlush
  BY <1>3, EvaluateStep DEF AnalyzeForCachelineFlush
<1>4. CASE Reported \/ UNCHANGED vars
  BY <1>4 DEF Reported, vars, AnalysisInv, Rearranged, Samples
<1> QED
  BY <1>1, <1>2, <1>3, <1>4 DEF Next

\* The part analysed is never empty, and std::sort's contract is about it.
LEMMA PartFacts ==
  ASSUME AnalysisInv, pc # "call"
  PROVE  /\ measured \in Seq(Uint32) /\ Len(measured) \in Nat
         /\ first \in Nat /\ num \in Nat \ {0} /\ 2 * first + num = Len(measured)
         /\ Samples \in Seq(Uint32) /\ Len(Samples) = num
         /\ \A j \in 1 .. num : Samples[j] = measured[first + j]
         /\ Sorts(Samples, Sort(Samples))
<1>1. measured \in Measured /\ first \in Skips(measured) /\ num = Len(measured) - 2 * first
  BY DEF AnalysisInv
<1>2. measured \in Seq(Uint32) /\ measured # <<>>
  BY <1>1, AnalysisAssumption DEF Uint32
<1>3. Len(measured) \in Nat \ {0}
  BY <1>2
<1>4. first \in Nat /\ num \in Nat \ {0} /\ 2 * first + num = Len(measured)
  BY <1>1, <1>3, AnalysisAssumption DEF Skips
<1>5. first + num = Len(measured) - first /\ first + num - (first + 1) + 1 = num
  BY <1>3, <1>4
<1>6. \A i \in (first + 1) .. (first + num) : measured[i] \in Uint32
  BY <1>2, <1>3, <1>4
<1>7. /\ Samples \in Seq(Uint32) /\ Len(Samples) = num
      /\ \A j \in 1 .. num : Samples[j] = measured[first + j]
  <2> DEFINE a == first + 1
             b == first + num
  <2>1. a \in Int /\ b \in Int /\ a <= b /\ b - a + 1 = num
    BY <1>4
  <2>2. \A j \in 1 .. num : a + j - 1 = first + j
    BY <1>4
  <2>3. Samples = SubSeq(measured, a, b) /\ \A i \in a .. b : measured[i] \in Uint32
    BY <1>6 DEF Samples
  <2> HIDE DEF a, b
  <2>4. /\ SubSeq(measured, a, b) \in Seq(Uint32)
        /\ Len(SubSeq(measured, a, b)) = IF a <= b THEN b - a + 1 ELSE 0
        /\ \A j \in 1 .. b - a + 1 : SubSeq(measured, a, b)[j] = measured[a + j - 1]
    BY <2>1, <2>3, SubSeqProperties
  <2> QED
    BY <2>1, <2>2, <2>3, <2>4
<1>8. Sorts(Samples, Sort(Samples))
  BY <1>1, <1>5, SortAssumption DEF Samples
<1> QED
  BY <1>2, <1>3, <1>4, <1>7, <1>8

\* The inductive invariant holds for arrays of any length.
LEMMA AnalysisInvariant == Spec => []AnalysisInv
BY AnalysisInit, AnalysisStep, PTL DEF Spec

-----------------------------------------------------------------------------
\* The average latency that Analyze derives from the sum lies between the
\* shortest and the longest duration, for arrays of any length: sum_time has
\* 64 bits and only the quotient is cut to 32.
THEOREM AverageCorrect == Spec => []AverageBetween
<1>1. AnalysisInv => AverageBetween
  <2> SUFFICES ASSUME AnalysisInv, pc = "report", thread_num = 1
               PROVE  /\ result.min_lat <= result.avg_lat_from_cal
                      /\ result.avg_lat_from_cal <= result.max_lat
    BY DEF AverageBetween
  <2> DEFINE s == Samples
             d == Sort(Samples)
             q == Sum(Samples) \div Len(Samples)
  <2>1. /\ s \in Seq(Uint32) /\ Len(s) = num /\ num \in Nat \ {0} /\ Sorts(s, d)
    BY PartFacts
  <2>2. /\ result.min_lat = d[1] /\ result.max_lat = d[num]
        /\ result.avg_lat_from_cal = U32(q)
    BY <2>1 DEF AnalysisInv, Result
  <2> HIDE DEF s, d
  <2>3. d \in Seq(Uint32) /\ Len(d) = num
    BY <2>1 DEF Sorts
  <2>4. d[1] \in Uint32 /\ d[num] \in Uint32
    BY <2>1, <2>3
  <2>5. \A j \in 1 .. Len(s) : d[1] <= s[j] /\ s[j] <= d[num]
    BY <2>1, <2>3, SortExtremes
  <2>6. Uint32 \subseteq Nat
    BY DEF Uint32
  <2>7. s \in Seq(Nat) /\ d[1] \in Nat /\ d[num] \in Nat
    <3>1. s \in Seq(Nat)
      BY <2>1, <2>6, SeqMonotonic
    <3> QED
      BY <2>4, <2>6, <3>1
  <2>8. Sum(s) \in Nat /\ Len(s) * d[1] <= Sum(s) /\ Sum(s) <= Len(s) * d[num]
    BY <2>5, <2>7, SumBounds
  <2>9. q \in Nat /\ d[1] <= q /\ q <= d[num]
    BY <2>1, <2>7, <2>8, DivBetween DEF s
  <2> HIDE DEF q
  <2>10. U32(q) = q
    <3>1. q \in 0 .. (UINT32 - 1) /\ UINT32 \in Nat \ {0}
      BY <2>4, <2>7, <2>9, AnalysisAssumption DEF Uint32
    <3> QED
      BY <3>1 DEF U32
  <2> QED
    BY <2>2, <2>9, <2>10
<1> QED
  BY <1>1, AnalysisInvariant, PTL

\* How many of the first n entries are longer than x.
LongerIn(s, n, x) == Cardinality({j \in 1 .. n : s[j] > x})

\* One percentile: place part / whole of the way through the sorted part.
LEMMA PercentileAt ==
  ASSUME NEW s \in Seq(Uint32), NEW d, Sorts(s, d), NEW n \in Nat \ {0}, Len(s) = n,
         NEW k \in 1 .. n, NEW r \in Nat, 100000 * (n - k) <= n * r
  PROVE  LongerIn(s, n, d[k]) * 100000 <= n * r
<1>1. Len(d) = n
  BY DEF Sorts
<1> DEFINE c == LongerIn(s, n, d[k])
<1>2. c \in Nat /\ c <= n - k
  BY <1>1, LongerThanEntry DEF LongerIn
<1> HIDE DEF c
<1>3. c * 100000 <= 100000 * (n - k)
  BY <1>2
<1>4. n * r \in Int
  OBVIOUS
<1> QED
  BY <1>2, <1>3, <1>4 DEF c

\* The places of the percentiles: all in the array, in order, and at the right
\* distance from its end.
LEMMA Places ==
  ASSUME NEW n \in Nat \ {0}
  PROVE  /\ Index(n, 1, 2) + 1 \in 1 .. n
         /\ Index(n, 99, 100) + 1 \in 1 .. n
         /\ Index(n, 999, 1000) + 1 \in 1 .. n
         /\ Index(n, 9999, 10000) + 1 \in 1 .. n
         /\ Index(n, 99999, 100000) + 1 \in 1 .. n
         /\ Index(n, 1, 2) <= Index(n, 99, 100)
         /\ Index(n, 99, 100) <= Index(n, 999, 1000)
         /\ Index(n, 999, 1000) <= Index(n, 9999, 10000)
         /\ Index(n, 9999, 10000) <= Index(n, 99999, 100000)
         /\ 100000 * (n - (Index(n, 1, 2) + 1)) <= n * 50000
         /\ 100000 * (n - (Index(n, 99, 100) + 1)) <= n * 1000
         /\ 100000 * (n - (Index(n, 999, 1000) + 1)) <= n * 100
         /\ 100000 * (n - (Index(n, 9999, 10000) + 1)) <= n * 10
         /\ 100000 * (n - (Index(n, 99999, 100000) + 1)) <= n * 1
BY DEF Index

\* The percentiles that ReportSubOp prints are percentiles of what was
\* measured, for arrays of any length down to one entry, whole or without
\* their ends.
THEOREM PercentilesCorrect == Spec => []PercentilesRight
<1>1. AnalysisInv => PercentilesRight
  <2> SUFFICES ASSUME AnalysisInv, pc = "report", thread_num = 1 PROVE PercentilesRight
    BY DEF PercentilesRight
  <2> DEFINE s == Samples
             d == Sort(Samples)
             n == num
             i50 == Index(n, 1, 2) + 1
             i99 == Index(n, 99, 100) + 1
             i99_9 == Index(n, 999, 1000) + 1
             i99_99 == Index(n, 9999, 10000) + 1
             i99_999 == Index(n, 99999, 100000) + 1
  <2>1. s \in Seq(Uint32) /\ Len(s) = n /\ n \in Nat \ {0} /\ Sorts(s, d)
    BY PartFacts
  <2>2. /\ result.min_lat = d[1] /\ result.max_lat = d[n]
        /\ result.p50 = d[i50] /\ result.p99 = d[i99] /\ result.p99_9 = d[i99_9]
        /\ result.p99_99 = d[i99_99] /\ result.p99_999 = d[i99_999]
    <3>1. PICK t : result = Result(s, t)
      BY DEF AnalysisInv
    <3> QED
      BY <2>1, <3>1 DEF Result
  <2>3. \A x : Longer(x) = LongerIn(s, n, x)
    BY DEF Longer, LongerIn
  <2>4. /\ {i50, i99, i99_9, i99_99, i99_999} \subseteq 1 .. n
        /\ i50 <= i99 /\ i99 <= i99_9 /\ i99_9 <= i99_99 /\ i99_99 <= i99_999
        /\ 100000 * (n - i50) <= n * 50000
        /\ 100000 * (n - i99) <= n * 1000
        /\ 100000 * (n - i99_9) <= n * 100
        /\ 100000 * (n - i99_99) <= n * 10
        /\ 100000 * (n - i99_999) <= n * 1
    BY <2>1, Places DEF Index
  <2> HIDE DEF s, d, n, i50, i99, i99_9, i99_99, i99_999
  <2>5. Len(d) = n /\ \A j, l \in 1 .. n : j <= l => d[j] <= d[l]
    BY <2>1 DEF Sorts
  <2>6. /\ Longer(result.p50) * 100000 <= n * 50000
        /\ Longer(result.p99) * 100000 <= n * 1000
        /\ Longer(result.p99_9) * 100000 <= n * 100
        /\ Longer(result.p99_99) * 100000 <= n * 10
        /\ Longer(result.p99_999) * 100000 <= n * 1
    <3>1. ASSUME NEW k \in 1 .. n, NEW r \in Nat, 100000 * (n - k) <= n * r
          PROVE  Longer(d[k]) * 100000 <= n * r
      <4>1. LongerIn(s, n, d[k]) * 100000 <= n * r
        BY <2>1, <3>1, PercentileAt
      <4> QED
        BY <2>3, <4>1
    <3>2. i50 \in 1 .. n /\ i99 \in 1 .. n /\ i99_9 \in 1 .. n /\ i99_99 \in 1 .. n /\ i99_999 \in 1 .. n
      BY <2>4
    <3>3. Longer(d[i50]) * 100000 <= n * 50000
      BY <2>4, <3>1, <3>2
    <3>4. Longer(d[i99]) * 100000 <= n * 1000
      BY <2>4, <3>1, <3>2
    <3>5. Longer(d[i99_9]) * 100000 <= n * 100
      BY <2>4, <3>1, <3>2
    <3>6. Longer(d[i99_99]) * 100000 <= n * 10
      BY <2>4, <3>1, <3>2
    <3>7. Longer(d[i99_999]) * 100000 <= n * 1
      BY <2>4, <3>1, <3>2
    <3> QED
      BY <2>2, <3>3, <3>4, <3>5, <3>6, <3>7
  <2>7. Longer(result.max_lat) = 0
    <3>1. n \in 1 .. Len(d) /\ Len(s) - n = 0
      BY <2>1, <2>5
    <3>2. Longer(d[n]) \in Nat /\ Longer(d[n]) <= 0
      BY <2>1, <2>3, <3>1, LongerThanEntry DEF LongerIn
    <3> QED
      BY <2>2, <3>2
  <2>8. \A j \in 1 .. n : s[j] >= result.min_lat
    <3>1. \A j \in 1 .. n : s[j] \in Uint32 /\ d[1] \in Uint32 /\ d[1] <= s[j]
      BY <2>1, <2>5, SortExtremes DEF Sorts
    <3> QED
      BY <2>2, <3>1 DEF Uint32
  <2>9. /\ result.min_lat <= result.p50 /\ result.p50 <= result.p99
        /\ result.p99 <= result.p99_9 /\ result.p99_9 <= result.p99_99
        /\ result.p99_99 <= result.p99_999 /\ result.p99_999 <= result.max_lat
    BY <2>1, <2>2, <2>4, <2>5
  <2> QED
    BY <2>6, <2>7, <2>8, <2>9 DEF PercentilesRight, n, s
<1> QED
  BY <1>1, AnalysisInvariant, PTL

\* A rearranged array holds each value as often as the given one.
LEMMA RearrangedCount ==
  ASSUME NEW s, NEW d, NEW p, Rearranges(p, s, d), Len(d) \in Nat, NEW x
  PROVE  Count(d, x) = Count(s, x)
<1> DEFINE q == [j \in At(d, x) |-> p[j]]
<1>1. q \in [At(d, x) -> At(s, x)]
  BY DEF Rearranges, At
<1>2. \A a, b \in At(d, x) : q[a] = q[b] => a = b
  BY DEF Rearranges, At
<1>3. \A t \in At(s, x) : \E a \in At(d, x) : q[a] = t
  BY DEF Rearranges, At
<1>4. IsFiniteSet(At(d, x))
  <2>1. IsFiniteSet(1 .. Len(d))
    BY FS_Interval
  <2>2. At(d, x) \in SUBSET (1 .. Len(d))
    BY DEF At
  <2> QED
    BY <2>1, <2>2, FS_Subset
<1> HIDE DEF q
<1>5. ExistsBijection(At(d, x), At(s, x))
  BY <1>1, <1>2, <1>3, IsBijection
<1>6. Cardinality(At(s, x)) = Cardinality(At(d, x))
  BY <1>4, <1>5, FS_Bijection
<1> QED
  BY <1>6 DEF Count, At

\* The array after the sort, entry by entry.
LEMMA RearrangedEntries ==
  ASSUME AnalysisInv, pc # "call"
  PROVE  /\ Len(Rearranged) = Len(measured)
         /\ \A j \in 1 .. Len(measured) :
               Rearranged[j] = IF j \in (first + 1) .. (first + num)
                               THEN Sort(Samples)[j - first] ELSE measured[j]
<1> DEFINE N == Len(measured)
           d == Sort(Samples)
           a == SubSeq(measured, 1, first)
           c == SubSeq(measured, first + num + 1, N)
<1>1. /\ measured \in Seq(Uint32) /\ N \in Nat /\ first \in Nat /\ num \in Nat
      /\ 2 * first + num = N
      /\ d \in Seq(Uint32) /\ Len(d) = num
  BY PartFacts DEF Sorts
<1>2. a \in Seq(Uint32) /\ Len(a) = first /\ \A j \in 1 .. first : a[j] = measured[j]
  <2>1. \A i \in 1 .. first : measured[i] \in Uint32
    BY <1>1
  <2>2. /\ a \in Seq(Uint32) /\ Len(a) = IF 1 <= first THEN first - 1 + 1 ELSE 0
        /\ \A i \in 1 .. first - 1 + 1 : a[i] = measured[1 + i - 1]
    BY <1>1, <2>1, SubSeqProperties
  <2> HIDE DEF a
  <2> QED
    BY <1>1, <2>2
<1>3. c \in Seq(Uint32) /\ Len(c) = first /\ \A j \in 1 .. first : c[j] = measured[first + num + j]
  <2> DEFINE lo == first + num + 1
  <2>1. lo \in Int /\ N \in Int /\ N - lo + 1 = first /\ (lo <= N <=> first # 0)
        /\ \A j \in 1 .. first : lo + j - 1 = first + num + j
    BY <1>1
  <2>2. \A i \in lo .. N : measured[i] \in Uint32
    BY <1>1
  <2>3. c = SubSeq(measured, lo, N)
    OBVIOUS
  <2> HIDE DEF lo, N, c
  <2>4. /\ SubSeq(measured, lo, N) \in Seq(Uint32)
        /\ Len(SubSeq(measured, lo, N)) = IF lo <= N THEN N - lo + 1 ELSE 0
        /\ \A i \in 1 .. N - lo + 1 : SubSeq(measured, lo, N)[i] = measured[lo + i - 1]
    BY <2>1, <2>2, SubSeqProperties
  <2> QED
    BY <1>1, <2>1, <2>3, <2>4
<1>4. Rearranged = (a \o d) \o c
  BY DEF Rearranged
<1> HIDE DEF N, d, a, c
<1>5. /\ a \o d \in Seq(Uint32) /\ Len(a \o d) = first + num
      /\ \A i \in 1 .. first + num : (a \o d)[i] = IF i <= first THEN a[i] ELSE d[i - first]
  BY <1>1, <1>2, ConcatProperties
<1> DEFINE ad == a \o d
<1>6. ad \in Seq(Uint32) /\ Len(ad) = first + num
  BY <1>5
<1> HIDE DEF ad
<1>7. /\ Len(ad \o c) = first + num + first
      /\ \A i \in 1 .. first + num + first :
            (ad \o c)[i] = IF i <= first + num THEN ad[i] ELSE c[i - (first + num)]
  <2>1. /\ Len(ad \o c) = Len(ad) + Len(c)
        /\ \A i \in 1 .. Len(ad) + Len(c) : (ad \o c)[i] = IF i <= Len(ad) THEN ad[i] ELSE c[i - Len(ad)]
    BY <1>3, <1>6, ConcatProperties
  <2> QED
    BY <1>1, <1>3, <1>6, <2>1
<1>8. Len(Rearranged) = N
  BY <1>1, <1>4, <1>7 DEF ad
<1>9. ASSUME NEW j \in 1 .. N
      PROVE  Rearranged[j] = IF j \in (first + 1) .. (first + num) THEN d[j - first] ELSE measured[j]
  <2>1. j \in 1 .. first + num + first
    BY <1>1
  <2>2. Rearranged[j] = IF j <= first + num THEN ad[j] ELSE c[j - (first + num)]
    BY <1>4, <1>7, <2>1 DEF ad
  <2>3. CASE j > first + num
    <3>1. j - (first + num) \in 1 .. first /\ first + num + (j - (first + num)) = j
      BY <1>1, <2>1, <2>3
    <3>2. c[j - (first + num)] = measured[j]
      BY <1>3, <3>1
    <3> QED
      BY <1>1, <2>2, <2>3, <3>2
  <2>4. CASE j <= first + num
    <3>1. ad[j] = IF j <= first THEN a[j] ELSE d[j - first]
      BY <1>1, <1>5, <2>1, <2>4 DEF ad
    <3> QED
      BY <1>1, <1>2, <2>2, <2>4, <3>1
  <2> QED
    BY <1>1, <2>3, <2>4
<1> QED
  BY <1>8, <1>9 DEF N, d

\* Sorting in place moves the samples of the mapped data file and loses none,
\* the ones at the ends included that the cache-line variant leaves out.
THEOREM SamplesKeptCorrect == Spec => []SamplesKept
<1>1. AnalysisInv => SamplesKept
  <2> SUFFICES ASSUME AnalysisInv, NEW x PROVE Count(data, x) = Count(measured, x)
    BY DEF SamplesKept
  <2>1. CASE data = measured
    BY <2>1
  <2>2. CASE data # measured
    <3> DEFINE s == Samples
               d == Sort(Samples)
               N == Len(measured)
    <3>1. pc # "call" /\ data = Rearranged
      BY <2>2 DEF AnalysisInv
    <3>2. /\ N \in Nat /\ first \in Nat /\ num \in Nat \ {0} /\ 2 * first + num = N
          /\ s \in Seq(Uint32) /\ Len(s) = num
          /\ \A j \in 1 .. num : s[j] = measured[first + j]
          /\ Sorts(s, d) /\ Len(d) = num
      BY <3>1, PartFacts DEF Sorts
    <3>3. /\ Len(data) = N
          /\ \A j \in 1 .. N : data[j] = IF j \in (first + 1) .. (first + num)
                                         THEN d[j - first] ELSE measured[j]
      BY <3>1, RearrangedEntries
    <3> HIDE DEF s, d, N
    <3>4. PICK p : Rearranges(p, s, d)
      BY <3>2, SortRearranges
    <3>5. /\ \A j \in 1 .. num : p[j] \in 1 .. num /\ s[p[j]] = d[j]
          /\ \A j, l \in 1 .. num : p[j] = p[l] => j = l
          /\ \A i \in 1 .. num : \E j \in 1 .. num : p[j] = i
      BY <3>2, <3>4 DEF Rearranges
    <3> DEFINE Mid == (first + 1) .. (first + num)
               r == [j \in 1 .. N |-> IF j \in Mid THEN first + p[j - first] ELSE j]
    <3>6. ASSUME NEW j \in Mid
          PROVE  /\ j \in 1 .. N /\ j - first \in 1 .. num /\ p[j - first] \in 1 .. num
                 /\ r[j] = first + p[j - first] /\ r[j] \in Mid
      <4>1. j \in 1 .. N /\ j - first \in 1 .. num
        BY <3>2
      <4>2. p[j - first] \in 1 .. num
        BY <3>5, <4>1
      <4>3. first + p[j - first] \in Mid
        BY <3>2, <4>2
      <4> QED
        BY <4>1, <4>2, <4>3
    <3>7. \A j \in 1 .. N : j \notin Mid => r[j] = j
      OBVIOUS
    <3>8. Mid \subseteq 1 .. N
      BY <3>6
    <3>9. \A j \in 1 .. N : r[j] \in 1 .. N /\ (r[j] \in Mid <=> j \in Mid)
      BY <3>6, <3>7, <3>8
    <3>10. r \in [1 .. N -> 1 .. N]
      BY <3>9
    <3> HIDE DEF r
    <3>11. ASSUME NEW j \in 1 .. N, NEW l \in 1 .. N, r[j] = r[l] PROVE j = l
      <4>1. CASE j \in Mid
        <5>1. l \in Mid
          BY <3>9, <3>11, <4>1
        <5>2. p[j - first] = p[l - first]
          BY <3>2, <3>6, <3>11, <4>1, <5>1
        <5>3. j - first = l - first
          BY <3>5, <3>6, <4>1, <5>1, <5>2
        <5> QED
          BY <3>2, <5>3
      <4>2. CASE j \notin Mid
        <5>1. l \notin Mid
          BY <3>9, <3>11, <4>2
        <5> QED
          BY <3>7, <3>11, <4>2, <5>1
      <4> QED
        BY <4>1, <4>2
    <3>12. ASSUME NEW i \in 1 .. N PROVE \E j \in 1 .. N : r[j] = i
      <4>1. CASE i \in Mid
        <5>1. i - first \in 1 .. num
          BY <3>2, <4>1
        <5>2. PICK k \in 1 .. num : p[k] = i - first
          BY <3>5, <5>1
        <5>3. first + k \in Mid /\ (first + k) - first = k
          BY <3>2
        <5>4. r[first + k] = first + p[k] /\ first + k \in 1 .. N
          BY <3>6, <5>3
        <5>5. r[first + k] = i
          BY <3>2, <5>2, <5>4
        <5> QED
          BY <5>4, <5>5
      <4>2. CASE i \notin Mid
        BY <3>7, <4>2
      <4> QED
        BY <4>1, <4>2
    <3>13. ASSUME NEW j \in 1 .. N PROVE measured[r[j]] = data[j]
      <4>1. CASE j \in Mid
        <5>1. /\ j - first \in 1 .. num /\ p[j - first] \in 1 .. num
              /\ r[j] = first + p[j - first]
          BY <3>6, <4>1
        <5>2. measured[r[j]] = s[p[j - first]] /\ s[p[j - first]] = d[j - first]
          <6>1. s[p[j - first]] = d[j - first]
            BY <3>5, <5>1
          <6>2. \A k \in 1 .. num : s[k] = measured[first + k]
            BY <3>2
          <6> QED
            BY <5>1, <6>1, <6>2
        <5> QED
          BY <3>3, <4>1, <5>2
      <4>2. CASE j \notin Mid
        BY <3>3, <3>7, <4>2
      <4> QED
        BY <4>1, <4>2
    <3>14. Rearranges(r, measured, data)
      BY <3>3, <3>10, <3>11, <3>12, <3>13 DEF Rearranges, N
    <3> QED
      BY <3>2, <3>3, <3>14, RearrangedCount
  <2> QED
    BY <2>1, <2>2
<1> QED
  BY <1>1, AnalysisInvariant, PTL
=============================================================================
