------------------------------ MODULE Analysis ------------------------------
(***************************************************************************)
(* Analyze and AnalyzeForCachelineFlush of bgtest/AEP/aep_study.cc: the    *)
(* totals, averages and percentiles of one thread's measured durations.    *)
(* bandwidth is a floating-point number nobody computes with and is left   *)
(* out.                                                                    *)
(***************************************************************************)
EXTENDS Integers, Sequences, FiniteSets

CONSTANTS
    Measured,       \* the data_ arrays considered
    RunTimes,       \* end - start of the sub_op
    ThreadNums,
    SKIP,           \* 1000000, left out at each end by the cache-line variant
    UINT32,         \* 2^32
    Sort(_)         \* std::sort; its contract is all that is known of it

ASSUME AnalysisAssumption ==
    /\ \A m \in Measured : m # <<>> /\ m \in Seq(0 .. (UINT32 - 1))
    /\ RunTimes \subseteq Nat /\ ThreadNums \subseteq Nat \ {0}
    /\ SKIP \in Nat /\ UINT32 \in Nat \ {0}

Uint32 == 0 .. (UINT32 - 1)

\* The parts of an array that are analysed.
Skips(m) == {0} \cup (IF Len(m) > 5 * SKIP THEN {SKIP} ELSE {})

Count(s, x) == Cardinality({j \in 1 .. Len(s) : s[j] = x})

\* std::sort puts the same entries into ascending order.
Sorts(s, d) ==
    /\ d \in Seq(Uint32) /\ Len(d) = Len(s)
    /\ \A j, l \in 1 .. Len(d) : j <= l => d[j] <= d[l]
    /\ \A x \in Uint32 : Count(d, x) = Count(s, x)

ASSUME SortAssumption ==
    \A m \in Measured : \A k \in Skips(m) :
        LET s == SubSeq(m, k + 1, Len(m) - k) IN Sorts(s, Sort(s))

VARIABLES
    pc,
    measured,       \* history: data_ as the worker left it
    data, run_total_time, thread_num,
    first, num,     \* the part analysed: data[first .. first + num - 1]
    result

vars == <<pc, measured, data, run_total_time, thread_num, first, num, result>>

\* for (...) sum_time += data[i]; a sum of 2^32 32-bit numbers fits 64 bits.
Sum(s) == LET sum_time[j \in 0 .. Len(s)] == IF j = 0 THEN 0 ELSE sum_time[j - 1] + s[j]
          IN  sum_time[Len(s)]

U32(x) == x % UINT32

\* (uint64_t)((double)n * 0.99) and the like: for a 32-bit n the rounding of
\* the constant and of the product never moves the result to another integer.
Index(n, part, whole) == (n * part) \div whole

Zero == [total_time |-> 0, total_cal |-> 0, avg_lat |-> 0, avg_lat_from_cal |-> 0,
         min_lat |-> 0, max_lat |-> 0, p50 |-> 0, p99 |-> 0, p99_9 |-> 0, p99_99 |-> 0,
         p99_999 |-> 0]

\* Mutants: the average is taken of the 32-bit total; p99 is one percent lower
\* than it should be.
ResultAvgOfTotal(s, total_time) ==
    LET n == Len(s)
        d == Sort(s)
        entry(part, whole) == d[Index(n, part, whole) + 1]
    IN  [total_time |-> U32(total_time), total_cal |-> U32(Sum(s)),
         avg_lat |-> U32(total_time \div n), avg_lat_from_cal |-> U32(Sum(s)) \div n,
         min_lat |-> d[1], max_lat |-> d[n], p50 |-> entry(1, 2), p99 |-> entry(99, 100),
         p99_9 |-> entry(999, 1000), p99_99 |-> entry(9999, 10000),
         p99_999 |-> entry(99999, 100000)]

ResultLower(s, total_time) ==
    LET n == Len(s)
        d == Sort(s)
        entry(part, whole) == d[Index(n, part, whole) + 1]
    IN  [total_time |-> U32(total_time), total_cal |-> U32(Sum(s)),
         avg_lat |-> U32(total_time \div n), avg_lat_from_cal |-> U32(Sum(s) \div n),
         min_lat |-> d[1], max_lat |-> d[n], p50 |-> entry(1, 2), p99 |-> entry(98, 100),
         p99_9 |-> entry(999, 1000), p99_99 |-> entry(9999, 10000),
         p99_999 |-> entry(99999, 100000)]

\* The fields that the single-threaded branch fills; s is the part analysed.
Result(s, total_time) ==
    LET n == Len(s)
        d == Sort(s)
        entry(part, whole) == d[Index(n, part, whole) + 1]
    IN  [total_time |-> U32(total_time), total_cal |-> U32(Sum(s)),
         avg_lat |-> U32(total_time \div n), avg_lat_from_cal |-> U32(Sum(s) \div n),
         min_lat |-> d[1], max_lat |-> d[n], p50 |-> entry(1, 2), p99 |-> entry(99, 100),
         p99_9 |-> entry(999, 1000), p99_99 |-> entry(9999, 10000),
         p99_999 |-> entry(99999, 100000)]

Totals(s, total_time) == [Zero EXCEPT !.total_time = U32(total_time), !.total_cal = U32(Sum(s))]

Part == SubSeq(data, first + 1, first + num)

\* Mutant: the tail of the array is dropped when the part is sorted.
SortPartShort == data' = SubSeq(data, 1, first) \o Sort(Part)

\* sort(data, data + num), in place
SortPart == data' = SubSeq(data, 1, first) \o Sort(Part)
                    \o SubSeq(data, first + num + 1, Len(data))

\* What both functions do with their part of the array.
Evaluate(run_time) ==
    IF thread_num = 1
    THEN SortPart /\ result' = Result(Part, run_time)
    ELSE UNCHANGED data /\ result' = Totals(Part, run_time)

Analyze ==
    /\ pc = "analyze"
    /\ Evaluate(run_total_time)
    /\ pc' = "report"
    /\ UNCHANGED <<measured, run_total_time, thread_num, first, num>>

\* total_time and avg_lat stay 0.
AnalyzeForCachelineFlush ==
    /\ pc = "flush"
    /\ Evaluate(0)
    /\ pc' = "report"
    /\ UNCHANGED <<measured, run_total_time, thread_num, first, num>>

\* The call: the whole array, or the array without SKIP entries at each end
\* after log_assert(iters > 5000000).
AnalyzeCall ==
    /\ pc = "call"
    /\ \/ first' = 0 /\ num' = Len(data) /\ pc' = "analyze"
       \/ Len(data) > 5 * SKIP /\ first' = SKIP /\ num' = Len(data) - 2 * SKIP /\ pc' = "flush"
    /\ UNCHANGED <<measured, data, run_total_time, thread_num, result>>

Reported == pc = "report" /\ UNCHANGED vars

Init ==
    /\ pc = "call"
    /\ measured \in Measured /\ data = measured
    /\ run_total_time \in RunTimes /\ thread_num \in ThreadNums
    /\ first = 0 /\ num = 0
    /\ result = Zero

Next == AnalyzeCall \/ Analyze \/ AnalyzeForCachelineFlush \/ Reported

Spec == Init /\ [][Next]_vars

-----------------------------------------------------------------------------
Samples == SubSeq(measured, first + 1, first + num)

Longer(x) == Cardinality({j \in 1 .. num : Samples[j] > x})

\* What ReportSubOp prints are percentiles: at most that share of the samples
\* took longer, each is a sample, and they are in order, for every number of
\* samples down to one.
PercentilesRight ==
    pc = "report" /\ thread_num = 1 =>
        /\ \A q \in {<<result.p50, 50000>>, <<result.p99, 99000>>, <<result.p99_9, 99900>>,
                     <<result.p99_99, 99990>>, <<result.p99_999, 99999>>} :
              Longer(q[1]) * 100000 <= num * (100000 - q[2])
        /\ Longer(result.max_lat) = 0
        /\ \A j \in 1 .. num : Samples[j] >= result.min_lat
        /\ result.min_lat <= result.p50 /\ result.p50 <= result.p99
        /\ result.p99 <= result.p99_9 /\ result.p99_9 <= result.p99_99
        /\ result.p99_99 <= result.p99_999 /\ result.p99_999 <= result.max_lat

\* The average latency lies between the shortest and the longest, also when
\* the sum no longer fits total_cal.
AverageBetween ==
    pc = "report" /\ thread_num = 1 =>
        result.min_lat <= result.avg_lat_from_cal /\ result.avg_lat_from_cal <= result.max_lat

\* Analysing reorders the samples in the mapped data file and loses none.
SamplesKept ==
    \A x \in {measured[j] : j \in 1 .. Len(measured)} : Count(data, x) = Count(measured, x)

\* The comment at total_cal: the summed time in ns.
TotalInNs == pc = "report" => result.total_cal = Sum(Samples)
=============================================================================
