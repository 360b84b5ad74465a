----------------------------- MODULE MCAnalysis -----------------------------
(***************************************************************************)
(* All arrays of up to four durations, and longer ones around the sizes    *)
(* where a percentile moves to another entry.                              *)
(***************************************************************************)
EXTENDS Analysis, TLC

Durations == {1, 90, 255}

Short == UNION {[1 .. n -> Durations] : n \in 1 .. 4}

\* A permutation of 1 .. n, far from sorted.
Long(n) == [j \in 1 .. n |-> 1 + ((13 * j) % n)]

SomeMeasured == Short \cup {Long(n) : n \in {5, 6, 49, 50, 51, 99, 100, 101, 199, 200, 201}}

\* In ascending order.
SortUp(s) == SortSeq(s, LAMBDA x, y : x < y)

SomeRunTimes == {50, 700}
OneAndTwo == {1, 2}
=============================================================================
