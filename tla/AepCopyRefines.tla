--------------------------- MODULE AepCopyRefines ---------------------------
(***************************************************************************)
(* AepCopy implements DurableWrite: the media is pm, readers see mem, and  *)
(* a thread runs a call while its pc is not idle.                          *)
(***************************************************************************)
EXTENDS AepCopyInv

Running == [t \in Thread |-> IF pc[t] = "idle" THEN {} ELSE {req[t]}]

\* An operation without an sfence of its own makes nothing durable.
SavedRange(r) == IF r.op.then = "nothing" THEN {} ELSE WriteRange(r)

Abs == INSTANCE DurableWrite
          WITH Calls <- Requests, Target <- WriteRange, Saved <- SavedRange,
               Value <- New, Blank <- Old,
               media <- pm, seen <- mem, promise <- may, running <- Running

\* Every instruction of the copy, store and load functions of util/aep.h and
\* util/aep_just.h, of clwb_extent and of the operations in aep_study.h is a
\* step of DurableWrite or changes nothing it speaks of, power failures,
\* evictions and faults between any two of them included.
ImplementsDurableWrite == Abs!Spec
=============================================================================
