----------------------------- MODULE MCAepCopy -----------------------------
(***************************************************************************)
(* Instances of AepCopy for TLC.                                           *)
(***************************************************************************)
EXTENDS AepCopyRefines

CONSTANTS t1, t2

\* Source buffers lie above this address, so that a byte of the source is
\* never a byte of the mapping.
SrcBase == 4096

Req(ops, ds, skews, ns) ==
    {[op |-> o, d |-> d, s |-> IF o \in LoadOps THEN d ELSE SrcBase + d + k, n |-> n] :
        o \in ops, d \in ds, k \in skews, n \in ns}

-----------------------------------------------------------------------------
(***************************************************************************)
(* One thread: every op, each kind of offset in a line, lengths around the *)
(* boundaries of the code; the end of the mapping (1216); skews other than *)
(* 0, which misalign the source; and long copies: the kernels of 8 and 16  *)
(* vectors, the loop taken once and twice, and the 63 + 1024 + 63 bytes of *)
(* aep_test.cc.                                                            *)
(***************************************************************************)
OneAddr == 0 .. 1215

ShortRequests == Req(Ops, {64, 65, 80, 97, 127}, {0},
                     {0, 1, 9, 16, 33, 47, 63, 64, 129})

EndRequests == {r \in Req(Ops, {1152, 1169, 1206}, {0}, {10, 47, 64}) : r.d + r.n = 1216}

SkewRequests == Req(CopyOps \cup BareOps, {64, 79}, {1, 8, 16}, {15, 31, 100})

LongRequests == Req(Ops, {64}, {0}, {256, 511}) \cup Req(Ops, {112}, {0}, {512})
                \cup Req(Ops, {65}, {0}, {1150})

OneRequests == ShortRequests \cup EndRequests \cup SkewRequests \cup LongRequests

(***************************************************************************)
(* Two threads whose destinations are adjacent and share a line, with one  *)
(* power failure, evictions of the words they share, and a second write to *)
(* bytes that are already durable; calls that end without an sfence, only  *)
(* read, or die of a misaligned source.                                    *)
(***************************************************************************)
TwoAddr == 0 .. 191

TwoRequests ==
    Req({aep_cpy_load_store_by_cacheline, aep_cpy_load_ntstore,
         aep_cpy_load_store_by_all, aep_just_store_flush_by_cacheline}, {40}, {0}, {34})
    \cup Req({aep_cpy_load_store_by_cacheline,
              By(cpy_load_store_flush, "nothing")}, {74}, {0}, {8})
    \cup Req({aep_just_load}, {40}, {0}, {34})
    \cup Req({aep_cpy_load_store_by_all}, {80}, {8}, {17})

TwoThreads == {t1, t2}
OneThread == {t1}
TwoSymmetry == {[t \in TwoThreads |-> t], [t \in TwoThreads |-> IF t = t1 THEN t2 ELSE t1]}

SharedWords == {8, 9}
NoWords == {}
=============================================================================
