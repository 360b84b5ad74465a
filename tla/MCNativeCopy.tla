---------------------------- MODULE MCNativeCopy ----------------------------
(***************************************************************************)
(* Instances of NativeCopy for TLC.                                        *)
(***************************************************************************)
EXTENDS NativeCopyInv

CONSTANTS t1, t2

\* Source buffers lie above the mapping.
SrcBase == 4096

Req(ops, ds, ns) ==
    {[op |-> o, d |-> d, s |-> SrcBase + d, n |-> n] : o \in ops, d \in ds, n \in ns}

(***************************************************************************)
(* One thread: every operation, destinations at, before and after a line   *)
(* boundary, lengths that end before, at and after one, the last byte of   *)
(* the mapping included.                                                   *)
(***************************************************************************)
NativeAddr == 0 .. 255

OneRequests == Req(CopyOps \cup SetOps \cup {aep_baseline},
                   {64, 65, 127}, {0, 1, 63, 65, 129})
               \cup Req({aep_baseline}, {0}, {16})

(***************************************************************************)
(* Two threads with adjacent destinations in one line, one power failure   *)
(* and evictions of the word they share.                                   *)
(***************************************************************************)
TwoRequests ==
    Req({aep_memset_native_by_cacheline, aep_pmem2_cpy_dram}, {60}, {70})
    \cup Req({aep_native_cpy_dram_by_cacheline}, {130}, {8})
    \cup Req({aep_native_store_dram}, {138}, {8})

TwoThreads == {t1, t2}
SharedWords == {16}

Load(requests, calls, failures) ==
    [requests |-> requests, max_calls |-> calls, max_failures |-> failures]

NativeLoads == <<Load(OneRequests, 1, 0), Load(TwoRequests, 2, 1)>>
=============================================================================
