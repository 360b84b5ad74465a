------------------------------- MODULE AepOps -------------------------------
(***************************************************************************)
(* The copy, store and load functions of util/aep.h and util/aep_just.h    *)
(* and the timed operations of bgtest/AEP/aep_study.h built on them.       *)
(*                                                                         *)
(* All eleven functions share one control structure (module AepCopy).      *)
(* They differ in the assembly kernels they call and in how they write     *)
(* back the first and the last line, so each is a record:                  *)
(*   one    the kernels for a single 16- or 32-byte vector                 *)
(*   block  the kernels for 2, 4, 8 and 16 vectors of 32 bytes             *)
(*   edges  "none": no clwb outside the kernels; "need": clwb of the first *)
(*          and last line under need_flush; "always": clwb after the head  *)
(*          and, whatever is left, after the tail                          *)
(* A family of kernels is a record too: load and store name the            *)
(* instruction used ("none": the kernel does not access that side), clwb   *)
(* is "pair" if each pair of vectors is followed by a clwb of its line.    *)
(***************************************************************************)

Kernels(load, store, clwb) == [load |-> load, store |-> store, clwb |-> clwb]

\* util/instr.h
k_load_store_noflush   == Kernels("load", "store", "none")
k_load_store_flush     == Kernels("load", "store", "pair")
k_ntload_store_noflush == Kernels("ntload", "store", "none")
k_ntload_store_flush   == Kernels("ntload", "store", "pair")
k_load_ntstore         == Kernels("load", "ntstore", "none")
k_ntload_ntstore       == Kernels("ntload", "ntstore", "none")

\* util/instr_just.h
k_just_load            == Kernels("load", "none", "none")
k_just_ntload          == Kernels("ntload", "none", "none")
k_just_store_noflush   == Kernels("none", "store", "none")
k_just_store_flush     == Kernels("none", "store", "pair")
k_just_ntstore         == Kernels("none", "ntstore", "none")

Fn(one, block, edges) == [one |-> one, block |-> block, edges |-> edges]

\* util/aep.h
cpy_load_store_noflush   == Fn(k_load_store_noflush, k_load_store_noflush, "none")
cpy_load_store_flush     == Fn(k_load_store_noflush, k_load_store_flush, "need")
cpy_ntload_store_noflush == Fn(k_ntload_store_noflush, k_ntload_store_noflush, "none")
cpy_ntload_store_flush   == Fn(k_ntload_store_noflush, k_ntload_store_flush, "need")
cpy_load_ntstore         == Fn(k_load_ntstore, k_load_ntstore, "always")
cpy_ntload_ntstore       == Fn(k_ntload_ntstore, k_ntload_ntstore, "always")

\* util/aep_just.h
just_load          == Fn(k_just_load, k_just_load, "none")
just_ntload        == Fn(k_just_ntload, k_just_ntload, "none")
just_store_noflush == Fn(k_just_store_noflush, k_just_store_noflush, "none")
just_store_flush   == Fn(k_just_store_noflush, k_just_store_flush, "need")
just_ntstore       == Fn(k_just_ntstore, k_just_ntstore, "always")

(***************************************************************************)
(* A timed operation calls a function and then clwb_extent and sfence (its *)
(* name ends in by_all), sfence alone, or nothing (the reads, and the      *)
(* calls of the unit tests).                                               *)
(***************************************************************************)
By(fn, then) == [fn |-> fn, then |-> then]

aep_just_load   == By(just_load, "nothing")
aep_just_ntload == By(just_ntload, "nothing")
aep_load_to_dram   == By(cpy_load_store_noflush, "nothing")
aep_ntload_to_dram == By(cpy_ntload_store_noflush, "nothing")

aep_just_store_flush_by_all       == By(just_store_noflush, "extent")
aep_just_store_flush_by_cacheline == By(just_store_flush, "fence")
aep_just_ntstore                  == By(just_ntstore, "fence")

aep_store_from_dram_flush_by_all       == By(cpy_load_store_noflush, "extent")
aep_store_from_dram_flush_by_cacheline == By(cpy_load_store_flush, "fence")
aep_ntstore_from_dram                  == By(cpy_load_ntstore, "fence")

aep_cpy_load_store_by_all           == By(cpy_load_store_noflush, "extent")
aep_cpy_load_store_by_cacheline     == By(cpy_load_store_flush, "fence")
aep_cpy_load_ntstore                == By(cpy_load_ntstore, "fence")
aep_cpy_ntload_store_by_all         == By(cpy_ntload_store_noflush, "extent")
aep_cpy_ntload_store_by_cacheline   == By(cpy_ntload_store_flush, "fence")
aep_cpy_ntload_ntstore              == By(cpy_ntload_ntstore, "fence")

\* util/aep_test.cc calls the copy functions with nothing after them; so do the
\* two loads into DRAM.
BareOps == {By(f, "nothing") : f \in {cpy_load_store_noflush,
                cpy_load_store_flush, cpy_ntload_store_noflush,
                cpy_ntload_store_flush, cpy_load_ntstore, cpy_ntload_ntstore}}

LoadOps == {aep_just_load, aep_just_ntload}

JustStoreOps == {aep_just_store_flush_by_all, aep_just_store_flush_by_cacheline,
                 aep_just_ntstore}

CopyOps == {aep_store_from_dram_flush_by_all, aep_store_from_dram_flush_by_cacheline,
            aep_ntstore_from_dram, aep_cpy_load_store_by_all,
            aep_cpy_load_store_by_cacheline, aep_cpy_load_ntstore,
            aep_cpy_ntload_store_by_all, aep_cpy_ntload_store_by_cacheline,
            aep_cpy_ntload_ntstore}

Ops == LoadOps \cup JustStoreOps \cup CopyOps \cup BareOps
=============================================================================
