------------------------------ MODULE PmemMap ------------------------------
(***************************************************************************)
(* util/aep.cc: Pmem2Map, Pmem2MapAndTruncate, Pmem2MapFromFd and          *)
(* Pmem2UnMap, called the way bgtest/AEP/aep_study.cc calls them: the      *)
(* device once, then for each round of the benchmark one data file per     *)
(* thread (RunData), which the end of the round unmaps.                    *)
(*                                                                         *)
(* PMDK is not part of the repository.  Each of its calls either returns 0 *)
(* and makes or frees the object it is about, or fails and changes         *)
(* nothing.                                                                *)
(***************************************************************************)
EXTENDS Naturals, Sequences

CONSTANT Rounds     \* thread_num in each round of the benchmark

ASSUME RoundsAssumption == Rounds \in Seq(Nat \ {0}) /\ Rounds # <<>>

VARIABLES
    pc,
    call,       \* "device", "file" or "data": who called Pmem2MapFromFd
    round, k,   \* the round, the thread whose data file is next
    map,        \* the pointer returned
    fds,        \* descriptors open
    cfgs, srcs, \* pmem2_config and pmem2_source objects that exist
    dev, data   \* mapped: the device or file (how often), the data files

objects == <<cfgs, srcs>>
maps == <<dev, data>>
vars == <<pc, call, round, k, map, fds, objects, maps>>

\* A call that may fail.
Try(good, bad) == good \/ bad

-----------------------------------------------------------------------------
(***************************************************************************)
(* Pmem2MapFromFd                                                          *)
(***************************************************************************)
ReturnNull == pc' = "mapped" /\ map' = "null" /\ UNCHANGED <<objects, maps>>

pmem2_config_new ==
    /\ pc = "config"
    /\ Try(/\ pc' = "source" /\ cfgs' = cfgs + 1
           /\ UNCHANGED <<map, srcs, maps>>,
           ReturnNull)
    /\ UNCHANGED <<call, round, k, fds>>

pmem2_source_from_fd ==
    /\ pc = "source"
    /\ Try(/\ pc' = "granularity" /\ srcs' = srcs + 1
           /\ UNCHANGED <<map, cfgs, maps>>,
           ReturnNull)
    /\ UNCHANGED <<call, round, k, fds>>

pmem2_config_set_required_store_granularity ==
    /\ pc = "granularity"
    /\ Try(pc' = "map" /\ UNCHANGED <<map, objects, maps>>, ReturnNull)
    /\ UNCHANGED <<call, round, k, fds>>

pmem2_map_new ==
    /\ pc = "map"
    /\ Try(/\ pc' = "delete"
           /\ map' = "mapping"
           /\ IF call = "data" THEN data' = data \cup {k} /\ UNCHANGED dev
                               ELSE dev' = dev + 1 /\ UNCHANGED data
           /\ UNCHANGED objects,
           ReturnNull)
    /\ UNCHANGED <<call, round, k, fds>>

\* pmem2_source_delete and pmem2_config_delete
Delete ==
    /\ pc = "delete"
    /\ pc' = "mapped"
    /\ srcs' = srcs - 1 /\ cfgs' = cfgs - 1
    /\ UNCHANGED <<call, round, k, map, fds, maps>>

-----------------------------------------------------------------------------
(***************************************************************************)
(* Its callers: Pmem2Map opens the device, Pmem2MapAndTruncate makes a     *)
(* file, RunData opens one per thread; all of them close the descriptor.   *)
(***************************************************************************)
\* OpenSimple or OpenAndAllocAtSize; without a descriptor the callers end the
\* process (log_assert).
Open ==
    /\ pc = "open"
    /\ Try(pc' = "config" /\ fds' = fds + 1, pc' = "exit" /\ UNCHANGED fds)
    /\ UNCHANGED <<call, round, k, map, objects, maps>>

\* Mutant: a null pointer is not noticed.
MappedUnchecked ==
    /\ pc = "mapped"
    /\ fds' = fds - 1
    /\ pc' = "next"
    /\ UNCHANGED <<call, round, k, map, objects, maps>>

\* Mutant: the descriptor stays open.
MappedNoClose ==
    /\ pc = "mapped"
    /\ pc' = IF map # "null" THEN "next" ELSE "exit"
    /\ UNCHANGED <<call, round, k, map, fds, objects, maps>>

\* Mutant: the descriptor is closed by Pmem2MapFromFd too.
MappedClosesTwice ==
    /\ pc = "mapped"
    /\ fds' = fds - 2
    /\ pc' = IF map # "null" THEN "next" ELSE "exit"
    /\ UNCHANGED <<call, round, k, map, objects, maps>>

\* Pmem2Map closes and its caller asserts, RunData asserts and closes.
Mapped ==
    /\ pc = "mapped"
    /\ fds' = IF call = "data" /\ map = "null" THEN fds ELSE fds - 1
    /\ pc' = IF map # "null" THEN "next" ELSE "exit"
    /\ UNCHANGED <<call, round, k, map, objects, maps>>

\* After the device the first round; in a round the next thread's file.
NextMap ==
    /\ pc = "next"
    /\ call' = "data"
    /\ LET next == IF call = "data" THEN k + 1 ELSE 0
       IN  /\ k' = next
           /\ pc' = IF next < Rounds[round] THEN "open" ELSE "measure"
    /\ UNCHANGED <<round, map, fds, objects, maps>>

Measure ==
    /\ pc = "measure"
    /\ k' = 0
    /\ pc' = "unmap"
    /\ UNCHANGED <<call, round, map, fds, objects, maps>>

\* Mutant: the same data file is unmapped again and again.
UnmapDataNoStep ==
    /\ pc = "unmap"
    /\ data' = data \ {k}
    /\ UNCHANGED <<pc, call, round, k, map, fds, objects, dev>>

\* DestroyThreadContext: ~RunData unmaps; then the next round.
UnmapData ==
    /\ pc = "unmap"
    /\ IF k < Rounds[round]
       THEN /\ data' = data \ {k}
            /\ k' = k + 1
            /\ UNCHANGED <<pc, round>>
       ELSE /\ k' = 0
            /\ round' = round + 1
            /\ pc' = IF round = Len(Rounds) THEN "destroy" ELSE "open"
            /\ UNCHANGED data
    /\ UNCHANGED <<call, map, fds, objects, dev>>

\* Mutant: the device is left mapped.
UnmapDeviceMissing ==
    /\ pc = "destroy"
    /\ pc' = "end"
    /\ UNCHANGED <<call, round, k, map, fds, objects, maps>>

\* DestroyGlobalCfg
UnmapDevice ==
    /\ pc = "destroy"
    /\ dev' = dev - 1
    /\ pc' = "end"
    /\ UNCHANGED <<call, round, k, map, fds, objects, data>>

Ended == pc \in {"end", "exit"} /\ UNCHANGED vars

Init ==
    /\ pc = "open"
    /\ call \in {"device", "file"}
    /\ round = 1 /\ k = 0
    /\ map = "null"
    /\ fds = 0 /\ cfgs = 0 /\ srcs = 0
    /\ dev = 0 /\ data = {}

Step ==
    \/ Open \/ pmem2_config_new \/ pmem2_source_from_fd
    \/ pmem2_config_set_required_store_granularity \/ pmem2_map_new \/ Delete
    \/ Mapped \/ NextMap \/ Measure \/ UnmapData \/ UnmapDevice

Next == Step \/ Ended

\* The one thread runs on.
Spec == Init /\ [][Next]_vars /\ WF_vars(Step)

-----------------------------------------------------------------------------
\* The type invariant.
MapTypeOK ==
    /\ pc \in {"open", "config", "source", "granularity", "map", "delete", "mapped", "next",
               "measure", "unmap", "destroy", "end", "exit"}
    /\ call \in {"device", "file", "data"}
    /\ round \in Nat /\ k \in Nat
    /\ map \in {"null", "mapping"}
    /\ fds \in Nat /\ cfgs \in Nat /\ srcs \in Nat
    /\ dev \in Nat /\ data \subseteq Nat

\* The error returns of Pmem2MapFromFd leave a config or a source behind, but
\* never more than one of each: no second mapping is attempted with something
\* left over from the first, because every caller ends the process.
LeaksDoNotAdd == pc \in {"open", "config"} => cfgs = 0 /\ srcs = 0

\* While threads measure, the device and one data file per thread are mapped,
\* none of an earlier round, and no descriptor is open.
MeasuresMapped ==
    pc = "measure" => dev = 1 /\ data = 0 .. (Rounds[round] - 1) /\ fds = 0

\* A run that ends normally has returned all it took.
AllReleased == pc = "end" => dev = 0 /\ data = {} /\ fds = 0 /\ cfgs = 0 /\ srcs = 0

\* The program ends.
MapEnds == <>(pc \in {"end", "exit"})
=============================================================================
