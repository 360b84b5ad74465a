----------------------------- MODULE NativeCopy -----------------------------
(***************************************************************************)
(* The timed operations of bgtest/AEP/aep_study.h that copy with memcpy,   *)
(* fill with memset, store word by word or call PMDK, on the persistent    *)
(* memory of module PMem.                                                  *)
(*                                                                         *)
(*   head loop tail  cpy_native_flush and memset_native_flush: the bytes   *)
(*         up to a line boundary, whole lines, the rest                    *)
(*   fill clwb   one memcpy or memset of cnt bytes, and the clwb after it  *)
(*   word  the loop of aep_native_store_dram                               *)
(*   ret extent fence pmdk  the rest of the operation                      *)
(*                                                                         *)
(* memcpy, memset and PMDK are not part of the repository.  memcpy and     *)
(* memset store their bytes in any order, through the cache or not; a PMDK *)
(* copy called without PMEM2_F_MEM_NOFLUSH returns when all of it is       *)
(* durable.                                                                *)
(***************************************************************************)
EXTENDS PMem

\* A workload bounds a history: the requests that may be made, how many
\* calls are made (max_calls) and how often the power fails (max_failures).
CONSTANTS Workloads,    \* the workloads, a sequence
          Chunk         \* the bytes memcpy and memset store at once

\* fill   "none", or who stores: "cpy", "set", "words"
\* lines  line by line, each followed by its clwb
\* then   what follows: "nothing", "extent" (clwb_extent and sfence),
\*        "fence" (sfence), "pmdk" (the flush and drain inside PMDK)
Op(fill, lines, then) == [fill |-> fill, lines |-> lines, then |-> then]

aep_baseline == Op("none", FALSE, "nothing")

cpy_native_noflush == Op("cpy", FALSE, "nothing")
cpy_native_flush   == Op("cpy", TRUE, "nothing")

aep_native_cpy_to_dram == cpy_native_noflush
aep_pmem2_cpy_to_dram  == Op("cpy", FALSE, "nothing")

aep_native_cpy_dram_by_all       == Op("cpy", FALSE, "extent")
aep_native_cpy_dram_by_cacheline == Op("cpy", TRUE, "fence")
aep_native_store_dram            == Op("words", FALSE, "extent")
aep_cpy_native_by_all            == Op("cpy", FALSE, "extent")
aep_cpy_native_by_cacheline      == Op("cpy", TRUE, "fence")
aep_memset_native_by_all         == Op("set", FALSE, "extent")
aep_memset_native_by_cacheline   == Op("set", TRUE, "fence")

\* _com, _t and _nt differ in the instructions PMDK chooses.
aep_pmem2_cpy_dram   == Op("cpy", FALSE, "pmdk")
aep_cpy_pmem2_memcpy == Op("cpy", FALSE, "pmdk")
aep_memset_pmem2     == Op("set", FALSE, "pmdk")

CopyOps == {cpy_native_noflush, cpy_native_flush, aep_native_cpy_to_dram,
            aep_pmem2_cpy_to_dram, aep_native_cpy_dram_by_all,
            aep_native_cpy_dram_by_cacheline, aep_cpy_native_by_all,
            aep_cpy_native_by_cacheline, aep_pmem2_cpy_dram, aep_cpy_pmem2_memcpy}

SetOps == {aep_memset_native_by_all, aep_memset_native_by_cacheline, aep_memset_pmem2}

Ops == CopyOps \cup SetOps \cup {aep_baseline, aep_native_store_dram}

VARIABLES
    up,         \* the process is running
    pc, req,    \* each thread's place and arguments
    dest, src, len,     \* the parameters, as the function advances them
    cnt, todo,  \* the memcpy or memset in progress: its length, what is left
    after,      \* where the code goes on after its clwb
    i,          \* the loop variable of aep_native_store_dram
    uptr,       \* the loop variable of clwb_extent
    may,        \* history: the values each byte may have after a crash
    load,       \* the index of the workload
    left, fails \* bounds: calls and power failures still to come

local == <<req, dest, src, len, cnt, todo, after, i, uptr>>
bounds == <<load, left, fails>>
vars == <<hw, up, pc, local, may, bounds>>

Requests == UNION {Workloads[w].requests : w \in DOMAIN Workloads}

Old == -1
C == -2         \* the byte that memset stores

Range(r) == r.d .. (r.d + r.n - 1)

\* dst[i] = src[i] for i = 0, 8, 16, ... < len, of eight bytes each
Words(r) == UNION {(r.d + 64 * j) .. (r.d + 64 * j + 7) : j \in 0 .. ((r.n + 7) \div 8 - 1)}

Target(r) == CASE r.op.fill = "none" -> {}
               [] r.op.fill = "words" -> Words(r)
               [] OTHER -> Range(r)

\* The lines that clwb_extent(dest, len) visits
ExtentLines(r) == LineBase(r.d) .. (LineBase(r.d + r.n - 1) + CACHELINE_SIZE - 1)

\* What the caller may take for durable when the operation has returned
Saved(r) == IF r.op.then = "nothing" \/ r.n = 0 THEN {} ELSE Target(r) \cap ExtentLines(r)

New(r, a) == IF r.op.fill = "set" THEN {C} ELSE {r.s + (a - r.d)}

ASSUME RequestsAssumption ==
    /\ Requests \subseteq [op : Ops, d : Nat, s : Nat, n : Nat]
    /\ \A r \in Requests : Target(r) \subseteq Addr /\ Range(r) \subseteq Addr

ASSUME BoundsAssumption ==
    /\ Chunk \in Nat \ {0}
    /\ \A w \in DOMAIN Workloads : {Workloads[w].max_calls, Workloads[w].max_failures} \subseteq Nat

-----------------------------------------------------------------------------
Goto(t, p) == pc' = [pc EXCEPT ![t] = p]

Data(t) == [a \in Addr |-> IF req[t].op.fill = "set" THEN C ELSE src[t] + (a - dest[t])]

Begin(t, r) ==
    /\ \A u \in Thread \ {t} : pc[u] # "idle" => Target(req[u]) \cap Target(r) = {}
    /\ left' = left - 1
    /\ req' = [req EXCEPT ![t] = r]
    /\ dest' = [dest EXCEPT ![t] = r.d]
    /\ src' = [src EXCEPT ![t] = r.s]
    /\ len' = [len EXCEPT ![t] = r.n]
    /\ i' = [i EXCEPT ![t] = 0]
    /\ may' = [a \in Addr |-> IF a \in Target(r) THEN may[a] \cup New(r, a) ELSE may[a]]
    /\ Goto(t, IF r.op.fill = "none" THEN "ret" ELSE IF r.op.fill = "words" THEN "word"
               ELSE IF r.op.lines THEN "head" ELSE "whole")
    /\ UNCHANGED <<hw, up, cnt, todo, after, uptr, load, fails>>

Call(t) == up /\ pc[t] = "idle" /\ left > 0 /\ \E r \in Workloads[load].requests : Begin(t, r)

(***************************************************************************)
(* One memcpy or memset of n bytes at dest.                                *)
(***************************************************************************)
Memcpy(t, n, next) ==
    /\ cnt' = [cnt EXCEPT ![t] = n]
    /\ todo' = [todo EXCEPT ![t] = dest[t] .. (dest[t] + n - 1)]
    /\ after' = [after EXCEPT ![t] = next]
    /\ Goto(t, "fill")
    /\ UNCHANGED <<hw, up, req, dest, src, len, i, uptr, may, bounds>>

Fill(t) ==
    /\ up /\ pc[t] = "fill"
    /\ \E c \in {a \div Chunk : a \in todo[t]} :
          LET W == {a \in todo[t] : a \div Chunk = c}
          IN  /\ Store(W, Data(t)) \/ NtStore(t, W, Data(t))
              /\ todo' = [todo EXCEPT ![t] = @ \ W]
    /\ UNCHANGED <<up, pc, req, dest, src, len, cnt, after, i, uptr, may, bounds>>

FillEnd(t) ==
    /\ up /\ pc[t] = "fill" /\ todo[t] = {}
    /\ Goto(t, IF req[t].op.lines THEN "clwb" ELSE "ret")
    /\ UNCHANGED <<hw, up, local, may, bounds>>

\* cpy_native_noflush, memset_native_noflush and the copy inside PMDK
Whole(t) == up /\ pc[t] = "whole" /\ Memcpy(t, len[t], "ret")

-----------------------------------------------------------------------------
(***************************************************************************)
(* cpy_native_flush and memset_native_flush.                               *)
(***************************************************************************)
\* Mutant: the head is not cut to len.
HeadCountUncut(t) == CACHELINE_SIZE - (dest[t] % CACHELINE_SIZE)

HeadCount(t) == LET c == CACHELINE_SIZE - (dest[t] % CACHELINE_SIZE)
                IN  IF c > len[t] THEN len[t] ELSE c

Head(t) ==
    /\ up /\ pc[t] = "head" /\ dest[t] % CACHELINE_SIZE # 0
    /\ Memcpy(t, HeadCount(t), "loop")

HeadSkip(t) ==
    /\ up /\ pc[t] = "head" /\ dest[t] % CACHELINE_SIZE = 0
    /\ Goto(t, "loop")
    /\ UNCHANGED <<hw, up, local, may, bounds>>

Loop(t) == up /\ pc[t] = "loop" /\ len[t] >= CACHELINE_SIZE /\ Memcpy(t, CACHELINE_SIZE, "loop")

LoopEnd(t) ==
    /\ up /\ pc[t] = "loop" /\ len[t] < CACHELINE_SIZE
    /\ Goto(t, IF len[t] = 0 THEN "ret" ELSE "tail")
    /\ UNCHANGED <<hw, up, local, may, bounds>>

Tail(t) == up /\ pc[t] = "tail" /\ Memcpy(t, len[t], "ret")

\* Mutant: src stays behind when dest moves on.
LineClwbSrcStays(t) ==
    /\ up /\ pc[t] = "clwb"
    /\ Clwb(t, dest[t])
    /\ Goto(t, after[t])
    /\ dest' = [dest EXCEPT ![t] = @ + cnt[t]]
    /\ len' = [len EXCEPT ![t] = @ - cnt[t]]
    /\ UNCHANGED <<up, req, src, cnt, todo, after, i, uptr, may, bounds>>

\* Mutant: dest moves on before the clwb.
LineClwbLate(t) ==
    /\ up /\ pc[t] = "clwb"
    /\ Clwb(t, dest[t] + cnt[t])
    /\ Goto(t, after[t])
    /\ dest' = [dest EXCEPT ![t] = @ + cnt[t]]
    /\ src' = [src EXCEPT ![t] = @ + cnt[t]]
    /\ len' = [len EXCEPT ![t] = @ - cnt[t]]
    /\ UNCHANGED <<up, req, cnt, todo, after, i, uptr, may, bounds>>

\* Mutant: nothing moves on after the clwb.
LineClwbStays(t) ==
    /\ up /\ pc[t] = "clwb"
    /\ Clwb(t, dest[t])
    /\ Goto(t, after[t])
    /\ UNCHANGED <<up, local, may, bounds>>

\* clwb of dest's line; then dest, src and len move on, except after the tail.
LineClwb(t) ==
    /\ up /\ pc[t] = "clwb"
    /\ Clwb(t, dest[t])
    /\ Goto(t, after[t])
    /\ IF after[t] = "ret" THEN UNCHANGED <<dest, src, len>>
       ELSE /\ dest' = [dest EXCEPT ![t] = @ + cnt[t]]
            /\ src' = [src EXCEPT ![t] = @ + cnt[t]]
            /\ len' = [len EXCEPT ![t] = @ - cnt[t]]
    /\ UNCHANGED <<up, req, cnt, todo, after, i, uptr, may, bounds>>

-----------------------------------------------------------------------------
(***************************************************************************)
(* aep_native_store_dram: dst and src are uint64_t pointers, i counts in   *)
(* steps of sizeof(uint64_t).                                              *)
(***************************************************************************)
StoreWord(t) ==
    /\ up /\ pc[t] = "word" /\ i[t] < len[t]
    /\ Store((dest[t] + 8 * i[t]) .. (dest[t] + 8 * i[t] + 7), Data(t))
    /\ i' = [i EXCEPT ![t] = @ + 8]
    /\ UNCHANGED <<up, pc, req, dest, src, len, cnt, todo, after, uptr, may, bounds>>

WordEnd(t) ==
    /\ up /\ pc[t] = "word" /\ i[t] >= len[t]
    /\ Goto(t, "ret")
    /\ UNCHANGED <<hw, up, local, may, bounds>>

-----------------------------------------------------------------------------
(***************************************************************************)
(* The rest of the timed operation.                                        *)
(***************************************************************************)
Return(t) ==
    /\ up /\ pc[t] = "ret"
    /\ uptr' = [uptr EXCEPT ![t] = LineBase(req[t].d)]
    /\ Goto(t, IF req[t].op.then = "nothing" THEN "idle" ELSE req[t].op.then)
    /\ UNCHANGED <<hw, up, req, dest, src, len, cnt, todo, after, i, may, bounds>>

clwb_extent(t) ==
    /\ up /\ pc[t] = "extent"
    /\ IF uptr[t] < req[t].d + req[t].n
       THEN /\ Clwb(t, uptr[t])
            /\ uptr' = [uptr EXCEPT ![t] = @ + CACHELINE_SIZE]
            /\ UNCHANGED pc
       ELSE /\ Goto(t, "fence")
            /\ UNCHANGED <<hw, uptr>>
    /\ UNCHANGED <<up, req, dest, src, len, cnt, todo, after, i, may, bounds>>

Promised(r) == may' = [a \in Addr |-> IF a \in Saved(r) THEN New(r, a) ELSE may[a]]

\* sfence; from here on the caller takes the bytes for durable.
Fence(t) ==
    /\ up /\ pc[t] = "fence"
    /\ Sfence(t)
    /\ Promised(req[t])
    /\ Goto(t, "idle")
    /\ UNCHANGED <<up, local, bounds>>

\* PMDK flushes and drains what it has copied.
PmdkPersist(t) ==
    /\ up /\ pc[t] = "pmdk"
    /\ pm' = [a \in Addr |-> IF a \in Range(req[t]) \cup pend[t] THEN mem[a] ELSE pm[a]]
    /\ pend' = [pend EXCEPT ![t] = {}]
    /\ Promised(req[t])
    /\ Goto(t, "idle")
    /\ UNCHANGED <<mem, up, local, bounds>>

-----------------------------------------------------------------------------
PowerFailure ==
    /\ fails > 0
    /\ fails' = fails - 1
    /\ up' = FALSE
    /\ pc' = [u \in Thread |-> "idle"]
    /\ LosePower
    /\ UNCHANGED <<local, may, load, left>>

Restart == ~up /\ up' = TRUE /\ UNCHANGED <<hw, pc, local, may, bounds>>

Eviction ==
    /\ \E w \in EvictWords : Evict(w)
    /\ UNCHANGED <<up, pc, local, may, bounds>>

\* All calls are made and have returned.
Terminated ==
    /\ up /\ left = 0 /\ \A t \in Thread : pc[t] = "idle"
    /\ UNCHANGED vars

Init ==
    /\ mem = [a \in Addr |-> Old] /\ pm = [a \in Addr |-> Old]
    /\ pend = [t \in Thread |-> {}]
    /\ up = TRUE
    /\ pc = [t \in Thread |-> "idle"]
    /\ req = [t \in Thread |-> [op |-> aep_baseline, d |-> 0, s |-> 0, n |-> 0]]
    /\ dest = [t \in Thread |-> 0] /\ src = [t \in Thread |-> 0] /\ len = [t \in Thread |-> 0]
    /\ cnt = [t \in Thread |-> 0] /\ todo = [t \in Thread |-> {}]
    /\ after = [t \in Thread |-> "ret"]
    /\ i = [t \in Thread |-> 0] /\ uptr = [t \in Thread |-> 0]
    /\ may = [a \in Addr |-> {Old}]
    /\ load \in DOMAIN Workloads
    /\ left = Workloads[load].max_calls /\ fails = Workloads[load].max_failures

Step(t) ==
    \/ Whole(t) \/ Fill(t) \/ FillEnd(t)
    \/ Head(t) \/ HeadSkip(t) \/ Loop(t) \/ LoopEnd(t) \/ Tail(t) \/ LineClwb(t)
    \/ StoreWord(t) \/ WordEnd(t)
    \/ Return(t) \/ clwb_extent(t) \/ Fence(t) \/ PmdkPersist(t)

Next ==
    \/ \E t \in Thread : Step(t) \/ Call(t)
    \/ PowerFailure \/ Restart \/ Eviction \/ Terminated

\* A thread that can execute its next instruction does so.
Spec == Init /\ [][Next]_vars /\ \A t \in Thread : WF_vars(Step(t))

-----------------------------------------------------------------------------
\* The type invariant.
TypeOK ==
    /\ mem \in [Addr -> Int] /\ pm \in [Addr -> Int] /\ pend \in [Thread -> SUBSET Addr]
    /\ up \in BOOLEAN
    /\ pc \in [Thread -> {"idle", "whole", "fill", "head", "loop", "tail", "clwb", "word",
                          "ret", "extent", "fence", "pmdk"}]
    /\ req \in [Thread -> [op : Ops, d : Nat, s : Nat, n : Nat]]
    /\ dest \in [Thread -> Nat] /\ src \in [Thread -> Nat] /\ len \in [Thread -> Nat]
    /\ cnt \in [Thread -> Nat] /\ todo \in [Thread -> SUBSET Addr]
    /\ after \in [Thread -> {"loop", "ret"}]
    /\ i \in [Thread -> Nat] /\ uptr \in [Thread -> Nat]
    /\ may \in [Addr -> SUBSET Int]
    /\ load \in DOMAIN Workloads
    /\ left \in 0 .. Workloads[load].max_calls /\ fails \in 0 .. Workloads[load].max_failures

Running == [t \in Thread |-> IF pc[t] = "idle" THEN {} ELSE {req[t]}]

Abs == INSTANCE DurableWrite
          WITH Calls <- Requests, Value <- New, Blank <- Old,
               media <- pm, seen <- mem, promise <- may, running <- Running

\* Every step of the native and PMDK operations of aep_study.h is a step of
\* DurableWrite or changes nothing it speaks of: with the power failing and
\* words being evicted between any two stores, an operation stores only in
\* its destination, and what it has fenced (the head line, the whole lines
\* and the tail of cpy_native_flush and memset_native_flush included) is on
\* the media.
NativeImplementsDurableWrite == Abs!Init /\ [][Abs!Next]_(Abs!vars)

\* An access_size of n means n bytes (config/aep_test_flags): when the copy
\* or fill is done, all n bytes at dest have their new value.
FillsAccessSize ==
    \A t \in Thread : pc[t] \in {"ret", "extent", "fence", "pmdk"} /\ req[t].op.fill # "none" =>
        \A a \in Range(req[t]) : mem[a] \in New(req[t], a)

\* Every operation returns, or the power fails.
NativeCallsReturn == \A t \in Thread : pc[t] # "idle" ~> pc[t] = "idle"
=============================================================================
