------------------------------ MODULE AepCopy ------------------------------
(***************************************************************************)
(* Threads of the benchmark run the operations of module AepOps on one     *)
(* mapping of persistent memory.  Each thread follows the common control   *)
(* structure of cpy_*, _just_* (util/aep.h, util/aep_just.h) one store or  *)
(* clwb at a time:                                                         *)
(*                                                                         *)
(*   head    bytes up to a 16-byte boundary (cpy_less_16b_noflush)         *)
(*   a16 a32 one 16- and one 32-byte vector up to a 64-byte boundary       *)
(*   fhead   write back the first line (edges = "need")                    *)
(*   k16 k8 k4 k2  blocks of 16, 8, 4, 2 vectors; vec and vclwb are the    *)
(*           instructions of the kernel                                    *)
(*   t32 t16 tail  what is left, fend its write-back                       *)
(*   ret extent fence  the rest of the timed operation                     *)
(*                                                                         *)
(* The power may fail between any two instructions, words may be evicted   *)
(* at any time, and a vector instruction on an address that is not a       *)
(* multiple of its width kills the process.  The instructions take effect  *)
(* in program order, which is the order the compiler emits.                *)
(***************************************************************************)
EXTENDS PMem, AepOps, FiniteSets

CONSTANTS Requests,     \* the calls the threads may make
          MaxCalls,     \* bound: how many calls are made
          MaxFailures   \* bound: how often the power fails

Shape == [op : Ops, d : Nat, s : Nat, n : Nat]

\* Whatever is accessed is mapped; a load-only function has one pointer.
ASSUME RequestsAssumption ==
    /\ Requests \subseteq Shape
    /\ \A r \in Requests : /\ r.d .. (r.d + r.n - 1) \subseteq Addr
                           /\ r.d % CACHELINE_SIZE # 0 => r.d \in Addr
    /\ \A r \in Requests : r.op \in LoadOps => r.s = r.d

ASSUME BoundsAssumption == MaxCalls \in Nat /\ MaxFailures \in Nat

VARIABLES
    up,         \* the process is running
    pc,         \* where each thread is
    req,        \* the arguments of its current call
    dest, src, len,   \* the parameters, as the function advances them
    blk, vec,   \* the kernel in progress: its vectors, the next to store
    need_flush,
    uptr,       \* the loop variable of clwb_extent
    may,        \* history: the values each byte may have after a crash
    died,       \* history: the calls that killed the process
    left,       \* calls still to be made
    fails       \* power failures still to happen

cursor == <<dest, src, len>>
local == <<req, cursor, blk, vec, need_flush, uptr>>
history == <<may, died>>
bounds == <<left, fails>>
vars == <<hw, up, pc, local, history, bounds>>

(***************************************************************************)
(* Values.  A byte of the source is its own address; the _just_ functions  *)
(* store all-ones or whatever the vector registers hold.                   *)
(***************************************************************************)
Old == -1
Ones == -2
Junk == -3

WriteRange(r) == IF r.op.fn.one.store = "none" THEN {} ELSE r.d .. (r.d + r.n - 1)

New(r, a) == IF r.op.fn.one.load = "none" THEN {Ones, Junk} ELSE {r.s + (a - r.d)}

fn(t) == req[t].op.fn

Goto(t, p) == pc' = [pc EXCEPT ![t] = p]

Advance(t, w) == /\ dest' = [dest EXCEPT ![t] = @ + w]
                 /\ src' = [src EXCEPT ![t] = @ + w]
                 /\ len' = [len EXCEPT ![t] = @ - w]

\* What lands at each address when t copies from src to dest, and what when
\* it stores a constant instead.
Data(t, const) ==
    [a \in Addr |-> IF fn(t).one.load = "none" THEN const
                                               ELSE src[t] + (a - dest[t])]

\* x & 16, x & 32
Bit(x, b) == (x \div b) % 2 = 1

(***************************************************************************)
(* cpy_less_16b_noflush copies n < 16 bytes with one or two accesses of    *)
(* the largest power of two that fits, the second ending at byte n - 1.    *)
(***************************************************************************)
\* Mutant: four-byte accesses for up to 15 bytes leave a hole.
PieceTooSmall(n) == IF n > 4 THEN 4 ELSE IF n > 2 THEN 2 ELSE n

Piece(n) == IF n > 8 THEN 8 ELSE IF n > 4 THEN 4 ELSE IF n > 2 THEN 2 ELSE n

LessBytes(n) == (0 .. (Piece(n) - 1)) \cup ((n - Piece(n)) .. (n - 1))

cpy_less_16b_noflush(t, n) ==
    IF fn(t).one.store = "none"
    THEN UNCHANGED hw
    ELSE Store({dest[t] + i : i \in LessBytes(n)}, Data(t, Ones))

\* A vector of w bytes stored at byte off of the destination.
VecStore(t, kernels, off, w) ==
    LET W == (dest[t] + off) .. (dest[t] + off + w - 1)
    IN  \/ kernels.store = "none"    /\ UNCHANGED hw
        \/ kernels.store = "store"   /\ Store(W, Data(t, Junk))
        \/ kernels.store = "ntstore" /\ NtStore(t, W, Data(t, Junk))

-----------------------------------------------------------------------------
(***************************************************************************)
(* Starting a call.  Threads write to disjoint buffers, which is the       *)
(* caller's duty (ThreadJob gives each thread its own).                    *)
(***************************************************************************)
Begin(t, r) ==
    /\ \A u \in Thread \ {t} :
          pc[u] # "idle" => WriteRange(req[u]) \cap WriteRange(r) = {}
    /\ left' = left - 1
    /\ req' = [req EXCEPT ![t] = r]
    /\ dest' = [dest EXCEPT ![t] = r.d]
    /\ src' = [src EXCEPT ![t] = r.s]
    /\ len' = [len EXCEPT ![t] = r.n]
    /\ need_flush' = [need_flush EXCEPT
                        ![t] = r.op.fn.edges = "need" /\ r.d % CACHELINE_SIZE # 0]
    /\ may' = [a \in Addr |-> IF a \in WriteRange(r) THEN may[a] \cup New(r, a)
                                                    ELSE may[a]]
    /\ Goto(t, "head")
    /\ UNCHANGED <<hw, up, blk, vec, uptr, died, fails>>

Call(t) == up /\ pc[t] = "idle" /\ left > 0 /\ \E r \in Requests : Begin(t, r)

(***************************************************************************)
(* cnt = dest & 15; if (cnt > 0) { cnt = 16 - cnt, at most len; ... }      *)
(***************************************************************************)
\* Mutant: the head is not cut to len.
HeadCountUncut(t) == 16 - (dest[t] % 16)

HeadCount(t) == LET c == 16 - (dest[t] % 16)
                IN  IF c > len[t] THEN len[t] ELSE c

HeadSkip(t) ==
    /\ up /\ pc[t] = "head" /\ dest[t] % 16 = 0
    /\ Goto(t, "a16")
    /\ UNCHANGED <<hw, up, local, history, bounds>>

Head(t) ==
    /\ up /\ pc[t] = "head" /\ dest[t] % 16 # 0
    /\ cpy_less_16b_noflush(t, HeadCount(t))
    /\ Goto(t, "hnext")
    /\ UNCHANGED <<up, local, history, bounds>>

\* The non-temporal functions write the head back before they move dest.
HeadNext(t) ==
    /\ up /\ pc[t] = "hnext"
    /\ IF fn(t).edges = "always" THEN Clwb(t, dest[t]) ELSE UNCHANGED hw
    /\ Advance(t, HeadCount(t))
    /\ Goto(t, "a16")
    /\ UNCHANGED <<up, req, blk, vec, need_flush, uptr, history, bounds>>

-----------------------------------------------------------------------------
(***************************************************************************)
(* Single vectors: the alignment steps and the last 32 and 16 bytes.       *)
(***************************************************************************)
\* Mutants: the wrong bit tested; the length not tested.
TakeA16WrongBit(t) == Bit(dest[t], 32) /\ len[t] >= 16
TakeA32NoLength(t) == Bit(dest[t], 32)

TakeA16(t) == Bit(dest[t], 16) /\ len[t] >= 16
TakeA32(t) == Bit(dest[t], 32) /\ len[t] >= 32
TakeT32(t) == len[t] >= 32
TakeT16(t) == len[t] >= 16

\* vmovdqa, vmovntdqa and vmovntpd fault on an address that is not a
\* multiple of their width.
Aligned(t, w) ==
    /\ fn(t).one.store # "none" => dest[t] % w = 0
    /\ fn(t).one.load # "none" => src[t] % w = 0

VecStep(t, from, take, w, to) ==
    /\ up /\ pc[t] = from
    /\ IF take THEN /\ Aligned(t, w)
                    /\ VecStore(t, fn(t).one, 0, w)
                    /\ Advance(t, w)
               ELSE UNCHANGED <<hw, cursor>>
    /\ Goto(t, to)
    /\ UNCHANGED <<up, req, blk, vec, need_flush, uptr, history, bounds>>

A16(t) == VecStep(t, "a16", TakeA16(t), 16, "a32")
A32(t) == VecStep(t, "a32", TakeA32(t), 32, "fhead")
T32(t) == VecStep(t, "t32", TakeT32(t), 32, "t16")
T16(t) == VecStep(t, "t16", TakeT16(t), 16, "tail")

\* Mutant: the first line is not written back.
FlushHeadMissing(t) ==
    /\ up /\ pc[t] = "fhead"
    /\ Goto(t, "k16")
    /\ UNCHANGED <<hw, up, local, history, bounds>>

\* if (need_flush) clwb(flush_addr), the line of the original dest
FlushHead(t) ==
    /\ up /\ pc[t] = "fhead"
    /\ IF need_flush[t] THEN Clwb(t, req[t].d) ELSE UNCHANGED hw
    /\ Goto(t, "k16")
    /\ UNCHANGED <<up, local, history, bounds>>

-----------------------------------------------------------------------------
(***************************************************************************)
(* Blocks: while (len >= 16 * 32), then one of 8, 4 and 2 vectors each.    *)
(***************************************************************************)
Blocks == {"k16", "k8", "k4", "k2"}

Vectors(p) == CASE p = "k16" -> 16 [] p = "k8" -> 8 [] p = "k4" -> 4 [] p = "k2" -> 2

\* Where the control is after a block of b vectors: only k16 is a loop.
After(b) == CASE b = 16 -> "k16" [] b = 8 -> "k4" [] b = 4 -> "k2" [] b = 2 -> "need"

SkipTo(p) == CASE p = "k16" -> "k8" [] p = "k8" -> "k4" [] p = "k4" -> "k2"
               [] p = "k2" -> "need"

TakeBlock(t) == pc[t] \in Blocks /\ len[t] >= 32 * Vectors(pc[t])

BlockEnter(t) ==
    /\ up /\ TakeBlock(t) /\ Aligned(t, 32)
    /\ blk' = [blk EXCEPT ![t] = Vectors(pc[t])]
    /\ vec' = [vec EXCEPT ![t] = 0]
    /\ Goto(t, "vec")
    /\ UNCHANGED <<hw, up, req, cursor, need_flush, uptr, history, bounds>>

BlockSkip(t) ==
    /\ up /\ pc[t] \in Blocks /\ ~TakeBlock(t)
    /\ Goto(t, SkipTo(pc[t]))
    /\ UNCHANGED <<hw, up, local, history, bounds>>

\* Mutant: one clwb for four vectors, as if a line were 128 bytes.
BlockStoreFewClwb(t) ==
    /\ up /\ pc[t] = "vec" /\ vec[t] < blk[t]
    /\ VecStore(t, fn(t).block, 32 * vec[t], 32)
    /\ vec' = [vec EXCEPT ![t] = @ + 1]
    /\ Goto(t, IF fn(t).block.clwb = "pair" /\ vec[t] % 4 = 3 THEN "vclwb" ELSE "vec")
    /\ UNCHANGED <<up, req, cursor, blk, need_flush, uptr, history, bounds>>

\* The kernel has loaded its vectors into registers and stores them in order.
BlockStore(t) ==
    /\ up /\ pc[t] = "vec" /\ vec[t] < blk[t]
    /\ VecStore(t, fn(t).block, 32 * vec[t], 32)
    /\ vec' = [vec EXCEPT ![t] = @ + 1]
    /\ Goto(t, IF fn(t).block.clwb = "pair" /\ vec[t] % 2 = 1 THEN "vclwb" ELSE "vec")
    /\ UNCHANGED <<up, req, cursor, blk, need_flush, uptr, history, bounds>>

\* clwb of the first of the two vectors just stored
BlockClwb(t) ==
    /\ up /\ pc[t] = "vclwb"
    /\ Clwb(t, dest[t] + 32 * (vec[t] - 2))
    /\ Goto(t, "vec")
    /\ UNCHANGED <<up, local, history, bounds>>

\* Mutant: dest, src and len are not advanced after the kernel.
BlockEndNoAdvance(t) ==
    /\ up /\ pc[t] = "vec" /\ vec[t] = blk[t]
    /\ Goto(t, After(blk[t]))
    /\ UNCHANGED <<hw, up, local, history, bounds>>

BlockEnd(t) ==
    /\ up /\ pc[t] = "vec" /\ vec[t] = blk[t]
    /\ Advance(t, 32 * blk[t])
    /\ Goto(t, After(blk[t]))
    /\ UNCHANGED <<hw, up, req, blk, vec, need_flush, uptr, history, bounds>>

-----------------------------------------------------------------------------
(***************************************************************************)
(* The end of the function.                                                *)
(***************************************************************************)
\* need_flush = (len != 0)
NeedFlush(t) ==
    /\ up /\ pc[t] = "need"
    /\ need_flush' = [need_flush EXCEPT ![t] = fn(t).edges = "need" /\ len[t] # 0]
    /\ Goto(t, "t32")
    /\ UNCHANGED <<hw, up, req, cursor, blk, vec, uptr, history, bounds>>

Tail(t) ==
    /\ up /\ pc[t] = "tail"
    /\ cpy_less_16b_noflush(t, len[t])
    /\ Goto(t, "fend")
    /\ UNCHANGED <<up, local, history, bounds>>

\* Mutant: the last clwb without its need_flush guard in every function.
TakeFlushEndUnguarded(t) == fn(t).edges # "none"

TakeFlushEnd(t) == need_flush[t] \/ fn(t).edges = "always"

\* A clwb of a line outside the mapping is an access to an unmapped page.
FlushEnd(t) ==
    /\ up /\ pc[t] = "fend"
    /\ IF TakeFlushEnd(t) THEN /\ Line(dest[t]) \cap Addr # {}
                               /\ Clwb(t, dest[t])
                          ELSE UNCHANGED hw
    /\ Goto(t, "ret")
    /\ UNCHANGED <<up, local, history, bounds>>

-----------------------------------------------------------------------------
(***************************************************************************)
(* The rest of the timed operation.                                        *)
(***************************************************************************)
\* Mutant: clwb_extent starts at addr, not at the line of addr.
ReturnUnaligned(t) ==
    /\ up /\ pc[t] = "ret"
    /\ uptr' = [uptr EXCEPT ![t] = req[t].d]
    /\ Goto(t, IF req[t].op.then = "nothing" THEN "idle" ELSE req[t].op.then)
    /\ UNCHANGED <<hw, up, req, cursor, blk, vec, need_flush, history, bounds>>

Return(t) ==
    /\ up /\ pc[t] = "ret"
    /\ uptr' = [uptr EXCEPT ![t] = LineBase(req[t].d)]
    /\ Goto(t, IF req[t].op.then = "nothing" THEN "idle" ELSE req[t].op.then)
    /\ UNCHANGED <<hw, up, req, cursor, blk, vec, need_flush, history, bounds>>

clwb_extent(t) ==
    /\ up /\ pc[t] = "extent"
    /\ IF uptr[t] < req[t].d + req[t].n
       THEN /\ Clwb(t, uptr[t])
            /\ uptr' = [uptr EXCEPT ![t] = @ + CACHELINE_SIZE]
            /\ UNCHANGED pc
       ELSE /\ Goto(t, "fence")
            /\ UNCHANGED <<hw, uptr>>
    /\ UNCHANGED <<up, req, cursor, blk, vec, need_flush, history, bounds>>

\* Mutant: the operation ends without its sfence.
FenceMissing(t) ==
    /\ up /\ pc[t] = "fence"
    /\ may' = [a \in Addr |-> IF a \in WriteRange(req[t]) THEN New(req[t], a)
                                                         ELSE may[a]]
    /\ Goto(t, "idle")
    /\ UNCHANGED <<hw, up, local, died, bounds>>

\* sfence; from here on the caller takes the bytes for durable.
Fence(t) ==
    /\ up /\ pc[t] = "fence"
    /\ Sfence(t)
    /\ may' = [a \in Addr |-> IF a \in WriteRange(req[t]) THEN New(req[t], a)
                                                         ELSE may[a]]
    /\ Goto(t, "idle")
    /\ UNCHANGED <<up, local, died, bounds>>

-----------------------------------------------------------------------------
(***************************************************************************)
(* What ends the process, and its next start on the same file.             *)
(***************************************************************************)
VectorFault(t) ==
    \/ pc[t] = "a16" /\ TakeA16(t) /\ ~Aligned(t, 16)
    \/ pc[t] = "a32" /\ TakeA32(t) /\ ~Aligned(t, 32)
    \/ TakeBlock(t) /\ ~Aligned(t, 32)
    \/ pc[t] = "t32" /\ TakeT32(t) /\ ~Aligned(t, 32)
    \/ pc[t] = "t16" /\ TakeT16(t) /\ ~Aligned(t, 16)

PageFault(t) == pc[t] = "fend" /\ TakeFlushEnd(t) /\ Line(dest[t]) \cap Addr = {}

\* The signal takes all threads with it; what is in the caches stays there.
Fault(t) ==
    /\ up /\ (VectorFault(t) \/ PageFault(t))
    /\ up' = FALSE
    /\ died' = died \cup {req[t]}
    /\ pc' = [u \in Thread |-> "idle"]
    /\ pend' = [u \in Thread |-> {}]
    /\ UNCHANGED <<mem, pm, local, may, bounds>>

PowerFailure ==
    /\ fails > 0
    /\ fails' = fails - 1
    /\ up' = FALSE
    /\ pc' = [u \in Thread |-> "idle"]
    /\ LosePower
    /\ UNCHANGED <<local, history, left>>

Restart ==
    /\ ~up
    /\ up' = TRUE
    /\ UNCHANGED <<hw, pc, local, history, bounds>>

Eviction ==
    /\ \E w \in EvictWords : Evict(w)
    /\ UNCHANGED <<up, pc, local, history, bounds>>

\* All calls are made and have returned.
Terminated ==
    /\ up /\ left = 0 /\ \A t \in Thread : pc[t] = "idle"
    /\ UNCHANGED vars

-----------------------------------------------------------------------------
NoRequest == [op |-> aep_just_load, d |-> 0, s |-> 0, n |-> 0]

Init ==
    /\ mem = [a \in Addr |-> Old]
    /\ pm = [a \in Addr |-> Old]
    /\ pend = [t \in Thread |-> {}]
    /\ up = TRUE
    /\ pc = [t \in Thread |-> "idle"]
    /\ req = [t \in Thread |-> NoRequest]
    /\ dest = [t \in Thread |-> 0]
    /\ src = [t \in Thread |-> 0]
    /\ len = [t \in Thread |-> 0]
    /\ blk = [t \in Thread |-> 2]
    /\ vec = [t \in Thread |-> 0]
    /\ need_flush = [t \in Thread |-> FALSE]
    /\ uptr = [t \in Thread |-> 0]
    /\ may = [a \in Addr |-> {Old}]
    /\ died = {}
    /\ left = MaxCalls
    /\ fails = MaxFailures

Step(t) ==
    \/ HeadSkip(t) \/ Head(t) \/ HeadNext(t)
    \/ A16(t) \/ A32(t) \/ FlushHead(t)
    \/ BlockEnter(t) \/ BlockSkip(t) \/ BlockStore(t) \/ BlockClwb(t) \/ BlockEnd(t)
    \/ NeedFlush(t) \/ T32(t) \/ T16(t) \/ Tail(t) \/ FlushEnd(t)
    \/ Return(t) \/ clwb_extent(t) \/ Fence(t)
    \/ Fault(t)

Next ==
    \/ \E t \in Thread : Step(t) \/ Call(t)
    \/ PowerFailure \/ Restart \/ Eviction \/ Terminated

Spec == Init /\ [][Next]_vars

\* A thread that can execute its next instruction does so.
FairSpec == Spec /\ \A t \in Thread : WF_vars(Step(t))

-----------------------------------------------------------------------------
PCs == {"idle", "head", "hnext", "a16", "a32", "fhead", "vec", "vclwb", "need",
        "t32", "t16", "tail", "fend", "ret", "extent", "fence"} \cup Blocks

\* The type invariant.
TypeOK ==
    /\ mem \in [Addr -> Int] /\ pm \in [Addr -> Int]
    /\ pend \in [Thread -> SUBSET Addr]
    /\ up \in BOOLEAN
    /\ pc \in [Thread -> PCs]
    /\ req \in [Thread -> Shape]
    /\ dest \in [Thread -> Nat] /\ src \in [Thread -> Nat] /\ len \in [Thread -> Nat]
    /\ blk \in [Thread -> {2, 4, 8, 16}]
    /\ vec \in [Thread -> 0 .. 16]
    /\ need_flush \in [Thread -> BOOLEAN]
    /\ uptr \in [Thread -> Nat]
    /\ may \in [Addr -> SUBSET Int]
    /\ died \subseteq Shape
    /\ left \in 0 .. MaxCalls /\ fails \in 0 .. MaxFailures

\* What survives: whenever the power fails, each byte of the mapping holds a
\* value it may have.  After the sfence of an operation that is the new value
\* alone (clwb_extent, or the clwb's of the _flush and ntstore functions,
\* missed no line); while a call runs, the value before it or the new one;
\* outside the destinations nothing has changed.
Durable == \A a \in Addr : pm[a] \in may[a]

\* What a reader sees: as Durable, of the volatile contents.  No store of any
\* function, whole vectors and overlapping short pieces included, lands
\* outside its destination or brings the wrong source byte.
Contained == \A a \in Addr : mem[a] \in may[a]

\* When the copy function returns, before any write-back the caller adds, the
\* whole destination holds the source (aep_test.cc compares them after the
\* bare call).
Copied ==
    \A t \in Thread : pc[t] \in {"ret", "extent", "fence"} =>
        \A a \in WriteRange(req[t]) : mem[a] \in New(req[t], a)

\* Only two calls kill the process: one whose source and destination differ
\* modulo 32, so that no head can align both, and a non-temporal one that ends
\* exactly where the mapping does.
FaultsExplained ==
    \A r \in died :
        \/ (r.s - r.d) % 32 # 0
        \/ /\ r.op.fn.edges = "always"
           /\ Line(r.d + r.n) \cap Addr = {}

\* A call writes back lines of its destination only.  The non-temporal
\* functions may also write back the line after it, because their last clwb
\* has no need_flush guard, and a call of length 0 the line dest points into.
Lines(r) == LineBase(r.d) .. (LineBase(r.d + r.n - 1) + CACHELINE_SIZE - 1)

WritesBackOwnLines ==
    [][\A t \in Thread : (up /\ pc[t] # "idle") =>
          pend'[t] \ pend[t] \subseteq
              (IF req[t].n = 0 THEN {} ELSE Lines(req[t]))
              \cup (IF fn(t).edges = "always" \/ req[t].n = 0
                    THEN Line(req[t].d + req[t].n) ELSE {})]_vars

\* Every call returns, or the process ends.
CallsReturn == \A t \in Thread : pc[t] # "idle" ~> pc[t] = "idle"
=============================================================================
