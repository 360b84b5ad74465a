--------------------------- MODULE AepCopyProofs ---------------------------
(***************************************************************************)
(* Proofs about AepCopy, for every set of threads, every mapping, every    *)
(* set of requests and every bound.                                        *)
(***************************************************************************)
EXTENDS AepCopyInv, TLAPS

-----------------------------------------------------------------------------
(***************************************************************************)
(* Facts about the table of operations.                                    *)
(***************************************************************************)
KernelSet == [load : {"none", "load", "ntload"},
              store : {"none", "store", "ntstore"}, clwb : {"none", "pair"}]

GoodOp(o) ==
    /\ o.fn.one \in KernelSet /\ o.fn.block \in KernelSet
    /\ o.fn.edges \in {"none", "need", "always"}
    /\ o.then \in {"nothing", "fence", "extent"}
    /\ o.fn.block.store = o.fn.one.store /\ o.fn.block.load = o.fn.one.load
    /\ o.fn.block.clwb = "pair" <=> o.fn.edges = "need"
    /\ o.fn.edges = "always" <=> o.fn.one.store = "ntstore"
    /\ o.fn.edges = "need" => o.fn.one.store = "store"
    /\ o.then = "fence" => o.fn.edges # "none"
    /\ o.then = "extent" => o.fn.edges = "none"
    /\ o.fn.one.store = "none" => o \in LoadOps

\* Every operation of aep_study.h and aep_test.cc is one the argument covers:
\* a fence comes after a function that writes lines back or after clwb_extent.
LEMMA OpsGood == \A o \in Ops : GoodOp(o)
<1>1. \A o \in LoadOps : GoodOp(o)
  BY DEF GoodOp, LoadOps, KernelSet, aep_just_load, aep_just_ntload, By, just_load,
         just_ntload, Fn, k_just_load, k_just_ntload, Kernels
<1>2. \A o \in JustStoreOps : GoodOp(o)
  BY DEF GoodOp, JustStoreOps, KernelSet, aep_just_store_flush_by_all,
         aep_just_store_flush_by_cacheline, aep_just_ntstore, By, just_store_noflush,
         just_store_flush, just_ntstore, Fn, k_just_store_noflush, k_just_store_flush,
         k_just_ntstore, Kernels
<1>3. \A o \in CopyOps : GoodOp(o)
  BY DEF GoodOp, CopyOps, KernelSet, aep_store_from_dram_flush_by_all,
         aep_store_from_dram_flush_by_cacheline,
         aep_ntstore_from_dram, aep_cpy_load_store_by_all,
         aep_cpy_load_store_by_cacheline, aep_cpy_load_ntstore,
         aep_cpy_ntload_store_by_all, aep_cpy_ntload_store_by_cacheline,
         aep_cpy_ntload_ntstore, By, cpy_load_store_noflush, cpy_load_store_flush,
         cpy_ntload_store_noflush, cpy_ntload_store_flush, cpy_load_ntstore,
         cpy_ntload_ntstore, Fn, k_load_store_noflush, k_load_store_flush,
         k_ntload_store_noflush, k_ntload_store_flush, k_load_ntstore,
         k_ntload_ntstore, Kernels
<1>4. \A o \in BareOps : GoodOp(o)
  BY DEF GoodOp, BareOps, KernelSet, By, cpy_load_store_noflush, cpy_load_store_flush,
         cpy_ntload_store_noflush, cpy_ntload_store_flush, cpy_load_ntstore,
         cpy_ntload_ntstore, Fn, k_load_store_noflush, k_load_store_flush,
         k_ntload_store_noflush, k_ntload_store_flush, k_load_ntstore,
         k_ntload_ntstore, Kernels
<1> QED
  BY <1>1, <1>2, <1>3, <1>4 DEF Ops

\* The one or two accesses of cpy_less_16b_noflush together touch exactly the
\* n bytes asked for.
LEMMA LessBytesExact ==
  ASSUME NEW n \in 0 .. 15
  PROVE  LessBytes(n) = 0 .. (n - 1)
BY DEF LessBytes, Piece

LEMMA LessBytesAt ==
  ASSUME NEW n \in 0 .. 15, NEW x \in Nat
  PROVE  {x + i : i \in LessBytes(n)} = x .. (x + n - 1)
<1>1. {x + i : i \in 0 .. (n - 1)} = x .. (x + n - 1)
  <2>1. ASSUME NEW b \in x .. (x + n - 1) PROVE b \in {x + i : i \in 0 .. (n - 1)}
    <3>1. b - x \in 0 .. (n - 1) /\ b = x + (b - x)
      OBVIOUS
    <3> QED
      BY <3>1
  <2> QED
    BY <2>1
<1> QED
  BY <1>1, LessBytesExact

-----------------------------------------------------------------------------
(***************************************************************************)
(* Type correctness.  TypeOK alone is not inductive: len stays a natural   *)
(* number only because a kernel is entered when there is enough left.      *)
(***************************************************************************)
HwType == /\ mem \in [Addr -> Int] /\ pm \in [Addr -> Int]
          /\ pend \in [Thread -> SUBSET Addr]

TypeInv == TypeOK /\ \A t \in Thread : BlockOK(t)

LEMMA DataType ==
  ASSUME TypeOK, NEW t \in Thread, NEW c \in Int
  PROVE  Data(t, c) \in [Addr -> Int]
BY AddrAssumption DEF TypeOK, Data

LEMMA LineBaseNat == \A a \in Nat : LineBase(a) \in Nat
BY DEF LineBase, CACHELINE_SIZE

LEMMA HeadCountType ==
  ASSUME TypeOK, NEW t \in Thread
  PROVE  HeadCount(t) \in 0 .. 16 /\ HeadCount(t) <= len[t]
BY DEF TypeOK, HeadCount

\* No operation of the memory leaves its type.
LEMMA HwStepType ==
  ASSUME TypeOK, NEW t \in Thread
  PROVE  /\ UNCHANGED hw => HwType'
         /\ \A W, c : c \in Int /\ Store(W, Data(t, c)) => HwType'
         /\ \A W, c : c \in Int /\ NtStore(t, W, Data(t, c)) => HwType'
         /\ \A a : Clwb(t, a) => HwType'
         /\ Sfence(t) => HwType'
<1> USE DEF TypeOK, HwType
<1>1. UNCHANGED hw => HwType'
  BY DEF hw
<1>2. ASSUME NEW W, NEW c \in Int, Store(W, Data(t, c)) PROVE HwType'
  BY <1>2, DataType DEF Store
<1>3. ASSUME NEW W, NEW c \in Int, NtStore(t, W, Data(t, c)) PROVE HwType'
  BY <1>3, DataType DEF NtStore
<1>4. ASSUME NEW a, Clwb(t, a) PROVE HwType'
  BY <1>4 DEF Clwb
<1>5. Sfence(t) => HwType'
  BY DEF Sfence
<1> QED
  BY <1>1, <1>2, <1>3, <1>4, <1>5

LEMMA LessType ==
  ASSUME TypeOK, NEW t \in Thread, NEW n, cpy_less_16b_noflush(t, n)
  PROVE  HwType'
BY HwStepType DEF cpy_less_16b_noflush, Ones

LEMMA VecStoreType ==
  ASSUME TypeOK, NEW t \in Thread, NEW k \in KernelSet, NEW off, NEW w,
         VecStore(t, k, off, w)
  PROVE  HwType'
<1> DEFINE W == (dest[t] + off) .. (dest[t] + off + w - 1)
<1>1. k.store \in {"none", "store", "ntstore"}
  BY DEF KernelSet
<1>2. \/ UNCHANGED hw
      \/ Store(W, Data(t, Junk))
      \/ NtStore(t, W, Data(t, Junk))
  BY <1>1 DEF VecStore
<1>3. Junk \in Int
  BY DEF Junk
<1> HIDE DEF W
<1> QED
  BY <1>2, <1>3, HwStepType

LEMMA FnType ==
  ASSUME TypeOK, NEW t \in Thread
  PROVE  GoodOp(req[t].op) /\ fn(t).one \in KernelSet /\ fn(t).block \in KernelSet
<1>1. req[t].op \in Ops
  BY DEF TypeOK, Shape
<1> QED
  BY <1>1, OpsGood DEF GoodOp, fn

LEMMA TypeInit == Init => TypeInv
<1> SUFFICES ASSUME Init PROVE TypeInv
  OBVIOUS
<1>1. NoRequest \in Shape
  BY DEF NoRequest, Shape, Ops, LoadOps
<1> QED
  BY <1>1, BoundsAssumption DEF Init, TypeInv, TypeOK, BlockOK, InBlock, Old, PCs

\* What a step that leaves the cursor and the kernel alone has to show.
LEMMA VecStepType ==
  ASSUME TypeInv, NEW t \in Thread, NEW from, NEW to \in PCs \ InBlock, NEW w \in {16, 32},
         NEW take \in BOOLEAN, take => len[t] >= w, VecStep(t, from, take, w, to)
  PROVE  TypeInv'
<1>1. HwType'
  <2>1. CASE take
    BY <2>1, VecStoreType, FnType DEF VecStep, TypeInv
  <2>2. CASE ~take
    BY <2>2, HwStepType DEF VecStep, TypeInv
  <2> QED
    BY <2>1, <2>2
<1>2. /\ dest' \in [Thread -> Nat] /\ src' \in [Thread -> Nat] /\ len' \in [Thread -> Nat]
      /\ \A u \in Thread : u # t => len'[u] = len[u]
  <2>1. CASE take
    BY <2>1 DEF VecStep, TypeInv, TypeOK, Advance
  <2>2. CASE ~take
    BY <2>2 DEF VecStep, TypeInv, TypeOK, cursor
  <2> QED
    BY <2>1, <2>2
<1>3. pc' = [pc EXCEPT ![t] = to]
  BY DEF VecStep, Goto
<1> QED
  BY <1>1, <1>2, <1>3 DEF VecStep, TypeInv, TypeOK, HwType, BlockOK, history, bounds, InBlock

LEMMA TypeStep == TypeInv /\ [Next]_vars => TypeInv'
<1> SUFFICES ASSUME TypeInv, [Next]_vars PROVE TypeInv'
  OBVIOUS
<1> USE DEF TypeInv
<1> DEFINE Rest == /\ pc' \in [Thread -> PCs] /\ req' \in [Thread -> Shape]
                   /\ dest' \in [Thread -> Nat] /\ src' \in [Thread -> Nat]
                   /\ len' \in [Thread -> Nat]
                   /\ blk' \in [Thread -> {2, 4, 8, 16}] /\ vec' \in [Thread -> 0 .. 16]
                   /\ need_flush' \in [Thread -> BOOLEAN] /\ uptr' \in [Thread -> Nat]
                   /\ \A u \in Thread : BlockOK(u)'
<1>1. ASSUME NEW t \in Thread, Call(t) PROVE TypeInv'
  <2>1. PICK r \in Requests : Begin(t, r)
    BY <1>1 DEF Call
  <2>2. r \in Shape /\ r.d \in Nat /\ r.s \in Nat /\ r.n \in Nat
    BY RequestsAssumption DEF Shape
  <2>3. \A a \in Addr : New(r, a) \subseteq Int
    BY <2>2, AddrAssumption DEF New, Ones, Junk
  <2>4. may' \in [Addr -> SUBSET Int]
    BY <2>1, <2>3 DEF Begin, TypeOK
  <2>5. HwType'
    BY <2>1, HwStepType DEF Begin
  <2>6. Rest
    BY <2>1, <2>2 DEF Begin, TypeOK, Goto, PCs, BlockOK, InBlock
  <2> QED
    BY <2>1, <2>4, <2>5, <2>6, <1>1, BoundsAssumption DEF Begin, Call, TypeOK, HwType
<1>2. ASSUME NEW t \in Thread, HeadSkip(t) PROVE TypeInv'
  BY <1>2 DEF HeadSkip, TypeOK, hw, local, cursor, history, bounds, Goto, PCs, BlockOK, InBlock
<1>3. ASSUME NEW t \in Thread, Head(t) PROVE TypeInv'
  <2>1. HwType'
    BY <1>3, LessType DEF Head
  <2> QED
    BY <1>3, <2>1 DEF Head, TypeOK, HwType, local, cursor, history, bounds, Goto, PCs, BlockOK, InBlock
<1>4. ASSUME NEW t \in Thread, HeadNext(t) PROVE TypeInv'
  <2>1. HwType'
    BY <1>4, HwStepType DEF HeadNext
  <2>2. HeadCount(t) \in Nat /\ HeadCount(t) <= len[t]
    BY HeadCountType
  <2>3. Rest
    BY <1>4, <2>2 DEF HeadNext, TypeOK, Advance, Goto, PCs, BlockOK, InBlock
  <2> QED
    BY <1>4, <2>1, <2>3 DEF HeadNext, TypeOK, HwType, history, bounds
<1>5. ASSUME NEW t \in Thread, A16(t) PROVE TypeInv'
  <2>1. TakeA16(t) \in BOOLEAN /\ (TakeA16(t) => len[t] >= 16)
    BY DEF TakeA16, Bit
  <2>2. "a32" \in PCs \ InBlock
    BY DEF PCs, InBlock
  <2> QED
    BY <1>5, <2>1, <2>2, VecStepType DEF A16
<1>6. ASSUME NEW t \in Thread, A32(t) PROVE TypeInv'
  <2>1. TakeA32(t) \in BOOLEAN /\ (TakeA32(t) => len[t] >= 32)
    BY DEF TakeA32, Bit
  <2>2. "fhead" \in PCs \ InBlock
    BY DEF PCs, InBlock
  <2> QED
    BY <1>6, <2>1, <2>2, VecStepType DEF A32
<1>7. ASSUME NEW t \in Thread, T32(t) PROVE TypeInv'
  <2>1. TakeT32(t) \in BOOLEAN /\ (TakeT32(t) => len[t] >= 32)
    BY DEF TakeT32
  <2>2. "t16" \in PCs \ InBlock
    BY DEF PCs, InBlock
  <2> QED
    BY <1>7, <2>1, <2>2, VecStepType DEF T32
<1>8. ASSUME NEW t \in Thread, T16(t) PROVE TypeInv'
  <2>1. TakeT16(t) \in BOOLEAN /\ (TakeT16(t) => len[t] >= 16)
    BY DEF TakeT16
  <2>2. "tail" \in PCs \ InBlock
    BY DEF PCs, InBlock
  <2> QED
    BY <1>8, <2>1, <2>2, VecStepType DEF T16
<1>9. ASSUME NEW t \in Thread, FlushHead(t) PROVE TypeInv'
  <2>1. HwType'
    BY <1>9, HwStepType DEF FlushHead
  <2> QED
    BY <1>9, <2>1
    DEF FlushHead, TypeOK, HwType, local, cursor, history, bounds, Goto, PCs, Blocks, BlockOK, InBlock
<1>10. ASSUME NEW t \in Thread, BlockEnter(t) PROVE TypeInv'
  <2>1. Vectors(pc[t]) \in {2, 4, 8, 16} /\ len[t] >= 32 * Vectors(pc[t])
    BY <1>10 DEF BlockEnter, TakeBlock, Blocks, Vectors
  <2> QED
    BY <1>10, <2>1
    DEF BlockEnter, TypeOK, hw, cursor, history, bounds, Goto, PCs, BlockOK, InBlock
<1>11. ASSUME NEW t \in Thread, BlockSkip(t) PROVE TypeInv'
  <2>1. SkipTo(pc[t]) \in PCs \ InBlock
    BY <1>11 DEF BlockSkip, Blocks, SkipTo, PCs, InBlock
  <2> QED
    BY <1>11, <2>1
    DEF BlockSkip, TypeOK, hw, local, cursor, history, bounds, Goto, BlockOK, InBlock
<1>12. ASSUME NEW t \in Thread, BlockStore(t) PROVE TypeInv'
  <2>1. HwType'
    BY <1>12, VecStoreType, FnType DEF BlockStore
  <2>2. vec[t] + 1 \in 0 .. 16 /\ vec[t] + 1 <= blk[t] /\ 32 * blk[t] <= len[t]
    BY <1>12 DEF BlockStore, TypeOK, BlockOK, InBlock
  <2>3. vec[t] % 2 = 1 => vec[t] + 1 \in {2, 4, 6, 8, 10, 12, 14, 16}
    BY <2>2 DEF TypeOK
  <2> QED
    BY <1>12, <2>1, <2>2, <2>3
    DEF BlockStore, TypeOK, HwType, cursor, history, bounds, Goto, PCs, BlockOK, InBlock
<1>13. ASSUME NEW t \in Thread, BlockClwb(t) PROVE TypeInv'
  <2>1. HwType'
    BY <1>13, HwStepType DEF BlockClwb
  <2> QED
    BY <1>13, <2>1
    DEF BlockClwb, TypeOK, HwType, local, cursor, history, bounds, Goto, PCs, BlockOK, InBlock
<1>14. ASSUME NEW t \in Thread, BlockEnd(t) PROVE TypeInv'
  <2>1. After(blk[t]) \in PCs \ InBlock
    BY <1>14 DEF TypeOK, After, PCs, Blocks, InBlock
  <2>2. 32 * blk[t] <= len[t]
    BY <1>14 DEF BlockEnd, BlockOK, InBlock
  <2> QED
    BY <1>14, <2>1, <2>2
    DEF BlockEnd, TypeOK, hw, Advance, history, bounds, Goto, BlockOK, InBlock
<1>15. ASSUME NEW t \in Thread, NeedFlush(t) PROVE TypeInv'
  BY <1>15 DEF NeedFlush, TypeOK, hw, cursor, history, bounds, Goto, PCs, BlockOK, InBlock
<1>16. ASSUME NEW t \in Thread, Tail(t) PROVE TypeInv'
  <2>1. HwType'
    BY <1>16, LessType DEF Tail
  <2> QED
    BY <1>16, <2>1 DEF Tail, TypeOK, HwType, local, cursor, history, bounds, Goto, PCs, BlockOK, InBlock
<1>17. ASSUME NEW t \in Thread, FlushEnd(t) PROVE TypeInv'
  <2>1. HwType'
    BY <1>17, HwStepType DEF FlushEnd
  <2> QED
    BY <1>17, <2>1
    DEF FlushEnd, TypeOK, HwType, local, cursor, history, bounds, Goto, PCs, BlockOK, InBlock
<1>18. ASSUME NEW t \in Thread, Return(t) PROVE TypeInv'
  <2>1. req[t].op.then \in {"nothing", "fence", "extent"}
    BY FnType DEF GoodOp
  <2>2. LineBase(req[t].d) \in Nat
    BY LineBaseNat DEF TypeOK, Shape
  <2> QED
    BY <1>18, <2>1, <2>2
    DEF Return, TypeOK, hw, cursor, history, bounds, Goto, PCs, BlockOK, InBlock
<1>19. ASSUME NEW t \in Thread, clwb_extent(t) PROVE TypeInv'
  <2>1. HwType'
    BY <1>19, HwStepType DEF clwb_extent, hw
  <2>2. uptr' \in [Thread -> Nat] /\ pc' \in [Thread -> PCs]
    BY <1>19 DEF clwb_extent, TypeOK, Goto, PCs, CACHELINE_SIZE
  <2>3. \A u \in Thread : pc'[u] \in InBlock => pc[u] = pc'[u]
    BY <1>19 DEF clwb_extent, TypeOK, Goto, InBlock
  <2> QED
    BY <1>19, <2>1, <2>2, <2>3 DEF clwb_extent, TypeOK, HwType, cursor, history, bounds, BlockOK
<1>20. ASSUME NEW t \in Thread, Fence(t) PROVE TypeInv'
  <2>1. HwType'
    BY <1>20, HwStepType DEF Fence
  <2>2. \A a \in Addr : New(req[t], a) \subseteq Int
    <3>1. req[t].s \in Nat /\ req[t].d \in Nat
      BY DEF TypeOK, Shape
    <3> QED
      BY <3>1, AddrAssumption DEF New, Ones, Junk
  <2>3. may' \in [Addr -> SUBSET Int]
    BY <1>20, <2>2 DEF Fence, TypeOK
  <2> QED
    BY <1>20, <2>1, <2>3 DEF Fence, TypeOK, HwType, local, cursor, bounds, Goto, PCs, BlockOK, InBlock
<1>21. ASSUME NEW t \in Thread, Fault(t) PROVE TypeInv'
  BY <1>21 DEF Fault, TypeOK, local, cursor, bounds, PCs, BlockOK, InBlock
<1>22. CASE PowerFailure
  <2>1. HwType' /\ fails' \in 0 .. MaxFailures
    BY <1>22, BoundsAssumption DEF PowerFailure, LosePower, TypeOK, HwType
  <2>2. Rest
    BY <1>22 DEF PowerFailure, TypeOK, local, cursor, PCs, BlockOK, InBlock
  <2> QED
    BY <1>22, <2>1, <2>2 DEF PowerFailure, TypeOK, HwType, history
<1>23. CASE Restart
  BY <1>23 DEF Restart, TypeOK, hw, local, cursor, history, bounds, BlockOK
<1>24. CASE Eviction
  BY <1>24 DEF Eviction, Evict, TypeOK, local, cursor, history, bounds, BlockOK
<1>25. CASE Terminated \/ UNCHANGED vars
  BY <1>25 DEF Terminated, vars, TypeOK, hw, local, cursor, history, bounds, BlockOK
<1> QED
  BY <1>1, <1>2, <1>3, <1>4, <1>5, <1>6, <1>7, <1>8, <1>9, <1>10, <1>11, <1>12, <1>13,
     <1>14, <1>15, <1>16, <1>17, <1>18, <1>19, <1>20, <1>21, <1>22, <1>23, <1>24, <1>25
  DEF Next, Step

\* Type correctness of the copy functions: no value of any parameter makes len
\* or a pointer leave its type, whatever the threads, requests and failures.
THEOREM TypeCorrect == Spec => []TypeOK
<1>1. TypeInv => TypeOK
  BY DEF TypeInv
<1> QED
  BY <1>1, TypeInit, TypeStep, PTL DEF Spec

-----------------------------------------------------------------------------
(***************************************************************************)
(* The thread's own variables: the cursor, its alignment and need_flush.   *)
(***************************************************************************)
LocalInv == TypeInv /\ (~up => \A t \in Thread : ~busy(t))
                    /\ \A t \in Thread : LocalOK(t)

SameLocals(u) == /\ pc'[u] = pc[u] /\ req'[u] = req[u] /\ dest'[u] = dest[u]
                 /\ src'[u] = src[u] /\ len'[u] = len[u] /\ blk'[u] = blk[u]
                 /\ vec'[u] = vec[u] /\ need_flush'[u] = need_flush[u]
                 /\ uptr'[u] = uptr[u]

\* A thread's own variables are written by no other thread.
LEMMA OthersLocals ==
  ASSUME TypeOK, NEW t \in Thread, NEW u \in Thread, u # t,
         (Step(t) /\ ~Fault(t)) \/ Call(t)
  PROVE  SameLocals(u)
<1> USE DEF TypeOK, SameLocals, Goto, Advance, local, cursor
<1>1. CASE Call(t)
  BY <1>1 DEF Call, Begin
<1>2. CASE HeadSkip(t) \/ Head(t) \/ HeadNext(t)
  BY <1>2 DEF HeadSkip, Head, HeadNext
<1>3. CASE A16(t) \/ A32(t) \/ T32(t) \/ T16(t)
  <2>1. PICK from, take, w, to : VecStep(t, from, take, w, to)
    BY <1>3 DEF A16, A32, T32, T16
  <2> QED
    BY <2>1 DEF VecStep
<1>4. CASE FlushHead(t) \/ FlushEnd(t) \/ NeedFlush(t) \/ Tail(t)
  BY <1>4 DEF FlushHead, FlushEnd, NeedFlush, Tail
<1>5. CASE BlockEnter(t) \/ BlockSkip(t) \/ BlockStore(t) \/ BlockClwb(t) \/ BlockEnd(t)
  BY <1>5 DEF BlockEnter, BlockSkip, BlockStore, BlockClwb, BlockEnd
<1>6. CASE Return(t) \/ clwb_extent(t) \/ Fence(t)
  BY <1>6 DEF Return, clwb_extent, Fence
<1> QED
  BY <1>1, <1>2, <1>3, <1>4, <1>5, <1>6 DEF Step

LEMMA LocalFrame ==
  ASSUME NEW t \in Thread, SameLocals(t), LocalOK(t)
  PROVE  LocalOK(t)'
BY DEF SameLocals, LocalOK, CursorOK, AlignOK, NeedOK, busy, fn

LEMMA IdleLocal ==
  ASSUME NEW t \in Thread, pc'[t] = "idle"
  PROVE  LocalOK(t)'
BY DEF LocalOK, CursorOK, AlignOK, busy, Heads, Blocks, InBlock, Tails

LEMMA LocalInit == Init => LocalInv
<1> SUFFICES ASSUME Init PROVE LocalInv
  OBVIOUS
<1>1. TypeInv
  BY TypeInit
<1>2. \A t \in Thread : pc[t] = "idle"
  BY DEF Init
<1> QED
  BY <1>1, <1>2 DEF LocalInv, LocalOK, CursorOK, AlignOK, busy, Heads, Blocks, InBlock, Tails, Init

(***************************************************************************)
(* Arithmetic of lines.                                                    *)
(***************************************************************************)
LEMMA LineBaseAligned ==
  ASSUME NEW x \in Nat
  PROVE  LineBase(x) \in Nat /\ LineBase(x) % 64 = 0 /\ LineBase(x) <= x /\ x < LineBase(x) + 64
BY DEF LineBase, CACHELINE_SIZE

LEMMA HeadInLine ==
  ASSUME NEW x \in Nat, NEW c \in Nat, x % 16 # 0, c <= 16 - (x % 16)
  PROVE  x + c <= LineBase(x) + 64 /\ x % 64 # 0
<1>1. x % 64 # 0 /\ (x % 64) % 16 = x % 16
  OBVIOUS
<1>2. (x % 64) + c <= 64
  BY <1>1
<1> QED
  BY <1>1, <1>2 DEF LineBase, CACHELINE_SIZE

LEMMA VectorInLine ==
  ASSUME NEW x \in Nat, NEW b \in Nat, b % 64 = 0, x <= b + 64, NEW w \in {16, 32},
         x % w = 0, x % 64 # 0
  PROVE  x + w <= b + 64
OBVIOUS

\* Facts about the request of a running call.
LEMMA RequestFacts ==
  ASSUME LocalInv, NEW t \in Thread, busy(t)
  PROVE  /\ req[t] \in Requests /\ req[t] \in Shape
         /\ req[t].d \in Nat /\ req[t].s \in Nat /\ req[t].n \in Nat
         /\ dest[t] \in Nat /\ src[t] \in Nat /\ len[t] \in Nat
         /\ req[t].d <= dest[t] /\ dest[t] + len[t] = req[t].d + req[t].n
         /\ src[t] - dest[t] = req[t].s - req[t].d
         /\ AlignOK(t) /\ NeedOK(t)
BY DEF LocalInv, LocalOK, CursorOK, TypeInv, TypeOK, Shape

LEMMA LocalCall ==
  ASSUME LocalInv, NEW t \in Thread, Call(t)
  PROVE  LocalOK(t)'
<1>1. PICK r \in Requests : Begin(t, r)
  BY DEF Call
<1>2. r.d \in Nat /\ r.s \in Nat /\ r.n \in Nat
  BY RequestsAssumption DEF Shape
<1>3. /\ pc'[t] = "head" /\ req'[t] = r /\ dest'[t] = r.d /\ src'[t] = r.s /\ len'[t] = r.n
      /\ need_flush'[t] = (r.op.fn.edges = "need" /\ r.d % 64 # 0)
  BY <1>1 DEF Begin, LocalInv, TypeInv, TypeOK, Goto, CACHELINE_SIZE
<1>4. CursorOK(t)'
  BY <1>2, <1>3 DEF CursorOK
<1>5. AlignOK(t)'
  BY <1>3 DEF AlignOK, Heads, Blocks, InBlock, Tails
<1>6. NeedOK(t)'
  BY <1>3 DEF NeedOK, fn, Heads, Tails
<1> QED
  BY <1>4, <1>5, <1>6 DEF LocalOK

LEMMA LocalHead ==
  ASSUME LocalInv, NEW t \in Thread, HeadSkip(t) \/ Head(t) \/ HeadNext(t)
  PROVE  LocalOK(t)'
<1>1. CASE HeadSkip(t)
  <2>1. /\ pc[t] = "head" /\ dest[t] % 16 = 0 /\ pc'[t] = "a16" /\ req'[t] = req[t] /\ dest'[t] = dest[t]
        /\ src'[t] = src[t] /\ len'[t] = len[t] /\ need_flush'[t] = need_flush[t]
    BY <1>1 DEF HeadSkip, LocalInv, TypeInv, TypeOK, Goto, local, cursor
  <2>2. dest[t] = req[t].d /\ dest[t] \in Nat /\ CursorOK(t) /\ NeedOK(t)
    BY <2>1, RequestFacts DEF busy, AlignOK, LocalInv, LocalOK
  <2>3. dest[t] <= LineBase(dest[t]) + 64
    BY <2>2 DEF LineBase, CACHELINE_SIZE
  <2>4. CursorOK(t)' /\ AlignOK(t)'
    BY <2>1, <2>2 DEF CursorOK, busy, AlignOK, Heads, Blocks, InBlock, Tails
  <2>5. NeedOK(t)'
    BY <2>1, <2>2, <2>3 DEF NeedOK, fn, Heads, Tails
  <2> QED
    BY <2>4, <2>5 DEF LocalOK
<1>2. CASE Head(t)
  <2>1. /\ pc[t] = "head" /\ dest[t] % 16 # 0 /\ pc'[t] = "hnext" /\ req'[t] = req[t] /\ dest'[t] = dest[t]
        /\ src'[t] = src[t] /\ len'[t] = len[t] /\ need_flush'[t] = need_flush[t]
    BY <1>2 DEF Head, LocalInv, TypeInv, TypeOK, Goto, local, cursor
  <2>2. dest[t] = req[t].d /\ CursorOK(t) /\ NeedOK(t)
    BY <2>1, RequestFacts DEF busy, AlignOK, LocalInv, LocalOK
  <2>3. CursorOK(t)' /\ AlignOK(t)'
    BY <2>1, <2>2 DEF CursorOK, busy, AlignOK, Heads, Blocks, InBlock, Tails
  <2>4. NeedOK(t)'
    BY <2>1, <2>2 DEF NeedOK, fn, Heads, Tails
  <2> QED
    BY <2>3, <2>4 DEF LocalOK
<1>3. CASE HeadNext(t)
  <2> DEFINE c == HeadCount(t)
  <2>1. /\ pc[t] = "hnext" /\ pc'[t] = "a16" /\ req'[t] = req[t] /\ dest'[t] = dest[t] + c
        /\ src'[t] = src[t] + c /\ len'[t] = len[t] - c /\ need_flush'[t] = need_flush[t]
    BY <1>3 DEF HeadNext, LocalInv, TypeInv, TypeOK, Goto, Advance
  <2>2. dest[t] = req[t].d /\ dest[t] % 16 # 0 /\ dest[t] \in Nat /\ src[t] \in Nat /\ len[t] \in Nat
    BY <2>1, RequestFacts DEF busy, AlignOK
  <2>3. CursorOK(t) /\ NeedOK(t) /\ req[t].n \in Nat /\ req[t].s \in Nat
    BY <2>1, RequestFacts DEF busy, LocalInv, LocalOK
  <2>4. c \in Nat /\ c <= len[t] /\ c <= 16 - (dest[t] % 16)
    BY <2>2 DEF HeadCount
  <2>5. len[t] - c > 0 => c = 16 - (dest[t] % 16)
    BY <2>2 DEF HeadCount
  <2>6. len[t] - c > 0 => (dest[t] + c) % 16 = 0
    BY <2>2, <2>5
  <2>7. dest[t] + c <= LineBase(dest[t]) + 64 /\ dest[t] % 64 # 0
    BY <2>2, <2>4, HeadInLine
  <2> HIDE DEF c
  <2>8. CursorOK(t)'
    BY <2>1, <2>2, <2>3, <2>4 DEF CursorOK, busy
  <2>9. AlignOK(t)'
    BY <2>1, <2>6 DEF AlignOK, Heads, Blocks, InBlock, Tails
  <2>10. NeedOK(t)'
    BY <2>1, <2>2, <2>3, <2>7 DEF NeedOK, fn, Heads, Tails
  <2> QED
    BY <2>8, <2>9, <2>10 DEF LocalOK
<1> QED
  BY <1>1, <1>2, <1>3

\* Advancing the cursor by at most len keeps its parts together.
LEMMA CursorAdvance ==
  ASSUME LocalInv, NEW t \in Thread, busy(t), NEW w \in Nat, w <= len[t],
         req'[t] = req[t], dest'[t] = dest[t] + w, src'[t] = src[t] + w, len'[t] = len[t] - w
  PROVE  CursorOK(t)'
BY RequestFacts DEF CursorOK

LEMMA CursorStays ==
  ASSUME LocalInv, NEW t \in Thread, busy(t),
         req'[t] = req[t], dest'[t] = dest[t], src'[t] = src[t], len'[t] = len[t]
  PROVE  CursorOK(t)'
BY RequestFacts DEF CursorOK

LEMMA LocalA16 ==
  ASSUME LocalInv, NEW t \in Thread, A16(t)
  PROVE  LocalOK(t)'
<1>1. /\ pc[t] = "a16" /\ pc'[t] = "a32" /\ req'[t] = req[t] /\ need_flush'[t] = need_flush[t]
      /\ TakeA16(t) => dest'[t] = dest[t] + 16 /\ src'[t] = src[t] + 16 /\ len'[t] = len[t] - 16
      /\ ~TakeA16(t) => dest'[t] = dest[t] /\ src'[t] = src[t] /\ len'[t] = len[t]
  BY DEF A16, VecStep, LocalInv, TypeInv, TypeOK, Goto, Advance, cursor
<1>2. busy(t) /\ dest[t] \in Nat /\ len[t] \in Nat /\ req[t].d \in Nat /\ NeedOK(t) /\ req[t].d <= dest[t]
  BY <1>1, RequestFacts DEF busy
<1>3. /\ len[t] > 0 => dest[t] % 16 = 0
      /\ dest[t] <= LineBase(req[t].d) + 64
  BY <1>1, <1>2, RequestFacts DEF AlignOK, NeedOK, Heads
<1>4. CASE TakeA16(t)
  <2>1. dest[t] % 16 = 0 /\ (dest[t] \div 16) % 2 = 1 /\ len[t] >= 16
    BY <1>2, <1>3, <1>4 DEF TakeA16, Bit
  <2>2. dest[t] % 32 = 16 /\ (dest[t] + 16) % 32 = 0 /\ (dest[t] + 16) % 16 = 0 /\ dest[t] % 64 # 0
    BY <1>2, <2>1
  <2>3. dest[t] + 16 <= LineBase(req[t].d) + 64
    BY <1>2, <1>3, <2>1, <2>2, LineBaseAligned, VectorInLine
  <2>4. CursorOK(t)'
    BY <1>1, <1>2, <1>4, <2>1, CursorAdvance
  <2>5. AlignOK(t)'
    BY <1>1, <1>4, <2>2 DEF AlignOK, Heads, Blocks, InBlock, Tails
  <2>6. fn(t).edges = "need" => (need_flush[t] <=> req[t].d % 64 # 0) /\ need_flush[t]
    BY <1>1, <1>2, <2>2 DEF NeedOK, Heads
  <2>7. NeedOK(t)'
    BY <1>1, <1>2, <1>4, <2>3, <2>6 DEF NeedOK, fn, Heads, Tails
  <2> QED
    BY <2>4, <2>5, <2>7 DEF LocalOK
<1>5. CASE ~TakeA16(t)
  <2>1. len[t] >= 16 => dest[t] % 32 = 0
    BY <1>2, <1>3, <1>5 DEF TakeA16, Bit
  <2>2. CursorOK(t)'
    BY <1>1, <1>2, <1>5, CursorStays
  <2>3. AlignOK(t)'
    BY <1>1, <1>3, <1>5, <2>1 DEF AlignOK, Heads, Blocks, InBlock, Tails
  <2>4. NeedOK(t)'
    BY <1>1, <1>2, <1>5 DEF NeedOK, fn, Heads, Tails
  <2> QED
    BY <2>2, <2>3, <2>4 DEF LocalOK
<1> QED
  BY <1>4, <1>5

LEMMA LocalA32 ==
  ASSUME LocalInv, NEW t \in Thread, A32(t)
  PROVE  LocalOK(t)'
<1>1. /\ pc[t] = "a32" /\ pc'[t] = "fhead" /\ req'[t] = req[t] /\ need_flush'[t] = need_flush[t]
      /\ TakeA32(t) => dest'[t] = dest[t] + 32 /\ src'[t] = src[t] + 32 /\ len'[t] = len[t] - 32
      /\ ~TakeA32(t) => dest'[t] = dest[t] /\ src'[t] = src[t] /\ len'[t] = len[t]
  BY DEF A32, VecStep, LocalInv, TypeInv, TypeOK, Goto, Advance, cursor
<1>2. busy(t) /\ dest[t] \in Nat /\ len[t] \in Nat /\ req[t].d \in Nat /\ NeedOK(t) /\ req[t].d <= dest[t]
  BY <1>1, RequestFacts DEF busy
<1>3. /\ len[t] > 0 => dest[t] % 16 = 0
      /\ len[t] >= 16 => dest[t] % 32 = 0
      /\ dest[t] <= LineBase(req[t].d) + 64
  BY <1>1, <1>2, RequestFacts DEF AlignOK, NeedOK, Heads
<1>4. CASE TakeA32(t)
  <2>1. dest[t] % 32 = 0 /\ (dest[t] \div 32) % 2 = 1 /\ len[t] >= 32
    BY <1>2, <1>3, <1>4 DEF TakeA32, Bit
  <2>2. (dest[t] + 32) % 64 = 0 /\ (dest[t] + 32) % 32 = 0 /\ (dest[t] + 32) % 16 = 0 /\ dest[t] % 64 # 0
    BY <1>2, <2>1
  <2>3. dest[t] + 32 <= LineBase(req[t].d) + 64
    BY <1>2, <1>3, <2>1, <2>2, LineBaseAligned, VectorInLine
  <2>4. CursorOK(t)'
    BY <1>1, <1>2, <1>4, <2>1, CursorAdvance
  <2>5. AlignOK(t)'
    BY <1>1, <1>4, <2>2 DEF AlignOK, Heads, Blocks, InBlock, Tails
  <2>6. fn(t).edges = "need" => (need_flush[t] <=> req[t].d % 64 # 0) /\ need_flush[t]
    BY <1>1, <1>2, <2>2 DEF NeedOK, Heads
  <2>7. NeedOK(t)'
    BY <1>1, <1>2, <1>4, <2>3, <2>6 DEF NeedOK, fn, Heads, Tails
  <2> QED
    BY <2>4, <2>5, <2>7 DEF LocalOK
<1>5. CASE ~TakeA32(t)
  <2>1. len[t] >= 32 => dest[t] % 64 = 0
    BY <1>2, <1>3, <1>5 DEF TakeA32, Bit
  <2>2. CursorOK(t)'
    BY <1>1, <1>2, <1>5, CursorStays
  <2>3. AlignOK(t)'
    BY <1>1, <1>3, <1>5, <2>1 DEF AlignOK, Heads, Blocks, InBlock, Tails
  <2>4. NeedOK(t)'
    BY <1>1, <1>2, <1>5 DEF NeedOK, fn, Heads, Tails
  <2> QED
    BY <2>2, <2>3, <2>4 DEF LocalOK
<1> QED
  BY <1>4, <1>5

LEMMA LocalT32 ==
  ASSUME LocalInv, NEW t \in Thread, T32(t)
  PROVE  LocalOK(t)'
<1>1. /\ pc[t] = "t32" /\ pc'[t] = "t16" /\ req'[t] = req[t] /\ need_flush'[t] = need_flush[t]
      /\ TakeT32(t) => dest'[t] = dest[t] + 32 /\ src'[t] = src[t] + 32 /\ len'[t] = len[t] - 32
      /\ ~TakeT32(t) => dest'[t] = dest[t] /\ src'[t] = src[t] /\ len'[t] = len[t]
  BY DEF T32, VecStep, LocalInv, TypeInv, TypeOK, Goto, Advance, cursor
<1>2. busy(t) /\ dest[t] \in Nat /\ len[t] \in Nat /\ NeedOK(t)
  BY <1>1, RequestFacts DEF busy
<1>3. /\ len[t] > 0 => dest[t] % 16 = 0
      /\ len[t] >= 16 => dest[t] % 32 = 0
      /\ len[t] >= 32 => dest[t] % 64 = 0
      /\ len[t] < 64
  BY <1>1, <1>2, RequestFacts DEF AlignOK, Tails
<1>4. CASE TakeT32(t)
  <2>1. dest[t] % 64 = 0 /\ len[t] >= 32
    BY <1>2, <1>3, <1>4 DEF TakeT32
  <2>2. /\ (dest[t] + 32) % 32 = 0 /\ (dest[t] + 32) % 16 = 0
        /\ LineBase(dest[t] + 32) = LineBase(dest[t])
    <3>1. (dest[t] + 32) % 64 = 32
      BY <1>2, <2>1
    <3>2. (dest[t] + 32) % 32 = 0 /\ (dest[t] + 32) % 16 = 0
      BY <1>2, <2>1
    <3> QED
      BY <1>2, <2>1, <3>1, <3>2 DEF LineBase, CACHELINE_SIZE
  <2>3. CursorOK(t)'
    BY <1>1, <1>2, <1>4, <2>1, CursorAdvance
  <2>4. AlignOK(t)'
    BY <1>1, <1>2, <1>3, <1>4, <2>1, <2>2 DEF AlignOK, Heads, Blocks, InBlock, Tails
  <2>5. NeedOK(t)'
    BY <1>1, <1>2, <1>4, <2>1, <2>2 DEF NeedOK, fn, Heads, Tails, Line
  <2> QED
    BY <2>3, <2>4, <2>5 DEF LocalOK
<1>5. CASE ~TakeT32(t)
  <2>1. len[t] < 32
    BY <1>2, <1>5 DEF TakeT32
  <2>2. CursorOK(t)'
    BY <1>1, <1>2, <1>5, CursorStays
  <2>3. AlignOK(t)'
    BY <1>1, <1>3, <1>5, <2>1 DEF AlignOK, Heads, Blocks, InBlock, Tails
  <2>4. NeedOK(t)'
    BY <1>1, <1>2, <1>5 DEF NeedOK, fn, Heads, Tails
  <2> QED
    BY <2>2, <2>3, <2>4 DEF LocalOK
<1> QED
  BY <1>4, <1>5

LEMMA LocalT16 ==
  ASSUME LocalInv, NEW t \in Thread, T16(t)
  PROVE  LocalOK(t)'
<1>1. /\ pc[t] = "t16" /\ pc'[t] = "tail" /\ req'[t] = req[t] /\ need_flush'[t] = need_flush[t]
      /\ TakeT16(t) => dest'[t] = dest[t] + 16 /\ src'[t] = src[t] + 16 /\ len'[t] = len[t] - 16
      /\ ~TakeT16(t) => dest'[t] = dest[t] /\ src'[t] = src[t] /\ len'[t] = len[t]
  BY DEF T16, VecStep, LocalInv, TypeInv, TypeOK, Goto, Advance, cursor
<1>2. busy(t) /\ dest[t] \in Nat /\ len[t] \in Nat /\ NeedOK(t)
  BY <1>1, RequestFacts DEF busy
<1>3. /\ len[t] > 0 => dest[t] % 16 = 0
      /\ len[t] >= 16 => dest[t] % 32 = 0
      /\ len[t] < 32
  BY <1>1, <1>2, RequestFacts DEF AlignOK, Tails
<1>4. CASE TakeT16(t)
  <2>1. dest[t] % 32 = 0 /\ len[t] >= 16
    BY <1>2, <1>3, <1>4 DEF TakeT16
  <2>2. /\ (dest[t] + 16) % 16 = 0
        /\ LineBase(dest[t] + 16) = LineBase(dest[t])
    BY <1>2, <2>1 DEF LineBase, CACHELINE_SIZE
  <2>3. CursorOK(t)'
    BY <1>1, <1>2, <1>4, <2>1, CursorAdvance
  <2>4. AlignOK(t)'
    BY <1>1, <1>2, <1>3, <1>4, <2>1, <2>2 DEF AlignOK, Heads, Blocks, InBlock, Tails
  <2>5. NeedOK(t)'
    BY <1>1, <1>2, <1>4, <2>1, <2>2 DEF NeedOK, fn, Heads, Tails, Line
  <2> QED
    BY <2>3, <2>4, <2>5 DEF LocalOK
<1>5. CASE ~TakeT16(t)
  <2>1. len[t] < 16
    BY <1>2, <1>5 DEF TakeT16
  <2>2. CursorOK(t)'
    BY <1>1, <1>2, <1>5, CursorStays
  <2>3. AlignOK(t)'
    BY <1>1, <1>2, <1>3, <1>5, <2>1 DEF AlignOK, Heads, Blocks, InBlock, Tails
  <2>4. NeedOK(t)'
    BY <1>1, <1>2, <1>5 DEF NeedOK, fn, Heads, Tails
  <2> QED
    BY <2>2, <2>3, <2>4 DEF LocalOK
<1> QED
  BY <1>4, <1>5

\* Steps that move no cursor: what they change is pc, vec or need_flush.
LEMMA LocalPlain ==
  ASSUME LocalInv, NEW t \in Thread,
         FlushHead(t) \/ Tail(t) \/ FlushEnd(t) \/ Return(t) \/ clwb_extent(t)
  PROVE  LocalOK(t)'
<1>1. /\ req'[t] = req[t] /\ dest'[t] = dest[t] /\ src'[t] = src[t]
      /\ len'[t] = len[t] /\ need_flush'[t] = need_flush[t]
      /\ busy(t)
  BY DEF FlushHead, Tail, FlushEnd, Return, clwb_extent, local, cursor, busy
<1>2. CursorOK(t)' /\ AlignOK(t) /\ NeedOK(t)
  BY <1>1, CursorStays, RequestFacts
<1>3. CASE FlushHead(t)
  <2>1. pc[t] = "fhead" /\ pc'[t] = "k16"
    BY <1>3 DEF FlushHead, Goto, LocalInv, TypeInv, TypeOK
  <2>2. AlignOK(t)' /\ NeedOK(t)'
    BY <1>1, <1>2, <2>1 DEF AlignOK, NeedOK, fn, Heads, Blocks, InBlock, Tails
  <2> QED
    BY <1>2, <2>2 DEF LocalOK
<1>4. CASE Tail(t)
  <2>1. pc[t] = "tail" /\ pc'[t] = "fend"
    BY <1>4 DEF Tail, Goto, LocalInv, TypeInv, TypeOK
  <2>2. AlignOK(t)' /\ NeedOK(t)'
    BY <1>1, <1>2, <2>1 DEF AlignOK, NeedOK, fn, Heads, Blocks, InBlock, Tails
  <2> QED
    BY <1>2, <2>2 DEF LocalOK
<1>5. CASE FlushEnd(t) \/ Return(t) \/ clwb_extent(t)
  <2>1. pc'[t] \in {"idle", "ret", "extent", "fence"}
    <3>1. req[t].op.then \in {"nothing", "fence", "extent"}
      BY FnType DEF LocalInv, TypeInv, GoodOp
    <3> QED
      BY <1>5, <3>1 DEF FlushEnd, Return, clwb_extent, Goto, LocalInv, TypeInv, TypeOK
  <2>2. AlignOK(t)' /\ NeedOK(t)'
    BY <1>1, <1>2, <2>1 DEF AlignOK, NeedOK, fn, Heads, Blocks, InBlock, Tails
  <2> QED
    BY <1>2, <2>2 DEF LocalOK
<1> QED
  BY <1>3, <1>4, <1>5

LEMMA LocalBlockStay ==
  ASSUME LocalInv, NEW t \in Thread, BlockEnter(t) \/ BlockStore(t) \/ BlockClwb(t) \/ BlockSkip(t)
  PROVE  LocalOK(t)'
<1>1. /\ req'[t] = req[t] /\ dest'[t] = dest[t] /\ src'[t] = src[t]
      /\ len'[t] = len[t] /\ need_flush'[t] = need_flush[t]
      /\ busy(t)
  BY DEF BlockEnter, BlockStore, BlockClwb, BlockSkip, TakeBlock, Blocks, local, cursor, busy
<1>2. CursorOK(t)' /\ AlignOK(t) /\ NeedOK(t) /\ len[t] \in Nat
  BY <1>1, CursorStays, RequestFacts
<1>3. CASE BlockEnter(t)
  <2>1. pc[t] \in Blocks /\ pc'[t] = "vec" /\ blk'[t] = Vectors(pc[t]) /\ len[t] >= 32 * Vectors(pc[t])
    BY <1>3 DEF BlockEnter, TakeBlock, Goto, LocalInv, TypeInv, TypeOK
  <2>2. blk'[t] = 16 \/ len[t] < 64 * blk'[t]
    BY <1>2, <2>1 DEF AlignOK, Blocks, Vectors
  <2>3. AlignOK(t)'
    BY <1>1, <1>2, <2>1, <2>2 DEF AlignOK, Heads, Blocks, InBlock, Tails
  <2>4. NeedOK(t)'
    BY <1>1, <1>2, <2>1 DEF NeedOK, fn, Heads, Tails
  <2> QED
    BY <1>2, <2>3, <2>4 DEF LocalOK
<1>4. CASE BlockStore(t) \/ BlockClwb(t)
  <2>1. pc[t] \in InBlock /\ pc'[t] \in InBlock /\ blk'[t] = blk[t]
    BY <1>4 DEF BlockStore, BlockClwb, Goto, InBlock, LocalInv, TypeInv, TypeOK, local
  <2>2. AlignOK(t)'
    BY <1>1, <1>2, <2>1 DEF AlignOK, Heads, Blocks, InBlock, Tails
  <2>3. NeedOK(t)'
    BY <1>1, <1>2, <2>1 DEF NeedOK, fn, Heads, Tails, InBlock
  <2> QED
    BY <1>2, <2>2, <2>3 DEF LocalOK
<1>5. CASE BlockSkip(t)
  <2>1. pc[t] \in Blocks /\ pc'[t] = SkipTo(pc[t]) /\ len[t] < 32 * Vectors(pc[t])
    <3>1. pc[t] \in Blocks /\ pc'[t] = SkipTo(pc[t]) /\ ~(len[t] >= 32 * Vectors(pc[t]))
      BY <1>5 DEF BlockSkip, TakeBlock, Goto, LocalInv, TypeInv, TypeOK
    <3>2. Vectors(pc[t]) \in Nat
      BY <3>1 DEF Vectors, Blocks
    <3> QED
      BY <1>2, <3>1, <3>2
  <2>2. \/ pc'[t] = "k8" /\ len[t] < 512
        \/ pc'[t] = "k4" /\ len[t] < 256
        \/ pc'[t] = "k2" /\ len[t] < 128
        \/ pc'[t] = "need" /\ len[t] < 64
    BY <1>2, <2>1 DEF SkipTo, Vectors, Blocks
  <2>3. AlignOK(t)'
    BY <1>1, <1>2, <2>1, <2>2 DEF AlignOK, Heads, Blocks, InBlock, Tails
  <2>4. NeedOK(t)'
    BY <1>1, <1>2, <2>1, <2>2 DEF NeedOK, fn, Heads, Tails
  <2> QED
    BY <1>2, <2>3, <2>4 DEF LocalOK
<1> QED
  BY <1>3, <1>4, <1>5

LEMMA LocalBlockEnd ==
  ASSUME LocalInv, NEW t \in Thread, BlockEnd(t)
  PROVE  LocalOK(t)'
<1>1. /\ req'[t] = req[t] /\ dest'[t] = dest[t] + 32 * blk[t] /\ src'[t] = src[t] + 32 * blk[t]
      /\ len'[t] = len[t] - 32 * blk[t] /\ need_flush'[t] = need_flush[t]
      /\ busy(t) /\ pc[t] = "vec" /\ pc'[t] = After(blk[t])
      /\ blk[t] \in {2, 4, 8, 16} /\ len[t] >= 32 * blk[t] /\ dest[t] \in Nat /\ len[t] \in Nat
  BY DEF BlockEnd, busy, Goto, Advance, LocalInv, TypeInv, TypeOK, BlockOK, InBlock
<1>2. CursorOK(t)' /\ AlignOK(t) /\ NeedOK(t)
  BY <1>1, CursorAdvance, RequestFacts
<1>3. dest[t] % 64 = 0 /\ (len[t] < 64 * blk[t] \/ blk[t] = 16)
  BY <1>1, <1>2 DEF AlignOK, InBlock
<1>4. (dest[t] + 32 * blk[t]) % 64 = 0 /\ (dest[t] + 32 * blk[t]) % 32 = 0 /\ (dest[t] + 32 * blk[t]) % 16 = 0
  BY <1>1, <1>3
<1>5. \/ pc'[t] = "k16"
      \/ pc'[t] = "k4" /\ len'[t] < 256
      \/ pc'[t] = "k2" /\ len'[t] < 128
      \/ pc'[t] = "need" /\ len'[t] < 64
  BY <1>1, <1>3 DEF After
<1>6. AlignOK(t)'
  BY <1>1, <1>4, <1>5 DEF AlignOK, Heads, Blocks, InBlock, Tails
<1>7. NeedOK(t)'
  BY <1>1, <1>2, <1>5 DEF NeedOK, fn, Heads, Tails
<1> QED
  BY <1>2, <1>6, <1>7 DEF LocalOK

\* What is left for the tail fits into the line dest points into.
LEMMA TailInLine ==
  ASSUME NEW x \in Nat, NEW n \in Nat, n < 64, n > 0 => x % 16 = 0,
         n >= 16 => x % 32 = 0, n >= 32 => x % 64 = 0
  PROVE  \A a \in x .. (x + n - 1) : a \in Line(x)
<1>1. (x % 64) + n <= 64
  OBVIOUS
<1> QED
  BY <1>1 DEF Line, LineBase, CACHELINE_SIZE

LEMMA LocalNeedFlush ==
  ASSUME LocalInv, NEW t \in Thread, NeedFlush(t)
  PROVE  LocalOK(t)'
<1>1. /\ req'[t] = req[t] /\ dest'[t] = dest[t] /\ src'[t] = src[t] /\ len'[t] = len[t]
      /\ busy(t) /\ pc[t] = "need" /\ pc'[t] = "t32"
      /\ need_flush'[t] = (fn(t).edges = "need" /\ len[t] # 0)
  BY DEF NeedFlush, busy, Goto, LocalInv, TypeInv, TypeOK, cursor
<1>2. /\ CursorOK(t)' /\ AlignOK(t) /\ dest[t] \in Nat /\ len[t] \in Nat /\ req[t].n \in Nat
      /\ req[t].d \in Nat /\ req[t].d <= dest[t] /\ dest[t] + len[t] = req[t].d + req[t].n
  BY <1>1, CursorStays, RequestFacts
<1>3. \A a \in dest[t] .. (dest[t] + len[t] - 1) : a \in Line(dest[t])
  <2>1. /\ len[t] < 64
        /\ len[t] > 0 => dest[t] % 16 = 0
        /\ len[t] >= 16 => dest[t] % 32 = 0
        /\ len[t] >= 32 => dest[t] % 64 = 0
    BY <1>1, <1>2 DEF AlignOK
  <2> QED
    BY <1>2, <2>1, TailInLine
<1>4. len[t] # 0 => req[t].n > 0 /\ req[t].d + req[t].n - 1 \in Line(dest[t])
  BY <1>2, <1>3
<1>5. AlignOK(t)'
  BY <1>1, <1>2 DEF AlignOK, Heads, Blocks, InBlock, Tails
<1>6. NeedOK(t)'
  BY <1>1, <1>4 DEF NeedOK, fn, Heads, Tails
<1> QED
  BY <1>2, <1>5, <1>6 DEF LocalOK

LEMMA LocalStep == LocalInv /\ [Next]_vars => LocalInv'
<1> SUFFICES ASSUME LocalInv, [Next]_vars PROVE LocalInv'
  OBVIOUS
<1>1. TypeInv'
  BY TypeStep DEF LocalInv
<1>2. ASSUME NEW t \in Thread, (Step(t) /\ ~Fault(t)) \/ Call(t)
      PROVE  /\ \A u \in Thread : LocalOK(u)'
             /\ up'
  <2>1. LocalOK(t)'
    <3>1. CASE Fence(t)
      BY <3>1, IdleLocal DEF Fence, Goto, LocalInv, TypeInv, TypeOK
    <3> QED
      BY <1>2, <3>1, LocalCall, LocalHead, LocalA16, LocalA32, LocalT32, LocalT16, LocalPlain,
         LocalBlockStay, LocalBlockEnd, LocalNeedFlush DEF Step
  <2>2. ASSUME NEW u \in Thread, u # t PROVE LocalOK(u)'
    BY <1>2, <2>2, OthersLocals, LocalFrame DEF LocalInv, TypeInv
  <2>3. up'
    BY <1>2 DEF Step, Call, Begin, HeadSkip, Head, HeadNext, A16, A32, T32, T16, VecStep,
       FlushHead, FlushEnd, NeedFlush, Tail, BlockEnter, BlockSkip, BlockStore, BlockClwb,
       BlockEnd, Return, clwb_extent, Fence
  <2> QED
    BY <2>1, <2>2, <2>3
<1>3. ASSUME NEW t \in Thread, Fault(t) PROVE LocalInv'
  BY <1>1, <1>3, IdleLocal DEF Fault, LocalInv, busy
<1>4. CASE PowerFailure
  BY <1>1, <1>4, IdleLocal DEF PowerFailure, LocalInv, busy
<1>5. CASE Restart \/ Eviction \/ Terminated \/ UNCHANGED vars
  <2>1. \A u \in Thread : SameLocals(u)
    BY <1>5 DEF Restart, Eviction, Terminated, vars, local, cursor, SameLocals
  <2>2. \A u \in Thread : LocalOK(u)'
    BY <2>1, LocalFrame DEF LocalInv
  <2>3. up' = up \/ up'
    BY <1>5 DEF Restart, Eviction, Terminated, vars
  <2>4. ~up' => \A u \in Thread : ~busy(u)'
    BY <2>1, <2>3 DEF LocalInv, busy, SameLocals
  <2> QED
    BY <1>1, <2>2, <2>4 DEF LocalInv
<1> QED
  BY <1>1, <1>2, <1>3, <1>4, <1>5 DEF Next, LocalInv

-----------------------------------------------------------------------------
(***************************************************************************)
(* Which calls kill the process.                                           *)
(***************************************************************************)
LEMMA Skew ==
  ASSUME NEW x \in Nat, NEW y \in Nat, NEW w \in {16, 32}, x % w = 0, y % w # 0
  PROVE  (y - x) % 32 # 0
<1>1. CASE w = 16
  BY <1>1
<1>2. CASE w = 32
  BY <1>2
<1> QED
  BY <1>1, <1>2

LEMMA FaultStep ==
  ASSUME LocalInv, NEW t \in Thread, Fault(t)
  PROVE  \/ (req[t].s - req[t].d) % 32 # 0
         \/ fn(t).edges = "always" /\ Line(req[t].d + req[t].n) \cap Addr = {}
<1>0. busy(t)
  BY DEF Fault, VectorFault, PageFault, TakeBlock, Blocks, busy
<1>1. /\ dest[t] \in Nat /\ src[t] \in Nat /\ len[t] \in Nat /\ req[t].d \in Nat
      /\ src[t] - dest[t] = req[t].s - req[t].d
      /\ dest[t] + len[t] = req[t].d + req[t].n /\ req[t].d <= dest[t] /\ req[t].n \in Nat
      /\ req[t] \in Requests /\ AlignOK(t) /\ NeedOK(t)
  BY <1>0, RequestFacts
<1>2. ASSUME NEW w \in {16, 32}, dest[t] % w = 0, ~Aligned(t, w)
      PROVE  (req[t].s - req[t].d) % 32 # 0
  <2>1. src[t] % w # 0
    BY <1>2 DEF Aligned
  <2> QED
    BY <1>1, <1>2, <2>1, Skew
<1>3. CASE VectorFault(t)
  <2>1. CASE pc[t] = "a16" /\ TakeA16(t) /\ ~Aligned(t, 16)
    <3>1. dest[t] % 16 = 0
      BY <1>1, <2>1 DEF AlignOK, Heads, TakeA16
    <3> QED
      BY <1>2, <2>1, <3>1
  <2>2. CASE pc[t] = "a32" /\ TakeA32(t) /\ ~Aligned(t, 32)
    <3>1. dest[t] % 32 = 0
      BY <1>1, <2>2 DEF AlignOK, Heads, TakeA32
    <3> QED
      BY <1>2, <2>2, <3>1
  <2>3. CASE TakeBlock(t) /\ ~Aligned(t, 32)
    <3>1. len[t] >= 64
      BY <1>1, <2>3 DEF TakeBlock, Vectors, Blocks
    <3>2. dest[t] % 32 = 0
      BY <1>1, <2>3, <3>1 DEF AlignOK, TakeBlock
    <3> QED
      BY <1>2, <2>3, <3>2
  <2>4. CASE pc[t] = "t32" /\ TakeT32(t) /\ ~Aligned(t, 32)
    <3>1. dest[t] % 32 = 0
      BY <1>1, <2>4 DEF AlignOK, Tails, TakeT32
    <3> QED
      BY <1>2, <2>4, <3>1
  <2>5. CASE pc[t] = "t16" /\ TakeT16(t) /\ ~Aligned(t, 16)
    <3>1. dest[t] % 16 = 0
      BY <1>1, <2>5 DEF AlignOK, Tails, TakeT16
    <3> QED
      BY <1>2, <2>5, <3>1
  <2> QED
    BY <1>3, <2>1, <2>2, <2>3, <2>4, <2>5 DEF VectorFault
<1>4. CASE PageFault(t)
  <2>1. pc[t] = "fend" /\ Line(dest[t]) \cap Addr = {} /\ (need_flush[t] \/ fn(t).edges = "always")
    BY <1>4 DEF PageFault, TakeFlushEnd
  <2>2. req[t].d .. (req[t].d + req[t].n - 1) \subseteq Addr
    BY <1>1, RequestsAssumption
  <2>3. CASE need_flush[t]
    <3>1. req[t].n > 0 /\ req[t].d + req[t].n - 1 \in Line(dest[t])
      BY <1>1, <2>1, <2>3 DEF NeedOK, Tails
    <3>2. req[t].d + req[t].n - 1 \in Addr
      BY <1>1, <2>2, <3>1
    <3> QED
      BY <2>1, <3>1, <3>2
  <2>4. CASE fn(t).edges = "always"
    <3>1. CASE len[t] > 0
      <4>1. dest[t] \in Addr
        BY <1>1, <2>2, <3>1
      <4>2. dest[t] \in Line(dest[t])
        BY <1>1 DEF Line, LineBase, CACHELINE_SIZE
      <4> QED
        BY <2>1, <4>1, <4>2
    <3>2. CASE len[t] = 0
      BY <1>1, <2>1, <2>4, <3>2
    <3> QED
      BY <1>1, <3>1, <3>2
  <2> QED
    BY <2>1, <2>3, <2>4
<1> QED
  BY <1>3, <1>4 DEF Fault

\* A vector instruction of any of the functions faults only if source and
\* destination differ modulo 32, and a clwb touches an unmapped page only at
\* the end of a non-temporal call that ends where the mapping does.
THEOREM FaultsAreExplained == Spec => []FaultsExplained
<1> DEFINE J == LocalInv /\ FaultsExplained
<1>1. Init => J
  BY LocalInit DEF Init, FaultsExplained
<1>2. J /\ [Next]_vars => J'
  <2> SUFFICES ASSUME J, [Next]_vars PROVE FaultsExplained'
    BY LocalStep
  <2>1. CASE \E t \in Thread : Fault(t)
    <3>1. PICK t \in Thread : Fault(t)
      BY <2>1
    <3>2. died' = died \cup {req[t]}
      BY <3>1 DEF Fault
    <3> QED
      BY <3>1, <3>2, FaultStep DEF FaultsExplained, fn
  <2>2. CASE ~\E t \in Thread : Fault(t)
    <3>1. died' = died
      BY <2>2 DEF Next, Step, Call, Begin, HeadSkip, Head, HeadNext, A16, A32, T32, T16, VecStep,
         FlushHead, FlushEnd, NeedFlush, Tail, BlockEnter, BlockSkip, BlockStore, BlockClwb,
         BlockEnd, Return, clwb_extent, Fence, PowerFailure, Restart, Eviction, Terminated,
         vars, history
    <3> QED
      BY <3>1 DEF FaultsExplained
  <2> QED
    BY <2>1, <2>2
<1>3. J => FaultsExplained
  OBVIOUS
<1> QED
  BY <1>1, <1>2, <1>3, PTL DEF Spec

-----------------------------------------------------------------------------
(***************************************************************************)
(* Which lines a call writes back.                                         *)
(***************************************************************************)
\* The lines a call may send to the media, as WritesBackOwnLines has them.
OwnLines(t) ==
    (IF req[t].n = 0 THEN {} ELSE Lines(req[t]))
    \cup (IF fn(t).edges = "always" \/ req[t].n = 0 THEN Line(req[t].d + req[t].n) ELSE {})

WbInv == LocalInv /\ \A t \in Thread : ExtentOK(t)

LEMMA LineBaseMonotone ==
  ASSUME NEW x \in Nat, NEW y \in Nat, x <= y
  PROVE  LineBase(x) <= LineBase(y)
BY DEF LineBase, CACHELINE_SIZE

LEMMA LineBaseSame ==
  ASSUME NEW x \in Nat, NEW y \in Nat, y \in Line(x)
  PROVE  LineBase(y) = LineBase(x)
BY DEF Line, LineBase, CACHELINE_SIZE

\* The line of an address of the destination is one of its lines.
LEMMA LineOwn ==
  ASSUME LocalInv, NEW t \in Thread, busy(t), NEW x \in Nat,
         req[t].d <= x, x < req[t].d + req[t].n
  PROVE  Line(x) \subseteq OwnLines(t)
<1>1. req[t].d \in Nat /\ req[t].n \in Nat /\ req[t].n # 0
  BY RequestFacts
<1>2. LineBase(req[t].d) <= LineBase(x) /\ LineBase(x) <= LineBase(req[t].d + req[t].n - 1)
  BY <1>1, LineBaseMonotone
<1>3. LineBase(req[t].d) \in Nat /\ LineBase(x) \in Nat /\ LineBase(req[t].d + req[t].n - 1) \in Nat
  BY <1>1, LineBaseNat
<1>4. Line(x) \subseteq Lines(req[t])
  BY <1>2, <1>3 DEF Line, Lines, CACHELINE_SIZE
<1> QED
  BY <1>1, <1>4 DEF OwnLines

\* The line dest points to when no byte is left: a non-temporal function, or a
\* call of length 0.
LEMMA LineAfter ==
  ASSUME NEW t \in Thread, fn(t).edges = "always" \/ req[t].n = 0
  PROVE  Line(req[t].d + req[t].n) \subseteq OwnLines(t)
BY DEF OwnLines

\* The line of any address between dest and the end of the destination.
LEMMA LineAhead ==
  ASSUME LocalInv, NEW t \in Thread, busy(t), NEW x \in Nat,
         req[t].d <= x, x <= req[t].d + req[t].n,
         x = req[t].d + req[t].n => fn(t).edges = "always" \/ req[t].n = 0
  PROVE  Line(x) \subseteq OwnLines(t)
<1>1. req[t].d \in Nat /\ req[t].n \in Nat
  BY RequestFacts
<1>2. CASE x = req[t].d + req[t].n
  BY <1>2, LineAfter
<1>3. CASE x < req[t].d + req[t].n
  BY <1>3, LineOwn
<1> QED
  BY <1>1, <1>2, <1>3

\* What a step of t does to the write-backs under way.
Sends(t, X) == /\ \A u \in Thread : u # t => pend'[u] \subseteq pend[u]
               /\ pend'[t] \subseteq pend[t] \cup X

LEMMA ClwbSends ==
  ASSUME TypeOK, NEW t \in Thread, NEW x, Clwb(t, x)
  PROVE  Sends(t, Line(x))
BY DEF TypeOK, Clwb, Sends

LEMMA SendsMore ==
  ASSUME NEW t \in Thread, NEW X, NEW Y, Sends(t, X), X \subseteq Y
  PROVE  Sends(t, Y)
BY DEF Sends

LEMMA HwSends ==
  ASSUME NEW t \in Thread, NEW X, UNCHANGED hw
  PROVE  Sends(t, X)
BY DEF hw, Sends

LEMMA LessSends ==
  ASSUME NEW t \in Thread, NEW n, NEW X, cpy_less_16b_noflush(t, n)
  PROVE  Sends(t, X)
BY DEF cpy_less_16b_noflush, Store, hw, Sends

\* A vector store sends at most the bytes it stores.
LEMMA VecSends ==
  ASSUME LocalInv, NEW t \in Thread, busy(t), NEW k, NEW off \in Nat, NEW w \in Nat,
         off + w <= len[t], VecStore(t, k, off, w)
  PROVE  Sends(t, OwnLines(t))
<1> DEFINE W == (dest[t] + off) .. (dest[t] + off + w - 1)
<1>1. /\ dest[t] \in Nat /\ len[t] \in Nat /\ req[t].d \in Nat /\ req[t].n \in Nat
      /\ req[t].d <= dest[t] /\ dest[t] + len[t] = req[t].d + req[t].n
  BY RequestFacts
<1>2. ASSUME NEW a \in W PROVE a \in OwnLines(t)
  <2>1. a \in Nat /\ req[t].d <= a /\ a < req[t].d + req[t].n
    BY <1>1, <1>2
  <2>2. a \in Line(a)
    BY <2>1 DEF Line, LineBase, CACHELINE_SIZE
  <2> QED
    BY <2>1, <2>2, LineOwn
<1> HIDE DEF W
<1>3. Sends(t, W)
  <2>1. UNCHANGED hw \/ Store(W, Data(t, Junk)) \/ NtStore(t, W, Data(t, Junk))
    BY DEF VecStore, W
  <2> QED
    BY <2>1 DEF hw, Store, NtStore, Sends
<1> QED
  BY <1>2, <1>3, SendsMore

\* Every instruction of a call.
LEMMA StepSends ==
  ASSUME WbInv, NEW t \in Thread, Step(t), ~Fault(t)
  PROVE  Sends(t, OwnLines(t))
<1>1. LocalInv /\ TypeOK /\ ExtentOK(t) /\ BlockOK(t)
  BY DEF WbInv, LocalInv, TypeInv
<1>2. busy(t)
  BY DEF Step, HeadSkip, Head, HeadNext, A16, A32, T32, T16, VecStep, FlushHead, FlushEnd,
     NeedFlush, Tail, BlockEnter, BlockSkip, TakeBlock, Blocks, BlockStore, BlockClwb, BlockEnd,
     Return, clwb_extent, Fence, busy
<1>3. /\ dest[t] \in Nat /\ len[t] \in Nat /\ req[t].d \in Nat /\ req[t].n \in Nat
      /\ req[t].d <= dest[t] /\ dest[t] + len[t] = req[t].d + req[t].n
      /\ AlignOK(t) /\ NeedOK(t)
  BY <1>1, <1>2, RequestFacts
<1>4. CASE UNCHANGED hw
  BY <1>4, HwSends
<1>5. CASE Head(t) \/ Tail(t)
  BY <1>5, LessSends DEF Head, Tail
<1>6. CASE HeadNext(t)
  <2>1. CASE fn(t).edges = "always"
    <3>1. Clwb(t, dest[t])
      BY <1>6, <2>1 DEF HeadNext
    <3>2. Line(dest[t]) \subseteq OwnLines(t)
      BY <1>1, <1>2, <1>3, <2>1, LineAhead
    <3> QED
      BY <1>1, <3>1, <3>2, ClwbSends, SendsMore
  <2>2. CASE fn(t).edges # "always"
    BY <1>6, <2>2, HwSends DEF HeadNext
  <2> QED
    BY <2>1, <2>2
<1>7. CASE A16(t) \/ A32(t) \/ T32(t) \/ T16(t)
  <2>1. PICK w \in {16, 32} : \/ UNCHANGED hw
                              \/ VecStore(t, fn(t).one, 0, w) /\ w <= len[t]
    BY <1>7 DEF A16, A32, T32, T16, VecStep, TakeA16, TakeA32, TakeT32, TakeT16, hw
  <2>2. 0 + w <= len[t] <=> w <= len[t]
    BY <1>3
  <2> QED
    BY <1>1, <1>2, <2>1, <2>2, HwSends, VecSends
<1>8. CASE FlushHead(t)
  <2>1. CASE need_flush[t]
    <3>1. Clwb(t, req[t].d)
      BY <1>8, <2>1 DEF FlushHead
    <3>2. Line(req[t].d) \subseteq OwnLines(t)
      BY <1>1, <1>2, <1>3, LineAhead
    <3> QED
      BY <1>1, <3>1, <3>2, ClwbSends, SendsMore
  <2>2. CASE ~need_flush[t]
    BY <1>8, <2>2, HwSends DEF FlushHead
  <2> QED
    BY <2>1, <2>2
<1>9. CASE BlockStore(t)
  <2>1. /\ pc[t] = "vec" /\ vec[t] < blk[t] /\ VecStore(t, fn(t).block, 32 * vec[t], 32)
    BY <1>9 DEF BlockStore
  <2>2. vec[t] \in Nat /\ blk[t] \in Nat /\ 32 * blk[t] <= len[t]
    BY <1>1, <2>1 DEF BlockOK, InBlock, TypeOK
  <2>3. 32 * vec[t] \in Nat /\ 32 * vec[t] + 32 <= len[t]
    BY <1>3, <2>1, <2>2
  <2> QED
    BY <1>1, <1>2, <2>1, <2>3, VecSends
<1>10. CASE BlockClwb(t)
  <2> DEFINE x == dest[t] + 32 * (vec[t] - 2)
  <2>1. pc[t] = "vclwb" /\ Clwb(t, x)
    BY <1>10 DEF BlockClwb
  <2>2. /\ vec[t] \in 2 .. 16 /\ vec[t] <= blk[t] /\ blk[t] \in Nat /\ 32 * blk[t] <= len[t]
    BY <1>1, <2>1 DEF BlockOK, InBlock, TypeOK
  <2>3. x \in Nat /\ req[t].d <= x /\ x < req[t].d + req[t].n
    BY <1>3, <2>2
  <2> HIDE DEF x
  <2>4. Line(x) \subseteq OwnLines(t)
    BY <1>1, <1>2, <2>3, LineOwn
  <2> QED
    BY <1>1, <2>1, <2>4, ClwbSends, SendsMore
<1>11. CASE FlushEnd(t)
  <2>1. CASE TakeFlushEnd(t)
    <3>1. pc[t] = "fend" /\ Clwb(t, dest[t])
      BY <1>11, <2>1 DEF FlushEnd
    <3>2. CASE fn(t).edges = "always"
      <4>1. Line(dest[t]) \subseteq OwnLines(t)
        BY <1>1, <1>2, <1>3, <3>2, LineAhead
      <4> QED
        BY <1>1, <3>1, <4>1, ClwbSends, SendsMore
    <3>3. CASE fn(t).edges # "always"
      <4> DEFINE e == req[t].d + req[t].n - 1
      <4>1. need_flush[t] /\ fn(t).edges = "need"
        BY <1>3, <2>1, <3>3 DEF TakeFlushEnd, NeedOK
      <4>2. req[t].n > 0 /\ e \in Line(dest[t])
        BY <1>3, <3>1, <4>1 DEF NeedOK, Tails
      <4>3. e \in Nat /\ LineBase(e) = LineBase(dest[t])
        BY <1>3, <4>2, LineBaseSame
      <4>4. Line(dest[t]) \subseteq OwnLines(t)
        <5>1. Line(e) \subseteq OwnLines(t)
          BY <1>1, <1>2, <1>3, <4>2, <4>3, LineOwn
        <5> QED
          BY <4>3, <5>1 DEF Line
      <4> QED
        BY <1>1, <3>1, <4>4, ClwbSends, SendsMore
    <3> QED
      BY <3>2, <3>3
  <2>2. CASE ~TakeFlushEnd(t)
    BY <1>11, <2>2, HwSends DEF FlushEnd
  <2> QED
    BY <2>1, <2>2
<1>12. CASE clwb_extent(t)
  <2>1. CASE uptr[t] < req[t].d + req[t].n
    <3>1. pc[t] = "extent" /\ Clwb(t, uptr[t])
      BY <1>12, <2>1 DEF clwb_extent
    <3>2. uptr[t] \in Nat /\ uptr[t] % 64 = 0 /\ uptr[t] >= LineBase(req[t].d)
      BY <1>1, <3>1 DEF ExtentOK, TypeOK
    <3>3. LineBase(uptr[t]) = uptr[t] /\ LineBase(req[t].d) \in Nat
      <4>1. LineBase(req[t].d) \in Nat
        BY <1>3, LineBaseNat
      <4> QED
        BY <3>2, <4>1 DEF LineBase, CACHELINE_SIZE
    <3>4. CASE uptr[t] >= req[t].d
      BY <1>1, <1>2, <2>1, <3>1, <3>2, <3>4, LineOwn, ClwbSends, SendsMore
    <3>5. CASE uptr[t] < req[t].d
      <4>1. LineBase(req[t].d) = uptr[t]
        BY <1>3, <3>2, <3>5 DEF LineBase, CACHELINE_SIZE
      <4>2. Line(req[t].d) = Line(uptr[t])
        BY <3>3, <4>1 DEF Line
      <4>3. Line(req[t].d) \subseteq OwnLines(t)
        BY <1>1, <1>2, <1>3, LineAhead
      <4> QED
        BY <1>1, <3>1, <4>2, <4>3, ClwbSends, SendsMore
    <3> QED
      BY <1>3, <3>2, <3>4, <3>5
  <2>2. CASE ~(uptr[t] < req[t].d + req[t].n)
    BY <1>12, <2>2, HwSends DEF clwb_extent
  <2> QED
    BY <2>1, <2>2
<1>13. CASE Fence(t)
  BY <1>1, <1>13 DEF Fence, Sfence, Sends, TypeOK
<1> QED
  BY <1>4, <1>5, <1>6, <1>7, <1>8, <1>9, <1>10, <1>11, <1>12, <1>13
     DEF Step, HeadSkip, BlockEnter, BlockSkip, BlockEnd, NeedFlush, Return

LEMMA WbInit == Init => WbInv
<1> SUFFICES ASSUME Init PROVE WbInv
  OBVIOUS
<1>1. \A t \in Thread : ExtentOK(t)
  BY DEF Init, ExtentOK
<1> QED
  BY <1>1, LocalInit DEF WbInv

LEMMA WbStep == WbInv /\ [Next]_vars => WbInv'
<1> SUFFICES ASSUME WbInv, [Next]_vars PROVE WbInv'
  OBVIOUS
<1>1. LocalInv'
  BY LocalStep DEF WbInv
<1>2. TypeOK /\ LocalInv
  BY DEF WbInv, LocalInv, TypeInv
<1>3. ASSUME NEW u \in Thread, SameLocals(u) PROVE ExtentOK(u)'
  BY <1>3 DEF SameLocals, WbInv, ExtentOK
<1>4. ASSUME NEW t \in Thread, (Step(t) /\ ~Fault(t)) \/ Call(t) PROVE ExtentOK(t)'
  <2> SUFFICES ASSUME pc'[t] = "extent"
               PROVE  uptr'[t] % 64 = 0 /\ uptr'[t] >= LineBase(req'[t].d)
    BY DEF ExtentOK, LineBase
  <2>1. CASE Return(t)
    <3>1. req[t].d \in Nat /\ uptr'[t] = LineBase(req[t].d) /\ req' = req
      BY <1>2, <2>1, RequestFacts DEF Return, busy, TypeOK
    <3>2. LineBase(req[t].d) \in Nat /\ LineBase(req[t].d) % 64 = 0
      BY <3>1, LineBaseAligned
    <3> QED
      BY <3>1, <3>2
  <2>2. CASE clwb_extent(t)
    <3>1. /\ pc[t] = "extent" /\ req' = req /\ uptr[t] \in Nat
          /\ uptr'[t] \in {uptr[t], uptr[t] + 64}
      BY <1>2, <2>2 DEF clwb_extent, CACHELINE_SIZE, TypeOK
    <3>2. uptr[t] % 64 = 0 /\ uptr[t] >= LineBase(req[t].d)
      BY <3>1 DEF WbInv, ExtentOK
    <3>3. LineBase(req[t].d) \in Nat
      BY <1>2, <3>1, RequestFacts, LineBaseNat DEF busy
    <3> QED
      BY <3>1, <3>2, <3>3
  <2>3. CASE ~Return(t) /\ ~clwb_extent(t)
    <3> USE <1>2 DEF Goto, TypeOK
    <3>1. ~Call(t)
      BY DEF Call, Begin
    <3>2. ~(HeadSkip(t) \/ Head(t) \/ HeadNext(t) \/ FlushHead(t) \/ FlushEnd(t) \/ NeedFlush(t) \/ Tail(t))
      BY DEF HeadSkip, Head, HeadNext, FlushHead, FlushEnd, NeedFlush, Tail
    <3>3. ~(A16(t) \/ A32(t) \/ T32(t) \/ T16(t))
      BY DEF A16, A32, T32, T16, VecStep
    <3>4. ~(BlockEnter(t) \/ BlockSkip(t))
      BY DEF BlockEnter, BlockSkip, SkipTo, Blocks
    <3>5. ~(BlockStore(t) \/ BlockClwb(t) \/ BlockEnd(t))
      BY DEF BlockStore, BlockClwb, BlockEnd, After
    <3>6. ~Fence(t)
      BY DEF Fence
    <3> QED
      BY <1>4, <2>3, <3>1, <3>2, <3>3, <3>4, <3>5, <3>6 DEF Step
  <2> QED
    BY <2>1, <2>2, <2>3
<1>5. ASSUME NEW t \in Thread, (Step(t) /\ ~Fault(t)) \/ Call(t)
      PROVE  \A u \in Thread : ExtentOK(u)'
  BY <1>2, <1>3, <1>4, <1>5, OthersLocals
<1>6. ASSUME \A u \in Thread : pc'[u] = "idle" PROVE \A u \in Thread : ExtentOK(u)'
  BY <1>6 DEF ExtentOK
<1>7. ASSUME NEW t \in Thread, Fault(t) PROVE \A u \in Thread : ExtentOK(u)'
  BY <1>6, <1>7 DEF Fault
<1>8. CASE PowerFailure
  BY <1>1, <1>6, <1>8 DEF PowerFailure, WbInv
<1>9. CASE Restart \/ Eviction \/ Terminated \/ UNCHANGED vars
  <2>1. \A u \in Thread : SameLocals(u)
    BY <1>9 DEF Restart, Eviction, Terminated, vars, local, cursor, SameLocals
  <2> QED
    BY <1>1, <1>3, <2>1 DEF WbInv
<1> QED
  BY <1>1, <1>5, <1>7, <1>8, <1>9 DEF Next, WbInv

\* No clwb and no non-temporal store of any function touches a line that is
\* not one of its destination's; the one exception is the line after it, which
\* the unguarded last clwb of the non-temporal functions (and a call of length
\* 0) writes back.
THEOREM WriteBackConfined == Spec => WritesBackOwnLines
<1>1. ASSUME WbInv, [Next]_vars, NEW t \in Thread, up, pc[t] # "idle"
      PROVE  pend'[t] \ pend[t] \subseteq OwnLines(t)
  <2>1. ASSUME NEW u \in Thread, Step(u) PROVE pend'[t] \ pend[t] \subseteq OwnLines(t)
    <3>1. CASE Fault(u)
      BY <3>1 DEF Fault
    <3>2. CASE ~Fault(u)
      BY <1>1, <2>1, <3>2, StepSends DEF Sends
    <3> QED
      BY <3>1, <3>2
  <2>2. ASSUME NEW u \in Thread, Call(u) PROVE pend'[t] \ pend[t] \subseteq OwnLines(t)
    BY <2>2 DEF Call, Begin, hw
  <2>3. CASE PowerFailure
    BY <2>3 DEF PowerFailure, LosePower
  <2>4. CASE Restart \/ Eviction \/ Terminated \/ UNCHANGED vars
    BY <2>4 DEF Restart, Eviction, Evict, Terminated, vars, hw
  <2> QED
    BY <1>1, <2>1, <2>2, <2>3, <2>4 DEF Next
<1>2. WbInv /\ [Next]_vars =>
        [\A t \in Thread : (up /\ pc[t] # "idle") =>
            pend'[t] \ pend[t] \subseteq
              (IF req[t].n = 0 THEN {} ELSE Lines(req[t]))
              \cup (IF fn(t).edges = "always" \/ req[t].n = 0
                    THEN Line(req[t].d + req[t].n) ELSE {})]_vars
  BY <1>1 DEF OwnLines
<1> QED
  BY <1>2, WbInit, WbStep, PTL DEF Spec, WritesBackOwnLines
=============================================================================
